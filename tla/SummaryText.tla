----------------------------- MODULE SummaryText -----------------------------
(***************************************************************************)
(* What a summary is made of (core/nlp/summarize.py): the articles it is   *)
(* asked about, and ThinkFilter, which takes the reasoning of the model    *)
(* off what it answers while the answer arrives piece by piece.  Both are  *)
(* functions; each is compared with a definition of the whole, over all    *)
(* the inputs up to a bound.                                               *)
(*                                                                         *)
(* A text is a sequence of characters.  TLC takes for characters the parts *)
(* the filter tells apart: <think> is "<" and "think>", so that a piece    *)
(* may end within it.                                                      *)
(***************************************************************************)
EXTENDS Naturals, SequencesExt

CONSTANTS
    Char,               \* the characters of a text
    Opening, Closing,   \* <think> and </think>
    NewLine, Blank,     \* what lstrip takes off, NewLine among it
    MaxInputArticles    \* the articles of a prompt, 12

ASSUME SummaryAssumption ==
    /\ Opening \in Seq(Char) \ {<<>>} /\ Closing \in Seq(Char) \ {<<>>}
    /\ NewLine \in Blank /\ MaxInputArticles \in Nat

Strip(text, blanks) ==
    LET kept == {i \in 1 .. Len(text) : text[i] \notin blanks}
    IN  IF kept = {} THEN <<>> ELSE SubSeq(text, Min(kept), Len(text))

StripLines(text) == Strip(text, {NewLine})
StripBlanks(text) == Strip(text, Blank)

\* Where a Closing begins, and what comes after the first.
Closings(text) ==
    {i \in 1 .. Len(text) : /\ i + Len(Closing) <= Len(text) + 1
                            /\ \A j \in 1 .. Len(Closing) : text[i + j - 1] = Closing[j]}
AfterClosing(text) == SubSeq(text, Min(Closings(text)) + Len(Closing), Len(text))

(* ThinkFilter: what it holds back, whether it has decided that there is a *)
(* reasoning to hide, and what it has shown so far.                        *)

NewFilter == [mode |-> "undecided", buffer |-> <<>>, trim |-> FALSE, shown |-> <<>>]

\* A piece of the answer proper; the line breaks after the reasoning are not.
Shows(f, piece) ==
    LET out == IF f.trim THEN StripLines(piece) ELSE piece
    IN  [mode |-> "showing", buffer |-> <<>>, trim |-> f.trim /\ out = <<>>, shown |-> f.shown \o out]

\* Within the reasoning, until its end has arrived.
Hides(f, buffer) ==
    IF Closings(buffer) = {}
    THEN [f EXCEPT !.mode = "hiding", !.buffer = buffer]
    ELSE LET out == StripLines(AfterClosing(buffer))
         IN  [mode |-> "showing", buffer |-> <<>>, trim |-> out = <<>>, shown |-> f.shown \o out]

\* It is too early to decide while what has arrived may still become <think>.
Decides(f, buffer) ==
    LET stripped == StripBlanks(buffer)
    IN  CASE IsPrefix(Opening, stripped) -> Hides(f, buffer)
          [] IsStrictPrefix(stripped, Opening) -> [f EXCEPT !.buffer = buffer]
          [] OTHER -> Shows(f, buffer)

Feed(f, piece) ==
    CASE f.mode = "showing" -> Shows(f, piece)
      [] f.mode = "hiding" -> Hides(f, f.buffer \o piece)
      [] f.mode = "undecided" -> Decides(f, f.buffer \o piece)

Shown(pieces) ==
    LET after[i \in 0 .. Len(pieces)] ==
            IF i = 0 THEN NewFilter ELSE Feed(after[i - 1], pieces[i])
    IN  after[Len(pieces)].shown

\* The whole text, without its reasoning.
Answer(text) ==
    LET stripped == StripBlanks(text)
    IN  IF IsPrefix(Opening, stripped)
        THEN IF Closings(text) = {} THEN <<>> ELSE StripLines(AfterClosing(text))
        ELSE IF IsStrictPrefix(stripped, Opening) THEN <<>> ELSE text

\* A text cut into pieces that end at ends.
Cut(text, ends) ==
    [i \in 1 .. Len(ends) |-> SubSeq(text, (IF i = 1 THEN 0 ELSE ends[i - 1]) + 1, ends[i])]

AreEnds(ends, text) ==
    /\ ends # <<>> /\ ends[Len(ends)] = Len(text)
    /\ \A i \in 1 .. Len(ends) - 1 : ends[i] <= ends[i + 1]

\* What the reader sees does not depend on how the answer was cut, and is the
\* answer without its reasoning.
ShowsTheAnswer(text, ends) == Shown(Cut(text, ends)) = Answer(text)

\* For every text of four parts, and for every five parts after an opening.
ASSUME FilterAssumption ==
    \A text \in SeqOf(Char, 4)
                  \cup {Opening \o rest : rest \in SeqOf(Char \ (Blank \ {NewLine}), 5)} :
       \A cuts \in SUBSET (1 .. Len(text) - 1) :
          LET ends == SelectSeq([i \in 1 .. Len(text) + 1 |-> i - 1],
                                LAMBDA i : i \in cuts \cup {Len(text)})
          IN  AreEnds(ends, text) /\ ShowsTheAnswer(text, ends)

-----------------------------------------------------------------------------
(* The articles of a prompt: [source, full, time].                         *)

Outlets(articles) == {articles[i].source : i \in DOMAIN articles}
ArticlesOf(articles, s) == {i \in DOMAIN articles : articles[i].source = s}
TextsOf(articles, s) == {i \in ArticlesOf(articles, s) : articles[i].full}

\* per_source: the first article of an outlet, or the first with its text.
OfSource(articles, s) ==
    Min(IF TextsOf(articles, s) = {} THEN ArticlesOf(articles, s) ELSE TextsOf(articles, s))

\* The texts first, then by time; Python's sort keeps the order of the outlets.
Precedes(articles) ==
    {p \in Outlets(articles) \X Outlets(articles) :
        LET a == articles[OfSource(articles, p[1])]
            b == articles[OfSource(articles, p[2])]
            First(s) == Min(ArticlesOf(articles, s))
        IN  \/ a.full /\ ~ b.full
            \/ a.full = b.full /\ a.time < b.time
            \/ a.full = b.full /\ a.time = b.time /\ First(p[1]) < First(p[2])}

\* The order they have in the prompt is left out.
Chosen(articles) ==
    {s \in Outlets(articles) :
        Cardinality({r \in Outlets(articles) : <<r, s>> \in Precedes(articles)}) < MaxInputArticles}

SelectInputArticles(articles) == {OfSource(articles, s) : s \in Chosen(articles)}

\* What the reader is told: articles, outlets, texts.
InputStats(articles) ==
    LET chosen == SelectInputArticles(articles)
    IN  <<Cardinality(chosen), Cardinality({articles[i].source : i \in chosen}),
          Cardinality({i \in chosen : articles[i].full})>>

\* One article per outlet is told of, no outlet with a text gives way to one
\* without, and none is represented without its text if it has one.
ToldOfInput(articles) ==
    LET outlets == Cardinality(Outlets(articles))
        withText == Cardinality({s \in Outlets(articles) : TextsOf(articles, s) # {}})
    IN  InputStats(articles) = <<Min({outlets, MaxInputArticles}), Min({outlets, MaxInputArticles}),
                                 Min({withText, MaxInputArticles})>>

ASSUME InputAssumption ==
    \A articles \in SeqOf([source : 1 .. 3, full : BOOLEAN, time : 0 .. 1], 3) : ToldOfInput(articles)
-----------------------------------------------------------------------------
(* Which summary a story's page shows a reader of a language: summaries   *)
(* are their languages, neutral tells whether summary_neutral is there.    *)

\* _riassunto_per: the language of the text shown; "legacy" is summary_neutral.
ShownSummaries(summaries, neutral, locale, llm) ==
    CASE locale \in summaries -> {locale}
      [] summaries = {} -> IF neutral THEN {"legacy"} ELSE {}
      [] OTHER -> IF llm THEN {} ELSE summaries

\* _riassunto_altro: one beside the button, in another language.
OtherSummaries(summaries, neutral, locale, llm) ==
    IF ShownSummaries(summaries, neutral, locale, llm) # {} THEN {} ELSE summaries \ {locale}

\* A story with a summary shows one, in the reader's language if there is one, and
\* without the generator nothing is left to a button that could not work.
ASSUME ShownAssumption ==
    \A summaries \in SUBSET {"it", "en", "fr"}, neutral, llm \in BOOLEAN :
       LET shown == ShownSummaries(summaries, neutral, "it", llm)
           other == OtherSummaries(summaries, neutral, "it", llm)
       IN  /\ summaries # {} \/ neutral => shown # {} \/ other # {}
           /\ "it" \in summaries => shown = {"it"}
           /\ ~ llm => other = {}
           /\ shown = {} \/ other = {}
=============================================================================
