------------------------------ MODULE Summaries ------------------------------
(***************************************************************************)
(* The summaries of a story: generated for the reader who asks             *)
(* (genera_riassunto, apps/api/routers/pages.py) or for the administrator  *)
(* who tries the generator (riassunti_prova, settings_panel.py, with       *)
(* core/nlp/summarize.py).                                                 *)
(*                                                                         *)
(* A request reads the story, downloads the texts it lacks, connects to    *)
(* the generator, streams what it answers, and writes the whole column of  *)
(* summaries from the row it read at the start.  _riassunti_in_corso is to *)
(* keep a second request out; it is tested before the downloads and set    *)
(* after them.  The trial generates up to TrialLimit summaries in one      *)
(* transaction and tests nothing.                                          *)
(*                                                                         *)
(* Texts and summaries are flushed as they come and committed at the end:  *)
(* from the first flush to the commit a request, or the trial, holds       *)
(* SQLite's write lock while it waits for sites and for the generator, and *)
(* whoever else writes is refused after busy_timeout.                      *)
(*                                                                         *)
(* A summary is the language it is in; what it says, and whether it is     *)
(* long enough to be kept, is data.  So are the words of a text.           *)
(***************************************************************************)
EXTENDS FiniteSets, Naturals

CONSTANTS
    Story, Locale,
    Reader,             \* bound: the requests at work at once
    Wanted,             \* the summaries readers ask for
    Article, Lacking,   \* bound: Lacking[s]: articles of s whose text may be missing
    TrialLimit,         \* stories of a trial, 3
    NoText, NoRequest, NoTrial

Row == [summaries : SUBSET Locale, neutral : Locale \cup {NoText}]
Stage == {"texts", "connecting", "retrying", "streaming"}
Request == [story : Story, locale : Locale, stage : Stage, copy : Row,
            lacks : SUBSET Article, stored : SUBSET Article]
Trying == [locale : Locale, todo : SUBSET Story, done : SUBSET Story, copy : [Story -> Row]]

ASSUME ConstantAssumption ==
    /\ NoText \notin Locale /\ Wanted \subseteq Story \X Locale
    /\ Lacking \in [Story -> SUBSET Article]
    /\ NoRequest \notin Request /\ NoTrial \notin Trying

VARIABLES
    row,        \* row[s]: story.summaries and story.summary_neutral
    missing,    \* missing[s]: the articles chosen for its summary that have no text
    request,    \* request[r]: what a reader waits for
    trial,      \* the trial, if there is one
    busy,       \* _riassunti_in_corso
    calm,       \* nothing fails any more but for the lock
    crossed     \* history: the stories two generations had in hand at once

vars == <<row, missing, request, trial, busy, calm, crossed>>

TypeOK ==
    /\ row \in [Story -> Row]
    /\ missing \in [Story -> SUBSET Article]
    /\ request \in [Reader -> Request \cup {NoRequest}]
    /\ trial \in Trying \cup {NoTrial}
    /\ trial # NoTrial => trial.todo \cap trial.done = {}
    /\ busy \subseteq Story
    /\ calm \in BOOLEAN
    /\ crossed \subseteq Story

Init ==
    /\ row = [s \in Story |-> [summaries |-> {}, neutral |-> NoText]]
    /\ missing = Lacking
    /\ request = [r \in Reader |-> NoRequest]
    /\ trial = NoTrial
    /\ busy = {}
    /\ calm = FALSE
    /\ crossed = {}

Asks(r, s) == request[r] # NoRequest /\ request[r].story = s
Generates(r, s) == Asks(r, s) /\ request[r].stage # "texts"
Tries(s) == trial # NoTrial /\ s \in trial.todo \cup trial.done
InHand(s) == Tries(s) \/ \E r \in Reader : Asks(r, s)

\* A transaction has flushed something and not yet committed.
ReaderHolds == \E r \in Reader : request[r] # NoRequest /\ request[r].stored # {}
Locked == ReaderHolds \/ (trial # NoTrial /\ trial.done # {})

\* A variant of Written: the neutral summary is the latest.
WrittenNeutral(s, copy, l) ==
    [row EXCEPT ![s] = [summaries |-> @.summaries \cup {l}, neutral |-> l]]

\* The columns that changed are written, each whole: riassunti[locale] = testo,
\* and summary_neutral if the row had none.
Written(s, copy, l) ==
    [row EXCEPT ![s] = [summaries |-> copy.summaries \cup {l},
                        neutral |-> IF copy.neutral = NoText THEN l ELSE @.neutral]]

-----------------------------------------------------------------------------
(* The reader's request.                                                   *)

\* A variant of Refuses that takes one language for all.
RefusesSummarised(s) == s \in busy \/ row[s].neutral # NoText

Refuses(s) == s \in busy

Entered(s) == busy \cup {s}

Opened(s, l) ==
    [story |-> s, locale |-> l, stage |-> IF missing[s] = {} THEN "connecting" ELSE "texts",
     copy |-> row[s], lacks |-> missing[s], stored |-> {}]

\* There is no summary in the reader's language, the generator is on, and
\* nobody is said to be at it.
Ask(r, s, l) ==
    /\ request[r] = NoRequest
    /\ <<s, l>> \in Wanted /\ l \notin row[s].summaries
    /\ ~ Refuses(s)
    /\ request' = [request EXCEPT ![r] = Opened(s, l)]
    /\ busy' = IF missing[s] = {} THEN Entered(s) ELSE busy
    /\ crossed' = IF InHand(s) THEN crossed \cup {s} ELSE crossed
    /\ UNCHANGED <<row, missing, trial, calm>>

Downloads(r) == request[r] # NoRequest /\ request[r].stage = "texts"

\* A text is there, and is flushed.
StoreText(r) ==
    /\ Downloads(r)
    /\ Locked => request[r].stored # {}
    /\ \E a \in request[r].lacks :
          request' = [request EXCEPT ![r].lacks = @ \ {a}, ![r].stored = @ \cup {a}]
    /\ UNCHANGED <<row, missing, trial, busy, calm, crossed>>

\* After 45 seconds at most, with the texts that could be had: a commit.
TextsDone(r) ==
    LET own == request[r]
    IN  /\ Downloads(r)
        /\ request' = [request EXCEPT ![r] = [own EXCEPT !.stage = "connecting",
                                                         !.lacks = {}, !.stored = {}]]
        /\ missing' = [missing EXCEPT ![own.story] = @ \ own.stored]
        /\ busy' = Entered(own.story)
        /\ UNCHANGED <<row, trial, calm, crossed>>

\* A flush was refused, or something else went wrong: the commit raises.
TextsFail(r) ==
    /\ Downloads(r)
    /\ ~ calm \/ (Locked /\ request[r].stored = {} /\ request[r].lacks # {})
    /\ request' = [request EXCEPT ![r] = NoRequest]
    /\ UNCHANGED <<row, missing, trial, busy, calm, crossed>>

\* Articles come to a story and go, and the full text job downloads; once calm, none
\* comes that has no text.
ArticlesChange(s) ==
    /\ \E articles \in SUBSET Lacking[s] :
          /\ ~ calm \/ articles \subseteq missing[s]
          /\ missing' = [missing EXCEPT ![s] = articles]
    /\ UNCHANGED <<row, request, trial, busy, calm, crossed>>

To(r, stage) == request' = [request EXCEPT ![r].stage = stage]

Connect(r) ==
    /\ request[r] # NoRequest
    /\ \/ request[r].stage \in {"connecting", "retrying"} /\ To(r, "streaming")
       \/ request[r].stage = "connecting" /\ To(r, "retrying")  \* think_rejected
    /\ UNCHANGED <<row, missing, trial, busy, calm, crossed>>

\* A variant of Released for successes only.
ReleasedOnce(s) == IF row[s].summaries # {} THEN busy \ {s} ELSE busy

Released(s) == busy \ {s}

\* Whatever ends the request, the guard is released.
Ends(r) ==
    /\ request' = [request EXCEPT ![r] = NoRequest]
    /\ busy' = Released(request[r].story)
    /\ UNCHANGED <<missing, trial, calm, crossed>>

\* Not reachable, model missing; interrupted, too short, a reader who has left,
\* a commit that finds the database locked.
Fail(r) ==
    /\ request[r] # NoRequest /\ request[r].stage # "texts"
    /\ ~ calm \/ (Locked /\ request[r].stage = "streaming")
    /\ Ends(r)
    /\ UNCHANGED row

Save(r) ==
    LET own == request[r]
    IN  /\ own # NoRequest /\ own.stage = "streaming"
        /\ ~ Locked
        /\ row' = Written(own.story, own.copy, own.locale)
        /\ Ends(r)

-----------------------------------------------------------------------------
(* The administrator's trial.                                              *)

\* stories_needing_summary.
Needing == {s \in Story : row[s].neutral = NoText}

StartTrial(l) ==
    /\ trial = NoTrial
    /\ \E todo \in SUBSET Needing :
          /\ Cardinality(todo) = IF Cardinality(Needing) < TrialLimit
                                 THEN Cardinality(Needing) ELSE TrialLimit
          /\ trial' = [locale |-> l, todo |-> todo, done |-> {}, copy |-> row]
          /\ crossed' = crossed \cup {s \in todo : InHand(s)}
    /\ UNCHANGED <<row, missing, request, busy, calm>>

\* summarize_story: an error or a text too short, or a summary that is flushed.
TryNext ==
    /\ trial # NoTrial
    /\ \E s \in trial.todo, made \in IF calm THEN {TRUE} ELSE BOOLEAN :
          /\ made => ~ ReaderHolds
          /\ trial' = [trial EXCEPT !.todo = @ \ {s},
                                    !.done = IF made THEN @ \cup {s} ELSE @]
    /\ UNCHANGED <<row, missing, request, busy, calm, crossed>>

EndTrial ==
    /\ trial # NoTrial /\ trial.todo = {}
    /\ row' = [s \in Story |-> IF s \in trial.done
                               THEN Written(s, trial.copy[s], trial.locale)[s]
                               ELSE row[s]]
    /\ trial' = NoTrial
    /\ UNCHANGED <<missing, request, busy, calm, crossed>>

\* The request ends by an exception, as that of a refused flush, and its transaction
\* with it.
FailTrial ==
    /\ trial # NoTrial
    /\ ~ calm \/ (ReaderHolds /\ trial.todo # {})
    /\ trial' = NoTrial
    /\ UNCHANGED <<row, missing, request, busy, calm, crossed>>

CalmDown ==
    /\ ~ calm
    /\ calm' = TRUE
    /\ UNCHANGED <<row, missing, request, trial, busy, crossed>>

Next ==
    \/ \E r \in Reader :
          \/ \E s \in Story, l \in Locale : Ask(r, s, l)
          \/ StoreText(r) \/ TextsDone(r) \/ TextsFail(r)
          \/ Connect(r) \/ Fail(r) \/ Save(r)
    \/ \E s \in Story : ArticlesChange(s)
    \/ \E l \in Locale : StartTrial(l)
    \/ TryNext \/ EndTrial \/ FailTrial \/ CalmDown

Spec == Init /\ [][Next]_vars

\* Downloads, connections and streams end, one way or another (their timeouts);
\* readers go on asking, and the generator does not fail for ever.
Proceeds(r) == TextsDone(r) \/ Connect(r) \/ Fail(r) \/ Save(r)

FairSpec ==
    /\ Spec
    /\ WF_vars(CalmDown) /\ WF_vars(TryNext \/ EndTrial)
    /\ \A r \in Reader : WF_vars(Proceeds(r))
    /\ \A w \in Wanted : SF_vars(\E r \in Reader : Ask(r, w[1], w[2]))

-----------------------------------------------------------------------------
(* Safety.                                                                 *)

\* The guard is never left behind: a story in it is being generated for a
\* reader, on every path by which a request ends.
GuardOfARequest == \A s \in busy : \E r \in Reader : Generates(r, s)

\* And the other way round, where the window between test and set was not hit:
\* what is being generated is guarded.
GeneratedIsGuarded ==
    \A r \in Reader, s \in Story : Generates(r, s) => s \in busy \/ s \in crossed

\* No summary once saved is lost, nor the neutral one replaced, unless two
\* generations of the story overlapped.
SummaryForGood ==
    [][\A s \in Story \ crossed' :
          /\ row[s].summaries \subseteq row'[s].summaries
          /\ row[s].neutral # NoText => row'[s].neutral = row[s].neutral]_vars

\* Whatever overlaps, the neutral summary of the export is there as soon as any
\* language has one, and only then.
NeutralOfASummary == \A s \in Story : row[s].summaries # {} <=> row[s].neutral # NoText

(* Liveness.                                                               *)

\* No story refuses its readers for good.
GuardReleased == \A s \in Story : s \in busy ~> s \notin busy

\* A reader who goes on asking finds the summary in his language in the end,
\* whatever requests and trials erase of each other.
SummaryInTheEnd == \A w \in Wanted : []<>(w[2] \in row[w[1]].summaries)

(* What comments and documents say.                                        *)

\* "Story con una generazione gia' in corso (mai due richieste sovrapposte)".
OneGeneration ==
    \A s \in Story, r, q \in Reader : Generates(r, s) /\ Generates(q, s) => r = q
=============================================================================
