------------------------------- MODULE Titles -------------------------------
(***************************************************************************)
(* The titles of stories and articles and their translations               *)
(* (core/nlp/translate.py, and what changes the titles meanwhile: the      *)
(* correction of core/ingest/rss.py, the choice of the neutral title at    *)
(* the end of a clustering round).                                         *)
(*                                                                         *)
(* A translator reads a row, translates its title in a thread and writes   *)
(* the whole column of the translations: the periodic job for every story  *)
(* it loaded when it started, the tasks the pages start for one row after  *)
(* the other.  Nothing keeps a title from changing meanwhile.              *)
(*                                                                         *)
(* A title is the article it comes from and its wording: "wire", as GDELT  *)
(* gives it, without a snippet; "feed", as the outlet wrote it.  A         *)
(* translation is the title it was made from; the empty string that stands *)
(* for a translation equal to its title is one, too.                       *)
(***************************************************************************)
EXTENDS FiniteSets

CONSTANTS
    Article, Story,
    StoryOf,         \* StoryOf[a]: the story the clustering puts a into
    FeedOf,          \* the articles the outlet's own feed carries
    Language,
    LanguageOf,      \* LanguageOf[a]: the language of the titles of a
    Locale,          \* SUPPORTED_LOCALES
    Visible,         \* the items the pages show (of a story, four articles)
    Visit,           \* bound: tasks started by the pages at work at once
    NoTitle, NoCopy, NoTask, NoRound

Item == Article \cup Story
Title == [of : Article, wording : {"wire", "feed"}]

Translations == [Locale -> Title \cup {NoTitle}]

\* What a session keeps of a row: its title, the language to translate it
\* from and the translations it had.
Copy == [of : Item, title : Title, source : Language, translated : Translations]

\* A task of _run: its locale and its items, those it has not come to, and
\* the row in its hands.
Task == [locale : Locale, items : SUBSET Item, todo : SUBSET Item,
         copy : Copy \cup {NoCopy}]

ASSUME ConstantAssumption ==
    /\ Article \cap Story = {}
    /\ StoryOf \in [Article -> Story]
    /\ FeedOf \subseteq Article
    /\ LanguageOf \in [Article -> Language]
    /\ Locale \subseteq Language
    /\ Visible \subseteq Item
    /\ NoTitle \notin Title /\ NoTask \notin Task

VARIABLES
    shown,      \* shown[i]: the title of an article, the neutral title of a story
    clustered,  \* the articles that have their story
    translated, \* translated[i]: the column title_translations
    round,      \* the titles a clustering round has loaded, if there is one
    job,        \* job[s]: what translate_titles_job holds of s, still to come
    task,       \* task[v]: a task on demand
    busy,       \* _KICK_IN_CORSO and _KICK_VERSIONI
    raced,      \* history: the stories whose title changed under a translator
    crossed     \* history: those with a correction during a clustering round

vars == <<shown, clustered, translated, round, job, task, busy, raced, crossed>>
database == <<shown, clustered, translated>>
memory == <<round, job, task, busy>>
history == <<raced, crossed>>

\* Type correctness; a story has a title as soon as it has an article.
TypeOK ==
    /\ shown \in [Item -> Title \cup {NoTitle}]
    /\ clustered \subseteq Article
    /\ \A a \in clustered : shown[StoryOf[a]] # NoTitle
    /\ translated \in [Item -> Translations]
    /\ round \in [Item -> Title \cup {NoTitle}] \cup {NoRound}
    /\ job \in [Story -> Copy \cup {NoCopy}]
    /\ task \in [Visit -> Task \cup {NoTask}]
    /\ busy \subseteq Item \X Locale
    /\ raced \subseteq Story /\ crossed \subseteq Story

NoTranslations == [l \in Locale |-> NoTitle]
NoJob == [s \in Story |-> NoCopy]

Init ==
    /\ shown = [i \in Item |-> NoTitle]
    /\ clustered = {}
    /\ translated = [i \in Item |-> NoTranslations]
    /\ round = NoRound
    /\ job = NoJob
    /\ task = [v \in Visit |-> NoTask]
    /\ busy = {}
    /\ raced = {}
    /\ crossed = {}

Members(s) == {a \in clustered : StoryOf[a] = s}

\* A translator has the row of i in its hands.
InHand(i) ==
    \/ i \in Story /\ job[i] # NoCopy
    \/ \E v \in Visit : task[v] # NoTask /\ task[v].copy # NoCopy /\ task[v].copy.of = i

-----------------------------------------------------------------------------
(* What changes the titles.                                                *)

\* GDELT finds an article, or the feed does.
Arrive(a) ==
    /\ shown[a] = NoTitle
    /\ \E w \in {"wire"} \cup (IF a \in FeedOf THEN {"feed"} ELSE {}) :
          shown' = [shown EXCEPT ![a] = [of |-> a, wording |-> w]]
    /\ UNCHANGED <<clustered, translated, memory, history>>

\* A variant of ForgetTranslations that keeps them.
KeepTranslations(s) == translated

ForgetTranslations(s) == [translated EXCEPT ![s] = NoTranslations]

\* A variant of WithCorrection that corrects the article only.
ArticleCorrected(a, title) == [shown EXCEPT ![a] = title]

\* The story follows if its neutral title was that of the article.
WithCorrection(a, title) ==
    [i \in Item |-> IF i = a \/ (a \in clustered /\ i = StoryOf[a] /\ shown[i] = shown[a])
                    THEN title ELSE shown[i]]

\* _retitle_from_feed.
Retitle(a) ==
    LET s == StoryOf[a]
        neutral == a \in clustered /\ shown[s] = shown[a]
    IN  /\ a \in FeedOf
        /\ shown[a] # NoTitle /\ shown[a].wording = "wire"
        /\ shown' = WithCorrection(a, [of |-> a, wording |-> "feed"])
        /\ translated' = IF neutral THEN ForgetTranslations(s) ELSE translated
        /\ raced' = IF neutral /\ InHand(s) THEN raced \cup {s} ELSE raced
        /\ crossed' = IF round # NoRound THEN crossed \cup {s} ELSE crossed
        /\ UNCHANGED <<clustered, memory>>

\* The session of the round loads the articles and the stories it may join.
BeginClustering ==
    /\ round = NoRound
    /\ round' = shown
    /\ UNCHANGED <<database, job, task, busy, history>>

\* The titles refresh_title_neutral may choose: those with a snippet, if any,
\* as the session loaded them; which is nearest to the centroid is data.
Best(members) ==
    LET feed == {a \in members : round[a].wording = "feed"}
    IN  {round[a] : a \in IF feed = {} THEN members ELSE feed}

\* The articles get their stories, and the stories touched their titles; a
\* title equal to the one loaded is not written.
EndClustering ==
    /\ round # NoRound
    /\ \E joining \in SUBSET {a \in Article \ clustered : round[a] # NoTitle} :
         LET touched == {StoryOf[a] : a \in joining}
             members(s) == {a \in clustered \cup joining : StoryOf[a] = s}
         IN  \E chosen \in [touched -> Title] :
                /\ \A s \in touched : chosen[s] \in Best(members(s))
                /\ clustered' = clustered \cup joining
                /\ shown' = [i \in Item |-> IF i \in touched /\ chosen[i] # round[i]
                                            THEN chosen[i] ELSE shown[i]]
                /\ raced' = raced \cup
                      {s \in touched : shown[s] # NoTitle /\ shown'[s] # shown[s]}
    /\ round' = NoRound
    /\ UNCHANGED <<translated, job, task, busy, crossed>>

ClusteringFails ==
    /\ round # NoRound
    /\ round' = NoRound
    /\ UNCHANGED <<database, job, task, busy, history>>

-----------------------------------------------------------------------------
(* Translating.                                                            *)

\* _lingua_versione; neutral_title_language: the language of the article that
\* has the title, or the prevailing one if none has it any longer.
Sources(i) ==
    IF i \in Article THEN {LanguageOf[i]}
    ELSE LET holders == {a \in Members(i) : shown[a] = shown[i]}
         IN  {LanguageOf[a] : a \in IF holders = {} THEN Members(i) ELSE holders}

\* The rows a session may read for i.
Copies(i) ==
    {[of |-> i, title |-> shown[i], source |-> l, translated |-> translated[i]] :
        l \in Sources(i)}

\* A variant of Missing that takes any translation for all of them.
MissingIfNone(copy) ==
    IF \A l \in Locale : copy.translated[l] = NoTitle THEN Locale \ {copy.source} ELSE {}

Missing(copy) == {l \in Locale \ {copy.source} : copy.translated[l] = NoTitle}

\* The column is written whole, from the row that was read.
Write(copy, done) ==
    translated' = IF done = {} THEN translated ELSE [translated EXCEPT ![copy.of] =
        [l \in Locale |-> IF l \in done THEN copy.title ELSE copy.translated[l]]]

\* translate_titles_job: the stories are read once.
StartJob ==
    /\ job = NoJob
    /\ \E copies \in [Story -> (UNION {Copies(s) : s \in Story}) \cup {NoCopy}] :
          /\ \A s \in Story : IF shown[s] = NoTitle THEN copies[s] = NoCopy
                              ELSE copies[s] \in Copies(s)
          /\ job' = copies
    /\ UNCHANGED <<database, round, task, busy, history>>

\* translate_story_title and its commit; a pair of languages may be missing.
JobTranslates(s, done) ==
    /\ job[s] # NoCopy
    /\ done \subseteq Missing(job[s])
    /\ Write(job[s], done)
    /\ job' = [job EXCEPT ![s] = NoCopy]
    /\ UNCHANGED <<shown, clustered, round, task, busy, history>>

\* The deadline, or an error.
JobStops ==
    /\ job # NoJob
    /\ job' = NoJob
    /\ UNCHANGED <<database, round, task, busy, history>>

\* The items not in progress.
Free(items, l) == {i \in items : <<i, l>> \notin busy}

Waiting(l) ==
    {i \in Visible : shown[i] # NoTitle /\ \E c \in Copies(i) : l \in Missing(c)}

\* kick_translations, kick_article_translations: a page shows some titles.
Kick(v, l) ==
    /\ task[v] = NoTask
    /\ \E visible \in SUBSET Waiting(l) :
         LET items == Free(visible, l)
         IN  /\ visible \subseteq Story \/ visible \subseteq Article
             /\ items # {}
             /\ busy' = busy \cup {<<i, l>> : i \in items}
             /\ task' = [task EXCEPT ![v] =
                   [locale |-> l, items |-> items, todo |-> items, copy |-> NoCopy]]
    /\ UNCHANGED <<database, round, job, history>>

\* translate_missing, translate_articles: the row is read when its turn comes;
\* what another has translated meanwhile is left alone.
Read(v, i) ==
    /\ task[v] # NoTask
    /\ task[v].copy = NoCopy
    /\ i \in task[v].todo
    /\ \E c \in Copies(i) :
          task' = [task EXCEPT ![v].todo = @ \ {i},
                     ![v].copy = IF task[v].locale \in Missing(c) THEN c ELSE NoCopy]
    /\ UNCHANGED <<database, round, job, busy, history>>

Save(v) ==
    /\ task[v] # NoTask
    /\ task[v].copy # NoCopy
    /\ Write(task[v].copy, {task[v].locale})
    /\ task' = [task EXCEPT ![v].copy = NoCopy]
    /\ UNCHANGED <<shown, clustered, round, job, busy, history>>

\* No translation for this pair, or an error.
GiveUp(v) ==
    /\ task[v] # NoTask
    /\ task[v].copy # NoCopy
    /\ task' = [task EXCEPT ![v].copy = NoCopy]
    /\ UNCHANGED <<database, round, job, busy, history>>

\* A variant of Discard that forgets the items it did not come to.
DiscardDone(t) == busy \ {<<i, t.locale>> : i \in t.items \ t.todo}

\* The finally clause.
Discard(t) == busy \ {<<i, t.locale>> : i \in t.items}

\* The items are done, or an error ends the task.
EndTask(v) ==
    /\ task[v] # NoTask
    /\ busy' = Discard(task[v])
    /\ task' = [task EXCEPT ![v] = NoTask]
    /\ UNCHANGED <<database, round, job, history>>

\* The application is closed and opened again.
Restart ==
    /\ round' = NoRound
    /\ job' = NoJob
    /\ task' = [v \in Visit |-> NoTask]
    /\ busy' = {}
    /\ UNCHANGED <<database, history>>

-----------------------------------------------------------------------------
TaskStep(v) ==
    \/ \E l \in Locale : Kick(v, l)
    \/ \E i \in Item : Read(v, i)
    \/ Save(v)
    \/ GiveUp(v)
    \/ EndTask(v)

Next ==
    \/ \E a \in Article : Arrive(a) \/ Retitle(a)
    \/ BeginClustering \/ EndClustering \/ ClusteringFails
    \/ StartJob \/ JobStops
    \/ \E s \in Story, done \in SUBSET Locale : JobTranslates(s, done)
    \/ \E v \in Visit : TaskStep(v)
    \/ Restart

Spec == Init /\ [][Next]_vars

\* The job with every pair of languages at hand.
JobTranslatesAll(s) == job[s] # NoCopy /\ JobTranslates(s, Missing(job[s]))

(***************************************************************************)
(* The scheduler starts the job at every interval, the thread that         *)
(* translates comes back.  SF says that the deadline, the errors and the   *)
(* missing languages do not hit a story in every round for ever.           *)
(***************************************************************************)
Fairness ==
    /\ WF_vars(StartJob)
    /\ \A s \in Story : SF_vars(JobTranslatesAll(s))
    /\ \A v \in Visit : WF_vars(Save(v) \/ GiveUp(v)) /\ WF_vars(EndTask(v))

FairSpec == Spec /\ Fairness

-----------------------------------------------------------------------------
(* Safety.                                                                 *)

\* A title is never in the hands of two tasks of one locale, and nothing is
\* kept for a task that is no more ("mai due volte lo stesso lavoro insieme").
OneTaskPerTitle ==
    /\ busy = UNION {task[v].items \X {task[v].locale} : v \in {w \in Visit : task[w] # NoTask}}
    /\ \A v, w \in Visit :
          v # w /\ task[v] # NoTask /\ task[w] # NoTask /\ task[v].locale = task[w].locale
              => task[v].items \cap task[w].items = {}

\* The translations of a story are of the title it has, unless the clustering
\* gave it another title or a correction came while a translator was at work:
\* the other corrections reach story and translations together.
TranslationsOfTheTitle ==
    \A s \in Story \ raced, l \in Locale : translated[s][l] \in {shown[s], NoTitle}

\* The neutral title is what one of the story's articles is called now,
\* through all corrections but those that come during a clustering round.
NeutralTitleOfAnArticle ==
    \A s \in Story \ crossed : shown[s] # NoTitle =>
        \E a \in Members(s) : shown[a] = shown[s]

-----------------------------------------------------------------------------
(* Liveness, under FairSpec.                                               *)

\* In the end every story has its translations, although tasks and job write
\* over each other's.
EventuallyTranslated ==
    \A s \in Story, l \in Locale :
        <>[](shown[s] # NoTitle => l \in Sources(s) \/ translated[s][l] # NoTitle)

-----------------------------------------------------------------------------
(* What the documentation says, and the code does not do.                  *)

\* "Traduzione automatica dei titoli NEUTRI delle story" (translate.py): what
\* is shown as the translation of a title was made from it.
TranslationShownIsOfTheTitle ==
    \A i \in Item, l \in Locale : translated[i][l] \in {shown[i], NoTitle}
=============================================================================
