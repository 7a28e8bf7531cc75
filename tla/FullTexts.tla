------------------------------ MODULE FullTexts ------------------------------
(***************************************************************************)
(* The pages the instance reads: the full texts of the articles, one after *)
(* the other by fetch_fulltext_job (core/extract/fulltext.py,              *)
(* apps/worker/jobs/ingest.py), and the home pages the autodiscovery of    *)
(* a round of feeds looks at, several at once with one cache               *)
(* (_try_autodiscovery, core/ingest/rss.py).  Each page is read after      *)
(* can_fetch has allowed it and, which is RateLimiter's part, the limiter  *)
(* of the job has let it through.                                          *)
(*                                                                         *)
(* Articles are their ids, the newest the greatest.                        *)
(***************************************************************************)
EXTENDS RobotsCache, FiniteSetsExt

CONSTANTS
    Job,        \* the coroutine of fetch_fulltext_job
    HomeOf,     \* HomeOf[t]: the site of the feed another coroutine looks for
    SiteOf,     \* SiteOf[a]: the host of article a
    Bare,       \* the articles without a snippet
    Blank,      \* those no text can be extracted from
    Moved,      \* those whose page redirects out of the allowlist
    Collected,  \* the articles there are at the start: 1 .. Collected
    Limit       \* articles of a round, 60

Article == DOMAIN SiteOf
Reader == Caller \ {Job}
Stage == {"rest", "asking", "fetching", "flushed"}

ASSUME TextAssumption ==
    /\ Job \in Caller /\ HomeOf \in [Reader -> Server]
    /\ IsFiniteSet(Article) /\ Article = 1 .. Cardinality(Article)
    /\ SiteOf \in [Article -> Server]
    /\ Bare \subseteq Article /\ Blank \subseteq Article /\ Moved \subseteq Article
    /\ Collected \in 0 .. Cardinality(Article)
    /\ Limit \in Nat \ {0}

VARIABLES
    visit,      \* visit[t]: where t is
    arrived,    \* the articles collected so far: 1 .. arrived
    text,       \* those with a full_text, committed
    dirty,      \* those whose text is written and not committed
    todo,       \* the articles the job has left
    working,    \* the job is at work
    calm        \* nothing fails any more

textVars == <<visit, arrived, text, dirty, todo, working, calm>>
allTextVars == <<cacheVars, textVars>>

TextTypeOK ==
    /\ CacheTypeOK
    /\ visit \in [Caller -> Stage]
    /\ \A t \in Caller : asking[t] # NoAsk <=> visit[t] = "asking"
    /\ arrived \in 0 .. Cardinality(Article)
    /\ text \subseteq 1 .. arrived /\ dirty \subseteq 1 .. arrived
    /\ todo \subseteq 1 .. arrived
    /\ working \in BOOLEAN /\ calm \in BOOLEAN

TextInit ==
    /\ CacheInit
    /\ visit = [t \in Caller |-> "rest"]
    /\ arrived = Collected
    /\ text = {} /\ dirty = {} /\ todo = {}
    /\ working = FALSE
    /\ calm = FALSE

Current == Max(todo)
Target(t) == IF t = Job THEN SiteOf[Current] ELSE HomeOf[t]

To(t, stage) == visit' = [visit EXCEPT ![t] = stage]

\* Nothing comes of the page: the job goes on to its next article.
GoesOn(t) ==
    /\ To(t, "rest")
    /\ todo' = IF t = Job THEN todo \ {Current} ELSE todo

-----------------------------------------------------------------------------
(* A page: permission, then the request.                                   *)

Ready(t) == visit[t] = "rest" /\ (t = Job => working /\ todo # {})

\* What is read of a home page is FeedCollection's.
Obeys(t, verdict) ==
    IF verdict /\ t = Job THEN To(t, "fetching") /\ UNCHANGED todo ELSE GoesOn(t)

Ask(t) ==
    /\ Ready(t)
    /\ \/ \E verdict \in BOOLEAN : Knows(t, Target(t), verdict) /\ Obeys(t, verdict)
       \/ Load(t, Target(t)) /\ To(t, "asking") /\ UNCHANGED todo
    /\ UNCHANGED <<arrived, text, dirty, working, calm>>

Answer(t) == Hear(t) /\ UNCHANGED textVars

Told(t) ==
    /\ \E verdict \in BOOLEAN : Loaded(t, verdict) /\ Obeys(t, verdict)
    /\ UNCHANGED <<arrived, text, dirty, working, calm>>

\* An exception ends the autodiscovery of this feed.
HomeRaises(t) ==
    /\ t # Job /\ LoadRaises(t)
    /\ To(t, "rest")
    /\ UNCHANGED <<arrived, text, dirty, todo, working, calm>>

-----------------------------------------------------------------------------
(* fetch_fulltext_job.                                                     *)

Missing == {a \in 1 .. arrived : a \notin text /\ a \notin Bare}
Newest(S) == {a \in S : Cardinality({b \in S : b > a}) < Limit}

\* A variant of Chosen that limits before it looks for what is missing.
ChosenOfNewest == Newest(1 .. arrived) \cap Missing

Chosen == Newest(Missing)

StartJob ==
    /\ ~ working
    /\ working' = TRUE
    /\ todo' = Chosen
    /\ entry' = Emptied(CacheOf[Job])
    /\ UNCHANGED <<now, rule, asking, lenient, visit, arrived, text, dirty, calm>>

\* No text: an error of the site, or a page nothing can be extracted from,
\* with the browser or without.
NoTextHere ==
    /\ visit[Job] = "fetching" /\ Current \notin Moved
    /\ ~ calm \/ Current \in Blank
    /\ GoesOn(Job)
    /\ UNCHANGED <<cacheVars, arrived, text, dirty, working, calm>>

\* article.full_text = text, and the flush, which takes SQLite's write lock.
Write ==
    /\ visit[Job] = "fetching" /\ Current \notin Moved \cup Blank
    /\ To(Job, "flushed")
    /\ dirty' = dirty \cup {Current}
    /\ UNCHANGED <<cacheVars, arrived, text, todo, working, calm>>

\* A variant of Saved that leaves the texts to the commit at the end.
SavedAtEnd == UNCHANGED <<text, dirty>>

Saved == text' = text \cup dirty /\ dirty' = {}

Commit ==
    /\ visit[Job] = "flushed"
    /\ Saved
    /\ GoesOn(Job)
    /\ UNCHANGED <<cacheVars, arrived, working, calm>>

EndJob ==
    /\ working /\ todo = {}
    /\ working' = FALSE
    /\ text' = text \cup dirty /\ dirty' = {}
    /\ UNCHANGED <<cacheVars, visit, arrived, todo, calm>>

\* The session is closed, and what it had not committed is lost.
Dies ==
    /\ working' = FALSE /\ todo' = {} /\ dirty' = {}
    /\ To(Job, "rest")
    /\ UNCHANGED <<arrived, text, calm>>

\* EgressDeniedError goes through fetch_fulltext and through the job.
JobDenied ==
    \/ LoadRaises(Job) /\ Dies
    \/ visit[Job] = "fetching" /\ Current \in Moved /\ Dies /\ UNCHANGED cacheVars

\* The database is locked for longer than busy_timeout; the process stops.
JobStops ==
    /\ working /\ ~ calm
    /\ Dies
    /\ asking' = [asking EXCEPT ![Job] = NoAsk]
    /\ UNCHANGED <<now, rule, entry, lenient>>

-----------------------------------------------------------------------------
(* The rest of the instance, and the sites.                                *)

Arrive ==
    /\ arrived < Cardinality(Article)
    /\ arrived' = arrived + 1
    /\ UNCHANGED <<cacheVars, visit, text, dirty, todo, working, calm>>

\* The next round of feeds has a cache of its own.
NextRound ==
    /\ \A t \in Reader : visit[t] = "rest"
    /\ \E t \in Reader : entry' = Emptied(CacheOf[t])
    /\ UNCHANGED <<now, rule, asking, lenient, textVars>>

Sites ==
    /\ ~ calm
    /\ \E h \in Server, r \in Rule : r # rule[h] /\ RuleChanges(h, r)
    /\ UNCHANGED textVars

PageTick == TimePasses /\ UNCHANGED textVars

CalmDown ==
    /\ ~ calm /\ calm' = TRUE
    /\ rule' = [h \in Server |-> "allows"]
    /\ lenient' = [h \in Server |-> now]
    /\ UNCHANGED <<now, entry, asking, visit, arrived, text, dirty, todo, working>>

PageStep(t) ==
    \/ Ask(t) \/ Answer(t) \/ Told(t) \/ HomeRaises(t)
JobStep == PageStep(Job) \/ StartJob \/ NoTextHere \/ Write \/ Commit \/ EndJob \/ JobDenied

TextNext ==
    \/ \E t \in Reader : PageStep(t)
    \/ JobStep \/ JobStops
    \/ Arrive \/ NextRound \/ Sites \/ PageTick \/ CalmDown

TextSpec == TextInit /\ [][TextNext]_allTextVars

\* The scheduler starts the job again every fifteen minutes; requests end
\* (their timeouts), and failures do not go on for ever.
TextFairSpec == TextSpec /\ WF_allTextVars(CalmDown) /\ WF_allTextVars(JobStep)

-----------------------------------------------------------------------------
\* What the cache permits now, its site permitted within the life of an entry, or
\* could not be asked then: neither an answer that overtakes another nor a slow
\* load makes a permission last longer.
PermissionsAge ==
    \A t \in Caller, h \in Server :
       IsFresh(t, h) /\ Own(t, h).allows => lenient[h] >= now - TTL

\* What a failure can cost is the text at hand, and while the job waits for a
\* site it keeps no writer waiting: "ogni testo al sicuro subito: transazioni
\* corte".
ShortTransactions ==
    dirty # {} => visit[Job] = "flushed" /\ dirty = {Current}

\* The articles the job comes to in every round: those no page that raises
\* comes before, and fewer than Limit without a text for good.
Hopeless == (Blank \cup Moved) \ Bare
IsReached(a) ==
    /\ a \notin Hopeless \cup Bare
    /\ \A b \in Moved \ Bare : b < a
    /\ Cardinality({b \in Hopeless : b > a}) < Limit

\* They all get their text in the end, although the newest go first, rounds are
\* limited, and any round may be cut short.
TextInTheEnd == \A a \in Article : IsReached(a) => (a <= arrived ~> a \in text)

\* What is not so: one page that redirects out of the allowlist ends every round
\* where it stands, and the articles before it never get their text.
EveryText == \A a \in Article \ (Hopeless \cup Bare) : a <= arrived ~> a \in text
=============================================================================
