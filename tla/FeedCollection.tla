--------------------------- MODULE FeedCollection ---------------------------
(***************************************************************************)
(* The collection of RSS feeds (core/ingest/pipeline.py, core/ingest/rss.py). *)
(*                                                                         *)
(* A round of ingest_all_feeds reads the sources and the FeedState rows,   *)
(* downloads in parallel every feed that is not in backoff, and stores the *)
(* downloads one at a time, each in a transaction of its own.  Rounds are  *)
(* started by the periodic job, by the reader ("Aggiorna ora") and by the  *)
(* seed; nothing keeps two of them from running at the same time, so what  *)
(* a round read when it started may be stale when it stores.               *)
(*                                                                         *)
(* Time is abstracted to what in_backoff compares: whether the last fetch  *)
(* of a feed is less than feed_backoff_hours old ("recent").  The content  *)
(* of a feed is a version number: a publisher that changes its feed moves  *)
(* to the next version.                                                    *)
(***************************************************************************)
EXTENDS Integers

CONSTANTS
    Feed,            \* the feed URLs of the enabled sources of the catalogue
    Address,         \* every URL a feed may be read from
    Candidates,      \* Candidates[f]: the URLs autodiscovery can find for f
    Kinds,           \* Kinds[a]: how the site at a may answer, see SiteKind
    Round,           \* the callers of ingest_all_feeds
    RetryAll,        \* the rounds run with retry_failed (the seed)
    Periodic,        \* the rounds the scheduler starts again and again
    BackoffFailures, \* feed_backoff_failures
    MaxVersion,      \* bound: versions a publisher goes through
    NoAddress, NoValidator, NoTask, NoFetch

(***************************************************************************)
(* How a site answers the requests of one download:                        *)
(*   feed      a feed, to whoever asks                                     *)
(*   filtered  a feed to a browser, 403/202 or a verification page to us   *)
(*   page      200 with something that parses to no entry                  *)
(*   blocked   403/202 to whoever asks                                     *)
(*   gone      404/410                                                     *)
(*   down      a transport error, or any other status                      *)
(***************************************************************************)
SiteKind == {"feed", "filtered", "page", "blocked", "gone", "down"}
Readable == {"feed", "filtered"}

Version == 1 .. MaxVersion

\* ETag / Last-Modified: the address that issued them and what it served;
\* version 0 is a page that is not a feed.
Validator == [from : Address, version : 0 .. MaxVersion]

FetchKind == {"error", "not_modified", "content"}

\* FeedFetch: content carries where it was read and its version.
FeedFetch == [kind : FetchKind, from : Address, version : 0 .. MaxVersion,
              discovered : BOOLEAN]

ASSUME ConstantAssumption ==
    /\ Feed \subseteq Address
    /\ Candidates \in [Feed -> SUBSET Address]
    /\ Kinds \in [Address -> SUBSET SiteKind]
    /\ RetryAll \subseteq Round
    /\ Periodic \subseteq Round
    /\ BackoffFailures \in Nat \ {0}
    /\ MaxVersion \in Nat \ {0}
    /\ NoAddress \notin Address
    /\ NoValidator \notin Validator
    /\ NoFetch \notin FeedFetch
    /\ NoTask \notin [url : Address, validator : Validator \cup {NoValidator},
                      fetch : FeedFetch \cup {NoFetch}]

VARIABLES
    site,       \* site[a]: how the site at a answers now
    version,    \* version[a]: what the feed at a holds now
    row,        \* row[f]: the FeedState of f in the database
    ingested,   \* ingested[f]: the contents whose entries were stored for f
    running,    \* the rounds in progress
    task,       \* task[r][f]: the download of f in round r
    streak,     \* history: failing outcomes of f in a row (capped)
    overlapped  \* history: two rounds have been in progress at once

vars == <<site, version, row, ingested, running, task, streak, overlapped>>
environment == <<site, version>>
history == <<streak, overlapped>>

FeedState == [failures : 0 .. BackoffFailures, recent : BOOLEAN,
              resolved : Address \cup {NoAddress},
              validator : Validator \cup {NoValidator}]

Task == [url : Address, validator : Validator \cup {NoValidator},
         fetch : FeedFetch \cup {NoFetch}]

\* Type correctness; the failures counted for a feed never pass the threshold
\* in_backoff compares them with (the count is capped there).
TypeOK ==
    /\ site \in [Address -> SiteKind]
    /\ version \in [Address -> Version]
    /\ row \in [Feed -> FeedState]
    /\ ingested \in [Feed -> SUBSET Validator]
    /\ running \subseteq Round
    /\ task \in [Round -> [Feed -> Task \cup {NoTask}]]
    /\ streak \in [Feed -> 0 .. BackoffFailures]
    /\ overlapped \in BOOLEAN

\* A feed never fetched has no row; its columns' defaults read the same.
NewFeedState == [failures |-> 0, recent |-> FALSE,
                 resolved |-> NoAddress, validator |-> NoValidator]

Init ==
    /\ site \in {s \in [Address -> SiteKind] : \A a \in Address : s[a] \in Kinds[a]}
    /\ version = [a \in Address |-> 1]
    /\ row = [f \in Feed |-> NewFeedState]
    /\ ingested = [f \in Feed |-> {}]
    /\ running = {}
    /\ task = [r \in Round |-> [f \in Feed |-> NoTask]]
    /\ streak = [f \in Feed |-> 0]
    /\ overlapped = FALSE

-----------------------------------------------------------------------------
(* The publishers, and the clock.                                          *)

SiteChanges(a) ==
    /\ \E k \in Kinds[a] \ {site[a]} : site' = [site EXCEPT ![a] = k]
    /\ UNCHANGED <<version, row, ingested, running, task, history>>

Publish(a) ==
    /\ version[a] < MaxVersion
    /\ version' = [version EXCEPT ![a] = @ + 1]
    /\ UNCHANGED <<site, row, ingested, running, task, history>>

\* feed_backoff_hours have passed since the last fetch of f.
BackoffExpires(f) ==
    /\ row[f].recent
    /\ row' = [row EXCEPT ![f].recent = FALSE]
    /\ UNCHANGED <<environment, ingested, running, task, history>>

-----------------------------------------------------------------------------
(* A round.                                                                *)

\* A variant of InBackoff from which a feed never comes back.
FailedTooOften(state) == state.failures >= BackoffFailures

InBackoff(state) == state.failures >= BackoffFailures /\ state.recent

\* The URL a round asks for: (state.resolved_url if state else None) or url.
CurrentAddress(f) == IF row[f].resolved = NoAddress THEN f ELSE row[f].resolved

\* A variant of NewTask that forgets what autodiscovery found.
NewTaskAtCatalogueURL(f) ==
    [url |-> f, validator |-> row[f].validator, fetch |-> NoFetch]

NewTask(f) ==
    [url |-> CurrentAddress(f), validator |-> row[f].validator, fetch |-> NoFetch]

\* A variant of JobFor without the backoff.
JobInAnyCase(r, f) == NewTask(f)

JobFor(r, f) ==
    IF r \notin RetryAll /\ InBackoff(row[f]) THEN NoTask ELSE NewTask(f)

\* The snapshot of the states and the jobs made from it.
StartRound(r) ==
    /\ r \notin running
    /\ running' = running \cup {r}
    /\ task' = [task EXCEPT ![r] = [f \in Feed |-> JobFor(r, f)]]
    /\ overlapped' = (overlapped \/ running # {})
    /\ UNCHANGED <<environment, row, ingested, streak>>

\* The loop over the completed downloads is through with f.
Drop(r, f) == task' = [task EXCEPT ![r][f] = NoTask]

\* The outcomes of a download that ends without content.
Failed(url) == [kind |-> "error", from |-> url, version |-> 0, discovered |-> FALSE]
NotModified(url) == [kind |-> "not_modified", from |-> url,
                     version |-> version[url], discovered |-> FALSE]
Content(url) == [kind |-> "content", from |-> url,
                 version |-> version[url], discovered |-> FALSE]
Page(url) == [kind |-> "content", from |-> url, version |-> 0, discovered |-> FALSE]

\* What a site that serves its feed answers to a conditional request: its own
\* validator, if current, gets a 304; one issued elsewhere is compared by date
\* (If-Modified-Since), so the answer may be 304 too.
Conditional(url, validator) ==
    IF validator = NoValidator THEN {Content(url)}
    ELSE IF validator.from # url THEN {NotModified(url), Content(url)}
    ELSE IF validator.version = version[url] THEN {NotModified(url)}
    ELSE {Content(url)}

\* _try_autodiscovery: any readable candidate may be the one found; it asks
\* without validators.
Discovered(f, url) ==
    {[kind |-> "content", from |-> a, version |-> version[a], discovered |-> TRUE] :
        a \in {c \in Candidates[f] \ {url} : site[c] \in Readable}}

\* Our request, and the repetition with a browser's headers, were refused:
\* autodiscovery, or the outcome of the first answer.
Refused(f, url) ==
    Discovered(f, url) \cup
        (CASE site[url] = "page"     -> {Page(url)}
           [] site[url] = "filtered" -> {Page(url), Failed(url)}
           [] OTHER                  -> {Failed(url)})

\* fetch_feed_content.  The repetition with a browser's headers counts only
\* if it is answered 200 with a feed: a 304 is not.
FetchOutcomes(f, url, validator) ==
    CASE site[url] = "down" -> {Failed(url)}
      [] site[url] = "feed" -> Conditional(url, validator)
      [] site[url] = "filtered" ->
            LET answers == Conditional(url, validator)
                readable == {a \in answers : a.kind = "content"}
            IN  readable \cup (IF readable = answers THEN {} ELSE Refused(f, url))
      [] OTHER -> Refused(f, url)

Fetch(r, f) ==
    /\ task[r][f] # NoTask
    /\ task[r][f].fetch = NoFetch
    /\ \E outcome \in FetchOutcomes(f, task[r][f].url, task[r][f].validator) :
          task' = [task EXCEPT ![r][f].fetch = outcome]
    /\ UNCHANGED <<environment, row, ingested, running, history>>

\* The download raises something else: logged, and the feed skipped.
FetchRaises(r, f) ==
    /\ task[r][f] # NoTask
    /\ task[r][f].fetch = NoFetch
    /\ Drop(r, f)
    /\ UNCHANGED <<environment, row, ingested, running, history>>

Increment(n) == IF n < BackoffFailures THEN n + 1 ELSE n

IsFeed(fetch) == fetch.kind = "content" /\ fetch.version # 0

ValidatorOf(fetch) == [from |-> fetch.from, version |-> fetch.version]

\* The count restarts before the content is looked at, so content that is no
\* feed leaves it at one.
FailuresAfter(n, fetch) ==
    CASE fetch.kind = "error" -> Increment(n)
      [] fetch.kind = "not_modified" \/ IsFeed(fetch) -> 0
      [] OTHER -> 1

\* A variant of ValidatorAfter that keeps the validator of whatever was read.
ValidatorOfAnything(state, fetch) ==
    IF fetch.kind = "content" THEN ValidatorOf(fetch) ELSE state.validator

ValidatorAfter(state, fetch) ==
    IF IsFeed(fetch) THEN ValidatorOf(fetch) ELSE state.validator

ResolvedAfter(state, fetch) ==
    IF fetch.discovered THEN fetch.from ELSE state.resolved

\* store_feed on the FeedState.
StoredState(state, fetch) ==
    [failures |-> FailuresAfter(state.failures, fetch), recent |-> TRUE,
     resolved |-> ResolvedAfter(state, fetch),
     validator |-> ValidatorAfter(state, fetch)]

\* store_feed and its commit: state and articles change together.
Store(r, f) ==
    /\ task[r][f] # NoTask
    /\ task[r][f].fetch # NoFetch
    /\ LET fetch == task[r][f].fetch
       IN  /\ row' = [row EXCEPT ![f] = StoredState(@, fetch)]
           /\ ingested' = [ingested EXCEPT ![f] =
                 IF IsFeed(fetch) THEN @ \cup {ValidatorOf(fetch)} ELSE @]
           /\ streak' = [streak EXCEPT ![f] =
                 IF fetch.kind = "not_modified" \/ IsFeed(fetch) THEN 0 ELSE Increment(@)]
    /\ Drop(r, f)
    /\ UNCHANGED <<environment, running, overlapped>>

\* "scrittura rimandata": the transaction is rolled back, the feed skipped.
StoreFails(r, f) ==
    /\ task[r][f] # NoTask
    /\ task[r][f].fetch # NoFetch
    /\ Drop(r, f)
    /\ UNCHANGED <<environment, row, ingested, running, history>>

EndRound(r) ==
    /\ r \in running
    /\ \A f \in Feed : task[r][f] = NoTask
    /\ running' = running \ {r}
    /\ UNCHANGED <<environment, row, ingested, task, history>>

\* The seed's budget runs out, or the process dies: the finally clause (or the
\* end of the process) drops what was in flight.
Abandon(r) ==
    /\ r \in running
    /\ running' = running \ {r}
    /\ task' = [task EXCEPT ![r] = [f \in Feed |-> NoTask]]
    /\ UNCHANGED <<environment, row, ingested, history>>

-----------------------------------------------------------------------------
RoundStep(r) ==
    \/ StartRound(r)
    \/ EndRound(r)
    \/ Abandon(r)
    \/ \E f \in Feed : \/ Fetch(r, f)
                       \/ FetchRaises(r, f)
                       \/ Store(r, f)
                       \/ StoreFails(r, f)

Next ==
    \/ \E a \in Address : SiteChanges(a) \/ Publish(a)
    \/ \E f \in Feed : BackoffExpires(f)
    \/ \E r \in Round : RoundStep(r)

Spec == Init /\ [][Next]_vars

(***************************************************************************)
(* The event loop runs every task that can run, every request has a        *)
(* timeout and the scheduler starts its jobs at every interval.  SF says   *)
(* that the accidents (an exception in the download, a refused write, the  *)
(* death of the process) do not hit a feed in every round for ever.        *)
(***************************************************************************)
Fairness ==
    /\ \A f \in Feed : WF_vars(BackoffExpires(f))
    /\ \A r \in Periodic : WF_vars(StartRound(r))
    /\ \A r \in Round : WF_vars(EndRound(r))
    /\ \A r \in Round, f \in Feed : SF_vars(Fetch(r, f)) /\ SF_vars(Store(r, f))

FairSpec == Spec /\ Fairness

-----------------------------------------------------------------------------
(* Safety.                                                                 *)

\* The validator kept for a feed is that of a content whose entries were
\* stored: whatever fails or dies between download and commit, no later 304
\* can stand for articles that were never read, and the validator of a page
\* that is no feed is never kept (store_feed, "ETag/Last-Modified si ricordano
\* SOLO di un feed valido").
ValidatorIngested ==
    \A f \in Feed : row[f].validator # NoValidator =>
        row[f].validator \in ingested[f] /\ row[f].validator.version # 0

\* Until two rounds have overlapped, the validator kept was issued by the very
\* address it will be sent to, through all the moves of autodiscovery.
ValidatorOfCurrentAddress ==
    \A f \in Feed : ~overlapped /\ row[f].validator # NoValidator =>
        row[f].validator.from = CurrentAddress(f)

\* Until two rounds have overlapped, "not modified" is only ever concluded of
\* a content whose entries are stored.
NotModifiedHidesNothing ==
    \A r \in Round, f \in Feed :
        ~overlapped /\ task[r][f] # NoTask /\ task[r][f].fetch # NoFetch =>
            LET fetch == task[r][f].fetch
            IN  fetch.kind = "not_modified" => ValidatorOf(fetch) \in ingested[f]

\* A round without retry_failed has no download in progress for a feed in
\* backoff: what it decided when it started still holds when it stores, as
\* long as it runs alone.
BackoffHonoured ==
    \A r \in Round \ RetryAll, f \in Feed :
        ~overlapped /\ InBackoff(row[f]) => task[r][f] = NoTask

\* The URL of a feed and those autodiscovery may find for it.
AddressesOf == [f \in Feed |-> {f} \cup Candidates[f]]

Mirror == INSTANCE FeedMirror WITH
    Nothing <- NoValidator,
    published <- version,
    mirror <- ingested,
    known <- [f \in Feed |-> row[f].validator],
    crowded <- overlapped

\* The collection is a FeedMirror: through autodiscovery, refusals, rollbacks and
\* rounds that race, what is stored of a feed was published at an address of its own,
\* the validator moves only with what is stored, to a content it is true of, and
\* never back to one older while rounds do not overlap.
Mirrored == Mirror!Spec

-----------------------------------------------------------------------------
(* Liveness, under FairSpec.                                               *)

\* Every round ends, whatever the sites answer and whatever raises.
RoundsEnd == \A r \in Round : r \in running ~> r \notin running

\* If rounds never overlap and the address in use for a feed stays readable,
\* the last content published there is stored: no sequence of failures,
\* discoveries, validators and backoffs freezes a feed for good.
FreshContentIngested ==
    \A f \in Feed :
        []~overlapped /\ <>[](site[CurrentAddress(f)] \in Readable) =>
            <>[]([from |-> CurrentAddress(f), version |-> version[CurrentAddress(f)]]
                    \in ingested[f])

-----------------------------------------------------------------------------
(* What the documentation says, and the code does not do.                  *)

\* "Un feed che fallisce 3 volte di fila entra in backoff" (ADR-0018): a feed
\* with that many failing outcomes in a row has as many counted.
RepeatedFailuresBackOff ==
    \A f \in Feed : streak[f] = BackoffFailures => row[f].failures = BackoffFailures

\* A download ends in failure only if the site serves the feed to neither of
\* the identities it is asked with: a feed that a browser can read, unchanged
\* since the last round, is not a failure.
ReadableFeedDoesNotFail ==
    [][\A r \in Round, f \in Feed :
          Fetch(r, f) /\ task'[r][f].fetch.kind = "error"
              => site[task[r][f].url] \notin Readable]_vars
=============================================================================
