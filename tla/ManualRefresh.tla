---------------------------- MODULE ManualRefresh ----------------------------
(***************************************************************************)
(* The cycles of collection and the bar that shows them (refresh_state.py, *)
(* "Aggiorna ora" in pages.py), with the rounds of GDELT in their groups,  *)
(* retries and passes (pipeline.py, gdelt.py).                             *)
(*                                                                         *)
(* The scheduler runs a job of each kind at intervals, one instance at a   *)
(* time; "Aggiorna ora" runs feed, GDELT and clustering one after the      *)
(* other, whatever the scheduler does.  The jobs share one state per kind: *)
(* how many are active, how far the last to say so has come, and the       *)
(* phases of the manual round that are done.                               *)
(*                                                                         *)
(* Everything happens on one event loop: what a handler does between two   *)
(* awaits is one step.                                                     *)
(***************************************************************************)
EXTENDS Integers, Sequences, FiniteSets

CONSTANTS
    OtherKind,      \* the kinds of jobs outside the manual round
    Click,          \* bound: requests to /aggiorna that may be at work at once
    Scheduler,
    Sizes,          \* bound: how many feeds or stories a job may find
    GroupsFor,      \* bound: GroupsFor[c]: how many groups of domains a job of c
                    \* may find (the catalogue changes)
    NoKind, NoRound, NoProgress, Idle

ASSUME ConstantAssumption ==
    /\ Scheduler \notin Click
    /\ Sizes \subseteq Nat
    /\ GroupsFor \in [Click \cup {Scheduler} -> SUBSET Nat]
    /\ OtherKind \cap {"feed", "GDELT", "clustering"} = {}
    /\ "none" \notin OtherKind /\ "created" \notin OtherKind

RETRY_ATTEMPTS == 3
TRANSPORT_ATTEMPTS == 2

Phase == {"feed", "GDELT", "clustering"}
Kind == Phase \cup OtherKind
Weight == [k \in Kind |-> CASE k = "feed" -> 55 [] k = "GDELT" -> 35
                            [] k = "clustering" -> 10 [] OTHER -> 0]
NextPhase == [feed |-> "GDELT", GDELT |-> "clustering", clustering |-> NoKind]

Caller == Click \cup {Scheduler}
Groups == UNION {GroupsFor[c] : c \in Caller}
UpTo(S) == UNION {0 .. n : n \in S \cup {0}}

\* A job that counts what it has found.
Plain == [read : BOOLEAN, done : UpTo(Sizes), of : UpTo(Sizes)]

\* A round of GDELT: the pass, how many groups it has and has tried, how many
\* failed, how many of them in a row without a connection, and (history) the
\* requests in a row that nobody answered.
Gdelt == [read : BOOLEAN, pass : {1, 2}, of : UpTo(Groups), done : UpTo(Groups),
          failed : UpTo(Groups), row : 0 .. 2, unanswered : Nat, over : BOOLEAN]

JobOf(k) == IF k = "GDELT" THEN Gdelt ELSE Plain

ASSUME NoValueAssumption ==
    /\ NoKind \notin Kind
    /\ \A S \in SUBSET Kind : NoRound # S
    /\ NoProgress \notin Nat \X Nat
    /\ Idle \notin Plain \cup Gdelt

\* What GDELT may reply to one request for a group: the articles; something
\* else, or an error; "calm down" (429, 5xx); no connection.
Reply == {"articles", "error", "calm", "silence"}

\* The requests of _get_artlist: calm is asked three times, silence twice.
Exchange ==
    {s \in UNION {[1 .. n -> Reply] : n \in 1 .. RETRY_ATTEMPTS} :
        /\ \A i \in 1 .. Len(s) - 1 : \/ s[i] = "calm"
                                      \/ s[i] = "silence" /\ i < TRANSPORT_ATTEMPTS
        /\ \/ s[Len(s)] \in {"articles", "error"}
           \/ s[Len(s)] = "calm" /\ Len(s) = RETRY_ATTEMPTS
           \/ s[Len(s)] = "silence" /\ Len(s) >= TRANSPORT_ATTEMPTS}

Outcome(s) == CASE s[Len(s)] = "articles" -> "ok"
                [] s[Len(s)] = "silence" -> "connessione"
                [] OTHER -> "errore"

\* How a group may end: the outcome, the requests nobody has answered since the
\* last answer, and whether there was one.
Ends ==
    LET answered(s) == {i \in 1 .. Len(s) : s[i] # "silence"}
    IN  {[outcome |-> Outcome(s), answered |-> answered(s) # {},
          silent |-> Cardinality({i \in 1 .. Len(s) : \A k \in answered(s) : i > k})] :
            s \in Exchange}

VARIABLES
    active,     \* _active
    progress,   \* _progress
    manualDone, \* _manual_done
    updating,   \* _aggiornamento["in_corso"]
    round,      \* round[c]: where the task that c created is
    job,        \* job[c][k]: the job of kind k that c runs
    shared      \* history: the scheduler ran a phase during the manual round

vars == <<active, progress, manualDone, updating, round, job, shared>>
tracked == <<active, progress, manualDone>>

TypeOK ==
    /\ active \in [Kind -> 0 .. 2]
    /\ progress \in [Kind -> (Nat \X (Nat \ {0})) \cup {NoProgress}]
    /\ manualDone \in (SUBSET Kind) \cup {NoRound}
    /\ updating \in BOOLEAN
    /\ round \in [Click -> Phase \cup {"none", "created"}]
    /\ job \in [Caller -> [Kind -> Plain \cup Gdelt \cup {Idle}]]
    /\ \A c \in Caller, k \in Kind : job[c][k] \in JobOf(k) \cup {Idle}
    /\ shared \in BOOLEAN

Init ==
    /\ active = [k \in Kind |-> 0]
    /\ progress = [k \in Kind |-> NoProgress]
    /\ manualDone = NoRound
    /\ updating = FALSE
    /\ round = [c \in Click |-> "none"]
    /\ job = [c \in Caller |-> [k \in Kind |-> Idle]]
    /\ shared = FALSE

-----------------------------------------------------------------------------
(* refresh_state.                                                          *)

NewJob(k) ==
    IF k = "GDELT"
    THEN [read |-> FALSE, pass |-> 1, of |-> 0, done |-> 0, failed |-> 0, row |-> 0,
          unanswered |-> 0, over |-> FALSE]
    ELSE [read |-> FALSE, done |-> 0, of |-> 0]

Entered(k) == [active EXCEPT ![k] = @ + 1]

Left(k) == [active EXCEPT ![k] = IF @ > 0 THEN @ - 1 ELSE 0]

ProgressLeft(k) == [progress EXCEPT ![k] = NoProgress]

\* A variant of DoneAfter that waits for the end of the round.
DoneLater(k) == manualDone

DoneAfter(k) == IF manualDone = NoRound THEN NoRound ELSE manualDone \cup {k}

SetProgress(k, done, total) ==
    progress' = [progress EXCEPT ![k] = <<done, IF total = 0 THEN 1 ELSE total>>]

\* overall, during a manual round, with k as the phase at work; of several the
\* one _active has known longest is taken.
DoneWeight(k) == IF k \in manualDone THEN Weight[k] ELSE 0
Part(k) ==
    IF progress[k] = NoProgress THEN 0 ELSE (Weight[k] * progress[k][1]) \div progress[k][2]
Percent(k) ==
    LET sum == DoneWeight("feed") + DoneWeight("GDELT") + DoneWeight("clustering") + Part(k)
    IN  IF sum > 99 THEN 99 ELSE sum
Percents == {Percent(k) : k \in {h \in Phase : active[h] > 0}}

-----------------------------------------------------------------------------
(* The work of a job.                                                      *)

Working(c, k) == job[c][k] # Idle
SetJob(c, k, j) == job' = [job EXCEPT ![c][k] = j]

\* The job knows how much there is to do; all but the feeds announce the first
\* item at once.
FindWork(c, k) ==
    /\ k # "GDELT" /\ Working(c, k) /\ ~job[c][k].read
    /\ \E n \in Sizes :
         LET first == IF k = "feed" \/ n = 0 THEN 0 ELSE 1
         IN  /\ SetJob(c, k, [read |-> TRUE, done |-> first, of |-> n])
             /\ SetProgress(k, first, n)
    /\ UNCHANGED <<active, manualDone, updating, round, shared>>

Proceed(c, k) ==
    LET j == job[c][k]
    IN  /\ k # "GDELT" /\ Working(c, k) /\ j.read /\ j.done < j.of
        /\ SetJob(c, k, [j EXCEPT !.done = @ + 1])
        /\ SetProgress(k, j.done + 1, j.of)
        /\ UNCHANGED <<active, manualDone, updating, round, shared>>

\* The sources in their groups.
FindGroups(c) ==
    /\ Working(c, "GDELT") /\ ~job[c]["GDELT"].read
    /\ \E n \in GroupsFor[c] :
          /\ SetJob(c, "GDELT", [job[c]["GDELT"] EXCEPT !.read = TRUE, !.of = n, !.over = n = 0])
          /\ SetProgress("GDELT", 0, n)
    /\ UNCHANGED <<active, manualDone, updating, round, shared>>

\* A variant of RowAfter that forgets the groups before the last.
RowOfLast(j, outcome) == IF outcome = "connessione" THEN 1 ELSE 0

RowAfter(j, outcome) == IF outcome = "connessione" THEN j.row + 1 ELSE 0

\* The top of the loop of run_groups: the next group, the breaker, or the
\* second pass over the groups that failed.
AfterGroup(j, outcome, unanswered) ==
    LET failed == IF outcome = "ok" THEN j.failed ELSE j.failed + 1
        row == RowAfter(j, outcome)
        tried == [j EXCEPT !.failed = failed, !.row = row, !.unanswered = unanswered]
        ended == [tried EXCEPT !.failed = 0, !.row = 0, !.over = TRUE]
    IN  IF j.done + 1 < j.of
        THEN [(IF row >= 2 THEN ended ELSE tried) EXCEPT !.done = @ + 1]
        ELSE IF j.pass = 1 /\ failed > 0
        THEN [tried EXCEPT !.pass = 2, !.of = failed, !.done = 0, !.failed = 0, !.row = 0,
                           !.unanswered = 0]
        ELSE ended

\* attempt: one group.
TryGroup(c) ==
    LET j == job[c]["GDELT"]
    IN  /\ Working(c, "GDELT") /\ j.read /\ ~j.over
        /\ \E e \in Ends :
              LET g == AfterGroup(j, e.outcome,
                                  e.silent + IF e.answered THEN 0 ELSE j.unanswered)
              IN  SetJob(c, "GDELT", g) /\ SetProgress("GDELT", g.done, g.of)
        /\ UNCHANGED <<active, manualDone, updating, round, shared>>

\* Everything done.
Complete(k, j) == j.read /\ IF k = "GDELT" THEN j.over ELSE j.done = j.of

\* Where an exception ends the job: the loop over the feeds lets none through.
MayRaise(k, j) == IF k = "feed" THEN ~j.read ELSE ~Complete(k, j)

-----------------------------------------------------------------------------
(* Who runs the jobs.                                                      *)

\* tracking: enter.
SchedulerStarts(k) ==
    /\ ~Working(Scheduler, k)
    /\ active' = Entered(k)
    /\ SetJob(Scheduler, k, NewJob(k))
    /\ shared' = (shared \/ (manualDone # NoRound /\ k \in Phase))
    /\ UNCHANGED <<progress, manualDone, updating, round>>

\* tracking: leave, whether all went well or not.
SchedulerEnds(k) ==
    /\ Working(Scheduler, k)
    /\ Complete(k, job[Scheduler][k]) \/ MayRaise(k, job[Scheduler][k])
    /\ active' = Left(k)
    /\ progress' = ProgressLeft(k)
    /\ manualDone' = DoneAfter(k)
    /\ SetJob(Scheduler, k, Idle)
    /\ UNCHANGED <<updating, round, shared>>

\* A variant of MayStart that starts whenever asked to.
MayAlwaysStart(c) == TRUE

MayStart(c) == ~updating

\* aggiorna_ora.
ClickRefresh(c) ==
    /\ round[c] = "none"
    /\ MayStart(c)
    /\ updating' = TRUE
    /\ round' = [round EXCEPT ![c] = "created"]
    /\ UNCHANGED <<tracked, job, shared>>

\* _giro_di_aggiornamento, up to its first await.
BeginRound(c) ==
    /\ round[c] = "created"
    /\ manualDone' = {}
    /\ active' = Entered("feed")
    /\ SetJob(c, "feed", NewJob("feed"))
    /\ round' = [round EXCEPT ![c] = "feed"]
    /\ shared' = \E k \in Phase : Working(Scheduler, k)
    /\ UNCHANGED <<progress, updating>>

\* One phase ends well and the next begins.
PhaseEnds(c) ==
    LET k == round[c]
        next == NextPhase[k]
    IN  /\ k \in {"feed", "GDELT"}
        /\ Complete(k, job[c][k])
        /\ active' = [Left(k) EXCEPT ![next] = @ + 1]
        /\ progress' = ProgressLeft(k)
        /\ manualDone' = DoneAfter(k)
        /\ job' = [job EXCEPT ![c][k] = Idle, ![c][next] = NewJob(next)]
        /\ round' = [round EXCEPT ![c] = next]
        /\ UNCHANGED <<updating, shared>>

\* A variant of UpdatingAfter without the finally clause.
UpdatingUnlessComplete(k, j) == ~Complete(k, j)

UpdatingAfter(k, j) == FALSE

\* The last phase ends, or an exception ends the round.
RoundEnds(c) ==
    LET k == round[c]
    IN  /\ k \in Phase
        /\ \/ k = "clustering" /\ Complete(k, job[c][k])
           \/ MayRaise(k, job[c][k])
        /\ active' = Left(k)
        /\ progress' = ProgressLeft(k)
        /\ manualDone' = NoRound
        /\ updating' = UpdatingAfter(k, job[c][k])
        /\ SetJob(c, k, Idle)
        /\ round' = [round EXCEPT ![c] = "none"]
        /\ UNCHANGED <<shared>>

-----------------------------------------------------------------------------
Work(c) ==
    \/ \E k \in Kind : FindWork(c, k) \/ Proceed(c, k)
    \/ FindGroups(c)
    \/ TryGroup(c)

Next ==
    \/ \E k \in Kind : SchedulerStarts(k) \/ SchedulerEnds(k)
    \/ \E c \in Click : ClickRefresh(c) \/ BeginRound(c) \/ PhaseEnds(c) \/ RoundEnds(c)
    \/ \E c \in Caller : Work(c)

Spec == Init /\ [][Next]_vars

\* The event loop runs the task, every request has a timeout.
Fairness ==
    \A c \in Click : /\ WF_vars(BeginRound(c)) /\ WF_vars(PhaseEnds(c) \/ RoundEnds(c))
                     /\ WF_vars(Work(c))

FairSpec == Spec /\ Fairness

-----------------------------------------------------------------------------
(* Safety.                                                                 *)

\* The bar is there exactly while some job works, however many of one kind
\* overlap ("compare quando QUALSIASI ciclo di aggiornamento e' in corso").
ActiveCounts ==
    \A k \in Kind : active[k] = Cardinality({c \in Caller : Working(c, k)})

\* A figure shown is that of a job at work: none outlives the job that said it.
ProgressOfAJob ==
    \A k \in Kind : progress[k] # NoProgress =>
        \E c \in Caller : /\ Working(c, k) /\ job[c][k].read
                          /\ progress[k][1] = job[c][k].done
                          /\ progress[k][2] = IF job[c][k].of = 0 THEN 1 ELSE job[c][k].of

\* One manual round at a time; the guard and the phases are kept for it alone.
OneRound ==
    /\ \A c, d \in Click : round[c] # "none" /\ round[d] # "none" => c = d
    /\ updating <=> \E c \in Click : round[c] # "none"
    /\ manualDone # NoRound <=> \E c \in Click : round[c] \in Phase

\* A pass never asks a service that does not connect more than four times in
\* a row: two groups, two attempts each.
SilenceBounded ==
    \A c \in Caller : Working(c, "GDELT") => job[c]["GDELT"].unanswered <= 2 * TRANSPORT_ATTEMPTS

\* While the scheduler lets the phases alone the bar of the manual round moves
\* forward, from phase to phase too, but for the second pass of GDELT.
SecondPassBegins ==
    \E c \in Click : /\ Working(c, "GDELT") /\ job[c]["GDELT"].pass = 1
                     /\ job'[c]["GDELT"] # Idle /\ job'[c]["GDELT"].pass = 2

BarMovesForward ==
    [][manualDone # NoRound /\ manualDone' # NoRound /\ ~shared' /\ ~SecondPassBegins
          => \A p \in Percents, q \in Percents' : p <= q]_vars

-----------------------------------------------------------------------------
(* Liveness, under FairSpec.                                               *)

\* A manual round ends, and the button can be used again.
RefreshEnds == updating ~> ~updating

-----------------------------------------------------------------------------
(* What the documentation says, and the code does not do.                  *)

\* "La barra non torna mai indietro" (ADR-0021), even if the scheduler lets
\* the phases alone.
BarNeverGoesBack ==
    [][manualDone # NoRound /\ manualDone' # NoRound /\ ~shared'
          => \A p \in Percents, q \in Percents' : p <= q]_vars
=============================================================================
