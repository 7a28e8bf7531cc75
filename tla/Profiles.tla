------------------------------ MODULE Profiles ------------------------------
(***************************************************************************)
(* The public profile of the outlets (core/osint/profile.py): the periodic *)
(* job goes through the outlets that are due, the least recently checked   *)
(* first, and the page of an outlet without a useful profile has it        *)
(* collected at once, by a task that is not awaited (kick_profilo).  The   *)
(* tasks keep out of each other's way by _KICK_IN_CORSO, which the job     *)
(* does not look at; the job decides what is due from the rows it loaded   *)
(* when it began, and a page from the row it read before its last queries. *)
(*                                                                         *)
(* Of a profile the model keeps whether anything came out of it            *)
(* (profilo_vuoto) and how old it is; of time, two thresholds: six hours,  *)
(* after which an empty profile is tried again, and fourteen days.         *)
(***************************************************************************)
EXTENDS Integers, Sequences, FiniteSets

CONSTANTS
    Outlet,             \* the enabled outlets
    Id,                 \* Id[s]: Source.id
    Hostile,            \* those whose robots.txt redirects out of the allowlist
    Read,               \* bound: the outlets whose pages are opened
    Budget,             \* outlets of a round, 40
    NoProfile, NoTask, NoJob

Fresh == 0  SixHours == 1  TwoWeeks == 2
Profile == [useful : BOOLEAN, age : {Fresh, SixHours, TwoWeeks}]
Step == {"ads", "home", "browser", "archive"}
Task == [step : Step, useful : BOOLEAN]
Job == [queue : Seq(Outlet), task : Task \cup {NoTask}, done : 0 .. Budget]

ASSUME ProfileAssumption ==
    /\ IsFiniteSet(Outlet) /\ Id \in [Outlet -> Nat]
    /\ \A s, o \in Outlet : Id[s] = Id[o] => s = o
    /\ Hostile \subseteq Outlet /\ Read \subseteq Outlet /\ Budget \in Nat \ {0}
    /\ NoProfile \notin Profile /\ NoTask \notin Task /\ NoJob \notin Job

VARIABLES
    profile,    \* profile[s]: Source.osint
    before,     \* before[s]: the outlets that last_checked_at, or none and the id,
                \* puts before s
    visited,    \* pages being built whose outlet had no useful profile
    kicked,     \* _KICK_IN_CORSO
    task,       \* task[s]: the collection a page has asked for
    job,        \* osint_job
    settled,    \* nothing fails any more, the hostile outlets apart
    crossed     \* history: outlets a page or task and the job had in hand at once

profileVars == <<profile, before, visited, kicked, task, job, settled, crossed>>

ProfileTypeOK ==
    /\ profile \in [Outlet -> Profile \cup {NoProfile}]
    /\ before \in [Outlet -> SUBSET Outlet] /\ \A s \in Outlet : s \notin before[s]
    /\ visited \subseteq Outlet /\ kicked \subseteq Outlet /\ crossed \subseteq Outlet
    /\ task \in [Outlet -> Task \cup {NoTask}]
    /\ job \in Job \cup {NoJob}
    /\ job # NoJob => /\ \A i, j \in 1 .. Len(job.queue) : job.queue[i] = job.queue[j] => i = j
                      /\ job.task # NoTask => job.queue # <<>> /\ job.done < Budget
    /\ settled \in BOOLEAN

\* In the order of the ids alone.
IdBefore(s) == {o \in Outlet : Id[o] < Id[s]}

ProfileInit ==
    /\ profile = [s \in Outlet |-> NoProfile]
    /\ before = [s \in Outlet |-> IdBefore(s)]
    /\ visited = {} /\ kicked = {} /\ crossed = {}
    /\ task = [s \in Outlet |-> NoTask]
    /\ job = NoJob
    /\ settled = FALSE

NewTask == [step |-> "ads", useful |-> FALSE]
Empty(s) == profile[s] # NoProfile => ~ profile[s].useful
InJob(s) == job # NoJob /\ \E i \in 1 .. Len(job.queue) : job.queue[i] = s
Crossed(s) == crossed' = IF InJob(s) \/ s \in visited \/ task[s] # NoTask
                         THEN crossed \cup {s} ELSE crossed

-----------------------------------------------------------------------------
(* One outlet: profila_fonte.                                              *)

\* ads.txt: read or absent, or not to be had.
AdsTxt(t) == {[step |-> "home", useful |-> u] : u \in BOOLEAN}

\* The home page: forbidden or not read, or with commitments; what is no page,
\* or hardly one, is rendered in a browser unless a reader is waiting.
HomePage(t, quick) ==
    {[t EXCEPT !.step = "archive", !.useful = @ \/ u] : u \in BOOLEAN}
    \cup (IF quick THEN {} ELSE {[t EXCEPT !.step = "browser"]})

Browser(t) == {[t EXCEPT !.step = "archive", !.useful = @ \/ u] : u \in BOOLEAN}

After(s, t, quick) ==
    CASE t.step = "ads" -> AdsTxt(t)
      [] t.step = "home" -> IF s \in Hostile THEN {} ELSE HomePage(t, quick)
      [] t.step = "browser" -> Browser(t)
      [] OTHER -> {}

\* The outlet just checked comes after all the others.
Checked(s) == [o \in Outlet |-> IF o = s THEN Outlet \ {s} ELSE before[o] \ {s}]

\* The first archived copy, dated or not had within eight seconds; then osint,
\* last_checked_at and the provenance, in one transaction.
Saved(s, t) ==
    /\ t.step = "archive"
    /\ \E dated \in BOOLEAN :
          profile' = [profile EXCEPT ![s] = [useful |-> t.useful \/ dated, age |-> Fresh]]
    /\ before' = Checked(s)

-----------------------------------------------------------------------------
(* The page of an outlet.                                                  *)

Visit(s) ==
    /\ s \notin visited /\ Empty(s)
    /\ visited' = visited \cup {s}
    /\ Crossed(s)
    /\ UNCHANGED <<profile, before, kicked, task, job, settled>>

Kick(s) ==
    /\ s \in visited
    /\ visited' = visited \ {s}
    /\ IF s \in kicked THEN UNCHANGED <<kicked, task>>
       ELSE /\ kicked' = kicked \cup {s}
            /\ task' = [task EXCEPT ![s] = NewTask]
    /\ UNCHANGED <<profile, before, job, settled, crossed>>

Collect(s) ==
    /\ task[s] # NoTask
    /\ \E t \in After(s, task[s], TRUE) : task' = [task EXCEPT ![s] = t]
    /\ UNCHANGED <<profile, before, visited, kicked, job, settled, crossed>>

Discarded(s) == kicked \ {s}

Done(s) ==
    /\ task' = [task EXCEPT ![s] = NoTask]
    /\ kicked' = Discarded(s)
    /\ UNCHANGED <<visited, job, settled, crossed>>

SaveTask(s) ==
    /\ task[s] # NoTask
    /\ Saved(s, task[s])
    /\ Done(s)

\* An address out of the allowlist, the database locked: put off.
TaskRaises(s) ==
    /\ task[s] # NoTask /\ task[s].step \in {"home", "archive"}
    /\ ~ settled \/ (s \in Hostile /\ task[s].step = "home")
    /\ Done(s)
    /\ UNCHANGED <<profile, before>>

-----------------------------------------------------------------------------
(* The periodic job: profila_fonti.                                        *)

\* A variant of Due that renews whatever is six hours old.
DueEarly(s) == profile[s] # NoProfile => profile[s].age # Fresh

Due(s) ==
    profile[s] # NoProfile =>
        profile[s].age >= IF profile[s].useful THEN TwoWeeks ELSE SixHours

\* ORDER BY last_checked_at NULLS FIRST, id.
Before(s) == before[s]

\* The outlets that are due, in order.
Queues ==
    LET due == {s \in Outlet : Due(s)}
    IN  {q \in [1 .. Cardinality(due) -> due] :
            \A i, j \in DOMAIN q : i < j => q[i] \in Before(q[j])}

StartJob ==
    /\ job = NoJob
    /\ \E q \in Queues : job' = [queue |-> q, task |-> NoTask, done |-> 0]
    /\ crossed' = crossed \cup {s \in visited \cup kicked : Due(s)}
    /\ UNCHANGED <<profile, before, visited, kicked, task, settled>>

\* There are outlets left, within budget; the first is within the deadline too.
NextOutlet ==
    /\ job # NoJob /\ job.task = NoTask
    /\ job.queue # <<>> /\ job.done < Budget
    /\ job' = [job EXCEPT !.task = NewTask]
    /\ UNCHANGED <<profile, before, visited, kicked, task, settled, crossed>>

EndJob ==
    /\ job # NoJob /\ job.task = NoTask
    /\ \/ job.queue = <<>> \/ job.done = Budget
       \/ job.done > 0                                  \* the deadline
    /\ job' = NoJob
    /\ UNCHANGED <<profile, before, visited, kicked, task, settled, crossed>>

JobCollects ==
    /\ job # NoJob /\ job.task # NoTask
    /\ \E t \in After(Head(job.queue), job.task, FALSE) : job' = [job EXCEPT !.task = t]
    /\ UNCHANGED <<profile, before, visited, kicked, task, settled, crossed>>

JobSaves ==
    /\ job # NoJob /\ job.task # NoTask
    /\ Saved(Head(job.queue), job.task)
    /\ job' = [queue |-> Tail(job.queue), task |-> NoTask, done |-> job.done + 1]
    /\ UNCHANGED <<visited, kicked, task, settled, crossed>>

\* After an exception the session is rolled back.  If a transaction was open,
\* from the first query to the first commit or while saving, every outlet it
\* had loaded is expired, and naming this one in the log raises again.
AfterException ==
    IF job.task.step = "archive" \/ job.done = 0 THEN NoJob
    ELSE [job EXCEPT !.queue = Tail(@), !.task = NoTask]

JobRaises ==
    /\ job # NoJob /\ job.task # NoTask /\ job.task.step \in {"home", "archive"}
    /\ ~ settled \/ (Head(job.queue) \in Hostile /\ job.task.step = "home")
    /\ job' = AfterException
    /\ UNCHANGED <<profile, before, visited, kicked, task, settled, crossed>>

-----------------------------------------------------------------------------
\* A profile passes a threshold, those collected before it having done so.
GrowsOld(s) ==
    /\ profile[s] # NoProfile /\ profile[s].age < TwoWeeks
    /\ \A o \in before[s] : profile[o] # NoProfile => profile[o].age # profile[s].age
    /\ profile' = [profile EXCEPT ![s].age = @ + 1]
    /\ UNCHANGED <<before, visited, kicked, task, job, settled, crossed>>

SettleDown ==
    /\ ~ settled /\ settled' = TRUE
    /\ UNCHANGED <<profile, before, visited, kicked, task, job, crossed>>

ProfileNext ==
    \/ \E s \in Read : \/ Visit(s) \/ Kick(s) \/ Collect(s) \/ SaveTask(s)
                       \/ TaskRaises(s)
    \/ \E s \in Outlet : GrowsOld(s)
    \/ StartJob \/ NextOutlet \/ EndJob \/ JobCollects \/ JobSaves \/ JobRaises
    \/ SettleDown

ProfileSpec == ProfileInit /\ [][ProfileNext]_profileVars

\* Every request has its timeout, the job its interval of two hours.
ProfileFairSpec ==
    /\ ProfileSpec
    /\ WF_profileVars(SettleDown) /\ WF_profileVars(StartJob)
    /\ WF_profileVars(NextOutlet \/ EndJob \/ JobCollects \/ JobSaves \/ JobRaises)
    /\ \A s \in Read : WF_profileVars(Kick(s)) /\ WF_profileVars(Collect(s) \/ SaveTask(s) \/ TaskRaises(s))

-----------------------------------------------------------------------------
(* Safety.                                                                 *)

\* An outlet is in the guard exactly while a task is at it, however it ends: a
\* reader is neither told of a collection that is no more nor starts another.
KickedIsAtWork == kicked = {s \in Outlet : task[s] # NoTask}

\* A useful profile stays as it is for two weeks, although neither the job nor
\* the tasks look at the database again before they replace it; unless a page
\* or a task and the job had the outlet in hand at once.
UsefulKept ==
    [][\A s \in Outlet :
          ~ Empty(s) /\ profile[s].age < TwoWeeks /\ s \notin crossed
          => profile'[s] # NoProfile /\ profile'[s].useful
             /\ profile'[s].age >= profile[s].age]_profileVars

(* Liveness.                                                               *)

\* A collection a reader waits for comes to an end.
KickEnds == \A s \in Outlet : s \in kicked ~> s \notin kicked

\* No outlet is left with a profile of two weeks or none, although rounds are cut
\* short and start with others: the least recently checked go first.
Renewed ==
    \A s \in Outlet \ Hostile : []<>(profile[s] # NoProfile /\ profile[s].age < TwoWeeks)

(* What comments say.                                                      *)

\* "una testata ostile non ferma le altre".
HostileStopsNobody == Renewed
=============================================================================
