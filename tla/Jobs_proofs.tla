----------------------------- MODULE Jobs_proofs ----------------------------
(***************************************************************************)
(* Proofs about Profiles, for any outlets, pages and budget: type          *)
(* correctness, the guard of the collections pages start, and that a       *)
(* useful profile is kept for two weeks.  And about Analysis, for any      *)
(* outlets, stories and thresholds: type correctness, and what a country   *)
(* must have published before it is marked as silent.  And about Registry, *)
(* for any tables, files and answers: the imports are idempotent.          *)
(*                                                                         *)
(* The argument for profiles: neither the job nor a task looks again,      *)
(* before it replaces a profile, at what made it start; it need not,       *)
(* because an outlet one of them has in hand is in the hands of nobody     *)
(* else, unless the history says so: what was empty or due when it began   *)
(* is so still.  For blind spots: a job may write what it concluded from   *)
(* an old look, but stories only gain coverage and age, so what the        *)
(* verdict rested on still holds; and a silence has a probability below    *)
(* one only if an outlet of the country covers a big story.                *)
(***************************************************************************)
EXTENDS Profiles, Analysis, Registry, FiniteSetTheorems, SequenceTheorems, TLAPS

\* A page that is being built, or a task.
AtHand(s) == s \in visited \/ task[s] # NoTask

\* What a page or a task has in hand alone is still without a useful profile.
EmptyAtHand ==
    \A s \in Outlet \ crossed : AtHand(s) =>
        Empty(s) /\ ~ InJob(s) /\ ~(s \in visited /\ task[s] # NoTask)

\* What the job alone has before it is still due.
DueInJob == \A s \in Outlet \ crossed : InJob(s) => Due(s)

ProfileInv ==
    /\ ProfileTypeOK
    /\ KickedIsAtWork
    /\ EmptyAtHand
    /\ DueInJob

LEMMA NewTaskIsTask == NewTask \in Task /\ NewTask # NoTask
<1>1. NewTask \in Task
  BY DEF NewTask, Task, Step
<1> QED
  BY <1>1, ProfileAssumption

\* What a collection goes on with is a collection.
LEMMA AfterIsTask ==
    ASSUME NEW s, NEW t \in Task, NEW quick, NEW u \in After(s, t, quick)
    PROVE  u \in Task /\ u # NoTask
<1>1. u \in Task
  <2>1. CASE t.step = "ads"
    BY <2>1 DEF After, AdsTxt, Task, Step
  <2>2. CASE t.step = "home"
    <3>1. s \notin Hostile /\ u \in HomePage(t, quick)
      BY <2>2 DEF After
    <3>2. \A v \in BOOLEAN : [t EXCEPT !.step = "archive", !.useful = @ \/ v] \in Task
      BY DEF Task, Step
    <3>3. [t EXCEPT !.step = "browser"] \in Task
      BY DEF Task, Step
    <3> QED
      BY <3>1, <3>2, <3>3 DEF HomePage
  <2>3. CASE t.step = "browser"
    <3>1. u \in Browser(t)
      BY <2>3 DEF After
    <3>2. \A v \in BOOLEAN : [t EXCEPT !.step = "archive", !.useful = @ \/ v] \in Task
      BY DEF Task, Step
    <3> QED
      BY <3>1, <3>2 DEF Browser
  <2>4. CASE t.step \notin {"ads", "home", "browser"}
    BY <2>4 DEF After
  <2> QED
    BY <2>1, <2>2, <2>3, <2>4
<1> QED
  BY <1>1, ProfileAssumption

\* A queue holds outlets that are due, each once.
LEMMA QueueOfDue ==
    ASSUME ProfileTypeOK, NEW q \in Queues
    PROVE  /\ q \in Seq(Outlet)
           /\ \A i \in 1 .. Len(q) : Due(q[i])
           /\ \A i, j \in 1 .. Len(q) : q[i] = q[j] => i = j
<1> DEFINE due == {s \in Outlet : Due(s)}
           n == Cardinality(due)
<1>1. n \in Nat
  BY ProfileAssumption, FS_Subset, FS_CardinalityType
<1>2. q \in [1 .. n -> due] /\ \A i, j \in 1 .. n : i < j => q[i] \in before[q[j]]
  BY DEF Queues, Before
<1> HIDE DEF n
<1>3. q \in Seq(due) /\ Len(q) = n
  BY <1>1, <1>2
<1>4. \A i, j \in 1 .. n : i < j => q[i] # q[j]
  BY <1>2 DEF ProfileTypeOK
<1>5. \A i, j \in 1 .. n : q[i] = q[j] => i = j
  BY <1>1, <1>4
<1> QED
  BY <1>2, <1>3, <1>5

\* What is left of a queue after its first.
LEMMA TailOfQueue ==
    ASSUME NEW q \in Seq(Outlet), q # <<>>,
           \A i, j \in 1 .. Len(q) : q[i] = q[j] => i = j
    PROVE  /\ Tail(q) \in Seq(Outlet) /\ Head(q) \in Outlet
           /\ \A i, j \in 1 .. Len(Tail(q)) : Tail(q)[i] = Tail(q)[j] => i = j
           /\ \A i \in 1 .. Len(Tail(q)) :
                 Tail(q)[i] # Head(q) /\ \E j \in 1 .. Len(q) : q[j] = Tail(q)[i]
           /\ \E i \in 1 .. Len(q) : q[i] = Head(q)
<1>1. /\ Tail(q) \in Seq(Outlet) /\ Head(q) = q[1] /\ Head(q) \in Outlet
      /\ Len(q) \in Nat /\ Len(q) > 0 /\ Len(Tail(q)) = Len(q) - 1
      /\ \A i \in 1 .. Len(Tail(q)) : Tail(q)[i] = q[i + 1]
  BY HeadTailProperties, EmptySeq
<1>2. \A i \in 1 .. Len(Tail(q)) : i + 1 \in 1 .. Len(q) /\ i + 1 # 1
  BY <1>1
<1>3. 1 \in 1 .. Len(q)
  BY <1>1
<1>4. \A i, j \in 1 .. Len(Tail(q)) : Tail(q)[i] = Tail(q)[j] => i = j
  <2> SUFFICES ASSUME NEW i \in 1 .. Len(Tail(q)), NEW j \in 1 .. Len(Tail(q)),
                      Tail(q)[i] = Tail(q)[j]
               PROVE  i = j
    OBVIOUS
  <2>1. i + 1 = j + 1
    BY <1>1, <1>2
  <2> QED
    BY <2>1
<1> QED
  BY <1>1, <1>2, <1>3, <1>4

-----------------------------------------------------------------------------
(* The steps.                                                              *)

LEMMA InitProfileInv == ProfileInit => ProfileInv
<1> SUFFICES ASSUME ProfileInit
             PROVE  ProfileInv
  OBVIOUS
<1>1. \A s \in Outlet : s \notin IdBefore(s) /\ IdBefore(s) \subseteq Outlet
  <2>1. \A s \in Outlet : Id[s] \in Nat
    BY ProfileAssumption
  <2> QED
    BY <2>1 DEF IdBefore
<1>2. ProfileTypeOK
  BY <1>1 DEF ProfileInit, ProfileTypeOK
<1> QED
  BY <1>2 DEF ProfileInit, ProfileInv, KickedIsAtWork, EmptyAtHand, DueInJob, AtHand, InJob

LEMMA VisitKeeps ==
    ASSUME ProfileInv, NEW s \in Outlet, Visit(s)
    PROVE  ProfileInv'
<1> USE DEF ProfileInv
<1>1. /\ UNCHANGED <<profile, before, kicked, task, job, settled>>
      /\ visited' = visited \cup {s} /\ Empty(s)
      /\ crossed' = IF InJob(s) \/ s \in visited \/ task[s] # NoTask
                    THEN crossed \cup {s} ELSE crossed
  BY DEF Visit, Crossed
<1>2. ProfileTypeOK'
  BY <1>1 DEF ProfileTypeOK
<1>3. KickedIsAtWork'
  BY <1>1 DEF KickedIsAtWork
<1>4. EmptyAtHand'
  BY <1>1 DEF EmptyAtHand, AtHand, Empty, InJob
<1>5. DueInJob'
  BY <1>1 DEF DueInJob, Due, InJob
<1> QED
  BY <1>2, <1>3, <1>4, <1>5

LEMMA KickKeeps ==
    ASSUME ProfileInv, NEW s \in Outlet, Kick(s)
    PROVE  ProfileInv'
<1> USE DEF ProfileInv
<1>1. /\ UNCHANGED <<profile, before, job, settled, crossed>>
      /\ s \in visited /\ visited' = visited \ {s}
  BY DEF Kick
<1>2. CASE s \in kicked
  BY <1>1, <1>2 DEF Kick, ProfileTypeOK, KickedIsAtWork, EmptyAtHand, DueInJob, AtHand, Empty,
        Due, InJob
<1>3. CASE s \notin kicked
  <2>1. kicked' = kicked \cup {s} /\ task' = [task EXCEPT ![s] = NewTask]
    BY <1>3 DEF Kick
  <2>2. ProfileTypeOK'
    BY <1>1, <2>1, NewTaskIsTask DEF ProfileTypeOK
  <2>3. KickedIsAtWork'
    BY <2>1, NewTaskIsTask DEF KickedIsAtWork, ProfileTypeOK
  <2>4. EmptyAtHand'
    BY <1>1, <2>1 DEF EmptyAtHand, AtHand, Empty, InJob, ProfileTypeOK
  <2>5. DueInJob'
    BY <1>1 DEF DueInJob, Due, InJob
  <2> QED
    BY <2>2, <2>3, <2>4, <2>5
<1> QED
  BY <1>2, <1>3

LEMMA CollectKeeps ==
    ASSUME ProfileInv, NEW s \in Outlet, Collect(s)
    PROVE  ProfileInv'
<1> USE DEF ProfileInv
<1>1. /\ UNCHANGED <<profile, before, visited, kicked, job, settled, crossed>>
      /\ task[s] # NoTask
  BY DEF Collect
<1>2. task[s] \in Task
  BY <1>1 DEF ProfileTypeOK
<1>3. PICK t \in Task : t # NoTask /\ task' = [task EXCEPT ![s] = t]
  BY <1>2, AfterIsTask DEF Collect
<1>4. \A o \in Outlet : task'[o] # NoTask <=> task[o] # NoTask
  BY <1>1, <1>3 DEF ProfileTypeOK
<1>5. ProfileTypeOK'
  BY <1>1, <1>3 DEF ProfileTypeOK
<1>6. KickedIsAtWork'
  BY <1>1, <1>4 DEF KickedIsAtWork
<1>7. EmptyAtHand'
  BY <1>1, <1>4 DEF EmptyAtHand, AtHand, Empty, InJob
<1>8. DueInJob'
  BY <1>1 DEF DueInJob, Due, InJob
<1> QED
  BY <1>5, <1>6, <1>7, <1>8

\* What is saved has its type, and is about one outlet.
LEMMA SavedOne ==
    ASSUME ProfileTypeOK, NEW s \in Outlet, NEW t \in Task, Saved(s, t)
    PROVE  /\ profile' \in [Outlet -> Profile \cup {NoProfile}]
           /\ before' \in [Outlet -> SUBSET Outlet] /\ \A o \in Outlet : o \notin before'[o]
           /\ \A o \in Outlet \ {s} : profile'[o] = profile[o]
<1>1. PICK dated \in BOOLEAN :
          profile' = [profile EXCEPT ![s] = [useful |-> t.useful \/ dated, age |-> Fresh]]
  BY DEF Saved
<1>2. [useful |-> t.useful \/ dated, age |-> Fresh] \in Profile
  BY DEF Profile, Task
<1>3. before' = Checked(s)
  BY DEF Saved
<1> QED
  BY <1>1, <1>2, <1>3 DEF ProfileTypeOK, Checked

\* The end of a task, whatever it leaves of the profile.
LEMMA DoneKeeps ==
    ASSUME ProfileInv, NEW s \in Outlet, task[s] # NoTask, Done(s),
           profile' \in [Outlet -> Profile \cup {NoProfile}],
           before' \in [Outlet -> SUBSET Outlet], \A o \in Outlet : o \notin before'[o],
           \A o \in Outlet \ {s} : profile'[o] = profile[o]
    PROVE  ProfileInv'
<1> USE DEF ProfileInv
<1>1. /\ UNCHANGED <<visited, job, settled, crossed>>
      /\ task' = [task EXCEPT ![s] = NoTask] /\ kicked' = kicked \ {s}
  BY DEF Done, Discarded
<1>2. \A o \in Outlet : task'[o] # NoTask <=> task[o] # NoTask /\ o # s
  BY <1>1 DEF ProfileTypeOK
<1>3. ProfileTypeOK'
  BY <1>1 DEF ProfileTypeOK
<1>4. KickedIsAtWork'
  BY <1>1, <1>2 DEF KickedIsAtWork
<1>5. s \notin crossed => s \notin visited /\ ~ InJob(s)
  BY DEF EmptyAtHand, AtHand
<1>6. EmptyAtHand'
  BY <1>1, <1>2, <1>5 DEF EmptyAtHand, AtHand, Empty, InJob
<1>7. DueInJob'
  <2> SUFFICES ASSUME NEW o \in Outlet \ crossed, InJob(o)
               PROVE  Due(o)'
    BY <1>1 DEF DueInJob, InJob
  <2>1. o # s
    BY <1>5
  <2> QED
    BY <2>1 DEF DueInJob, Due
<1> QED
  BY <1>3, <1>4, <1>6, <1>7

LEMMA SaveTaskKeeps ==
    ASSUME ProfileInv, NEW s \in Outlet, SaveTask(s)
    PROVE  ProfileInv'
<1>1. task[s] # NoTask /\ task[s] \in Task /\ Saved(s, task[s]) /\ Done(s)
  BY DEF SaveTask, ProfileInv, ProfileTypeOK
<1> QED
  BY <1>1, SavedOne, DoneKeeps DEF ProfileInv

LEMMA TaskRaisesKeeps ==
    ASSUME ProfileInv, NEW s \in Outlet, TaskRaises(s)
    PROVE  ProfileInv'
<1>1. task[s] # NoTask /\ Done(s) /\ UNCHANGED <<profile, before>>
  BY DEF TaskRaises
<1>2. /\ profile \in [Outlet -> Profile \cup {NoProfile}]
      /\ before \in [Outlet -> SUBSET Outlet] /\ \A o \in Outlet : o \notin before[o]
  BY DEF ProfileInv, ProfileTypeOK
<1> QED
  BY <1>1, <1>2, DoneKeeps

LEMMA StartJobKeeps ==
    ASSUME ProfileInv, StartJob
    PROVE  ProfileInv'
<1> USE DEF ProfileInv
<1>1. /\ UNCHANGED <<profile, before, visited, kicked, task, settled>>
      /\ crossed' = crossed \cup {s \in visited \cup kicked : Due(s)}
  BY DEF StartJob
<1>2. PICK q \in Queues : job' = [queue |-> q, task |-> NoTask, done |-> 0]
  BY DEF StartJob
<1>3. /\ q \in Seq(Outlet)
      /\ \A i \in 1 .. Len(q) : Due(q[i])
      /\ \A i, j \in 1 .. Len(q) : q[i] = q[j] => i = j
  BY QueueOfDue
<1>4. job' \in Job /\ job' # NoJob
  BY <1>2, <1>3, ProfileAssumption DEF Job
<1>5. ProfileTypeOK'
  BY <1>1, <1>2, <1>3, <1>4 DEF ProfileTypeOK
<1>6. KickedIsAtWork'
  BY <1>1 DEF KickedIsAtWork
<1>7. \A s \in Outlet : InJob(s)' => Due(s)
  BY <1>2, <1>3 DEF InJob
<1>8. EmptyAtHand'
  <2> SUFFICES ASSUME NEW s \in Outlet \ crossed', AtHand(s)'
               PROVE  (Empty(s) /\ ~ InJob(s) /\ ~(s \in visited /\ task[s] # NoTask))'
    BY DEF EmptyAtHand
  <2>1. s \in Outlet \ crossed /\ AtHand(s)
    BY <1>1 DEF AtHand
  <2>2. s \in visited \cup kicked
    BY <2>1 DEF AtHand, KickedIsAtWork
  <2>3. ~ InJob(s)'
    BY <1>1, <1>7, <2>2
  <2> QED
    BY <1>1, <2>1, <2>3 DEF EmptyAtHand, Empty
<1>9. DueInJob'
  BY <1>1, <1>7 DEF DueInJob, Due
<1> QED
  BY <1>5, <1>6, <1>8, <1>9

\* The job at an outlet.
LEMMA JobAtWork ==
    ASSUME ProfileTypeOK, job # NoJob, job.task # NoTask
    PROVE  /\ job \in Job /\ job.queue \in Seq(Outlet) /\ job.queue # <<>>
           /\ job.task \in Task /\ job.done \in 0 .. Budget /\ job.done < Budget
           /\ Tail(job.queue) \in Seq(Outlet) /\ Head(job.queue) \in Outlet
           /\ \A i, j \in 1 .. Len(Tail(job.queue)) :
                 Tail(job.queue)[i] = Tail(job.queue)[j] => i = j
           /\ \A i \in 1 .. Len(Tail(job.queue)) :
                 Tail(job.queue)[i] # Head(job.queue) /\ InJob(Tail(job.queue)[i])
           /\ InJob(Head(job.queue))
<1>1. /\ job \in Job /\ job.queue \in Seq(Outlet) /\ job.queue # <<>>
      /\ job.task \in Task /\ job.done \in 0 .. Budget /\ job.done < Budget
      /\ \A i, j \in 1 .. Len(job.queue) : job.queue[i] = job.queue[j] => i = j
  BY DEF ProfileTypeOK, Job
<1> QED
  BY <1>1, TailOfQueue DEF InJob

\* The job, or its end, with no more outlets before it than there were.
LEMMA JobGoesOnKeeps ==
    ASSUME ProfileInv, job' \in Job \cup {NoJob},
           job' # NoJob => /\ \A i, j \in 1 .. Len(job'.queue) :
                                 job'.queue[i] = job'.queue[j] => i = j
                           /\ job'.task # NoTask => job'.queue # <<>> /\ job'.done < Budget,
           \A s \in Outlet : InJob(s)' => InJob(s) /\ profile'[s] = profile[s],
           \A s \in Outlet \ crossed : ~ InJob(s) => profile'[s] = profile[s],
           profile' \in [Outlet -> Profile \cup {NoProfile}],
           before' \in [Outlet -> SUBSET Outlet], \A o \in Outlet : o \notin before'[o],
           UNCHANGED <<visited, kicked, task, settled, crossed>>
    PROVE  ProfileInv'
<1> USE DEF ProfileInv
<1>1. ProfileTypeOK'
  BY DEF ProfileTypeOK
<1>2. KickedIsAtWork'
  BY DEF KickedIsAtWork
<1>3. EmptyAtHand'
  BY DEF EmptyAtHand, AtHand, Empty
<1>4. DueInJob'
  BY DEF DueInJob, Due
<1> QED
  BY <1>1, <1>2, <1>3, <1>4

LEMMA NextOutletKeeps ==
    ASSUME ProfileInv, NextOutlet
    PROVE  ProfileInv'
<1>1. /\ job # NoJob /\ job.queue # <<>> /\ job.done < Budget
      /\ job' = [job EXCEPT !.task = NewTask]
      /\ UNCHANGED <<profile, before, visited, kicked, task, settled, crossed>>
  BY DEF NextOutlet
<1>2. job \in Job /\ ProfileTypeOK
  BY <1>1 DEF ProfileInv, ProfileTypeOK
<1>3. job' \in Job /\ job'.queue = job.queue /\ job'.done = job.done
  BY <1>1, <1>2, NewTaskIsTask DEF Job
<1>4. \A s \in Outlet : InJob(s)' => InJob(s)
  BY <1>1, <1>3 DEF InJob
<1> QED
  BY <1>1, <1>2, <1>3, <1>4, JobGoesOnKeeps DEF ProfileTypeOK

LEMMA EndJobKeeps ==
    ASSUME ProfileInv, EndJob
    PROVE  ProfileInv'
<1>1. /\ job' = NoJob
      /\ UNCHANGED <<profile, before, visited, kicked, task, settled, crossed>>
  BY DEF EndJob
<1>2. \A s \in Outlet : ~ InJob(s)'
  BY <1>1 DEF InJob
<1> QED
  BY <1>1, <1>2, JobGoesOnKeeps DEF ProfileInv, ProfileTypeOK

LEMMA JobCollectsKeeps ==
    ASSUME ProfileInv, JobCollects
    PROVE  ProfileInv'
<1>1. /\ job # NoJob /\ job.task # NoTask
      /\ UNCHANGED <<profile, before, visited, kicked, task, settled, crossed>>
  BY DEF JobCollects
<1>2. job \in Job /\ job.task \in Task /\ ProfileTypeOK
  BY <1>1, JobAtWork DEF ProfileInv
<1>3. PICK t \in Task : job' = [job EXCEPT !.task = t]
  BY <1>2, AfterIsTask DEF JobCollects
<1>4. job' \in Job /\ job'.queue = job.queue /\ job'.done = job.done /\ job.done < Budget
  BY <1>1, <1>2, <1>3, JobAtWork DEF Job
<1>5. \A s \in Outlet : InJob(s)' => InJob(s)
  BY <1>1, <1>4 DEF InJob
<1> QED
  BY <1>1, <1>2, <1>4, <1>5, JobGoesOnKeeps DEF ProfileTypeOK

LEMMA JobSavesKeeps ==
    ASSUME ProfileInv, JobSaves
    PROVE  ProfileInv'
<1> DEFINE s == Head(job.queue)
           rest == Tail(job.queue)
<1>1. /\ job # NoJob /\ job.task # NoTask /\ Saved(s, job.task) /\ ProfileTypeOK
      /\ job' = [queue |-> rest, task |-> NoTask, done |-> job.done + 1]
      /\ UNCHANGED <<visited, kicked, task, settled, crossed>>
  BY DEF JobSaves, ProfileInv
<1>2. /\ job.queue # <<>> /\ job.task \in Task /\ s \in Outlet /\ rest \in Seq(Outlet)
      /\ \A i, j \in 1 .. Len(rest) : rest[i] = rest[j] => i = j
      /\ \A i \in 1 .. Len(rest) : rest[i] # s /\ InJob(rest[i])
      /\ InJob(s) /\ job.done \in 0 .. Budget /\ job.done < Budget
  BY <1>1, JobAtWork
<1>3. /\ profile' \in [Outlet -> Profile \cup {NoProfile}]
      /\ before' \in [Outlet -> SUBSET Outlet] /\ \A o \in Outlet : o \notin before'[o]
      /\ \A o \in Outlet \ {s} : profile'[o] = profile[o]
  BY <1>1, <1>2, SavedOne
<1> HIDE DEF s, rest
<1>4. job.done + 1 \in 0 .. Budget
  BY <1>2, ProfileAssumption
<1>5. job' \in Job
  BY <1>1, <1>2, <1>4 DEF Job
<1>6. \A o \in Outlet : InJob(o)' => InJob(o) /\ o # s
  BY <1>1, <1>2 DEF InJob
<1> QED
  BY <1>1, <1>2, <1>3, <1>5, <1>6, JobGoesOnKeeps

LEMMA JobRaisesKeeps ==
    ASSUME ProfileInv, JobRaises
    PROVE  ProfileInv'
<1> DEFINE rest == Tail(job.queue)
<1>1. /\ job # NoJob /\ job.task # NoTask /\ job' = AfterException /\ ProfileTypeOK
      /\ UNCHANGED <<profile, before, visited, kicked, task, settled, crossed>>
  BY DEF JobRaises, ProfileInv
<1>2. /\ job \in Job /\ rest \in Seq(Outlet)
      /\ \A i, j \in 1 .. Len(rest) : rest[i] = rest[j] => i = j
      /\ \A i \in 1 .. Len(rest) : InJob(rest[i])
  BY <1>1, JobAtWork
<1>3. CASE job' = NoJob
  <2>1. \A s \in Outlet : ~ InJob(s)'
    BY <1>3 DEF InJob
  <2> QED
    BY <1>1, <1>3, <2>1, JobGoesOnKeeps DEF ProfileTypeOK
<1>4. CASE job' # NoJob
  <2>1. job' = [job EXCEPT !.queue = rest, !.task = NoTask]
    BY <1>1, <1>4 DEF AfterException
  <2>2. job' \in Job /\ job'.queue = rest /\ job'.task = NoTask
    BY <1>2, <2>1 DEF Job
  <2> HIDE DEF rest
  <2>3. \A s \in Outlet : InJob(s)' => InJob(s)
    BY <1>2, <2>2 DEF InJob
  <2> QED
    BY <1>1, <1>2, <2>2, <2>3, JobGoesOnKeeps DEF ProfileTypeOK
<1> QED
  BY <1>3, <1>4

LEMMA GrowsOldKeeps ==
    ASSUME ProfileInv, NEW s \in Outlet, GrowsOld(s)
    PROVE  ProfileInv'
<1> USE DEF ProfileInv
<1>1. /\ UNCHANGED <<before, visited, kicked, task, job, settled, crossed>>
      /\ profile[s] # NoProfile /\ profile[s].age < TwoWeeks
      /\ profile' = [profile EXCEPT ![s].age = @ + 1]
  BY DEF GrowsOld
<1>2. profile[s] \in Profile
  BY <1>1 DEF ProfileTypeOK
<1> DEFINE older == [profile[s] EXCEPT !.age = @ + 1]
<1>3. older \in Profile /\ older.useful = profile[s].useful /\ older.age = profile[s].age + 1
  BY <1>1, <1>2 DEF Profile, Fresh, SixHours, TwoWeeks
<1>4. profile' = [profile EXCEPT ![s] = older]
  BY <1>1
<1> HIDE DEF older
<1>5. ProfileTypeOK'
  BY <1>1, <1>3, <1>4 DEF ProfileTypeOK
<1>6. KickedIsAtWork'
  BY <1>1 DEF KickedIsAtWork
<1>7. \A o \in Outlet : Empty(o) => Empty(o)'
  BY <1>1, <1>3, <1>4 DEF Empty, ProfileTypeOK
<1>8. EmptyAtHand'
  BY <1>1, <1>7 DEF EmptyAtHand, AtHand, InJob
<1>9. \A o \in Outlet : Due(o) => Due(o)'
  <2> SUFFICES ASSUME NEW o \in Outlet, Due(o), profile'[o] # NoProfile
               PROVE  profile'[o].age >= IF profile'[o].useful THEN TwoWeeks ELSE SixHours
    BY DEF Due
  <2>1. CASE o # s
    BY <1>4, <2>1 DEF Due, ProfileTypeOK
  <2>2. CASE o = s
    <3>1. profile'[s] = older
      BY <1>4 DEF ProfileTypeOK
    <3>2. profile[s].age >= IF profile[s].useful THEN TwoWeeks ELSE SixHours
      BY <1>1, <2>2 DEF Due
    <3>3. profile[s].age \in 0 .. 2
      BY <1>2 DEF Profile, Fresh, SixHours, TwoWeeks
    <3> QED
      BY <1>3, <2>2, <3>1, <3>2, <3>3 DEF TwoWeeks, SixHours
  <2> QED
    BY <2>1, <2>2
<1>10. DueInJob'
  BY <1>1, <1>9 DEF DueInJob, InJob
<1> QED
  BY <1>5, <1>6, <1>8, <1>10

LEMMA StepProfileInv == ProfileInv /\ [ProfileNext]_profileVars => ProfileInv'
<1> SUFFICES ASSUME ProfileInv, [ProfileNext]_profileVars
             PROVE  ProfileInv'
  OBVIOUS
<1>1. ASSUME NEW s \in Outlet, Visit(s) \/ Kick(s) \/ Collect(s) \/ SaveTask(s) \/ TaskRaises(s)
      PROVE  ProfileInv'
  BY <1>1, VisitKeeps, KickKeeps, CollectKeeps, SaveTaskKeeps, TaskRaisesKeeps
<1>2. ASSUME NEW s \in Outlet, GrowsOld(s)
      PROVE  ProfileInv'
  BY <1>2, GrowsOldKeeps
<1>3. CASE StartJob \/ NextOutlet \/ EndJob \/ JobCollects \/ JobSaves \/ JobRaises
  BY <1>3, StartJobKeeps, NextOutletKeeps, EndJobKeeps, JobCollectsKeeps, JobSavesKeeps,
     JobRaisesKeeps
<1>4. CASE SettleDown
  BY <1>4 DEF SettleDown, ProfileInv, ProfileTypeOK, KickedIsAtWork, EmptyAtHand, DueInJob,
        AtHand, Empty, Due, InJob
<1>5. CASE UNCHANGED profileVars
  BY <1>5 DEF profileVars, ProfileInv, ProfileTypeOK, KickedIsAtWork, EmptyAtHand, DueInJob,
        AtHand, Empty, Due, InJob
<1> QED
  BY <1>1, <1>2, <1>3, <1>4, <1>5, ProfileAssumption DEF ProfileNext

LEMMA ProfileInvariance == ProfileSpec => []ProfileInv
  BY InitProfileInv, StepProfileInv, PTL DEF ProfileSpec

\* The rows, the collections and the job have their types: a round has each
\* outlet before it once, and never more outlets than its budget behind it.
THEOREM ProfilesTyped == ProfileSpec => []ProfileTypeOK
<1>1. ProfileInv => ProfileTypeOK
  BY DEF ProfileInv
<1> QED
  BY <1>1, ProfileInvariance, PTL

\* _KICK_IN_CORSO holds exactly the outlets a task of kick_profilo is at, however
\* the tasks end.
THEOREM KickedAreAtWork == ProfileSpec => []KickedIsAtWork
<1>1. ProfileInv => KickedIsAtWork
  BY DEF ProfileInv
<1> QED
  BY <1>1, ProfileInvariance, PTL

\* A profile is replaced only by what has the outlet in hand, for which it was
\* empty or due.
LEMMA StepKeepsUseful ==
    ASSUME ProfileInv, [ProfileNext]_profileVars, NEW s \in Outlet,
           ~ Empty(s), profile[s].age < TwoWeeks, s \notin crossed
    PROVE  /\ profile'[s] # NoProfile /\ profile'[s].useful
           /\ profile'[s].age >= profile[s].age
<1> USE DEF ProfileInv
<1>1. profile[s] # NoProfile /\ profile[s].useful /\ profile[s] \in Profile
  BY DEF Empty, ProfileTypeOK
<1>2. profile[s].age \in 0 .. 2
  BY <1>1 DEF Profile, Fresh, SixHours, TwoWeeks
<1>3. ~ Due(s)
  BY <1>1, <1>2 DEF Due, TwoWeeks
<1>4. ~ InJob(s) /\ task[s] = NoTask
  BY <1>3 DEF DueInJob, EmptyAtHand, AtHand
<1>5. CASE profile'[s] = profile[s]
  BY <1>1, <1>2, <1>5
<1>6. ASSUME NEW o \in Outlet, SaveTask(o)
      PROVE  profile'[s] = profile[s]
  <2>1. o # s /\ task[o] \in Task /\ Saved(o, task[o])
    BY <1>4, <1>6 DEF SaveTask, ProfileTypeOK
  <2> QED
    BY <2>1, SavedOne
<1>7. ASSUME JobSaves
      PROVE  profile'[s] = profile[s]
  <2>1. /\ job # NoJob /\ job.task # NoTask /\ Saved(Head(job.queue), job.task)
    BY <1>7 DEF JobSaves
  <2>2. Head(job.queue) \in Outlet /\ job.task \in Task /\ InJob(Head(job.queue))
    BY <2>1, JobAtWork
  <2>3. Head(job.queue) # s
    BY <1>4, <2>2
  <2> QED
    BY <2>1, <2>2, <2>3, SavedOne
<1>8. ASSUME NEW o \in Outlet, GrowsOld(o)
      PROVE  /\ profile'[s] # NoProfile /\ profile'[s].useful
             /\ profile'[s].age >= profile[s].age
  <2>1. profile' = [profile EXCEPT ![o] = [profile[o] EXCEPT !.age = @ + 1]]
    BY <1>8 DEF GrowsOld
  <2>2. CASE o # s
    BY <1>1, <1>2, <2>1, <2>2 DEF ProfileTypeOK
  <2>3. CASE o = s
    <3>1. profile'[s] = [profile[s] EXCEPT !.age = @ + 1]
      BY <2>1, <2>3 DEF ProfileTypeOK
    <3>2. profile'[s].useful = profile[s].useful /\ profile'[s].age = profile[s].age + 1
      BY <1>1, <3>1 DEF Profile
    <3>3. profile'[s] \in Profile
      BY <1>1, <1>2, <1>8, <2>3, <3>1 DEF GrowsOld, Profile, Fresh, SixHours, TwoWeeks
    <3> QED
      BY <1>1, <1>2, <3>2, <3>3, ProfileAssumption
  <2> QED
    BY <2>2, <2>3
<1>9. ASSUME NEW o \in Outlet, Visit(o) \/ Kick(o) \/ Collect(o) \/ TaskRaises(o)
      PROVE  profile'[s] = profile[s]
  BY <1>9 DEF Visit, Kick, Collect, TaskRaises
<1>10. CASE \/ StartJob \/ NextOutlet \/ EndJob \/ JobCollects \/ JobRaises \/ SettleDown
            \/ UNCHANGED profileVars
  <2>1. profile'[s] = profile[s]
    BY <1>10 DEF StartJob, NextOutlet, EndJob, JobCollects, JobRaises, SettleDown, profileVars
  <2> QED
    BY <1>5, <2>1
<1> QED
  BY <1>5, <1>6, <1>7, <1>8, <1>9, <1>10, ProfileAssumption DEF ProfileNext

\* A useful profile is not replaced before it is two weeks old, unless a page or
\* a task and the job had the outlet in hand at once.
THEOREM UsefulIsKept == ProfileSpec => UsefulKept
<1>1. ProfileInv /\ [ProfileNext]_profileVars =>
        [\A s \in Outlet :
           ~ Empty(s) /\ profile[s].age < TwoWeeks /\ s \notin crossed
           => profile'[s] # NoProfile /\ profile'[s].useful
              /\ profile'[s].age >= profile[s].age]_profileVars
  BY StepKeepsUseful
<1> QED
  BY <1>1, ProfileInvariance, PTL DEF ProfileSpec, UsefulKept

-----------------------------------------------------------------------------
(* Analysis: what a job writes it has concluded from what it saw, and who  *)
(* covered a story when a job looked covers it still.                      *)

\* Coverage and age only grow.
SeenBefore ==
    \A j \in Judge : seen[j] # NoView =>
        \A st \in Story : /\ seen[j].cover[st] \subseteq cover[st]
                           /\ seen[j].age[st] <= age[st]

AnalysisInv ==
    /\ TypeOK
    /\ SeenBefore
    /\ SmallCountriesAreSpared
    /\ TimeToCover

\* There are finitely many functions between two finite sets.
LEMMA FunctionsFinite ==
    ASSUME NEW S, NEW T, IsFiniteSet(S), IsFiniteSet(T), NEW F \in SUBSET [S -> T]
    PROVE  IsFiniteSet(F) /\ Cardinality(F) \in Nat
<1> DEFINE Graph(f) == {<<x, f[x]>> : x \in S}
           Graphs == SUBSET (S \X T)
           graph == [f \in F |-> Graph(f)]
<1>1. IsFiniteSet(Graphs)
  BY FS_Product, FS_SUBSET
<1>2. \A f \in F : Graph(f) \in Graphs
  OBVIOUS
<1>3. ASSUME NEW f \in F, NEW g \in F, Graph(f) = Graph(g)
      PROVE  f = g
  <2>1. ASSUME NEW x \in S
        PROVE  f[x] = g[x]
    <3>1. <<x, f[x]>> \in Graph(g)
      BY <1>3
    <3> QED
      BY <3>1
  <2> QED
    BY <2>1
<1> HIDE DEF Graph, Graphs
<1>4. graph \in Injection(F, Graphs)
  BY <1>2, <1>3 DEF Injection, IsInjective
<1> QED
  BY <1>1, <1>4, FS_Injection, FS_CardinalityType

\* If nobody of c covers a big story, every draw is one in which nobody does.
LEMMA SilentAlways ==
    ASSUME NEW v, NEW w, NEW c,
           \A s \in Active(v, w, c) : \A big \in Big(v, w) : s \notin v.cover[big]
    PROVE  PNull(v, w, c) = Draws(v, w, c)
  BY DEF PNull, Draws

\* So a silence that is improbable is that of somebody who speaks at times.
LEMMA ImprobableSpeaks ==
    ASSUME NEW v \in View, NEW w \in 0 .. 2, NEW c \in Country, Improbable(v, w, c)
    PROVE  \E s \in Active(v, w, c), big \in Big(v, w) : s \in v.cover[big]
<1> SUFFICES ASSUME \A s \in Active(v, w, c) : \A big \in Big(v, w) : s \notin v.cover[big]
             PROVE  FALSE
  OBVIOUS
<1>1. PNull(v, w, c) = Draws(v, w, c)
  BY SilentAlways
<1>2. IsFiniteSet(Active(v, w, c)) /\ IsFiniteSet(Big(v, w))
  <2>1. Active(v, w, c) \subseteq Source /\ Big(v, w) \subseteq Story
    BY DEF Active, Big, InWindow
  <2> QED
    BY <2>1, ConstantAssumption, FS_Subset
<1>3. Cardinality(Draws(v, w, c)) \in Nat
  BY <1>2, FunctionsFinite DEF Draws
<1> DEFINE n == Cardinality(Draws(v, w, c))
<1>4. n * Alpha[2] < n * Alpha[1]
  BY <1>1 DEF Improbable
<1>5. n \in Nat /\ Alpha[1] \in Nat /\ Alpha[2] \in Nat /\ Alpha[1] <= Alpha[2]
  BY <1>3, ConstantAssumption
<1> HIDE DEF n
<1>6. n * Alpha[1] <= n * Alpha[2]
  BY <1>5
<1> QED
  BY <1>4, <1>5, <1>6

LEMMA ViewNow == TypeOK => Now \in View /\ Now # NoView
<1>1. TypeOK => Now \in View
  BY DEF TypeOK, Now, View
<1> QED
  BY <1>1, NoValueAssumption

\* What a verdict rests on.
LEMMA VerdictFounded ==
    ASSUME TypeOK, SeenBefore, NEW j \in Judge, seen[j] # NoView, NEW st \in Story,
           NEW c \in Verdict(seen[j], Window[j], st)
    PROVE  /\ c \in Country /\ age[st] >= 1
           /\ \E big \in Story \ {st}, s \in Source :
                 CountryOf[s] = c /\ s \in cover[big] /\ Cardinality(cover[big]) >= MinSources
<1> DEFINE v == seen[j]
           w == Window[j]
<1>1. v \in View /\ w \in 0 .. 2
  BY ConstantAssumption DEF TypeOK
<1>2. c \in Ignoring(v, w, st)
  BY DEF Verdict
<1>3. c \in Country \ Countries(v, st) /\ Judged(v, w, st) /\ Improbable(v, w, c)
  BY <1>2 DEF Ignoring
<1>4. PICK s \in Active(v, w, c), big \in Big(v, w) : s \in v.cover[big]
  BY <1>1, <1>3, ImprobableSpeaks
<1>5. s \in Source /\ CountryOf[s] = c /\ big \in Story /\ Cardinality(v.cover[big]) >= MinSources
  BY <1>4 DEF Active, Big, InWindow
<1>6. big # st
  BY <1>3, <1>4, <1>5 DEF Countries
<1>7. v.cover[big] \subseteq cover[big] /\ v.age[st] <= age[st]
  BY <1>5 DEF SeenBefore
<1>8. Cardinality(cover[big]) >= MinSources
  <2>1. cover[big] \subseteq Source
    BY <1>5 DEF TypeOK
  <2>2. IsFiniteSet(cover[big])
    BY <2>1, ConstantAssumption, FS_Subset
  <2>3. /\ IsFiniteSet(v.cover[big])
        /\ Cardinality(v.cover[big]) <= Cardinality(cover[big])
    BY <1>7, <2>2, FS_Subset
  <2>4. Cardinality(v.cover[big]) \in Nat /\ Cardinality(cover[big]) \in Nat /\ MinSources \in Nat
    BY <2>2, <2>3, FS_CardinalityType, ConstantAssumption
  <2> QED
    BY <1>5, <2>3, <2>4
<1>9. age[st] >= 1
  <2>1. v.age[st] \in 0 .. 2 /\ age[st] \in 0 .. 2
    BY <1>1 DEF View, TypeOK
  <2> QED
    BY <1>3, <1>7, <2>1 DEF Judged
<1> QED
  BY <1>3, <1>4, <1>5, <1>6, <1>7, <1>8, <1>9

LEMMA AnalysisStarts == Init => AnalysisInv
<1> SUFFICES ASSUME Init PROVE AnalysisInv
  OBVIOUS
<1>1. age \in [Story -> 0 .. 2]
  <2>1. ASSUME NEW st \in Story
        PROVE  Min(Ages[st]) \in Ages[st]
    <3>1. Ages[st] \subseteq 0 .. 2 /\ Ages[st] # {}
      BY ConstantAssumption
    <3>2. \E x \in Ages[st] : \A y \in Ages[st] : x <= y
      <4>1. CASE 0 \in Ages[st]
        BY <3>1, <4>1
      <4>2. CASE 0 \notin Ages[st] /\ 1 \in Ages[st]
        BY <3>1, <4>2
      <4>3. CASE 0 \notin Ages[st] /\ 1 \notin Ages[st]
        BY <3>1, <4>3
      <4> QED
        BY <4>1, <4>2, <4>3
    <3> QED
      BY <3>2 DEF Min
  <2> QED
    BY <2>1, ConstantAssumption DEF Init
<1>2. TypeOK
  BY <1>1, NoValueAssumption DEF Init, TypeOK, Judge
<1>3. SeenBefore
  BY DEF Init, SeenBefore
<1>4. SmallCountriesAreSpared /\ TimeToCover
  BY DEF Init, SmallCountriesAreSpared, TimeToCover
<1> QED
  BY <1>2, <1>3, <1>4 DEF AnalysisInv

\* Stories gain coverage and grow older, whatever the jobs do.
LEMMA StoriesGrow ==
    ASSUME TypeOK, [Next]_vars, NEW st \in Story
    PROVE  cover[st] \subseteq cover'[st] /\ age[st] <= age'[st]
<1>1. age[st] \in 0 .. 2
  BY DEF TypeOK
<1>2. CASE Cluster
  BY <1>1, <1>2 DEF Cluster
<1>3. ASSUME NEW x \in Story, TimePasses(x)
      PROVE  cover[st] \subseteq cover'[st] /\ age[st] <= age'[st]
  BY <1>1, <1>3 DEF TimePasses, TypeOK
<1>4. CASE UNCHANGED <<cover, age>>
  BY <1>1, <1>4
<1>5. ASSUME NEW x \in Story, GoThrough(x) \/ Search(x)
      PROVE  UNCHANGED <<cover, age>>
  BY <1>5 DEF GoThrough, Search
<1>6. ASSUME NEW j \in Judge, Look(j) \/ Lock(j) \/ Commit(j) \/ Fail(j)
      PROVE  UNCHANGED <<cover, age>>
  BY <1>6 DEF Look, Lock, Commit, Fail
<1>7. ASSUME StartLink \/ EndLink \/ CalmDown
      PROVE  UNCHANGED <<cover, age>>
  BY <1>7 DEF StartLink, EndLink, CalmDown
<1>8. ASSUME UNCHANGED vars
      PROVE  UNCHANGED <<cover, age>>
  BY <1>8 DEF vars
<1> QED
  BY <1>2, <1>3, <1>4, <1>5, <1>6, <1>7, <1>8 DEF Next

\* Flags come from the verdict of a job on what it has seen, and from nothing else.
LEMMA FlagsAreVerdicts ==
    ASSUME TypeOK, [Next]_vars, NEW st \in Story, flags'[st] \notin {{}, NoRow}
    PROVE  \/ flags'[st] = flags[st]
           \/ \E j \in Judge : seen[j] # NoView /\ flags'[st] = Verdict(seen[j], Window[j], st)
<1>1. \A done : RowOf(st, done) \in {{}, flags[st]}
  BY DEF RowOf
<1>2. ASSUME NEW x \in Story, GoThrough(x)
      PROVE  flags'[st] = flags[st]
  BY <1>1, <1>2 DEF GoThrough
<1>3. ASSUME NEW j \in Judge, Commit(j)
      PROVE  \/ flags'[st] = flags[st]
             \/ seen[j] # NoView /\ flags'[st] = Verdict(seen[j], Window[j], st)
  <2>1. seen[j] # NoView
    BY <1>3 DEF Commit, TypeOK
  <2> DEFINE done == IF j = "cluster" THEN pending ELSE {}
  <2>2. flags'[st] \in {RowOf(st, done), Verdict(seen[j], Window[j], st)}
    BY <1>3 DEF Commit, Updated
  <2> QED
    BY <1>1, <2>1, <2>2
<1>4. CASE UNCHANGED flags
  BY <1>4
<1>5. ASSUME NEW x \in Story, TimePasses(x) \/ Search(x)
      PROVE  UNCHANGED flags
  BY <1>5 DEF TimePasses, Search
<1>6. ASSUME NEW j \in Judge, Look(j) \/ Lock(j) \/ Fail(j)
      PROVE  UNCHANGED flags
  BY <1>6 DEF Look, Lock, Fail
<1>7. ASSUME Cluster \/ StartLink \/ EndLink \/ CalmDown \/ UNCHANGED vars
      PROVE  UNCHANGED flags
  BY <1>7 DEF Cluster, StartLink, EndLink, CalmDown, vars
<1> QED
  BY <1>2, <1>3, <1>4, <1>5, <1>6, <1>7 DEF Next

\* What holds of a verdict goes on holding while stories grow.
LEMMA GroundsStay ==
    ASSUME TypeOK, TypeOK', [Next]_vars, NEW st \in Story, NEW c \in Country,
           \E big \in Story \ {st}, s \in Source :
               CountryOf[s] = c /\ s \in cover[big] /\ Cardinality(cover[big]) >= MinSources
    PROVE  \E big \in Story \ {st}, s \in Source :
               CountryOf[s] = c /\ s \in cover'[big] /\ Cardinality(cover'[big]) >= MinSources
<1>1. PICK big \in Story \ {st}, s \in Source :
        CountryOf[s] = c /\ s \in cover[big] /\ Cardinality(cover[big]) >= MinSources
  OBVIOUS
<1>2. cover[big] \subseteq cover'[big]
  BY StoriesGrow
<1>3. cover'[big] \subseteq Source
  BY DEF TypeOK
<1>4. IsFiniteSet(cover'[big])
  BY <1>3, ConstantAssumption, FS_Subset
<1>5. IsFiniteSet(cover[big]) /\ Cardinality(cover[big]) <= Cardinality(cover'[big])
  BY <1>2, <1>4, FS_Subset
<1>6. Cardinality(cover[big]) \in Nat /\ Cardinality(cover'[big]) \in Nat /\ MinSources \in Nat
  BY <1>4, <1>5, FS_CardinalityType, ConstantAssumption
<1>7. Cardinality(cover'[big]) >= MinSources
  BY <1>1, <1>5, <1>6
<1> QED
  BY <1>1, <1>2, <1>7

LEMMA FlagsStayFounded ==
    AnalysisInv /\ TypeOK' /\ [Next]_vars => SmallCountriesAreSpared' /\ TimeToCover'
<1> SUFFICES ASSUME AnalysisInv, TypeOK', [Next]_vars
             PROVE  SmallCountriesAreSpared' /\ TimeToCover'
  OBVIOUS
<1> USE DEF AnalysisInv
<1>1. ASSUME NEW st \in Story, flags'[st] # NoRow, NEW c \in flags'[st]
      PROVE  /\ c \in Country /\ age[st] >= 1
             /\ \E big \in Story \ {st}, s \in Source :
                   CountryOf[s] = c /\ s \in cover[big] /\ Cardinality(cover[big]) >= MinSources
  <2>1. flags'[st] \notin {{}, NoRow}
    BY <1>1
  <2>2. CASE flags'[st] = flags[st]
    BY <1>1, <2>1, <2>2 DEF SmallCountriesAreSpared, TimeToCover, TypeOK
  <2>3. CASE \E j \in Judge : seen[j] # NoView /\ flags'[st] = Verdict(seen[j], Window[j], st)
    BY <1>1, <2>3, VerdictFounded
  <2> QED
    BY <2>1, <2>2, <2>3, FlagsAreVerdicts
<1>2. SmallCountriesAreSpared'
  BY <1>1, GroundsStay DEF SmallCountriesAreSpared
<1>3. TimeToCover'
  <2> SUFFICES ASSUME NEW st \in Story, flags'[st] \notin {{}, NoRow}
               PROVE  age'[st] >= 1
    BY DEF TimeToCover
  <2>1. flags'[st] \in SUBSET Country
    BY DEF TypeOK
  <2>2. PICK c : c \in flags'[st]
    BY <2>1
  <2>3. age[st] >= 1
    BY <1>1, <2>2
  <2>4. age[st] \in 0 .. 2 /\ age'[st] \in 0 .. 2 /\ age[st] <= age'[st]
    BY StoriesGrow DEF TypeOK
  <2> QED
    BY <2>3, <2>4
<1> QED
  BY <1>2, <1>3

LEMMA SeenStays == TypeOK /\ TypeOK' /\ SeenBefore /\ [Next]_vars => SeenBefore'
<1> SUFFICES ASSUME TypeOK, TypeOK', SeenBefore, [Next]_vars,
                    NEW j \in Judge, seen'[j] # NoView, NEW st \in Story
             PROVE  seen'[j].cover[st] \subseteq cover'[st] /\ seen'[j].age[st] <= age'[st]
  BY DEF SeenBefore
<1>1. cover[st] \subseteq cover'[st] /\ age[st] <= age'[st]
  BY StoriesGrow
<1>2. seen'[j] \in {seen[j], Now, NoView}
  <2>1. ASSUME NEW i \in Judge, Look(i) \/ Lock(i) \/ Commit(i) \/ Fail(i)
        PROVE  seen'[j] \in {seen[j], Now, NoView}
    BY <2>1 DEF Look, Lock, Commit, Fail, TypeOK
  <2>2. ASSUME NEW x \in Story, GoThrough(x) \/ TimePasses(x) \/ Search(x)
        PROVE  UNCHANGED seen
    BY <2>2 DEF GoThrough, TimePasses, Search
  <2>3. ASSUME Cluster \/ StartLink \/ EndLink \/ CalmDown \/ UNCHANGED vars
        PROVE  UNCHANGED seen
    BY <2>3 DEF Cluster, StartLink, EndLink, CalmDown, vars
  <2> QED
    BY <2>1, <2>2, <2>3 DEF Next
<1>3. CASE seen'[j] = seen[j]
  <2>1. seen[j] # NoView /\ seen[j] \in View
    BY <1>3 DEF TypeOK
  <2>2. seen[j].cover[st] \subseteq cover[st] /\ seen[j].age[st] <= age[st]
    BY <2>1 DEF SeenBefore
  <2>3. seen[j].age[st] \in 0 .. 2 /\ age[st] \in 0 .. 2 /\ age'[st] \in 0 .. 2
    BY <2>1 DEF View, TypeOK
  <2> QED
    BY <1>1, <1>3, <2>2, <2>3
<1>4. CASE seen'[j] = Now
  BY <1>1, <1>4 DEF Now
<1> QED
  BY <1>2, <1>3, <1>4

\* What a job has committed are entities and flags, whichever of its stories it is at.
LEMMA CommittedRows ==
    ASSUME TypeOK, NEW done \in SUBSET Story
    PROVE  /\ EntitiesOf(done) \in [Story -> SUBSET Entity]
           /\ \A st \in Story : RowOf(st, done) \in {NoRow} \cup SUBSET Country
  BY DEF TypeOK, EntitiesOf, Assigned, RowOf

LEMMA ClusterTyped ==
    ASSUME TypeOK, Cluster
    PROVE  TypeOK'
<1>1. cover' \in [Story -> SUBSET Source] /\ todo' \in SUBSET Story
  BY ConstantAssumption DEF Cluster, TypeOK
<1>2. at' = [at EXCEPT !["cluster"] = "stories"] /\ at["cluster"] = "idle"
  BY DEF Cluster, At
<1>3. UNCHANGED <<age, flags, signal, entities, recorded, seen, pending, link, holder, calm>>
  BY DEF Cluster
<1> QED
  BY <1>1, <1>2, <1>3 DEF TypeOK

LEMMA GoThroughTyped ==
    ASSUME TypeOK, NEW st \in Story, GoThrough(st)
    PROVE  TypeOK'
<1> DEFINE done == pending \cup {st}
<1>1. done \in SUBSET Story
  BY DEF TypeOK
<1>2. flags' \in [Story -> {NoRow} \cup SUBSET Country] /\ entities' \in [Story -> SUBSET Entity]
  BY <1>1, CommittedRows DEF GoThrough, TypeOK
<1>3. /\ todo' \in SUBSET Story /\ pending' \in SUBSET Story
      /\ holder \in {None, "cluster"} /\ holder' \in {None, "cluster"}
      /\ at["cluster"] = "stories"
      /\ UNCHANGED <<cover, age, signal, recorded, at, seen, link, calm>>
  BY <1>1 DEF GoThrough, TypeOK
<1> QED
  BY <1>2, <1>3, NoValueAssumption DEF TypeOK, Judge

LEMMA LookTyped ==
    ASSUME TypeOK, NEW j \in Judge, Look(j)
    PROVE  TypeOK'
<1>1. /\ seen' = [seen EXCEPT ![j] = Now]
      /\ at' = [at EXCEPT ![j] = IF holder' = j THEN "judging" ELSE "looked"]
      /\ holder' = IF j = "signals" THEN j ELSE holder
      /\ j = "signals" => holder = None
      /\ UNCHANGED <<cover, age, flags, signal, entities, recorded, todo, pending, link, calm>>
  BY DEF Look, At
<1>2. Now \in View /\ Now # NoView
  BY ViewNow
<1>3. seen' \in [Judge -> {NoView} \cup View]
  BY <1>1, <1>2 DEF TypeOK
<1>4. at' \in [Judge -> {"idle", "stories", "looked", "judging"}]
  BY <1>1 DEF TypeOK
<1>5. \A i \in Judge : seen'[i] = NoView <=> at'[i] \in {"idle", "stories"}
  BY <1>1, <1>2 DEF TypeOK
<1>6. \A i \in Judge : at'[i] = "judging" => holder' = i
  BY <1>1, NoValueAssumption DEF TypeOK
<1>7. holder' \in Judge \cup {"link", None} /\ (holder' = "link" => link' # NoLink)
  BY <1>1 DEF TypeOK, Judge
<1> QED
  BY <1>1, <1>3, <1>4, <1>5, <1>6, <1>7 DEF TypeOK

LEMMA LockTyped ==
    ASSUME TypeOK, NEW j \in Judge, Lock(j)
    PROVE  TypeOK'
<1>1. /\ at[j] = "looked" /\ holder = None /\ holder' = j
      /\ at' = [at EXCEPT ![j] = "judging"]
      /\ UNCHANGED <<cover, age, flags, signal, entities, recorded, seen, todo, pending, link, calm>>
  BY DEF Lock, At
<1> QED
  BY <1>1, NoValueAssumption DEF TypeOK, Judge

\* Only one job judges with the lock, so that giving it back leaves nobody without.
LEMMA LetGoTyped ==
    ASSUME TypeOK, NEW j \in Judge,
           at' = [at EXCEPT ![j] = "idle"], seen' = [seen EXCEPT ![j] = NoView],
           holder' = (IF holder = j THEN None ELSE holder), link' = link
    PROVE  /\ at' \in [Judge -> {"idle", "stories", "looked", "judging"}]
           /\ seen' \in [Judge -> {NoView} \cup View]
           /\ \A i \in Judge : seen'[i] = NoView <=> at'[i] \in {"idle", "stories"}
           /\ holder' \in Judge \cup {"link", None}
           /\ \A i \in Judge : at'[i] = "judging" => holder' = i
           /\ holder' = "link" => link' # NoLink
<1>1. \A i \in Judge : at'[i] = "judging" => holder' = i
  BY DEF TypeOK
<1>2. holder' = "link" => link' # NoLink
  BY NoValueAssumption DEF TypeOK
<1>3. \A i \in Judge : seen'[i] = NoView <=> at'[i] \in {"idle", "stories"}
  BY DEF TypeOK
<1> QED
  BY <1>1, <1>2, <1>3 DEF TypeOK

LEMMA CommitTyped ==
    ASSUME TypeOK, NEW j \in Judge, Commit(j)
    PROVE  TypeOK'
<1> DEFINE done == IF j = "cluster" THEN pending ELSE {}
<1>1. done \in SUBSET Story
  BY DEF TypeOK
<1>2. \A v, w, st : Verdict(v, w, st) \subseteq Country
  BY DEF Verdict, Ignoring
<1>3. \A v, w, s : Missed(v, w, s) \subseteq Story
  BY DEF Missed, InWindow
<1>4. flags' \in [Story -> {NoRow} \cup SUBSET Country]
  BY <1>1, <1>2, CommittedRows DEF Commit, Updated
<1>5. signal' \in [Source -> {NoSignal} \cup SUBSET Story]
  BY <1>3 DEF Commit, TypeOK
<1>6. entities' \in [Story -> SUBSET Entity] /\ pending' \in SUBSET Story
  BY <1>1, CommittedRows DEF Commit, TypeOK
<1>7. at[j] = "judging" /\ holder' = None /\ at' = [at EXCEPT ![j] = "idle"]
      /\ seen' = [seen EXCEPT ![j] = NoView]
      /\ UNCHANGED <<cover, age, recorded, todo, link, calm>>
  BY DEF Commit, At
<1>8. holder' = IF holder = j THEN None ELSE holder
  BY <1>7 DEF TypeOK
<1> QED
  BY <1>4, <1>5, <1>6, <1>7, <1>8, LetGoTyped DEF TypeOK

LEMMA FailTyped ==
    ASSUME TypeOK, NEW j \in Judge, Fail(j)
    PROVE  TypeOK'
<1>1. /\ at' = [at EXCEPT ![j] = "idle"] /\ seen' = [seen EXCEPT ![j] = NoView]
      /\ holder' = (IF holder = j THEN None ELSE holder)
      /\ UNCHANGED <<cover, age, flags, signal, entities, recorded, link, calm>>
  BY DEF Fail, At
<1>2. todo' \in SUBSET Story /\ pending' \in SUBSET Story
  BY DEF Fail, TypeOK
<1> QED
  BY <1>1, <1>2, LetGoTyped DEF TypeOK

LEMMA LinkTyped ==
    ASSUME TypeOK, StartLink \/ EndLink \/ \E st \in Story : Search(st)
    PROVE  TypeOK'
<1>1. CASE StartLink
  <2>1. link' \in Link
    BY <1>1 DEF StartLink, TypeOK, Link
  <2> QED
    BY <1>1, <2>1, NoValueAssumption DEF StartLink, TypeOK
<1>2. CASE EndLink
  <2>1. link \in Link /\ link' = NoLink
    BY <1>2 DEF EndLink, TypeOK
  <2>2. entities' \in [Story -> SUBSET Entity] /\ recorded' \in SUBSET Story
    BY <1>2, <2>1 DEF EndLink, TypeOK, Link
  <2>3. /\ holder' = IF holder = "link" THEN None ELSE holder
        /\ UNCHANGED <<cover, age, flags, signal, at, seen, todo, pending, calm>>
    BY <1>2 DEF EndLink
  <2>4. \A j \in Judge : at'[j] = "judging" => holder' = j
    BY <2>3 DEF TypeOK, Judge
  <2>5. holder' \in Judge \cup {"link", None} /\ holder' # "link"
    BY <2>3, NoValueAssumption DEF TypeOK
  <2> QED
    BY <2>1, <2>2, <2>3, <2>4, <2>5 DEF TypeOK
<1>3. ASSUME NEW st \in Story, Search(st)
      PROVE  TypeOK'
  <2>1. PICK found \in SUBSET Searched(st) :
          /\ found # {} => holder \in {None, "link"}
          /\ link' = [todo |-> link.todo \ {st},
                      loaded |-> [link.loaded EXCEPT ![st] = {<<e[1], e[2] \/ e[1] \in found>> : e \in @}],
                      found |-> link.found \cup (IF found = {} THEN {} ELSE {st})]
          /\ holder' = IF found = {} THEN holder ELSE "link"
    BY <1>3 DEF Search
  <2>2. link \in Link
    BY <1>3 DEF Search, TypeOK
  <2>3. {<<e[1], e[2] \/ e[1] \in found>> : e \in link.loaded[st]} \in SUBSET Entity
    <3>1. ASSUME NEW e \in link.loaded[st]
          PROVE  <<e[1], e[2] \/ e[1] \in found>> \in Entity
      <4>1. e[1] \in Label
        BY <1>3, <2>2 DEF Link, Entity
      <4>2. (e[2] \/ e[1] \in found) \in BOOLEAN
        BY Zenon
      <4> QED
        BY <4>1, <4>2 DEF Entity
    <3> QED
      BY <3>1
  <2>4. link' \in Link
    <3>1. link'.loaded \in [Story -> SUBSET Entity]
      BY <2>1, <2>2, <2>3 DEF Link
    <3>2. link'.todo \in SUBSET Story /\ link'.found \in SUBSET Story
      BY <2>1, <2>2 DEF Link
    <3> QED
      BY <2>1, <3>1, <3>2 DEF Link
  <2>5. UNCHANGED <<cover, age, flags, signal, entities, recorded, at, seen, todo, pending, calm>>
    BY <1>3 DEF Search
  <2>6. \A j \in Judge : at'[j] = "judging" => holder' = j
    BY <2>1, <2>5, NoValueAssumption DEF TypeOK, Judge
  <2>7. holder' \in Judge \cup {"link", None} /\ link' # NoLink
    BY <2>1, <2>4, NoValueAssumption DEF TypeOK
  <2> QED
    BY <2>4, <2>5, <2>6, <2>7 DEF TypeOK
<1> QED
  BY <1>1, <1>2, <1>3

LEMMA AnalysisStays == AnalysisInv /\ [Next]_vars => AnalysisInv'
<1> SUFFICES ASSUME AnalysisInv, [Next]_vars PROVE AnalysisInv'
  OBVIOUS
<1>1. TypeOK
  BY DEF AnalysisInv
<1>2. TypeOK'
  <2>1. ASSUME NEW st \in Story, TimePasses(st)
        PROVE  TypeOK'
    <3>1. age' \in [Story -> 0 .. 2]
      BY <1>1, <2>1, ConstantAssumption DEF TimePasses, TypeOK
    <3> QED
      BY <1>1, <2>1, <3>1 DEF TimePasses, TypeOK
  <2>2. CASE CalmDown
    BY <1>1, <2>2 DEF CalmDown, TypeOK
  <2>3. CASE UNCHANGED vars
    BY <1>1, <2>3 DEF vars, TypeOK
  <2> QED
    BY <1>1, <2>1, <2>2, <2>3, ClusterTyped, GoThroughTyped, LookTyped, LockTyped, CommitTyped,
       FailTyped, LinkTyped DEF Next
<1> QED
  BY <1>1, <1>2, SeenStays, FlagsStayFounded DEF AnalysisInv

LEMMA AnalysisInvariance == Spec => []AnalysisInv
  BY AnalysisStarts, AnalysisStays, PTL DEF Spec

\* Type correctness: who judges has the lock of the database, and has looked.
THEOREM AnalysisTyped == Spec => []TypeOK
<1>1. AnalysisInv => TypeOK
  BY DEF AnalysisInv
<1> QED
  BY <1>1, AnalysisInvariance, PTL

\* compute_blindspots: a country is marked for a story only while it has an outlet
\* that covers another story, one many outlets cover, whichever job wrote the mark
\* and however old what it had read.
THEOREM SilenceMeansSomething == Spec => []SmallCountriesAreSpared
<1>1. AnalysisInv => SmallCountriesAreSpared
  BY DEF AnalysisInv
<1> QED
  BY <1>1, AnalysisInvariance, PTL

\* compute_blindspots: no country is marked for a story younger than six hours,
\* whichever job wrote the mark and however old what it had read.
THEOREM TimeIsGiven == Spec => []TimeToCover
<1>1. AnalysisInv => TimeToCover
  BY DEF AnalysisInv
<1> QED
  BY <1>1, AnalysisInvariance, PTL
-----------------------------------------------------------------------------
(* What the instance knows of the outlets: Registry, for any tables, files *)
(* and answers of Wikidata.                                                *)

\* sync_catalog is an upsert: whatever the table and the file, to read the file again
\* changes and creates nothing, what the file says is in the table, and the profile of
\* an outlet, which comes from elsewhere, is left as it was.
THEOREM CatalogueIsIdempotent ==
    ASSUME NEW there, NEW Said, NEW Found,
           NEW sources \in [there -> [says : Said, profile : Found]], NEW file
    PROVE  CatalogueStays(sources, file)
<1> DEFINE after == SyncCatalog(sources, file)
           again == SyncCatalog(after, file)
<1>1. DOMAIN after = there \cup Keys(file) /\ DOMAIN again = DOMAIN after
  BY DEF SyncCatalog
<1>2. ASSUME NEW s \in there \cup Keys(file)
      PROVE  /\ s \in Keys(file) => after[s].says = LastOf(file, s)
             /\ s \in there => after[s].profile = sources[s].profile
             /\ again[s] = after[s]
  <2>1. CASE s \in Keys(file)
    <3>1. after[s] = [says |-> LastOf(file, s),
                      profile |-> IF s \in there THEN sources[s].profile ELSE "none"]
      BY <2>1 DEF SyncCatalog
    <3>2. again[s] = [says |-> LastOf(file, s), profile |-> after[s].profile]
      BY <1>1, <2>1 DEF SyncCatalog
    <3> HIDE DEF after, again
    <3> QED
      BY <3>1, <3>2
  <2>2. CASE s \notin Keys(file)
    <3>1. after[s] = sources[s]
      BY <2>2 DEF SyncCatalog
    <3>2. again[s] = after[s]
      BY <1>1, <2>2 DEF SyncCatalog
    <3> HIDE DEF after, again
    <3> QED
      BY <2>2, <3>1, <3>2
  <2> QED
    BY <2>1, <2>2
<1> HIDE DEF after, again
<1>3. \A s \in Keys(file) : after[s].says = LastOf(file, s)
  BY <1>2
<1>4. again = after
  <2>1. after = [s \in there \cup Keys(file) |-> after[s]]
    BY DEF after, SyncCatalog
  <2>2. again = [s \in there \cup Keys(file) |-> again[s]]
    BY <1>1 DEF again, SyncCatalog
  <2>3. \A s \in there \cup Keys(file) : again[s] = after[s]
    BY <1>2
  <2> QED
    BY <2>1, <2>2, <2>3
<1>5. SyncStats(after, file).created = 0
  <2>1. Keys(file) \ (DOMAIN after) = {}
    BY <1>1
  <2> QED
    BY <2>1, FS_EmptySet DEF SyncStats
<1>6. \A s \in there : after[s].profile = sources[s].profile
  BY <1>2
<1> QED
  BY <1>3, <1>4, <1>5, <1>6 DEF CatalogueStays, after, again

LEMMA OwnersAgain ==
    ASSUME NEW owners, NEW items
    PROVE  /\ LoadOwners(LoadOwners(owners, items), items) = LoadOwners(owners, items)
           /\ DOMAIN LoadOwners(owners, items) = DOMAIN owners \cup Keys(items)
<1> DEFINE after == LoadOwners(owners, items)
           again == LoadOwners(after, items)
<1>1. DOMAIN after = DOMAIN owners \cup Keys(items) /\ DOMAIN again = DOMAIN after
  BY DEF LoadOwners
<1>2. ASSUME NEW o \in DOMAIN owners \cup Keys(items) PROVE again[o] = after[o]
  <2>1. after[o] = IF o \notin Keys(items) THEN owners[o]
                   ELSE [qid |-> LastOf(items, o),
                         facts |-> IF o \in DOMAIN owners THEN owners[o].facts ELSE "none"]
    BY DEF LoadOwners
  <2>2. again[o] = IF o \notin Keys(items) THEN after[o]
                   ELSE [qid |-> LastOf(items, o), facts |-> after[o].facts]
    BY <1>1 DEF LoadOwners
  <2> HIDE DEF after, again
  <2> QED
    BY <2>1, <2>2
<1>3. after = [o \in DOMAIN owners \cup Keys(items) |-> after[o]]
  BY DEF LoadOwners
<1>4. again = [o \in DOMAIN owners \cup Keys(items) |-> again[o]]
  BY <1>1 DEF LoadOwners
<1> HIDE DEF after, again
<1>5. again = after
  BY <1>2, <1>3, <1>4
<1> QED
  BY <1>1, <1>5 DEF after, again

LEMMA UpsertAgain ==
    ASSUME NEW table, NEW items, NEW there
    PROVE  /\ Upsert(Upsert(table, items, there), items, there) = Upsert(table, items, there)
           /\ DOMAIN Upsert(table, items, there) = DOMAIN table \cup Known(items, there)
  BY DEF Upsert

\* load_ownership_seed is an upsert too, and skips what it cannot refer to: whatever the
\* tables and the seed, to read it again changes and creates nothing, and shares and
\* funding are always of outlets and owners that are there.
THEOREM SeedIsIdempotent ==
    ASSUME NEW there, NEW QID, NEW Facts, NEW Slug, NEW Row,
           NEW owners \in [there -> [qid : QID, facts : Facts]],
           NEW sources \in [Slug -> Row], NEW shares, NEW fundings,
           NEW db, db = [sources |-> sources, owners |-> owners,
                         shares |-> shares, fundings |-> fundings],
           NEW seed
    PROVE  /\ SeedStays(db, seed)
           /\ References(db) => References(LoadSeed(db, seed))
<1> DEFINE owned == LoadOwners(owners, seed.owners)
           after == LoadSeed(db, seed)
<1>1. /\ LoadOwners(owned, seed.owners) = owned
      /\ DOMAIN owned = there \cup Keys(seed.owners)
  <2>1. DOMAIN owners = there
    OBVIOUS
  <2> QED
    BY <2>1, OwnersAgain
<1> HIDE DEF owned
<1>2. after = [sources |-> sources, owners |-> owned,
               shares |-> Upsert(shares, seed.shares, Slug \X (DOMAIN owned)),
               fundings |-> Upsert(fundings, seed.fundings, Slug \X Programme)]
  <2>1. LoadSeed(db, seed) =
           [db EXCEPT !.owners = owned,
                      !.shares = Upsert(shares, seed.shares, Slug \X (DOMAIN owned)),
                      !.fundings = Upsert(fundings, seed.fundings, Slug \X Programme)]
    <3>1. DOMAIN db.sources = Slug /\ db.owners = owners /\ db.shares = shares
          /\ db.fundings = fundings
      OBVIOUS
    <3> QED
      BY <3>1 DEF LoadSeed, owned
  <2> QED
    BY <2>1
<1> HIDE DEF after
<1>3. LoadSeed(after, seed) = after
  <2>1. LoadSeed(after, seed) =
           [after EXCEPT !.owners = owned,
                         !.shares = Upsert(@, seed.shares, Slug \X (DOMAIN owned)),
                         !.fundings = Upsert(@, seed.fundings, Slug \X Programme)]
    BY <1>1, <1>2 DEF LoadSeed
  <2>2. LoadSeed(after, seed) =
           [sources |-> sources, owners |-> owned,
            shares |-> Upsert(Upsert(shares, seed.shares, Slug \X (DOMAIN owned)),
                              seed.shares, Slug \X (DOMAIN owned)),
            fundings |-> Upsert(Upsert(fundings, seed.fundings, Slug \X Programme),
                                seed.fundings, Slug \X Programme)]
    BY <1>2, <2>1
  <2>3. \A table, items, held :
               Upsert(Upsert(table, items, held), items, held) = Upsert(table, items, held)
    BY UpsertAgain
  <2>4. /\ Upsert(Upsert(shares, seed.shares, Slug \X (DOMAIN owned)),
                  seed.shares, Slug \X (DOMAIN owned))
             = Upsert(shares, seed.shares, Slug \X (DOMAIN owned))
        /\ Upsert(Upsert(fundings, seed.fundings, Slug \X Programme),
                  seed.fundings, Slug \X Programme)
             = Upsert(fundings, seed.fundings, Slug \X Programme)
    BY <2>3
  <2> QED
    BY <1>2, <2>2, <2>4
<1>4. \A table : Created(table, table) = 0
  BY FS_EmptySet DEF Created
<1>5. SeedStats(after, seed) =
         [owners |-> 0, shares |-> 0, fundings |-> 0, skipped |-> SeedStats(db, seed).skipped]
  <2>1. after.owners = owned /\ DOMAIN after.sources = Slug /\ DOMAIN db.sources = Slug
    BY <1>2
  <2>2. LoadSeed(db, seed) = after
    BY DEF after
  <2>3. SeedStats(db, seed).skipped
           = Skipped(seed.shares, Slug \X (DOMAIN owned))
             + Skipped(seed.fundings, Slug \X Programme)
    BY <2>1, <2>2 DEF SeedStats
  <2>4. SeedStats(after, seed).skipped
           = Skipped(seed.shares, Slug \X (DOMAIN owned))
             + Skipped(seed.fundings, Slug \X Programme)
    BY <1>3, <2>1 DEF SeedStats
  <2> QED
    BY <1>3, <1>4, <2>3, <2>4 DEF SeedStats
<1>6. SeedStays(db, seed)
  BY <1>3, <1>5 DEF SeedStays, after
<1>7. ASSUME References(db) PROVE References(after)
  <2>0. \A table, items, held :
               DOMAIN Upsert(table, items, held) = DOMAIN table \cup Known(items, held)
    BY UpsertAgain
  <2>1. DOMAIN after.shares = DOMAIN shares \cup Known(seed.shares, Slug \X (DOMAIN owned))
    BY <1>2, <2>0
  <2>2. DOMAIN after.fundings = DOMAIN fundings \cup Known(seed.fundings, Slug \X Programme)
    <3>1. after.fundings = Upsert(fundings, seed.fundings, Slug \X Programme)
      BY <1>2
    <3>2. DOMAIN Upsert(fundings, seed.fundings, Slug \X Programme)
             = DOMAIN fundings \cup Known(seed.fundings, Slug \X Programme)
      BY DEF Upsert
    <3> QED
      BY <3>1, <3>2, Zenon
  <2>3. DOMAIN shares \subseteq Slug \X there /\ DOMAIN fundings \subseteq Slug \X Programme
    BY <1>7 DEF References
  <2>4. DOMAIN after.sources = Slug /\ after.owners = owned
    BY <1>2
  <2> QED
    BY <1>1, <2>1, <2>2, <2>3, <2>4 DEF References, Known
<1> QED
  BY <1>6, <1>7 DEF after

\* The places before a confirmed one are fewer than the owners confirmed.
LEMMA FewBefore ==
    ASSUME NEW there, IsFiniteSet(there), NEW owners \in [there -> [qid : STRING, facts : STRING]],
           NEW n \in Nat, NEW table \in [1 .. n -> there],
           \A i, j \in 1 .. n : table[i] = table[j] => i = j,
           NEW i \in Confirmed(owners, table)
    PROVE  Cardinality(Ahead(owners, table, i))
               < Cardinality(WithQID(owners))
<1> DEFINE ahead == Ahead(owners, table, i)
           confirmed == WithQID(owners)
           rest == confirmed \ {table[i]}
           name == [j \in ahead |-> table[j]]
<1>1. \A j \in Confirmed(owners, table) : j \in 1 .. n /\ table[j] \in confirmed
  BY DEF Confirmed, WithQID
<1>2. IsFiniteSet(confirmed) /\ IsFiniteSet(rest) /\ Cardinality(rest) = Cardinality(confirmed) - 1
  BY <1>1, FS_Subset, FS_RemoveElement DEF WithQID
<1>3. name \in Injection(ahead, rest)
  <2>1. \A j \in ahead : table[j] \in rest
    BY <1>1 DEF Ahead
  <2>2. name \in [ahead -> rest]
    BY <2>1
  <2>3. \A j, k \in ahead : name[j] = name[k] => j = k
    BY <1>1 DEF Ahead
  <2> QED
    BY <2>2, <2>3 DEF Injection, IsInjective
<1>4. IsFiniteSet(ahead) /\ Cardinality(ahead) <= Cardinality(rest)
  BY <1>2, <1>3, FS_Injection
<1>5. Cardinality(ahead) \in Nat /\ Cardinality(confirmed) \in Nat
  BY <1>2, <1>4, FS_CardinalityType
<1> QED
  BY <1>2, <1>4, <1>5

\* enrich_owners_job, for any owners in any order and whatever Wikidata answers: facts
\* are only those of the QID an owner has, and when no more owners have one than a round
\* takes and Wikidata answers for them, they all get theirs.
THEOREM FactsAreOfTheQID ==
    ASSUME NEW there, IsFiniteSet(there), NEW owners \in [there -> [qid : STRING, facts : STRING]],
           NEW n \in Nat, NEW table \in [1 .. n -> there],
           \A i, j \in 1 .. n : table[i] = table[j] => i = j,
           \A o \in there : \E i \in 1 .. n : table[i] = o,
           NEW answered
    PROVE  FactsOfTheQID(owners, table, answered)
<1> DEFINE after == EnrichOwners(owners, table, answered)
           done == Enriched(owners, table, answered)
           confirmed == WithQID(owners)
<1>1. \A o \in there : after[o] = IF o \in done THEN [owners[o] EXCEPT !.facts = owners[o].qid]
                                                ELSE owners[o]
  BY DEF EnrichOwners
<1>2. \A o \in there : after[o].facts = IF o \in done THEN owners[o].qid ELSE owners[o].facts
  <2> HIDE DEF done, after
  <2> SUFFICES ASSUME NEW o \in there
               PROVE  after[o].facts = IF o \in done THEN owners[o].qid ELSE owners[o].facts
    OBVIOUS
  <2>1. CASE o \in done
    <3>1. after[o] = [owners[o] EXCEPT !.facts = owners[o].qid]
      BY <1>1, <2>1
    <3> QED
      BY <2>1, <3>1
  <2>2. CASE o \notin done
    BY <1>1, <2>2
  <2> QED
    BY <2>1, <2>2
<1>3. Asked(owners, table) \subseteq Confirmed(owners, table)
  BY DEF Asked
<1>4. done \subseteq confirmed
  BY <1>3 DEF Enriched, Confirmed, WithQID
<1>5. ASSUME confirmed \subseteq answered, Cardinality(confirmed) <= MaxOwners
      PROVE  confirmed \subseteq done
  <2> SUFFICES ASSUME NEW o \in confirmed PROVE o \in done
    OBVIOUS
  <2>1. PICK i \in 1 .. n : table[i] = o
    BY DEF WithQID
  <2>2. i \in Confirmed(owners, table)
    BY <2>1 DEF Confirmed, WithQID
  <2>3. Cardinality(Ahead(owners, table, i)) < Cardinality(confirmed)
    BY <2>2, FewBefore
  <2>4. Cardinality(Ahead(owners, table, i)) \in Nat
    <3>1. Confirmed(owners, table) \subseteq 1 .. n
      BY DEF Confirmed
    <3>2. IsFiniteSet(Ahead(owners, table, i))
      BY <3>1, FS_Interval, FS_Subset DEF Ahead
    <3> QED
      BY <3>2, FS_CardinalityType
  <2>5. Cardinality(confirmed) \in Nat
    BY FS_Subset, FS_CardinalityType DEF WithQID
  <2>6. Cardinality(Ahead(owners, table, i)) < MaxOwners
    BY <1>5, <2>3, <2>4, <2>5, OwnersAssumption
  <2>7. i \in Asked(owners, table)
    BY <2>2, <2>6 DEF Asked
  <2>8. \A m \in Asked(owners, table) : table[m] \in answered
    BY <1>3, <1>5 DEF Confirmed, WithQID
  <2> QED
    BY <2>1, <2>7, <2>8 DEF Enriched
<1> HIDE DEF done, after
<1> QED
  BY <1>2, <1>4, <1>5 DEF FactsOfTheQID, WithQID, after
=============================================================================
