------------------------ MODULE ManualRefresh_proofs ------------------------
(***************************************************************************)
(* Proofs about ManualRefresh, for any number of requests, kinds of jobs,  *)
(* items and groups: type correctness, the counts of active jobs, the      *)
(* origin of every figure shown, one manual round at a time, and how often *)
(* a silent GDELT is asked.                                                *)
(***************************************************************************)
EXTENDS ManualRefresh, FiniteSetTheorems, SequenceTheorems, TLAPS

USE ConstantAssumption

Workers(k) == {c \in Caller : Working(c, k)}

\* The phase a round is in is the one job its task runs.
JobsOfRounds ==
    \A c \in Click, k \in Kind : Working(c, k) <=> round[c] = k

\* A round of GDELT between two groups.
InOrder(j) ==
    /\ ~j.read => j.done = 0 /\ ~j.over
    /\ j.failed <= j.done
    /\ ~j.over => j.done <= j.of /\ (j.read => j.done < j.of)
    /\ j.row <= 1
    /\ j.unanswered <= 4
    /\ ~j.over => j.unanswered <= 2 * j.row

GroupsInOrder ==
    \A c \in Caller : Working(c, "GDELT") => InOrder(job[c]["GDELT"])

IInv ==
    /\ TypeOK
    /\ JobsOfRounds
    /\ OneRound
    /\ ActiveCounts
    /\ ProgressOfAJob
    /\ GroupsInOrder

-----------------------------------------------------------------------------
(* The bounds and the counts.                                              *)

LEMMA UpToFacts ==
    ASSUME NEW S \in SUBSET Nat
    PROVE  /\ UpTo(S) \subseteq Nat /\ 0 \in UpTo(S) /\ S \subseteq UpTo(S)
           /\ \A n \in UpTo(S), m \in Nat : m <= n => m \in UpTo(S)
           /\ \A n \in UpTo(S), m \in Nat : m < n => m + 1 \in UpTo(S)
  BY DEF UpTo

LEMMA NoneIsNoKind ==
    "none" \notin Kind /\ "created" \notin Kind /\ Phase \subseteq Kind
  BY DEF Kind, Phase

LEMMA GroupsNat == Groups \in SUBSET Nat
  BY DEF Groups, Caller

LEMMA SubsetOfPair ==
    ASSUME NEW x, NEW y, NEW S \in SUBSET ({x} \cup {y})
    PROVE  IsFiniteSet(S) /\ Cardinality(S) \in 0 .. 2
<1>1. IsFiniteSet({x}) /\ Cardinality({x}) = 1
  BY FS_Singleton
<1>2. /\ IsFiniteSet({x} \cup {y})
      /\ Cardinality({x} \cup {y}) =
            IF y \in {x} THEN Cardinality({x}) ELSE Cardinality({x}) + 1
  BY <1>1, FS_AddElement
<1>3. Cardinality({x} \cup {y}) <= 2
  <2>1. CASE y \in {x}
    BY <1>1, <1>2, <2>1
  <2>2. CASE y \notin {x}
    <3>1. Cardinality({x} \cup {y}) = 1 + 1
      BY <1>1, <1>2, <2>2
    <3> QED
      BY <3>1
  <2> QED
    BY <2>1, <2>2
<1>4. /\ IsFiniteSet(S)
      /\ Cardinality(S) <= Cardinality({x} \cup {y})
  BY <1>2, FS_Subset
<1>5. Cardinality(S) \in Nat /\ Cardinality({x} \cup {y}) \in Nat
  BY <1>2, <1>4, FS_CardinalityType
<1> QED
  BY <1>3, <1>4, <1>5

\* A kind of job has at most two callers at work when the requests have one.
LEMMA FewWorkers ==
    ASSUME NEW S \in SUBSET Caller,
           \A c, d \in Click : c \in S /\ d \in S => c = d
    PROVE  IsFiniteSet(S) /\ Cardinality(S) \in 0 .. 2
<1>1. PICK c : S \subseteq {Scheduler} \cup {c}
  BY DEF Caller
<1> QED
  BY <1>1, SubsetOfPair

LEMMA OneMoreWorker ==
    ASSUME NEW S, IsFiniteSet(S), NEW x, x \notin S
    PROVE  Cardinality(S \cup {x}) = Cardinality(S) + 1
  BY FS_AddElement

LEMMA OneWorkerLess ==
    ASSUME NEW S, IsFiniteSet(S), NEW x, x \in S
    PROVE  /\ Cardinality(S) > 0
           /\ Cardinality(S \ {x}) = Cardinality(S) - 1
<1>1. Cardinality(S) \in Nat
  BY FS_CardinalityType
<1>2. Cardinality(S) # 0
  BY FS_EmptySet
<1>3. Cardinality(S \ {x}) = IF x \in S THEN Cardinality(S) - 1 ELSE Cardinality(S)
  BY FS_RemoveElement
<1> QED
  BY <1>1, <1>2, <1>3

-----------------------------------------------------------------------------
(* GDELT.                                                                  *)

\* Of the requests for one group at most two in a row are silent at the end,
\* and none after an answer that counts.
LEMMA EndsBounded ==
    ASSUME NEW e \in Ends
    PROVE  /\ e.outcome \in {"ok", "connessione", "errore"}
           /\ e.answered \in BOOLEAN
           /\ e.silent \in 0 .. 2
           /\ e.outcome # "connessione" => e.answered /\ e.silent = 0
<1> DEFINE answered(s) == {i \in 1 .. Len(s) : s[i] # "silence"}
           last(s) == {i \in 1 .. Len(s) : \A k \in answered(s) : i > k}
<1>1. PICK s \in Exchange :
          e = [outcome |-> Outcome(s), answered |-> answered(s) # {},
               silent |-> Cardinality(last(s))]
  BY DEF Ends
<1>2. PICK n \in 1 .. 3 : s \in [1 .. n -> Reply]
  BY DEF Exchange, RETRY_ATTEMPTS
<1>3. Len(s) = n
  <2>1. s \in Seq(Reply)
    BY <1>2
  <2>2. DOMAIN s = 1 .. Len(s) /\ Len(s) \in Nat
    BY <2>1, LenProperties
  <2> QED
    BY <1>2, <2>2
<1>4. \A i \in last(s) : s[i] = "silence"
  BY <1>3
<1>5. last(s) \subseteq {1} \cup {n}
  <2> SUFFICES ASSUME NEW i \in last(s), i # n
               PROVE  i = 1
    OBVIOUS
  <2>1. i \in 1 .. Len(s) - 1 /\ s[i] = "silence"
    BY <1>2, <1>3, <1>4
  <2> QED
    BY <2>1 DEF Exchange, TRANSPORT_ATTEMPTS
<1>8. Cardinality(last(s)) \in 0 .. 2
  <2> HIDE DEF last
  <2> QED
    BY <1>5, SubsetOfPair
<1>9. ASSUME Outcome(s) # "connessione"
      PROVE  answered(s) # {} /\ Cardinality(last(s)) = 0
  <2>1. n \in answered(s)
    BY <1>2, <1>3, <1>9 DEF Outcome
  <2>2. last(s) = {}
    BY <1>2, <1>3, <2>1
  <2> QED
    BY <2>1, <2>2, FS_EmptySet
<1>10. Outcome(s) \in {"ok", "connessione", "errore"}
  BY DEF Outcome
<1> QED
  BY <1>1, <1>8, <1>9, <1>10

LEMMA GdeltTyped ==
    ASSUME NEW j \in Gdelt,
           NEW f \in UpTo(Groups), NEW d \in UpTo(Groups), NEW r \in 0 .. 2, NEW u \in Nat
    PROVE  /\ [j EXCEPT !.failed = f, !.row = r, !.unanswered = u] \in Gdelt
           /\ [j EXCEPT !.failed = f, !.row = r, !.over = TRUE] \in Gdelt
           /\ [j EXCEPT !.done = d] \in Gdelt
           /\ [j EXCEPT !.pass = 2, !.of = d, !.done = f, !.failed = f,
                         !.row = r, !.unanswered = u] \in Gdelt
  BY DEF Gdelt

\* From i to j a job only advances, unless it is GDELT's and goes back for a
\* second pass.
Advances(k, i, j) ==
    \/ k = "GDELT" /\ i.pass = 1 /\ j.pass = 2
    \/ i.read => i.done <= j.done /\ i.of = j.of

LEMMA AfterGroupInOrder ==
    ASSUME NEW j \in Gdelt, j.read, ~j.over, InOrder(j),
           NEW o \in {"ok", "connessione", "errore"},
           NEW u \in Nat, u <= 4, u <= 2 * RowAfter(j, o)
    PROVE  /\ AfterGroup(j, o, u) \in Gdelt
           /\ AfterGroup(j, o, u).read
           /\ InOrder(AfterGroup(j, o, u))
           /\ AfterGroup(j, o, u).done <= AfterGroup(j, o, u).of
           /\ Advances("GDELT", j, AfterGroup(j, o, u))
<1> DEFINE failed == IF o = "ok" THEN j.failed ELSE j.failed + 1
           row == RowAfter(j, o)
           tried == [j EXCEPT !.failed = failed, !.row = row, !.unanswered = u]
           ended == [tried EXCEPT !.failed = 0, !.row = 0, !.over = TRUE]
           base == IF row >= 2 THEN ended ELSE tried
           next == [base EXCEPT !.done = @ + 1]
           again == [tried EXCEPT !.pass = 2, !.of = failed, !.done = 0, !.failed = 0,
                                  !.row = 0, !.unanswered = 0]
<1>1. /\ j.done \in Nat /\ j.of \in Nat /\ j.failed \in Nat /\ j.row \in 0 .. 1
      /\ j.done < j.of /\ j.failed <= j.done
  BY UpToFacts, GroupsNat DEF InOrder, Gdelt
<1>2. row \in 0 .. 2
  BY <1>1 DEF RowAfter
<1>3. failed \in Nat /\ failed <= j.done + 1
  BY <1>1
<1>4. /\ failed \in UpTo(Groups) /\ 0 \in UpTo(Groups)
      /\ j.done + 1 \in UpTo(Groups)
  BY <1>1, <1>3, UpToFacts, GroupsNat DEF Gdelt
<1>5. tried \in Gdelt /\ ended \in Gdelt /\ again \in Gdelt
  <2>1. tried \in Gdelt
    BY <1>2, <1>4, GdeltTyped
  <2>2. 0 \in 0 .. 2 /\ 0 \in Nat
    OBVIOUS
  <2> QED
    BY <1>4, <2>1, <2>2, GdeltTyped
<1>6. CASE j.done + 1 < j.of
  <2>1. AfterGroup(j, o, u) = next
    BY <1>6 DEF AfterGroup
  <2>2. base \in Gdelt /\ base.done = j.done /\ base.read
    BY <1>5 DEF Gdelt
  <2>3. next \in Gdelt /\ next.read
    <3> HIDE DEF base
    <3>1. base.done + 1 \in UpTo(Groups)
      BY <1>4, <2>2
    <3>2. next \in Gdelt
      BY <2>2, <3>1 DEF Gdelt
    <3>3. next.read = base.read
      BY <2>2 DEF Gdelt
    <3> QED
      BY <2>2, <3>2, <3>3
  <2>4. InOrder(next)
    BY <1>1, <1>2, <1>3, <1>6 DEF InOrder, Gdelt
  <2>5. next.done = j.done + 1 /\ next.of = j.of
    BY <1>5 DEF Gdelt
  <2> QED
    BY <1>1, <1>6, <2>1, <2>2, <2>3, <2>4, <2>5 DEF Advances
<1>7. CASE ~(j.done + 1 < j.of) /\ j.pass = 1 /\ failed > 0
  <2>1. AfterGroup(j, o, u) = again
    BY <1>7 DEF AfterGroup
  <2>2. again.read /\ InOrder(again)
    BY <1>3, <1>7 DEF InOrder, Gdelt
  <2>3. again.pass = 2 /\ again.done = 0 /\ again.of = failed
    BY DEF Gdelt
  <2> QED
    BY <1>3, <1>5, <1>7, <2>1, <2>2, <2>3 DEF Advances
<1>8. CASE ~(j.done + 1 < j.of) /\ ~(j.pass = 1 /\ failed > 0)
  <2>1. AfterGroup(j, o, u) = ended
    BY <1>8 DEF AfterGroup
  <2>2. ended.read /\ InOrder(ended)
    BY <1>1 DEF InOrder, Gdelt
  <2>3. ended.done = j.done /\ ended.of = j.of
    BY DEF Gdelt
  <2> QED
    BY <1>1, <1>5, <2>1, <2>2, <2>3 DEF Advances
<1> QED
  BY <1>6, <1>7, <1>8

-----------------------------------------------------------------------------
(* The steps.                                                              *)

LEMMA NewJobTyped ==
    ASSUME NEW k \in Kind
    PROVE  /\ NewJob(k) \in JobOf(k) /\ NewJob(k) # Idle
           /\ k = "GDELT" => InOrder(NewJob(k))
<1>1. 0 \in UpTo(Sizes) /\ 0 \in UpTo(Groups)
  BY UpToFacts, GroupsNat
<1>2. CASE k = "GDELT"
  <2>1. NewJob(k) \in Gdelt
    BY <1>1, <1>2 DEF NewJob, Gdelt
  <2>2. InOrder(NewJob(k))
    BY <1>2 DEF NewJob, InOrder
  <2> QED
    BY <1>2, <2>1, <2>2, NoValueAssumption DEF JobOf
<1>3. CASE k # "GDELT"
  <2>1. NewJob(k) \in Plain
    BY <1>1, <1>3 DEF NewJob, Plain
  <2> QED
    BY <1>3, <2>1, NoValueAssumption DEF JobOf
<1> QED
  BY <1>2, <1>3

\* A step of a job: it says how far it has come.
GoesOn(c, k, j) ==
    /\ Working(c, k)
    /\ j \in JobOf(k) /\ j.read
    /\ j.done <= j.of
    /\ Advances(k, job[c][k], j)
    /\ k = "GDELT" => InOrder(j)
    /\ SetJob(c, k, j)
    /\ SetProgress(k, j.done, j.of)
    /\ UNCHANGED <<active, manualDone, updating, round, shared>>

LEMMA WorkGoesOn ==
    ASSUME TypeOK, GroupsInOrder, NEW c \in Caller, Work(c)
    PROVE  \E k \in Kind : \E j \in JobOf(k) : GoesOn(c, k, j)
<1> DEFINE g == job[c]["GDELT"]
<1>0. "GDELT" \in Kind
  BY DEF Kind, Phase
<1>1. ASSUME NEW k \in Kind, FindWork(c, k)
      PROVE  \E j \in JobOf(k) : GoesOn(c, k, j)
  <2>1. PICK n \in Sizes :
            LET first == IF k = "feed" \/ n = 0 THEN 0 ELSE 1
            IN  /\ SetJob(c, k, [read |-> TRUE, done |-> first, of |-> n])
                /\ SetProgress(k, first, n)
    BY <1>1 DEF FindWork
  <2> DEFINE first == IF k = "feed" \/ n = 0 THEN 0 ELSE 1
             j == [read |-> TRUE, done |-> first, of |-> n]
  <2>2. first \in Nat /\ first <= n
    OBVIOUS
  <2>3. j \in JobOf(k)
    BY <1>1, <2>2, UpToFacts DEF FindWork, JobOf, Plain
  <2> QED
    BY <1>1, <2>1, <2>2, <2>3 DEF FindWork, GoesOn, Advances
<1>2. ASSUME NEW k \in Kind, Proceed(c, k)
      PROVE  \E j \in JobOf(k) : GoesOn(c, k, j)
  <2> DEFINE i == job[c][k]
             j == [i EXCEPT !.done = @ + 1]
  <2>1. i \in Plain /\ k # "GDELT" /\ i.done < i.of /\ i.read
    BY <1>2 DEF Proceed, TypeOK, JobOf, Working
  <2>2. i.done \in Nat /\ i.of \in UpTo(Sizes)
    BY <2>1, UpToFacts DEF Plain
  <2>3. i.done + 1 \in UpTo(Sizes)
    BY <2>1, <2>2, UpToFacts
  <2>4. j \in Plain /\ j.read /\ j.done = i.done + 1 /\ j.of = i.of
    BY <2>1, <2>3 DEF Plain
  <2>5. j.done <= j.of /\ Advances(k, i, j)
    <3>1. i.of \in Nat
      BY <2>2, UpToFacts
    <3> HIDE DEF i, j
    <3> QED
      BY <2>1, <2>2, <2>4, <3>1 DEF Advances
  <2> QED
    BY <1>2, <2>1, <2>4, <2>5 DEF Proceed, GoesOn, JobOf
<1>3. ASSUME FindGroups(c)
      PROVE  \E j \in JobOf("GDELT") : GoesOn(c, "GDELT", j)
  <2>1. PICK n \in GroupsFor[c] :
            /\ SetJob(c, "GDELT", [g EXCEPT !.read = TRUE, !.of = n, !.over = n = 0])
            /\ SetProgress("GDELT", 0, n)
    BY <1>3 DEF FindGroups
  <2> DEFINE j == [g EXCEPT !.read = TRUE, !.of = n, !.over = n = 0]
  <2>2. g \in Gdelt /\ ~g.read /\ InOrder(g)
    BY <1>0, <1>3 DEF FindGroups, TypeOK, JobOf, Working, GroupsInOrder
  <2>3. n \in Nat /\ n \in UpTo(Groups)
    BY UpToFacts, GroupsNat DEF Groups, Caller
  <2>4. j \in Gdelt
    BY <2>2, <2>3 DEF Gdelt
  <2>5. /\ j.read /\ j.of = n /\ (j.over <=> n = 0) /\ j.done = g.done
        /\ j.failed = g.failed /\ j.row = g.row /\ j.unanswered = g.unanswered
    BY <2>2 DEF Gdelt
  <2>6. g.done = 0 /\ g.failed \in Nat /\ ~g.over
    BY <2>2, UpToFacts, GroupsNat DEF InOrder, Gdelt
  <2>7. InOrder(j)
    <3> HIDE DEF j
    <3>1. /\ j.failed <= 0 /\ j.row <= 1 /\ j.unanswered <= 4
          /\ j.unanswered <= 2 * j.row
      BY <2>2, <2>5, <2>6 DEF InOrder
    <3>2. ~j.over => 0 < j.of
      BY <2>3, <2>5
    <3> QED
      BY <2>3, <2>5, <2>6, <3>1, <3>2 DEF InOrder
  <2>8. GoesOn(c, "GDELT", j)
    BY <1>3, <2>1, <2>2, <2>3, <2>4, <2>5, <2>6, <2>7
       DEF FindGroups, GoesOn, JobOf, Advances
  <2> QED
    BY <2>4, <2>8 DEF JobOf
<1>4. ASSUME TryGroup(c)
      PROVE  \E j \in JobOf("GDELT") : GoesOn(c, "GDELT", j)
  <2>1. PICK e \in Ends :
            LET j == AfterGroup(g, e.outcome,
                                e.silent + IF e.answered THEN 0 ELSE g.unanswered)
            IN  SetJob(c, "GDELT", j) /\ SetProgress("GDELT", j.done, j.of)
    BY <1>4 DEF TryGroup
  <2> DEFINE u == e.silent + IF e.answered THEN 0 ELSE g.unanswered
             j == AfterGroup(g, e.outcome, u)
  <2>2. g \in Gdelt /\ g.read /\ ~g.over /\ InOrder(g)
    BY <1>0, <1>4 DEF TryGroup, TypeOK, JobOf, Working, GroupsInOrder
  <2>3. /\ g.row \in 0 .. 1 /\ g.unanswered \in Nat /\ g.unanswered <= 2 * g.row
    BY <2>2 DEF Gdelt, InOrder
  <2>4. u \in Nat /\ u <= 4 /\ u <= 2 * RowAfter(g, e.outcome)
    BY <2>3, EndsBounded DEF RowAfter
  <2>5. j \in Gdelt /\ j.read /\ InOrder(j) /\ j.done <= j.of /\ Advances("GDELT", g, j)
    BY <2>2, <2>4, EndsBounded, AfterGroupInOrder
  <2> QED
    BY <1>4, <2>1, <2>5 DEF TryGroup, GoesOn, JobOf
<1> QED
  BY <1>0, <1>1, <1>2, <1>3, <1>4 DEF Work

-----------------------------------------------------------------------------
(* A step keeps the invariant.                                             *)

LEMMA WorkersFinite ==
    ASSUME JobsOfRounds, OneRound, NEW k \in Kind
    PROVE  IsFiniteSet(Workers(k))
<1>1. \A c, d \in Click : c \in Workers(k) /\ d \in Workers(k) => c = d
  BY NoneIsNoKind DEF JobsOfRounds, OneRound, Workers, Caller
<1> QED
  BY <1>1, FewWorkers DEF Workers

\* The type of the counters follows from what they count.
LEMMA ActiveTyped ==
    ASSUME JobsOfRounds', OneRound', ActiveCounts', active' \in [Kind -> Int]
    PROVE  active' \in [Kind -> 0 .. 2]
<1> SUFFICES ASSUME NEW k \in Kind
             PROVE  active'[k] \in 0 .. 2
  OBVIOUS
<1>1. \A c, d \in Click : c \in Workers(k)' /\ d \in Workers(k)' => c = d
  BY NoneIsNoKind DEF JobsOfRounds, OneRound, Workers, Caller
<1>2. Workers(k)' \in SUBSET Caller
  BY DEF Workers
<1>3. Cardinality(Workers(k)') \in 0 .. 2
  BY <1>1, <1>2, FewWorkers
<1> QED
  BY <1>3 DEF ActiveCounts, Workers

LEMMA GoesOnKeeps ==
    ASSUME IInv, NEW c \in Caller, NEW k \in Kind, NEW j \in JobOf(k), GoesOn(c, k, j)
    PROVE  IInv'
<1> USE DEF IInv
<1>1. j # Idle
  BY NoValueAssumption DEF JobOf
<1>2. job' = [job EXCEPT ![c][k] = j]
  BY DEF GoesOn, SetJob
<1>3. \A d \in Caller, h \in Kind :
          job'[d][h] = IF d = c /\ h = k THEN j ELSE job[d][h]
  BY <1>2 DEF TypeOK
<1>4. \A d \in Caller, h \in Kind : Working(d, h)' <=> Working(d, h)
  BY <1>1, <1>3 DEF Working, GoesOn
<1>5. UNCHANGED <<active, manualDone, updating, round, shared>>
  BY DEF GoesOn
<1>6. progress' = [progress EXCEPT ![k] = <<j.done, IF j.of = 0 THEN 1 ELSE j.of>>]
  BY DEF GoesOn, SetProgress
<1>7. j.read /\ j.done \in Nat /\ j.of \in Nat
  BY UpToFacts, GroupsNat DEF GoesOn, JobOf, Gdelt, Plain
<1>8. TypeOK'
  <2>1. job' \in [Caller -> [Kind -> Plain \cup Gdelt \cup {Idle}]]
    BY <1>2 DEF TypeOK, JobOf
  <2>2. \A d \in Caller, h \in Kind : job'[d][h] \in JobOf(h) \cup {Idle}
    BY <1>3 DEF TypeOK
  <2>3. progress' \in [Kind -> (Nat \X (Nat \ {0})) \cup {NoProgress}]
    BY <1>6, <1>7 DEF TypeOK
  <2> QED
    BY <1>5, <2>1, <2>2, <2>3 DEF TypeOK
<1>9. JobsOfRounds'
  BY <1>4, <1>5 DEF JobsOfRounds, Caller
<1>10. OneRound'
  BY <1>5 DEF OneRound
<1>11. ActiveCounts'
  <2> SUFFICES ASSUME NEW h \in Kind
               PROVE  active'[h] = Cardinality(Workers(h)')
    BY DEF ActiveCounts, Workers
  <2>1. Workers(h)' = Workers(h)
    BY <1>4 DEF Workers
  <2> QED
    BY <1>5, <2>1 DEF ActiveCounts, Workers
<1>12. ProgressOfAJob'
  <2> SUFFICES ASSUME NEW h \in Kind, progress'[h] # NoProgress
               PROVE  \E d \in Caller :
                         /\ Working(d, h)' /\ job'[d][h].read
                         /\ progress'[h][1] = job'[d][h].done
                         /\ progress'[h][2] = IF job'[d][h].of = 0 THEN 1 ELSE job'[d][h].of
    BY DEF ProgressOfAJob
  <2>1. CASE h = k
    <3>1. progress'[h] = <<j.done, IF j.of = 0 THEN 1 ELSE j.of>>
      BY <1>6, <2>1 DEF TypeOK
    <3>2. job'[c][h] = j /\ Working(c, h)'
      BY <1>3, <1>4, <2>1 DEF GoesOn
    <3> QED
      BY <1>7, <3>1, <3>2
  <2>2. CASE h # k
    <3>1. progress'[h] = progress[h]
      BY <1>6, <2>2 DEF TypeOK
    <3>2. \A d \in Caller : job'[d][h] = job[d][h]
      BY <1>3, <2>2
    <3> QED
      BY <1>4, <3>1, <3>2 DEF ProgressOfAJob
  <2> QED
    BY <2>1, <2>2
<1>13. GroupsInOrder'
  <2>1. "GDELT" \in Kind
    BY DEF Kind, Phase
  <2>2. \A d \in Caller : Working(d, "GDELT")' => InOrder(job'[d]["GDELT"])
    BY <1>3, <1>4, <2>1 DEF GroupsInOrder, GoesOn
  <2> QED
    BY <2>2 DEF GroupsInOrder, InOrder
<1> QED
  BY <1>8, <1>9, <1>10, <1>11, <1>12, <1>13

\* c enters the jobs of In and leaves those of Out, as tracking does.
EntersAndLeaves(c, In, Out) ==
    /\ \A h \in In : ~Working(c, h)
    /\ \A h \in Out : Working(c, h)
    /\ job' = [d \in Caller |-> [h \in Kind |-> job'[d][h]]]
    /\ \A d \in Caller, h \in Kind :
          job'[d][h] = IF d = c /\ h \in In THEN NewJob(h)
                       ELSE IF d = c /\ h \in Out THEN Idle ELSE job[d][h]
    /\ active' = [h \in Kind |-> IF h \in In THEN active[h] + 1
                                 ELSE IF h \in Out
                                 THEN IF active[h] > 0 THEN active[h] - 1 ELSE 0
                                 ELSE active[h]]
    /\ progress' = [h \in Kind |-> IF h \in Out THEN NoProgress ELSE progress[h]]

LEMMA JobSet ==
    ASSUME TypeOK, NEW c \in Caller, NEW k \in Kind, NEW x, SetJob(c, k, x)
    PROVE  /\ job' = [d \in Caller |-> [h \in Kind |-> job'[d][h]]]
           /\ \A d \in Caller, h \in Kind :
                 job'[d][h] = IF d = c /\ h = k THEN x ELSE job[d][h]
<1>1. /\ job = [d \in Caller |-> job[d]]
      /\ \A d \in Caller : job[d] = [h \in Kind |-> job[d][h]]
  BY DEF TypeOK
<1>2. job' = [d \in Caller |-> IF d = c THEN [job[c] EXCEPT ![k] = x] ELSE job[d]]
  BY <1>1 DEF SetJob
<1>3. [job[c] EXCEPT ![k] = x] = [h \in Kind |-> IF h = k THEN x ELSE job[c][h]]
  BY <1>1
<1>4. \A d \in Caller, h \in Kind :
          job'[d][h] = IF d = c /\ h = k THEN x ELSE job[d][h]
  BY <1>2, <1>3
<1>5. \A d \in Caller : job'[d] = [h \in Kind |-> job'[d][h]]
  BY <1>1, <1>2, <1>3
<1>6. job' = [d \in Caller |-> job'[d]]
  BY <1>2
<1> QED
  BY <1>4, <1>5, <1>6

LEMMA TrackingKeeps ==
    ASSUME IInv, NEW c \in Caller, NEW In \in SUBSET Kind, NEW Out \in SUBSET Kind,
           EntersAndLeaves(c, In, Out), JobsOfRounds', OneRound'
    PROVE  /\ active' \in [Kind -> 0 .. 2]
           /\ progress' \in [Kind -> (Nat \X (Nat \ {0})) \cup {NoProgress}]
           /\ job' \in [Caller -> [Kind -> Plain \cup Gdelt \cup {Idle}]]
           /\ \A d \in Caller, h \in Kind : job'[d][h] \in JobOf(h) \cup {Idle}
           /\ ActiveCounts' /\ ProgressOfAJob' /\ GroupsInOrder'
<1> USE DEF IInv
<1>1. \A d \in Caller, h \in Kind :
          job'[d][h] = IF d = c /\ h \in In THEN NewJob(h)
                       ELSE IF d = c /\ h \in Out THEN Idle ELSE job[d][h]
  BY DEF EntersAndLeaves
<1>2. \A d \in Caller, h \in Kind :
          Working(d, h)' <=> IF d = c /\ h \in In THEN TRUE
                             ELSE IF d = c /\ h \in Out THEN FALSE ELSE Working(d, h)
  BY <1>1, NewJobTyped DEF Working
<1>3. \A d \in Caller, h \in Kind : job'[d][h] \in JobOf(h) \cup {Idle}
  BY <1>1, NewJobTyped DEF TypeOK
<1>4. job' \in [Caller -> [Kind -> Plain \cup Gdelt \cup {Idle}]]
  <2>1. \A h \in Kind : JobOf(h) \subseteq Plain \cup Gdelt
    BY DEF JobOf
  <2>2. \A d \in Caller : job'[d] = [h \in Kind |-> job'[d][h]]
    BY DEF EntersAndLeaves
  <2>3. job' = [d \in Caller |-> job'[d]]
    BY DEF EntersAndLeaves
  <2> QED
    BY <1>3, <2>1, <2>2, <2>3
<1>5. active' \in [Kind -> Int]
  BY DEF EntersAndLeaves, TypeOK
<1>6. progress' \in [Kind -> (Nat \X (Nat \ {0})) \cup {NoProgress}]
  BY DEF EntersAndLeaves, TypeOK
<1>7. ActiveCounts'
  <2> SUFFICES ASSUME NEW h \in Kind
               PROVE  active'[h] = Cardinality(Workers(h)')
    BY DEF ActiveCounts, Workers
  <2>1. IsFiniteSet(Workers(h)) /\ active[h] = Cardinality(Workers(h))
    BY WorkersFinite DEF ActiveCounts, Workers
  <2>2. CASE h \in In
    <3>1. c \notin Workers(h) /\ Workers(h)' = Workers(h) \cup {c}
      BY <1>2, <2>2 DEF Workers, EntersAndLeaves
    <3>2. Cardinality(Workers(h) \cup {c}) = Cardinality(Workers(h)) + 1
      BY <2>1, <3>1, OneMoreWorker
    <3> QED
      BY <2>1, <2>2, <3>1, <3>2 DEF EntersAndLeaves
  <2>3. CASE h \notin In /\ h \in Out
    <3>1. c \in Workers(h) /\ Workers(h)' = Workers(h) \ {c}
      BY <1>2, <2>3 DEF Workers, EntersAndLeaves
    <3>2. /\ Cardinality(Workers(h)) > 0
          /\ Cardinality(Workers(h) \ {c}) = Cardinality(Workers(h)) - 1
      BY <2>1, <3>1, OneWorkerLess
    <3> QED
      BY <2>1, <2>3, <3>1, <3>2 DEF EntersAndLeaves
  <2>4. CASE h \notin In /\ h \notin Out
    <3>1. Workers(h)' = Workers(h)
      BY <1>2, <2>4 DEF Workers
    <3> QED
      BY <2>1, <2>4, <3>1 DEF EntersAndLeaves
  <2> QED
    BY <2>2, <2>3, <2>4
<1>8. active' \in [Kind -> 0 .. 2]
  BY <1>5, <1>7, ActiveTyped
<1>9. ProgressOfAJob'
  <2> SUFFICES ASSUME NEW h \in Kind, progress'[h] # NoProgress
               PROVE  \E d \in Caller :
                         /\ Working(d, h)' /\ job'[d][h].read
                         /\ progress'[h][1] = job'[d][h].done
                         /\ progress'[h][2] = IF job'[d][h].of = 0 THEN 1 ELSE job'[d][h].of
    BY DEF ProgressOfAJob
  <2>1. h \notin Out /\ progress'[h] = progress[h]
    BY DEF EntersAndLeaves
  <2>2. PICK d \in Caller :
            /\ Working(d, h) /\ job[d][h].read
            /\ progress[h][1] = job[d][h].done
            /\ progress[h][2] = IF job[d][h].of = 0 THEN 1 ELSE job[d][h].of
    BY <2>1 DEF ProgressOfAJob
  <2>3. job'[d][h] = job[d][h] /\ Working(d, h)'
    BY <1>1, <1>2, <2>1, <2>2 DEF EntersAndLeaves
  <2> QED
    BY <2>1, <2>2, <2>3
<1>10. GroupsInOrder'
  <2>1. "GDELT" \in Kind
    BY DEF Kind, Phase
  <2>2. \A d \in Caller : Working(d, "GDELT")' => InOrder(job'[d]["GDELT"])
    BY <1>1, <1>2, <2>1, NewJobTyped DEF GroupsInOrder
  <2> QED
    BY <2>2 DEF GroupsInOrder, InOrder
<1> QED
  BY <1>3, <1>4, <1>6, <1>7, <1>8, <1>9, <1>10

LEMMA SchedulerStartsKeeps ==
    ASSUME IInv, NEW k \in Kind, SchedulerStarts(k)
    PROVE  IInv'
<1> USE DEF IInv
<1>1. EntersAndLeaves(Scheduler, {k}, {})
  <2>1. active' = [h \in Kind |-> IF h = k THEN active[h] + 1 ELSE active[h]]
    BY DEF SchedulerStarts, Entered, TypeOK
  <2>2. progress' = [h \in Kind |-> progress[h]]
    BY DEF SchedulerStarts, TypeOK
  <2> QED
    BY <2>1, <2>2, JobSet DEF SchedulerStarts, EntersAndLeaves, Caller
<1>2. \A c \in Click, h \in Kind : job'[c][h] = job[c][h]
  BY <1>1 DEF EntersAndLeaves, Caller
<1>3. JobsOfRounds'
  BY <1>2 DEF JobsOfRounds, SchedulerStarts, Working
<1>4. OneRound'
  BY DEF OneRound, SchedulerStarts
<1>5. UNCHANGED <<manualDone, updating, round>> /\ shared' \in BOOLEAN
  BY DEF SchedulerStarts, TypeOK
<1> QED
  BY <1>1, <1>3, <1>4, <1>5, TrackingKeeps DEF TypeOK, Caller

LEMMA SchedulerEndsKeeps ==
    ASSUME IInv, NEW k \in Kind, SchedulerEnds(k)
    PROVE  IInv'
<1> USE DEF IInv
<1>1. EntersAndLeaves(Scheduler, {}, {k})
  <2>1. active' = [h \in Kind |-> IF h = k THEN IF active[h] > 0 THEN active[h] - 1 ELSE 0
                                  ELSE active[h]]
    BY DEF SchedulerEnds, Left, TypeOK
  <2>2. progress' = [h \in Kind |-> IF h = k THEN NoProgress ELSE progress[h]]
    BY DEF SchedulerEnds, ProgressLeft, TypeOK
  <2> QED
    BY <2>1, <2>2, JobSet DEF SchedulerEnds, EntersAndLeaves, Caller
<1>2. \A c \in Click, h \in Kind : job'[c][h] = job[c][h]
  BY <1>1 DEF EntersAndLeaves, Caller
<1>3. JobsOfRounds'
  BY <1>2 DEF JobsOfRounds, SchedulerEnds, Working
<1>4. /\ manualDone' \in (SUBSET Kind) \cup {NoRound}
      /\ manualDone' = NoRound <=> manualDone = NoRound
  BY NoValueAssumption DEF SchedulerEnds, DoneAfter, TypeOK
<1>5. UNCHANGED <<updating, round, shared>>
  BY DEF SchedulerEnds
<1>6. OneRound'
  BY <1>4, <1>5 DEF OneRound
<1> QED
  BY <1>1, <1>3, <1>4, <1>5, <1>6, TrackingKeeps DEF TypeOK, Caller

LEMMA ClickRefreshKeeps ==
    ASSUME IInv, NEW c \in Click, ClickRefresh(c)
    PROVE  IInv'
<1> USE DEF IInv
<1>1. EntersAndLeaves(c, {}, {})
  <2>1. active' = [h \in Kind |-> active[h]] /\ progress' = [h \in Kind |-> progress[h]]
    BY DEF ClickRefresh, tracked, TypeOK
  <2>2. job' = [d \in Caller |-> [h \in Kind |-> job[d][h]]]
    BY DEF ClickRefresh, TypeOK
  <2> QED
    BY <2>1, <2>2 DEF EntersAndLeaves
<1>2. JobsOfRounds'
  BY NoneIsNoKind DEF JobsOfRounds, ClickRefresh, Working, TypeOK
<1>3. \A d \in Click : round[d] = "none"
  BY DEF ClickRefresh, MayStart, OneRound
<1>4. /\ UNCHANGED manualDone /\ updating' = TRUE
      /\ round' = [round EXCEPT ![c] = "created"] /\ UNCHANGED shared
  BY DEF ClickRefresh, tracked
<1>5. OneRound'
  BY <1>3, <1>4 DEF OneRound, TypeOK, Phase
<1> QED
  BY <1>1, <1>2, <1>4, <1>5, TrackingKeeps DEF TypeOK, Caller

LEMMA BeginRoundKeeps ==
    ASSUME IInv, NEW c \in Click, BeginRound(c)
    PROVE  IInv'
<1> USE DEF IInv
<1>1. "feed" \in Kind /\ \A h \in Kind : ~Working(c, h)
  BY NoneIsNoKind DEF BeginRound, JobsOfRounds, Phase
<1>2. EntersAndLeaves(c, {"feed"}, {})
  <2>1. active' = [h \in Kind |-> IF h = "feed" THEN active[h] + 1 ELSE active[h]]
    BY <1>1 DEF BeginRound, Entered, TypeOK
  <2>2. progress' = [h \in Kind |-> progress[h]]
    BY DEF BeginRound, TypeOK
  <2> QED
    BY <1>1, <2>1, <2>2, JobSet DEF BeginRound, EntersAndLeaves, Caller
<1>3. \A d \in Click, h \in Kind :
          job'[d][h] = IF d = c /\ h = "feed" THEN NewJob("feed") ELSE job[d][h]
  BY <1>2 DEF EntersAndLeaves, Caller
<1>4. /\ round' = [round EXCEPT ![c] = "feed"]
      /\ manualDone' = {} /\ UNCHANGED updating /\ shared' \in BOOLEAN
  BY DEF BeginRound
<1>5. JobsOfRounds'
  BY <1>1, <1>3, <1>4, NewJobTyped DEF JobsOfRounds, Working, TypeOK
<1>6. \A d \in Click : d # c => round[d] = "none"
  BY DEF BeginRound, OneRound
<1>7. manualDone' # NoRound /\ updating
  BY <1>4, NoValueAssumption DEF BeginRound, OneRound
<1>8. OneRound'
  BY <1>4, <1>6, <1>7 DEF OneRound, TypeOK, Phase
<1> QED
  BY <1>1, <1>2, <1>4, <1>5, <1>8, TrackingKeeps DEF TypeOK, Caller, Phase

LEMMA PhaseEndsKeeps ==
    ASSUME IInv, NEW c \in Click, PhaseEnds(c)
    PROVE  IInv'
<1> USE DEF IInv
<1> DEFINE k == round[c]
           next == NextPhase[k]
<1>1. k \in Phase /\ next \in Phase /\ next # k /\ Phase \subseteq Kind
  BY NoneIsNoKind DEF PhaseEnds, NextPhase, Phase
<1>2. \A h \in Kind : Working(c, h) <=> h = k
  BY DEF JobsOfRounds
<1>3. EntersAndLeaves(c, {next}, {k})
  <2>1. job' = [job EXCEPT ![c][k] = Idle, ![c][next] = NewJob(next)]
    BY DEF PhaseEnds
  <2>2. active' = [Left(k) EXCEPT ![next] = @ + 1] /\ progress' = ProgressLeft(k)
    BY DEF PhaseEnds
  <2> HIDE DEF k, next
  <2>3. active' = [h \in Kind |-> IF h = next THEN active[h] + 1
                                  ELSE IF h = k
                                  THEN IF active[h] > 0 THEN active[h] - 1 ELSE 0
                                  ELSE active[h]]
    BY <1>1, <2>2 DEF Left, TypeOK
  <2>4. progress' = [h \in Kind |-> IF h = k THEN NoProgress ELSE progress[h]]
    BY <1>1, <2>2 DEF ProgressLeft, TypeOK
  <2>5. /\ job' = [d \in Caller |-> [h \in Kind |-> job'[d][h]]]
        /\ \A d \in Caller, h \in Kind :
              job'[d][h] = IF d = c /\ h = next THEN NewJob(h)
                           ELSE IF d = c /\ h = k THEN Idle ELSE job[d][h]
    <3>1. /\ job = [d \in Caller |-> job[d]]
          /\ \A d \in Caller : job[d] = [h \in Kind |-> job[d][h]]
      BY DEF TypeOK
    <3>2. job' = [d \in Caller |->
                     IF d = c THEN [job[c] EXCEPT ![k] = Idle, ![next] = NewJob(next)]
                     ELSE job[d]]
      BY <2>1, <3>1 DEF Caller
    <3>3. [job[c] EXCEPT ![k] = Idle, ![next] = NewJob(next)] =
             [h \in Kind |-> IF h = next THEN NewJob(h)
                             ELSE IF h = k THEN Idle ELSE job[c][h]]
      BY <1>1, <3>1 DEF Caller
    <3>4. \A d \in Caller : job'[d] = [h \in Kind |-> job'[d][h]]
      BY <3>1, <3>2, <3>3
    <3>5. job' = [d \in Caller |-> job'[d]]
      BY <3>2
    <3> QED
      BY <3>1, <3>2, <3>3, <3>4, <3>5
  <2> QED
    BY <1>1, <1>2, <2>3, <2>4, <2>5 DEF EntersAndLeaves
<1>4. \A d \in Click, h \in Kind :
          job'[d][h] = IF d = c /\ h = next THEN NewJob(next)
                       ELSE IF d = c /\ h = k THEN Idle ELSE job[d][h]
  BY <1>3 DEF EntersAndLeaves, Caller
<1>5. round' = [round EXCEPT ![c] = next] /\ UNCHANGED <<updating, shared>>
  BY DEF PhaseEnds
<1>6. JobsOfRounds'
  <2> HIDE DEF k, next
  <2> QED
    BY <1>1, <1>2, <1>4, <1>5, NewJobTyped DEF JobsOfRounds, Working, TypeOK
<1>7. manualDone # NoRound
  BY <1>1 DEF OneRound
<1>8. manualDone' \in SUBSET Kind /\ manualDone' # NoRound
  BY <1>1, <1>7, NoValueAssumption DEF PhaseEnds, DoneAfter, TypeOK
<1>9. OneRound'
  <2>1. k # "none" /\ next # "none"
    BY <1>1 DEF Phase
  <2>2. \A d \in Click : d # c => round[d] = "none"
    BY <2>1 DEF OneRound
  <2>3. updating
    BY <2>1 DEF OneRound
  <2> HIDE DEF k, next
  <2> QED
    BY <1>1, <1>5, <1>8, <2>1, <2>2, <2>3 DEF OneRound, TypeOK, Phase
<1> QED
  <2>1. round' \in [Click -> Phase \cup {"none", "created"}]
    BY <1>1, <1>5 DEF TypeOK
  <2>2. manualDone' \in (SUBSET Kind) \cup {NoRound}
    BY <1>8
  <2>3. c \in Caller /\ {next} \in SUBSET Kind /\ {k} \in SUBSET Kind
    BY <1>1 DEF Caller
  <2>4. updating' \in BOOLEAN /\ shared' \in BOOLEAN
    BY <1>5 DEF TypeOK
  <2> HIDE DEF k, next
  <2>5. /\ active' \in [Kind -> 0 .. 2]
        /\ progress' \in [Kind -> (Nat \X (Nat \ {0})) \cup {NoProgress}]
        /\ job' \in [Caller -> [Kind -> Plain \cup Gdelt \cup {Idle}]]
        /\ \A d \in Caller, h \in Kind : job'[d][h] \in JobOf(h) \cup {Idle}
        /\ ActiveCounts' /\ ProgressOfAJob' /\ GroupsInOrder'
    BY <1>3, <1>6, <1>9, <2>3, TrackingKeeps
  <2>6. TypeOK'
    BY <2>1, <2>2, <2>4, <2>5 DEF TypeOK
  <2> QED
    BY <1>6, <1>9, <2>5, <2>6

LEMMA RoundEndsKeeps ==
    ASSUME IInv, NEW c \in Click, RoundEnds(c)
    PROVE  IInv'
<1> USE DEF IInv
<1> DEFINE k == round[c]
<1>1. k \in Phase /\ k \in Kind /\ k # "none"
  BY NoneIsNoKind DEF RoundEnds, Phase
<1>2. \A h \in Kind : Working(c, h) <=> h = k
  BY DEF JobsOfRounds
<1>3. EntersAndLeaves(c, {}, {k})
  <2>1. SetJob(c, k, Idle) /\ active' = Left(k) /\ progress' = ProgressLeft(k)
    BY DEF RoundEnds
  <2> HIDE DEF k
  <2>2. active' = [h \in Kind |-> IF h = k THEN IF active[h] > 0 THEN active[h] - 1 ELSE 0
                                  ELSE active[h]]
    BY <1>1, <2>1 DEF Left, TypeOK
  <2>3. progress' = [h \in Kind |-> IF h = k THEN NoProgress ELSE progress[h]]
    BY <1>1, <2>1 DEF ProgressLeft, TypeOK
  <2> QED
    BY <1>1, <1>2, <2>1, <2>2, <2>3, JobSet DEF EntersAndLeaves, Caller
<1>4. \A d \in Click, h \in Kind :
          job'[d][h] = IF d = c /\ h = k THEN Idle ELSE job[d][h]
  BY <1>3 DEF EntersAndLeaves, Caller
<1>5. /\ round' = [round EXCEPT ![c] = "none"] /\ UNCHANGED shared
      /\ manualDone' = NoRound /\ updating' = FALSE
  BY DEF RoundEnds, UpdatingAfter
<1>6. JobsOfRounds'
  <2> HIDE DEF k
  <2> QED
    BY <1>1, <1>2, <1>4, <1>5, NoneIsNoKind DEF JobsOfRounds, Working, TypeOK
<1>7. \A d \in Click : round'[d] = "none"
  BY <1>1, <1>5 DEF OneRound, TypeOK
<1>8. OneRound'
  BY <1>5, <1>7 DEF OneRound, Phase
<1> QED
  BY <1>1, <1>3, <1>5, <1>6, <1>8, TrackingKeeps DEF TypeOK, Caller

-----------------------------------------------------------------------------
(* The theorems.                                                           *)

LEMMA InitIInv == Init => IInv
<1> SUFFICES ASSUME Init
             PROVE  IInv
  OBVIOUS
<1>1. \A c \in Caller, k \in Kind : job[c][k] = Idle
  BY DEF Init
<1>2. TypeOK
  <2>1. active \in [Kind -> 0 .. 2]
    BY DEF Init
  <2>2. progress \in [Kind -> (Nat \X (Nat \ {0})) \cup {NoProgress}]
    BY DEF Init
  <2>3. manualDone = NoRound /\ updating = FALSE /\ shared = FALSE
    BY DEF Init
  <2>4. round \in [Click -> Phase \cup {"none", "created"}]
    BY DEF Init
  <2>5. job \in [Caller -> [Kind -> Plain \cup Gdelt \cup {Idle}]]
    BY DEF Init
  <2> QED
    BY <1>1, <2>1, <2>2, <2>3, <2>4, <2>5 DEF TypeOK
<1>3. JobsOfRounds
  BY <1>1, NoneIsNoKind DEF Init, JobsOfRounds, Working, Caller
<1>4. OneRound
  BY DEF Init, OneRound, Phase
<1>5. ActiveCounts
  <2> SUFFICES ASSUME NEW k \in Kind
               PROVE  active[k] = Cardinality(Workers(k))
    BY DEF ActiveCounts, Workers
  <2>1. Workers(k) = {}
    BY <1>1 DEF Workers, Working
  <2> QED
    BY <2>1, FS_EmptySet DEF Init
<1>6. ProgressOfAJob
  BY DEF Init, ProgressOfAJob
<1>7. GroupsInOrder
  BY <1>1 DEF GroupsInOrder, Working, Kind, Phase
<1> QED
  BY <1>2, <1>3, <1>4, <1>5, <1>6, <1>7 DEF IInv

LEMMA StepIInv == IInv /\ [Next]_vars => IInv'
<1> SUFFICES ASSUME IInv, [Next]_vars
             PROVE  IInv'
  OBVIOUS
<1>1. ASSUME NEW k \in Kind, SchedulerStarts(k) \/ SchedulerEnds(k)
      PROVE  IInv'
  BY <1>1, SchedulerStartsKeeps, SchedulerEndsKeeps
<1>2. ASSUME NEW c \in Click,
             ClickRefresh(c) \/ BeginRound(c) \/ PhaseEnds(c) \/ RoundEnds(c)
      PROVE  IInv'
  BY <1>2, ClickRefreshKeeps, BeginRoundKeeps, PhaseEndsKeeps, RoundEndsKeeps
<1>3. ASSUME NEW c \in Caller, Work(c)
      PROVE  IInv'
  BY <1>3, WorkGoesOn, GoesOnKeeps DEF IInv
<1>4. CASE UNCHANGED vars
  BY <1>4 DEF vars, IInv, TypeOK, JobsOfRounds, OneRound, ActiveCounts, ProgressOfAJob,
              GroupsInOrder, InOrder, Working
<1> QED
  BY <1>1, <1>2, <1>3, <1>4 DEF Next

LEMMA Invariance == Spec => []IInv
  BY InitIInv, StepIInv, PTL DEF Spec

\* The state of refresh_state, of the manual rounds and of the jobs has its
\* type: at most two jobs of a kind are at work, though nothing says so where
\* they are started.
THEOREM TypeCorrect == Spec => []TypeOK
<1>1. IInv => TypeOK
  BY DEF IInv
<1> QED
  BY <1>1, Invariance, PTL

\* _active counts the jobs at work, through overlaps and exceptions.
THEOREM ActiveIsCounted == Spec => []ActiveCounts
<1>1. IInv => ActiveCounts
  BY DEF IInv
<1> QED
  BY <1>1, Invariance, PTL

\* _progress only tells of jobs at work, although jobs of a kind share it.
THEOREM ProgressIsOfAJob == Spec => []ProgressOfAJob
<1>1. IInv => ProgressOfAJob
  BY DEF IInv
<1> QED
  BY <1>1, Invariance, PTL

\* _aggiornamento lets one manual round run at a time, however many requests
\* come and however the round ends.
THEOREM OneRoundAtATime == Spec => []OneRound
<1>1. IInv => OneRound
  BY DEF IInv
<1> QED
  BY <1>1, Invariance, PTL

\* Retries and breaker of ingest_gdelt_all: a pass asks a silent service four
\* times in a row at most, however many groups there are.
THEOREM SilenceIsBounded == Spec => []SilenceBounded
<1>1. IInv => SilenceBounded
  <2>1. "GDELT" \in Kind
    BY DEF Kind, Phase
  <2> QED
    BY <2>1 DEF IInv, GroupsInOrder, InOrder, SilenceBounded, TRANSPORT_ATTEMPTS
<1> QED
  BY <1>1, Invariance, PTL

-----------------------------------------------------------------------------
(* The bar.                                                                *)

\* No job is further than its end.
JobsWithin ==
    \A c \in Caller, k \in Kind : Working(c, k) => job[c][k].done <= job[c][k].of

Alone == manualDone # NoRound /\ ~shared

\* The round has the phases to itself.
NobodyElse == Alone => \A k \in Phase : ~Working(Scheduler, k)

PhasesBefore == [feed |-> {}, GDELT |-> {"feed"}, clustering |-> {"feed", "GDELT"}]

\* The phases done are those before the one at work.
PhasesInTurn ==
    Alone => \A c \in Click : round[c] \in Phase => manualDone \cap Phase = PhasesBefore[round[c]]

BarInv ==
    /\ JobsWithin
    /\ NobodyElse
    /\ PhasesInTurn

WeightBefore == [feed |-> 0, GDELT |-> 55, clustering |-> 90]

Capped(n) == IF n > 99 THEN 99 ELSE n

LEMMA DivMonotone ==
    ASSUME NEW a \in Nat, NEW b \in Nat, NEW n \in Nat \ {0}, a <= b
    PROVE  a \div n \in Nat /\ a \div n <= b \div n
<1> DEFINE p == a \div n
           q == b \div n
<1>1. p \in Nat /\ n * p <= a
  OBVIOUS
<1>2. q \in Nat /\ b < n * (q + 1)
  OBVIOUS
<1> HIDE DEF p, q
<1>3. n * p < n * (q + 1)
  <2>1. n * p \in Nat /\ n * (q + 1) \in Nat
    BY <1>1, <1>2
  <2> QED
    BY <1>1, <1>2, <2>1
<1>4. p < q + 1
  <2> SUFFICES ASSUME q + 1 <= p
               PROVE  FALSE
    BY <1>1, <1>2
  <2>1. n * (q + 1) <= n * p
    BY <1>1, <1>2
  <2> QED
    BY <1>1, <1>2, <1>3, <2>1
<1>5. p <= q
  BY <1>1, <1>2, <1>4
<1> QED
  BY <1>1, <1>5 DEF p, q

LEMMA DivWithin ==
    ASSUME NEW w \in Nat, NEW d \in Nat, NEW n \in Nat \ {0}, d <= n
    PROVE  (w * d) \div n <= w
<1>1. w * d \in Nat /\ w * n \in Nat /\ w * d <= w * n
  OBVIOUS
<1>2. (w * n) \div n = w
  OBVIOUS
<1> QED
  BY <1>1, <1>2, DivMonotone

\* What the phase at work adds is between nothing and its weight.
LEMMA PartWithin ==
    ASSUME IInv, JobsWithin, NEW k \in Phase
    PROVE  Part(k) \in Nat /\ Part(k) <= Weight[k]
<1>1. k \in Kind /\ Weight[k] \in Nat
  BY DEF Kind, Phase, Weight
<1>2. CASE progress[k] = NoProgress
  BY <1>1, <1>2 DEF Part
<1>3. CASE progress[k] # NoProgress
  <2>1. PICK c \in Caller : /\ Working(c, k)
                            /\ progress[k][1] = job[c][k].done
                            /\ progress[k][2] = IF job[c][k].of = 0 THEN 1 ELSE job[c][k].of
    BY <1>1, <1>3 DEF IInv, ProgressOfAJob
  <2>2. progress[k][1] \in Nat /\ progress[k][2] \in Nat \ {0}
    BY <1>1, <1>3 DEF IInv, TypeOK
  <2>3. job[c][k].done \in Nat /\ job[c][k].of \in Nat
    <3>1. job[c][k] \in Plain \cup Gdelt
      BY <1>1, <2>1 DEF IInv, TypeOK, Working
    <3>2. UpTo(Groups) \subseteq Nat /\ UpTo(Sizes) \subseteq Nat
      BY UpToFacts, GroupsNat
    <3> QED
      BY <3>1, <3>2 DEF Plain, Gdelt
  <2>4. progress[k][1] <= progress[k][2]
    BY <1>1, <2>1, <2>2, <2>3 DEF JobsWithin
  <2>5. Weight[k] * progress[k][1] \in Nat
    BY <1>1, <2>2
  <2>6. Part(k) = (Weight[k] * progress[k][1]) \div progress[k][2]
    BY <1>3 DEF Part
  <2> QED
    BY <1>1, <2>2, <2>4, <2>5, <2>6, DivWithin, DivMonotone
<1> QED
  BY <1>2, <1>3

\* With the phases to itself a round in phase k shows what the phases before
\* it weigh and what k adds.
LEMMA ShownByARound ==
    ASSUME IInv, BarInv, Alone
    PROVE  \E c \in Click :
              /\ round[c] \in Phase
              /\ \A p \in Percents : p = Capped(WeightBefore[round[c]] + Part(round[c]))
<1> USE DEF IInv
<1>1. PICK c \in Click : round[c] \in Phase
  BY DEF OneRound, Alone
<1> SUFFICES ASSUME NEW h \in Phase, active[h] > 0
             PROVE  Percent(h) = Capped(WeightBefore[round[c]] + Part(round[c]))
  BY <1>1 DEF Percents
<1>2. h \in Kind
  BY DEF Kind
<1>3. PICK d \in Caller : Working(d, h)
  <2>1. Cardinality(Workers(h)) > 0
    BY <1>2 DEF ActiveCounts, Workers
  <2>2. Workers(h) # {}
    BY <2>1, FS_EmptySet
  <2> QED
    BY <2>2 DEF Workers
<1>4. d \in Click
  BY <1>3 DEF BarInv, NobodyElse, Caller
<1>5. round[d] = h
  BY <1>2, <1>3, <1>4 DEF JobsOfRounds
<1>6. d = c
  BY <1>1, <1>4, <1>5, NoneIsNoKind DEF OneRound, Phase
<1>7. manualDone \cap Phase = PhasesBefore[h]
  BY <1>4, <1>5 DEF BarInv, PhasesInTurn
<1>8. DoneWeight("feed") + DoneWeight("GDELT") + DoneWeight("clustering") = WeightBefore[h]
  <2>1. \A k \in Phase : DoneWeight(k) = IF k \in PhasesBefore[h] THEN Weight[k] ELSE 0
    BY <1>7 DEF DoneWeight
  <2>2. Weight["feed"] = 55 /\ Weight["GDELT"] = 35 /\ Weight["clustering"] = 10
    BY DEF Weight, Kind, Phase
  <2>3. CASE h = "feed"
    BY <2>1, <2>3 DEF Phase, PhasesBefore, WeightBefore
  <2>4. CASE h = "GDELT"
    BY <2>1, <2>2, <2>4 DEF Phase, PhasesBefore, WeightBefore
  <2>5. CASE h = "clustering"
    BY <2>1, <2>2, <2>5 DEF Phase, PhasesBefore, WeightBefore
  <2> QED
    BY <2>3, <2>4, <2>5 DEF Phase
<1> QED
  BY <1>5, <1>6, <1>8 DEF Percent, Capped

LEMMA BarInvKept == IInv /\ BarInv /\ [Next]_vars /\ IInv' => BarInv'
<1> SUFFICES ASSUME IInv, BarInv, [Next]_vars, IInv'
             PROVE  BarInv'
  OBVIOUS
<1> USE DEF IInv
<1>0. Phase \subseteq Kind /\ NoRound \notin SUBSET Kind
  BY NoneIsNoKind, NoValueAssumption
<1>1. ASSUME NEW k \in Kind, SchedulerStarts(k)
      PROVE  BarInv'
  <2>1. \A d \in Caller, h \in Kind :
            job'[d][h] = IF d = Scheduler /\ h = k THEN NewJob(k) ELSE job[d][h]
    BY <1>1, JobSet DEF SchedulerStarts, Caller
  <2>2. UNCHANGED <<manualDone, round>> /\ shared' = (shared \/ (manualDone # NoRound /\ k \in Phase))
    BY <1>1 DEF SchedulerStarts
  <2>3. NewJob(k).done = 0 /\ NewJob(k).of = 0
    BY DEF NewJob
  <2>4. JobsWithin'
    BY <2>1, <2>3 DEF BarInv, JobsWithin, Working
  <2>5. Alone' => Alone /\ k \notin Phase
    BY <2>2 DEF Alone
  <2>6. NobodyElse'
    BY <1>0, <2>1, <2>5 DEF BarInv, NobodyElse, Working, Caller
  <2>7. PhasesInTurn'
    BY <2>2, <2>5 DEF BarInv, PhasesInTurn
  <2> QED
    BY <2>4, <2>6, <2>7 DEF BarInv
<1>2. ASSUME NEW k \in Kind, SchedulerEnds(k)
      PROVE  BarInv'
  <2>1. \A d \in Caller, h \in Kind :
            job'[d][h] = IF d = Scheduler /\ h = k THEN Idle ELSE job[d][h]
    BY <1>2, JobSet DEF SchedulerEnds, Caller
  <2>2. UNCHANGED <<round, shared>> /\ manualDone' = DoneAfter(k) /\ Working(Scheduler, k)
    BY <1>2 DEF SchedulerEnds
  <2>3. JobsWithin'
    BY <2>1 DEF BarInv, JobsWithin, Working
  <2>4. Alone' => Alone /\ manualDone' = manualDone \cup {k}
    BY <2>2 DEF Alone, DoneAfter
  <2>5. NobodyElse'
    BY <1>0, <2>1, <2>4 DEF BarInv, NobodyElse, Working, Caller
  <2>6. Alone => k \notin Phase
    BY <2>2 DEF BarInv, NobodyElse
  <2>7. PhasesInTurn'
    BY <2>2, <2>4, <2>6 DEF BarInv, PhasesInTurn
  <2> QED
    BY <2>3, <2>5, <2>7 DEF BarInv
<1>3. ASSUME NEW c \in Click, ClickRefresh(c)
      PROVE  BarInv'
  <2>1. UNCHANGED <<active, progress, manualDone, job, shared>>
    BY <1>3 DEF ClickRefresh, tracked
  <2>2. manualDone = NoRound
    BY <1>3 DEF ClickRefresh, MayStart, OneRound, Phase
  <2> QED
    BY <2>1, <2>2 DEF BarInv, JobsWithin, NobodyElse, PhasesInTurn, Alone, Working
<1>4. ASSUME NEW c \in Click, BeginRound(c)
      PROVE  BarInv'
  <2>1. \A d \in Caller, h \in Kind :
            job'[d][h] = IF d = c /\ h = "feed" THEN NewJob("feed") ELSE job[d][h]
    <3>1. "feed" \in Kind /\ c \in Caller
      BY DEF Kind, Phase, Caller
    <3> QED
      BY <1>4, <3>1, JobSet DEF BeginRound
  <2>2. NewJob("feed").done = 0 /\ NewJob("feed").of = 0
    BY DEF NewJob
  <2>3. JobsWithin'
    BY <2>1, <2>2 DEF BarInv, JobsWithin, Working
  <2>4. \A k \in Phase : Working(Scheduler, k)' <=> Working(Scheduler, k)
    BY <1>0, <2>1 DEF Working, Caller
  <2>5. NobodyElse'
    BY <1>4, <2>4 DEF BeginRound, NobodyElse, Alone
  <2>6. \A d \in Click : round'[d] \in Phase => round'[d] = "feed"
    BY <1>4, NoneIsNoKind DEF BeginRound, OneRound, TypeOK, Phase
  <2>7. PhasesInTurn'
    BY <1>4, <2>6 DEF BeginRound, PhasesInTurn, PhasesBefore
  <2> QED
    BY <2>3, <2>5, <2>7 DEF BarInv
<1>5. ASSUME NEW c \in Click, PhaseEnds(c)
      PROVE  BarInv'
  <2> DEFINE k == round[c]
             next == NextPhase[k]
  <2>1. k \in {"feed", "GDELT"} /\ next \in Phase /\ next # k
    BY <1>5 DEF PhaseEnds, NextPhase, Phase
  <2>2. \A d \in Caller, h \in Kind :
            job'[d][h] = IF d = c /\ h = next THEN NewJob(next)
                         ELSE IF d = c /\ h = k THEN Idle ELSE job[d][h]
    <3>1. job' = [job EXCEPT ![c][k] = Idle, ![c][next] = NewJob(next)]
      BY <1>5 DEF PhaseEnds
    <3> HIDE DEF k, next
    <3> QED
      BY <1>0, <2>1, <3>1 DEF TypeOK, Caller, Phase
  <2>3. NewJob(next).done = 0 /\ NewJob(next).of = 0
    BY DEF NewJob
  <2>4. JobsWithin'
    <3> HIDE DEF k, next
    <3> QED
      BY <2>2, <2>3 DEF BarInv, JobsWithin, Working
  <2>5. UNCHANGED shared /\ manualDone' = DoneAfter(k) /\ round' = [round EXCEPT ![c] = next]
    BY <1>5 DEF PhaseEnds
  <2>6. Alone' => Alone /\ manualDone' = manualDone \cup {k}
    BY <2>5 DEF Alone, DoneAfter
  <2>7. NobodyElse'
    <3> HIDE DEF k, next
    <3> QED
      BY <1>0, <2>2, <2>6, ConstantAssumption DEF BarInv, NobodyElse, Working, Caller
  <2>8. \A d \in Click : round'[d] \in Phase => d = c
    BY <2>1, <2>5, NoneIsNoKind DEF OneRound, TypeOK, Phase
  <2>9. PhasesInTurn'
    <3> SUFFICES ASSUME Alone', NEW d \in Click, round'[d] \in Phase
                 PROVE  (manualDone \cap Phase)' = PhasesBefore[round'[d]]
      BY DEF PhasesInTurn, Phase, PhasesBefore
    <3>1. d = c /\ round'[d] = next
      BY <2>5, <2>8 DEF TypeOK
    <3>2. manualDone \cap Phase = PhasesBefore[k]
      BY <2>1, <2>6 DEF BarInv, PhasesInTurn, Phase
    <3>3. (manualDone \cap Phase) \cup {k} = PhasesBefore[next]
      BY <2>1, <3>2 DEF PhasesBefore, NextPhase
    <3> QED
      BY <2>1, <2>6, <3>1, <3>3 DEF Phase
  <2> QED
    BY <2>4, <2>7, <2>9 DEF BarInv
<1>6. ASSUME NEW c \in Click, RoundEnds(c)
      PROVE  BarInv'
  <2>1. ~Alone'
    BY <1>6 DEF RoundEnds, Alone
  <2>2. round[c] \in Kind /\ SetJob(c, round[c], Idle)
    BY <1>0, <1>6 DEF RoundEnds
  <2>3. \A d \in Caller, h \in Kind :
            job'[d][h] = IF d = c /\ h = round[c] THEN Idle ELSE job[d][h]
    BY <2>2, JobSet DEF Caller
  <2> QED
    BY <2>1, <2>3 DEF BarInv, JobsWithin, NobodyElse, PhasesInTurn, Working
<1>7. ASSUME NEW c \in Caller, Work(c)
      PROVE  BarInv'
  <2>1. PICK k \in Kind : \E j \in JobOf(k) : GoesOn(c, k, j)
    BY <1>7, WorkGoesOn
  <2>2. PICK j \in JobOf(k) : GoesOn(c, k, j)
    BY <2>1
  <2>3. \A d \in Caller, h \in Kind : job'[d][h] = IF d = c /\ h = k THEN j ELSE job[d][h]
    BY <2>2, JobSet DEF GoesOn
  <2>4. UNCHANGED <<manualDone, round, shared>> /\ Working(c, k) /\ j.done <= j.of
    BY <2>2 DEF GoesOn
  <2>5. \A d \in Caller, h \in Kind : Working(d, h)' => Working(d, h)
    BY <2>3, <2>4 DEF Working
  <2>6. JobsWithin'
    BY <2>3, <2>4, <2>5 DEF BarInv, JobsWithin
  <2> QED
    BY <1>0, <2>4, <2>5, <2>6 DEF BarInv, NobodyElse, PhasesInTurn, Alone, Caller
<1>8. CASE UNCHANGED vars
  BY <1>8 DEF vars, BarInv, JobsWithin, NobodyElse, PhasesInTurn, Alone, Working
<1> QED
  BY <1>1, <1>2, <1>3, <1>4, <1>5, <1>6, <1>7, <1>8 DEF Next

LEMMA InitBarInv == Init => BarInv
  BY DEF Init, BarInv, JobsWithin, NobodyElse, PhasesInTurn, Alone, Working

LEMMA BarInvariance == Spec => [](IInv /\ BarInv)
<1>1. IInv /\ BarInv /\ [Next]_vars => (IInv /\ BarInv)'
  BY StepIInv, BarInvKept
<1> QED
  BY <1>1, InitIInv, InitBarInv, PTL DEF Spec

\* Within a phase what is shown grows with the figures of its only job.
LEMMA WorkAddsToThePart ==
    ASSUME IInv, BarInv, Alone, NEW c \in Caller, Work(c), ~SecondPassBegins,
           NEW d \in Click, round[d] \in Phase
    PROVE  /\ round' = round
           /\ Part(round[d])' \in Int => Part(round[d]) <= Part(round[d])'
<1> USE DEF IInv
<1> DEFINE h == round[d]
<1>0. h \in Kind /\ Weight[h] \in Nat
  BY DEF Kind, Phase, Weight
<1>1. PICK k \in Kind : \E j \in JobOf(k) : GoesOn(c, k, j)
  BY WorkGoesOn
<1>2. PICK j \in JobOf(k) : GoesOn(c, k, j)
  BY <1>1
<1>3. UNCHANGED round /\ Working(c, k)
  BY <1>2 DEF GoesOn
<1>4. progress' = [progress EXCEPT ![k] = <<j.done, IF j.of = 0 THEN 1 ELSE j.of>>]
  BY <1>2 DEF GoesOn, SetProgress
<1>5. Part(h) \in Nat
  BY PartWithin DEF BarInv
<1> HIDE DEF h
<1>6. CASE k # h
  <2>1. progress'[h] = progress[h]
    BY <1>0, <1>4, <1>6 DEF TypeOK
  <2>2. Part(h)' = Part(h)
    BY <1>3, <2>1 DEF Part, h
  <2> QED
    BY <1>3, <1>5, <2>2 DEF h
<1>7. CASE k = h
  <2>1. c \in Click /\ c = d
    BY <1>3, <1>7, NoneIsNoKind DEF BarInv, NobodyElse, Caller, JobsOfRounds, OneRound, h, Phase
  <2>2. j \in Plain \cup Gdelt
    BY DEF JobOf
  <2>3. j.done \in Nat /\ j.of \in Nat
    <3>1. UpTo(Groups) \subseteq Nat /\ UpTo(Sizes) \subseteq Nat
      BY UpToFacts, GroupsNat
    <3> QED
      BY <2>2, <3>1 DEF Plain, Gdelt
  <2> DEFINE n == IF j.of = 0 THEN 1 ELSE j.of
  <2>4. n \in Nat \ {0}
    BY <2>3
  <2>5. progress'[h] = <<j.done, n>> /\ progress'[h] # NoProgress
    <3>1. progress'[h] = <<j.done, n>>
      BY <1>0, <1>4, <1>7 DEF TypeOK
    <3> QED
      BY <2>3, <2>4, <3>1, NoValueAssumption
  <2>6. Part(h)' = (Weight[h] * j.done) \div n
    <3>1. progress'[h][1] = j.done /\ progress'[h][2] = n
      BY <2>5
    <3> QED
      BY <1>3, <2>5, <3>1 DEF Part, h
  <2>7. CASE progress[h] = NoProgress
    <3>1. Part(h) = 0
      BY <2>7 DEF Part
    <3>2. Weight[h] * j.done \in Nat
      BY <1>0, <2>3
    <3> QED
      BY <1>3, <2>4, <2>6, <3>1, <3>2, DivMonotone DEF h
  <2>8. CASE progress[h] # NoProgress
    <3>1. PICK e \in Caller : /\ Working(e, h) /\ job[e][h].read
                              /\ progress[h][1] = job[e][h].done
                              /\ progress[h][2] = IF job[e][h].of = 0 THEN 1 ELSE job[e][h].of
      BY <1>0, <2>8 DEF ProgressOfAJob
    <3>2. e = d
      <4>1. e \in Click
        BY <3>1 DEF BarInv, NobodyElse, Caller, h
      <4>2. round[e] = h
        BY <1>0, <3>1, <4>1 DEF JobsOfRounds
      <4> QED
        BY <4>1, <4>2, NoneIsNoKind DEF OneRound, h, Phase
    <3>3. job'[c][k] = j
      BY <1>2, JobSet DEF GoesOn
    <3>4. ~(k = "GDELT" /\ job[c][k].pass = 1 /\ j.pass = 2)
      <4>1. j # Idle
        BY <2>2, NoValueAssumption
      <4> QED
        BY <1>3, <2>1, <3>3, <4>1 DEF SecondPassBegins
    <3>5. job[d][h].done <= j.done /\ job[d][h].of = j.of
      BY <1>2, <1>7, <2>1, <3>1, <3>2, <3>4 DEF GoesOn, Advances
    <3>6. progress[h][1] \in Nat /\ progress[h][1] <= j.done /\ progress[h][2] = n
      BY <1>0, <2>8, <3>1, <3>2, <3>5 DEF TypeOK
    <3>7. /\ Weight[h] * progress[h][1] \in Nat /\ Weight[h] * j.done \in Nat
          /\ Weight[h] * progress[h][1] <= Weight[h] * j.done
      BY <1>0, <2>3, <3>6
    <3>8. Part(h) = (Weight[h] * progress[h][1]) \div n
      BY <2>8, <3>6 DEF Part
    <3> HIDE DEF n
    <3> QED
      BY <1>3, <2>4, <2>6, <3>7, <3>8, DivMonotone DEF h
  <2> QED
    BY <2>7, <2>8
<1> QED
  BY <1>6, <1>7

\* The two facts as formulas, to be had of the next state too.
LEMMA PartsWithin ==
    IInv /\ BarInv => \A k \in Phase : Part(k) \in Nat /\ WeightBefore[k] + Part(k) \in Int
<1>1. \A k \in Phase : WeightBefore[k] \in Int
  BY DEF Phase, WeightBefore
<1> QED
  BY <1>1, PartWithin DEF BarInv

LEMMA Shown ==
    IInv /\ BarInv /\ Alone =>
        \E c \in Click :
           /\ round[c] \in Phase
           /\ \A p \in Percents : p = Capped(WeightBefore[round[c]] + Part(round[c]))
  BY ShownByARound

LEMMA ShownNext ==
    (IInv /\ BarInv /\ Alone)' =>
        \E c \in Click :
           /\ round'[c] \in Phase
           /\ \A p \in Percents' : p = Capped((WeightBefore[round[c]] + Part(round[c]))')
<1>1. (IInv /\ BarInv /\ Alone =>
        \E c \in Click :
           /\ round[c] \in Phase
           /\ \A p \in Percents : p = Capped(WeightBefore[round[c]] + Part(round[c])))'
  BY Shown, PTL
<1> QED
  BY <1>1 DEF Phase, Capped

\* A step of a round that has the phases to itself.
LEMMA RoundMovesForward ==
    ASSUME IInv, BarInv, Alone, [Next]_vars, IInv', BarInv', Alone', ~SecondPassBegins,
           NEW c \in Click, round[c] \in Phase, NEW d \in Click, round'[d] \in Phase
    PROVE  WeightBefore[round[c]] + Part(round[c]) <= (WeightBefore[round[d]] + Part(round[d]))'
<1> USE DEF IInv
<1>1. /\ Part(round[c]) \in Nat /\ Part(round[c]) <= Weight[round[c]]
  BY PartWithin DEF BarInv
<1>2. Part(round[d])' \in Nat
  <2>1. \A k \in Phase : Part(k) \in Nat
    BY PartWithin DEF BarInv
  <2>2. \A k \in Phase : Part(k)' \in Nat
    <3>1. (IInv /\ BarInv =>
              \A k \in Phase : Part(k) \in Nat /\ WeightBefore[k] + Part(k) \in Int)'
      BY PartsWithin, PTL
    <3> QED
      BY <3>1
  <2> QED
    BY <2>2
<1>3. \A k \in Phase : WeightBefore[k] \in Nat
  BY DEF Phase, WeightBefore
<1>4. manualDone # NoRound /\ manualDone' # NoRound /\ ~shared'
  BY DEF Alone
<1>5. \A e \in Click : round[e] # "none" => e = c
  BY NoneIsNoKind DEF OneRound, Phase
<1>6. ASSUME UNCHANGED <<round, progress>>
      PROVE  WeightBefore[round[c]] + Part(round[c]) <= (WeightBefore[round[d]] + Part(round[d]))'
  <2>1. d = c
    BY <1>5, <1>6 DEF Phase
  <2>2. Part(round[d])' = Part(round[c])
    BY <1>6, <2>1 DEF Part
  <2> QED
    BY <1>1, <1>3, <1>6, <2>1, <2>2 DEF WeightBefore
<1>7. ASSUME NEW k \in Kind, SchedulerStarts(k)
      PROVE  UNCHANGED <<round, progress>>
  BY <1>7 DEF SchedulerStarts
<1>8. ASSUME NEW k \in Kind, SchedulerEnds(k)
      PROVE  WeightBefore[round[c]] + Part(round[c]) <= (WeightBefore[round[d]] + Part(round[d]))'
  <2>1. k \notin Phase
    BY <1>8 DEF SchedulerEnds, BarInv, NobodyElse
  <2>2. progress'[round[c]] = progress[round[c]] /\ UNCHANGED round
    <3>1. round[c] \in Kind /\ round[c] # k
      BY <2>1 DEF Kind
    <3> QED
      BY <1>8, <3>1 DEF SchedulerEnds, ProgressLeft, TypeOK
  <2>3. d = c
    BY <1>5, <2>2 DEF Phase
  <2>4. Part(round[d])' = Part(round[c])
    BY <2>2, <2>3 DEF Part
  <2> QED
    BY <1>1, <1>3, <2>2, <2>3, <2>4 DEF WeightBefore
<1>9. ASSUME NEW e \in Click, ClickRefresh(e) \/ BeginRound(e) \/ RoundEnds(e)
      PROVE  FALSE
  <2>1. updating /\ round[e] # "created"
    BY <1>5, NoneIsNoKind DEF OneRound, Phase
  <2> QED
    BY <1>4, <1>9, <2>1 DEF ClickRefresh, MayStart, BeginRound, RoundEnds
<1>10. ASSUME NEW e \in Click, PhaseEnds(e)
       PROVE  WeightBefore[round[c]] + Part(round[c]) <= (WeightBefore[round[d]] + Part(round[d]))'
  <2>1. e = c
    BY <1>5, <1>10 DEF PhaseEnds
  <2>2. round[c] \in {"feed", "GDELT"} /\ round' = [round EXCEPT ![c] = NextPhase[round[c]]]
    BY <1>10, <2>1 DEF PhaseEnds
  <2>3. d = c
    BY <1>5, <2>2 DEF TypeOK, Phase
  <2>4. round'[d] = NextPhase[round[c]]
    BY <2>2, <2>3 DEF TypeOK
  <2>5. WeightBefore[round'[d]] = WeightBefore[round[c]] + Weight[round[c]]
    <3>1. Weight["feed"] = 55 /\ Weight["GDELT"] = 35
      BY DEF Weight, Kind, Phase
    <3>2. CASE round[c] = "feed"
      BY <2>4, <3>1, <3>2 DEF NextPhase, WeightBefore
    <3>3. CASE round[c] = "GDELT"
      BY <2>4, <3>1, <3>3 DEF NextPhase, WeightBefore
    <3> QED
      BY <2>2, <3>2, <3>3
  <2>6. Weight[round[c]] \in Nat
    BY DEF Weight, Kind, Phase
  <2>7. WeightBefore[round[c]] \in Nat
    BY <1>3
  <2>8. (WeightBefore[round[d]])' = WeightBefore[round'[d]]
    BY DEF WeightBefore
  <2> QED
    BY <1>1, <1>2, <2>5, <2>6, <2>7, <2>8
<1>11. ASSUME NEW e \in Caller, Work(e)
       PROVE  WeightBefore[round[c]] + Part(round[c]) <= (WeightBefore[round[d]] + Part(round[d]))'
  <2>1. round' = round /\ (Part(round[c])' \in Int => Part(round[c]) <= Part(round[c])')
    BY <1>11, WorkAddsToThePart
  <2>2. d = c
    BY <1>5, <2>1 DEF Phase
  <2> QED
    BY <1>1, <1>2, <1>3, <2>1, <2>2 DEF WeightBefore
<1> QED
  BY <1>6, <1>7, <1>8, <1>9, <1>10, <1>11 DEF Next, vars

\* What overall shows during a manual round never goes down while the scheduler
\* leaves the phases alone, unless GDELT begins its second pass: not within a
\* phase, whatever number of items it finds, nor from a phase to the next.
THEOREM BarOnlyMovesForward == Spec => BarMovesForward
<1>1. ASSUME IInv /\ BarInv, [Next]_vars, (IInv /\ BarInv)'
      PROVE  [manualDone # NoRound /\ manualDone' # NoRound /\ ~shared' /\ ~SecondPassBegins
                => \A p \in Percents, q \in Percents' : p <= q]_vars
  <2> SUFFICES ASSUME manualDone # NoRound, manualDone' # NoRound, ~shared', ~SecondPassBegins,
                      NEW p \in Percents, NEW q \in Percents'
               PROVE  p <= q \/ UNCHANGED vars
    OBVIOUS
  <2>1. Alone'
    BY DEF Alone
  <2>2. Alone
    <3>1. ASSUME shared, ~shared'
          PROVE  manualDone = NoRound
      <4>1. PICK c \in Click : BeginRound(c)
        BY <1>1, <3>1 DEF Next, SchedulerStarts, SchedulerEnds, ClickRefresh, PhaseEnds,
              RoundEnds, Work, FindWork, Proceed, FindGroups, TryGroup, vars
      <4> QED
        BY <1>1, <4>1 DEF IInv, OneRound, BeginRound, Phase
    <3> QED
      BY <3>1 DEF Alone
  <2>3. PICK c \in Click :
            round[c] \in Phase /\ p = Capped(WeightBefore[round[c]] + Part(round[c]))
    BY <1>1, <2>2, ShownByARound
  <2>4. PICK d \in Click :
            /\ round'[d] \in Phase
            /\ q = Capped((WeightBefore[round[d]] + Part(round[d]))')
    BY <1>1, <2>1, ShownNext
  <2>5. WeightBefore[round[c]] + Part(round[c]) <= (WeightBefore[round[d]] + Part(round[d]))'
    BY <1>1, <2>1, <2>2, <2>3, <2>4, RoundMovesForward
  <2>6. /\ WeightBefore[round[c]] + Part(round[c]) \in Int
        /\ (WeightBefore[round[d]] + Part(round[d]))' \in Int
    <3>1. (IInv /\ BarInv =>
              \A k \in Phase : Part(k) \in Nat /\ WeightBefore[k] + Part(k) \in Int)'
      BY PartsWithin, PTL
    <3> QED
      BY <1>1, <2>3, <2>4, <3>1, PartsWithin DEF WeightBefore
  <2> QED
    BY <2>3, <2>4, <2>5, <2>6 DEF Capped
<1> QED
  BY <1>1, BarInvariance, PTL DEF Spec, BarMovesForward
=============================================================================
