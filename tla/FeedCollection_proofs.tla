------------------------ MODULE FeedCollection_proofs ------------------------
(***************************************************************************)
(* The safety properties of FeedCollection, for any catalogue, any number  *)
(* of rounds and any behaviour of the sites; the spacing of requests by    *)
(* the limiters its downloads go through; and, of the full texts, type     *)
(* correctness, the age of what a robots.txt permits and the length of     *)
(* transactions, for any coroutines, hosts, articles and bounds.           *)
(***************************************************************************)
EXTENDS FeedCollection, RateLimiter, FullTexts, FiniteSetTheorems, TLAPS

(* What a round reads when it starts stays true until it stores only while *)
(* it runs alone: that is the strengthening the properties need.           *)

\* Rounds that never overlapped run one at a time.
Alone == ~overlapped => \A r, s \in running : r = s

\* Only rounds in progress have downloads.
TasksOfRunning == \A r \in Round \ running, f \in Feed : task[r][f] = NoTask

\* A download was made from the row as it still is.
TasksFresh ==
    ~overlapped => \A r \in Round, f \in Feed : task[r][f] # NoTask =>
        /\ task[r][f].url = CurrentAddress(f)
        /\ task[r][f].validator = row[f].validator
        /\ r \notin RetryAll => ~InBackoff(row[f])

\* What a finished download says about where it read and what it sent.
Consistent(t) ==
    /\ t.fetch.discovered \/ t.fetch.from = t.url
    /\ t.fetch.discovered => IsFeed(t.fetch)
    /\ t.fetch.kind = "not_modified" =>
          /\ t.fetch.from = t.url
          /\ t.validator # NoValidator
          /\ t.validator.from = t.url => t.validator.version = t.fetch.version

TasksConsistent ==
    \A r \in Round, f \in Feed :
        task[r][f] # NoTask /\ task[r][f].fetch # NoFetch => Consistent(task[r][f])

IInv ==
    /\ TypeOK
    /\ Alone
    /\ TasksOfRunning
    /\ TasksFresh
    /\ TasksConsistent
    /\ ValidatorIngested
    /\ ValidatorOfCurrentAddress

-----------------------------------------------------------------------------
(* Downloads.                                                              *)

\* The outcomes of a download are well formed.
LEMMA OutcomesTyped ==
    ASSUME TypeOK, NEW f \in Feed, NEW url \in Address,
           NEW validator \in Validator \cup {NoValidator}
    PROVE  FetchOutcomes(f, url, validator) \subseteq FeedFetch
<1>1. version[url] \in 0 .. MaxVersion /\ 0 \in 0 .. MaxVersion
  BY ConstantAssumption DEF TypeOK, Version
<1>2. {Failed(url), Page(url), NotModified(url), Content(url)} \subseteq FeedFetch
  <2>1. Failed(url) \in FeedFetch /\ Page(url) \in FeedFetch
    BY <1>1 DEF Failed, Page, FeedFetch, FetchKind
  <2>2. NotModified(url) \in FeedFetch /\ Content(url) \in FeedFetch
    BY <1>1 DEF NotModified, Content, FeedFetch, FetchKind
  <2> QED
    BY <2>1, <2>2
<1>3. Conditional(url, validator) \subseteq FeedFetch
  BY <1>2 DEF Conditional
<1>4. Discovered(f, url) \subseteq FeedFetch
  <2>1. \A a \in Candidates[f] : a \in Address /\ version[a] \in 0 .. MaxVersion
    BY ConstantAssumption DEF TypeOK, Version
  <2>2. \A a \in Candidates[f] :
           [kind |-> "content", from |-> a, version |-> version[a], discovered |-> TRUE]
               \in FeedFetch
    BY <2>1 DEF FeedFetch, FetchKind
  <2> QED
    BY <2>2 DEF Discovered
<1>5. Refused(f, url) \subseteq FeedFetch
  BY <1>2, <1>4 DEF Refused
<1> QED
  BY <1>2, <1>3, <1>5 DEF FetchOutcomes

\* A download reads the address it was made for unless autodiscovery answered,
\* and "not modified" answers a validator that is either foreign or current.
LEMMA OutcomesConsistent ==
    ASSUME TypeOK, NEW f \in Feed, NEW t \in Task,
           NEW outcome \in FetchOutcomes(f, t.url, t.validator)
    PROVE  Consistent([t EXCEPT !.fetch = outcome])
<1> DEFINE u == [t EXCEPT !.fetch = outcome]
<1>1. u.url = t.url /\ u.validator = t.validator /\ u.fetch = outcome
  BY DEF Task
<1> DEFINE Right(o) ==
       /\ o.discovered \/ o.from = t.url
       /\ o.discovered => IsFeed(o)
       /\ o.kind = "not_modified" =>
             /\ o.from = t.url
             /\ t.validator # NoValidator
             /\ t.validator.from = t.url => t.validator.version = o.version
<1>2. Right(Failed(t.url)) /\ Right(Page(t.url)) /\ Right(Content(t.url))
  BY DEF Failed, Page, Content
<1>3. \A o \in Conditional(t.url, t.validator) : Right(o)
  BY <1>2 DEF Conditional, NotModified
<1>4. \A o \in Discovered(f, t.url) : Right(o)
  <2>1. \A a \in Candidates[f] : version[a] # 0
    BY ConstantAssumption DEF TypeOK, Version
  <2> QED
    BY <2>1 DEF Discovered, IsFeed
<1>5. \A o \in Refused(f, t.url) : Right(o)
  BY <1>2, <1>4 DEF Refused
<1>6. Right(outcome)
  BY <1>2, <1>3, <1>5 DEF FetchOutcomes
<1> QED
  BY <1>1, <1>6 DEF Consistent

-----------------------------------------------------------------------------
(* Rows.                                                                   *)

\* Storing an outcome leaves a well-formed row.
LEMMA StoredStateTyped ==
    ASSUME NEW state \in FeedState, NEW fetch \in FeedFetch
    PROVE  StoredState(state, fetch) \in FeedState
<1>1. FailuresAfter(state.failures, fetch) \in 0 .. BackoffFailures
  BY ConstantAssumption DEF FailuresAfter, Increment, FeedState, FeedFetch, FetchKind
<1>2. ResolvedAfter(state, fetch) \in Address \cup {NoAddress}
  BY DEF ResolvedAfter, FeedState, FeedFetch
<1>3. ValidatorAfter(state, fetch) \in Validator \cup {NoValidator}
  BY DEF ValidatorAfter, ValidatorOf, FeedState, FeedFetch, Validator
<1> QED
  BY <1>1, <1>2, <1>3 DEF StoredState, FeedState

\* A round asks for a known address.
LEMMA NewTaskTyped ==
    ASSUME TypeOK, NEW f \in Feed
    PROVE  NewTask(f) \in Task /\ NewTask(f) # NoTask /\ NewTask(f).fetch = NoFetch
<1>1. row[f].resolved \in Address \cup {NoAddress} /\ f \in Address
      /\ row[f].validator \in Validator \cup {NoValidator}
  BY ConstantAssumption DEF TypeOK, FeedState
<1>2. CurrentAddress(f) \in Address
  BY <1>1 DEF CurrentAddress
<1>3. NewTask(f) \in Task
  BY <1>1, <1>2 DEF NewTask, Task
<1>4. NoTask \notin Task
  BY ConstantAssumption DEF Task
<1> QED
  BY <1>3, <1>4 DEF NewTask

-----------------------------------------------------------------------------
(* The invariant is inductive.                                             *)

\* The initial states.
LEMMA InitIInv == Init => IInv
<1> SUFFICES ASSUME Init PROVE IInv
  OBVIOUS
<1> USE DEF Init
<1>1. TypeOK
  <2>1. site \in [Address -> SiteKind]
    BY ConstantAssumption
  <2>2. version \in [Address -> Version]
    BY ConstantAssumption DEF Version
  <2>3. row \in [Feed -> FeedState]
    BY ConstantAssumption DEF NewFeedState, FeedState
  <2>4. streak \in [Feed -> 0 .. BackoffFailures]
    BY ConstantAssumption
  <2> QED
    BY <2>1, <2>2, <2>3, <2>4 DEF TypeOK
<1>2. Alone /\ TasksOfRunning /\ TasksFresh /\ TasksConsistent
  BY DEF Alone, TasksOfRunning, TasksFresh, TasksConsistent
<1>3. ValidatorIngested /\ ValidatorOfCurrentAddress
  BY DEF ValidatorIngested, ValidatorOfCurrentAddress, NewFeedState
<1> QED
  BY <1>1, <1>2, <1>3 DEF IInv

\* What the sites do changes neither rows nor downloads.
LEMMA EnvironmentIInv ==
    ASSUME IInv, NEW a \in Address, SiteChanges(a) \/ Publish(a)
    PROVE  IInv'
<1>1. UNCHANGED <<row, ingested, running, task, history>>
  BY DEF SiteChanges, Publish
<1>2. TypeOK'
  <2>1. site' \in [Address -> SiteKind]
    BY ConstantAssumption DEF IInv, TypeOK, SiteChanges, Publish
  <2>2. version' \in [Address -> Version]
    BY ConstantAssumption DEF IInv, TypeOK, SiteChanges, Publish, Version
  <2> QED
    BY <1>1, <2>1, <2>2 DEF IInv, TypeOK, history
<1> QED
  BY <1>1, <1>2 DEF IInv, Alone, TasksOfRunning, TasksFresh, TasksConsistent,
     Consistent, ValidatorIngested, ValidatorOfCurrentAddress, CurrentAddress, history

\* The passing of time can only end a backoff.
LEMMA BackoffExpiresIInv ==
    ASSUME IInv, NEW f \in Feed, BackoffExpires(f)
    PROVE  IInv'
<1>1. UNCHANGED <<environment, ingested, running, task, history>>
  BY DEF BackoffExpires
<1>2. /\ row' \in [Feed -> FeedState]
      /\ \A g \in Feed : /\ row'[g].failures = row[g].failures
                         /\ row'[g].resolved = row[g].resolved
                         /\ row'[g].validator = row[g].validator
                         /\ row'[g].recent => row[g].recent
  <2>1. row \in [Feed -> FeedState]
    BY DEF IInv, TypeOK
  <2>2. row' = [row EXCEPT ![f] = [row[f] EXCEPT !.recent = FALSE]]
    BY DEF BackoffExpires
  <2> QED
    BY <2>1, <2>2 DEF FeedState
<1>3. TypeOK'
  BY <1>1, <1>2 DEF IInv, TypeOK, environment, history
<1>4. TasksFresh'
  BY <1>1, <1>2 DEF IInv, TasksFresh, InBackoff, CurrentAddress, history
<1> QED
  BY <1>1, <1>2, <1>3, <1>4 DEF IInv, Alone, TasksOfRunning, TasksConsistent,
     Consistent, ValidatorIngested, ValidatorOfCurrentAddress, CurrentAddress, history

\* Dropping downloads, and ending rounds that have none, disturbs nothing.
LEMMA DroppingIInv ==
    ASSUME IInv,
           UNCHANGED <<environment, row, ingested, history>>,
           running' \subseteq running,
           task' \in [Round -> [Feed -> Task \cup {NoTask}]],
           \A r \in Round, f \in Feed : task'[r][f] \in {task[r][f], NoTask},
           \A r \in Round \ running', f \in Feed : task'[r][f] = NoTask
    PROVE  IInv'
<1>1. TypeOK'
  BY DEF IInv, TypeOK, environment, history
<1>2. Alone' /\ TasksOfRunning'
  BY DEF IInv, Alone, TasksOfRunning, history
<1>3. TasksFresh'
  BY DEF IInv, TasksFresh, InBackoff, CurrentAddress, history
<1>4. TasksConsistent'
  BY DEF IInv, TasksConsistent, Consistent
<1>5. ValidatorIngested' /\ ValidatorOfCurrentAddress'
  BY DEF IInv, ValidatorIngested, ValidatorOfCurrentAddress, CurrentAddress, history
<1> QED
  BY <1>1, <1>2, <1>3, <1>4, <1>5 DEF IInv

\* The four actions that only drop.
LEMMA DropStepsIInv ==
    ASSUME IInv, NEW r \in Round,
           \/ EndRound(r)
           \/ Abandon(r)
           \/ \E f \in Feed : FetchRaises(r, f) \/ StoreFails(r, f)
    PROVE  IInv'
<1>0. task \in [Round -> [Feed -> Task \cup {NoTask}]] /\ TasksOfRunning
  BY DEF IInv, TypeOK
<1>1. CASE EndRound(r)
  BY <1>0, <1>1, DroppingIInv DEF EndRound, TasksOfRunning
<1>2. CASE Abandon(r)
  BY <1>0, <1>2, DroppingIInv DEF Abandon, TasksOfRunning
<1>3. ASSUME NEW f \in Feed, FetchRaises(r, f) \/ StoreFails(r, f)
      PROVE  IInv'
  BY <1>0, <1>3, DroppingIInv DEF FetchRaises, StoreFails, Drop, TasksOfRunning
<1> QED
  BY <1>1, <1>2, <1>3

\* A round starts from the rows as they are.
LEMMA StartRoundIInv ==
    ASSUME IInv, NEW r \in Round, StartRound(r)
    PROVE  IInv'
<1> USE DEF IInv
<1>1. /\ r \notin running
      /\ running' = running \cup {r}
      /\ overlapped' = (overlapped \/ running # {})
      /\ UNCHANGED <<environment, row, ingested, streak>>
      /\ task' = [task EXCEPT ![r] = [f \in Feed |-> JobFor(r, f)]]
  BY DEF StartRound
<1>2. \A f \in Feed : JobFor(r, f) \in {NewTask(f), NoTask}
  BY DEF JobFor
<1>3. \A f \in Feed : NewTask(f) \in Task /\ NewTask(f).fetch = NoFetch
  BY NewTaskTyped
<1>4. task' \in [Round -> [Feed -> Task \cup {NoTask}]]
  BY <1>1, <1>2, <1>3 DEF TypeOK
<1>5. \A s \in Round, f \in Feed :
         task'[s][f] = IF s = r THEN JobFor(r, f) ELSE task[s][f]
  BY <1>1 DEF TypeOK
<1>6. TypeOK'
  BY <1>1, <1>4 DEF TypeOK, environment
<1>7. Alone' /\ TasksOfRunning'
  <2>1. ~overlapped' => running' = {r}
    BY <1>1
  <2>2. Alone'
    BY <2>1 DEF Alone
  <2>3. \A s \in Round \ running' : s # r /\ s \in Round \ running
    BY <1>1
  <2> QED
    BY <1>5, <2>2, <2>3 DEF TasksOfRunning
<1>8. TasksFresh'
  <2> SUFFICES ASSUME ~overlapped', NEW s \in Round, NEW f \in Feed,
                      task'[s][f] # NoTask
               PROVE  /\ task'[s][f].url = CurrentAddress(f)
                      /\ task'[s][f].validator = row[f].validator
                      /\ s \notin RetryAll => ~InBackoff(row[f])
    BY <1>1 DEF TasksFresh, CurrentAddress, InBackoff
  <2>1. ~overlapped
    BY <1>1
  <2>2. CASE s = r
    <3>1. JobFor(s, f) # NoTask /\ task'[s][f] = JobFor(s, f)
      BY <1>5, <2>2
    <3>2. task'[s][f] = NewTask(f) /\ (s \notin RetryAll => ~InBackoff(row[f]))
      BY <3>1 DEF JobFor
    <3> QED
      BY <3>2 DEF NewTask
  <2>3. CASE s # r
    BY <1>5, <2>1, <2>3 DEF TasksFresh
  <2> QED
    BY <2>2, <2>3
<1>9. TasksConsistent'
  BY <1>2, <1>3, <1>5 DEF TasksConsistent, Consistent
<1>10. ValidatorIngested' /\ ValidatorOfCurrentAddress'
  BY <1>1 DEF ValidatorIngested, ValidatorOfCurrentAddress, CurrentAddress
<1> QED
  BY <1>6, <1>7, <1>8, <1>9, <1>10

\* A download ends.
LEMMA FetchIInv ==
    ASSUME IInv, NEW r \in Round, NEW f \in Feed, Fetch(r, f)
    PROVE  IInv'
<1> USE DEF IInv
<1>1. PICK outcome \in FetchOutcomes(f, task[r][f].url, task[r][f].validator) :
         task' = [task EXCEPT ![r][f].fetch = outcome]
  BY DEF Fetch
<1>2. task[r][f] # NoTask /\ UNCHANGED <<environment, row, ingested, running, history>>
  BY DEF Fetch
<1>3. task[r][f] \in Task
  BY <1>2 DEF TypeOK
<1> DEFINE t == [task[r][f] EXCEPT !.fetch = outcome]
<1>4. outcome \in FeedFetch
  BY <1>3, OutcomesTyped DEF Task
<1>5. t \in Task /\ t.url = task[r][f].url /\ t.validator = task[r][f].validator
  BY <1>3, <1>4 DEF Task
<1>6. Consistent(t)
  BY <1>3, OutcomesConsistent
<1>7. \A s \in Round, g \in Feed :
         task'[s][g] = IF s = r /\ g = f THEN t ELSE task[s][g]
  BY <1>1 DEF TypeOK
<1>8. task' \in [Round -> [Feed -> Task \cup {NoTask}]]
  BY <1>1, <1>5 DEF TypeOK
<1> HIDE DEF t
<1>9. TypeOK'
  BY <1>2, <1>8 DEF TypeOK, environment, history
<1>10. r \in running
  BY <1>2 DEF TasksOfRunning
<1>11. Alone' /\ TasksOfRunning'
  BY <1>2, <1>7, <1>10 DEF Alone, TasksOfRunning, history
<1>12. TasksFresh'
  BY <1>2, <1>5, <1>7 DEF TasksFresh, InBackoff, CurrentAddress, history
<1>13. TasksConsistent'
  BY <1>6, <1>7 DEF TasksConsistent
<1>14. ValidatorIngested' /\ ValidatorOfCurrentAddress'
  BY <1>2 DEF ValidatorIngested, ValidatorOfCurrentAddress, CurrentAddress, history
<1> QED
  BY <1>9, <1>11, <1>12, <1>13, <1>14

\* An outcome is stored: the one step that writes a row.
LEMMA StoreIInv ==
    ASSUME IInv, NEW r \in Round, NEW f \in Feed, Store(r, f)
    PROVE  IInv'
<1> USE DEF IInv
<1> DEFINE t == task[r][f]
           fetch == t.fetch
<1>1. /\ t # NoTask
      /\ fetch # NoFetch
      /\ row' = [row EXCEPT ![f] = StoredState(row[f], fetch)]
      /\ ingested' = [ingested EXCEPT ![f] =
            IF IsFeed(fetch) THEN ingested[f] \cup {ValidatorOf(fetch)} ELSE ingested[f]]
      /\ streak' = [streak EXCEPT ![f] =
            IF fetch.kind = "not_modified" \/ IsFeed(fetch)
            THEN 0 ELSE Increment(streak[f])]
      /\ task' = [task EXCEPT ![r][f] = NoTask]
      /\ UNCHANGED <<environment, running, overlapped>>
  BY DEF Store, Drop
<1>2. t \in Task /\ fetch \in FeedFetch /\ Consistent(t)
  BY <1>1 DEF TypeOK, Task, TasksConsistent
<1>3. \A s \in Round, g \in Feed :
         task'[s][g] = IF s = r /\ g = f THEN NoTask ELSE task[s][g]
  BY <1>1 DEF TypeOK
<1>4. /\ row' \in [Feed -> FeedState]
      /\ row'[f] = StoredState(row[f], fetch)
      /\ \A g \in Feed \ {f} : row'[g] = row[g]
  <2>1. row \in [Feed -> FeedState]
    BY DEF TypeOK
  <2>2. StoredState(row[f], fetch) \in FeedState
    BY <1>2, <2>1, StoredStateTyped
  <2> HIDE DEF fetch
  <2> QED
    BY <1>1, <2>1, <2>2
<1>5. ValidatorOf(fetch) \in Validator
  BY <1>2 DEF ValidatorOf, FeedFetch, Validator
<1>6. /\ \A g \in Feed : ingested[g] \subseteq ingested'[g]
      /\ IsFeed(fetch) => ValidatorOf(fetch) \in ingested'[f]
      /\ ingested' \in [Feed -> SUBSET Validator]
  BY <1>1, <1>5 DEF TypeOK
<1>7. streak' \in [Feed -> 0 .. BackoffFailures]
  <2>1. \A n \in 0 .. BackoffFailures : Increment(n) \in 0 .. BackoffFailures
    BY ConstantAssumption DEF Increment
  <2> QED
    BY <1>1, <2>1, ConstantAssumption DEF TypeOK
<1>8. task' \in [Round -> [Feed -> Task \cup {NoTask}]]
  BY <1>1 DEF TypeOK
<1> HIDE DEF t, fetch
<1>9. TypeOK'
  BY <1>1, <1>4, <1>6, <1>7, <1>8 DEF TypeOK, environment
<1>10. r \in running
  BY <1>1 DEF TasksOfRunning, t
<1>11. Alone' /\ TasksOfRunning'
  BY <1>1, <1>3 DEF Alone, TasksOfRunning
<1>12. TasksFresh'
  <2> SUFFICES ASSUME ~overlapped', NEW s \in Round, NEW g \in Feed,
                      task'[s][g] # NoTask
               PROVE  /\ task'[s][g].url = CurrentAddress(g)'
                      /\ task'[s][g].validator = row'[g].validator
                      /\ s \notin RetryAll => ~InBackoff(row'[g])
    BY DEF TasksFresh
  <2>1. ~overlapped /\ task'[s][g] = task[s][g] /\ ~(s = r /\ g = f)
    BY <1>1, <1>3
  <2>2. s = r
    BY <1>10, <2>1 DEF TasksOfRunning, Alone
  <2>3. row'[g] = row[g]
    BY <1>4, <2>1, <2>2
  <2> QED
    BY <2>1, <2>3 DEF TasksFresh, CurrentAddress
<1>13. TasksConsistent'
  BY <1>3 DEF TasksConsistent
<1>14. ValidatorIngested'
  <2> SUFFICES ASSUME NEW g \in Feed, row'[g].validator # NoValidator
               PROVE  row'[g].validator \in ingested'[g] /\ row'[g].validator.version # 0
    BY DEF ValidatorIngested
  <2>1. CASE row'[g].validator = row[g].validator
    BY <1>6, <2>1 DEF ValidatorIngested
  <2>2. CASE g = f /\ IsFeed(fetch) /\ row'[g].validator = ValidatorOf(fetch)
    BY <1>6, <2>2 DEF IsFeed, ValidatorOf
  <2> QED
    BY <1>4, <2>1, <2>2 DEF StoredState, ValidatorAfter
<1>15. ValidatorOfCurrentAddress'
  <2> SUFFICES ASSUME NEW g \in Feed, ~overlapped', row'[g].validator # NoValidator
               PROVE  row'[g].validator.from = CurrentAddress(g)'
    BY DEF ValidatorOfCurrentAddress
  <2>1. CASE g # f
    BY <1>1, <1>4, <2>1 DEF ValidatorOfCurrentAddress, CurrentAddress
  <2>2. CASE g = f
    <3>1. t.url = CurrentAddress(f)
      BY <1>1 DEF TasksFresh, t
    <3>2. /\ row'[f].validator = ValidatorAfter(row[f], fetch)
          /\ row'[f].resolved = ResolvedAfter(row[f], fetch)
      BY <1>4 DEF StoredState
    <3>3. CASE IsFeed(fetch)
      <4>1. row'[f].validator.from = fetch.from
        BY <3>2, <3>3 DEF ValidatorAfter, ValidatorOf
      <4>2. CASE fetch.discovered
        BY <1>2, <2>2, <3>2, <4>1, <4>2, ConstantAssumption
           DEF ResolvedAfter, CurrentAddress, FeedFetch
      <4>3. CASE ~fetch.discovered
        BY <1>2, <2>2, <3>1, <3>2, <4>1, <4>3
           DEF ResolvedAfter, CurrentAddress, Consistent, fetch
      <4> QED
        BY <4>2, <4>3
    <3>4. CASE ~IsFeed(fetch)
      <4>1. ~fetch.discovered
        BY <1>2, <3>4 DEF Consistent, IsFeed, fetch
      <4> QED
        BY <1>1, <2>2, <3>2, <3>4, <4>1
           DEF ValidatorAfter, ResolvedAfter, CurrentAddress, ValidatorOfCurrentAddress
    <3> QED
      BY <3>3, <3>4
  <2> QED
    BY <2>1, <2>2
<1> QED
  BY <1>9, <1>11, <1>12, <1>13, <1>14, <1>15

\* Every step preserves the invariant.
LEMMA NextIInv == IInv /\ [Next]_vars => IInv'
<1> SUFFICES ASSUME IInv, [Next]_vars PROVE IInv'
  OBVIOUS
<1>1. CASE \E a \in Address : SiteChanges(a) \/ Publish(a)
  BY <1>1, EnvironmentIInv
<1>2. CASE \E f \in Feed : BackoffExpires(f)
  BY <1>2, BackoffExpiresIInv
<1>3. ASSUME NEW r \in Round, RoundStep(r) PROVE IInv'
  BY <1>3, StartRoundIInv, DropStepsIInv, FetchIInv, StoreIInv DEF RoundStep
<1>4. CASE UNCHANGED vars
  BY <1>4 DEF vars, IInv, TypeOK, Alone, TasksOfRunning, TasksFresh, TasksConsistent,
     Consistent, ValidatorIngested, ValidatorOfCurrentAddress, CurrentAddress
<1> QED
  BY <1>1, <1>2, <1>3, <1>4 DEF Next

-----------------------------------------------------------------------------
(* The theorems.                                                           *)

\* The strengthening holds in every reachable state.
THEOREM Inductive == Spec => []IInv
BY InitIInv, NextIInv, PTL DEF Spec

\* Type correctness: in particular autodiscovery only ever leaves a known
\* address in resolved_url, and the count of failures stays in its range.
THEOREM TypeCorrect == Spec => []TypeOK
<1>1. IInv => TypeOK
  BY DEF IInv
<1> QED
  BY <1>1, Inductive, PTL

\* No validator outlives the loss of the content it stands for, with any
\* number of overlapping rounds, failures and restarts (store_feed, the commit
\* in ingest_all_feeds).
THEOREM ValidatorsIngested == Spec => []ValidatorIngested
<1>1. IInv => ValidatorIngested
  BY DEF IInv
<1> QED
  BY <1>1, Inductive, PTL

\* Without overlapping rounds every validator is sent to the address that
\* issued it (ingest_all_feeds, the snapshot of the states).
THEOREM ValidatorsOfCurrentAddress == Spec => []ValidatorOfCurrentAddress
<1>1. IInv => ValidatorOfCurrentAddress
  BY DEF IInv
<1> QED
  BY <1>1, Inductive, PTL

\* Without overlapping rounds a 304 always stands for stored articles
\* (fetch_feed_content, store_feed).
THEOREM NotModifiedIsSound == Spec => []NotModifiedHidesNothing
<1>1. IInv => NotModifiedHidesNothing
  <2> SUFFICES ASSUME IInv, NEW r \in Round, NEW f \in Feed, ~overlapped,
                      task[r][f] # NoTask, task[r][f].fetch # NoFetch,
                      task[r][f].fetch.kind = "not_modified"
               PROVE  ValidatorOf(task[r][f].fetch) \in ingested[f]
    BY DEF NotModifiedHidesNothing
  <2> DEFINE t == task[r][f]
  <2>1. t.validator = row[f].validator /\ t.url = CurrentAddress(f)
    BY DEF IInv, TasksFresh
  <2>2. t.fetch.from = t.url /\ t.validator # NoValidator
        /\ (t.validator.from = t.url => t.validator.version = t.fetch.version)
    BY DEF IInv, TasksConsistent, Consistent
  <2>3. row[f].validator.from = CurrentAddress(f) /\ row[f].validator \in ingested[f]
    BY <2>1, <2>2 DEF IInv, ValidatorOfCurrentAddress, ValidatorIngested
  <2>4. row[f].validator \in Validator
    BY <2>1, <2>2 DEF IInv, TypeOK, FeedState
  <2>5. ValidatorOf(t.fetch) = row[f].validator
    BY <2>1, <2>2, <2>3, <2>4 DEF ValidatorOf, Validator
  <2> QED
    BY <2>3, <2>5
<1> QED
  BY <1>1, Inductive, PTL

\* Without overlapping rounds a periodic round never downloads a feed in
\* backoff (in_backoff as read by ingest_all_feeds).
THEOREM BackoffIsHonoured == Spec => []BackoffHonoured
<1>1. IInv => BackoffHonoured
  BY DEF IInv, TasksFresh, BackoffHonoured
<1> QED
  BY <1>1, Inductive, PTL

-----------------------------------------------------------------------------
(* The collection as the rest of the program sees it: the refinement.      *)

\* A download of f comes from an address of f, and holds nothing unpublished.
Issued(f, fetch) ==
    /\ fetch.from \in AddressesOf[f]
    /\ fetch.discovered => fetch.from \in Candidates[f]
    /\ fetch.version <= version[fetch.from]

\* What autodiscovery left, and what is asked for and read since, is of the feed.
ResolvedOfFeed == \A f \in Feed : row[f].resolved \in Candidates[f] \cup {NoAddress}

TasksOfFeed ==
    \A r \in Round, f \in Feed : task[r][f] # NoTask =>
        /\ task[r][f].url \in AddressesOf[f]
        /\ task[r][f].fetch # NoFetch => Issued(f, task[r][f].fetch)

StoredWasPublished ==
    \A f \in Feed : \A c \in ingested[f] : c.version <= version[c.from]

\* A round that runs alone has nothing older at hand than what is stored.
NothingOlder ==
    ~overlapped =>
        \A r \in Round, f \in Feed :
            task[r][f] # NoTask /\ task[r][f].fetch # NoFetch /\ IsFeed(task[r][f].fetch) =>
                \A c \in ingested[f] :
                    c.from = task[r][f].fetch.from => c.version <= task[r][f].fetch.version

MirrorInv == ResolvedOfFeed /\ TasksOfFeed /\ StoredWasPublished /\ NothingOlder

LEMMA InitMirrorInv == Init => MirrorInv
BY DEF Init, NewFeedState, MirrorInv, ResolvedOfFeed, TasksOfFeed, StoredWasPublished, NothingOlder

\* What a site answers is what it has published by now.
LEMMA OutcomesIssued ==
    ASSUME TypeOK, NEW f \in Feed, NEW url \in AddressesOf[f], NEW validator,
           NEW outcome \in FetchOutcomes(f, url, validator)
    PROVE  Issued(f, outcome) /\ (IsFeed(outcome) => outcome.version = version[outcome.from])
<1> DEFINE Right(o) == Issued(f, o) /\ (IsFeed(o) => o.version = version[o.from])
<1>1. AddressesOf[f] = {f} \cup Candidates[f] /\ AddressesOf[f] \subseteq Address
  BY ConstantAssumption DEF AddressesOf
<1>2. \A a \in Address : version[a] \in Nat /\ 0 <= version[a]
  BY ConstantAssumption DEF TypeOK, Version
<1>3. Right(Failed(url)) /\ Right(Page(url)) /\ Right(Content(url)) /\ Right(NotModified(url))
  BY <1>1, <1>2 DEF Failed, Page, Content, NotModified, Issued, IsFeed
<1>4. \A o \in Conditional(url, validator) : Right(o)
  BY <1>3 DEF Conditional
<1>5. \A o \in Discovered(f, url) : Right(o)
  <2> SUFFICES ASSUME NEW a \in Candidates[f]
               PROVE  Right([kind |-> "content", from |-> a, version |-> version[a],
                             discovered |-> TRUE])
    BY DEF Discovered
  <2> QED
    BY <1>1, <1>2 DEF Issued
<1>6. \A o \in Refused(f, url) : Right(o)
  BY <1>3, <1>5 DEF Refused
<1> HIDE DEF Right
<1>7. Right(outcome)
  BY <1>3, <1>4, <1>6 DEF FetchOutcomes
<1> QED
  BY <1>7 DEF Right

LEMMA EnvironmentMirrorInv ==
    ASSUME IInv, MirrorInv,
           \/ \E a \in Address : SiteChanges(a) \/ Publish(a)
           \/ \E f \in Feed : BackoffExpires(f)
    PROVE  MirrorInv'
<1>1. UNCHANGED <<ingested, task, overlapped>>
  BY DEF SiteChanges, Publish, BackoffExpires, history
<1>2. \A a \in Address : version[a] \in Nat /\ version'[a] \in Nat /\ version[a] <= version'[a]
  <2>1. version \in [Address -> Nat]
    BY ConstantAssumption DEF IInv, TypeOK, Version
  <2> QED
    BY <2>1 DEF SiteChanges, Publish, BackoffExpires, environment
<1>3. \A f \in Feed : row'[f].resolved = row[f].resolved
  BY DEF SiteChanges, Publish, BackoffExpires, IInv, TypeOK, FeedState
<1>4. ResolvedOfFeed'
  BY <1>3 DEF MirrorInv, ResolvedOfFeed
<1>5. TasksOfFeed'
  <2> SUFFICES ASSUME NEW r \in Round, NEW f \in Feed, task[r][f] # NoTask,
                      task[r][f].fetch # NoFetch
               PROVE  task[r][f].fetch.version <= version'[task[r][f].fetch.from]
    BY <1>1 DEF MirrorInv, TasksOfFeed, Issued
  <2>1. task[r][f].fetch \in FeedFetch
    BY DEF IInv, TypeOK, Task
  <2>2. task[r][f].fetch.version \in Nat /\ task[r][f].fetch.from \in Address
    BY <2>1, ConstantAssumption DEF FeedFetch
  <2>3. task[r][f].fetch.version <= version[task[r][f].fetch.from]
    BY DEF MirrorInv, TasksOfFeed, Issued
  <2> QED
    BY <1>2, <2>2, <2>3
<1>6. StoredWasPublished'
  <2> SUFFICES ASSUME NEW f \in Feed, NEW c \in ingested[f]
               PROVE  c.version <= version'[c.from]
    BY <1>1 DEF StoredWasPublished
  <2>1. c.version \in Nat /\ c.from \in Address
    BY ConstantAssumption DEF IInv, TypeOK, Validator
  <2>2. c.version <= version[c.from]
    BY DEF MirrorInv, StoredWasPublished
  <2> QED
    BY <1>2, <2>1, <2>2
<1>7. NothingOlder'
  BY <1>1 DEF MirrorInv, NothingOlder
<1> QED
  BY <1>4, <1>5, <1>6, <1>7 DEF MirrorInv

\* What is dropped was of the feed too.
LEMMA DropStepsMirrorInv ==
    ASSUME IInv, MirrorInv, NEW r \in Round,
           \/ EndRound(r)
           \/ Abandon(r)
           \/ \E f \in Feed : FetchRaises(r, f) \/ StoreFails(r, f)
    PROVE  MirrorInv' /\ UNCHANGED <<version, ingested, row, overlapped>>
<1>1. UNCHANGED <<version, ingested, row, overlapped>>
  BY DEF EndRound, Abandon, FetchRaises, StoreFails, environment, history
<1>2. \A s \in Round, f \in Feed : task'[s][f] \in {task[s][f], NoTask}
  BY DEF EndRound, Abandon, FetchRaises, StoreFails, Drop, IInv, TypeOK
<1>3. ResolvedOfFeed' /\ StoredWasPublished'
  BY <1>1 DEF MirrorInv, ResolvedOfFeed, StoredWasPublished
<1>4. TasksOfFeed'
  BY <1>1, <1>2 DEF MirrorInv, TasksOfFeed, Issued
<1>5. NothingOlder'
  BY <1>1, <1>2 DEF MirrorInv, NothingOlder
<1> QED
  BY <1>1, <1>3, <1>4, <1>5 DEF MirrorInv

LEMMA StartRoundMirrorInv ==
    ASSUME IInv, MirrorInv, NEW r \in Round, StartRound(r)
    PROVE  MirrorInv' /\ UNCHANGED <<version, ingested, row>> /\ overlapped' \in {overlapped, TRUE}
<1>1. UNCHANGED <<version, ingested, row>> /\ overlapped' \in {overlapped, TRUE}
  BY DEF StartRound, environment, IInv, TypeOK
<1>2. \A s \in Round, f \in Feed : task'[s][f] = IF s = r THEN JobFor(r, f) ELSE task[s][f]
  BY DEF StartRound, IInv, TypeOK
<1>3. \A f \in Feed : JobFor(r, f) # NoTask =>
         JobFor(r, f).fetch = NoFetch /\ JobFor(r, f).url = CurrentAddress(f)
  BY DEF JobFor, NewTask
<1>4. \A f \in Feed : CurrentAddress(f) \in AddressesOf[f]
  BY DEF MirrorInv, ResolvedOfFeed, CurrentAddress, AddressesOf
<1>5. ResolvedOfFeed' /\ StoredWasPublished'
  BY <1>1 DEF MirrorInv, ResolvedOfFeed, StoredWasPublished
<1>6. TasksOfFeed'
  BY <1>1, <1>2, <1>3, <1>4 DEF MirrorInv, TasksOfFeed, Issued
<1>7. NothingOlder'
  BY <1>1, <1>2, <1>3 DEF MirrorInv, NothingOlder, IsFeed
<1> QED
  BY <1>1, <1>5, <1>6, <1>7 DEF MirrorInv

LEMMA FetchMirrorInv ==
    ASSUME IInv, MirrorInv, NEW r \in Round, NEW f \in Feed, Fetch(r, f)
    PROVE  MirrorInv' /\ UNCHANGED <<version, ingested, row, overlapped>>
<1>1. UNCHANGED <<version, ingested, row, overlapped>>
  BY DEF Fetch, environment, history
<1>2. PICK outcome \in FetchOutcomes(f, task[r][f].url, task[r][f].validator) :
         task' = [task EXCEPT ![r][f].fetch = outcome]
  BY DEF Fetch
<1>3. task[r][f] # NoTask /\ task[r][f] \in Task /\ task[r][f].url \in AddressesOf[f]
  BY DEF Fetch, IInv, TypeOK, MirrorInv, TasksOfFeed
<1>4. Issued(f, outcome) /\ (IsFeed(outcome) => outcome.version = version[outcome.from])
  BY <1>3, OutcomesIssued DEF IInv
<1>5. /\ \A s \in Round, g \in Feed : s # r \/ g # f => task'[s][g] = task[s][g]
      /\ task'[r][f].fetch = outcome /\ task'[r][f].url = task[r][f].url
  BY <1>2, <1>3 DEF IInv, TypeOK, Task
<1>6. ResolvedOfFeed' /\ StoredWasPublished'
  BY <1>1 DEF MirrorInv, ResolvedOfFeed, StoredWasPublished
<1>7. TasksOfFeed'
  BY <1>1, <1>3, <1>4, <1>5 DEF MirrorInv, TasksOfFeed, Issued
<1>8. NothingOlder'
  <2> SUFFICES ASSUME ~overlapped, NEW s \in Round, NEW g \in Feed, task'[s][g] # NoTask,
                      task'[s][g].fetch # NoFetch, IsFeed(task'[s][g].fetch),
                      NEW c \in ingested[g], c.from = task'[s][g].fetch.from
               PROVE  c.version <= task'[s][g].fetch.version
    BY <1>1 DEF NothingOlder, IsFeed
  <2>1. CASE s = r /\ g = f
    BY <1>4, <1>5, <2>1 DEF MirrorInv, StoredWasPublished
  <2>2. CASE s # r \/ g # f
    BY <1>5, <2>2 DEF MirrorInv, NothingOlder
  <2> QED
    BY <2>1, <2>2
<1> QED
  BY <1>1, <1>6, <1>7, <1>8 DEF MirrorInv

\* The one step that stores: of a feed, a Copy; of anything else, nothing to see.
LEMMA StoreMirrors ==
    ASSUME IInv, MirrorInv, NEW r \in Round, NEW f \in Feed, Store(r, f)
    PROVE  MirrorInv' /\ [Mirror!Next]_(Mirror!mirrored)
<1> DEFINE fetch == task[r][f].fetch
           c == ValidatorOf(fetch)
<1>1. /\ task[r][f] # NoTask /\ fetch # NoFetch
      /\ row' = [row EXCEPT ![f] = StoredState(row[f], fetch)]
      /\ ingested' = [ingested EXCEPT ![f] = IF IsFeed(fetch) THEN @ \cup {c} ELSE @]
      /\ task' = [task EXCEPT ![r][f] = NoTask]
      /\ UNCHANGED <<version, overlapped, running>>
  BY DEF Store, Drop, environment
<1>2. task[r][f] \in Task /\ fetch \in FeedFetch
  BY <1>1 DEF IInv, TypeOK, Task
<1>3. Issued(f, fetch) /\ c.from = fetch.from /\ c.version = fetch.version
  BY <1>1 DEF MirrorInv, TasksOfFeed, ValidatorOf
<1>4. /\ \A g \in Feed \ {f} : row'[g] = row[g] /\ ingested'[g] = ingested[g]
      /\ row'[f].resolved = (IF fetch.discovered THEN fetch.from ELSE row[f].resolved)
      /\ row'[f].validator = (IF IsFeed(fetch) THEN c ELSE row[f].validator)
      /\ ingested'[f] = (IF IsFeed(fetch) THEN ingested[f] \cup {c} ELSE ingested[f])
  BY <1>1 DEF IInv, TypeOK, StoredState, ResolvedAfter, ValidatorAfter
<1>5. \A s \in Round, g \in Feed : task'[s][g] = IF s = r /\ g = f THEN NoTask ELSE task[s][g]
  BY <1>1 DEF IInv, TypeOK
<1>6. r \in running
  BY <1>1 DEF IInv, TasksOfRunning
<1> HIDE DEF fetch, c
<1>7. MirrorInv'
  <2>1. ResolvedOfFeed'
    BY <1>3, <1>4 DEF MirrorInv, ResolvedOfFeed, Issued
  <2>2. TasksOfFeed'
    BY <1>1, <1>5 DEF MirrorInv, TasksOfFeed, Issued
  <2>3. StoredWasPublished'
    BY <1>1, <1>3, <1>4 DEF MirrorInv, StoredWasPublished, Issued
  <2>4. NothingOlder'
    <3> SUFFICES ASSUME ~overlapped, NEW s \in Round, NEW g \in Feed, task'[s][g] # NoTask,
                        task'[s][g].fetch # NoFetch, IsFeed(task'[s][g].fetch)
                 PROVE  \A old \in ingested'[g] : old.from = task'[s][g].fetch.from
                            => old.version <= task'[s][g].fetch.version
      BY <1>1 DEF NothingOlder, IsFeed
    <3>1. task'[s][g] = task[s][g] /\ s = r
      BY <1>5, <1>6 DEF IInv, Alone, TasksOfRunning
    <3>2. g # f
      BY <1>5, <3>1
    <3> QED
      BY <1>4, <3>1, <3>2 DEF MirrorInv, NothingOlder
  <2> QED
    BY <2>1, <2>2, <2>3, <2>4 DEF MirrorInv
<1>8. CASE IsFeed(fetch)
  <2>1. fetch.from \in AddressesOf[f] /\ fetch.version \in 1 .. version[fetch.from]
    <3>1. fetch.version \in Nat /\ fetch.version # 0
      BY <1>2, <1>8, ConstantAssumption DEF FeedFetch, IsFeed
    <3>2. version[fetch.from] \in Nat /\ fetch.version <= version[fetch.from]
      BY <1>2, <1>3, ConstantAssumption DEF Issued, IInv, TypeOK, Version, FeedFetch
    <3> QED
      BY <1>3, <3>1, <3>2 DEF Issued
  <2>2. ~overlapped => \A old \in ingested[f] : old.from = fetch.from => old.version <= fetch.version
    BY <1>1, <1>8 DEF MirrorInv, NothingOlder, fetch
  <2>3. c = [from |-> fetch.from, version |-> fetch.version]
    BY DEF c, ValidatorOf
  <2>4. ingested' = [ingested EXCEPT ![f] = @ \cup {[from |-> fetch.from, version |-> fetch.version]}]
    BY <1>1, <1>8, <2>3
  <2>5. [g \in Feed |-> row'[g].validator]
            = [[g \in Feed |-> row[g].validator] EXCEPT
                  ![f] = [from |-> fetch.from, version |-> fetch.version]]
    BY <1>4, <1>8, <2>3
  <2>6. Mirror!Copy(f)
    BY <1>1, <2>1, <2>2, <2>4, <2>5 DEF Mirror!Copy
  <2> QED
    BY <1>7, <2>6 DEF Mirror!Next
<1>9. CASE ~ IsFeed(fetch)
  <2>1. ingested' = ingested
    BY <1>1, <1>9 DEF IInv, TypeOK
  <2>2. [g \in Feed |-> row'[g].validator] = [g \in Feed |-> row[g].validator]
    BY <1>4, <1>9
  <2> QED
    BY <1>1, <1>7, <2>1, <2>2 DEF Mirror!mirrored
<1> QED
  BY <1>8, <1>9

LEMMA StepMirrors ==
    IInv /\ MirrorInv /\ [Next]_vars => MirrorInv' /\ [Mirror!Next]_(Mirror!mirrored)
<1> SUFFICES ASSUME IInv, MirrorInv, [Next]_vars
             PROVE  MirrorInv' /\ [Mirror!Next]_(Mirror!mirrored)
  OBVIOUS
<1>1. ASSUME NEW a \in Address, SiteChanges(a)
      PROVE  MirrorInv' /\ [Mirror!Next]_(Mirror!mirrored)
  BY <1>1, EnvironmentMirrorInv DEF SiteChanges, history, Mirror!mirrored
<1>2. ASSUME NEW a \in Address, Publish(a)
      PROVE  MirrorInv' /\ [Mirror!Next]_(Mirror!mirrored)
  <2>1. Mirror!Publish(a)
    BY <1>2 DEF Publish, history, Mirror!Publish
  <2> QED
    BY <1>2, <2>1, EnvironmentMirrorInv DEF Mirror!Next
<1>3. ASSUME NEW f \in Feed, BackoffExpires(f)
      PROVE  MirrorInv' /\ [Mirror!Next]_(Mirror!mirrored)
  <2>1. [g \in Feed |-> row'[g].validator] = [g \in Feed |-> row[g].validator]
    BY <1>3 DEF BackoffExpires, IInv, TypeOK, FeedState
  <2> QED
    BY <1>3, <2>1, EnvironmentMirrorInv DEF BackoffExpires, environment, history, Mirror!mirrored
<1>4. ASSUME NEW r \in Round, StartRound(r)
      PROVE  MirrorInv' /\ [Mirror!Next]_(Mirror!mirrored)
  <2>1. MirrorInv' /\ UNCHANGED <<version, ingested, row>> /\ overlapped' \in {overlapped, TRUE}
    BY <1>4, StartRoundMirrorInv
  <2>2. CASE overlapped' = overlapped
    BY <2>1, <2>2 DEF Mirror!mirrored
  <2>3. CASE overlapped' = TRUE
    <3>1. Mirror!Crowd
      BY <2>1, <2>3 DEF Mirror!Crowd
    <3> QED
      BY <2>1, <3>1 DEF Mirror!Next
  <2> QED
    BY <2>1, <2>2, <2>3
<1>5. ASSUME NEW r \in Round,
             EndRound(r) \/ Abandon(r) \/ \E f \in Feed : FetchRaises(r, f) \/ StoreFails(r, f)
      PROVE  MirrorInv' /\ [Mirror!Next]_(Mirror!mirrored)
  BY <1>5, DropStepsMirrorInv DEF Mirror!mirrored
<1>6. ASSUME NEW r \in Round, NEW f \in Feed, Fetch(r, f)
      PROVE  MirrorInv' /\ [Mirror!Next]_(Mirror!mirrored)
  BY <1>6, FetchMirrorInv DEF Mirror!mirrored
<1>7. ASSUME NEW r \in Round, NEW f \in Feed, Store(r, f)
      PROVE  MirrorInv' /\ [Mirror!Next]_(Mirror!mirrored)
  BY <1>7, StoreMirrors
<1>8. CASE UNCHANGED vars
  <2>1. UNCHANGED <<version, ingested, row, overlapped, task>>
    BY <1>8 DEF vars
  <2>2. MirrorInv'
    BY <2>1 DEF MirrorInv, ResolvedOfFeed, TasksOfFeed, Issued, StoredWasPublished, NothingOlder
  <2> QED
    BY <2>1, <2>2 DEF Mirror!mirrored
<1> QED
  BY <1>1, <1>2, <1>3, <1>4, <1>5, <1>6, <1>7, <1>8 DEF Next, RoundStep

\* The collection as its readers see it (ingest_all_feeds, store_feed): what is stored of
\* a feed had been published at an address of its own, nothing stored is lost, the
\* validator moves only together with what is stored, and while rounds do not overlap
\* nothing older is stored after something newer of the same address.
THEOREM MirrorImplemented == Spec => Mirrored
<1>1. Init => Mirror!Init
  BY DEF Init, NewFeedState, Mirror!Init
<1> QED
  BY <1>1, Inductive, InitMirrorInv, StepMirrors, PTL
     DEF Spec, Mirrored, Mirror!Spec

-----------------------------------------------------------------------------
(* The limiter of the requests, for any number of coroutines, limiters and *)
(* hosts, and any intervals.                                               *)
(*                                                                         *)
(* The argument: a sleeping coroutine holds the lock of its host, so it is *)
(* the only one asleep for it, and no other coroutine can be let through   *)
(* while it sleeps; what is left of its sleep and what has passed since    *)
(* the last permission therefore always make up the interval.              *)

\* The part of LimiterTypeOK the argument needs.
LimiterTyped ==
    /\ pc \in [Coroutine -> Location]
    /\ host \in [Coroutine -> Host]
    /\ left \in [Coroutine -> Nat]
    /\ holder \in [Limiter -> [Host -> Coroutine \cup {Nobody}]]
    /\ elapsed \in [Limiter -> [Host -> Nat]]

SleepersHoldLocks ==
    \A t \in Coroutine : pc[t] = "sleeping" => holder[LimiterOf[t]][host[t]] = t

SleepsSuffice ==
    \A t \in Coroutine : pc[t] = "sleeping" =>
        left[t] + elapsed[LimiterOf[t]][host[t]] >= Interval[host[t]]

LimiterInv == LimiterTyped /\ SleepersHoldLocks /\ SleepsSuffice

\* A limiter starts with no one asleep.
LEMMA InitLimiterInv == LimiterInit => LimiterInv
BY LimiterAssumption
   DEF LimiterInit, LimiterInv, LimiterTyped, Location, SleepersHoldLocks, SleepsSuffice

\* Time that passes takes from a sleep what it adds to the time elapsed.
LEMMA TickLimiterInv == LimiterInv /\ Tick => LimiterInv'
<1> SUFFICES ASSUME LimiterInv, Tick PROVE LimiterInv'
    OBVIOUS
<1> USE LimiterAssumption DEF LimiterInv, Tick, Up, Down
<1>1. LimiterTyped'
    BY DEF LimiterTyped
<1>2. SleepersHoldLocks'
    BY DEF SleepersHoldLocks
<1>3. SleepsSuffice'
    <2> SUFFICES ASSUME NEW t \in Coroutine, pc'[t] = "sleeping"
                 PROVE  left'[t] + elapsed'[LimiterOf[t]][host'[t]] >= Interval[host'[t]]
        BY DEF SleepsSuffice
    <2>1. left[t] + elapsed[LimiterOf[t]][host[t]] >= Interval[host[t]]
        BY DEF SleepsSuffice
    <2>2. /\ LimiterOf[t] \in Limiter /\ host[t] \in Host /\ host'[t] = host[t]
          /\ left[t] \in Nat /\ elapsed[LimiterOf[t]][host[t]] \in Nat
          /\ Interval[host[t]] \in Nat
        BY DEF LimiterTyped
    <2>3. /\ left'[t] = (IF left[t] > 0 THEN left[t] - 1 ELSE left[t])
          /\ elapsed'[LimiterOf[t]][host[t]] =
                (IF elapsed[LimiterOf[t]][host[t]] < Interval[host[t]]
                 THEN elapsed[LimiterOf[t]][host[t]] + 1
                 ELSE elapsed[LimiterOf[t]][host[t]])
        BY <2>2
    <2> QED
        BY <2>1, <2>2, <2>3
<1> QED
    BY <1>1, <1>2, <1>3

\* A coroutine that joins a queue, or whose request is over, was not asleep.
LEMMA CallLimiterInv == ASSUME NEW t \in Coroutine, NEW h \in Host, LimiterInv, Call(t, h) PROVE LimiterInv'
BY LimiterAssumption
   DEF LimiterInv, LimiterTyped, Location, SleepersHoldLocks, SleepsSuffice, Call

LEMMA AnsweredLimiterInv == ASSUME NEW t \in Coroutine, LimiterInv, Answered(t) PROVE LimiterInv'
BY LimiterAssumption
   DEF LimiterInv, LimiterTyped, Location, SleepersHoldLocks, SleepsSuffice, Answered

\* Whoever takes the lock finds no one asleep for the host, and sleeps for
\* what is missing or is let through.
LEMMA AcquireLimiterInv == ASSUME NEW t \in Coroutine, LimiterInv, Acquire(t) PROVE LimiterInv'
<1> USE LimiterAssumption DEF LimiterInv
<1> DEFINE l == LimiterOf[t]
<1>1. /\ pc[t] = "queued" /\ holder[l][host[t]] = Nobody
      /\ l \in Limiter /\ host[t] \in Host /\ t # Nobody
      /\ host' = host
    BY DEF Acquire, LimiterTyped
<1>2. CASE Remaining(t) > 0
    <2>1. /\ pc' = [pc EXCEPT ![t] = "sleeping"]
          /\ left' = [left EXCEPT ![t] = Remaining(t)]
          /\ holder' = [holder EXCEPT ![l][host[t]] = t]
          /\ elapsed' = elapsed
        BY <1>2 DEF Acquire, TakeLock, Remaining, LimiterTyped
    <2>2. Remaining(t) \in Nat /\ Remaining(t) + elapsed[l][host[t]] = Interval[host[t]]
        BY <1>1, <1>2 DEF Remaining, LimiterTyped
    <2>3. LimiterTyped'
        BY <1>1, <2>1, <2>2 DEF LimiterTyped, Location
    <2>4. SleepersHoldLocks'
        BY <1>1, <2>1 DEF SleepersHoldLocks, LimiterTyped
    <2>5. SleepsSuffice'
        BY <1>1, <2>1, <2>2 DEF SleepsSuffice, LimiterTyped
    <2> QED
        BY <2>3, <2>4, <2>5
<1>3. CASE ~(Remaining(t) > 0)
    <2>1. /\ pc' = [pc EXCEPT ![t] = "requesting"]
          /\ elapsed' = [elapsed EXCEPT ![l][host[t]] = 0]
          /\ left' = left /\ holder' = holder
        BY <1>3 DEF Acquire, Permit
    <2>2. LimiterTyped'
        BY <1>1, <2>1 DEF LimiterTyped, Location
    <2>3. SleepersHoldLocks'
        BY <1>1, <2>1 DEF SleepersHoldLocks, LimiterTyped
    <2>4. SleepsSuffice'
        BY <1>1, <2>1 DEF SleepsSuffice, SleepersHoldLocks, LimiterTyped
    <2> QED
        BY <2>2, <2>3, <2>4
<1> QED
    BY <1>2, <1>3

\* Whoever wakes was the only one asleep for its host.
LEMMA WakeLimiterInv == ASSUME NEW t \in Coroutine, LimiterInv, Wake(t) PROVE LimiterInv'
<1> USE LimiterAssumption DEF LimiterInv
<1> DEFINE l == LimiterOf[t]
<1>1. /\ pc[t] = "sleeping" /\ holder[l][host[t]] = t
      /\ l \in Limiter /\ host[t] \in Host /\ t # Nobody
      /\ host' = host /\ left' = left
    BY DEF Wake, LimiterTyped, SleepersHoldLocks
<1>2. /\ pc' = [pc EXCEPT ![t] = "requesting"]
      /\ elapsed' = [elapsed EXCEPT ![l][host[t]] = 0]
      /\ holder' = [holder EXCEPT ![l][host[t]] = Nobody]
    BY <1>1 DEF Wake, Permit, ReleaseLock, LimiterTyped
<1>3. LimiterTyped'
    BY <1>1, <1>2 DEF LimiterTyped, Location
<1>4. SleepersHoldLocks'
    BY <1>1, <1>2 DEF SleepersHoldLocks, LimiterTyped
<1>5. SleepsSuffice'
    BY <1>1, <1>2 DEF SleepsSuffice, SleepersHoldLocks, LimiterTyped
<1> QED
    BY <1>3, <1>4, <1>5

\* Whoever is cancelled gives up no lock but its own.
LEMMA CancelLimiterInv == ASSUME NEW t \in Coroutine, LimiterInv, Cancel(t) PROVE LimiterInv'
<1> USE LimiterAssumption DEF LimiterInv
<1> DEFINE l == LimiterOf[t]
<1>1. /\ l \in Limiter /\ host[t] \in Host
      /\ host' = host /\ left' = left /\ elapsed' = elapsed
      /\ pc' = [pc EXCEPT ![t] = "idle"]
    BY DEF Cancel, LimiterTyped
<1>2. holder' = [holder EXCEPT ![l][host[t]] =
                    IF holder[l][host[t]] = t THEN Nobody ELSE holder[l][host[t]]]
    BY DEF Cancel, ReleaseLock
<1>3. LimiterTyped'
    BY <1>1, <1>2 DEF LimiterTyped, Location
<1>4. SleepersHoldLocks'
    BY <1>1, <1>2 DEF SleepersHoldLocks, LimiterTyped
<1>5. SleepsSuffice'
    BY <1>1, <1>2 DEF SleepsSuffice, LimiterTyped
<1> QED
    BY <1>3, <1>4, <1>5

LEMMA NextLimiterInv == LimiterInv /\ [LimiterNext]_limiterVars => LimiterInv'
<1> SUFFICES ASSUME LimiterInv, [LimiterNext]_limiterVars PROVE LimiterInv'
    OBVIOUS
<1>1. CASE Tick
    BY <1>1, TickLimiterInv
<1>2. ASSUME NEW t \in Coroutine, TaskStep(t) PROVE LimiterInv'
    BY <1>2, CallLimiterInv, AcquireLimiterInv, WakeLimiterInv, CancelLimiterInv, AnsweredLimiterInv DEF TaskStep
<1>3. CASE UNCHANGED limiterVars
    BY <1>3 DEF limiterVars, LimiterInv, LimiterTyped, SleepersHoldLocks, SleepsSuffice
<1> QED
    BY <1>1, <1>2, <1>3 DEF LimiterNext

THEOREM LimiterInductive == LimiterSpec => []LimiterInv
<1> QED
    BY InitLimiterInv, NextLimiterInv, PTL DEF LimiterSpec

\* A step lets a coroutine through only if the interval has passed.
LEMMA StepsAreSpaced ==
    ASSUME LimiterInv, [LimiterNext]_limiterVars, NEW t \in Coroutine,
           pc[t] # "requesting", pc'[t] = "requesting"
    PROVE  elapsed[LimiterOf[t]][host[t]] >= Interval[host[t]]
<1> USE LimiterAssumption DEF LimiterInv
<1>1. PICK u \in Coroutine : TaskStep(u)
    BY DEF LimiterNext, Tick, limiterVars
<1>2. CASE Acquire(u)
    BY <1>2 DEF Acquire, Permit, Remaining, LimiterTyped, Location
<1>3. CASE Wake(u)
    BY <1>3 DEF Wake, Permit, SleepsSuffice, LimiterTyped, Location
<1>4. CASE (\E h \in Host : Call(u, h)) \/ Cancel(u) \/ Answered(u)
    BY <1>4 DEF Call, Cancel, Answered, LimiterTyped
<1> QED
    BY <1>1, <1>2, <1>3, <1>4 DEF TaskStep

\* Any two permissions of one limiter for one host are at least the interval
\* apart.
THEOREM RequestsSpaced == LimiterSpec => Spaced
<1>1. LimiterInv /\ [LimiterNext]_limiterVars =>
        [\A t \in Coroutine : pc[t] # "requesting" /\ pc'[t] = "requesting" =>
            elapsed[LimiterOf[t]][host[t]] >= Interval[host[t]]]_limiterVars
    BY StepsAreSpaced
<1> QED
    BY <1>1, LimiterInductive, PTL DEF LimiterSpec, Spaced

-----------------------------------------------------------------------------
(* The pages: FullTexts and the cache of robots.txt it goes through.       *)
(* fetch_fulltext_job keeps nothing uncommitted while it waits, and how    *)
(* long a permission can last rests on when its load began.                *)

\* A host that lets pages be read does so now; nobody did in the future.
LenientNow ==
    \A h \in Server : lenient[h] <= now /\ (rule[h] # "forbids" => lenient[h] = now)

\* Loads have begun.
Begun == \A t \in Caller : asking[t] # NoAsk => asking[t].start <= now

\* An answer that permits was true when it was heard, after its load began.
HeardInTime ==
    \A t \in Caller : asking[t] # NoAsk /\ asking[t].heard = "allows"
        => lenient[asking[t].host] >= asking[t].start

\* A permission that is kept was true at its stamp, or later.
KeptInTime ==
    \A c \in Cache, h \in Server : entry[c][h] # NoEntry /\ entry[c][h].allows
        => lenient[h] >= entry[c][h].time

CacheInv == CacheTypeOK /\ LenientNow /\ Begun /\ HeardInTime /\ KeptInTime

LEMMA TimeIsNat == Time \subseteq Nat /\ 0 \in Time
  BY CacheAssumption DEF Time

LEMMA CacheInitInv == CacheInit => CacheInv
  BY TimeIsNat DEF CacheInit, CacheInv, CacheTypeOK, LenientNow, Begun, HeardInTime,
     KeptInTime, Rule

LEMMA AskTyped ==
    ASSUME CacheInv, NEW t \in Caller, asking[t] # NoAsk
    PROVE  /\ asking[t] \in Asking /\ asking[t].host \in Server
           /\ asking[t].start \in Time /\ asking[t].start \in Nat
<1>1. asking[t] \in Asking
  BY DEF CacheInv, CacheTypeOK
<1> QED
  BY <1>1, TimeIsNat DEF Asking

LEMMA EntryTyped ==
    ASSUME CacheInv, NEW c \in Cache, NEW h \in Server, entry[c][h] # NoEntry
    PROVE  /\ entry[c][h] \in Entry
           /\ entry[c][h].time \in Nat /\ entry[c][h].allows \in BOOLEAN
<1>1. entry[c][h] \in Entry
  BY DEF CacheInv, CacheTypeOK
<1> QED
  BY <1>1, TimeIsNat DEF Entry

\* The hosts become more lenient with time, and what was true stays true.
LEMMA LaterInv ==
    ASSUME CacheInv, now' \in Time, now' >= now, UNCHANGED <<entry, asking>>,
           lenient' \in [Server -> Time], rule' \in [Server -> Rule],
           \A h \in Server : lenient'[h] >= lenient[h],
           LenientNow'
    PROVE  CacheInv'
<1>1. CacheTypeOK'
  BY DEF CacheInv, CacheTypeOK
<1>2. \A h \in Server : lenient[h] \in Nat /\ lenient'[h] \in Nat /\ lenient'[h] >= lenient[h]
  BY TimeIsNat DEF CacheInv, CacheTypeOK
<1>3. now \in Nat /\ now' \in Nat /\ now' >= now
  BY TimeIsNat DEF CacheInv, CacheTypeOK
<1>4. Begun'
  <2> SUFFICES ASSUME NEW t \in Caller, asking[t] # NoAsk PROVE asking[t].start <= now'
    BY DEF Begun
  <2>1. asking[t].start <= now /\ asking[t].start \in Nat
    BY AskTyped DEF CacheInv, Begun
  <2> QED
    BY <1>3, <2>1
<1>5. HeardInTime'
  <2> SUFFICES ASSUME NEW t \in Caller, asking[t] # NoAsk, asking[t].heard = "allows"
               PROVE  lenient'[asking[t].host] >= asking[t].start
    BY DEF HeardInTime
  <2>1. lenient[asking[t].host] >= asking[t].start
    BY DEF CacheInv, HeardInTime
  <2>2. asking[t].host \in Server /\ asking[t].start \in Nat
    BY AskTyped
  <2> QED
    BY <1>2, <2>1, <2>2
<1>6. KeptInTime'
  <2> SUFFICES ASSUME NEW c \in Cache, NEW h \in Server, entry[c][h] # NoEntry, entry[c][h].allows
               PROVE  lenient'[h] >= entry[c][h].time
    BY DEF KeptInTime
  <2>1. lenient[h] >= entry[c][h].time
    BY DEF CacheInv, KeptInTime
  <2>2. entry[c][h].time \in Nat
    BY EntryTyped
  <2> QED
    BY <1>2, <2>1, <2>2
<1> QED
  BY <1>1, <1>4, <1>5, <1>6 DEF CacheInv

LEMMA LoadInv ==
    ASSUME CacheInv, NEW t \in Caller, NEW h \in Server, Load(t, h)
    PROVE  CacheInv' /\ asking'[t] # NoAsk
<1> DEFINE new == [host |-> h, start |-> now, heard |-> "nothing"]
<1>1. new \in Asking /\ new # NoAsk
  BY CacheAssumption DEF CacheInv, CacheTypeOK, Asking
<1>2. asking' = [asking EXCEPT ![t] = new] /\ UNCHANGED <<now, rule, entry, lenient>>
  BY DEF Load
<1>3. new.start = now /\ new.heard = "nothing"
  OBVIOUS
<1> HIDE DEF new
<1>4. CacheTypeOK' /\ asking'[t] # NoAsk
  BY <1>1, <1>2 DEF CacheInv, CacheTypeOK
<1>5. LenientNow' /\ KeptInTime'
  BY <1>2 DEF CacheInv, LenientNow, KeptInTime
<1>6. Begun' /\ HeardInTime'
  BY <1>2, <1>3, TimeIsNat DEF CacheInv, CacheTypeOK, Begun, HeardInTime
<1> QED
  BY <1>4, <1>5, <1>6 DEF CacheInv

LEMMA HearInv ==
    ASSUME CacheInv, NEW t \in Caller, Hear(t)
    PROVE  CacheInv' /\ \A u \in Caller : asking'[u] # NoAsk <=> asking[u] # NoAsk
<1> DEFINE own == asking[t]
           new == [own EXCEPT !.heard = rule[own.host]]
<1>1. /\ own \in Asking /\ own # NoAsk
      /\ asking' = [asking EXCEPT ![t] = new] /\ UNCHANGED <<now, rule, entry, lenient>>
  BY DEF Hear, CacheInv, CacheTypeOK
<1>2. /\ own.host \in Server /\ own.start \in Time /\ own.start <= now
      /\ rule[own.host] \in Rule
  BY <1>1 DEF Asking, CacheInv, CacheTypeOK, Begun
<1>3. /\ new \in Asking /\ new.host = own.host /\ new.start = own.start
      /\ new.heard = rule[own.host]
  BY <1>1, <1>2 DEF Asking
<1> HIDE DEF new, own
<1>4. new # NoAsk
  BY <1>3, CacheAssumption
<1>5. CacheTypeOK' /\ \A u \in Caller : asking'[u] # NoAsk <=> asking[u] # NoAsk
  BY <1>1, <1>3, <1>4 DEF CacheInv, CacheTypeOK, own
<1>6. LenientNow' /\ KeptInTime'
  BY <1>1 DEF CacheInv, LenientNow, KeptInTime
<1>7. Begun'
  BY <1>1, <1>2, <1>3 DEF CacheInv, CacheTypeOK, Begun
<1>8. rule[own.host] = "allows" => lenient[own.host] >= own.start
  BY <1>2, TimeIsNat DEF CacheInv, CacheTypeOK, LenientNow
<1>9. HeardInTime'
  BY <1>1, <1>3, <1>8 DEF CacheInv, CacheTypeOK, HeardInTime
<1> QED
  BY <1>5, <1>6, <1>7, <1>9 DEF CacheInv

\* A load without a verdict, or the end of the coroutine that waits for it.
LEMMA ForgetInv ==
    ASSUME CacheInv, NEW t \in Caller, asking' = [asking EXCEPT ![t] = NoAsk],
           UNCHANGED <<now, rule, entry, lenient>>
    PROVE  CacheInv'
  BY DEF CacheInv, CacheTypeOK, LenientNow, Begun, HeardInTime, KeptInTime

LEMMA LoadedInv ==
    ASSUME CacheInv, NEW t \in Caller, NEW verdict \in BOOLEAN, Loaded(t, verdict)
    PROVE  CacheInv' /\ asking[t] # NoAsk /\ asking' = [asking EXCEPT ![t] = NoAsk]
<1> DEFINE own == asking[t]
           late == own # NoAsk /\ own.heard = "nothing" /\ now - own.start = Timeout
           new == [time |-> own.start, allows |-> verdict]
           c == CacheOf[t]
<1>1. /\ own \in Asking /\ own # NoAsk
      /\ late \/ own.heard \in {"allows", "forbids"}
      /\ verdict = (own.heard # "forbids")
      /\ entry' = [entry EXCEPT ![c][own.host] = new]
      /\ asking' = [asking EXCEPT ![t] = NoAsk]
      /\ lenient' = IF late THEN [lenient EXCEPT ![own.host] = now] ELSE lenient
      /\ UNCHANGED <<now, rule>>
  BY DEF Loaded, Stamp, CacheInv, CacheTypeOK
<1>2. own.host \in Server /\ own.start \in Time /\ own.start <= now /\ c \in Cache
  BY <1>1, CacheAssumption DEF Asking, CacheInv, Begun
<1>3. new \in Entry /\ new # NoEntry /\ new.time = own.start /\ new.allows = verdict
  BY <1>2, CacheAssumption DEF Entry
<1>4. \A h \in Server : lenient[h] \in Nat /\ lenient[h] <= now /\ now \in Nat
  BY TimeIsNat DEF CacheInv, CacheTypeOK, LenientNow
<1>5. \A h \in Server : lenient'[h] \in Time /\ lenient'[h] >= lenient[h] /\ lenient'[h] <= now
  BY <1>1, <1>4 DEF CacheInv, CacheTypeOK
<1>6. verdict => lenient'[own.host] >= own.start
  <2>1. CASE late
    BY <1>1, <1>2, <2>1 DEF CacheInv, CacheTypeOK
  <2>2. CASE ~late /\ verdict
    <3>1. own.heard = "allows" /\ lenient' = lenient
      BY <1>1, <2>2
    <3> QED
      BY <1>1, <3>1 DEF CacheInv, HeardInTime
  <2> QED
    BY <2>1, <2>2
<1> HIDE DEF new, own, late, c
<1>7. CacheTypeOK'
  <2>1. entry' \in [Cache -> [Server -> Entry \cup {NoEntry}]]
    BY <1>1, <1>2, <1>3 DEF CacheInv, CacheTypeOK
  <2>2. lenient' \in [Server -> Time]
    BY <1>1, <1>4 DEF CacheInv, CacheTypeOK
  <2> QED
    BY <1>1, <2>1, <2>2 DEF CacheInv, CacheTypeOK
<1>8. LenientNow'
  BY <1>1, <1>4, <1>5 DEF CacheInv, LenientNow
<1>9. Begun'
  BY <1>1 DEF CacheInv, CacheTypeOK, Begun
<1>10. HeardInTime'
  <2> SUFFICES ASSUME NEW u \in Caller, asking'[u] # NoAsk, asking'[u].heard = "allows"
               PROVE  lenient'[asking'[u].host] >= asking'[u].start
    BY DEF HeardInTime
  <2>1. asking'[u] = asking[u] /\ asking[u] \in Asking
    BY <1>1 DEF CacheInv, CacheTypeOK
  <2>2. asking[u].host \in Server /\ asking[u].start \in Nat
    BY <2>1, TimeIsNat DEF Asking
  <2>3. lenient[asking[u].host] >= asking[u].start
    BY <2>1 DEF CacheInv, HeardInTime
  <2>4. lenient'[asking[u].host] >= lenient[asking[u].host] /\ lenient'[asking[u].host] \in Nat
    BY <1>5, <2>2, TimeIsNat
  <2> QED
    BY <1>4, <2>1, <2>2, <2>3, <2>4
<1>11. KeptInTime'
  <2> SUFFICES ASSUME NEW d \in Cache, NEW h \in Server,
                      entry'[d][h] # NoEntry, entry'[d][h].allows
               PROVE  lenient'[h] >= entry'[d][h].time
    BY DEF KeptInTime
  <2>1. CASE d = c /\ h = own.host
    <3>1. entry'[d][h] = new
      BY <1>1, <1>2, <2>1 DEF CacheInv, CacheTypeOK
    <3> QED
      BY <1>3, <1>6, <2>1, <3>1
  <2>2. CASE ~(d = c /\ h = own.host)
    <3>1. entry'[d][h] = entry[d][h] /\ entry[d][h] \in Entry
      BY <1>1, <1>2, <2>2 DEF CacheInv, CacheTypeOK
    <3>2. entry[d][h].time \in Nat /\ lenient[h] >= entry[d][h].time
      BY <3>1, TimeIsNat DEF CacheInv, KeptInTime, Entry
    <3>3. lenient'[h] >= lenient[h] /\ lenient'[h] \in Nat
      BY <1>5, TimeIsNat
    <3> QED
      BY <1>4, <3>1, <3>2, <3>3
  <2> QED
    BY <2>1, <2>2
<1>12. CacheInv'
  BY <1>7, <1>8, <1>9, <1>10, <1>11 DEF CacheInv
<1> QED
  BY <1>1, <1>12 DEF own

LEMMA EmptiedInv ==
    ASSUME CacheInv, NEW c \in Cache, entry' = Emptied(c),
           UNCHANGED <<now, rule, asking, lenient>>
    PROVE  CacheInv'
<1>1. CacheTypeOK'
  BY DEF CacheInv, CacheTypeOK, Emptied
<1>2. LenientNow' /\ Begun' /\ HeardInTime'
  BY DEF CacheInv, LenientNow, Begun, HeardInTime
<1>3. KeptInTime'
  BY DEF CacheInv, CacheTypeOK, KeptInTime, Emptied
<1> QED
  BY <1>1, <1>2, <1>3 DEF CacheInv

LEMMA TimePassesInv ==
    ASSUME CacheInv, TimePasses
    PROVE  CacheInv'
<1>1. now \in Nat /\ now < MaxTime /\ now' = now + 1
  BY TimeIsNat DEF TimePasses, CacheInv, CacheTypeOK
<1>2. now' \in Time
  BY <1>1, CacheAssumption DEF Time
<1>3. \A h \in Server : lenient[h] \in Nat /\ lenient[h] <= now
  BY TimeIsNat DEF CacheInv, CacheTypeOK, LenientNow
<1>4. /\ UNCHANGED <<rule, entry, asking>>
      /\ lenient' = [h \in Server |-> IF rule[h] # "forbids" THEN now + 1 ELSE lenient[h]]
  BY DEF TimePasses
<1>5. /\ lenient' \in [Server -> Time] /\ \A h \in Server : lenient'[h] >= lenient[h]
  BY <1>1, <1>2, <1>3, <1>4 DEF CacheInv, CacheTypeOK
<1>6. LenientNow'
  BY <1>1, <1>3, <1>4 DEF LenientNow
<1>7. rule' \in [Server -> Rule] /\ now' >= now
  BY <1>1, <1>4 DEF CacheInv, CacheTypeOK
<1> QED
  BY <1>2, <1>4, <1>5, <1>6, <1>7, LaterInv

LEMMA SiteChangesInv ==
    ASSUME CacheInv, NEW h \in Server, NEW r \in Rule, RuleChanges(h, r)
    PROVE  CacheInv'
<1>1. /\ rule' = [rule EXCEPT ![h] = r]
      /\ lenient' = IF r # "forbids" THEN [lenient EXCEPT ![h] = now] ELSE lenient
      /\ UNCHANGED <<now, entry, asking>>
  BY DEF RuleChanges
<1>2. \A g \in Server : lenient[g] \in Nat /\ lenient[g] <= now /\ now \in Nat
  BY TimeIsNat DEF CacheInv, CacheTypeOK, LenientNow
<1>3. /\ rule' \in [Server -> Rule] /\ lenient' \in [Server -> Time]
      /\ now' \in Time /\ now' >= now
      /\ \A g \in Server : lenient'[g] >= lenient[g]
  BY <1>1, <1>2, TimeIsNat DEF CacheInv, CacheTypeOK
<1>4. LenientNow'
  BY <1>1, <1>2 DEF CacheInv, CacheTypeOK, LenientNow
<1> QED
  BY <1>1, <1>3, <1>4, LaterInv

-----------------------------------------------------------------------------
(* fetch_fulltext_job.                                                     *)

\* The job is at a page only while it runs and has it among its articles; the
\* other coroutines read home pages.
JobHasArticle ==
    /\ visit[Job] # "rest" => working /\ todo # {}
    /\ \A t \in Reader : visit[t] \in {"rest", "asking"}

JobInv == TextTypeOK /\ JobHasArticle /\ ShortTransactions

TextInv == CacheInv /\ JobInv

LEMMA CardinalityOfArticles == Cardinality(Article) \in Nat
  BY TextAssumption, FS_CardinalityType

\* A finite set of numbers that is not empty has a greatest element.
LEMMA GreatestExists ==
    ASSUME NEW S \in SUBSET Nat, IsFiniteSet(S), S # {}
    PROVE  \E m \in S : \A y \in S : m >= y
<1> DEFINE Above(y) == {x \in S : x >= y}
           Aboves == {Above(y) : y \in S}
<1>1. Aboves # {} /\ Aboves \subseteq FiniteSubsetsOf(S)
  <2>1. ASSUME NEW y \in S PROVE Above(y) \in FiniteSubsetsOf(S)
    BY FS_Subset DEF FiniteSubsetsOf
  <2> QED
    BY <2>1
<1>2. PICK U \in Aboves : \A V \in Aboves : <<V, U>> \notin StrictSubsetOrdering(S)
  <2> HIDE DEF Aboves
  <2> QED
    BY <1>1, FS_StrictSubsetOrderingWellFounded, WFMin
<1>3. PICK m \in S : U = Above(m)
  OBVIOUS
<1>4. ASSUME NEW y \in S, y > m PROVE FALSE
  <2>1. Above(y) \subseteq Above(m) /\ m \notin Above(y) /\ m \in Above(m)
    <3>1. y \in Nat /\ m \in Nat /\ \A x \in S : x \in Nat
      OBVIOUS
    <3>2. \A x \in S : x >= y => x >= m
      BY <1>4, <3>1
    <3>3. ~(m >= y) /\ m >= m
      BY <1>4, <3>1
    <3> QED
      BY <3>2, <3>3
  <2>2. <<Above(y), Above(m)>> \in StrictSubsetOrdering(S)
    BY <2>1 DEF StrictSubsetOrdering
  <2> QED
    BY <1>2, <1>3, <2>2
<1>5. \A y \in S : y \in Nat /\ m \in Nat
  OBVIOUS
<1> QED
  BY <1>4, <1>5

\* The article at hand is one of those left.
LEMMA CurrentLeft ==
    ASSUME TextTypeOK, todo # {}
    PROVE  Current \in todo /\ Current \in 1 .. arrived
<1>1. todo \subseteq 1 .. arrived /\ arrived \in Nat
  BY TextAssumption, CardinalityOfArticles DEF TextTypeOK
<1>2. IsFiniteSet(1 .. arrived) /\ 1 .. arrived \subseteq Nat
  BY <1>1, FS_Interval
<1>3. IsFiniteSet(todo) /\ todo \in SUBSET Nat
  BY <1>1, <1>2, FS_Subset
<1> QED
  BY <1>1, <1>3, GreatestExists DEF Current, Max

\* A page nothing comes of: the job has one article less.
LEMMA GoesOnInv ==
    ASSUME JobInv, CacheTypeOK', NEW t \in Caller, GoesOn(t), t # Job \/ dirty' = {},
           UNCHANGED <<arrived, working, calm>>,
           text' \subseteq 1 .. arrived, dirty' \in {dirty, {}},
           \A u \in Caller \ {t} : asking'[u] # NoAsk <=> asking[u] # NoAsk,
           asking'[t] = NoAsk
    PROVE  JobInv'
<1>1. visit' = [visit EXCEPT ![t] = "rest"] /\ todo' \subseteq todo /\ (t # Job => todo' = todo)
  BY DEF GoesOn, To
<1>2. TextTypeOK'
  BY <1>1 DEF JobInv, TextTypeOK, Stage
<1>3. JobHasArticle'
  BY <1>1, TextAssumption DEF JobInv, TextTypeOK, JobHasArticle, Reader
<1>4. ShortTransactions'
  BY <1>1, TextAssumption DEF JobInv, TextTypeOK, ShortTransactions, Current
<1> QED
  BY <1>2, <1>3, <1>4 DEF JobInv

LEMMA InitTextInv == TextInit => TextInv
<1> SUFFICES ASSUME TextInit PROVE TextInv
  OBVIOUS
<1>1. CacheInv
  BY CacheInitInv DEF TextInit
<1>2. TextTypeOK
  <2>1. CacheTypeOK
    BY <1>1 DEF CacheInv
  <2> QED
    BY <2>1, TextAssumption DEF TextInit, CacheInit, TextTypeOK, Stage
<1>3. JobHasArticle /\ ShortTransactions
  BY TextAssumption DEF TextInit, JobHasArticle, ShortTransactions, Reader
<1> QED
  BY <1>1, <1>2, <1>3 DEF TextInv, JobInv

\* What is written is written at a page, and committed before the next.
LEMMA NothingDirty ==
    ASSUME JobInv, visit[Job] # "flushed"
    PROVE  dirty = {}
  BY DEF JobInv, ShortTransactions

\* A site lets the job read the article at hand.
LEMMA AllowedInv ==
    ASSUME JobInv, CacheTypeOK', visit[Job] \in {"rest", "asking"}, working, todo # {},
           To(Job, "fetching"), UNCHANGED <<arrived, text, dirty, todo, working, calm>>,
           \A u \in Caller \ {Job} : asking'[u] # NoAsk <=> asking[u] # NoAsk,
           asking'[Job] = NoAsk
    PROVE  JobInv'
<1>1. visit' = [visit EXCEPT ![Job] = "fetching"] /\ dirty = {}
  BY NothingDirty DEF To
<1>2. TextTypeOK'
  BY <1>1, TextAssumption DEF JobInv, TextTypeOK, Stage
<1>3. JobHasArticle' /\ ShortTransactions'
  BY <1>1, TextAssumption DEF JobInv, TextTypeOK, JobHasArticle, ShortTransactions, Reader
<1> QED
  BY <1>2, <1>3 DEF JobInv

\* A verdict is obeyed.
LEMMA ObeysInv ==
    ASSUME JobInv, CacheTypeOK', NEW t \in Caller, NEW verdict \in BOOLEAN, Obeys(t, verdict),
           visit[t] \in {"rest", "asking"}, t = Job => working /\ todo # {},
           UNCHANGED <<arrived, text, dirty, working, calm>>,
           \A u \in Caller \ {t} : asking'[u] # NoAsk <=> asking[u] # NoAsk,
           asking'[t] = NoAsk
    PROVE  JobInv'
<1>1. CASE verdict /\ t = Job
  BY <1>1, AllowedInv DEF Obeys
<1>2. CASE ~(verdict /\ t = Job)
  <2>1. GoesOn(t)
    BY <1>2 DEF Obeys
  <2>2. t # Job \/ dirty' = {}
    BY NothingDirty
  <2>3. text' \subseteq 1 .. arrived /\ dirty' \in {dirty, {}}
    BY DEF JobInv, TextTypeOK
  <2> QED
    BY <2>1, <2>2, <2>3, GoesOnInv
<1> QED
  BY <1>1, <1>2

\* The job, or a coroutine that stays at its page, asks a site.
LEMMA AskingInv ==
    ASSUME JobInv, CacheTypeOK', NEW t \in Caller, visit[t] \in {"rest", "asking"},
           t = Job => working /\ todo # {},
           To(t, "asking"), UNCHANGED <<arrived, text, dirty, todo, working, calm>>,
           \A u \in Caller \ {t} : asking'[u] # NoAsk <=> asking[u] # NoAsk,
           asking'[t] # NoAsk
    PROVE  JobInv'
<1>1. visit' = [visit EXCEPT ![t] = "asking"] /\ (t = Job => dirty = {})
  BY NothingDirty DEF To
<1>2. TextTypeOK'
  BY <1>1 DEF JobInv, TextTypeOK, Stage
<1>3. JobHasArticle'
  BY <1>1, TextAssumption DEF JobInv, TextTypeOK, JobHasArticle, Reader
<1>4. ShortTransactions'
  BY <1>1, TextAssumption DEF JobInv, TextTypeOK, ShortTransactions, Current
<1> QED
  BY <1>2, <1>3, <1>4 DEF JobInv

\* The variables of the job stay, and nobody begins or ends a load.
LEMMA SameJob ==
    ASSUME JobInv, CacheTypeOK', UNCHANGED textVars,
           \A u \in Caller : asking'[u] # NoAsk <=> asking[u] # NoAsk
    PROVE  JobInv'
<1>1. UNCHANGED <<visit, arrived, text, dirty, todo, working, calm>>
  BY DEF textVars
<1>2. TextTypeOK'
  BY <1>1 DEF JobInv, TextTypeOK
<1>3. JobHasArticle' /\ ShortTransactions'
  BY <1>1 DEF JobInv, JobHasArticle, ShortTransactions, Current
<1> QED
  BY <1>2, <1>3 DEF JobInv

LEMMA TargetIsHost ==
    ASSUME JobInv, NEW t \in Caller, Ready(t)
    PROVE  Target(t) \in Server
<1>1. CASE t = Job
  <2>1. Current \in 1 .. arrived /\ arrived \in 0 .. Cardinality(Article)
    BY <1>1, CurrentLeft DEF Ready, JobInv, TextTypeOK
  <2>2. Current \in Article
    BY <2>1, CardinalityOfArticles, TextAssumption
  <2> QED
    BY <1>1, <2>2, TextAssumption DEF Target
<1>2. CASE t # Job
  BY <1>2, TextAssumption DEF Target, Reader
<1> QED
  BY <1>1, <1>2

LEMMA AskInv ==
    ASSUME TextInv, NEW t \in Caller, Ask(t)
    PROVE  TextInv'
<1>1. /\ visit[t] = "rest" /\ (t = Job => working /\ todo # {}) /\ Target(t) \in Server
      /\ UNCHANGED <<arrived, text, dirty, working, calm>>
      /\ asking[t] = NoAsk
  BY TargetIsHost DEF Ask, Ready, TextInv, JobInv, TextTypeOK
<1>2. CASE \E verdict \in BOOLEAN : Knows(t, Target(t), verdict) /\ Obeys(t, verdict)
  <2>1. PICK verdict \in BOOLEAN : Knows(t, Target(t), verdict) /\ Obeys(t, verdict)
    BY <1>2
  <2>2. UNCHANGED cacheVars
    BY <2>1 DEF Knows
  <2>3. CacheInv'
    BY <2>2 DEF cacheVars, TextInv, CacheInv, CacheTypeOK, LenientNow, Begun, HeardInTime, KeptInTime
  <2>4. asking' = asking /\ CacheTypeOK'
    BY <2>2, <2>3 DEF cacheVars, CacheInv
  <2> QED
    BY <1>1, <2>1, <2>3, <2>4, ObeysInv DEF TextInv
<1>3. CASE Load(t, Target(t)) /\ To(t, "asking") /\ UNCHANGED todo
  <2>1. CacheInv' /\ asking'[t] # NoAsk
    BY <1>1, <1>3, LoadInv DEF TextInv
  <2>2. \A u \in Caller \ {t} : asking'[u] = asking[u]
    BY <1>3 DEF Load, TextInv, JobInv, TextTypeOK, CacheTypeOK
  <2>3. CacheTypeOK'
    BY <2>1 DEF CacheInv
  <2> QED
    BY <1>1, <1>3, <2>1, <2>2, <2>3, AskingInv DEF TextInv
<1> QED
  BY <1>2, <1>3 DEF Ask

LEMMA AnswerInv ==
    ASSUME TextInv, NEW t \in Caller, Answer(t)
    PROVE  TextInv'
<1>1. CacheInv' /\ \A u \in Caller : asking'[u] # NoAsk <=> asking[u] # NoAsk
  BY HearInv DEF Answer, TextInv
<1>2. CacheTypeOK' /\ UNCHANGED textVars
  BY <1>1 DEF CacheInv, Answer
<1> QED
  BY <1>1, <1>2, SameJob DEF TextInv

LEMMA ToldInv ==
    ASSUME TextInv, NEW t \in Caller, Told(t)
    PROVE  TextInv'
<1>1. PICK verdict \in BOOLEAN : Loaded(t, verdict) /\ Obeys(t, verdict)
  BY DEF Told
<1>2. CacheInv' /\ asking[t] # NoAsk /\ asking' = [asking EXCEPT ![t] = NoAsk]
  BY <1>1, LoadedInv DEF TextInv
<1>3. visit[t] = "asking" /\ (t = Job => working /\ todo # {})
  BY <1>2 DEF TextInv, JobInv, TextTypeOK, JobHasArticle
<1>4. /\ asking'[t] = NoAsk
      /\ \A u \in Caller \ {t} : asking'[u] = asking[u]
      /\ CacheTypeOK'
  BY <1>2 DEF TextInv, JobInv, TextTypeOK, CacheTypeOK, CacheInv
<1>5. UNCHANGED <<arrived, text, dirty, working, calm>>
  BY DEF Told
<1> QED
  BY <1>1, <1>2, <1>3, <1>4, <1>5, ObeysInv DEF TextInv

\* The cache is left alone.
LEMMA SameCache ==
    ASSUME CacheInv, UNCHANGED cacheVars
    PROVE  CacheInv' /\ CacheTypeOK' /\ asking' = asking
<1>1. UNCHANGED <<now, rule, entry, asking, lenient>>
  BY DEF cacheVars
<1>2. CacheTypeOK'
  BY <1>1 DEF CacheInv, CacheTypeOK
<1> QED
  BY <1>1, <1>2 DEF CacheInv, LenientNow, Begun, HeardInTime, KeptInTime

LEMMA HomeRaisesInv ==
    ASSUME TextInv, NEW t \in Reader, HomeRaises(t)
    PROVE  TextInv'
<1>1. /\ t \in Caller /\ t # Job /\ asking' = [asking EXCEPT ![t] = NoAsk]
      /\ UNCHANGED <<now, rule, entry, lenient>> /\ To(t, "rest")
      /\ UNCHANGED <<arrived, text, dirty, todo, working, calm>>
  BY DEF HomeRaises, LoadRaises, Reader
<1>2. CacheInv' /\ CacheTypeOK'
  BY <1>1, ForgetInv DEF TextInv, CacheInv
<1>3. GoesOn(t)
  BY <1>1 DEF GoesOn
<1>4. /\ \A u \in Caller \ {t} : asking'[u] = asking[u]
      /\ asking'[t] = NoAsk
      /\ text' \subseteq 1 .. arrived /\ dirty' \in {dirty, {}}
  BY <1>1 DEF TextInv, JobInv, TextTypeOK, CacheTypeOK
<1> QED
  BY <1>1, <1>2, <1>3, <1>4, GoesOnInv DEF TextInv

LEMMA StartJobInv ==
    ASSUME TextInv, StartJob
    PROVE  TextInv'
<1>1. /\ ~working /\ working' = TRUE /\ todo' = Chosen /\ entry' = Emptied(CacheOf[Job])
      /\ UNCHANGED <<now, rule, asking, lenient, visit, arrived, text, dirty, calm>>
  BY DEF StartJob
<1>2. CacheInv' /\ CacheTypeOK'
  BY <1>1, EmptiedInv, CacheAssumption, TextAssumption DEF TextInv, CacheInv
<1>3. Chosen \subseteq 1 .. arrived
  BY DEF Chosen, Newest, Missing
<1>4. visit[Job] = "rest" /\ dirty = {}
  BY <1>1, NothingDirty DEF TextInv, JobInv, JobHasArticle
<1>5. TextTypeOK'
  BY <1>1, <1>2, <1>3 DEF TextInv, JobInv, TextTypeOK
<1>6. JobHasArticle' /\ ShortTransactions'
  BY <1>1, <1>4 DEF TextInv, JobInv, JobHasArticle, ShortTransactions
<1> QED
  BY <1>2, <1>5, <1>6 DEF TextInv, JobInv

\* At a page that is not read, or whose text is committed.
LEMMA PageDoneInv ==
    ASSUME TextInv, UNCHANGED cacheVars, visit[Job] \in {"fetching", "flushed"}, GoesOn(Job),
           dirty' = {}, text' \subseteq 1 .. arrived, UNCHANGED <<arrived, working, calm>>
    PROVE  TextInv'
<1>1. CacheInv' /\ CacheTypeOK' /\ asking' = asking
  BY SameCache DEF TextInv
<1>2. asking[Job] = NoAsk
  BY TextAssumption DEF TextInv, JobInv, TextTypeOK
<1> QED
  BY <1>1, <1>2, GoesOnInv, TextAssumption DEF TextInv

LEMMA NoTextHereInv ==
    ASSUME TextInv, NoTextHere
    PROVE  TextInv'
<1>1. /\ visit[Job] = "fetching" /\ GoesOn(Job)
      /\ UNCHANGED <<cacheVars, arrived, text, dirty, working, calm>>
  BY DEF NoTextHere
<1>2. dirty = {} /\ text \subseteq 1 .. arrived
  BY <1>1, NothingDirty DEF TextInv, JobInv, TextTypeOK
<1> QED
  BY <1>1, <1>2, PageDoneInv

LEMMA CommitInv ==
    ASSUME TextInv, Commit
    PROVE  TextInv'
<1>1. /\ visit[Job] = "flushed" /\ GoesOn(Job)
      /\ text' = text \cup dirty /\ dirty' = {}
      /\ UNCHANGED <<cacheVars, arrived, working, calm>>
  BY DEF Commit, Saved
<1>2. text' \subseteq 1 .. arrived
  BY <1>1 DEF TextInv, JobInv, TextTypeOK
<1> QED
  BY <1>1, <1>2, PageDoneInv

LEMMA WriteInv ==
    ASSUME TextInv, Write
    PROVE  TextInv'
<1>1. /\ visit[Job] = "fetching" /\ visit' = [visit EXCEPT ![Job] = "flushed"]
      /\ dirty' = dirty \cup {Current}
      /\ UNCHANGED <<arrived, text, todo, working, calm>>
  BY DEF Write, To
<1>2. CacheInv' /\ CacheTypeOK' /\ asking' = asking
  BY SameCache DEF Write, TextInv
<1>3. dirty = {} /\ Current \in 1 .. arrived
  BY <1>1, NothingDirty, CurrentLeft DEF TextInv, JobInv, JobHasArticle
<1>4. TextTypeOK'
  BY <1>1, <1>2, <1>3, TextAssumption DEF TextInv, JobInv, TextTypeOK, Stage
<1>5. JobHasArticle'
  BY <1>1, TextAssumption DEF TextInv, JobInv, TextTypeOK, JobHasArticle, Reader
<1>6. ShortTransactions'
  BY <1>1, <1>3, TextAssumption DEF TextInv, JobInv, TextTypeOK, ShortTransactions, Current
<1> QED
  BY <1>2, <1>4, <1>5, <1>6 DEF TextInv, JobInv

LEMMA EndJobInv ==
    ASSUME TextInv, EndJob
    PROVE  TextInv'
<1>1. /\ working /\ todo = {} /\ working' = FALSE
      /\ text' = text \cup dirty /\ dirty' = {}
      /\ UNCHANGED <<visit, arrived, todo, calm>>
  BY DEF EndJob
<1>2. CacheInv' /\ CacheTypeOK' /\ asking' = asking
  BY SameCache DEF EndJob, TextInv
<1>3. visit[Job] = "rest"
  BY <1>1 DEF TextInv, JobInv, JobHasArticle
<1>4. TextTypeOK'
  BY <1>1, <1>2 DEF TextInv, JobInv, TextTypeOK
<1>5. JobHasArticle' /\ ShortTransactions'
  BY <1>1, <1>3 DEF TextInv, JobInv, JobHasArticle, ShortTransactions
<1> QED
  BY <1>2, <1>4, <1>5 DEF TextInv, JobInv

\* The job dies, and no longer waits for a site.
LEMMA DiesInv ==
    ASSUME TextInv, CacheInv', Dies, asking'[Job] = NoAsk,
           \A u \in Caller \ {Job} : asking'[u] = asking[u]
    PROVE  TextInv'
<1>1. /\ working' = FALSE /\ todo' = {} /\ dirty' = {}
      /\ visit' = [visit EXCEPT ![Job] = "rest"]
      /\ UNCHANGED <<arrived, text, calm>>
  BY DEF Dies, To
<1>2. TextTypeOK'
  BY <1>1, TextAssumption DEF TextInv, CacheInv, JobInv, TextTypeOK, Stage
<1>3. JobHasArticle' /\ ShortTransactions'
  BY <1>1, TextAssumption DEF TextInv, JobInv, TextTypeOK, JobHasArticle, ShortTransactions, Reader
<1> QED
  BY <1>2, <1>3 DEF TextInv, JobInv

LEMMA JobDeniedInv ==
    ASSUME TextInv, JobDenied
    PROVE  TextInv'
<1>1. CASE LoadRaises(Job) /\ Dies
  <2>1. asking' = [asking EXCEPT ![Job] = NoAsk] /\ UNCHANGED <<now, rule, entry, lenient>>
    BY <1>1 DEF LoadRaises
  <2>2. CacheInv'
    BY <2>1, ForgetInv, TextAssumption DEF TextInv
  <2>3. asking'[Job] = NoAsk /\ \A u \in Caller \ {Job} : asking'[u] = asking[u]
    BY <2>1, TextAssumption DEF TextInv, JobInv, TextTypeOK, CacheTypeOK
  <2> QED
    BY <1>1, <2>2, <2>3, DiesInv
<1>2. CASE visit[Job] = "fetching" /\ Current \in Moved /\ Dies /\ UNCHANGED cacheVars
  <2>1. CacheInv' /\ asking' = asking
    BY <1>2, SameCache DEF TextInv
  <2>2. asking[Job] = NoAsk
    BY <1>2, TextAssumption DEF TextInv, JobInv, TextTypeOK
  <2> QED
    BY <1>2, <2>1, <2>2, DiesInv
<1> QED
  BY <1>1, <1>2 DEF JobDenied

LEMMA JobStopsInv ==
    ASSUME TextInv, JobStops
    PROVE  TextInv'
<1>1. asking' = [asking EXCEPT ![Job] = NoAsk] /\ UNCHANGED <<now, rule, entry, lenient>> /\ Dies
  BY DEF JobStops
<1>2. CacheInv'
  BY <1>1, ForgetInv, TextAssumption DEF TextInv
<1>3. asking'[Job] = NoAsk /\ \A u \in Caller \ {Job} : asking'[u] = asking[u]
  BY <1>1, TextAssumption DEF TextInv, JobInv, TextTypeOK, CacheTypeOK
<1> QED
  BY <1>1, <1>2, <1>3, DiesInv

LEMMA ArriveInv ==
    ASSUME TextInv, Arrive
    PROVE  TextInv'
<1>1. /\ arrived < Cardinality(Article) /\ arrived' = arrived + 1
      /\ UNCHANGED <<visit, text, dirty, todo, working, calm>>
  BY DEF Arrive
<1>2. CacheInv' /\ CacheTypeOK' /\ asking' = asking
  BY SameCache DEF Arrive, TextInv
<1>3. arrived \in Nat /\ arrived' \in 0 .. Cardinality(Article) /\ 1 .. arrived \subseteq 1 .. arrived'
  BY <1>1, CardinalityOfArticles DEF TextInv, JobInv, TextTypeOK
<1>4. TextTypeOK'
  BY <1>1, <1>2, <1>3 DEF TextInv, JobInv, TextTypeOK
<1>5. JobHasArticle' /\ ShortTransactions'
  BY <1>1 DEF TextInv, JobInv, JobHasArticle, ShortTransactions, Current
<1> QED
  BY <1>2, <1>4, <1>5 DEF TextInv, JobInv

LEMMA CalmDownInv ==
    ASSUME TextInv, CalmDown
    PROVE  TextInv'
<1>1. /\ calm' = TRUE /\ rule' = [h \in Server |-> "allows"] /\ lenient' = [h \in Server |-> now]
      /\ UNCHANGED <<now, entry, asking, visit, arrived, text, dirty, todo, working>>
  BY DEF CalmDown
<1>2. \A h \in Server : lenient[h] \in Nat /\ lenient[h] <= now /\ now \in Nat
  BY TimeIsNat DEF TextInv, CacheInv, CacheTypeOK, LenientNow
<1>3. /\ rule' \in [Server -> Rule] /\ lenient' \in [Server -> Time]
      /\ now' \in Time /\ now' >= now
      /\ \A h \in Server : lenient'[h] >= lenient[h]
  <2>1. now \in Time /\ "allows" \in Rule
    BY DEF TextInv, CacheInv, CacheTypeOK, Rule
  <2>2. rule' \in [Server -> Rule] /\ lenient' \in [Server -> Time]
    BY <1>1, <2>1
  <2>3. now' = now /\ now' >= now
    BY <1>1, <2>1, TimeIsNat
  <2>4. ASSUME NEW h \in Server PROVE lenient'[h] >= lenient[h]
    BY <1>1, <1>2
  <2> QED
    BY <2>1, <2>2, <2>3, <2>4
<1>4. LenientNow'
  BY <1>1, <1>2 DEF LenientNow
<1>5. CacheInv'
  BY <1>1, <1>3, <1>4, LaterInv DEF TextInv
<1>6. TextTypeOK'
  BY <1>1, <1>5 DEF TextInv, CacheInv, JobInv, TextTypeOK
<1>7. JobHasArticle' /\ ShortTransactions'
  BY <1>1 DEF TextInv, JobInv, JobHasArticle, ShortTransactions, Current
<1> QED
  BY <1>5, <1>6, <1>7 DEF TextInv, JobInv

\* The sites, the clock and the next round of feeds do not touch the job.
LEMMA OthersInv ==
    ASSUME TextInv, NextRound \/ Sites \/ PageTick
    PROVE  TextInv'
<1>1. CASE NextRound
  <2>1. PICK t \in Reader : entry' = Emptied(CacheOf[t])
    BY <1>1 DEF NextRound
  <2>2. CacheOf[t] \in Cache /\ UNCHANGED <<now, rule, asking, lenient, textVars>>
    BY <1>1, CacheAssumption DEF NextRound, Reader
  <2> QED
    BY <2>1, <2>2, EmptiedInv, SameJob DEF TextInv, CacheInv
<1>2. CASE Sites
  <2>1. CacheInv' /\ UNCHANGED asking
    BY <1>2, SiteChangesInv DEF Sites, TextInv, RuleChanges
  <2> QED
    BY <1>2, <2>1, SameJob DEF Sites, TextInv, CacheInv
<1>3. CASE PageTick
  <2>1. CacheInv' /\ UNCHANGED asking
    BY <1>3, TimePassesInv DEF PageTick, TextInv, TimePasses
  <2> QED
    BY <1>3, <2>1, SameJob DEF PageTick, TextInv, CacheInv
<1> QED
  BY <1>1, <1>2, <1>3

LEMMA StepTextInv == TextInv /\ [TextNext]_allTextVars => TextInv'
<1> SUFFICES ASSUME TextInv, [TextNext]_allTextVars PROVE TextInv'
  OBVIOUS
<1>1. ASSUME NEW t \in Caller, PageStep(t), t # Job \/ ~HomeRaises(t) PROVE TextInv'
  BY <1>1, AskInv, AnswerInv, ToldInv, HomeRaisesInv DEF PageStep, Reader
<1>2. ~HomeRaises(Job)
  BY DEF HomeRaises
<1>3. CASE JobStep
  BY <1>1, <1>2, <1>3, TextAssumption, StartJobInv, NoTextHereInv, WriteInv, CommitInv, EndJobInv,
     JobDeniedInv DEF JobStep
<1>4. CASE \E t \in Reader : PageStep(t)
  BY <1>1, <1>4 DEF Reader
<1>5. CASE JobStops \/ Arrive \/ CalmDown
  BY <1>5, JobStopsInv, ArriveInv, CalmDownInv
<1>6. CASE NextRound \/ Sites \/ PageTick
  BY <1>6, OthersInv
<1>7. CASE UNCHANGED allTextVars
  <2>1. UNCHANGED cacheVars /\ UNCHANGED textVars
    BY <1>7 DEF allTextVars
  <2> QED
    BY <2>1, SameCache, SameJob DEF TextInv
<1> QED
  BY <1>3, <1>4, <1>5, <1>6, <1>7 DEF TextNext

THEOREM TextInvAlways == TextSpec => []TextInv
  BY InitTextInv, StepTextInv, PTL DEF TextSpec

\* Type correctness of FullTexts: in particular a coroutine waits for a
\* robots.txt exactly while it is loading one (core/ingest/robots.py, can_fetch).
THEOREM TextTypeCorrect == TextSpec => []TextTypeOK
  BY TextInvAlways, PTL DEF TextInv, JobInv

\* A permission the cache gives was given by the site, or the site could not be
\* asked, within the life of an entry, whichever answers overtake each other
\* (core/ingest/robots.py, can_fetch).
THEOREM PermissionsAgeAlways == TextSpec => []PermissionsAge
<1>1. ASSUME TextInv, NEW t \in Caller, NEW h \in Server, IsFresh(t, h), Own(t, h).allows
      PROVE  lenient[h] >= now - TTL
  <2> DEFINE own == entry[CacheOf[t]][h]
  <2>1. own # NoEntry /\ now - own.time <= TTL /\ CacheOf[t] \in Cache
    BY <1>1, CacheAssumption DEF IsFresh, Own
  <2>2. lenient[h] >= own.time
    BY <1>1, <2>1 DEF TextInv, CacheInv, KeptInTime, Own
  <2>3. own.time \in Nat /\ lenient[h] \in Nat /\ now \in Nat
    BY <1>1, <2>1, EntryTyped, TimeIsNat DEF TextInv, CacheInv, CacheTypeOK
  <2> HIDE DEF own
  <2> QED
    BY <2>1, <2>2, <2>3, CacheAssumption
<1>2. TextInv => PermissionsAge
  BY <1>1 DEF PermissionsAge
<1> QED
  BY <1>2, TextInvAlways, PTL

\* While the job waits for a site nothing it wrote is uncommitted
\* (apps/worker/jobs/ingest.py, fetch_fulltext_job).
THEOREM TransactionsShort == TextSpec => []ShortTransactions
  BY TextInvAlways, PTL DEF TextInv, JobInv

=============================================================================
