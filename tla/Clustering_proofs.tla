-------------------------- MODULE Clustering_proofs --------------------------
(***************************************************************************)
(* Proofs about Clustering, for any articles, any number of rounds and any *)
(* way in which they overlap, fail or stop: type correctness, and that a   *)
(* "lampo" story stays so; and, as long as rounds do not overlap, that     *)
(* what is written about a story agrees with its members.                  *)
(***************************************************************************)
EXTENDS Clustering, FiniteSetTheorems, TLAPS

-----------------------------------------------------------------------------
(* Min and Max of FiniteSetsExt: a finite set of numbers has a least and a *)
(* greatest element because the inclusion of its subsets is well founded.  *)

\* Min and Max of a pair.
LEMMA MinMaxOfTwo ==
    ASSUME NEW x \in Nat, NEW y \in Nat
    PROVE  /\ Min({x, y}) = IF x <= y THEN x ELSE y
           /\ Max({x, y}) = IF x <= y THEN y ELSE x
  BY DEF Min, Max

\* A finite set of numbers that is not empty has a least element.
LEMMA LeastExists ==
    ASSUME NEW S \in SUBSET Nat, IsFiniteSet(S), S # {}
    PROVE  \E m \in S : \A y \in S : m <= y
<1> DEFINE Below(y) == {x \in S : x <= y}
           Belows == {Below(y) : y \in S}
<1>1. Belows # {} /\ Belows \subseteq FiniteSubsetsOf(S)
  <2>1. ASSUME NEW y \in S PROVE Below(y) \in FiniteSubsetsOf(S)
    BY FS_Subset DEF FiniteSubsetsOf
  <2> QED
    BY <2>1
<1>2. PICK U \in Belows : \A V \in Belows : <<V, U>> \notin StrictSubsetOrdering(S)
  <2> HIDE DEF Belows
  <2> QED
    BY <1>1, FS_StrictSubsetOrderingWellFounded, WFMin
<1>3. PICK m \in S : U = Below(m)
  OBVIOUS
<1>4. ASSUME NEW y \in S, y < m PROVE FALSE
  <2>1. Below(y) \subseteq Below(m) /\ m \notin Below(y) /\ m \in Below(m)
    <3>1. y \in Nat /\ m \in Nat /\ \A x \in S : x \in Nat
      OBVIOUS
    <3>2. \A x \in S : x <= y => x <= m
      BY <1>4, <3>1
    <3>3. ~(m <= y) /\ m <= m
      BY <1>4, <3>1
    <3> QED
      BY <3>2, <3>3
  <2>2. <<Below(y), Below(m)>> \in StrictSubsetOrdering(S)
    BY <2>1 DEF StrictSubsetOrdering
  <2> QED
    BY <1>2, <1>3, <2>2
<1>5. \A y \in S : y \in Nat /\ m \in Nat
  OBVIOUS
<1> QED
  BY <1>4, <1>5

\* A finite set of numbers that is not empty has a greatest element.
LEMMA GreatestExists ==
    ASSUME NEW S \in SUBSET Nat, IsFiniteSet(S), S # {}
    PROVE  \E m \in S : \A y \in S : m >= y
<1> DEFINE Above(y) == {x \in S : x >= y}
           Aboves == {Above(y) : y \in S}
<1>1. Aboves # {} /\ Aboves \subseteq FiniteSubsetsOf(S)
  <2>1. ASSUME NEW y \in S PROVE Above(y) \in FiniteSubsetsOf(S)
    BY FS_Subset DEF FiniteSubsetsOf
  <2> QED
    BY <2>1
<1>2. PICK U \in Aboves : \A V \in Aboves : <<V, U>> \notin StrictSubsetOrdering(S)
  <2> HIDE DEF Aboves
  <2> QED
    BY <1>1, FS_StrictSubsetOrderingWellFounded, WFMin
<1>3. PICK m \in S : U = Above(m)
  OBVIOUS
<1>4. ASSUME NEW y \in S, y > m PROVE FALSE
  <2>1. Above(y) \subseteq Above(m) /\ m \notin Above(y) /\ m \in Above(m)
    <3>1. y \in Nat /\ m \in Nat /\ \A x \in S : x \in Nat
      OBVIOUS
    <3>2. \A x \in S : x >= y => x >= m
      BY <1>4, <3>1
    <3>3. ~(m >= y) /\ m >= m
      BY <1>4, <3>1
    <3> QED
      BY <3>2, <3>3
  <2>2. <<Above(y), Above(m)>> \in StrictSubsetOrdering(S)
    BY <2>1 DEF StrictSubsetOrdering
  <2> QED
    BY <1>2, <1>3, <2>2
<1>5. \A y \in S : y \in Nat /\ m \in Nat
  OBVIOUS
<1> QED
  BY <1>4, <1>5

\* Min and Max are what their names say.
LEMMA MinMaxOfFinite ==
    ASSUME NEW S \in SUBSET Nat, IsFiniteSet(S), S # {}
    PROVE  /\ Min(S) \in S /\ \A y \in S : Min(S) <= y
           /\ Max(S) \in S /\ \A y \in S : Max(S) >= y
  BY LeastExists, GreatestExists DEF Min, Max

\* One more element: Min and Max take it into account.
LEMMA MinMaxAdded ==
    ASSUME NEW S \in SUBSET Nat, IsFiniteSet(S), S # {}, NEW x \in Nat
    PROVE  /\ Min(S \cup {x}) = Min({Min(S), x})
           /\ Max(S \cup {x}) = Max({Max(S), x})
<1>1. /\ Min(S) \in S /\ \A y \in S : Min(S) <= y
      /\ Max(S) \in S /\ \A y \in S : Max(S) >= y
  BY MinMaxOfFinite
<1> DEFINE T == S \cup {x}
<1>2. T \in SUBSET Nat /\ IsFiniteSet(T) /\ T # {}
  BY FS_AddElement
<1> HIDE DEF T
<1>3. /\ Min(T) \in T /\ \A y \in T : Min(T) <= y
      /\ Max(T) \in T /\ \A y \in T : Max(T) >= y
  BY <1>2, MinMaxOfFinite
<1>4. /\ Min({Min(S), x}) = IF Min(S) <= x THEN Min(S) ELSE x
      /\ Max({Max(S), x}) = IF Max(S) <= x THEN x ELSE Max(S)
  BY <1>1, MinMaxOfTwo
<1>5. Min(T) = IF Min(S) <= x THEN Min(S) ELSE x
  <2> DEFINE m == Min(T)  n == Min(S)
  <2>1. m \in Nat /\ n \in Nat /\ m <= n /\ m <= x
    BY <1>1, <1>2, <1>3 DEF T
  <2>2. m = x \/ n <= m
    BY <1>1, <1>3 DEF T
  <2> HIDE DEF m, n
  <2>3. m = IF n <= x THEN n ELSE x
    <3>1. m = x \/ m = n
      BY <2>1, <2>2
    <3> QED
      BY <2>1, <3>1
  <2> QED
    BY <2>3 DEF m, n
<1>6. Max(T) = IF Max(S) <= x THEN x ELSE Max(S)
  <2> DEFINE m == Max(T)  n == Max(S)
  <2>1. m \in Nat /\ n \in Nat /\ m >= n /\ m >= x
    BY <1>1, <1>2, <1>3 DEF T
  <2>2. m = x \/ n >= m
    BY <1>1, <1>3 DEF T
  <2> HIDE DEF m, n
  <2>3. m = IF n <= x THEN x ELSE n
    <3>1. m = x \/ m = n
      BY <2>1, <2>2
    <3> QED
      BY <2>1, <3>1
  <2> QED
    BY <2>3 DEF m, n
<1> QED
  BY <1>4, <1>5, <1>6 DEF T

-----------------------------------------------------------------------------
(* Types.                                                                  *)

LEMMA TimesAreNumbers == Time \subseteq Nat
  BY ConstantAssumption DEF Time

\* What a session reads is a database.
LEMMA BaseTyped ==
    ASSUME TypeOK, NEW r \in Round
    PROVE  Base(r) \in Database
  BY DEF Base, TypeOK

\* As many sources as articles at most.
LEMMA CountsTyped ==
    ASSUME NEW M \in SUBSET Article
    PROVE  /\ Counts(M).articles \in 0 .. Cardinality(Article)
           /\ Counts(M).sources \in 0 .. Cardinality(Article)
<1>1. /\ IsFiniteSet(M) /\ Cardinality(M) <= Cardinality(Article)
      /\ Cardinality(M) \in Nat /\ Cardinality(Article) \in Nat
  BY ConstantAssumption, FS_Subset, FS_CardinalityType
<1> DEFINE outlets == {SourceOf[a] : a \in M}
           f == [a \in M |-> SourceOf[a]]
<1>2. f \in Surjection(M, outlets)
  BY DEF Surjection
<1>3. IsFiniteSet(outlets) /\ Cardinality(outlets) <= Cardinality(M)
  BY <1>1, <1>2, FS_Surjection
<1>4. Cardinality(outlets) \in Nat
  BY <1>3, FS_CardinalityType
<1> QED
  BY <1>1, <1>3, <1>4 DEF Counts

LEMMA JoinedTyped ==
    ASSUME NEW row \in StoryRow, NEW M \in SUBSET Article, NEW a \in Article
    PROVE  Joined(row, M, a) \in StoryRow
<1>1. row.first \in Time /\ row.last \in Time /\ row.flash \in BOOLEAN
  BY DEF StoryRow
<1>2. TimeOf[a] \in Time
  BY DEF Time
<1>3. FirstSeen(row, a) \in Time /\ LastSeen(row, a) \in Time
  BY <1>1, <1>2, TimesAreNumbers, MinMaxOfTwo DEF FirstSeen, LastSeen
<1>4. \A n, first, t : FlashAfter(row.flash, n, first, t) \in BOOLEAN
  BY DEF FlashAfter
<1>5. /\ Counts(M).articles \in 0 .. Cardinality(Article)
      /\ Counts(M).sources \in 0 .. Cardinality(Article)
  BY CountsTyped
<1> QED
  BY <1>3, <1>4, <1>5 DEF Joined, StoryRow

LEMMA UpdatedTyped ==
    ASSUME NEW stored \in StoryRow, NEW loaded \in StoryRow, NEW new \in StoryRow
    PROVE  Updated(stored, loaded, new) \in StoryRow
  BY DEF Updated, StoryRow

LEMMA OpenedTyped ==
    ASSUME NEW a \in Article
    PROVE  Opened(a) \in StoryRow /\ Opened(a) # NoStory
<1>1. IsFiniteSet(Article) /\ Article # {}
  BY ConstantAssumption
<1>2. Cardinality(Article) \in Nat /\ Cardinality(Article) # 0
  BY <1>1, FS_CardinalityType, FS_EmptySet
<1>3. TimeOf[a] \in Time /\ 1 \in 0 .. Cardinality(Article)
  BY <1>2 DEF Time
<1>4. Opened(a) \in StoryRow
  BY <1>3 DEF Opened, StoryRow
<1> QED
  BY <1>4, RowAssumption

-----------------------------------------------------------------------------
(* What rounds keep, however they overlap.                                 *)

\* The stories of a session's index are in the database it writes.
IndexStored ==
    \A r \in Round, s \in Story :
        index[r][s] # NoStory => Base(r).story[s] # NoStory

\* A session takes no story away, and no flash.
SessionsAdd ==
    writer # NoRound => \A s \in Stories :
        /\ work.story[s] # NoStory
        /\ db.story[s].flash => work.story[s].flash

\* The session that writes is one of a round in progress.
WriterAtWork == writer # NoRound => phase[writer] # "idle"

Kept == TypeOK /\ IndexStored /\ SessionsAdd /\ WriterAtWork

\* base after a has gone to s, whose row becomes row.
Grouped(base, a, s, row) == [base EXCEPT !.of[a] = s, !.story[s] = row]

LEMMA GroupedTyped ==
    ASSUME NEW base \in Database, NEW a \in Article, NEW s \in Story, NEW row \in StoryRow
    PROVE  Grouped(base, a, s, row) \in Database
  BY DEF Grouped, Database

\* An update keeps the flash that either the session or the database knows of.
LEMMA FlashKept ==
    ASSUME NEW stored \in StoryRow, NEW loaded \in StoryRow,
           NEW M \in SUBSET Article, NEW a \in Article, stored.flash
    PROVE  Updated(stored, loaded, Joined(loaded, M, a)).flash
<1> DEFINE new == Joined(loaded, M, a)
<1>1. new \in StoryRow
  BY JoinedTyped
<1>2. new.flash = loaded.flash \/ new.flash
  <2>1. loaded.flash \in BOOLEAN
    BY DEF StoryRow
  <2>2. PICK n, first, t : new.flash = FlashAfter(loaded.flash, n, first, t)
    BY DEF Joined
  <2>3. loaded.flash = TRUE \/ loaded.flash = FALSE
    BY <2>1
  <2> HIDE DEF new
  <2>4. CASE loaded.flash = TRUE
    BY <2>2, <2>4 DEF FlashAfter
  <2>5. CASE loaded.flash = FALSE
    BY <2>2, <2>5, Zenon DEF FlashAfter
  <2> QED
    BY <2>3, <2>4, <2>5
<1> HIDE DEF new
<1>3. Updated(stored, loaded, new).flash =
          IF new.flash = loaded.flash THEN stored.flash ELSE new.flash
  BY <1>1 DEF Updated, StoryRow
<1>4. stored.flash = TRUE
  BY DEF StoryRow
<1> QED
  BY <1>2, <1>3, <1>4 DEF new

\* An article that attaches: the row of its story is there, and keeps its flash.
LEMMA AttachEffect ==
    ASSUME Kept, NEW r \in Round, NEW a \in Article, NEW s \in Story, Attach(r, a, s)
    PROVE  \E row, new \in StoryRow :
              /\ writer' = r /\ work' = Grouped(Base(r), a, s, row)
              /\ index' = [index EXCEPT ![r][s] = new]
              /\ Base(r).story[s] \in StoryRow
              /\ Base(r).story[s].flash => row.flash
<1> DEFINE base == Base(r)
           members == Members(base, s) \cup {a}
           new == Joined(index[r][s], members, a)
           row == Updated(base.story[s], index[r][s], new)
<1>1. index[r][s] \in StoryRow /\ base.story[s] \in StoryRow
  <2>1. index[r][s] # NoStory /\ base.story[s] # NoStory
    BY DEF Attach, Candidates, Kept, IndexStored
  <2>2. index[r][s] \in StoryRow \cup {NoStory} /\ base.story[s] \in StoryRow \cup {NoStory}
    BY BaseTyped DEF Kept, TypeOK, Database
  <2> QED
    BY <2>1, <2>2
<1>2. members \in SUBSET Article
  BY DEF Members
<1>3. new \in StoryRow /\ row \in StoryRow
  BY <1>1, <1>2, JoinedTyped, UpdatedTyped
<1>4. base.story[s].flash => row.flash
  BY <1>1, <1>2, FlashKept
<1>5. /\ writer' = r /\ work' = Grouped(base, a, s, row)
      /\ index' = [index EXCEPT ![r][s] = new]
  BY DEF Attach, Write, Grouped
<1> QED
  BY <1>1, <1>3, <1>4, <1>5

\* An article that opens a story takes an id nobody has.
LEMMA OpenEffect ==
    ASSUME NEW r \in Round, NEW a \in Article, NEW s \in Story, Open(r, a, s)
    PROVE  /\ writer' = r /\ work' = Grouped(Base(r), a, s, Opened(a))
           /\ index' = [index EXCEPT ![r][s] = Opened(a)]
           /\ Opened(a) \in StoryRow /\ Base(r).story[s] = NoStory
<1>1. s >= s
  BY DEF Story
<1> QED
  BY <1>1, OpenedTyped DEF Open, Write, Grouped

LEMMA AssignEffect ==
    ASSUME Kept, NEW r \in Round, NEW a \in Article, Assign(r, a)
    PROVE  \E s \in Story, row, new \in StoryRow :
              /\ writer' = r /\ work' = Grouped(Base(r), a, s, row)
              /\ index' = [index EXCEPT ![r][s] = new]
              /\ touched' = [touched EXCEPT ![r] = touched[r] \cup {s}]
              /\ Base(r).story[s] # NoStory /\ Base(r).story[s].flash => row.flash
<1>1. PICK s \in Story : /\ Attach(r, a, s) \/ Open(r, a, s)
                         /\ touched' = [touched EXCEPT ![r] = Touch(r, s)]
  BY DEF Assign
<1>2. touched' = [touched EXCEPT ![r] = touched[r] \cup {s}]
  BY <1>1 DEF Touch
<1>3. CASE Attach(r, a, s)
  BY <1>2, <1>3, AttachEffect
<1>4. CASE Open(r, a, s)
  BY <1>2, <1>4, OpenEffect
<1> QED
  BY <1>1, <1>3, <1>4

LEMMA InitKept == Init => Kept
<1> SUFFICES ASSUME Init PROVE Kept
  OBVIOUS
<1>1. EmptyDatabase \in Database /\ NoStories \in [Story -> StoryRow \cup {NoStory}]
  BY DEF EmptyDatabase, Database, NoStories
<1>2. TypeOK
  BY <1>1 DEF Init, TypeOK, Phase
<1>3. IndexStored
  BY DEF Init, IndexStored, NoStories
<1>4. SessionsAdd /\ WriterAtWork
  BY DEF Init, SessionsAdd, WriterAtWork
<1> QED
  BY <1>2, <1>3, <1>4 DEF Kept

\* The collection's transaction touches nothing rounds work on.
LEMMA ArriveKept ==
    ASSUME Kept, NEW a \in Article, Arrive(a)
    PROVE  Kept'
<1> USE DEF Kept
<1>1. db' \in Database
  BY DEF Arrive, TypeOK, Database
<1>2. TypeOK'
  BY <1>1 DEF Arrive, TypeOK, history
<1>3. db'.story = db.story
  BY DEF Arrive, TypeOK, Database
<1>4. IndexStored'
  BY <1>3 DEF Arrive, IndexStored, Base
<1>5. SessionsAdd' /\ WriterAtWork'
  BY ConstantAssumption DEF Arrive, SessionsAdd, WriterAtWork
<1> QED
  BY <1>2, <1>4, <1>5

\* Selecting rows and articles adds none.
LEMMA BeginKept ==
    ASSUME Kept, NEW r \in Round, Begin(r)
    PROVE  Kept'
<1> USE DEF Kept
<1> DEFINE batch == Newest(Pending(db))
<1>1. batch \in SUBSET Article
  BY DEF Newest, Pending, TypeOK, Database
<1>2. Indexed(db, batch) \in [Story -> StoryRow \cup {NoStory}]
  BY DEF Indexed, TypeOK, Database
<1>3. \A s \in Story : Indexed(db, batch)[s] # NoStory => db.story[s] # NoStory
  BY DEF Indexed
<1>4. /\ index' = [index EXCEPT ![r] = Indexed(db, batch)]
      /\ todo' = [todo EXCEPT ![r] = batch]
      /\ phase' = [phase EXCEPT ![r] = "clustering"]
      /\ touched' = [touched EXCEPT ![r] = {}]
      /\ phase[r] = "idle"
      /\ UNCHANGED <<db, work, writer, interrupted>>
  BY DEF Begin
<1> HIDE DEF batch
<1>5. overlapped' \in BOOLEAN
  BY DEF Begin, TypeOK
<1>6. TypeOK'
  BY <1>1, <1>2, <1>4, <1>5 DEF TypeOK, Phase
<1>7. writer # r
  BY <1>4, ConstantAssumption DEF WriterAtWork, TypeOK
<1>8. IndexStored'
  BY <1>3, <1>4, <1>7 DEF IndexStored, Base, TypeOK
<1>9. SessionsAdd' /\ WriterAtWork'
  BY <1>4, <1>7 DEF SessionsAdd, WriterAtWork, Stories, TypeOK
<1> QED
  BY <1>6, <1>8, <1>9

LEMMA AssignKept ==
    ASSUME Kept, NEW r \in Round, NEW a \in Article, Assign(r, a)
    PROVE  Kept'
<1> DEFINE base == Base(r)
<1>1. PICK s \in Story, row \in StoryRow, new \in StoryRow :
          /\ writer' = r /\ work' = Grouped(base, a, s, row)
          /\ index' = [index EXCEPT ![r][s] = new]
          /\ touched' = [touched EXCEPT ![r] = touched[r] \cup {s}]
          /\ base.story[s] # NoStory /\ base.story[s].flash => row.flash
  BY AssignEffect
<1>2. base \in Database
  BY BaseTyped DEF Kept
<1>3. work' \in Database
  BY <1>1, <1>2, GroupedTyped
<1>4. /\ UNCHANGED <<db, phase, overlapped, interrupted>>
      /\ todo' = [todo EXCEPT ![r] = todo[r] \ {a}]
      /\ phase[r] = "clustering" /\ writer \in {r, NoRound}
  BY DEF Assign, history, CanWrite
<1>5. TypeOK'
  BY <1>1, <1>3, <1>4 DEF Kept, TypeOK
<1>6. work'.story = [base.story EXCEPT ![s] = row] /\ row # NoStory
  BY <1>1, <1>2, RowAssumption DEF Grouped, Database
<1>7. \A t \in Story : base.story[t] # NoStory => work'.story[t] # NoStory
  BY <1>2, <1>6 DEF Database
<1> HIDE DEF base
<1>8. IndexStored'
  <2> SUFFICES ASSUME NEW q \in Round, NEW t \in Story, index'[q][t] # NoStory
               PROVE  Base(q)'.story[t] # NoStory
    BY DEF IndexStored
  <2>1. CASE q = r
    <3>1. t = s \/ index[r][t] # NoStory
      BY <1>1, <2>1 DEF Kept, TypeOK
    <3>2. t = s \/ base.story[t] # NoStory
      BY <3>1 DEF Kept, IndexStored, base
    <3>3. work'.story[t] # NoStory
      BY <1>2, <1>6, <1>7, <3>2 DEF Database
    <3> QED
      BY <1>1, <2>1, <3>3 DEF Base
  <2>2. CASE q # r
    <3>1. Base(q) = db /\ Base(q)' = db
      BY <1>1, <1>4, <2>2, ConstantAssumption DEF Base
    <3> QED
      BY <1>1, <2>2, <3>1 DEF Kept, TypeOK, IndexStored
  <2> QED
    BY <2>1, <2>2
<1>9. SessionsAdd'
  <2> SUFFICES ASSUME NEW t \in Stories
               PROVE  work'.story[t] # NoStory /\ (db.story[t].flash => work'.story[t].flash)
    BY <1>4 DEF SessionsAdd, Stories
  <2>1. base.story[t] # NoStory /\ (db.story[t].flash => base.story[t].flash)
    <3>1. CASE writer = r
      <4>1. writer # NoRound /\ base = work
        BY <3>1, ConstantAssumption DEF base, Base
      <4> QED
        BY <4>1 DEF Kept, SessionsAdd
    <3>2. CASE writer # r
      <4>1. base = db
        BY <3>2 DEF base, Base
      <4> QED
        BY <4>1 DEF Stories
    <3> QED
      BY <3>1, <3>2
  <2>2. t \in Story
    BY DEF Stories
  <2>3. CASE t = s
    BY <1>1, <1>2, <1>6, <2>1, <2>3 DEF Database
  <2>4. CASE t # s
    BY <1>2, <1>6, <2>1, <2>2, <2>4 DEF Database
  <2> QED
    BY <2>3, <2>4
<1>10. WriterAtWork'
  BY <1>1, <1>4 DEF WriterAtWork
<1> QED
  BY <1>5, <1>8, <1>9, <1>10 DEF Kept

\* The end of a transaction, with or without its commit.
LEMMA CommitEffect ==
    ASSUME Kept, NEW r \in Round, Commit(r)
    PROVE  /\ db' = Base(r) /\ db' \in Database /\ work' \in Database
           /\ writer' \in Round \cup {NoRound} /\ writer' # r
           /\ writer' # NoRound => writer' = writer
           /\ \A q \in Round \ {r} : writer' = q => work' = work /\ db' = db
           /\ \A s \in Stories : /\ db'.story[s] # NoStory
                                 /\ db.story[s].flash => db'.story[s].flash
<1>1. db' = Base(r) /\ db' \in Database
  BY BaseTyped DEF Commit, Kept
<1>2. CASE writer = r
  <2>1. writer' = NoRound /\ work' = EmptyDatabase /\ db' = work /\ writer # NoRound
    BY <1>1, <1>2, ConstantAssumption DEF Commit, Release, Base
  <2>2. EmptyDatabase \in Database
    BY DEF EmptyDatabase, Database, NoStories
  <2>3. \A s \in Stories : /\ db'.story[s] # NoStory
                           /\ db.story[s].flash => db'.story[s].flash
    BY <2>1 DEF Kept, SessionsAdd
  <2> QED
    BY <1>1, <2>1, <2>2, <2>3, ConstantAssumption
<1>3. CASE writer # r
  <2>1. writer' = writer /\ work' = work /\ db' = db
    BY <1>1, <1>3 DEF Commit, Release, Base
  <2>2. \A s \in Stories : /\ db'.story[s] # NoStory
                           /\ db.story[s].flash => db'.story[s].flash
    BY <2>1 DEF Stories
  <2> QED
    BY <1>1, <1>3, <2>1, <2>2 DEF Kept, TypeOK
<1> QED
  BY <1>2, <1>3

LEMMA RollbackEffect ==
    ASSUME Kept, NEW r \in Round, Release(r)
    PROVE  /\ work' \in Database
           /\ writer' \in Round \cup {NoRound} /\ writer' # r
           /\ writer' # NoRound => (writer' = writer /\ work' = work)
<1>1. EmptyDatabase \in Database
  BY DEF EmptyDatabase, Database, NoStories
<1> QED
  BY <1>1, ConstantAssumption DEF Release, Kept, TypeOK

LEMMA CommitStoriesKept ==
    ASSUME Kept, NEW r \in Round, CommitStories(r)
    PROVE  Kept'
<1>1. Commit(r)
  BY DEF CommitStories
<1>2. /\ phase' = [phase EXCEPT ![r] = IF touched[r] = {} THEN "idle" ELSE "coverage"]
      /\ todo' = [todo EXCEPT ![r] = {}]
      /\ index' = [index EXCEPT ![r] = NoStories]
      /\ UNCHANGED <<touched, overlapped, interrupted>>
  BY DEF CommitStories, history
<1>3. TypeOK'
  BY <1>1, <1>2, CommitEffect DEF Kept, TypeOK, Phase, NoStories
<1>4. IndexStored'
  <2> SUFFICES ASSUME NEW q \in Round, NEW t \in Story, index'[q][t] # NoStory
               PROVE  Base(q)'.story[t] # NoStory
    BY DEF IndexStored
  <2>1. q # r /\ index[q][t] # NoStory
    BY <1>2 DEF NoStories, Kept, TypeOK
  <2>2. Base(q).story[t] # NoStory
    BY <2>1 DEF Kept, IndexStored
  <2>3. CASE writer' = q
    BY <1>1, <2>1, <2>2, <2>3, CommitEffect, ConstantAssumption DEF Base
  <2>4. CASE writer' # q
    <3>1. Base(q)' = db' /\ Base(q) = db
      BY <1>1, <2>1, <2>4 DEF Base, Commit, Release
    <3> QED
      BY <1>1, <2>2, <3>1, CommitEffect DEF Stories
  <2> QED
    BY <2>3, <2>4
<1>5. SessionsAdd'
  <2>1. writer' # NoRound => writer' \in Round \ {r} /\ writer = writer' /\ work' = work /\ db' = db
    BY <1>1, CommitEffect
  <2> QED
    BY <2>1 DEF Kept, SessionsAdd, Stories
<1>6. WriterAtWork'
  BY <1>1, <1>2, CommitEffect DEF Kept, WriterAtWork, TypeOK
<1> QED
  BY <1>3, <1>4, <1>5, <1>6 DEF Kept

LEMMA CommitCoverageKept ==
    ASSUME Kept, NEW r \in Round, CommitCoverage(r)
    PROVE  Kept'
<1>1. Commit(r) /\ writer = r
  BY DEF CommitCoverage
<1>2. /\ phase' = [phase EXCEPT ![r] = IF touched[r] = {} THEN "idle" ELSE "coverage"]
      /\ UNCHANGED <<todo, index, touched, overlapped, interrupted>>
  BY DEF CommitCoverage, history
<1>3. TypeOK'
  BY <1>1, <1>2, CommitEffect DEF Kept, TypeOK, Phase
<1>4. writer' = NoRound
  BY <1>1, CommitEffect, ConstantAssumption
<1>5. IndexStored'
  <2> SUFFICES ASSUME NEW q \in Round, NEW t \in Story, index[q][t] # NoStory
               PROVE  db'.story[t] # NoStory
    BY <1>2, <1>4, ConstantAssumption DEF IndexStored, Base
  <2>1. Base(q).story[t] # NoStory
    BY DEF Kept, IndexStored
  <2>2. CASE q = r
    BY <1>1, <2>1, <2>2, CommitEffect
  <2>3. CASE q # r
    <3>1. t \in Stories
      BY <1>1, <2>1, <2>3 DEF Base, Stories
    <3> QED
      BY <1>1, <3>1, CommitEffect
  <2> QED
    BY <2>2, <2>3
<1>6. SessionsAdd' /\ WriterAtWork'
  BY <1>4 DEF SessionsAdd, WriterAtWork
<1> QED
  BY <1>3, <1>5, <1>6 DEF Kept

LEMMA CoverKept ==
    ASSUME Kept, NEW r \in Round, NEW s \in Story, Cover(r, s)
    PROVE  Kept'
<1> DEFINE base == Base(r)
<1>1. base \in Database
  BY BaseTyped DEF Kept
<1>2. /\ writer' = r /\ work' = [base EXCEPT !.coverage[s] = Members(base, s)]
      /\ touched' = [touched EXCEPT ![r] = touched[r] \ {s}]
      /\ UNCHANGED <<db, phase, todo, index, overlapped, interrupted>>
      /\ phase[r] = "coverage" /\ writer \in {r, NoRound}
  BY DEF Cover, Write, CanWrite, history
<1>3. work' \in Database /\ work'.story = base.story
  BY <1>1, <1>2 DEF Database, Members
<1>4. TypeOK'
  BY <1>2, <1>3 DEF Kept, TypeOK
<1> HIDE DEF base
<1>5. IndexStored'
  <2> SUFFICES ASSUME NEW q \in Round, NEW t \in Story, index[q][t] # NoStory
               PROVE  Base(q)'.story[t] # NoStory
    BY <1>2 DEF IndexStored
  <2>1. Base(q).story[t] # NoStory
    BY DEF Kept, IndexStored
  <2>2. CASE q = r
    BY <1>2, <1>3, <2>1, <2>2 DEF base, Base
  <2>3. CASE q # r
    <3>1. Base(q) = db /\ Base(q)' = db
      BY <1>2, <2>3, ConstantAssumption DEF Base
    <3> QED
      BY <2>1, <3>1
  <2> QED
    BY <2>2, <2>3
<1>6. SessionsAdd'
  <2> SUFFICES ASSUME NEW t \in Stories
               PROVE  base.story[t] # NoStory /\ (db.story[t].flash => base.story[t].flash)
    BY <1>2, <1>3 DEF SessionsAdd, Stories
  <2>1. CASE writer = r
    <3>1. writer # NoRound /\ base = work
      BY <2>1, ConstantAssumption DEF base, Base
    <3> QED
      BY <3>1 DEF Kept, SessionsAdd
  <2>2. CASE writer # r
    <3>1. base = db
      BY <2>2 DEF base, Base
    <3> QED
      BY <3>1 DEF Stories
  <2> QED
    BY <2>1, <2>2
<1>7. WriterAtWork'
  BY <1>2 DEF WriterAtWork
<1> QED
  BY <1>4, <1>5, <1>6, <1>7 DEF Kept

LEMMA RoundFailsKept ==
    ASSUME Kept, NEW r \in Round, RoundFails(r)
    PROVE  Kept'
<1>1. Release(r)
  BY DEF RoundFails
<1>2. /\ phase' = [phase EXCEPT ![r] = "idle"]
      /\ todo' = [todo EXCEPT ![r] = {}]
      /\ index' = [index EXCEPT ![r] = NoStories]
      /\ touched' = [touched EXCEPT ![r] = {}]
      /\ interrupted' \in BOOLEAN
      /\ UNCHANGED <<db, overlapped>>
  BY DEF RoundFails, Kept, TypeOK
<1>3. TypeOK'
  BY <1>1, <1>2, RollbackEffect DEF Kept, TypeOK, Phase, NoStories
<1>4. IndexStored'
  <2> SUFFICES ASSUME NEW q \in Round, NEW t \in Story, index'[q][t] # NoStory
               PROVE  Base(q)'.story[t] # NoStory
    BY DEF IndexStored
  <2>1. q # r /\ index[q][t] # NoStory
    BY <1>2 DEF NoStories, Kept, TypeOK
  <2>2. Base(q)' = Base(q)
    BY <1>1, <1>2, <2>1, ConstantAssumption DEF Base, Release
  <2> QED
    BY <2>1, <2>2 DEF Kept, IndexStored
<1>5. SessionsAdd'
  BY <1>1, <1>2, RollbackEffect DEF Kept, SessionsAdd, Stories
<1>6. WriterAtWork'
  BY <1>1, <1>2, RollbackEffect DEF Kept, WriterAtWork, TypeOK
<1> QED
  BY <1>3, <1>4, <1>5, <1>6 DEF Kept

LEMMA SkipKept ==
    ASSUME Kept, NEW r \in Round, NEW a \in Article, Skip(r, a)
    PROVE  Kept'
<1>1. /\ todo' = [todo EXCEPT ![r] = todo[r] \ {a}]
      /\ UNCHANGED <<db, work, writer, phase, index, touched, overlapped, interrupted>>
  BY DEF Skip, SkipTo, history
<1>2. TypeOK'
  BY <1>1 DEF Kept, TypeOK
<1>3. IndexStored' /\ SessionsAdd' /\ WriterAtWork'
  BY <1>1 DEF Kept, IndexStored, SessionsAdd, WriterAtWork, Stories, Base
<1> QED
  BY <1>2, <1>3 DEF Kept

LEMMA StepKept == Kept /\ [Next]_vars => Kept'
<1> SUFFICES ASSUME Kept, [Next]_vars PROVE Kept'
  OBVIOUS
<1>1. CASE Next
  <2>1. ASSUME NEW a \in Article, Arrive(a) PROVE Kept'
    BY <2>1, ArriveKept
  <2>2. ASSUME NEW r \in Round, RoundStep(r) PROVE Kept'
    BY <2>2, BeginKept, CommitStoriesKept, CommitCoverageKept, RoundFailsKept,
       AssignKept, SkipKept, CoverKept DEF RoundStep
  <2> QED
    BY <1>1, <2>1, <2>2 DEF Next
<1>2. CASE UNCHANGED vars
  <2>1. UNCHANGED <<db, work, writer, phase, todo, index, touched, overlapped, interrupted>>
    BY <1>2 DEF vars
  <2>2. TypeOK'
    BY <2>1 DEF Kept, TypeOK
  <2>3. IndexStored' /\ SessionsAdd' /\ WriterAtWork'
    BY <2>1 DEF Kept, IndexStored, SessionsAdd, WriterAtWork, Stories, Base
  <2> QED
    BY <2>2, <2>3 DEF Kept
<1> QED
  BY <1>1, <1>2

THEOREM KeptAlways == Spec => []Kept
  BY InitKept, StepKept, PTL DEF Spec

\* Type correctness of Clustering: whatever rounds overlap, every row that is
\* written has the columns and the ranges of a story (core/db/models.py, Story).
THEOREM TypeCorrect == Spec => []TypeOK
  BY KeptAlways, PTL DEF Kept

\* A "lampo" story stays so, although sessions that overlap write what they
\* read before (incremental.py, _maybe_flash): what an update writes is never
\* the loss of a flash.
THEOREM FlashStays == Spec => FlashForGood
<1>1. Kept /\ [Next]_vars =>
         \A s \in Stories : db.story[s].flash => db'.story[s].flash
  <2> SUFFICES ASSUME Kept, [Next]_vars, NEW s \in Stories, db.story[s].flash
               PROVE  db'.story[s].flash
    OBVIOUS
  <2>1. CASE db' = db
    BY <2>1
  <2>2. ASSUME NEW a \in Article, Arrive(a) PROVE db'.story[s].flash
    <3>1. db'.story = db.story
      BY <2>2 DEF Arrive, Kept, TypeOK, Database
    <3> QED
      BY <3>1
  <2>3. ASSUME NEW r \in Round, Commit(r) PROVE db'.story[s].flash
    BY <2>3, CommitEffect
  <2>4. ASSUME NEW r \in Round, RoundStep(r)
        PROVE  db' = db \/ Commit(r)
    BY <2>4 DEF RoundStep, Begin, CommitStories, CommitCoverage, RoundFails, Assign,
                Skip, Cover
  <2> QED
    BY <2>1, <2>2, <2>3, <2>4 DEF Next, vars
<1> QED
  BY <1>1, KeptAlways, PTL DEF Spec, FlashForGood

-----------------------------------------------------------------------------
(* What a round keeps as long as it runs alone.                            *)

\* The article times of a story's members.
Times(base, s) == {TimeOf[a] : a \in Members(base, s)}

\* Each member of a story that has more than one resembles another.
Resembling(M) == \A a \in M : M = {a} \/ \E b \in M \ {a} : <<a, b>> \in Resembles

\* What a database says of story s agrees with the members of s.
Agrees(base, s) ==
    /\ base.story[s] = NoStory => Members(base, s) = {}
    /\ base.story[s] # NoStory =>
          /\ Members(base, s) # {}
          /\ base.story[s].articles = Counts(Members(base, s)).articles
          /\ base.story[s].sources = Counts(Members(base, s)).sources
          /\ base.story[s].first = Min(Times(base, s))
          /\ base.story[s].last = Max(Times(base, s))
          /\ Resembling(Members(base, s))

Sound(base) == \A s \in Story : Agrees(base, s)

\* The coverage is that of the members, but for the stories that wait for it.
Covered(base, waiting) ==
    \A s \in Story : base.coverage[s] = Members(base, s) \/ s \in waiting

\* A round in progress is the only one: its index is what its database says,
\* its articles have no story yet, and the stories that wait for their coverage
\* are those it touched.
AloneWith(r) ==
    /\ \A q \in Round : phase[q] # "idle" => q = r
    /\ phase[r] = "clustering" => \A s \in Story :
          index[r][s] # NoStory => index[r][s] = Base(r).story[s]
    /\ phase[r] = "clustering" => \A a \in todo[r] : Base(r).of[a] = NoStory
    /\ Sound(Base(r))
    /\ ~interrupted => Covered(Base(r), touched[r])
    /\ ~interrupted /\ phase[r] = "clustering" => Covered(db, {})

InProgress == {r \in Round : phase[r] # "idle"}

OneAtATime ==
    ~overlapped =>
        /\ Sound(db)
        /\ \A r \in InProgress : AloneWith(r)
        /\ ~interrupted /\ InProgress = {} => Covered(db, {})

IInv == Kept /\ OneAtATime

-----------------------------------------------------------------------------
(* One more member.                                                        *)

LEMMA MembersFinite ==
    ASSUME NEW base, NEW s
    PROVE  /\ Members(base, s) \in SUBSET Article /\ IsFiniteSet(Members(base, s))
           /\ Times(base, s) \in SUBSET Nat /\ IsFiniteSet(Times(base, s))
<1> DEFINE M == Members(base, s)
           f == [a \in M |-> TimeOf[a]]
<1>1. M \in SUBSET Article
  BY DEF Members
<1>2. IsFiniteSet(M)
  BY <1>1, ConstantAssumption, FS_Subset
<1>3. f \in Surjection(M, Times(base, s))
  BY DEF Surjection, Times
<1>4. Times(base, s) \in SUBSET Nat
  BY <1>1, ConstantAssumption DEF Times
<1> QED
  BY <1>1, <1>2, <1>3, <1>4, FS_Surjection

\* The members of the stories after a has gone to s.
LEMMA GroupedMembers ==
    ASSUME NEW base \in Database, NEW a \in Article, NEW s \in Story, NEW row \in StoryRow,
           base.of[a] = NoStory
    PROVE  /\ Members(Grouped(base, a, s, row), s) = Members(base, s) \cup {a}
           /\ a \notin Members(base, s)
           /\ \A t \in Story \ {s} :
                 /\ Members(Grouped(base, a, s, row), t) = Members(base, t)
                 /\ Grouped(base, a, s, row).story[t] = base.story[t]
           /\ Grouped(base, a, s, row).story[s] = row
           /\ Grouped(base, a, s, row).coverage = base.coverage
           /\ \A b \in Article \ {a} : Grouped(base, a, s, row).of[b] = base.of[b]
<1>1. /\ Grouped(base, a, s, row).of = [base.of EXCEPT ![a] = s]
      /\ Grouped(base, a, s, row).story = [base.story EXCEPT ![s] = row]
      /\ Grouped(base, a, s, row).coverage = base.coverage
  BY DEF Grouped, Database
<1>2. /\ base.of \in [Article -> Story \cup {NoStory}]
      /\ base.story \in [Story -> StoryRow \cup {NoStory}]
  BY DEF Database
<1> QED
  BY <1>1, <1>2, ConstantAssumption DEF Members

\* Writing every column is writing the row of the session.
LEMMA UpdatedFromStored ==
    ASSUME NEW stored \in StoryRow, NEW new \in StoryRow
    PROVE  Updated(stored, stored, new) = new
  BY DEF Updated, StoryRow

\* Joining a story that agrees with its members, one of which a resembles.
LEMMA JoinAgrees ==
    ASSUME NEW base \in Database, NEW a \in Article, NEW s \in Story,
           base.of[a] = NoStory, base.story[s] \in StoryRow, Agrees(base, s),
           \E b \in Members(base, s) : <<a, b>> \in Resembles,
           NEW row \in StoryRow,
           row = Joined(base.story[s], Members(base, s) \cup {a}, a)
    PROVE  Agrees(Grouped(base, a, s, row), s)
<1> DEFINE after == Grouped(base, a, s, row)
           M == Members(base, s)
<1>1. Members(after, s) = M \cup {a} /\ a \notin M /\ after.story[s] = row
  BY GroupedMembers
<1>2. base.story[s] # NoStory /\ row # NoStory
  BY RowAssumption
<1>3. Times(after, s) = Times(base, s) \cup {TimeOf[a]}
  <2>1. Times(after, s) = {TimeOf[b] : b \in M \cup {a}}
    BY <1>1 DEF Times
  <2> QED
    BY <2>1 DEF Times
<1>4. Times(base, s) # {}
  BY <1>2 DEF Agrees, Times
<1>5. TimeOf[a] \in Nat
  BY ConstantAssumption
<1>6. /\ row.first = Min(Times(after, s))
      /\ row.last = Max(Times(after, s))
  <2>1. /\ base.story[s].first = Min(Times(base, s))
        /\ base.story[s].last = Max(Times(base, s))
    BY <1>2 DEF Agrees
  <2>2. /\ row.first = Min({base.story[s].first, TimeOf[a]})
        /\ row.last = Max({base.story[s].last, TimeOf[a]})
    BY DEF Joined, FirstSeen, LastSeen
  <2>3. /\ Min(Times(base, s) \cup {TimeOf[a]}) = Min({Min(Times(base, s)), TimeOf[a]})
        /\ Max(Times(base, s) \cup {TimeOf[a]}) = Max({Max(Times(base, s)), TimeOf[a]})
    BY <1>4, <1>5, MembersFinite, MinMaxAdded
  <2> QED
    BY <1>3, <2>1, <2>2, <2>3
<1>7. /\ row.articles = Counts(Members(after, s)).articles
      /\ row.sources = Counts(Members(after, s)).sources
  BY <1>1 DEF Joined
<1>8. Resembling(Members(after, s))
  <2>1. PICK c \in M : <<a, c>> \in Resembles
    OBVIOUS
  <2>2. <<c, a>> \in Resembles /\ c \in Article
    BY <2>1, ConstantAssumption DEF Members
  <2>3. Resembling(M)
    BY <1>2 DEF Agrees
  <2> SUFFICES ASSUME NEW d \in M \cup {a}
               PROVE  \E b \in (M \cup {a}) \ {d} : <<d, b>> \in Resembles
    BY <1>1 DEF Resembling
  <2>4. CASE d = a
    BY <1>1, <2>1, <2>4
  <2>5. CASE d = c
    BY <1>1, <2>2, <2>5
  <2>6. CASE d # a /\ d # c
    <3>1. PICK b \in M \ {d} : <<d, b>> \in Resembles
      BY <2>3, <2>6 DEF Resembling
    <3> QED
      BY <3>1
  <2> QED
    BY <2>4, <2>5, <2>6
<1> QED
  BY <1>1, <1>2, <1>6, <1>7, <1>8 DEF Agrees

\* A story that opens has one member.
LEMMA OpenAgrees ==
    ASSUME NEW base \in Database, NEW a \in Article, NEW s \in Story,
           base.of[a] = NoStory, base.story[s] = NoStory, Agrees(base, s)
    PROVE  Agrees(Grouped(base, a, s, Opened(a)), s)
<1> DEFINE after == Grouped(base, a, s, Opened(a))
<1>1. Members(after, s) = {a} /\ after.story[s] = Opened(a) /\ Opened(a) # NoStory
  BY GroupedMembers, OpenedTyped DEF Agrees
<1>2. /\ Counts({a}).articles = 1
      /\ Counts({a}).sources = 1
  <2>1. {SourceOf[b] : b \in {a}} = {SourceOf[a]}
    OBVIOUS
  <2> QED
    BY <2>1, FS_Singleton DEF Counts
<1>3. TimeOf[a] \in Nat
  BY ConstantAssumption
<1>4. Times(after, s) = {TimeOf[a]}
  BY <1>1 DEF Times
<1>5. Min({TimeOf[a]}) = TimeOf[a] /\ Max({TimeOf[a]}) = TimeOf[a]
  BY <1>3 DEF Min, Max
<1>6. /\ Opened(a).articles = 1 /\ Opened(a).sources = 1
      /\ Opened(a).first = TimeOf[a] /\ Opened(a).last = TimeOf[a]
  BY DEF Opened
<1>7. Resembling({a})
  BY DEF Resembling
<1> HIDE DEF after
<1>8. Agrees(after, s)
  BY <1>1, <1>2, <1>4, <1>5, <1>6, <1>7 DEF Agrees
<1> QED
  BY <1>8 DEF after

-----------------------------------------------------------------------------
(* The steps of rounds that run alone.                                     *)

\* A round in progress that runs alone holds the only session.
LEMMA WriterAlone ==
    ASSUME Kept, NEW r \in InProgress, AloneWith(r)
    PROVE  writer \in {r, NoRound} /\ InProgress = {r} /\ r \in Round
  BY DEF Kept, WriterAtWork, TypeOK, AloneWith, InProgress

LEMMA InitIInv == Init => IInv
<1> SUFFICES ASSUME Init PROVE OneAtATime
  BY InitKept DEF IInv
<1>1. \A s \in Story : Members(db, s) = {} /\ db.story[s] = NoStory /\ db.coverage[s] = {}
  BY ConstantAssumption DEF Init, EmptyDatabase, NoStories, Members
<1>2. Sound(db) /\ Covered(db, {})
  BY <1>1 DEF Sound, Agrees, Covered
<1>3. InProgress = {}
  BY DEF Init, InProgress
<1> QED
  BY <1>2, <1>3 DEF OneAtATime

\* Members, coverage and rows are all the invariant reads of a database.
LEMMA SameStories ==
    ASSUME NEW base, NEW other, other.of = base.of, other.story = base.story
    PROVE  /\ Sound(base) <=> Sound(other)
           /\ \A s \in Story : Members(other, s) = Members(base, s)
           /\ other.coverage = base.coverage =>
                 \A waiting : Covered(base, waiting) <=> Covered(other, waiting)
<1>1. \A s \in Story : Members(other, s) = Members(base, s) /\ Times(other, s) = Times(base, s)
  BY DEF Members, Times
<1> QED
  BY <1>1 DEF Sound, Agrees, Covered

\* What is said of a database in the next state is said of the next database.
LEMMA SaidNext ==
    ASSUME NEW r \in Round
    PROVE  /\ Sound(db)' <=> Sound(db')
           /\ Covered(db, {})' <=> Covered(db', {})
           /\ Sound(Base(r))' <=> Sound(Base(r)')
           /\ Covered(Base(r), touched[r])' <=> Covered(Base(r)', touched'[r])
  BY DEF Sound, Agrees, Covered, Members, Times

LEMMA ArriveIInv ==
    ASSUME IInv, NEW a \in Article, Arrive(a)
    PROVE  OneAtATime'
<1>1. /\ db'.of = db.of /\ db'.story = db.story /\ db'.coverage = db.coverage
      /\ UNCHANGED <<work, writer, phase, todo, index, touched, overlapped, interrupted>>
      /\ writer = NoRound
  BY DEF Arrive, history, IInv, Kept, TypeOK, Database
<1>2. \A waiting : /\ Sound(db') <=> Sound(db)
                   /\ Covered(db', waiting) <=> Covered(db, waiting)
  BY <1>1, SameStories
<1>3. InProgress' = InProgress
  BY <1>1 DEF InProgress
<1> SUFFICES ASSUME ~overlapped PROVE OneAtATime'
  BY <1>1 DEF OneAtATime
<1>4. ASSUME NEW r \in InProgress PROVE AloneWith(r)'
  <2>1. AloneWith(r) /\ r \in Round
    BY DEF IInv, OneAtATime, InProgress
  <2>2. Base(r) = db /\ Base(r)' = db'
    BY <1>1, <2>1, ConstantAssumption DEF Base
  <2> QED
    BY <1>1, <1>2, <2>1, <2>2, SaidNext DEF AloneWith
<1>5. Sound(db)' /\ (~interrupted' /\ InProgress' = {} => Covered(db, {})')
  BY <1>1, <1>2, <1>3, SaidNext DEF IInv, OneAtATime
<1> QED
  BY <1>3, <1>4, <1>5 DEF OneAtATime

LEMMA BeginIInv ==
    ASSUME IInv, NEW r \in Round, Begin(r)
    PROVE  OneAtATime'
<1> DEFINE batch == Newest(Pending(db))
<1>1. /\ phase[r] = "idle"
      /\ todo' = [todo EXCEPT ![r] = batch]
      /\ index' = [index EXCEPT ![r] = Indexed(db, batch)]
      /\ phase' = [phase EXCEPT ![r] = "clustering"]
      /\ touched' = [touched EXCEPT ![r] = {}]
      /\ overlapped' = (overlapped \/ \E q \in Round : phase[q] # "idle")
      /\ UNCHANGED <<db, work, writer, interrupted>>
  BY DEF Begin
<1>2. batch \in SUBSET Article /\ \A a \in batch : db.of[a] = NoStory
  BY DEF Newest, Pending, IInv, Kept, TypeOK, Database
<1>3. \A s \in Story : Indexed(db, batch)[s] # NoStory => Indexed(db, batch)[s] = db.story[s]
  BY DEF Indexed
<1> HIDE DEF batch
<1> SUFFICES ASSUME ~overlapped' PROVE OneAtATime'
  BY DEF OneAtATime
<1>4. ~overlapped /\ InProgress = {}
  BY <1>1 DEF InProgress
<1>5. writer = NoRound
  BY <1>4 DEF IInv, Kept, WriterAtWork, InProgress, TypeOK
<1>6. Base(r)' = db /\ InProgress' = {r}
  BY <1>1, <1>4, <1>5, ConstantAssumption DEF Base, InProgress, IInv, Kept, TypeOK
<1>7. Sound(db) /\ (~interrupted => Covered(db, {}))
  BY <1>4 DEF IInv, OneAtATime
<1>8. /\ todo'[r] = batch /\ index'[r] = Indexed(db, batch) /\ touched'[r] = {}
      /\ phase'[r] = "clustering"
      /\ \A q \in Round : phase'[q] # "idle" => q = r
  BY <1>1, <1>4 DEF IInv, Kept, TypeOK, InProgress
<1>9. /\ Sound(db)' <=> Sound(db)
      /\ Covered(db, {})' <=> Covered(db, {})
  BY <1>1, SaidNext
<1>10. AloneWith(r)'
  BY <1>1, <1>2, <1>3, <1>6, <1>7, <1>8, SaidNext DEF AloneWith
<1> QED
  BY <1>6, <1>7, <1>9, <1>10 DEF OneAtATime

\* What the session of a round in progress alone reads, and what is committed.
LEMMA AloneBase ==
    ASSUME IInv, ~overlapped, NEW r \in Round, phase[r] # "idle"
    PROVE  /\ AloneWith(r) /\ Sound(db) /\ InProgress = {r}
           /\ writer \in {r, NoRound} /\ (writer # NoRound => writer = r)
           /\ Base(r) \in Database
<1>1. r \in InProgress /\ AloneWith(r) /\ Sound(db)
  BY DEF InProgress, IInv, OneAtATime
<1> QED
  BY <1>1, WriterAlone, BaseTyped DEF IInv, Kept

LEMMA AssignIInv ==
    ASSUME IInv, NEW r \in Round, NEW a \in Article, Assign(r, a)
    PROVE  OneAtATime'
<1> DEFINE base == Base(r)
<1>1. /\ UNCHANGED <<db, phase, overlapped, interrupted>>
      /\ todo' = [todo EXCEPT ![r] = todo[r] \ {a}]
      /\ phase[r] = "clustering" /\ a \in todo[r]
  BY DEF Assign, history, IsNext
<1> SUFFICES ASSUME ~overlapped PROVE OneAtATime'
  BY <1>1 DEF OneAtATime
<1>2. /\ AloneWith(r) /\ Sound(db) /\ InProgress = {r} /\ base \in Database
  BY <1>1, AloneBase
<1>3. /\ base.of[a] = NoStory /\ Sound(base)
      /\ \A s \in Story : index[r][s] # NoStory => index[r][s] = base.story[s]
      /\ ~interrupted => Covered(base, touched[r]) /\ Covered(db, {})
  BY <1>1, <1>2 DEF AloneWith
<1>4. PICK s \in Story : /\ Attach(r, a, s) \/ Open(r, a, s)
                         /\ touched' = [touched EXCEPT ![r] = touched[r] \cup {s}]
  BY DEF Assign, Touch
<1>5. \E row \in StoryRow :
          /\ writer' = r /\ work' = Grouped(base, a, s, row)
          /\ index' = [index EXCEPT ![r][s] = row]
          /\ Agrees(Grouped(base, a, s, row), s)
  <2>1. CASE Attach(r, a, s)
    <3> DEFINE new == Joined(index[r][s], Members(base, s) \cup {a}, a)
    <3>1. /\ index[r][s] # NoStory
          /\ \E b \in Members(base, s) : <<a, b>> \in Resembles
          /\ writer' = r
          /\ work' = Grouped(base, a, s, Updated(base.story[s], index[r][s], new))
          /\ index' = [index EXCEPT ![r][s] = new]
      BY <2>1 DEF Attach, Candidates, Write, Grouped
    <3>2. index[r][s] = base.story[s] /\ base.story[s] \in StoryRow
      BY <1>2, <1>3, <3>1 DEF Database
    <3>3. new \in StoryRow /\ new = Joined(base.story[s], Members(base, s) \cup {a}, a)
      BY <3>2, MembersFinite, JoinedTyped
    <3> HIDE DEF new, base
    <3>4. work' = Grouped(base, a, s, new)
      BY <3>1, <3>2, <3>3, UpdatedFromStored
    <3>5. Agrees(base, s)
      BY <1>3 DEF Sound
    <3>6. Agrees(Grouped(base, a, s, new), s)
      BY <1>2, <1>3, <3>1, <3>2, <3>3, <3>5, JoinAgrees
    <3> QED
      BY <3>1, <3>3, <3>4, <3>6
  <2>2. CASE Open(r, a, s)
    <3>1. Agrees(base, s)
      BY <1>3 DEF Sound
    <3> QED
      BY <1>2, <1>3, <2>2, <3>1, OpenEffect, OpenAgrees
  <2> QED
    BY <1>4, <2>1, <2>2
<1>6. PICK row \in StoryRow :
          /\ writer' = r /\ work' = Grouped(base, a, s, row)
          /\ index' = [index EXCEPT ![r][s] = row]
          /\ Agrees(Grouped(base, a, s, row), s)
  BY <1>5
<1> HIDE DEF base
<1>7. /\ Members(work', s) = Members(base, s) \cup {a}
      /\ \A t \in Story \ {s} : /\ Members(work', t) = Members(base, t)
                                /\ work'.story[t] = base.story[t]
      /\ work'.story[s] = row
      /\ work'.coverage = base.coverage
      /\ \A b \in Article \ {a} : work'.of[b] = base.of[b]
  BY <1>2, <1>3, <1>6, GroupedMembers
<1>8. Sound(work')
  <2> SUFFICES ASSUME NEW t \in Story PROVE Agrees(work', t)
    BY DEF Sound
  <2>1. CASE t = s
    BY <1>6, <2>1
  <2>2. CASE t # s
    <3>1. Agrees(base, t)
      BY <1>3 DEF Sound
    <3>2. Times(work', t) = Times(base, t)
      BY <1>7, <2>2 DEF Times
    <3> QED
      BY <1>7, <2>2, <3>1, <3>2 DEF Agrees
  <2> QED
    BY <2>1, <2>2
<1>9. touched'[r] = touched[r] \cup {s}
  BY <1>4 DEF IInv, Kept, TypeOK
<1>10. ~interrupted => Covered(work', touched'[r])
  BY <1>3, <1>7, <1>9 DEF Covered
<1>11. Base(r)' = work'
  BY <1>6 DEF Base
<1>12. ASSUME NEW t \in Story, index'[r][t] # NoStory
       PROVE  index'[r][t] = work'.story[t]
  <2>1. CASE t = s
    BY <1>6, <1>7, <2>1 DEF IInv, Kept, TypeOK
  <2>2. CASE t # s
    <3>1. index'[r][t] = index[r][t]
      BY <1>6, <2>2 DEF IInv, Kept, TypeOK
    <3> QED
      BY <1>3, <1>7, <1>12, <2>2, <3>1
  <2> QED
    BY <2>1, <2>2
<1>13. ASSUME NEW b \in todo'[r] PROVE work'.of[b] = NoStory
  <2>1. b \in todo[r] /\ b # a /\ b \in Article
    BY <1>1, <1>13 DEF IInv, Kept, TypeOK
  <2>2. base.of[b] = NoStory
    BY <1>1, <1>2, <2>1 DEF AloneWith, base
  <2> QED
    BY <1>7, <2>1, <2>2
<1>14. AloneWith(r)'
  <2>1. \A q \in Round : phase'[q] # "idle" => q = r
    BY <1>1, <1>2 DEF AloneWith
  <2>2. ~interrupted' => Covered(db, {})'
    BY <1>1, <1>3, SaidNext
  <2> QED
    BY <1>1, <1>8, <1>10, <1>11, <1>12, <1>13, <2>1, <2>2, SaidNext DEF AloneWith
<1>15. Sound(db)' /\ InProgress' = {r}
  BY <1>1, <1>2, SaidNext DEF InProgress
<1> QED
  BY <1>14, <1>15 DEF OneAtATime

LEMMA SkipIInv ==
    ASSUME IInv, NEW r \in Round, NEW a \in Article, Skip(r, a)
    PROVE  OneAtATime'
<1>1. /\ todo' = [todo EXCEPT ![r] = todo[r] \ {a}]
      /\ UNCHANGED <<db, work, writer, phase, index, touched, overlapped, interrupted>>
      /\ phase[r] = "clustering"
  BY DEF Skip, SkipTo, history
<1> SUFFICES ASSUME ~overlapped PROVE OneAtATime'
  BY <1>1 DEF OneAtATime
<1>2. AloneWith(r) /\ Sound(db) /\ InProgress = {r}
  BY <1>1, AloneBase
<1>3. Base(r)' = Base(r) /\ todo'[r] \subseteq todo[r] /\ InProgress' = {r}
  BY <1>1, <1>2 DEF Base, InProgress, IInv, Kept, TypeOK
<1>4. AloneWith(r)'
  BY <1>1, <1>2, <1>3, SaidNext DEF AloneWith
<1>5. Sound(db)'
  BY <1>1, <1>2, SaidNext
<1> QED
  BY <1>3, <1>4, <1>5 DEF OneAtATime

\* After its commit a round alone finds what it wrote.
LEMMA CommitAlone ==
    ASSUME IInv, ~overlapped, NEW r \in Round, phase[r] # "idle", Commit(r),
           NEW next \in {"idle", "coverage"}, next = IF touched[r] = {} THEN "idle" ELSE "coverage",
           phase' = [phase EXCEPT ![r] = next],
           UNCHANGED <<touched, overlapped, interrupted>>
    PROVE  OneAtATime'
<1>1. AloneWith(r) /\ InProgress = {r} /\ (writer # NoRound => writer = r)
  BY AloneBase
<1>2. writer' = NoRound /\ db' = Base(r)
  BY <1>1, CommitEffect, ConstantAssumption DEF IInv
<1>3. Base(r)' = db'
  BY <1>2, ConstantAssumption DEF Base
<1>4. Sound(db') /\ (~interrupted => Covered(db', touched[r]))
  BY <1>1, <1>2 DEF AloneWith
<1>5. phase'[r] = next /\ InProgress' \subseteq {r} /\ (InProgress' = {} <=> next = "idle")
  BY <1>1 DEF InProgress, IInv, Kept, TypeOK
<1>6. ~interrupted' /\ InProgress' = {} => Covered(db, {})'
  BY <1>4, <1>5, SaidNext
<1>7. ASSUME NEW q \in InProgress' PROVE AloneWith(q)'
  <2>1. q = r /\ phase'[r] # "clustering"
    BY <1>5, <1>7
  <2>2. \A p \in Round : phase'[p] # "idle" => p = r
    BY <1>5 DEF InProgress
  <2> QED
    BY <1>3, <1>4, <2>1, <2>2, SaidNext DEF AloneWith
<1>8. Sound(db)'
  BY <1>4, SaidNext
<1> QED
  BY <1>6, <1>7, <1>8 DEF OneAtATime

LEMMA CommitStoriesIInv ==
    ASSUME IInv, NEW r \in Round, CommitStories(r)
    PROVE  OneAtATime'
<1>1. UNCHANGED <<touched, overlapped, interrupted>> /\ phase[r] # "idle" /\ Commit(r)
  BY DEF CommitStories, history
<1> QED
  BY <1>1, CommitAlone DEF CommitStories, OneAtATime

LEMMA CommitCoverageIInv ==
    ASSUME IInv, NEW r \in Round, CommitCoverage(r)
    PROVE  OneAtATime'
<1>1. UNCHANGED <<touched, overlapped, interrupted>> /\ phase[r] # "idle" /\ Commit(r)
  BY DEF CommitCoverage, history
<1> QED
  BY <1>1, CommitAlone DEF CommitCoverage, OneAtATime

LEMMA CoverIInv ==
    ASSUME IInv, NEW r \in Round, NEW s \in Story, Cover(r, s)
    PROVE  OneAtATime'
<1> DEFINE base == Base(r)
<1>1. /\ writer' = r /\ work' = [base EXCEPT !.coverage[s] = Members(base, s)]
      /\ touched' = [touched EXCEPT ![r] = touched[r] \ {s}]
      /\ UNCHANGED <<db, phase, todo, index, overlapped, interrupted>>
      /\ phase[r] = "coverage"
  BY DEF Cover, Write, history
<1> SUFFICES ASSUME ~overlapped PROVE OneAtATime'
  BY <1>1 DEF OneAtATime
<1>2. AloneWith(r) /\ Sound(db) /\ InProgress = {r} /\ base \in Database
  BY <1>1, AloneBase
<1>3. Sound(base) /\ (~interrupted => Covered(base, touched[r]))
  BY <1>2 DEF AloneWith
<1>4. Base(r)' = work' /\ touched'[r] = touched[r] \ {s} /\ InProgress' = {r}
  BY <1>1, <1>2 DEF Base, InProgress, IInv, Kept, TypeOK
<1> HIDE DEF base
<1>5. /\ work'.of = base.of /\ work'.story = base.story
      /\ work'.coverage = [base.coverage EXCEPT ![s] = Members(base, s)]
      /\ base.coverage \in [Story -> SUBSET Article]
  BY <1>1, <1>2 DEF Database
<1>6. Sound(work') /\ \A t \in Story : Members(work', t) = Members(base, t)
  BY <1>3, <1>5, SameStories
<1>7. ~interrupted => Covered(work', touched'[r])
  BY <1>3, <1>4, <1>5, <1>6 DEF Covered
<1>8. AloneWith(r)'
  <2>1. \A q \in Round : phase'[q] # "idle" => q = r
    BY <1>1, <1>2 DEF AloneWith
  <2> QED
    BY <1>1, <1>4, <1>6, <1>7, <2>1, SaidNext DEF AloneWith
<1>9. Sound(db)'
  BY <1>1, <1>2, SaidNext
<1> QED
  BY <1>4, <1>8, <1>9 DEF OneAtATime

LEMMA RoundFailsIInv ==
    ASSUME IInv, NEW r \in Round, RoundFails(r)
    PROVE  OneAtATime'
<1>1. /\ phase' = [phase EXCEPT ![r] = "idle"]
      /\ interrupted' = (interrupted \/ phase[r] = "coverage")
      /\ UNCHANGED <<db, overlapped>>
      /\ phase[r] # "idle"
  BY DEF RoundFails
<1> SUFFICES ASSUME ~overlapped PROVE OneAtATime'
  BY <1>1 DEF OneAtATime
<1>2. AloneWith(r) /\ Sound(db) /\ InProgress = {r}
  BY <1>1, AloneBase
<1>3. InProgress' = {}
  BY <1>1, <1>2 DEF InProgress, IInv, Kept, TypeOK
<1>4. ASSUME ~interrupted' PROVE Covered(db, {})
  <2>1. ~interrupted /\ phase[r] = "clustering"
    BY <1>1, <1>4 DEF IInv, Kept, TypeOK, Phase
  <2> QED
    BY <1>2, <2>1 DEF AloneWith
<1> QED
  BY <1>1, <1>2, <1>3, <1>4, SaidNext DEF OneAtATime

LEMMA StepIInv == IInv /\ [Next]_vars => IInv'
<1> SUFFICES ASSUME IInv, [Next]_vars PROVE OneAtATime'
  BY StepKept DEF IInv
<1>1. CASE Next
  <2>1. ASSUME NEW a \in Article, Arrive(a) PROVE OneAtATime'
    BY <2>1, ArriveIInv
  <2>2. ASSUME NEW r \in Round, RoundStep(r) PROVE OneAtATime'
    BY <2>2, BeginIInv, CommitStoriesIInv, CommitCoverageIInv, RoundFailsIInv,
       AssignIInv, SkipIInv, CoverIInv DEF RoundStep
  <2> QED
    BY <1>1, <2>1, <2>2 DEF Next
<1>2. CASE UNCHANGED vars
  <2>1. UNCHANGED <<db, work, writer, phase, todo, index, touched, overlapped, interrupted>>
    BY <1>2 DEF vars
  <2>2. InProgress' = InProgress /\ \A r \in Round : Base(r)' = Base(r)
    BY <2>1 DEF InProgress, Base
  <2>3. ASSUME NEW r \in Round, AloneWith(r) PROVE AloneWith(r)'
    BY <2>1, <2>2, <2>3, SaidNext DEF AloneWith
  <2>4. ASSUME ~overlapped PROVE Sound(db)' /\ (~interrupted /\ InProgress = {} => Covered(db, {})')
    <3>1. Sound(db) <=> Sound(db')
      BY <2>1
    <3>2. Covered(db, {}) <=> Covered(db', {})
      BY <2>1
    <3> QED
      BY <2>4, <3>1, <3>2, SaidNext DEF IInv, OneAtATime
  <2> QED
    BY <2>1, <2>2, <2>3, <2>4 DEF IInv, OneAtATime, InProgress
<1> QED
  BY <1>1, <1>2

THEOREM IInvAlways == Spec => []IInv
  BY InitIInv, StepIInv, PTL DEF Spec

\* The counts of a story are those of its members, as long as rounds do not
\* overlap (incremental.py, _refresh_counts).
THEOREM CountsOfMembers == Spec => []CountsMatchMembers
<1>1. IInv => CountsMatchMembers
  BY DEF IInv, OneAtATime, Sound, Agrees, Counts, CountsMatchMembers, Stories
<1> QED
  BY <1>1, IInvAlways, PTL

\* first_seen and last_seen are the times of the first and of the last member,
\* in whatever order the articles come (incremental.py, assign_story).
THEOREM SpanOfMembers == Spec => []SpanMatchesMembers
<1>1. IInv => SpanMatchesMembers
  BY DEF IInv, OneAtATime, Sound, Agrees, Times, SpanMatchesMembers, Stories
<1> QED
  BY <1>1, IInvAlways, PTL

\* Each article of a story of several resembles another of them, whatever the
\* centroids say (incremental.py, the second criterion).
THEOREM MembersAreAlike == Spec => []MembersResemble
<1>1. IInv => MembersResemble
  BY DEF IInv, OneAtATime, Sound, Agrees, Resembling, MembersResemble, Stories
<1> QED
  BY <1>1, IInvAlways, PTL

\* When no round is in progress the coverage of every story is that of its
\* members, unless a round died between its two commits (core/cluster/coverage.py).
THEOREM CoverageOfMembers == Spec => []CoverageCurrent
<1>1. IInv => CoverageCurrent
  BY DEF IInv, OneAtATime, Covered, CoverageCurrent, Stories, InProgress
<1> QED
  BY <1>1, IInvAlways, PTL

-----------------------------------------------------------------------------
(* Clustering implements Grouping.                                         *)

\* What a session may add to what is committed: a story to articles that are
\* stored and have none, and lampo to the stories they go to.
Adds(old, new) ==
    /\ new.arrived = old.arrived
    /\ \A a \in Article : \/ new.of[a] = old.of[a]
                          \/ a \in old.arrived /\ old.of[a] = NoStory
    /\ Flashed(old) \subseteq Flashed(new)
    /\ \A s \in Flashed(new) \ Flashed(old) :
          \E a \in Article : old.of[a] = NoStory /\ new.of[a] = s

\* Rounds have only articles that are stored, and the session that writes adds.
SessionsGroup ==
    ~overlapped =>
        /\ \A r \in Round : todo[r] \subseteq db.arrived
        /\ writer # NoRound => Adds(db, work)

GInv == IInv /\ SessionsGroup

LEMMA AddsNothing ==
    ASSUME NEW base
    PROVE  Adds(base, base)
  BY DEF Adds

LEMMA BaseAdds ==
    ASSUME GInv, ~overlapped, NEW r \in Round
    PROVE  Adds(db, Base(r))
<1>1. CASE writer = r
  BY <1>1, ConstantAssumption DEF GInv, SessionsGroup, Base
<1>2. CASE writer # r
  BY <1>2, AddsNothing DEF Base
<1> QED
  BY <1>1, <1>2

\* The lampo stories of the next database are those of the database primed.
LEMMA FlashedNext == /\ Flashed(db)' = Flashed(db')
                     /\ Flashed(work)' = Flashed(work')
                     /\ Adds(db, work)' <=> Adds(db', work')
  BY DEF Flashed, Adds

LEMMA AssignAdds ==
    ASSUME GInv, ~overlapped, NEW r \in Round, NEW a \in Article, Assign(r, a)
    PROVE  SessionsGroup'
<1> DEFINE base == Base(r)
<1>1. /\ phase[r] = "clustering" /\ a \in todo[r]
      /\ todo' = [todo EXCEPT ![r] = todo[r] \ {a}]
      /\ UNCHANGED <<db, overlapped>>
  BY DEF Assign, history, IsNext
<1>2. AloneWith(r) /\ base \in Database
  BY <1>1, AloneBase DEF GInv
<1>3. base.of[a] = NoStory /\ Adds(db, base)
  BY <1>1, <1>2, BaseAdds DEF AloneWith
<1>4. db \in Database /\ todo \in [Round -> SUBSET Article] /\ a \in db.arrived
  BY <1>1 DEF GInv, IInv, Kept, TypeOK, SessionsGroup
<1>5. db.of[a] = NoStory
  BY <1>3 DEF Adds
<1>6. PICK s \in Story, row \in StoryRow :
        /\ writer' = r /\ work' = Grouped(base, a, s, row)
        /\ base.story[s] # NoStory /\ base.story[s].flash => row.flash
  BY <1>1, AssignEffect DEF GInv, IInv
<1> HIDE DEF base
<1>7. /\ work'.arrived = base.arrived
      /\ work'.of = [base.of EXCEPT ![a] = s]
      /\ work'.story = [base.story EXCEPT ![s] = row]
  BY <1>2, <1>6 DEF Grouped, Database
<1>8. /\ Flashed(base) \subseteq Flashed(work')
      /\ Flashed(work') \subseteq Flashed(base) \cup {s}
  BY <1>2, <1>6, <1>7, RowAssumption DEF Flashed, Database
<1>9. Adds(db, work')
  <2>1. work'.arrived = db.arrived /\ Flashed(db) \subseteq Flashed(work')
    BY <1>3, <1>7, <1>8 DEF Adds
  <2>2. \A b \in Article : \/ work'.of[b] = db.of[b]
                           \/ b \in db.arrived /\ db.of[b] = NoStory
    BY <1>2, <1>3, <1>4, <1>5, <1>7 DEF Adds, Database
  <2>3. ASSUME NEW t \in Flashed(work') \ Flashed(db)
        PROVE  \E b \in Article : db.of[b] = NoStory /\ work'.of[b] = t
    <3>1. CASE t = s
      BY <1>2, <1>5, <1>7, <3>1 DEF Database
    <3>2. CASE t # s
      <4>1. PICK b \in Article : db.of[b] = NoStory /\ base.of[b] = t
        BY <1>3, <1>8, <2>3, <3>2 DEF Adds
      <4>2. b # a
        BY <1>3, <2>3, <4>1, ConstantAssumption DEF Flashed
      <4> QED
        BY <1>2, <1>7, <4>1, <4>2 DEF Database
    <3> QED
      BY <3>1, <3>2
  <2> QED
    BY <2>1, <2>2, <2>3 DEF Adds
<1>10. \A q \in Round : todo'[q] \subseteq db'.arrived
  BY <1>1, <1>4 DEF GInv, SessionsGroup
<1> QED
  BY <1>1, <1>9, <1>10, FlashedNext DEF SessionsGroup

LEMMA CoverAdds ==
    ASSUME GInv, ~overlapped, NEW r \in Round, NEW s \in Story, Cover(r, s)
    PROVE  SessionsGroup'
<1> DEFINE base == Base(r)
<1>1. /\ work' = [base EXCEPT !.coverage[s] = Members(base, s)]
      /\ phase[r] = "coverage" /\ UNCHANGED <<db, todo, overlapped>>
  BY DEF Cover, Write, history
<1>2. base \in Database /\ Adds(db, base)
  BY <1>1, AloneBase, BaseAdds DEF GInv
<1> HIDE DEF base
<1>3. work'.arrived = base.arrived /\ work'.of = base.of /\ work'.story = base.story
  BY <1>1, <1>2 DEF Database
<1>4. Adds(db, work')
  BY <1>2, <1>3 DEF Adds, Flashed
<1> QED
  BY <1>1, <1>4, FlashedNext DEF SessionsGroup, GInv

LEMMA CommitAdds ==
    ASSUME GInv, ~overlapped, NEW r \in Round, phase[r] # "idle", Commit(r),
           todo' \in {todo, [todo EXCEPT ![r] = {}]}
    PROVE  Adds(db, db') /\ SessionsGroup'
<1>1. writer # NoRound => writer = r
  BY AloneBase DEF GInv
<1>2. writer' = NoRound /\ db' = Base(r)
  BY <1>1, CommitEffect, ConstantAssumption DEF GInv, IInv
<1>3. Adds(db, db')
  BY <1>2, BaseAdds
<1>4. \A q \in Round : todo'[q] \subseteq db'.arrived
  BY <1>3 DEF GInv, IInv, Kept, TypeOK, SessionsGroup, Adds
<1> QED
  BY <1>2, <1>3, <1>4 DEF SessionsGroup

LEMMA GroupingStays == GInv /\ [Next]_vars => GInv'
<1> SUFFICES ASSUME GInv, [Next]_vars, ~overlapped' PROVE SessionsGroup'
  BY StepIInv DEF GInv, SessionsGroup
<1>1. ASSUME NEW a \in Article, Arrive(a) PROVE SessionsGroup'
  <2>1. /\ db'.arrived = db.arrived \cup {a} /\ writer' = NoRound
        /\ UNCHANGED <<todo, overlapped>>
    BY <1>1 DEF Arrive, history, GInv, IInv, Kept, TypeOK, Database
  <2> QED
    BY <2>1 DEF SessionsGroup, GInv
<1>2. ASSUME NEW r \in Round, Begin(r) PROVE SessionsGroup'
  <2>1. /\ todo' = [todo EXCEPT ![r] = Newest(Pending(db))]
        /\ ~overlapped /\ \A q \in Round : phase[q] = "idle"
        /\ UNCHANGED <<db, writer>>
    BY <1>2 DEF Begin
  <2>2. Newest(Pending(db)) \subseteq db.arrived
    BY DEF Newest, Pending
  <2>3. writer' = NoRound
    BY <2>1 DEF GInv, IInv, Kept, WriterAtWork, TypeOK
  <2> QED
    BY <2>1, <2>2, <2>3 DEF SessionsGroup, GInv, IInv, Kept, TypeOK
<1>3. ASSUME NEW r \in Round, CommitStories(r) \/ CommitCoverage(r) PROVE SessionsGroup'
  <2>1. /\ phase[r] # "idle" /\ Commit(r) /\ ~overlapped
        /\ todo' \in {todo, [todo EXCEPT ![r] = {}]}
    BY <1>3 DEF CommitStories, CommitCoverage, history
  <2> QED
    BY <2>1, CommitAdds
<1>4. ASSUME NEW r \in Round, RoundFails(r) PROVE SessionsGroup'
  <2>1. /\ phase[r] # "idle" /\ Release(r) /\ ~overlapped
        /\ todo' = [todo EXCEPT ![r] = {}] /\ UNCHANGED db
    BY <1>4 DEF RoundFails
  <2>2. writer # NoRound => writer = r
    BY <2>1, AloneBase DEF GInv
  <2>3. writer' = NoRound
    BY <2>1, <2>2 DEF Release
  <2> QED
    BY <2>1, <2>3 DEF SessionsGroup, GInv, IInv, Kept, TypeOK
<1>5. ASSUME NEW r \in Round, NEW a \in Article, Skip(r, a) PROVE SessionsGroup'
  <2>1. /\ todo' = [todo EXCEPT ![r] = todo[r] \ {a}]
        /\ UNCHANGED <<db, work, writer, overlapped>>
    BY <1>5 DEF Skip, SkipTo, history
  <2> QED
    BY <2>1, FlashedNext DEF SessionsGroup, GInv, IInv, Kept, TypeOK
<1>6. ASSUME NEW r \in Round, NEW a \in Article, Assign(r, a) PROVE SessionsGroup'
  BY <1>6, AssignAdds DEF Assign, history
<1>7. ASSUME NEW r \in Round, NEW s \in Story, Cover(r, s) PROVE SessionsGroup'
  BY <1>7, CoverAdds DEF Cover, history
<1>8. CASE UNCHANGED vars
  BY <1>8, FlashedNext DEF vars, SessionsGroup, GInv
<1> QED
  BY <1>1, <1>2, <1>3, <1>4, <1>5, <1>6, <1>7, <1>8 DEF Next, RoundStep

LEMMA GroupingAlways == Spec => []GInv
<1>1. Init => GInv
  BY InitIInv, ConstantAssumption DEF Init, GInv, SessionsGroup
<1> QED
  BY <1>1, GroupingStays, PTL DEF Spec

\* What a commit adds is a step of Grouping.
LEMMA AddsGroups ==
    ASSUME db \in Database, db' \in Database, Adds(db, db')
    PROVE  Grouping!Group
<1> DEFINE new == {a \in Article : db.of[a] = NoStory /\ db'.of[a] # NoStory}
           to == [a \in new |-> db'.of[a]]
           hasty == Flashed(db') \ Flashed(db)
<1>1. new \in SUBSET {a \in db.arrived : db.of[a] = NoStory}
  BY DEF Adds
<1>2. to \in [new -> Story]
  BY DEF Database
<1>3. db'.of = [a \in Article |-> IF a \in new THEN to[a] ELSE db.of[a]]
  BY DEF Adds, Database
<1>4. hasty \in SUBSET {to[a] : a \in new}
  BY ConstantAssumption DEF Adds, Flashed
<1>5. Flashed(db)' = Flashed(db) \cup hasty
  BY FlashedNext DEF Adds
<1>6. db'.arrived = db.arrived
  BY DEF Adds
<1> HIDE DEF new, to, hasty
<1> QED
  BY <1>1, <1>2, <1>3, <1>4, <1>5, <1>6 DEF Grouping!Group

LEMMA StepGroups ==
    GInv /\ GInv' /\ ~overlapped' /\ [Next]_vars
        => [Grouping!Next]_(<<db.arrived, db.of, Flashed(db)>>)
<1> SUFFICES ASSUME GInv, GInv', ~overlapped', [Next]_vars,
                    ~ UNCHANGED <<db.arrived, db.of, Flashed(db)>>
             PROVE  Grouping!Next
  OBVIOUS
<1>1. db \in Database /\ db' \in Database
  BY DEF GInv, IInv, Kept, TypeOK
<1>2. db' # db
  BY FlashedNext
<1>3. ASSUME NEW a \in Article, Arrive(a) PROVE Grouping!Collect(a)
  <2>1. /\ a \notin db.arrived /\ db'.arrived = db.arrived \cup {a}
        /\ db'.of = db.of /\ db'.story = db.story
    BY <1>1, <1>3 DEF Arrive, Database
  <2>2. Flashed(db)' = Flashed(db)
    BY <2>1, FlashedNext DEF Flashed
  <2> QED
    BY <2>1, <2>2 DEF Grouping!Collect
<1>4. ASSUME NEW r \in Round, RoundStep(r) PROVE Grouping!Group
  <2>1. CommitStories(r) \/ CommitCoverage(r)
    BY <1>2, <1>4 DEF RoundStep, Begin, RoundFails, Assign, Skip, Cover
  <2>2. /\ phase[r] # "idle" /\ Commit(r) /\ ~overlapped
        /\ todo' \in {todo, [todo EXCEPT ![r] = {}]}
    BY <2>1 DEF CommitStories, CommitCoverage, history
  <2>3. Adds(db, db')
    BY <2>2, CommitAdds
  <2> QED
    BY <1>1, <2>3, AddsGroups
<1> QED
  BY <1>2, <1>3, <1>4 DEF Next, vars, Grouping!Next

\* cluster_job as the rest of the program sees it (analyze.py, cluster_job): while
\* rounds do not overlap, through failures, rollbacks and two commits a round, an
\* article gets a story once and for all, and lampo comes with one and stays.
THEOREM GroupingImplemented == Spec /\ []~overlapped => GroupedOnce
<1>1. Init => Grouping!Init
  BY DEF Init, EmptyDatabase, NoStories, Flashed, Grouping!Init
<1> QED
  BY <1>1, StepGroups, GroupingAlways, PTL DEF Spec, GroupedOnce, Grouping!Spec, Grouping!grouping
=============================================================================
