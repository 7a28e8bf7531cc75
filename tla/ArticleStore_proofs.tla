------------------------ MODULE ArticleStore_proofs ------------------------
(***************************************************************************)
(* Proofs about ArticleStore, for any addresses, outlets, editions and     *)
(* collectors of feeds and of GDELT: type correctness, what is not stored  *)
(* twice, and that the store implements the archive.                       *)
(***************************************************************************)
EXTENDS ArticleStore, FiniteSetTheorems, SequenceTheorems, TLAPS

-----------------------------------------------------------------------------
(* What is true of a table of articles, committed or not.                  *)

Later(rows, u) ==
    {w \in Stored(rows) : rows[w].source = rows[u].source /\ rows[w].id > rows[u].id}

IdsFit(rows) == \A u \in Stored(rows) : rows[u].id <= Cardinality(Stored(rows))

NoTwinsIn(rows) ==
    \A u, v \in Stored(rows) :
        PageOf[u] = PageOf[v] /\ rows[u].id < rows[v].id
            => rows[v].via = "gdelt" \/ u \notin rows[v].knew

BetweenIn(rows, u, v) ==
    {w \in Stored(rows) : rows[w].source = rows[u].source
                          /\ rows[w].id \in (rows[u].id + 1)..(rows[v].id - 1)}

\* v repeats u and its collector had to see it.
Repeats(rows, u, v) ==
    /\ rows[u].source = rows[v].source /\ rows[u].id < rows[v].id
    /\ rows[v].via # "gdelt" /\ u \in rows[v].knew
    /\ ~ rows[u].corrected /\ ~ rows[v].corrected
    /\ Cardinality(BetweenIn(rows, u, v)) < RecentLimit

NoNearIn(rows) ==
    \A u, v \in Stored(rows) : Repeats(rows, u, v)
        => <<rows[u].wording.title, rows[v].wording.title>> \notin Alike

Good(rows) == rows \in Rows /\ IdsFit(rows) /\ NoTwinsIn(rows) /\ NoNearIn(rows)

\* Between two states of the table rows stay, and change their words only as
\* corrections do.
Extends(old, new) ==
    \A u \in Stored(old) :
        /\ u \in Stored(new)
        /\ new[u].id = old[u].id /\ new[u].source = old[u].source
        /\ old[u].corrected => new[u].corrected
        /\ new[u].wording # old[u].wording => ~ old[u].wording.snippet /\ new[u].corrected

\* What a session has looked up covers what it must not repeat.
Covers(rows, own) ==
    /\ own.known \subseteq Stored(rows)
    /\ \A u \in own.known :
          rows[u].source = own.source /\ ~ rows[u].corrected
              => \/ rows[u].wording.title \in own.recent
                 \/ Cardinality(Later(rows, u)) >= RecentLimit

LEMMA StoredFinite ==
    ASSUME NEW rows
    PROVE  /\ IsFiniteSet(Stored(rows)) /\ Cardinality(Stored(rows)) \in Nat
           /\ Cardinality(Stored(rows)) <= Cardinality(Url)
           /\ Cardinality(Url) \in Nat
           /\ \A u \in Url : u \notin Stored(rows)
                 => Cardinality(Stored(rows)) < Cardinality(Url)
<1>1. Stored(rows) \in SUBSET Url
  BY DEF Stored
<1>2. IsFiniteSet(Url)
  BY ConstantAssumption
<1>3. /\ IsFiniteSet(Stored(rows)) /\ Cardinality(Stored(rows)) <= Cardinality(Url)
      /\ Cardinality(Url) = Cardinality(Stored(rows)) => Url = Stored(rows)
  BY <1>1, <1>2, FS_Subset
<1>4. Cardinality(Stored(rows)) \in Nat /\ Cardinality(Url) \in Nat
  BY <1>2, <1>3, FS_CardinalityType
<1> QED
  BY <1>3, <1>4

LEMMA LaterFinite ==
    ASSUME NEW rows, NEW u
    PROVE  IsFiniteSet(Later(rows, u)) /\ Cardinality(Later(rows, u)) \in Nat
<1>1. Later(rows, u) \in SUBSET Stored(rows) /\ IsFiniteSet(Stored(rows))
  BY StoredFinite DEF Later
<1>2. IsFiniteSet(Later(rows, u))
  BY <1>1, FS_Subset
<1> QED
  BY <1>2, FS_CardinalityType

LEMMA BetweenFinite ==
    ASSUME NEW rows, NEW u, NEW v
    PROVE  /\ IsFiniteSet(BetweenIn(rows, u, v))
           /\ Cardinality(BetweenIn(rows, u, v)) \in Nat
<1>1. BetweenIn(rows, u, v) \in SUBSET Stored(rows) /\ IsFiniteSet(Stored(rows))
  BY StoredFinite DEF BetweenIn
<1>2. IsFiniteSet(BetweenIn(rows, u, v))
  BY <1>1, FS_Subset
<1> QED
  BY <1>2, FS_CardinalityType

LEMMA RowTyped ==
    ASSUME NEW rows \in Rows, NEW u \in Stored(rows)
    PROVE  /\ u \in Url /\ rows[u] \in Row /\ rows[u] # NoRow
           /\ rows[u].id \in Nat /\ rows[u].id >= 1
           /\ rows[u].corrected \in BOOLEAN /\ rows[u].wording.snippet \in BOOLEAN
<1>1. u \in Url /\ rows[u] \in Row /\ rows[u] # NoRow
  BY DEF Stored, Rows
<1>2. rows[u].id \in 1..Cardinality(Url) /\ rows[u].wording \in Wording
      /\ rows[u].corrected \in BOOLEAN
  BY <1>1 DEF Row
<1> QED
  BY <1>1, <1>2, StoredFinite DEF Wording

\* Rows of a table that extends another are at least as many after a row.
LEMMA LaterGrows ==
    ASSUME NEW old \in Rows, NEW new \in Rows, Extends(old, new), NEW u \in Stored(old)
    PROVE  Cardinality(Later(old, u)) <= Cardinality(Later(new, u))
<1>1. Later(old, u) \in SUBSET Later(new, u)
  BY DEF Later, Extends
<1> QED
  BY <1>1, LaterFinite, FS_Subset

\* What covered a table covers one that extends it.
LEMMA CoversExtended ==
    ASSUME NEW old \in Rows, NEW new \in Rows, Extends(old, new), NEW own, Covers(old, own)
    PROVE  Covers(new, own)
<1>1. own.known \subseteq Stored(new)
  BY DEF Covers, Extends
<1>2. ASSUME NEW u \in own.known, new[u].source = own.source, ~ new[u].corrected
      PROVE  \/ new[u].wording.title \in own.recent
             \/ Cardinality(Later(new, u)) >= RecentLimit
  <2>1. u \in Stored(old)
    BY DEF Covers
  <2>2. old[u].source = own.source /\ ~ old[u].corrected /\ new[u].wording = old[u].wording
    BY <1>2, <2>1 DEF Extends
  <2>3. \/ old[u].wording.title \in own.recent
        \/ Cardinality(Later(old, u)) >= RecentLimit
    BY <2>2 DEF Covers
  <2>4. /\ Cardinality(Later(old, u)) <= Cardinality(Later(new, u))
        /\ Cardinality(Later(old, u)) \in Nat /\ Cardinality(Later(new, u)) \in Nat
        /\ RecentLimit \in Nat
    BY <2>1, LaterGrows, LaterFinite, ConstantAssumption
  <2> QED
    BY <2>2, <2>3, <2>4
<1> QED
  BY <1>1, <1>2 DEF Covers

LEMMA ExtendsItself == ASSUME NEW rows PROVE Extends(rows, rows)
  BY DEF Extends

LEMMA ExtendsTransitive ==
    ASSUME NEW a, NEW b, NEW d, Extends(a, b), Extends(b, d)
    PROVE  Extends(a, d)
<1> SUFFICES ASSUME NEW u \in Stored(a)
             PROVE  /\ u \in Stored(d) /\ d[u].id = a[u].id /\ d[u].source = a[u].source
                    /\ a[u].corrected => d[u].corrected
                    /\ d[u].wording # a[u].wording
                          => ~ a[u].wording.snippet /\ d[u].corrected
  BY DEF Extends
<1>1. /\ u \in Stored(b) /\ b[u].id = a[u].id /\ b[u].source = a[u].source
      /\ (a[u].corrected => b[u].corrected)
      /\ (b[u].wording # a[u].wording => ~ a[u].wording.snippet /\ b[u].corrected)
  BY DEF Extends
<1>2. /\ u \in Stored(d) /\ d[u].id = b[u].id /\ d[u].source = b[u].source
      /\ (b[u].corrected => d[u].corrected)
      /\ (d[u].wording # b[u].wording => ~ b[u].wording.snippet /\ d[u].corrected)
  BY <1>1 DEF Extends
<1> QED
  BY <1>1, <1>2

-----------------------------------------------------------------------------
(* An insertion and a correction, in a table.                              *)

LEMMA InsertedGood ==
    ASSUME NEW rows, Good(rows), NEW own, Covers(rows, own),
           NEW v \in Url, v \notin Stored(rows), NEW row \in Row,
           row.id = Cardinality(Stored(rows)) + 1, row.source = own.source,
           row.knew = own.known, ~ row.corrected,
           row.via = "gdelt" \/ \A u \in own.known : PageOf[u] # PageOf[v],
           row.via = "gdelt" \/ \A t \in own.recent : <<t, row.wording.title>> \notin Alike,
           NEW new, new = [rows EXCEPT ![v] = row],
           NEW next, next.source = own.source, next.known = own.known \cup {v},
           next.recent = own.recent \cup {row.wording.title}
    PROVE  Good(new) /\ Extends(rows, new) /\ Covers(new, next)
<1> DEFINE n == Cardinality(Stored(rows))
<1>1. rows \in Rows /\ new \in Rows
  BY DEF Good, Rows
<1>2. row # NoRow
  BY ConstantAssumption
<1>3. /\ Stored(new) = Stored(rows) \cup {v} /\ new[v] = row
      /\ \A u \in Stored(rows) : u # v /\ new[u] = rows[u]
  BY <1>1, <1>2 DEF Stored, Rows
<1>4. Extends(rows, new)
  BY <1>3 DEF Extends
<1>5. n \in Nat /\ Cardinality(Stored(new)) = n + 1
  BY <1>3, StoredFinite, FS_AddElement
<1>6. \A u \in Stored(rows) : rows[u].id \in Nat /\ rows[u].id <= n
  BY <1>1, RowTyped DEF Good, IdsFit
<1> HIDE DEF n
<1>7. row.id = n + 1
  BY DEF n
<1>8. \A u \in Stored(new) : new[u].id \in Nat /\ new[u].id <= n + 1 /\ (u # v => new[u].id <= n)
  <2>1. ASSUME NEW u \in Stored(rows) PROVE new[u].id \in Nat /\ new[u].id <= n
    BY <1>3, <1>6
  <2>2. new[v].id = n + 1
    BY <1>3, <1>7
  <2> QED
    BY <1>3, <1>5, <2>1, <2>2
<1>14. IdsFit(new)
  BY <1>5, <1>8 DEF IdsFit
<1>15. \A w \in Stored(new) : ~ new[v].id < new[w].id
  <2> SUFFICES ASSUME NEW w \in Stored(new) PROVE ~ new[v].id < new[w].id
    OBVIOUS
  <2>1. new[v].id = n + 1
    BY <1>3, <1>7
  <2>2. new[w].id \in Nat /\ new[w].id <= n + 1
    BY <1>8
  <2>3. n \in Nat
    BY <1>5
  <2> QED
    BY <2>1, <2>2, <2>3
<1>9. NoTwinsIn(new)
  <2> SUFFICES ASSUME NEW u \in Stored(new), NEW w \in Stored(new),
                      PageOf[u] = PageOf[w], new[u].id < new[w].id
               PROVE  new[w].via = "gdelt" \/ u \notin new[w].knew
    BY DEF NoTwinsIn
  <2>1. CASE u \in Stored(rows) /\ w \in Stored(rows)
    BY <1>3, <2>1 DEF Good, NoTwinsIn
  <2>2. CASE w = v /\ u # v
    BY <1>3, <2>2
  <2>3. CASE u = v
    BY <1>15, <2>3
  <2> QED
    BY <1>3, <2>1, <2>2, <2>3
<1>10. \A u \in Stored(rows), w \in Stored(rows) : BetweenIn(new, u, w) = BetweenIn(rows, u, w)
  <2> SUFFICES ASSUME NEW u \in Stored(rows), NEW w \in Stored(rows)
               PROVE  BetweenIn(new, u, w) = BetweenIn(rows, u, w)
    OBVIOUS
  <2>1. new[u] = rows[u] /\ new[w] = rows[w]
    BY <1>3
  <2>2. new[v].id \notin (rows[u].id + 1)..(rows[w].id - 1)
    BY <1>3, <1>5, <1>6, <1>7
  <2> QED
    BY <1>3, <2>1, <2>2 DEF BetweenIn
<1>11. \A u \in Stored(rows) : rows[u].source = own.source => BetweenIn(new, u, v) = Later(rows, u)
  <2> SUFFICES ASSUME NEW u \in Stored(rows), rows[u].source = own.source
               PROVE  BetweenIn(new, u, v) = Later(rows, u)
    OBVIOUS
  <2>1. new[u] = rows[u] /\ new[v].id - 1 = n /\ rows[u].id \in Nat /\ n \in Nat
    BY <1>3, <1>5, <1>6, <1>7
  <2>2. v \notin BetweenIn(new, u, v)
    BY <1>3, <1>5, <1>7, <2>1 DEF BetweenIn
  <2>3. ASSUME NEW w \in Stored(rows)
        PROVE  w \in BetweenIn(new, u, v) <=> w \in Later(rows, u)
    <3>1. new[w] = rows[w] /\ rows[w].id \in Nat /\ rows[w].id <= n /\ w \in Stored(new)
      BY <1>3, <1>6
    <3>2. new[w].id \in (new[u].id + 1)..(new[v].id - 1) <=> rows[w].id > rows[u].id
      BY <2>1, <3>1
    <3> QED
      BY <2>1, <3>1, <3>2 DEF BetweenIn, Later
  <2> QED
    BY <1>3, <2>2, <2>3 DEF BetweenIn, Later
<1>12. NoNearIn(new)
  <2> SUFFICES ASSUME NEW u \in Stored(new), NEW w \in Stored(new), Repeats(new, u, w)
               PROVE  <<new[u].wording.title, new[w].wording.title>> \notin Alike
    BY DEF NoNearIn
  <2>1. CASE u \in Stored(rows) /\ w \in Stored(rows)
    <3>1. Repeats(rows, u, w)
      BY <1>3, <1>10, <2>1 DEF Repeats
    <3> QED
      BY <1>3, <2>1, <3>1 DEF Good, NoNearIn
  <2>2. CASE u \in Stored(rows) /\ w = v
    <3>1. /\ rows[u].source = own.source /\ row.via # "gdelt" /\ u \in own.known
          /\ ~ rows[u].corrected /\ Cardinality(BetweenIn(new, u, v)) < RecentLimit
      BY <1>3, <2>2 DEF Repeats
    <3>2. Cardinality(Later(rows, u)) < RecentLimit /\ Cardinality(Later(rows, u)) \in Nat
      BY <1>11, <2>2, <3>1, LaterFinite
    <3>3. rows[u].wording.title \in own.recent
      BY <3>1, <3>2, ConstantAssumption DEF Covers
    <3> QED
      BY <1>3, <2>2, <3>1, <3>3
  <2>3. CASE u = v
    BY <1>15, <2>3 DEF Repeats
  <2> QED
    BY <1>3, <2>1, <2>2, <2>3
<1>13. Covers(new, next)
  <2>1. Covers(new, own)
    BY <1>1, <1>4, CoversExtended
  <2>2. next.known \subseteq Stored(new)
    BY <1>3, <2>1 DEF Covers
  <2>3. ASSUME NEW u \in next.known, new[u].source = next.source, ~ new[u].corrected
        PROVE  \/ new[u].wording.title \in next.recent
               \/ Cardinality(Later(new, u)) >= RecentLimit
    <3>1. CASE u = v
      BY <1>3, <3>1
    <3>2. CASE u \in own.known
      BY <2>1, <2>3, <3>2 DEF Covers
    <3> QED
      BY <3>1, <3>2
  <2> QED
    BY <2>2, <2>3 DEF Covers
<1> QED
  BY <1>1, <1>4, <1>9, <1>12, <1>13, <1>14 DEF Good

LEMMA CorrectedGood ==
    ASSUME NEW rows, Good(rows), NEW own, Covers(rows, own),
           NEW u \in Stored(rows), NEW wording \in Wording, ~ rows[u].wording.snippet,
           NEW new, new = [rows EXCEPT ![u].wording = wording, ![u].corrected = TRUE],
           NEW next, next.source = own.source, next.known = own.known,
           next.recent = own.recent
    PROVE  Good(new) /\ Extends(rows, new) /\ Covers(new, next)
<1>1. u \in Url /\ rows \in Rows /\ rows[u] \in Row
  BY RowTyped DEF Good
<1>2. /\ new[u] = [rows[u] EXCEPT !.wording = wording, !.corrected = TRUE]
      /\ \A v \in Url : v # u => new[v] = rows[v]
      /\ new = [v \in Url |-> IF v = u THEN [rows[u] EXCEPT !.wording = wording, !.corrected = TRUE]
                              ELSE rows[v]]
  BY <1>1 DEF Rows
<1>3. /\ new[u] \in Row /\ new[u].id = rows[u].id /\ new[u].source = rows[u].source
      /\ new[u].via = rows[u].via /\ new[u].knew = rows[u].knew /\ new[u].corrected
  BY <1>1, <1>2 DEF Row
<1>4. new \in Rows /\ Stored(new) = Stored(rows)
  <2>1. new[u] # NoRow
    BY <1>3, ConstantAssumption
  <2> QED
    BY <1>1, <1>2, <1>3, <2>1 DEF Rows, Stored
<1>5. \A v \in Stored(rows) :
         /\ new[v].id = rows[v].id /\ new[v].source = rows[v].source
         /\ new[v].via = rows[v].via /\ new[v].knew = rows[v].knew
  BY <1>2, <1>3 DEF Stored
<1>6. IdsFit(new) /\ NoTwinsIn(new)
  <2>1. IdsFit(new)
    BY <1>4, <1>5 DEF Good, IdsFit
  <2>2. ASSUME NEW v \in Stored(new), NEW w \in Stored(new),
               PageOf[v] = PageOf[w], new[v].id < new[w].id
        PROVE  new[w].via = "gdelt" \/ v \notin new[w].knew
    <3>1. /\ new[v].id = rows[v].id /\ new[w].id = rows[w].id
          /\ new[w].via = rows[w].via /\ new[w].knew = rows[w].knew
          /\ v \in Stored(rows) /\ w \in Stored(rows)
      BY <1>4, <1>5
    <3>2. rows[v].id < rows[w].id
      BY <2>2, <3>1
    <3>3. rows[w].via = "gdelt" \/ v \notin rows[w].knew
      BY <2>2, <3>1, <3>2 DEF Good, NoTwinsIn
    <3> QED
      BY <3>1, <3>3
  <2> QED
    BY <2>1, <2>2 DEF NoTwinsIn
<1>7. NoNearIn(new)
  <2> SUFFICES ASSUME NEW v \in Stored(rows), NEW w \in Stored(rows), Repeats(new, v, w)
               PROVE  <<new[v].wording.title, new[w].wording.title>> \notin Alike
    BY <1>4 DEF NoNearIn
  <2>1. v # u /\ w # u
    BY <1>3 DEF Repeats
  <2>2. new[v] = rows[v] /\ new[w] = rows[w]
    BY <1>2, <2>1 DEF Stored
  <2>3. BetweenIn(new, v, w) = BetweenIn(rows, v, w)
    BY <1>4, <1>5 DEF BetweenIn
  <2> QED
    BY <2>2, <2>3 DEF Repeats, Good, NoNearIn
<1>8. Extends(rows, new)
  BY <1>2, <1>3, <1>4 DEF Extends, Stored
<1>9. Covers(new, own)
  BY <1>1, <1>4, <1>8, CoversExtended
<1>10. Covers(new, next)
  BY <1>9 DEF Covers
<1> QED
  BY <1>4, <1>6, <1>7, <1>8, <1>10 DEF Good

-----------------------------------------------------------------------------
(* The inductive invariant.                                                *)

EditionsInRange ==
    \A s \in Source :
        edition[s] >= 1 /\ (Editions[s] # <<>> => edition[s] <= Len(Editions[s]))

DownloadsInRange ==
    \A c \in Collector : download[c] # NoSession
        => /\ Via[c] = "feed" /\ download[c][1] \in Source
           /\ download[c][2] \in 1..Len(Editions[download[c][1]])

\* The account whose links are being stored is one of the tour.
OnTour ==
    \A c \in Collector : Via[c] = "social" /\ session[c] # NoSession => tour > 0

Typed == TypeOK /\ EditionsInRange /\ DownloadsInRange /\ OnTour

\* The table a collector sees: its own, once it holds the lock.
SeenBy(c) == IF lock = c THEN session[c].draft ELSE store

\* What the holder of the lock has written may be committed.
DraftGood ==
    lock # Nobody => Good(session[lock].draft) /\ Extends(store, session[lock].draft)

Looked ==
    \A c \in Collector : session[c] # NoSession => Covers(SeenBy(c), session[c])

Tables == Good(store) /\ DraftGood /\ Looked

IInv == Typed /\ Tables

LEMMA GoodNext == Good(store') => Good(store)'
  BY DEF Good, Rows, IdsFit, NoTwinsIn, NoNearIn, Repeats, BetweenIn, Stored

LEMMA DraftNext ==
    (lock' # Nobody => Good(session'[lock'].draft) /\ Extends(store', session'[lock'].draft))
        => DraftGood'
  BY DEF DraftGood, Extends, Good, Rows, IdsFit, NoTwinsIn, NoNearIn, Repeats, BetweenIn,
     Stored

LEMMA LookedNext ==
    (\A c \in Collector : session'[c] # NoSession
        => Covers(IF lock' = c THEN session'[c].draft ELSE store', session'[c]))
        => Looked'
  BY DEF Looked, SeenBy, Covers, Later, Stored

LEMMA SessionTyped ==
    ASSUME TypeOK, NEW c \in Collector, session[c] # NoSession
    PROVE  /\ session[c] \in Session /\ session[c].source \in Source
           /\ session[c].items \in Seq(Entry) /\ session[c].known \in SUBSET Url
           /\ session[c].recent \in SUBSET Title /\ session[c].draft \in Rows
           /\ session[c] = [source |-> session[c].source, items |-> session[c].items,
                            known |-> session[c].known, recent |-> session[c].recent,
                            draft |-> session[c].draft]
<1>1. session[c] \in Session
  BY DEF TypeOK
<1> QED
  BY <1>1 DEF Session

LEMMA HolderTyped ==
    ASSUME TypeOK, lock # Nobody
    PROVE  lock \in Collector /\ session[lock] # NoSession
  BY DEF TypeOK

LEMMA SessionIsOne == ASSUME NEW own \in Session PROVE own # NoSession
  BY ConstantAssumption

LEMMA HeadTyped ==
    ASSUME TypeOK, NEW c \in Collector, IsAtWork(c)
    PROVE  /\ session[c] # NoSession /\ lock # Nobody
           /\ Head(session[c].items) \in Entry
           /\ Tail(session[c].items) \in Seq(Entry)
           /\ Head(session[c].items).url \in Url
           /\ Head(session[c].items).wording \in Wording
           /\ Head(session[c].items).wording.title \in Title
<1>1. lock = c /\ lock # Nobody /\ session[c] # NoSession
  BY ConstantAssumption DEF TypeOK, IsAtWork
<1>2. session[c].items \in Seq(Entry) /\ session[c].items # <<>>
  BY <1>1, SessionTyped DEF IsAtWork
<1>3. Head(session[c].items) \in Entry /\ Tail(session[c].items) \in Seq(Entry)
  BY <1>2, HeadTailProperties
<1> QED
  BY <1>1, <1>3 DEF Entry, Wording

LEMMA InitIInv == Init => IInv
<1> SUFFICES ASSUME Init PROVE IInv
  OBVIOUS
<1>4. TypeOK
  <2>1. store \in Rows
    BY DEF Init, Rows
  <2>2. tour \in 0..Len(Tour)
    BY ConstantAssumption DEF Init
  <2> QED
    BY <2>1, <2>2 DEF Init, TypeOK
<1>5. EditionsInRange
  <2> SUFFICES ASSUME NEW s \in Source, Editions[s] # <<>> PROVE 1 <= Len(Editions[s])
    BY DEF Init, EditionsInRange
  <2> QED
    BY ConstantAssumption
<1>6. Typed
  BY <1>4, <1>5 DEF Init, Typed, DownloadsInRange, OnTour
<1>2. Stored(store) = {}
  BY DEF Init, Stored
<1>3. Good(store)
  BY <1>2 DEF Init, Good, Rows, IdsFit, NoTwinsIn, NoNearIn
<1> QED
  BY <1>3, <1>6 DEF Init, IInv, Tables, DraftGood, Looked

-----------------------------------------------------------------------------
(* The steps.                                                              *)

\* Steps that leave tables and sessions alone.
LEMMA SameTables ==
    ASSUME Tables, UNCHANGED <<store, session, lock>>
    PROVE  Tables'
<1>1. Good(store)'
  BY GoodNext DEF Tables
<1>2. DraftGood'
  BY DraftNext DEF Tables, DraftGood
<1>3. Looked'
  BY LookedNext DEF Tables, Looked, SeenBy
<1> QED
  BY <1>1, <1>2, <1>3 DEF Tables

LEMMA PublishInv == ASSUME IInv, NEW s \in Source, Publish(s) PROVE IInv'
<1>1. Editions[s] \in Seq(Seq(Entry))
  BY ConstantAssumption
<1>2. edition' \in [Source -> Nat] /\ EditionsInRange'
  BY <1>1 DEF Publish, IInv, Typed, TypeOK, EditionsInRange
<1>3. Typed'
  BY <1>2 DEF Publish, IInv, Typed, TypeOK, DownloadsInRange, OnTour
<1> QED
  BY <1>3, SameTables DEF Publish, IInv

LEMMA FetchInv ==
    ASSUME IInv, NEW c \in Collector, NEW s \in Source, Fetch(c, s) PROVE IInv'
<1>1. edition[s] \in 1..Len(Editions[s]) /\ edition[s] \in Nat
  BY ConstantAssumption DEF Fetch, IInv, Typed, TypeOK, EditionsInRange
<1>2. download' \in [Collector -> (Source \X Nat) \cup {NoSession}] /\ DownloadsInRange'
  BY <1>1 DEF Fetch, IInv, Typed, TypeOK, DownloadsInRange
<1>3. Typed'
  BY <1>2 DEF Fetch, IInv, Typed, TypeOK, EditionsInRange, OnTour
<1> QED
  BY <1>3, SameTables DEF Fetch, IInv

LEMMA StartTourInv == ASSUME IInv, StartTour PROVE IInv'
<1>1. tour' \in 0..Len(Tour) /\ OnTour'
  BY ConstantAssumption DEF StartTour, OnTour
<1>2. Typed'
  BY <1>1 DEF StartTour, IInv, Typed, TypeOK, EditionsInRange, DownloadsInRange
<1> QED
  BY <1>2, SameTables DEF StartTour, IInv

LEMMA OthersInv == ASSUME IInv, CalmDown \/ UNCHANGED vars PROVE IInv'
<1>1. Typed'
  BY DEF CalmDown, vars, IInv, Typed, TypeOK, EditionsInRange, DownloadsInRange, OnTour
<1> QED
  BY <1>1, SameTables DEF CalmDown, vars, IInv

\* A session that begins, and one that gets the lock: what it has looked up covers
\* what is committed.
LEMMA OpenedCovers ==
    ASSUME Typed, NEW s \in Source, NEW items \in Seq(Entry)
    PROVE  Opened(s, items) \in Session /\ Covers(store, Opened(s, items))
<1> DEFINE own == Opened(s, items)
<1>1. store \in Rows
  BY DEF Typed, TypeOK
<1>2. \A u \in Stored(store) : store[u].wording.title \in Title
  <2> SUFFICES ASSUME NEW u \in Stored(store) PROVE store[u].wording.title \in Title
    OBVIOUS
  <2>1. store[u] \in Row
    BY <1>1, RowTyped
  <2> QED
    BY <2>1 DEF Row, Wording
<1>3. Recent(s) \in SUBSET Title /\ Stored(store) \in SUBSET Url
  BY <1>2 DEF Recent, Stored
<1>4. own \in Session
  BY <1>1, <1>3 DEF Opened, Session
<1>5. own.known = Stored(store) /\ own.source = s /\ own.recent = Recent(s)
  BY DEF Opened
<1>6. ASSUME NEW u \in Stored(store), store[u].source = s
      PROVE  \/ store[u].wording.title \in Recent(s)
             \/ Cardinality(Later(store, u)) >= RecentLimit
  <2> DEFINE rows == {v \in Stored(store) : store[v].source = s}
  <2>1. Later(store, u) = {w \in rows : store[w].id > store[u].id}
    BY <1>6 DEF Later
  <2>2. CASE Cardinality(Later(store, u)) < RecentLimit
    <3>1. u \in {v \in rows : Cardinality({w \in rows : store[w].id > store[v].id}) < RecentLimit}
      BY <1>6, <2>1, <2>2
    <3> QED
      BY <3>1 DEF Recent
  <2> QED
    BY <2>2, LaterFinite, ConstantAssumption
<1>7. Covers(store, own)
  BY <1>5, <1>6 DEF Covers
<1> QED
  BY <1>4, <1>7

\* A session changes and the lock stays where it is or is taken by it.
LEMMA BeginTables ==
    ASSUME Tables, NEW c \in Collector, NEW own, UNCHANGED store,
           session' = [session EXCEPT ![c] = own],
           session \in [Collector -> Session \cup {NoSession}],
           Covers(store, own), own.draft = store \/ lock' # c,
           \/ lock' = lock /\ lock # c
           \/ lock' = c /\ lock = Nobody
    PROVE  Tables'
<1>1. Good(store)'
  BY GoodNext DEF Tables
<1>2. \A d \in Collector : session'[d] = IF d = c THEN own ELSE session[d]
  OBVIOUS
<1>3. DraftGood'
  <2>1. CASE lock' = c
    <3>1. session'[lock'] = own /\ own.draft = store
      BY <1>2, <2>1
    <3> QED
      BY <3>1, ExtendsItself, DraftNext DEF Tables
  <2>2. CASE lock' # c
    <3>1. session'[lock'] = session[lock] /\ lock' = lock
      BY <2>2
    <3> QED
      BY <3>1, DraftNext DEF Tables, DraftGood
  <2> QED
    BY <2>1, <2>2
<1>4. Looked'
  <2>1. ASSUME NEW d \in Collector, session'[d] # NoSession
        PROVE  Covers(IF lock' = d THEN session'[d].draft ELSE store', session'[d])
    <3>1. CASE d = c
      BY <1>2, <3>1
    <3>2. CASE d # c
      <4>1. session'[d] = session[d] /\ (lock' = d <=> lock = d)
        BY <1>2, <3>2, ConstantAssumption
      <4>2. Covers(SeenBy(d), session[d])
        BY <2>1, <4>1 DEF Tables, Looked
      <4> QED
        BY <4>1, <4>2 DEF SeenBy
    <3> QED
      BY <3>1, <3>2
  <2> QED
    BY <2>1, LookedNext
<1> QED
  BY <1>1, <1>3, <1>4 DEF Tables

LEMMA BeginFeedInv == ASSUME IInv, NEW c \in Collector, BeginFeed(c) PROVE IInv'
<1> DEFINE s == download[c][1]
           own == Opened(s, Editions[s][download[c][2]])
<1>1. s \in Source /\ download[c][2] \in 1..Len(Editions[s])
  BY DEF BeginFeed, IInv, Typed, DownloadsInRange
<1>2. Editions[s][download[c][2]] \in Seq(Entry)
  BY <1>1, ConstantAssumption
<1>3. own \in Session /\ Covers(store, own) /\ own.draft = store
  BY <1>1, <1>2, OpenedCovers DEF IInv, Typed, Opened
<1>4. session' = [session EXCEPT ![c] = own] /\ download' = [download EXCEPT ![c] = NoSession]
      /\ lock = Nobody /\ lock' = c /\ UNCHANGED <<store, edition, tour, calm>>
  BY DEF BeginFeed
<1> HIDE DEF own, s
<1>5. own # NoSession
  BY <1>3, SessionIsOne
<1>6. TypeOK'
  BY <1>3, <1>4, <1>5 DEF IInv, Typed, TypeOK
<1>7. EditionsInRange' /\ DownloadsInRange'
  BY <1>4 DEF IInv, Typed, TypeOK, EditionsInRange, DownloadsInRange
<1>8. OnTour'
  <2>1. Via[c] # "social"
    BY <1>4 DEF BeginFeed, IInv, Typed, DownloadsInRange
  <2> QED
    BY <1>4, <2>1 DEF IInv, Typed, TypeOK, OnTour
<1>9. Tables'
  BY <1>3, <1>4, BeginTables DEF IInv, Typed, TypeOK
<1> QED
  BY <1>6, <1>7, <1>8, <1>9 DEF IInv, Typed

\* A session begins without the lock.
LEMMA BeginUnlockedInv ==
    ASSUME IInv, NEW c \in Collector, NEW s \in Source, NEW items \in Seq(Entry),
           session[c] = NoSession, Via[c] = "social" => tour > 0,
           session' = [session EXCEPT ![c] = Opened(s, items)],
           UNCHANGED <<store, lock, edition, download, tour, calm>>
    PROVE  IInv'
<1> DEFINE own == Opened(s, items)
<1>1. own \in Session /\ Covers(store, own) /\ own # NoSession
  BY OpenedCovers, SessionIsOne DEF IInv
<1>2. session' = [session EXCEPT ![c] = own]
  OBVIOUS
<1> HIDE DEF own
<1>3. lock # c
  BY ConstantAssumption DEF IInv, Typed, TypeOK
<1>4. TypeOK'
  BY <1>1, <1>2 DEF IInv, Typed, TypeOK
<1>5. EditionsInRange' /\ DownloadsInRange' /\ OnTour'
  BY <1>2 DEF IInv, Typed, TypeOK, EditionsInRange, DownloadsInRange, OnTour
<1>6. Tables'
  BY <1>1, <1>2, <1>3, BeginTables DEF IInv, Typed, TypeOK
<1> QED
  BY <1>4, <1>5, <1>6 DEF IInv, Typed

LEMMA BeginGdeltInv ==
    ASSUME IInv, NEW c \in Collector, NEW s \in Source, BeginGdelt(c, s) PROVE IInv'
<1>1. OfSource(s, Found[s]) \in Seq(Entry)
  BY SelectionAssumption
<1> QED
  BY <1>1, BeginUnlockedInv DEF BeginGdelt

LEMMA BeginSocialInv == ASSUME IInv, NEW c \in Collector, BeginSocial(c) PROVE IInv'
<1> DEFINE s == Tour[Len(Tour) - tour + 1]
<1>1. tour \in 0..Len(Tour) /\ tour > 0
  BY DEF BeginSocial, IInv, Typed, TypeOK
<1>2. s \in Source
  <2>1. Len(Tour) - tour + 1 \in 1..Len(Tour)
    BY <1>1, ConstantAssumption
  <2> QED
    BY <2>1, ConstantAssumption
<1>3. OfSource(s, Posted[s]) \in Seq(Entry)
  BY <1>2, SelectionAssumption
<1>4. /\ session[c] = NoSession
      /\ session' = [session EXCEPT ![c] = Opened(s, OfSource(s, Posted[s]))]
      /\ UNCHANGED <<store, lock, edition, download, tour, calm>>
  BY DEF BeginSocial
<1> HIDE DEF s
<1> QED
  BY <1>1, <1>2, <1>3, <1>4, BeginUnlockedInv

LEMMA LockInv == ASSUME IInv, NEW c \in Collector, Lock(c) PROVE IInv'
<1> DEFINE own == [session[c] EXCEPT !.draft = store]
<1>1. session[c] # NoSession /\ lock = Nobody /\ lock' = c
      /\ UNCHANGED <<store, edition, download, tour, calm>>
  BY DEF Lock
<1>2. session' = [session EXCEPT ![c] = own]
  BY <1>1, SessionTyped DEF Lock, IInv, Typed, TypeOK
<1>3. own \in Session /\ own.draft = store
  BY <1>1, SessionTyped DEF IInv, Typed, TypeOK, Session
<1>4. Covers(store, own)
  <2>1. own.known = session[c].known /\ own.source = session[c].source
        /\ own.recent = session[c].recent
    BY <1>1, SessionTyped DEF IInv, Typed
  <2>2. Covers(store, session[c])
    BY <1>1, ConstantAssumption DEF IInv, Tables, Looked, SeenBy
  <2> HIDE DEF own
  <2> QED
    BY <2>1, <2>2 DEF Covers
<1> HIDE DEF own
<1>5. own # NoSession
  BY <1>3, SessionIsOne
<1>6. TypeOK'
  BY <1>1, <1>2, <1>3, <1>5 DEF IInv, Typed, TypeOK
<1>7. EditionsInRange' /\ DownloadsInRange' /\ OnTour'
  BY <1>1, <1>2 DEF IInv, Typed, TypeOK, EditionsInRange, DownloadsInRange, OnTour
<1>8. Tables'
  BY <1>1, <1>2, <1>3, <1>4, BeginTables DEF IInv, Typed, TypeOK
<1> QED
  BY <1>6, <1>7, <1>8 DEF IInv, Typed

-----------------------------------------------------------------------------
(* Writing.                                                                *)

\* What a session may become by an entry.
Follows(own, next) ==
    /\ next \in Session /\ Good(next.draft)
    /\ Extends(own.draft, next.draft) /\ Covers(next.draft, next)

LEMMA AtWork ==
    ASSUME IInv, NEW c \in Collector, IsAtWork(c)
    PROVE  /\ Good(session[c].draft) /\ Extends(store, session[c].draft)
           /\ Covers(session[c].draft, session[c])
<1>1. lock = c /\ lock # Nobody /\ session[c] # NoSession
  BY HeadTyped DEF IsAtWork, IInv, Typed
<1> QED
  BY <1>1 DEF IInv, Tables, DraftGood, Looked, SeenBy

LEMMA SkippedFollows ==
    ASSUME IInv, NEW c \in Collector, IsAtWork(c)
    PROVE  Follows(session[c], Skipped(c))
<1> DEFINE own == session[c]
           next == Skipped(c)
<1>1. own \in Session /\ Tail(own.items) \in Seq(Entry)
  BY HeadTyped, SessionTyped DEF IInv, Typed
<1>2. /\ next \in Session /\ next.draft = own.draft /\ next.known = own.known
      /\ next.source = own.source /\ next.recent = own.recent
  BY <1>1 DEF Skipped, Session
<1>3. Good(own.draft) /\ Covers(own.draft, own)
  BY AtWork
<1> HIDE DEF own, next
<1>4. Covers(next.draft, next)
  BY <1>2, <1>3 DEF Covers
<1>5. Follows(own, next)
  BY <1>2, <1>3, <1>4, ExtendsItself DEF Follows
<1> QED
  BY <1>5 DEF own, next

LEMMA InsertedFollows ==
    ASSUME IInv, NEW c \in Collector, IsAtWork(c), NEW e, e = Head(session[c].items),
           e.url \notin Stored(session[c].draft),
           Via[c] = "gdelt" \/ \A u \in session[c].known : PageOf[u] # PageOf[e.url],
           Via[c] = "gdelt" \/ ~ IsNear(e.wording.title, session[c].recent)
    PROVE  Follows(session[c], Inserted(c, e))
<1> DEFINE own == session[c]
           next == Inserted(c, e)
           row == [id |-> Cardinality(Stored(own.draft)) + 1,
                   source |-> own.source, wording |-> e.wording, via |-> Via[c],
                   knew |-> own.known, corrected |-> FALSE]
<1>1. /\ own \in Session /\ Tail(own.items) \in Seq(Entry)
      /\ own.source \in Source /\ own.known \in SUBSET Url /\ own.recent \in SUBSET Title
      /\ own.draft \in Rows
      /\ e.url \in Url /\ e.wording \in Wording /\ e.wording.title \in Title
  BY HeadTyped, SessionTyped DEF IInv, Typed
<1>2. Cardinality(Stored(own.draft)) + 1 \in 1..Cardinality(Url)
  <2>1. /\ Cardinality(Stored(own.draft)) \in Nat /\ Cardinality(Url) \in Nat
        /\ Cardinality(Stored(own.draft)) < Cardinality(Url)
    BY <1>1, StoredFinite
  <2> QED
    BY <2>1
<1>3. row \in Row
  <2>1. Via[c] \in {"feed", "gdelt", "social"}
    BY ConstantAssumption
  <2> QED
    BY <1>1, <1>2, <2>1 DEF Row
<1>4. next = [own EXCEPT !.items = Tail(own.items), !.draft[e.url] = row,
                         !.known = own.known \cup {e.url},
                         !.recent = own.recent \cup {e.wording.title}]
  BY DEF Inserted
<1>5. /\ next \in Session /\ next.draft = [own.draft EXCEPT ![e.url] = row]
      /\ next.known = own.known \cup {e.url} /\ next.source = own.source
      /\ next.recent = own.recent \cup {e.wording.title}
  <2>1. own.known \cup {e.url} \in SUBSET Url /\ own.recent \cup {e.wording.title} \in SUBSET Title
    BY <1>1
  <2> HIDE DEF row, own, next
  <2> QED
    <3>1. [own.draft EXCEPT ![e.url] = row] \in Rows
      BY <1>1, <1>3 DEF Rows
    <3>2. next \in Session
      BY <1>1, <1>4, <2>1, <3>1 DEF Session
    <3>3. next.draft = [own.draft EXCEPT ![e.url] = row]
      BY <1>1, <1>4 DEF Session
    <3>4. /\ next.known = own.known \cup {e.url} /\ next.source = own.source
          /\ next.recent = own.recent \cup {e.wording.title}
      BY <1>1, <1>4 DEF Session
    <3> QED
      BY <3>2, <3>3, <3>4
<1>6. Good(own.draft) /\ Covers(own.draft, own)
  BY AtWork
<1>7. /\ row.id = Cardinality(Stored(own.draft)) + 1 /\ row.source = own.source
      /\ row.knew = own.known /\ ~ row.corrected /\ row.via = Via[c]
      /\ row.wording = e.wording
  OBVIOUS
<1>8. Via[c] = "gdelt" \/ \A t \in own.recent : <<t, e.wording.title>> \notin Alike
  BY DEF IsNear
<1>9. Via[c] = "gdelt" \/ \A u \in own.known : PageOf[u] # PageOf[e.url]
  OBVIOUS
<1>10. e.url \notin Stored(own.draft)
  OBVIOUS
<1> HIDE DEF own, next, row
<1>11. Good(next.draft) /\ Extends(own.draft, next.draft) /\ Covers(next.draft, next)
  BY <1>1, <1>3, <1>5, <1>6, <1>7, <1>8, <1>9, <1>10, InsertedGood
<1>12. Follows(own, next)
  BY <1>5, <1>11 DEF Follows
<1> QED
  BY <1>12 DEF own, next

LEMMA CorrectedFollows ==
    ASSUME IInv, NEW c \in Collector, IsAtWork(c), NEW e, e = Head(session[c].items),
           NEW u \in Stored(session[c].draft), Corrects(session[c].draft[u], e)
    PROVE  Follows(session[c], Corrected(c, u, e))
<1> DEFINE own == session[c]
           next == Corrected(c, u, e)
<1>1. /\ own \in Session /\ Tail(own.items) \in Seq(Entry) /\ own.draft \in Rows
      /\ own.source \in Source /\ own.known \in SUBSET Url /\ own.recent \in SUBSET Title
      /\ e.wording \in Wording
  BY HeadTyped, SessionTyped DEF IInv, Typed
<1>2. next = [own EXCEPT !.items = Tail(own.items), !.draft[u].wording = e.wording,
                         !.draft[u].corrected = TRUE]
  BY DEF Corrected
<1>3. Good(own.draft) /\ Covers(own.draft, own)
  BY AtWork
<1>4. u \in Stored(own.draft) /\ ~ own.draft[u].wording.snippet
  BY DEF Corrects
<1> DEFINE draft == [own.draft EXCEPT ![u].wording = e.wording, ![u].corrected = TRUE]
<1> HIDE DEF own, next
<1>5. Good(draft) /\ Extends(own.draft, draft) /\ Covers(draft, own)
  BY <1>1, <1>3, <1>4, CorrectedGood
<1>6. draft \in Rows
  BY <1>5 DEF Good
<1>7. /\ next \in Session /\ next.draft = draft
      /\ next.source = own.source /\ next.known = own.known /\ next.recent = own.recent
  <2>1. next = [own EXCEPT !.items = Tail(own.items), !.draft = draft]
    BY <1>1, <1>2 DEF Session
  <2> HIDE DEF draft
  <2> QED
    BY <1>1, <1>6, <2>1 DEF Session
<1> HIDE DEF draft
<1>8. Follows(own, next)
  BY <1>5, <1>7 DEF Follows, Covers
<1> QED
  BY <1>8 DEF own, next

LEMMA FeedItemFollows ==
    ASSUME IInv, NEW c \in Collector, IsAtWork(c), Via[c] = "feed",
           NEW e, e = Head(session[c].items), NEW next \in FeedItem(c, e)
    PROVE  Follows(session[c], next)
<1> DEFINE same == Existing(session[c].draft, e)
<1>1. same \subseteq Stored(session[c].draft)
  BY DEF Existing
<1>2. CASE same # {}
  <2>1. PICK u \in same :
           next = IF Corrects(session[c].draft[u], e) THEN Corrected(c, u, e) ELSE Skipped(c)
    BY <1>2 DEF FeedItem
  <2> QED
    BY <1>1, <2>1, CorrectedFollows, SkippedFollows
<1>3. CASE same = {}
  <2>1. next = IF IsNear(e.wording.title, session[c].recent) THEN Skipped(c) ELSE Inserted(c, e)
    BY <1>3 DEF FeedItem
  <2>2. e.url \notin Stored(session[c].draft)
        /\ \A u \in Stored(session[c].draft) : PageOf[u] # PageOf[e.url]
    BY <1>3 DEF Existing
  <2>3. session[c].known \subseteq Stored(session[c].draft)
    BY AtWork DEF Covers
  <2> QED
    BY <2>1, <2>2, <2>3, SkippedFollows, InsertedFollows
<1> QED
  BY <1>2, <1>3

LEMMA ItemFollows ==
    ASSUME IInv, NEW c \in Collector, Item(c)
    PROVE  \E next : Follows(session[c], next) /\ session' = [session EXCEPT ![c] = next]
<1> DEFINE e == Head(session[c].items)
<1>1. IsAtWork(c)
  BY DEF Item
<1>2. CASE Via[c] = "feed"
  <2>1. PICK next \in FeedItem(c, e) : session' = [session EXCEPT ![c] = next]
    BY <1>2 DEF Item
  <2> QED
    BY <1>1, <1>2, <2>1, FeedItemFollows
<1>3. CASE Via[c] # "feed" /\ IsKnown(c, e)
  BY <1>1, <1>3, SkippedFollows DEF Item
<1>4. CASE Via[c] # "feed" /\ ~ IsKnown(c, e)
  <2>1. ~ Conflicts(c, e) /\ session' = [session EXCEPT ![c] = Inserted(c, e)]
    BY <1>4 DEF Item
  <2>2. e.url \notin Stored(session[c].draft)
    BY <1>4, <2>1 DEF Conflicts, IsKnown
  <2>3. Via[c] = "gdelt" \/ Via[c] = "social"
    BY <1>4, ConstantAssumption
  <2> QED
    BY <1>1, <1>4, <2>1, <2>2, <2>3, InsertedFollows DEF IsKnown
<1> QED
  BY <1>2, <1>3, <1>4

LEMMA ItemInv == ASSUME IInv, NEW c \in Collector, Item(c) PROVE IInv'
<1>1. PICK next : Follows(session[c], next) /\ session' = [session EXCEPT ![c] = next]
  BY ItemFollows
<1>2. /\ IsAtWork(c) /\ UNCHANGED <<store, lock, edition, download, tour, calm>>
      /\ lock = c /\ lock # Nobody /\ session[c] # NoSession
  BY HeadTyped DEF Item, IsAtWork, IInv, Typed
<1>3. next \in Session /\ next # NoSession
  BY <1>1, SessionIsOne DEF Follows
<1>4. TypeOK'
  BY <1>1, <1>2, <1>3 DEF IInv, Typed, TypeOK
<1>5. EditionsInRange' /\ DownloadsInRange' /\ OnTour'
  BY <1>1, <1>2 DEF IInv, Typed, TypeOK, EditionsInRange, DownloadsInRange, OnTour
<1>6. \A d \in Collector : session'[d] = IF d = c THEN next ELSE session[d]
  BY <1>1 DEF IInv, Typed, TypeOK
<1>7. Good(store)'
  BY <1>2, GoodNext DEF IInv, Tables
<1>8. DraftGood'
  <2>1. Extends(store, next.draft)
    BY <1>1, <1>2, AtWork, ExtendsTransitive DEF Follows
  <2> QED
    BY <1>1, <1>2, <1>6, <2>1, DraftNext DEF Follows
<1>9. Looked'
  <2>1. ASSUME NEW d \in Collector, session'[d] # NoSession
        PROVE  Covers(IF lock' = d THEN session'[d].draft ELSE store', session'[d])
    <3>1. CASE d = c
      BY <1>1, <1>2, <1>6, <3>1 DEF Follows
    <3>2. CASE d # c
      BY <1>2, <1>6, <2>1, <3>2 DEF IInv, Tables, Looked, SeenBy
    <3> QED
      BY <3>1, <3>2
  <2> QED
    BY <2>1, LookedNext
<1> QED
  BY <1>4, <1>5, <1>7, <1>8, <1>9 DEF IInv, Typed, Tables

-----------------------------------------------------------------------------
(* The ends of transactions.                                               *)

\* A session ends and the store stays, or becomes the session's draft.
LEMMA CloseInv ==
    ASSUME IInv, NEW c \in Collector, session[c] # NoSession, Close(c),
           tour' \in 0..Len(Tour), Via[c] # "social" => tour' = tour,
           store' = store \/ (lock = c /\ store' = session[c].draft),
           UNCHANGED <<edition, download>>, calm' \in BOOLEAN
    PROVE  IInv'
<1>1. Good(store') /\ Extends(store, store')
  <2>1. CASE store' = store
    BY <2>1, ExtendsItself DEF IInv, Tables
  <2>2. CASE lock = c /\ store' = session[c].draft
    BY <2>2, ConstantAssumption DEF IInv, Tables, DraftGood
  <2> QED
    BY <2>1, <2>2
<1>2. \A d \in Collector : session'[d] = IF d = c THEN NoSession ELSE session[d]
  BY DEF Close, IInv, Typed, TypeOK
<1>3. lock' = IF lock = c THEN Nobody ELSE lock
  BY DEF Close
<1>4. TypeOK'
  <2>1. store' \in Rows
    BY <1>1 DEF Good
  <2>2. session' \in [Collector -> Session \cup {NoSession}]
    BY DEF Close, IInv, Typed, TypeOK
  <2>3. lock' \in Collector \cup {Nobody} /\ (lock' # Nobody => session'[lock'] # NoSession)
    BY <1>2, <1>3 DEF IInv, Typed, TypeOK
  <2> QED
    BY <2>1, <2>2, <2>3 DEF IInv, Typed, TypeOK
<1>5. EditionsInRange' /\ DownloadsInRange'
  BY DEF IInv, Typed, EditionsInRange, DownloadsInRange
<1>6. OnTour'
  <2> SUFFICES ASSUME NEW d \in Collector, Via[d] = "social", session'[d] # NoSession
               PROVE  tour' > 0
    BY DEF OnTour
  <2>1. d # c /\ session[d] # NoSession
    BY <1>2
  <2>2. Via[c] # "social"
    BY <2>1, ConstantAssumption
  <2> QED
    BY <2>1, <2>2 DEF IInv, Typed, OnTour
<1>7. Good(store)'
  BY <1>1, GoodNext
<1>8. lock' # Nobody => Good(session'[lock'].draft) /\ Extends(store', session'[lock'].draft)
  <2> SUFFICES ASSUME lock' # Nobody
               PROVE  Good(session'[lock'].draft) /\ Extends(store', session'[lock'].draft)
    OBVIOUS
  <2>1. lock' = lock /\ lock # c /\ lock \in Collector /\ store' = store
    BY <1>3 DEF IInv, Typed, TypeOK
  <2>2. session'[lock'] = session[lock]
    BY <1>2, <2>1
  <2> QED
    BY <2>1, <2>2 DEF IInv, Tables, DraftGood
<1>9. DraftGood'
  BY <1>8, DraftNext
<1>10. Looked'
  <2>1. ASSUME NEW d \in Collector, session'[d] # NoSession
        PROVE  Covers(IF lock' = d THEN session'[d].draft ELSE store', session'[d])
    <3>1. d # c /\ session'[d] = session[d] /\ session[d] # NoSession /\ (lock' = d <=> lock = d)
      BY <1>2, <1>3, <2>1, ConstantAssumption
    <3>2. CASE lock = d
      BY <3>1, <3>2 DEF IInv, Tables, Looked, SeenBy
    <3>3. CASE lock # d
      <4>1. Covers(store, session[d])
        BY <3>1, <3>3 DEF IInv, Tables, Looked, SeenBy
      <4> QED
        BY <1>1, <3>1, <3>3, <4>1, CoversExtended DEF IInv, Tables, Good
    <3> QED
      BY <3>2, <3>3
  <2> QED
    BY <2>1, LookedNext
<1> QED
  BY <1>4, <1>5, <1>6, <1>7, <1>9, <1>10 DEF IInv, Typed, Tables

LEMMA CommitInv == ASSUME IInv, NEW c \in Collector, Commit(c) PROVE IInv'
<1>1. session[c] # NoSession
  BY ConstantAssumption DEF Commit, IInv, Typed, TypeOK
<1>2. tour' \in 0..Len(Tour) /\ (Via[c] # "social" => tour' = tour)
  <2>1. Via[c] = "social" => tour > 0
    BY <1>1 DEF IInv, Typed, OnTour
  <2> QED
    BY <2>1, ConstantAssumption DEF Commit, NextOutlet, IInv, Typed, TypeOK
<1> QED
  BY <1>1, <1>2, CloseInv DEF Commit, IInv, Typed, TypeOK

LEMMA RollbackInv ==
    ASSUME IInv, NEW c \in Collector, session[c] # NoSession, Rollback(c) PROVE IInv'
<1>1. tour' \in 0..Len(Tour) /\ (Via[c] # "social" => tour' = tour)
  BY ConstantAssumption DEF Rollback, TourAfter, IInv, Typed, TypeOK
<1>2. /\ Close(c) /\ store' = store /\ UNCHANGED <<edition, download>>
      /\ calm' \in BOOLEAN
  BY DEF Rollback, IInv, Typed, TypeOK
<1> QED
  BY <1>1, <1>2, CloseInv

LEMMA RejectedInv == ASSUME IInv, NEW c \in Collector, Rejected(c) PROVE IInv'
  BY HeadTyped, RollbackInv DEF Rejected, IInv, Typed

LEMMA FailInv == ASSUME IInv, NEW c \in Collector, Fail(c) PROVE IInv'
  BY RollbackInv DEF Fail

LEMMA StepIInv == IInv /\ [Next]_vars => IInv'
<1> SUFFICES ASSUME IInv, [Next]_vars PROVE IInv'
  OBVIOUS
<1>1. CASE \E s \in Source : Publish(s)
  BY <1>1, PublishInv
<1>2. CASE StartTour \/ CalmDown \/ UNCHANGED vars
  BY <1>2, StartTourInv, OthersInv
<1>3. ASSUME NEW c \in Collector,
             \/ \E s \in Source : Fetch(c, s) \/ BeginGdelt(c, s)
             \/ BeginFeed(c) \/ BeginSocial(c)
             \/ Lock(c) \/ Item(c) \/ Commit(c) \/ Rejected(c)
             \/ Fail(c)
      PROVE  IInv'
  BY <1>3, FetchInv, BeginGdeltInv, BeginFeedInv, BeginSocialInv, LockInv, ItemInv, CommitInv,
     RejectedInv, FailInv
<1> QED
  BY <1>1, <1>2, <1>3 DEF Next

THEOREM IInvAlways == Spec => []IInv
  BY InitIInv, StepIInv, PTL DEF Spec

\* Type correctness of ArticleStore, for any outlets and what is said of them: in
\* particular who holds SQLite's lock is at work (core/db.py).
THEOREM TypeCorrect == Spec => []TypeOK
  BY IInvAlways, PTL DEF IInv, Typed

\* One page is stored twice only by GDELT, or by a collector that looked before the
\* other article was there, whatever collectors race, fail and come again
\* (store_feed, store_gdelt_articles, store_social_items).
THEOREM PagesStoredOnce == Spec => []NoTwinPages
<1>1. IInv => NoTwinPages
  BY DEF IInv, Tables, Good, NoTwinsIn, NoTwinPages
<1> QED
  BY <1>1, IInvAlways, PTL

\* What was said in almost the same words among the latest of the outlet is not
\* stored again by a feed or an account (is_near_duplicate over _recent_simhashes).
THEOREM WordsStoredOnce == Spec => []NoNearDuplicates
<1>1. ASSUME IInv PROVE NoNearDuplicates
  <2> SUFFICES ASSUME NEW u \in Stored(store), NEW v \in Stored(store),
                      store[u].source = store[v].source, store[u].id < store[v].id,
                      store[v].via # "gdelt", u \in store[v].knew,
                      ~ store[u].corrected, ~ store[v].corrected,
                      Cardinality(Between(u, v)) < RecentLimit
               PROVE  ~ IsNear(store[v].wording.title, {store[u].wording.title})
    BY DEF NoNearDuplicates
  <2>1. Repeats(store, u, v)
    BY DEF Repeats, Between, BetweenIn
  <2>2. <<store[u].wording.title, store[v].wording.title>> \notin Alike
    BY <1>1, <2>1 DEF IInv, Tables, Good, NoNearIn
  <2> QED
    BY <2>2 DEF IsNear
<1> QED
  BY <1>1, IInvAlways, PTL

-----------------------------------------------------------------------------
(* The refinement.                                                         *)

\* What Archive knows of a table.
Shelf(rows) ==
    [u \in Url |-> IF rows[u] = NoRow THEN NoRow
                   ELSE [source |-> rows[u].source, wording |-> rows[u].wording]]

LEMMA ShelfOfExtension ==
    ASSUME NEW old \in Rows, NEW new \in Rows, Extends(old, new), NEW u \in Url
    PROVE  \/ Shelf(new)[u] = Shelf(old)[u]
           \/ /\ Shelf(old)[u] = NoRow
              /\ Shelf(new)[u] \in [source : Source, wording : Wording]
           \/ /\ Shelf(old)[u] # NoRow /\ ~ Shelf(old)[u].wording.snippet
              /\ Shelf(new)[u] \in [source : Source, wording : Wording]
              /\ Shelf(new)[u].source = Shelf(old)[u].source
<1>1. u \in Stored(new) => Shelf(new)[u] = [source |-> new[u].source, wording |-> new[u].wording]
                          /\ Shelf(new)[u] \in [source : Source, wording : Wording]
  <2> SUFFICES ASSUME u \in Stored(new)
               PROVE  /\ Shelf(new)[u] = [source |-> new[u].source, wording |-> new[u].wording]
                      /\ Shelf(new)[u] \in [source : Source, wording : Wording]
    OBVIOUS
  <2>1. new[u] \in Row /\ new[u] # NoRow
    BY RowTyped
  <2> QED
    BY <2>1 DEF Shelf, Row
<1>2. u \in Stored(old) => Shelf(old)[u] = [source |-> old[u].source, wording |-> old[u].wording]
  BY DEF Shelf, Stored
<1>3. \A rows \in Rows : u \notin Stored(rows) => Shelf(rows)[u] = NoRow
  BY DEF Shelf, Stored
<1>4. CASE u \notin Stored(old)
  BY <1>1, <1>3, <1>4
<1>5. CASE u \in Stored(old)
  <2>1. u \in Stored(new) /\ new[u].source = old[u].source
        /\ (new[u].wording # old[u].wording => ~ old[u].wording.snippet)
    BY <1>5 DEF Extends
  <2>2. CASE new[u].wording = old[u].wording
    BY <1>1, <1>2, <1>5, <2>1, <2>2
  <2>3. CASE new[u].wording # old[u].wording
    <3>1. ~ Shelf(old)[u].wording.snippet /\ Shelf(new)[u].source = Shelf(old)[u].source
      BY <1>1, <1>2, <1>5, <2>1, <2>3
    <3> QED
      BY <1>1, <2>1, <3>1
  <2> QED
    BY <2>2, <2>3
<1> QED
  BY <1>4, <1>5

\* Every step of the collectors leaves the archive as it is, or is one of its own.
LEMMA StepOfTheArchive ==
    ASSUME IInv, IInv', [Next]_vars
    PROVE  store' = store \/ (store \in Rows /\ store' \in Rows /\ Extends(store, store'))
<1>1. ASSUME NEW c \in Collector, Commit(c)
      PROVE  store \in Rows /\ store' \in Rows /\ Extends(store, store')
  <2>1. lock = c /\ lock # Nobody /\ store' = session[c].draft
    BY <1>1, ConstantAssumption DEF Commit
  <2> QED
    BY <2>1 DEF IInv, Tables, DraftGood, Good
<1>2. ASSUME NEW c \in Collector, Item(c) \/ Lock(c) \/ Rejected(c) \/ Fail(c) \/ BeginFeed(c)
                                 \/ BeginSocial(c)
      PROVE  store' = store
  BY <1>2 DEF Item, Lock, Rejected, Fail, Rollback, BeginFeed, BeginSocial
<1>3. ASSUME NEW c \in Collector, NEW s \in Source, Fetch(c, s) \/ BeginGdelt(c, s) \/ Publish(s)
      PROVE  store' = store
  BY <1>3 DEF Fetch, BeginGdelt, Publish
<1>4. ASSUME NEW s \in Source, Publish(s) PROVE store' = store
  BY <1>4 DEF Publish
<1>5. CASE StartTour \/ CalmDown \/ UNCHANGED vars
  BY <1>5 DEF StartTour, CalmDown, vars
<1> QED
  BY <1>1, <1>2, <1>3, <1>4, <1>5 DEF Next

\* The collectors implement the archive: an article once stored stays, under its
\* outlet, and changes its words only while it has no snippet (core/ingest/rss.py,
\* gdelt.py, social.py).
THEOREM ArchiveImplemented == Spec => Archived
<1>1. Init => Archive!Init
  BY DEF Init, Archive!Init
<1>2. IInv /\ IInv' /\ [Next]_vars => [Archive!Next]_(Shelf(store))
  <2> SUFFICES ASSUME IInv, IInv', [Next]_vars, store' # store
               PROVE  Archive!Next
    BY DEF Shelf
  <2>1. store \in Rows /\ store' \in Rows /\ Extends(store, store')
    BY StepOfTheArchive
  <2> SUFFICES ASSUME NEW u \in Url
               PROVE  Archive!Kept(u) \/ Archive!Added(u) \/ Archive!Corrected(u)
    BY DEF Archive!Next
  <2> QED
    BY <2>1, ShelfOfExtension DEF Shelf, Wording, Archive!Kept, Archive!Added, Archive!Corrected,
       Archive!Article
<1> QED
  BY <1>1, <1>2, IInvAlways, PTL DEF Spec, Archived, Archive!Spec, Shelf

=============================================================================
