---------------------------- MODULE ArticleStore ----------------------------
(***************************************************************************)
(* The articles and their three collectors: store_feed (core/ingest/       *)
(* rss.py), store_gdelt_articles (gdelt.py), store_social_items            *)
(* (social.py), over the transactions of SQLite.                           *)
(*                                                                         *)
(* Each collector looks for what it finds among what is stored, by         *)
(* address, by page (the address without its tracking parameters) or by    *)
(* likeness, and inserts the rest.  store_feed has written the feed's      *)
(* state by then, so it holds the write lock from before it looks to its   *)
(* commit; the other two look first and lock with their first insertion.   *)
(*                                                                         *)
(* What an article says is a title, with a snippet or without; which       *)
(* titles are alike (the simhash) is data.                                 *)
(***************************************************************************)
EXTENDS Naturals, Sequences, FiniteSets

CONSTANTS
    Url,
    PageOf,         \* PageOf[u]: canonicalize(u)
    Title,
    Alike,          \* the pairs of titles whose simhashes are near
    Source,
    Editions,       \* Editions[s]: what the feed of s says, one time after another
    Found,          \* Found[s]: what GDELT finds of s
    Posted,         \* Posted[s]: what the account of s links to
    SiteOf,         \* SiteOf[u]: the outlet on whose domain u is
    Tour,           \* the outlets with an account, in the order of the catalogue
    Collector, Via, \* Via[c]: "feed", "gdelt" or "social"
    RecentLimit,    \* simhashes looked at, 300
    NoRow, NoSession, Nobody

Wording == [title : Title, snippet : BOOLEAN]
Entry == [url : Url, wording : Wording]

\* knew, corrected: history, the addresses its collector had seen stored, and
\* whether a feed has changed its title.
Row == [id : 1..Cardinality(Url), source : Source, wording : Wording,
        via : {"feed", "gdelt", "social"}, knew : SUBSET Url, corrected : BOOLEAN]
Rows == [Url -> Row \cup {NoRow}]

\* What a collector at work on a source has read, and its uncommitted rows.
Session == [source : Source, items : Seq(Entry), known : SUBSET Url,
            recent : SUBSET Title, draft : Rows]

ASSUME ConstantAssumption ==
    /\ IsFiniteSet(Url)
    /\ Via \in [Collector -> {"feed", "gdelt", "social"}]
    /\ \A s \in Source : Editions[s] \in Seq(Seq(Entry))
    /\ Found \in [Source -> Seq(Entry)] /\ Posted \in [Source -> Seq(Entry)]
    /\ Tour \in Seq(Source)
    /\ \A c, d \in Collector : Via[c] = "social" /\ Via[d] = "social" => c = d
    /\ RecentLimit \in Nat
    /\ NoRow \notin Row /\ NoSession \notin Session /\ Nobody \notin Collector

VARIABLES
    store,      \* the committed articles
    session,    \* session[c]
    lock,       \* who holds SQLite's write lock
    edition,    \* edition[s]: how far the feed of s has got
    download,   \* download[c]: the edition a collector of feeds has fetched
    tour,       \* how many outlets ingest_social_job has still to visit
    calm        \* no transaction fails any more but for what it writes

vars == <<store, session, lock, edition, download, tour, calm>>

TypeOK ==
    /\ store \in Rows
    /\ session \in [Collector -> Session \cup {NoSession}]
    /\ lock \in Collector \cup {Nobody}
    /\ lock # Nobody => session[lock] # NoSession
    /\ edition \in [Source -> Nat]
    /\ download \in [Collector -> (Source \X Nat) \cup {NoSession}]
    /\ tour \in 0..Len(Tour)
    /\ calm \in BOOLEAN

Init ==
    /\ store = [u \in Url |-> NoRow]
    /\ session = [c \in Collector |-> NoSession]
    /\ lock = Nobody
    /\ edition = [s \in Source |-> 1]
    /\ download = [c \in Collector |-> NoSession]
    /\ tour = 0
    /\ calm = FALSE

Stored(rows) == {u \in Url : rows[u] # NoRow}

Publish(s) ==
    /\ edition[s] < Len(Editions[s])
    /\ edition' = [edition EXCEPT ![s] = @ + 1]
    /\ UNCHANGED <<store, session, lock, download, tour, calm>>

-----------------------------------------------------------------------------
(* Looking: what is stored of this, what of it is new.                     *)

\* _recent_simhashes: of the latest rows of the source.
Recent(s) ==
    LET rows == {u \in Stored(store) : store[u].source = s}
    IN  {store[u].wording.title :
            u \in {v \in rows : Cardinality({w \in rows : store[w].id > store[v].id}) < RecentLimit}}

IsNear(title, titles) == \E t \in titles : <<t, title>> \in Alike

\* A variant of Opened whose collector looks by address only.
OpenedBlind(s, items) ==
    [source |-> s, items |-> items, known |-> Stored(store), recent |-> {}, draft |-> store]

Opened(s, items) ==
    [source |-> s, items |-> items, known |-> Stored(store), recent |-> Recent(s),
     draft |-> store]

\* The articles an entry of a feed is taken for: that of its address if there
\* is one, or one of its page.
Existing(rows, e) ==
    IF e.url \in Stored(rows) THEN {e.url}
    ELSE {u \in Stored(rows) : PageOf[u] = PageOf[e.url]}

\* A variant of IsKnown that forgets the page.
IsKnownByAddress(c, e) ==
    \/ e.url \in session[c].known
    \/ Via[c] = "social" /\ IsNear(e.wording.title, session[c].recent)

\* What the other two skip.
IsKnown(c, e) ==
    \/ e.url \in session[c].known
    \/ /\ Via[c] = "social"
       /\ \/ \E u \in session[c].known : PageOf[u] = PageOf[e.url]
          \/ IsNear(e.wording.title, session[c].recent)

\* _belongs_to_source, match_source.
OfSource(s, items) == SelectSeq(items, LAMBDA e : SiteOf[e.url] = s)

ASSUME SelectionAssumption == \A s \in Source :
    OfSource(s, Found[s]) \in Seq(Entry) /\ OfSource(s, Posted[s]) \in Seq(Entry)

-----------------------------------------------------------------------------
(* Writing.                                                                *)

Inserted(c, e) ==
    LET own == session[c]
    IN  [own EXCEPT
           !.items = Tail(@),
           !.draft[e.url] = [id |-> Cardinality(Stored(own.draft)) + 1,
                             source |-> own.source, wording |-> e.wording, via |-> Via[c],
                             knew |-> own.known, corrected |-> FALSE],
           !.known = @ \cup {e.url},
           !.recent = @ \cup {e.wording.title}]

Skipped(c) == [session[c] EXCEPT !.items = Tail(@)]

\* Variants of Corrects: of every title; of a title never corrected before.
CorrectsAny(row, e) == e.wording.title # row.wording.title
CorrectsOnce(row, e) == CorrectsAny(row, e) /\ ~ row.wording.snippet /\ ~ row.corrected

Corrects(row, e) == ~ row.wording.snippet /\ e.wording.title # row.wording.title

Corrected(c, u, e) ==
    [session[c] EXCEPT !.items = Tail(@),
                       !.draft[u].wording = e.wording, !.draft[u].corrected = TRUE]

\* What an entry makes of the session of a feed.
FeedItem(c, e) ==
    LET own == session[c]
    IN  IF Existing(own.draft, e) # {}
        THEN {IF Corrects(own.draft[u], e) THEN Corrected(c, u, e) ELSE Skipped(c) :
                 u \in Existing(own.draft, e)}
        ELSE {IF IsNear(e.wording.title, own.recent) THEN Skipped(c) ELSE Inserted(c, e)}

\* The provenance of a correction needs the id of the article, which one
\* inserted by this very transaction has not got yet.
HasNoId(c, e) ==
    \E u \in Existing(session[c].draft, e) :
        store[u] = NoRow /\ Corrects(session[c].draft[u], e)

\* Another collector has stored the address since this one looked.
Conflicts(c, e) == e.url \in Stored(session[c].draft) \ session[c].known

IsAtWork(c) == lock = c /\ session[c].items # <<>>

Item(c) ==
    LET e == Head(session[c].items)
    IN  /\ IsAtWork(c)
        /\ \/ /\ Via[c] = "feed" /\ ~ HasNoId(c, e)
              /\ \E next \in FeedItem(c, e) : session' = [session EXCEPT ![c] = next]
           \/ /\ Via[c] # "feed" /\ IsKnown(c, e)
              /\ session' = [session EXCEPT ![c] = Skipped(c)]
           \/ /\ Via[c] # "feed" /\ ~ IsKnown(c, e) /\ ~ Conflicts(c, e)
              /\ session' = [session EXCEPT ![c] = Inserted(c, e)]
        /\ UNCHANGED <<store, lock, edition, download, tour, calm>>

-----------------------------------------------------------------------------
(* The transactions.                                                       *)

Fetch(c, s) ==
    /\ Via[c] = "feed" /\ session[c] = NoSession /\ download[c] = NoSession
    /\ Editions[s] # <<>>
    /\ download' = [download EXCEPT ![c] = <<s, edition[s]>>]
    /\ UNCHANGED <<store, session, lock, edition, tour, calm>>

\* The state of the feed is written, then what the feed says is looked for.
BeginFeed(c) ==
    /\ download[c] # NoSession
    /\ lock = Nobody /\ lock' = c
    /\ LET s == download[c][1]
       IN  session' = [session EXCEPT ![c] = Opened(s, Editions[s][download[c][2]])]
    /\ download' = [download EXCEPT ![c] = NoSession]
    /\ UNCHANGED <<store, edition, tour, calm>>

BeginGdelt(c, s) ==
    /\ Via[c] = "gdelt" /\ session[c] = NoSession
    /\ OfSource(s, Found[s]) # <<>>
    /\ session' = [session EXCEPT ![c] = Opened(s, OfSource(s, Found[s]))]
    /\ UNCHANGED <<store, lock, edition, download, tour, calm>>

StartTour ==
    /\ tour = 0
    /\ \A c \in Collector : Via[c] = "social" => session[c] = NoSession
    /\ tour' = Len(Tour)
    /\ UNCHANGED <<store, session, lock, edition, download, calm>>

BeginSocial(c) ==
    LET s == Tour[Len(Tour) - tour + 1]
    IN  /\ Via[c] = "social" /\ session[c] = NoSession
        /\ tour > 0
        /\ session' = [session EXCEPT ![c] = Opened(s, OfSource(s, Posted[s]))]
        /\ UNCHANGED <<store, lock, edition, download, tour, calm>>

\* The first insertion: the draft is of what is stored by now.
Lock(c) ==
    /\ session[c] # NoSession
    /\ lock = Nobody /\ lock' = c
    /\ session' = [session EXCEPT ![c].draft = store]
    /\ UNCHANGED <<store, edition, download, tour, calm>>

Close(c) ==
    /\ session' = [session EXCEPT ![c] = NoSession]
    /\ lock' = IF lock = c THEN Nobody ELSE lock

\* A variant of NextOutlet for a job that ends with its first outlet.
NextOutletNone(c) == IF Via[c] = "social" THEN 0 ELSE tour

NextOutlet(c) == IF Via[c] = "social" THEN tour - 1 ELSE tour

Commit(c) ==
    /\ lock = c /\ session[c].items = <<>>
    /\ Close(c)
    /\ store' = session[c].draft
    /\ tour' = NextOutlet(c)
    /\ UNCHANGED <<edition, download, calm>>

\* Nothing in ingest_social_job catches what store_social_items raises.
TourAfter(c) == IF Via[c] = "social" THEN 0 ELSE tour

Rollback(c) ==
    /\ Close(c)
    /\ tour' = TourAfter(c)
    /\ UNCHANGED <<store, edition, download, calm>>

\* The constraint on the address, or on the provenance.
Rejected(c) ==
    /\ IsAtWork(c)
    /\ LET e == Head(session[c].items)
       IN  IF Via[c] = "feed" THEN HasNoId(c, e) ELSE ~ IsKnown(c, e) /\ Conflicts(c, e)
    /\ Rollback(c)

\* The database stays locked for too long (the clustering), or the program ends.
Fail(c) ==
    /\ session[c] # NoSession
    /\ ~ calm
    /\ Rollback(c)

CalmDown ==
    /\ ~ calm
    /\ calm' = TRUE
    /\ UNCHANGED <<store, session, lock, edition, download, tour>>

Next ==
    \/ \E s \in Source : Publish(s)
    \/ StartTour \/ CalmDown
    \/ \E c \in Collector :
          \/ \E s \in Source : Fetch(c, s) \/ BeginGdelt(c, s)
          \/ BeginFeed(c) \/ BeginSocial(c)
          \/ Lock(c) \/ Item(c) \/ Commit(c) \/ Rejected(c)
          \/ Fail(c)

Spec == Init /\ [][Next]_vars

Holder == \E c \in Collector : Item(c) \/ Commit(c) \/ Rejected(c)
Social == StartTour \/ \E c \in Collector : BeginSocial(c)

\* The rounds come again and again, and visit every source; who waits for the
\* lock gets it when it is free again and again.  In the end the database is no
\* longer locked for too long.
FairSpec ==
    /\ Spec
    /\ WF_vars(Holder) /\ WF_vars(Social) /\ WF_vars(\E s \in Source : Publish(s))
    /\ WF_vars(CalmDown)
    /\ \A c \in Collector : SF_vars(Lock(c) \/ BeginFeed(c))
    /\ \A s \in {r \in Source : Editions[r] # <<>>} :
          SF_vars(\E c \in Collector : Fetch(c, s))
    /\ \A s \in {r \in Source : OfSource(r, Found[r]) # <<>>} :
          SF_vars(\E c \in Collector : BeginGdelt(c, s))

-----------------------------------------------------------------------------
(* Safety.                                                                 *)

\* One page is stored twice only where the code allows it: the later row came
\* from GDELT, which compares addresses, or its collector looked before the
\* earlier one was there.  Feeds, accounts and what they insert within one
\* transaction never double a page.
NoTwinPages ==
    \A u, v \in Stored(store) :
        PageOf[u] = PageOf[v] /\ store[u].id < store[v].id
            => store[v].via = "gdelt" \/ u \notin store[v].knew

\* The rows of the source of u and v between them.
Between(u, v) ==
    {w \in Stored(store) : store[w].source = store[u].source
                           /\ store[w].id \in (store[u].id + 1)..(store[v].id - 1)}

\* What a feed or an account says again in almost the same words, at another
\* address, is not stored again, within the latest rows of the source; the
\* corrected rows no longer say what they said.
NoNearDuplicates ==
    \A u, v \in Stored(store) :
        (/\ store[u].source = store[v].source /\ store[u].id < store[v].id
         /\ store[v].via # "gdelt" /\ u \in store[v].knew
         /\ ~ store[u].corrected /\ ~ store[v].corrected
         /\ Cardinality(Between(u, v)) < RecentLimit)
            => ~ IsNear(store[v].wording.title, {store[u].wording.title})

\* The three collectors, their races and rollbacks implement the archive.
Archive == INSTANCE Archive WITH
    NoArticle <- NoRow,
    article <- [u \in Url |->
        IF store[u] = NoRow THEN NoRow
        ELSE [source |-> store[u].source, wording |-> store[u].wording]]
Archived == Archive!Spec

(* Liveness.                                                               *)

\* What the feed of s says from some time on; what GDELT and accounts say of it.
Elements(items) == {items[n] : n \in 1..Len(items)}
Carried(s) == IF Editions[s] = <<>> THEN {} ELSE Elements(Editions[s][Len(Editions[s])])
Reported(s) == Elements(OfSource(s, Found[s]))
Linked == UNION {Elements(OfSource(Tour[n], Posted[Tour[n]])) : n \in 1..Len(Tour)}

\* A headline as GDELT mangled it does not stay: as long as the feed carries
\* the address, it ends up with the words of the feed, or with a snippet,
\* whatever rounds race and whichever is rejected.
WordsOfTheFeed ==
    \A s \in Source : \A e \in Carried(s) :
        <>[](\/ e.url \notin Stored(store)
             \/ store[e.url].wording.snippet
             \/ store[e.url].wording.title = e.wording.title)

\* Nothing found is lost for good to a conflict: every address GDELT finds is
\* stored in the end, every page an account links to or one alike is.
FoundIsStored ==
    /\ \A s \in Source : \A e \in Reported(s) : <>(e.url \in Stored(store))
    /\ \A e \in Linked :
          <>(\E u \in Stored(store) :
                \/ PageOf[u] = PageOf[e.url]
                \/ IsNear(e.wording.title, {store[u].wording.title}))

\* What a feed goes on saying is stored sooner or later, itself or something
\* that passes for it.
FeedIsStored ==
    \A s \in Source : \A e \in Carried(s) :
        <>(\E u \in Stored(store) :
              \/ PageOf[u] = PageOf[e.url]
              \/ IsNear(e.wording.title, {store[u].wording.title}))
=============================================================================
