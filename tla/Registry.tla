------------------------------- MODULE Registry -------------------------------
(***************************************************************************)
(* What the instance knows of the outlets from its own files: the          *)
(* catalogue (sync_catalog, core/ingest/catalog.py), owners, shares and    *)
(* public funding (load_ownership_seed, core/bias/structure.py), and what  *)
(* Wikidata adds on the owners (enrich_owners_job,                         *)
(* apps/worker/jobs/analyze.py).  Each is one transaction, a function of   *)
(* the tables and of a file or of Wikidata's answers; the functions are    *)
(* checked here over all small tables and files.                           *)
(*                                                                         *)
(* A table is a function from the keys it holds; what a row says is a      *)
(* value.                                                                  *)
(***************************************************************************)
EXTENDS Naturals, SequencesExt

CONSTANTS
    Programme,          \* the years and programmes of public funding
    MaxOwners           \* the owners a round of enrich_owners_job takes: 30

ASSUME OwnersAssumption == MaxOwners \in Nat

\* The last of the items with a key: the file is read from top to bottom.
LastOf(items, key) ==
    items[SelectLastInSeq(items, LAMBDA item : item.key = key)].says
Keys(items) == {items[i].key : i \in DOMAIN items}

(* sync_catalog: rows are found by slug, and what the file does not say of *)
(* them (the public profile) is left alone.  A slug is in the file once.   *)

SyncCatalog(sources, file) ==
    [s \in DOMAIN sources \cup Keys(file) |->
        IF s \notin Keys(file) THEN sources[s]
        ELSE [says |-> LastOf(file, s),
              profile |-> IF s \in DOMAIN sources THEN sources[s].profile ELSE "none"]]

\* {created, updated}.
SyncStats(sources, file) ==
    [created |-> Cardinality(Keys(file) \ (DOMAIN sources)),
     updated |-> Cardinality(Keys(file) \cap (DOMAIN sources))]

(* load_ownership_seed: owners are found by name, shares by outlet and     *)
(* owner, funding by outlet, year and programme; an item whose outlet or   *)
(* owner is not there is skipped and counted.  What Wikidata said of an    *)
(* owner is left alone.                                                    *)

LoadOwners(owners, items) ==
    [o \in DOMAIN owners \cup Keys(items) |->
        IF o \notin Keys(items) THEN owners[o]
        ELSE [qid |-> LastOf(items, o),
              facts |-> IF o \in DOMAIN owners THEN owners[o].facts ELSE "none"]]

\* What the file says of what is there.
Known(items, there) == Keys(items) \cap there

Upsert(table, items, there) ==
    [k \in DOMAIN table \cup Known(items, there) |->
        IF k \in Known(items, there) THEN LastOf(items, k) ELSE table[k]]

LoadSeed(db, seed) ==
    LET owners == LoadOwners(db.owners, seed.owners)
    IN  [db EXCEPT !.owners = owners,
                   !.shares = Upsert(@, seed.shares, (DOMAIN db.sources) \X (DOMAIN owners)),
                   !.fundings = Upsert(@, seed.fundings, (DOMAIN db.sources) \X Programme)]

Created(before, after) == Cardinality((DOMAIN after) \ (DOMAIN before))
Skipped(items, there) == Cardinality({i \in DOMAIN items : items[i].key \notin there})

SeedStats(db, seed) ==
    LET after == LoadSeed(db, seed)
    IN  [owners |-> Created(db.owners, after.owners),
         shares |-> Created(db.shares, after.shares),
         fundings |-> Created(db.fundings, after.fundings),
         skipped |-> Skipped(seed.shares, (DOMAIN db.sources) \X (DOMAIN after.owners))
                     + Skipped(seed.fundings, (DOMAIN db.sources) \X Programme)]

(* enrich_owners_job: the first owners with a QID, whichever they are in   *)
(* the table; the round stops at the first one Wikidata does not answer    *)
(* for, and keeps what it has.                                             *)

WithQID(owners) == {o \in DOMAIN owners : owners[o].qid # "none"}

\* Their places in the table, and those before a place.
Confirmed(owners, table) == {i \in DOMAIN table : table[i] \in WithQID(owners)}
Ahead(owners, table, i) == {j \in Confirmed(owners, table) : j < i}

Asked(owners, table) ==
    {i \in Confirmed(owners, table) : Cardinality(Ahead(owners, table, i)) < MaxOwners}

Enriched(owners, table, answered) ==
    {table[i] : i \in {j \in Asked(owners, table) :
                          \A m \in Asked(owners, table) : m <= j => table[m] \in answered}}

EnrichOwners(owners, table, answered) ==
    [o \in DOMAIN owners |->
        IF o \in Enriched(owners, table, answered)
        THEN [owners[o] EXCEPT !.facts = owners[o].qid] ELSE owners[o]]

-----------------------------------------------------------------------------
(* The checks.                                                             *)

Tables(keys, rows) == UNION {[there -> rows] : there \in SUBSET keys}
Files(keys, said, n) == SeqOf([key : keys, says : said], n)

Outlets == {"ansa", "rai"}
Names == {"fund", "heirs"}
SourceTables == Tables(Outlets, [says : {"old", "new"}, profile : {"none", "read"}])
OwnerTables == Tables(Names, [qid : {"none", "Q1", "Q2"}, facts : {"none", "Q1"}])

\* Read again, the catalogue changes nothing and creates nothing, says of every
\* outlet in it what the table then says, and takes no profile away.
CatalogueStays(sources, file) ==
    LET after == SyncCatalog(sources, file)
    IN  /\ SyncCatalog(after, file) = after
        /\ SyncStats(after, file).created = 0
        /\ \A s \in Keys(file) : after[s].says = LastOf(file, s)
        /\ \A s \in DOMAIN sources : after[s].profile = sources[s].profile

ASSUME CatalogueAssumption ==
    \A sources \in SourceTables, file \in Files(Outlets, {"old", "new"}, 2) :
       Cardinality(Keys(file)) = Len(file) => CatalogueStays(sources, file)

\* Read again, the seed changes nothing, creates nothing and skips what it had
\* skipped.
SeedStays(db, seed) ==
    LET after == LoadSeed(db, seed)
    IN  /\ LoadSeed(after, seed) = after
        /\ SeedStats(after, seed) =
               [owners |-> 0, shares |-> 0, fundings |-> 0, skipped |-> SeedStats(db, seed).skipped]

\* Every share is of an outlet and an owner that are there, and so is all funding.
References(db) ==
    /\ DOMAIN db.shares \subseteq (DOMAIN db.sources) \X (DOMAIN db.owners)
    /\ DOMAIN db.fundings \subseteq (DOMAIN db.sources) \X Programme

ASSUME SeedAssumption ==
    \A sources \in SUBSET Outlets, owners \in OwnerTables,
       ownerItems \in Files(Names, {"none", "Q1"}, 1),
       shareItems \in Files(Outlets \X Names, {"part", "all"}, 2),
       fundingItems \in Files(Outlets \X Programme, {"grant"}, 1) :
       LET db == [sources |-> [s \in sources |-> "row"], owners |-> owners,
                  shares |-> <<>>, fundings |-> <<>>]
           seed == [owners |-> ownerItems, shares |-> shareItems, fundings |-> fundingItems]
       IN  SeedStays(db, seed) /\ References(LoadSeed(db, seed))

\* A round enriches nobody without a confirmed QID and with no facts but those of
\* his QID; when Wikidata answers and those with a QID are not more than a round
\* takes, the facts of all of them are those of the QID they have.
FactsOfTheQID(owners, table, answered) ==
    LET after == EnrichOwners(owners, table, answered)
        confirmed == WithQID(owners)
    IN  /\ \A o \in DOMAIN owners :
              after[o].facts # owners[o].facts =>
                 o \in confirmed /\ after[o].facts = owners[o].qid
        /\ confirmed \subseteq answered /\ Cardinality(confirmed) <= MaxOwners =>
              \A o \in confirmed : after[o].facts = owners[o].qid

ASSUME EnrichAssumption ==
    \A owners \in OwnerTables : \A answered \in SUBSET DOMAIN owners :
       \A table \in SetToSeqs(DOMAIN owners) : FactsOfTheQID(owners, table, answered)

(* What is not so.                                                         *)

\* "catalogo e DB non possono divergere": an outlet taken out of the file stays
\* in the table as it was, enabled if it was.
CatalogueIsTheTable(sources, file) == DOMAIN SyncCatalog(sources, file) = Keys(file)

\* "Solo per proprietari con QID CONFERMATO nel seed": when the seed withdraws a
\* QID, the facts it gave stay and go on being shown.
FactsAreConfirmed(db, seed) ==
    \A o \in DOMAIN LoadSeed(db, seed).owners :
       LET owner == LoadSeed(db, seed).owners[o]
       IN  owner.facts = "none" \/ owner.facts = owner.qid
=============================================================================
