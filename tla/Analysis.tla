------------------------------ MODULE Analysis ------------------------------
(***************************************************************************)
(* What is derived from the stories: blind spots, entities and their links *)
(* to Wikidata (apps/worker/jobs/analyze.py, core/bias/selection.py,       *)
(* core/nlp/entities.py).                                                  *)
(*                                                                         *)
(* Three jobs judge who ignored a story: the clustering job, after the     *)
(* stories it touched; a job every two hours; the weekly job, on a window  *)
(* of its own.  Each reads who covers what, waits for the lock of the      *)
(* database (it deletes signals first) and writes what it read: another    *)
(* may have written in between.  A fourth job asks Wikidata for entities.  *)
(*                                                                         *)
(* An outlet has one article of a story.  All the articles of a story are  *)
(* of its age: 0 is under six hours, 1 over, 2 out of the thirty days.     *)
(* Propensities are ratios over the number of big stories.                 *)
(***************************************************************************)
EXTENDS Integers, FiniteSets, FiniteSetsExt

CONSTANTS
    Story, Source, Country, Label,
    CountryOf,                  \* CountryOf[s]
    Mentions,                   \* Mentions[l]: the <<s, st>> whose title names an entity
    Early, Arrivals,            \* bound: the <<s, st>> there at first, and those that may come
    Window,                     \* Window[j]: the oldest age a job looks at
    MinSources, MinCountries, MinGroup, MinBig, MaxGroups,
    MinPeers,                   \* outlets a country needs for signals of its outlets
    Alpha, Threshold,           \* ratios: <<1, 20>> for 0.05
    Rank,                       \* Rank[c]: the order in which rows bring up the countries
    Ages,                       \* bound: Ages[st], those a story goes through
    Batch,                      \* stories a commit of the clustering job holds
    NoRow, NoSignal, NoView, NoLink, None

Judge == {"cluster", "blindspots", "signals"}
Entity == Label \X BOOLEAN      \* a label, and whether it has its QID

ASSUME ConstantAssumption ==
    /\ CountryOf \in [Source -> Country]
    /\ Mentions \in [Label -> SUBSET (Source \X Story)]
    /\ Early \cup Arrivals \subseteq Source \X Story
    /\ Window \in [Judge -> 0 .. 2] /\ \A st \in Story : Ages[st] \subseteq 0 .. 2 /\ Ages[st] # {}
    /\ {MinSources, MinCountries, MinGroup, MinBig, MaxGroups, MinPeers, Batch} \subseteq Nat \ {0}
    /\ IsFiniteSet(Source) /\ IsFiniteSet(Story) /\ Rank \in [Country -> Nat]
    /\ Alpha \in Nat \X Nat /\ Alpha[1] <= Alpha[2]

VARIABLES
    cover,      \* cover[st]: the outlets with an article of a story
    age,        \* age[st]
    flags,      \* flags[st]: blindspot_for of its coverage, NoRow before it has one
    signal,     \* signal[s]: the stories an outlet missed, as last written
    entities,   \* entities[st], of type Entity
    recorded,   \* the stories whose provenance tells of a link
    at,         \* at[j]: what a judging job does
    seen,       \* seen[j]: who covered what when it looked
    todo,       \* the stories the clustering job has still to go through
    pending,    \* those it has, not yet committed
    link,       \* link_entities_job: the entities loaded, the stories to search and found
    holder,     \* who has the lock of the database
    calm        \* no job fails any more

vars == <<cover, age, flags, signal, entities, recorded, at, seen, todo, pending, link, holder, calm>>

View == [cover : [Story -> SUBSET Source], age : [Story -> 0 .. 2]]
Link == [loaded : [Story -> SUBSET Entity], todo : SUBSET Story, found : SUBSET Story]

ASSUME NoValueAssumption ==
    /\ \A c \in SUBSET Country : c # NoRow
    /\ \A x \in SUBSET Story : x # NoSignal
    /\ NoView \notin View /\ NoLink \notin Link
    /\ None \notin Judge \cup {"link"}

TypeOK ==
    /\ cover \in [Story -> SUBSET Source] /\ age \in [Story -> 0 .. 2]
    /\ flags \in [Story -> {NoRow} \cup SUBSET Country]
    /\ signal \in [Source -> {NoSignal} \cup SUBSET Story]
    /\ entities \in [Story -> SUBSET Entity] /\ recorded \in SUBSET Story
    /\ at \in [Judge -> {"idle", "stories", "looked", "judging"}]
    /\ seen \in [Judge -> {NoView} \cup View]
    /\ \A j \in Judge : seen[j] = NoView <=> at[j] \in {"idle", "stories"}
    /\ todo \in SUBSET Story /\ pending \in SUBSET Story
    /\ link \in Link \cup {NoLink}
    /\ holder \in Judge \cup {"link", None} /\ calm \in BOOLEAN
    /\ \A j \in Judge : at[j] = "judging" => holder = j
    /\ holder = "link" => link # NoLink

Now == [cover |-> cover, age |-> age]

Init ==
    /\ cover = [st \in Story |-> {s \in Source : <<s, st>> \in Early}]
    /\ age = [st \in Story |-> Min(Ages[st])]
    /\ flags = [st \in Story |-> NoRow]
    /\ signal = [s \in Source |-> NoSignal]
    /\ entities = [st \in Story |-> {}]
    /\ recorded = {}
    /\ at = [j \in Judge |-> "idle"]
    /\ seen = [j \in Judge |-> NoView]
    /\ todo = {} /\ pending = {}
    /\ link = NoLink
    /\ holder = None
    /\ calm = FALSE

-----------------------------------------------------------------------------
(* compute_blindspots on what a job has seen, v, of the stories of age w.  *)

InWindow(v, w) == {st \in Story : v.cover[st] # {} /\ v.age[st] <= w}
Active(v, w, c) == {s \in Source : CountryOf[s] = c /\ \E st \in InWindow(v, w) : s \in v.cover[st]}
Big(v, w) == {st \in InWindow(v, w) : Cardinality(v.cover[st]) >= MinSources}
Countries(v, st) == {CountryOf[s] : s \in v.cover[st]}

\* An outlet's propensity is the share of the big stories it covers: the chance
\* that it covers one drawn at random, for each outlet of c one of its own.
Draws(v, w, c) == [Active(v, w, c) -> Big(v, w)]

\* A variant of PNull with the chances the other way round.
PNullInverted(v, w, c) == {d \in Draws(v, w, c) : \A s \in DOMAIN d : s \in v.cover[d[s]]}

\* The draws in which none covers the story it has drawn: of all draws they are
\* the product of the outlets' chances not to.
PNull(v, w, c) == {d \in Draws(v, w, c) : \A s \in DOMAIN d : s \notin v.cover[d[s]]}

Judged(v, w, st) ==
    /\ Cardinality(Big(v, w)) >= MinBig /\ st \in Big(v, w)
    /\ v.age[st] >= 1
    /\ Cardinality(Countries(v, st)) >= MinCountries

Improbable(v, w, c) ==
    Cardinality(PNull(v, w, c)) * Alpha[2] < Cardinality(Draws(v, w, c)) * Alpha[1]

Ignoring(v, w, st) ==
    {c \in Country \ Countries(v, st) :
        /\ Judged(v, w, st)
        /\ Cardinality(Active(v, w, c)) >= MinGroup
        /\ Improbable(v, w, c)}

\* d comes before c: it is less probable, or was met first (the code compares the
\* probabilities rounded to four places, here they are exact).
Precedes(v, w, d, c) ==
    LET left == Cardinality(PNull(v, w, d)) * Cardinality(Draws(v, w, c))
        right == Cardinality(PNull(v, w, c)) * Cardinality(Draws(v, w, d))
    IN  left < right \/ (left = right /\ Rank[d] < Rank[c])

\* The least probable groups.
Verdict(v, w, st) ==
    LET all == Ignoring(v, w, st)
    IN  {c \in all : Cardinality({d \in all : Precedes(v, w, d, c)}) < MaxGroups}

\* Python's round of a / b: halves to even.
Rounded(a, b) ==
    LET q == a \div b
    IN  IF 2 * (a % b) < b \/ (2 * (a % b) = b /\ q % 2 = 0) THEN q ELSE q + 1

Peers(v, w, s) == Active(v, w, CountryOf[s]) \ {s}
HasSignal(v, w, s) ==
    s \in Active(v, w, CountryOf[s]) /\ Cardinality(Active(v, w, CountryOf[s])) >= MinPeers

Missed(v, w, s) ==
    {st \in InWindow(v, w) :
        /\ s \notin v.cover[st]
        /\ Cardinality(v.cover[st] \cap Peers(v, w, s))
             >= Max({2, Rounded(Threshold[1] * Cardinality(Peers(v, w, s)), Threshold[2])})}

-----------------------------------------------------------------------------
(* The clustering job.                                                     *)

At(j, step) == at' = [at EXCEPT ![j] = step]

\* cluster_pending, with its commit.
Cluster ==
    /\ at["cluster"] = "idle" /\ holder = None
    /\ \E new \in SUBSET {p \in Arrivals : p[1] \notin cover[p[2]] /\ age[p[2]] < 2} :
          /\ new # {}
          /\ cover' = [st \in Story |-> cover[st] \cup {s \in Source : <<s, st>> \in new}]
          /\ todo' = {p[2] : p \in new}
    /\ At("cluster", "stories")
    /\ UNCHANGED <<age, flags, signal, entities, recorded, seen, pending, link, holder, calm>>

\* extract_entities: named in two titles, or in the only one.
Extracted(st) ==
    {l \in Label : Cardinality({s \in cover[st] : <<s, st>> \in Mentions[l]})
                     >= IF Cardinality(cover[st]) > 1 THEN 2 ELSE 1}

\* assign_story_entities keeps the QIDs of the labels that stay.
Assigned(st) == {e \in Entity : e[1] \in Extracted(st) /\ (e[2] <=> <<e[1], TRUE>> \in entities[st])}

\* What is visible once the clustering job has committed the stories in done.
RowOf(st, done) == IF st \in done /\ flags[st] = NoRow THEN {} ELSE flags[st]
EntitiesOf(done) == [st \in Story |-> IF st \in done THEN Assigned(st) ELSE entities[st]]

\* compute_coverage and assign_story_entities of a story; every Batch of them a commit.
GoThrough(st) ==
    /\ at["cluster"] = "stories" /\ st \in todo
    /\ holder \in {None, "cluster"}
    /\ todo' = todo \ {st}
    /\ LET done == pending \cup {st}
           full == Cardinality(done) = Batch
       IN  /\ pending' = IF full THEN {} ELSE done
           /\ holder' = IF full THEN None ELSE "cluster"
           /\ flags' = IF full THEN [x \in Story |-> RowOf(x, done)] ELSE flags
           /\ entities' = IF full THEN EntitiesOf(done) ELSE entities
    /\ UNCHANGED <<cover, age, signal, recorded, at, seen, link, calm>>

-----------------------------------------------------------------------------
(* Judging.                                                                *)

\* The rows are read; the job with stories in its transaction has the lock already.
Look(j) ==
    /\ IF j = "cluster" THEN at[j] = "stories" /\ todo = {} ELSE at[j] = "idle"
    /\ j = "signals" => holder = None
    /\ seen' = [seen EXCEPT ![j] = Now]
    /\ holder' = IF j = "signals" THEN j ELSE holder
    /\ At(j, IF holder' = j THEN "judging" ELSE "looked")
    /\ UNCHANGED <<cover, age, flags, signal, entities, recorded, todo, pending, link, calm>>

\* The first DELETE of write_signal.
Lock(j) ==
    /\ at[j] = "looked" /\ holder = None
    /\ holder' = j
    /\ At(j, "judging")
    /\ UNCHANGED <<cover, age, flags, signal, entities, recorded, seen, todo, pending, link, calm>>

\* A variant of Updated that leaves the flags of a story nobody ignores.
UpdatedIfAny(old, new) == IF new = {} THEN old ELSE new

Updated(old, new) == new

\* Every coverage of the window is written, so that flags without reason go.
Commit(j) ==
    /\ at[j] = "judging"
    /\ LET v == seen[j]
           w == Window[j]
           done == IF j = "cluster" THEN pending ELSE {}
           rows == {st \in InWindow(v, w) : RowOf(st, done) # NoRow}
       IN  /\ flags' = [st \in Story |-> IF st \in rows THEN Updated(RowOf(st, done), Verdict(v, w, st))
                                         ELSE RowOf(st, done)]
           /\ signal' = [s \in Source |-> IF HasSignal(v, w, s) THEN Missed(v, w, s) ELSE signal[s]]
           /\ entities' = EntitiesOf(done)
           /\ pending' = pending \ done
    /\ holder' = None
    /\ At(j, "idle") /\ seen' = [seen EXCEPT ![j] = NoView]
    /\ UNCHANGED <<cover, age, recorded, todo, link, calm>>

\* An error, or fifteen seconds without the lock: the transaction is undone, what was
\* committed before stays.
Fail(j) ==
    /\ at[j] # "idle" /\ ~ calm
    /\ At(j, "idle") /\ seen' = [seen EXCEPT ![j] = NoView]
    /\ holder' = IF holder = j THEN None ELSE holder
    /\ IF j = "cluster" THEN todo' = {} /\ pending' = {} ELSE UNCHANGED <<todo, pending>>
    /\ UNCHANGED <<cover, age, flags, signal, entities, recorded, link, calm>>

-----------------------------------------------------------------------------
(* link_entities_job.                                                      *)

StartLink ==
    /\ link = NoLink
    /\ \E st \in Story : entities[st] # {}
    /\ link' = [loaded |-> entities, todo |-> {st \in Story : entities[st] # {}}, found |-> {}]
    /\ UNCHANGED <<cover, age, flags, signal, entities, recorded, at, seen, todo, pending, holder, calm>>

Searched(st) == {e[1] : e \in {x \in link.loaded[st] : ~ x[2]}}

\* The labels without a QID are searched one after the other; those found get theirs
\* in the dictionaries loaded, and with the provenance of the story the job takes the
\* lock, which it has until all stories are searched.
Search(st) ==
    /\ link # NoLink /\ st \in link.todo
    /\ \E found \in SUBSET Searched(st) :
          /\ found # {} => holder \in {None, "link"}
          /\ link' = [todo |-> link.todo \ {st},
                      loaded |-> [link.loaded EXCEPT ![st] = {<<e[1], e[2] \/ e[1] \in found>> : e \in @}],
                      found |-> link.found \cup (IF found = {} THEN {} ELSE {st})]
          /\ holder' = IF found = {} THEN holder ELSE "link"
    /\ UNCHANGED <<cover, age, flags, signal, entities, recorded, at, seen, todo, pending, calm>>

\* The session writes an attribute that differs from the value it loaded.
Dirty(assigned, loaded) == assigned # loaded

\* All searched, or Wikidata out of reach.  The list assigned to a story is a copy of
\* the one loaded, its dictionaries are the same: what was loaded has changed with it.
EndLink ==
    /\ link # NoLink
    /\ entities' = [st \in Story |-> IF st \in link.found /\ Dirty(link.loaded[st], link.loaded[st])
                                     THEN link.loaded[st] ELSE entities[st]]
    /\ recorded' = recorded \cup link.found
    /\ link' = NoLink
    /\ holder' = IF holder = "link" THEN None ELSE holder
    /\ UNCHANGED <<cover, age, flags, signal, at, seen, todo, pending, calm>>

-----------------------------------------------------------------------------
TimePasses(st) ==
    /\ age[st] + 1 \in Ages[st]
    /\ age' = [age EXCEPT ![st] = @ + 1]
    /\ UNCHANGED <<cover, flags, signal, entities, recorded, at, seen, todo, pending, link, holder, calm>>

CalmDown ==
    /\ ~ calm /\ calm' = TRUE
    /\ UNCHANGED <<cover, age, flags, signal, entities, recorded, at, seen, todo, pending, link, holder>>

Next ==
    \/ Cluster
    \/ \E st \in Story : GoThrough(st) \/ TimePasses(st) \/ Search(st)
    \/ \E j \in Judge : Look(j) \/ Lock(j) \/ Commit(j) \/ Fail(j)
    \/ StartLink \/ EndLink \/ CalmDown

Spec == Init /\ [][Next]_vars

\* The jobs come back, none waits for the lock for ever, and after some time none fails.
FairSpec ==
    /\ Spec
    /\ WF_vars(CalmDown)
    /\ \A st \in Story : SF_vars(GoThrough(st)) /\ WF_vars(Search(st))
    /\ \A j \in {"blindspots", "cluster"} : WF_vars(Look(j)) /\ SF_vars(Lock(j))
    /\ \A j \in Judge : WF_vars(Commit(j))
    /\ WF_vars(EndLink)

-----------------------------------------------------------------------------
(* Safety.                                                                 *)

\* Nobody is reproached for a story before it is six hours old, whichever of the jobs
\* judged it and whatever it had seen.
TimeToCover == \A st \in Story : flags[st] \notin {{}, NoRow} => age[st] >= 1

\* A country none of whose outlets has ever covered a story many covered is not
\* marked: silence there means nothing.
SmallCountriesAreSpared ==
    \A st \in Story : flags[st] # NoRow =>
        \A c \in flags[st] : \E big \in Story \ {st}, s \in Source :
            CountryOf[s] = c /\ s \in cover[big] /\ Cardinality(cover[big]) >= MinSources

(* Liveness.                                                               *)

\* Again and again the flags of the stories of the month are those their coverage
\* calls for, and each outlet is told what it missed: what a job wrote from an old
\* look, or for another window, is set right.
FlagsFollow ==
    []<>(LET w == Window["blindspots"]
         IN  /\ \A st \in InWindow(Now, w) : flags[st] # NoRow => flags[st] = Verdict(Now, w, st)
             /\ \A s \in Source : HasSignal(Now, w, s) => signal[s] = Missed(Now, w, s))

(* What documents say.                                                     *)

\* "Il collegamento a Wikidata (QID) avviene in un secondo momento, via API pubblica":
\* a story said to have been linked has a QID.
EntitiesLinked ==
    [][\A st \in recorded' \ recorded : \E e \in entities'[st] : e[2]]_vars
=============================================================================
