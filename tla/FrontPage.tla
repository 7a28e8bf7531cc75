------------------------------ MODULE FrontPage ------------------------------
(***************************************************************************)
(* What the front page shows (index in routers/pages.py, core/ranking.py), *)
(* what the job that translates titles prepares for it                     *)
(* (stories_to_translate), and the versions of a story that are shown      *)
(* beside each other (diverse_articles).  All are functions of the         *)
(* archive, compared with what the page promises over small archives.      *)
(*                                                                         *)
(* An archive is a function from the ids of stories to records: the ages   *)
(* of first_seen and last_seen, the outlets of its life (sources) and of   *)
(* the last 24 hours (recent), its articles by country (from).  Ages are   *)
(* in half-lives of 12 hours, for which weights are exact; only age 0 is   *)
(* within the 3 hours of the last minute.                                  *)
(***************************************************************************)
EXTENDS Integers, Sequences, FiniteSetsExt

CONSTANTS
    Oldest,             \* bound: the age of the oldest story
    Window,             \* front_page_window_hours, 48 h
    PageCandidates,     \* the stories the page chooses from, 200
    PageSize,           \* those it shows, 36
    LastMinuteSize,     \* those of the last minute, 6
    TrueCoverage,       \* the outlets that make one of them sure, 3
    JobLimit,           \* the stories the job translates, 200
    JobCandidates       \* those it chooses from, at least: 400

ASSUME BoundsAssumption ==
    /\ Oldest \in Nat /\ Window \in Nat /\ TrueCoverage \in Nat
    /\ LastMinuteSize \in Nat /\ PageSize \in Nat /\ PageCandidates \in Nat
    /\ JobLimit \in Nat /\ JobCandidates \in Nat
    /\ LastMinuteSize <= PageSize
    /\ PageSize <= PageCandidates /\ PageSize <= JobLimit
    /\ PageCandidates <= JobCandidates

\* An archive is of stories of some countries, last seen after they were born.
IsArchive(archive, countries) ==
    /\ DOMAIN archive \subseteq Nat /\ IsFiniteSet(DOMAIN archive)
    /\ \A s \in DOMAIN archive :
          /\ archive[s] \in [first : 0 .. Oldest, last : 0 .. Oldest, sources : Nat,
                             recent : Nat, from : [countries -> Nat]]
          /\ archive[s].last <= archive[s].first

ASSUME PowerAssumption == \A k \in 0 .. 6 * Oldest : 2 ^ k \in Nat

\* peso_attualita, times a power of two: the coverage halves every 12 hours,
\* the bonus of novelty every 2.
Weight(coverage, age) ==
    Max({coverage, 1}) * 2 ^ (6 * Oldest - age) + 6 * 2 ^ (6 * Oldest - 6 * age)

\* The n first of some stories in an order.
First(n, stories, order) ==
    {s \in stories : Cardinality({t \in stories : <<t, s>> \in order}) < n}

Newer(archive) ==
    {p \in (DOMAIN archive) \X (DOMAIN archive) :
        \/ archive[p[1]].last < archive[p[2]].last
        \/ archive[p[1]].last = archive[p[2]].last /\ p[1] < p[2]}

\* Python's sort is stable: equal weights stay in the order of last_seen.
Heavier(archive, coverage) ==
    {p \in (DOMAIN archive) \X (DOMAIN archive) :
        LET w == Weight(coverage[p[1]], archive[p[1]].last)
            v == Weight(coverage[p[2]], archive[p[2]].last)
        IN  w > v \/ (w = v /\ p \in Newer(archive))}

Latest(n, archive, stories) == First(n, stories, Newer(archive))
Heaviest(n, archive, stories, coverage) == First(n, stories, Heavier(archive, coverage))

\* finestra_attualita.
Current(archive) == {s \in DOMAIN archive : archive[s].last <= Window}

\* The latest of the window; of an archive that stands still, the latest.
Choosable(n, fallback, archive, stories) ==
    IF stories \cap Current(archive) # {}
    THEN Latest(n, archive, stories \cap Current(archive))
    ELSE Latest(fallback, archive, stories)

\* copertura_recente.
Recent(archive) == [s \in DOMAIN archive |-> archive[s].recent]

\* ultima_ora: the stories born within the last hours.
LastMinute(archive) ==
    LET born == {s \in DOMAIN archive : archive[s].first = 0}
    IN  First(LastMinuteSize, born, {p \in born \X born : p[1] < p[2]})

Covered(archive) == {s \in LastMinute(archive) : archive[s].sources >= TrueCoverage}

\* index, without a country: those of the last minute that are covered and
\* not among the heaviest take the places at the end.
FrontPage(archive) ==
    LET chosen == Heaviest(PageSize, archive,
                           Choosable(PageCandidates, PageSize, archive, DOMAIN archive), Recent(archive))
        granted == Covered(archive) \ chosen
    IN  Heaviest(Cardinality(chosen) - Cardinality(granted), archive, chosen, Recent(archive))
        \cup granted

\* _conteggi_per_paese.
InCountry(archive, c) == {s \in DOMAIN archive : archive[s].from[c] > 0}
StoriesByCountry(archive, c) == Cardinality(InCountry(archive, c) \cap Current(archive))

\* index, for a country: its articles are what weighs.
CountryPage(archive, c) ==
    LET from == [s \in DOMAIN archive |-> archive[s].from[c]]
    IN  Heaviest(PageSize, archive,
                 Choosable(PageCandidates, PageSize, archive, InCountry(archive, c)), from)

StoriesToTranslate(archive) ==
    Heaviest(JobLimit, archive,
             Choosable(Max({2 * JobLimit, JobCandidates}), JobLimit, archive, DOMAIN archive),
             Recent(archive))

Row(first, last, sources, recent, n) ==
    [first |-> first, last |-> last, sources |-> sources, recent |-> recent, from |-> [it |-> n]]
Archives == [1 .. 5 -> {Row(0, 0, 3, 1, 0), Row(0, 0, 3, 3, 1), Row(1, 0, 3, 8, 1), Row(1, 1, 1, 1, 0),
                        Row(3, 1, 8, 4, 2), Row(2, 2, 8, 8, 0), Row(3, 3, 8, 0, 1)}]

\* The page is full, and of today as long as anything is.
PageIsFull(archive) ==
    LET page == FrontPage(archive)
        current == Current(archive)
    IN  /\ Cardinality(page) = Min({PageSize, Cardinality(IF current = {} THEN DOMAIN archive
                                                                         ELSE current)})
        /\ current # {} => page \subseteq current

\* A country the filter offers has a page, of today.
CountryHasAPage(archive, c) ==
    LET page == CountryPage(archive, c)
        n == StoriesByCountry(archive, c)
    IN  n > 0 => Cardinality(page) = Min({PageSize, n})
                 /\ page \subseteq Current(archive) \cap InCountry(archive, c)

\* The job that translates titles prepares what the page shows, but for what is
\* granted a place and unless more stories are current than page and job choose from.
PageIsPrepared(archive) ==
    Cardinality(Current(archive)) <= JobLimit - PageSize + PageCandidates =>
        FrontPage(archive) \ Covered(archive) \subseteq StoriesToTranslate(archive)

ASSUME PageAssumption ==
    \A archive \in Archives :
       /\ IsArchive(archive, {"it"})
       /\ PageIsFull(archive) /\ CountryHasAPage(archive, "it") /\ PageIsPrepared(archive)

\* What the comment above `garantite` says, and the code does not do: a story of
\* the last minute that is covered has a place on the page.  One that has the last
\* place by its weight loses it to another that has none.
CoveredHaveAPlace == \A archive \in Archives : Covered(archive) \subseteq FrontPage(archive)

-----------------------------------------------------------------------------
(* The versions of a story: the articles of its outlets, one per outlet,   *)
(* in order, and the distances between them.                               *)

Least(chosen, distance, a) == Min({distance[<<a, b>>] : b \in chosen})

\* dist without positions, twice: of another country 2, in another language 1.
Distance(a, b) ==
    (IF a.country # b.country THEN 2 ELSE 0) + (IF a.language # b.language THEN 1 ELSE 0)

Distances(outlets) ==
    [p \in (DOMAIN outlets) \X (DOMAIN outlets) |-> Distance(outlets[p[1]], outlets[p[2]])]

\* Those farther from what has been chosen are before; Python's max takes the first.
Farther(n, distance, chosen) ==
    {p \in (1 .. n) \X (1 .. n) :
        LET far == Least(chosen, distance, p[1])
            near == Least(chosen, distance, p[2])
        IN  far > near \/ (far = near /\ p[1] < p[2])}

WithFarthest(n, distance, chosen) ==
    chosen \cup First(1, (1 .. n) \ chosen, Farther(n, distance, chosen))

\* diverse_articles: the first, then each time the farthest.
Diverse(n, distance, k) ==
    LET step[i \in 1 .. k] ==
            IF i = 1 THEN {1} ELSE WithFarthest(n, distance, step[i - 1])
    IN  IF n <= k THEN 1 .. n ELSE step[k]

Spread(chosen, distance) ==
    Min({distance[<<p[1], p[2]>>] : p \in {q \in chosen \X chosen : q[1] # q[2]}})

\* Of more outlets than k, k versions, at least half as far from each other as any
\* choice of as many could be.
FarApart(n, distance, k) ==
    LET chosen == Diverse(n, distance, k)
    IN  /\ Cardinality(chosen) = k
        /\ \A other \in kSubset(k, 1 .. n) : Spread(other, distance) <= 2 * Spread(chosen, distance)

ASSUME DiverseAssumption ==
    \A outlets \in [1 .. 5 -> [country : {"it", "fr", "uk"}, language : {"it", "fr"}]] :
       FarApart(5, Distances(outlets), 3)
=============================================================================
