------------------------- MODULE Annotations_proofs -------------------------
(***************************************************************************)
(* Proofs about Annotations, for any annotators, articles, outlets and     *)
(* answers: type correctness; that an annotator's sampling stays           *)
(* stratified, whatever forms he has open; and that the alpha computed     *)
(* from the matrix of coincidences is the alpha of the pairs of            *)
(* judgements.                                                             *)
(*                                                                         *)
(* The argument for alpha: both are sums over finite sets, and one is the  *)
(* other with the summations exchanged.  The matrix sums, for each two     *)
(* values, over the articles; the pairs sum, for each article, over the    *)
(* judgements.  Counting judgements by their values (SumByValue,           *)
(* CountByValue) and exchanging sums (SumSwap, SumRenamed) turns the       *)
(* distances observed and expected of the matrix into twice those within   *)
(* an article and across articles.  What holds of all sums is proved by    *)
(* induction over the finite subsets of a set, one element at a time; the  *)
(* predicate of an induction is a set of subsets, so that its lemma is     *)
(* first-order.                                                            *)
(***************************************************************************)
EXTENDS Annotations, FiniteSetTheorems, WellFoundedInduction, TLAPS

-----------------------------------------------------------------------------
(* Induction over finite sets, with a set for predicate.                   *)

\* A set of subsets of S holds all of them, if it holds any subset whose own
\* subsets it holds.
LEMMA SmallerFirst ==
    ASSUME NEW S, IsFiniteSet(S), NEW G \in SUBSET (SUBSET S),
           \A T \in SUBSET S : (\A U \in SUBSET T : U # T => U \in G) => T \in G
    PROVE  \A T \in SUBSET S : T \in G
<1> DEFINE bad == {T \in SUBSET S : T \notin G}
<1> SUFFICES ASSUME bad # {} PROVE FALSE
    OBVIOUS
<1>1. IsWellFoundedOn(StrictSubsetOrdering(S), SUBSET S)
    <2>1. FiniteSubsetsOf(S) = SUBSET S
        BY FS_FiniteSubsetsOfFinite
    <2>2. IsWellFoundedOn(StrictSubsetOrdering(S), FiniteSubsetsOf(S))
        BY FS_StrictSubsetOrderingWellFounded
    <2> QED BY <2>1, <2>2
<1>2. PICK T \in bad : \A U \in bad : <<U, T>> \notin StrictSubsetOrdering(S)
    <2> HIDE DEF bad
    <2>1. bad \subseteq SUBSET S /\ bad # {}
        BY DEF bad
    <2> QED BY <1>1, <2>1, WFMin
<1>3. ASSUME NEW U \in SUBSET T, U # T PROVE U \in G
    BY <1>2, <1>3 DEF StrictSubsetOrdering
<1> QED BY <1>3

\* The same, one element at a time.
LEMMA OneByOne ==
    ASSUME NEW S, IsFiniteSet(S), NEW G \in SUBSET (SUBSET S), {} \in G,
           \A T \in G : \A x \in S \ T : T \cup {x} \in G
    PROVE  S \in G
<1>1. ASSUME NEW T \in SUBSET S, \A U \in SUBSET T : U # T => U \in G PROVE T \in G
    <2>1. CASE T = {}
        BY <2>1
    <2>2. CASE T # {}
        <3>1. PICK x \in T : TRUE
            BY <2>2
        <3>2. T \ {x} \in SUBSET T /\ T \ {x} # T /\ x \in S \ (T \ {x})
            BY <3>1
        <3>3. (T \ {x}) \cup {x} \in G
            BY <1>1, <3>2
        <3>4. (T \ {x}) \cup {x} = T
            BY <3>1
        <3> QED BY <3>3, <3>4
    <2> QED BY <2>1, <2>2
<1> QED BY <1>1, SmallerFirst

-----------------------------------------------------------------------------
(* The sum of a function over a finite set: SumFunctionOnSet of Functions. *)

Pick(s) == CHOOSE x \in s : TRUE

IsSum(g, f, S) ==
    g = [s \in SUBSET S |-> IF s = {} THEN 0
            ELSE f[CHOOSE x \in s : TRUE] + g[s \ {CHOOSE x \in s : TRUE}]]

LEMMA IsSumAt ==
    ASSUME NEW S, NEW f, NEW g, IsSum(g, f, S), NEW s \in SUBSET S
    PROVE  g[s] = IF s = {} THEN 0 ELSE f[Pick(s)] + g[s \ {Pick(s)}]
BY DEF IsSum, Pick

LEMMA SumsAgree ==
    ASSUME NEW S, IsFiniteSet(S), NEW T, NEW f, NEW g, NEW h,
           IsSum(g, f, S), IsSum(h, f, T), NEW V, V \in SUBSET S, V \in SUBSET T
    PROVE  g[V] = h[V]
<1> DEFINE G == {U \in SUBSET S : U \in SUBSET T => g[U] = h[U]}
<1>1. ASSUME NEW U \in SUBSET S, \A W \in SUBSET U : W # U => W \in G PROVE U \in G
    <2> SUFFICES ASSUME U \in SUBSET T PROVE g[U] = h[U]
        OBVIOUS
    <2>1. CASE U = {}
        BY <2>1, IsSumAt
    <2>2. CASE U # {}
        <3>1. Pick(U) \in U
            BY <2>2 DEF Pick
        <3>2. U \ {Pick(U)} \in SUBSET U /\ U \ {Pick(U)} # U
            BY <3>1
        <3>3. g[U \ {Pick(U)}] = h[U \ {Pick(U)}]
            BY <3>2, <1>1
        <3>4. g[U] = f[Pick(U)] + g[U \ {Pick(U)}] /\ h[U] = f[Pick(U)] + h[U \ {Pick(U)}]
            BY <2>2, IsSumAt
        <3> QED BY <3>3, <3>4
    <2> QED BY <2>1, <2>2
<1> HIDE DEF G
<1>2. V \in G
    <2>1. G \in SUBSET (SUBSET S)
        BY DEF G
    <2> QED BY <1>1, <2>1, SmallerFirst
<1> QED BY <1>2 DEF G

LEMMA SumExists ==
    ASSUME NEW S, IsFiniteSet(S), NEW f
    PROVE  \E g : IsSum(g, f, S)
<1> DEFINE G == {U \in SUBSET S : \E g : IsSum(g, f, U)}
           of(V) == CHOOSE g : IsSum(g, f, V)
           part(s) == s \ {Pick(s)}
<1>1. ASSUME NEW U \in SUBSET S, \A W \in SUBSET U : W # U => W \in G PROVE U \in G
    <2> DEFINE g0 == [s \in SUBSET U |-> IF s = {} THEN 0 ELSE f[Pick(s)] + of(part(s))[part(s)]]
    <2>3. ASSUME NEW V \in SUBSET U, V # U PROVE IsSum(of(V), f, V)
        <3>1. V \in G
            BY <1>1, <2>3
        <3> QED BY <3>1
    <2>4. ASSUME NEW s \in SUBSET U, s # {} PROVE part(s) \in SUBSET U /\ part(s) # U /\ Pick(s) \in s
        BY <2>4 DEF Pick
    <2>5. ASSUME NEW V \in SUBSET U, V # U PROVE g0[V] = of(V)[V]
        <3>1. CASE V = {}
            BY <3>1, <2>3, <2>5, IsSumAt
        <3>2. CASE V # {}
            <4>1. of(V)[V] = f[Pick(V)] + of(V)[part(V)]
                BY <2>3, <2>5, <3>2, IsSumAt
            <4>2. part(V) \in SUBSET U /\ part(V) # U /\ part(V) \in SUBSET V
                BY <2>4, <3>2
            <4>3. IsFiniteSet(V) /\ IsFiniteSet(part(V))
                BY <4>2, FS_Subset
            <4>4. of(V)[part(V)] = of(part(V))[part(V)]
                <5> HIDE DEF of, part
                <5> QED BY <2>3, <2>5, <4>2, <4>3, SumsAgree
            <4> QED BY <4>1, <4>4, <3>2
        <3> QED BY <3>1, <3>2
    <2>6. IsSum(g0, f, U)
        <3>1. ASSUME NEW s \in SUBSET U, s # {} PROVE g0[part(s)] = of(part(s))[part(s)]
            BY <2>4, <2>5, <3>1
        <3> HIDE DEF of, part
        <3>2. /\ \A s \in SUBSET U : g0[s] = IF s = {} THEN 0 ELSE f[Pick(s)] + of(part(s))[part(s)]
              /\ g0 = [s \in SUBSET U |-> g0[s]]
            OBVIOUS
        <3> HIDE DEF g0
        <3>3. \A s \in SUBSET U : g0[s] = IF s = {} THEN 0 ELSE f[Pick(s)] + g0[part(s)]
            BY <3>1, <3>2
        <3>4. g0 = [s \in SUBSET U |-> IF s = {} THEN 0 ELSE f[Pick(s)] + g0[part(s)]]
            BY <3>2, <3>3
        <3> QED BY <3>4 DEF IsSum, Pick, part
    <2> HIDE DEF g0
    <2> QED BY <2>6
<1> HIDE DEF G
<1>2. S \in G
    <2>1. G \in SUBSET (SUBSET S)
        BY DEF G
    <2> QED BY <1>1, <2>1, SmallerFirst
<1> QED BY <1>2 DEF G

LEMMA SumIs ==
    ASSUME NEW S, IsFiniteSet(S), NEW f
    PROVE  \E g : IsSum(g, f, S) /\ SumFunctionOnSet(f, S) = g[S]
<1> DEFINE g == CHOOSE g : IsSum(g, f, S)
<1>1. IsSum(g, f, S)
    BY SumExists
<1>2. SumFunctionOnSet(f, S) = g[S]
    BY DEF SumFunctionOnSet, FoldFunctionOnSet, MapThenFoldSet, IsSum
<1> QED BY <1>1, <1>2

LEMMA SumNone ==
    ASSUME NEW f
    PROVE  SumFunctionOnSet(f, {}) = 0
<1>1. PICK g : IsSum(g, f, {}) /\ SumFunctionOnSet(f, {}) = g[{}]
    BY SumIs, FS_EmptySet
<1> QED BY <1>1, IsSumAt

LEMMA SumPick ==
    ASSUME NEW S, IsFiniteSet(S), NEW f, S # {}
    PROVE  SumFunctionOnSet(f, S) = f[Pick(S)] + SumFunctionOnSet(f, S \ {Pick(S)})
<1> DEFINE T == S \ {Pick(S)}
<1>1. IsFiniteSet(T)
    BY FS_Subset
<1>2. PICK g : IsSum(g, f, S) /\ SumFunctionOnSet(f, S) = g[S]
    BY SumIs
<1>3. PICK h : IsSum(h, f, T) /\ SumFunctionOnSet(f, T) = h[T]
    BY SumIs, <1>1
<1>4. g[T] = h[T]
    <2> HIDE DEF T
    <2>1. T \in SUBSET S
        BY DEF T
    <2> QED BY <1>2, <1>3, <2>1, SumsAgree
<1> QED BY <1>2, <1>3, <1>4, IsSumAt

\* The sum of integers is an integer, and any element may be taken out of it.
LEMMA SumTake ==
    ASSUME NEW S, IsFiniteSet(S), NEW f, \A x \in S : f[x] \in Int
    PROVE  /\ SumFunctionOnSet(f, S) \in Int
           /\ \A x \in S : SumFunctionOnSet(f, S) = f[x] + SumFunctionOnSet(f, S \ {x})
<1> DEFINE sum(T) == SumFunctionOnSet(f, T)
           G == {T \in SUBSET S : sum(T) \in Int /\ \A x \in T : sum(T) = f[x] + sum(T \ {x})}
<1> HIDE DEF sum
<1>1. ASSUME NEW T \in SUBSET S, \A U \in SUBSET T : U # T => U \in G PROVE T \in G
    <2>1. CASE T = {}
        BY <2>1, SumNone DEF sum
    <2>2. CASE T # {}
        <3> DEFINE p == Pick(T)
        <3>1. p \in T
            BY <2>2 DEF Pick
        <3>2. IsFiniteSet(T)
            BY FS_Subset
        <3>3. sum(T) = f[p] + sum(T \ {p})
            BY <2>2, <3>2, SumPick DEF sum
        <3> HIDE DEF p
        <3>4. T \ {p} \in G
            BY <1>1, <3>1
        <3>5. sum(T) \in Int
            BY <3>1, <3>3, <3>4
        <3>6. ASSUME NEW x \in T, x # p PROVE sum(T) = f[x] + sum(T \ {x})
            <4>1. sum(T \ {p}) = f[x] + sum((T \ {p}) \ {x})
                BY <3>4, <3>6
            <4>2. T \ {x} \in G
                BY <1>1, <3>6
            <4>3. sum(T \ {x}) = f[p] + sum((T \ {x}) \ {p})
                BY <3>1, <3>6, <4>2
            <4>4. (T \ {x}) \ {p} = (T \ {p}) \ {x}
                OBVIOUS
            <4>5. (T \ {p}) \ {x} \in G
                BY <1>1, <3>6
            <4>6. f[x] \in Int /\ f[p] \in Int /\ sum((T \ {p}) \ {x}) \in Int
                BY <3>1, <4>5
            <4>7. sum((T \ {x}) \ {p}) = sum((T \ {p}) \ {x})
                BY <4>4
            <4> HIDE DEF G
            <4> QED BY <3>3, <4>1, <4>3, <4>6, <4>7
        <3> QED BY <3>3, <3>5, <3>6
    <2> QED BY <2>1, <2>2
<1> HIDE DEF G
<1>2. S \in G
    <2>1. G \in SUBSET (SUBSET S)
        BY DEF G
    <2> QED BY <1>1, <2>1, SmallerFirst
<1> QED BY <1>2 DEF G, sum

LEMMA SumAdd ==
    ASSUME NEW S, IsFiniteSet(S), NEW x, x \notin S, NEW f, \A y \in S \cup {x} : f[y] \in Int
    PROVE  /\ SumFunctionOnSet(f, S \cup {x}) = f[x] + SumFunctionOnSet(f, S)
           /\ SumFunctionOnSet(f, S) \in Int
<1>1. IsFiniteSet(S \cup {x})
    BY FS_AddElement
<1>2. (S \cup {x}) \ {x} = S
    OBVIOUS
<1>3. SumFunctionOnSet(f, S \cup {x}) = f[x] + SumFunctionOnSet(f, (S \cup {x}) \ {x})
    BY <1>1, SumTake
<1> QED BY <1>2, <1>3, SumTake

LEMMA SumSame ==
    ASSUME NEW S, IsFiniteSet(S), NEW f, NEW g, \A x \in S : f[x] \in Int /\ g[x] = f[x]
    PROVE  SumFunctionOnSet(g, S) = SumFunctionOnSet(f, S)
<1> DEFINE G == {T \in SUBSET S : SumFunctionOnSet(g, T) = SumFunctionOnSet(f, T)}
<1>1. {} \in G
    BY SumNone
<1>2. ASSUME NEW T \in G, NEW x \in S \ T PROVE T \cup {x} \in G
    <2>1. IsFiniteSet(T)
        BY FS_Subset
    <2>2. /\ SumFunctionOnSet(g, T \cup {x}) = g[x] + SumFunctionOnSet(g, T)
          /\ SumFunctionOnSet(f, T \cup {x}) = f[x] + SumFunctionOnSet(f, T)
        BY <2>1, SumAdd
    <2> QED BY <2>2
<1> HIDE DEF G
<1>3. S \in G
    <2>1. G \in SUBSET (SUBSET S)
        BY DEF G
    <2> QED BY <1>1, <1>2, <2>1, OneByOne
<1> QED BY <1>3 DEF G

LEMMA SumPlus ==
    ASSUME NEW S, IsFiniteSet(S), NEW f, NEW g, NEW h,
           \A x \in S : f[x] \in Int /\ g[x] \in Int /\ h[x] = f[x] + g[x]
    PROVE  SumFunctionOnSet(h, S) = SumFunctionOnSet(f, S) + SumFunctionOnSet(g, S)
<1> DEFINE G == {T \in SUBSET S : SumFunctionOnSet(h, T) = SumFunctionOnSet(f, T) + SumFunctionOnSet(g, T)}
<1>1. {} \in G
    BY SumNone
<1>2. ASSUME NEW T \in G, NEW x \in S \ T PROVE T \cup {x} \in G
    <2>1. IsFiniteSet(T)
        BY FS_Subset
    <2>2. \A y \in T \cup {x} : f[y] \in Int /\ g[y] \in Int /\ h[y] \in Int
        OBVIOUS
    <2>3. SumFunctionOnSet(h, T) = SumFunctionOnSet(f, T) + SumFunctionOnSet(g, T)
        OBVIOUS
    <2> HIDE DEF G
    <2>4. SumFunctionOnSet(h, T \cup {x}) = h[x] + SumFunctionOnSet(h, T)
        BY <2>1, <2>2, SumAdd
    <2>5. /\ SumFunctionOnSet(g, T \cup {x}) = g[x] + SumFunctionOnSet(g, T)
          /\ SumFunctionOnSet(g, T) \in Int
        BY <2>1, <2>2, SumAdd
    <2>6. /\ SumFunctionOnSet(f, T \cup {x}) = f[x] + SumFunctionOnSet(f, T)
          /\ SumFunctionOnSet(f, T) \in Int
        BY <2>1, <2>2, SumAdd
    <2>7. SumFunctionOnSet(h, T \cup {x}) = SumFunctionOnSet(f, T \cup {x}) + SumFunctionOnSet(g, T \cup {x})
        BY <2>2, <2>3, <2>4, <2>5, <2>6
    <2> QED BY <2>7 DEF G
<1> HIDE DEF G
<1>3. S \in G
    <2>1. G \in SUBSET (SUBSET S)
        BY DEF G
    <2> QED BY <1>1, <1>2, <2>1, OneByOne
<1> QED BY <1>3 DEF G

LEMMA TimesPlus == \A k, m, n \in Int : k * (m + n) = k * m + k * n /\ k * m \in Int
OBVIOUS

LEMMA SumTimes ==
    ASSUME NEW S, IsFiniteSet(S), NEW k \in Int, NEW f, NEW g,
           \A x \in S : f[x] \in Int /\ g[x] = k * f[x]
    PROVE  SumFunctionOnSet(g, S) = k * SumFunctionOnSet(f, S)
<1> DEFINE G == {T \in SUBSET S : SumFunctionOnSet(g, T) = k * SumFunctionOnSet(f, T)}
<1>1. {} \in G
    BY SumNone
<1>2. ASSUME NEW T \in G, NEW x \in S \ T PROVE T \cup {x} \in G
    <2>1. IsFiniteSet(T)
        BY FS_Subset
    <2>2. \A y \in S : f[y] \in Int /\ g[y] \in Int
        BY TimesPlus
    <2>3. /\ SumFunctionOnSet(g, T \cup {x}) = g[x] + SumFunctionOnSet(g, T)
          /\ SumFunctionOnSet(f, T \cup {x}) = f[x] + SumFunctionOnSet(f, T)
          /\ SumFunctionOnSet(f, T) \in Int
        BY <2>1, <2>2, SumAdd
    <2>4. SumFunctionOnSet(g, T) = k * SumFunctionOnSet(f, T)
        OBVIOUS
    <2>5. k * (f[x] + SumFunctionOnSet(f, T)) = k * f[x] + k * SumFunctionOnSet(f, T)
        BY <2>2, <2>3, TimesPlus
    <2> QED BY <2>3, <2>4, <2>5
<1> HIDE DEF G
<1>3. S \in G
    <2>1. G \in SUBSET (SUBSET S)
        BY DEF G
    <2> QED BY <1>1, <1>2, <2>1, OneByOne
<1> QED BY <1>3 DEF G

\* A sum of naturals is one, and not less than any of them.
LEMMA SumNatural ==
    ASSUME NEW S, IsFiniteSet(S), NEW f, \A x \in S : f[x] \in Nat
    PROVE  SumFunctionOnSet(f, S) \in Nat /\ \A x \in S : f[x] <= SumFunctionOnSet(f, S)
<1> DEFINE G == {T \in SUBSET S : SumFunctionOnSet(f, T) \in Nat}
<1>1. {} \in G
    BY SumNone
<1>2. ASSUME NEW T \in G, NEW x \in S \ T PROVE T \cup {x} \in G
    <2>1. IsFiniteSet(T)
        BY FS_Subset
    <2>2. \A y \in T \cup {x} : f[y] \in Int
        OBVIOUS
    <2>3. SumFunctionOnSet(f, T \cup {x}) = f[x] + SumFunctionOnSet(f, T)
        BY <2>1, <2>2, SumAdd
    <2> QED BY <2>3
<1>3. \A T \in SUBSET S : SumFunctionOnSet(f, T) \in Nat
    <2> SUFFICES ASSUME NEW T \in SUBSET S PROVE SumFunctionOnSet(f, T) \in Nat
        OBVIOUS
    <2> DEFINE H == {U \in SUBSET T : SumFunctionOnSet(f, U) \in Nat}
    <2>1. IsFiniteSet(T) /\ {} \in H
        BY FS_Subset, <1>1
    <2>2. ASSUME NEW U \in H, NEW x \in T \ U PROVE U \cup {x} \in H
        BY <1>2
    <2> HIDE DEF H
    <2>3. T \in H
        <3>1. H \in SUBSET (SUBSET T)
            BY DEF H
        <3> QED BY <2>1, <2>2, <3>1, OneByOne
    <2> QED BY <2>3 DEF H
<1> HIDE DEF G
<1>4. ASSUME NEW x \in S PROVE f[x] <= SumFunctionOnSet(f, S)
    <2>1. SumFunctionOnSet(f, S) = f[x] + SumFunctionOnSet(f, S \ {x})
        BY SumTake
    <2>2. SumFunctionOnSet(f, S \ {x}) \in Nat
        BY <1>3
    <2> QED BY <2>1, <2>2
<1> QED BY <1>3, <1>4

LEMMA SumZero ==
    ASSUME NEW S, IsFiniteSet(S), NEW f, \A x \in S : f[x] = 0
    PROVE  SumFunctionOnSet(f, S) = 0
<1>1. SumFunctionOnSet(f, S) = 0 * SumFunctionOnSet(f, S)
    BY SumTimes
<1>2. SumFunctionOnSet(f, S) \in Int
    BY SumTake
<1> QED BY <1>1, <1>2

\* A sum all of whose terms but one are zero.
LEMMA SumOfOne ==
    ASSUME NEW S, IsFiniteSet(S), NEW x \in S, NEW f, f[x] \in Int, \A y \in S : y # x => f[y] = 0
    PROVE  SumFunctionOnSet(f, S) = f[x]
<1>1. \A y \in S : f[y] \in Int
    OBVIOUS
<1>2. SumFunctionOnSet(f, S) = f[x] + SumFunctionOnSet(f, S \ {x})
    BY <1>1, SumTake
<1>3. IsFiniteSet(S \ {x})
    BY FS_Subset
<1>4. SumFunctionOnSet(f, S \ {x}) = 0
    BY <1>3, SumZero
<1> QED BY <1>2, <1>4

\* Summing over the elements is summing over their values, each counted as often as
\* it is taken.
LEMMA SumByValue ==
    ASSUME NEW S, IsFiniteSet(S), NEW C, IsFiniteSet(C),
           NEW v, \A x \in S : v[x] \in C,
           NEW d, \A c \in C : d[c] \in Int
    PROVE  SumFunctionOnSet([x \in S |-> d[v[x]]], S)
           = SumFunctionOnSet([c \in C |-> Cardinality({x \in S : v[x] = c}) * d[c]], C)
<1> DEFINE taken(T, c) == Cardinality({y \in T : v[y] = c})
           counted(T) == [c \in C |-> taken(T, c) * d[c]]
           e == [x \in S |-> d[v[x]]]
           G == {T \in SUBSET S : SumFunctionOnSet(e, T) = SumFunctionOnSet(counted(T), C)}
<1>1. {} \in G
    <2>1. \A c \in C : taken({}, c) = 0
        <3>1. \A c \in C : {y \in {} : v[y] = c} = {}
            OBVIOUS
        <3> QED BY <3>1, FS_EmptySet
    <2>2. \A c \in C : counted({})[c] = 0
        BY <2>1
    <2> HIDE DEF counted
    <2>3. SumFunctionOnSet(counted({}), C) = 0
        BY <2>2, SumZero
    <2> QED BY <2>3, SumNone
<1>2. ASSUME NEW T \in G, NEW x \in S \ T PROVE T \cup {x} \in G
    <2> DEFINE one == [c \in C |-> IF c = v[x] THEN d[c] ELSE 0]
    <2>1. IsFiniteSet(T)
        BY FS_Subset
    <2>2. ASSUME NEW c \in C
          PROVE  /\ taken(T, c) \in Int
                 /\ taken(T \cup {x}, c) = IF c = v[x] THEN taken(T, c) + 1 ELSE taken(T, c)
        <3>1. IsFiniteSet({y \in T : v[y] = c})
            BY <2>1, FS_Subset
        <3>9. taken(T, c) \in Int
            BY <3>1, FS_CardinalityType
        <3>2. CASE c = v[x]
            <4>1. {y \in T \cup {x} : v[y] = c} = {y \in T : v[y] = c} \cup {x}
                BY <3>2
            <4>2. taken(T \cup {x}, c) = Cardinality({y \in T : v[y] = c} \cup {x})
                BY <4>1
            <4>3. Cardinality({y \in T : v[y] = c} \cup {x}) = Cardinality({y \in T : v[y] = c}) + 1
                BY <3>1, FS_AddElement
            <4> QED BY <3>2, <3>9, <4>2, <4>3
        <3>3. CASE c # v[x]
            <4>1. {y \in T \cup {x} : v[y] = c} = {y \in T : v[y] = c}
                BY <3>3
            <4>2. taken(T \cup {x}, c) = taken(T, c)
                BY <4>1
            <4> QED BY <3>3, <3>9, <4>2
        <3> QED BY <3>2, <3>3
    <2> HIDE DEF taken
    <2>3. \A c \in C : /\ counted(T)[c] \in Int /\ one[c] \in Int
                       /\ counted(T \cup {x})[c] = counted(T)[c] + one[c]
        <3> SUFFICES ASSUME NEW c \in C
                     PROVE  /\ taken(T, c) * d[c] \in Int
                            /\ (IF c = v[x] THEN d[c] ELSE 0) \in Int
                            /\ taken(T \cup {x}, c) * d[c]
                               = taken(T, c) * d[c] + (IF c = v[x] THEN d[c] ELSE 0)
            OBVIOUS
        <3>1. /\ taken(T, c) * d[c] \in Int
              /\ (taken(T, c) + 1) * d[c] = taken(T, c) * d[c] + d[c]
            <4>1. \A m, n \in Int : m * n \in Int /\ (m + 1) * n = m * n + n
                OBVIOUS
            <4> QED BY <2>2, <4>1
        <3>2. CASE c = v[x]
            BY <2>2, <3>1, <3>2
        <3>3. CASE c # v[x]
            <4>1. taken(T \cup {x}, c) = taken(T, c)
                BY <2>2, <3>3
            <4>2. taken(T \cup {x}, c) * d[c] = taken(T, c) * d[c]
                BY <4>1
            <4> QED BY <3>1, <3>3, <4>2
        <3> QED BY <3>2, <3>3
    <2>4. SumFunctionOnSet(one, C) = d[v[x]]
        <3>1. v[x] \in C /\ one[v[x]] = d[v[x]] /\ one[v[x]] \in Int
            OBVIOUS
        <3>2. \A c \in C : c # v[x] => one[c] = 0
            OBVIOUS
        <3> HIDE DEF one
        <3> QED BY <3>1, <3>2, SumOfOne
    <2> HIDE DEF counted, one
    <2>5. SumFunctionOnSet(counted(T \cup {x}), C)
          = SumFunctionOnSet(counted(T), C) + SumFunctionOnSet(one, C)
        BY <2>3, SumPlus
    <2>6. SumFunctionOnSet(e, T) = SumFunctionOnSet(counted(T), C)
        OBVIOUS
    <2>7. \A y \in T \cup {x} : e[y] \in Int
        OBVIOUS
    <2>8. e[x] = d[v[x]] /\ d[v[x]] \in Int
        OBVIOUS
    <2> HIDE DEF e
    <2>9. /\ SumFunctionOnSet(e, T \cup {x}) = e[x] + SumFunctionOnSet(e, T)
          /\ SumFunctionOnSet(e, T) \in Int
        BY <2>1, <2>7, SumAdd
    <2>10. SumFunctionOnSet(e, T \cup {x}) = SumFunctionOnSet(counted(T \cup {x}), C)
        BY <2>4, <2>5, <2>6, <2>8, <2>9
    <2> QED BY <2>10
<1> HIDE DEF G
<1>3. S \in G
    <2>1. G \in SUBSET (SUBSET S)
        BY DEF G
    <2> QED BY <1>1, <1>2, <2>1, OneByOne
<1> QED BY <1>3 DEF G

\* The order of two summations does not matter.
LEMMA SumSwap ==
    ASSUME NEW S, IsFiniteSet(S), NEW R, IsFiniteSet(R),
           NEW f, \A x \in S : \A y \in R : f[<<x, y>>] \in Int
    PROVE  SumFunctionOnSet([x \in S |-> SumFunctionOnSet([y \in R |-> f[<<x, y>>]], R)], S)
           = SumFunctionOnSet([y \in R |-> SumFunctionOnSet([x \in S |-> f[<<x, y>>]], S)], R)
<1> DEFINE row == [x \in S |-> SumFunctionOnSet([y \in R |-> f[<<x, y>>]], R)]
           col(y) == [x \in S |-> f[<<x, y>>]]
           cols(T) == [y \in R |-> SumFunctionOnSet(col(y), T)]
           G == {T \in SUBSET S : SumFunctionOnSet(row, T) = SumFunctionOnSet(cols(T), R)}
<1>0. \A x \in S : row[x] \in Int /\ row[x] = SumFunctionOnSet([y \in R |-> f[<<x, y>>]], R)
    <2> SUFFICES ASSUME NEW x \in S PROVE SumFunctionOnSet([y \in R |-> f[<<x, y>>]], R) \in Int
        OBVIOUS
    <2> DEFINE g == [y \in R |-> f[<<x, y>>]]
    <2>1. \A y \in R : g[y] \in Int
        OBVIOUS
    <2> HIDE DEF g
    <2>2. SumFunctionOnSet(g, R) \in Int
        BY <2>1, SumTake
    <2> QED BY <2>2 DEF g
<1>1. {} \in G
    <2>1. \A y \in R : cols({})[y] = 0
        BY SumNone
    <2> HIDE DEF cols
    <2>2. SumFunctionOnSet(cols({}), R) = 0
        BY <2>1, SumZero
    <2> QED BY <2>2, SumNone
<1>2. ASSUME NEW T \in G, NEW x \in S \ T PROVE T \cup {x} \in G
    <2> DEFINE line == [y \in R |-> f[<<x, y>>]]
    <2>1. IsFiniteSet(T) /\ T \in SUBSET S
        BY FS_Subset
    <2>2. ASSUME NEW y \in R
          PROVE  /\ SumFunctionOnSet(col(y), T) \in Int /\ line[y] \in Int
                 /\ SumFunctionOnSet(col(y), T \cup {x}) = line[y] + SumFunctionOnSet(col(y), T)
        <3>1. /\ \A z \in T \cup {x} : col(y)[z] \in Int
              /\ line[y] = col(y)[x] /\ line[y] \in Int
            OBVIOUS
        <3> HIDE DEF col, line, G
        <3> QED BY <2>1, <3>1, SumAdd
    <2>3. \A y \in R : /\ cols(T)[y] \in Int /\ line[y] \in Int
                       /\ cols(T \cup {x})[y] = line[y] + cols(T)[y]
        <3> HIDE DEF col, line
        <3> QED BY <2>2
    <2>4. SumFunctionOnSet(cols(T \cup {x}), R) = SumFunctionOnSet(line, R) + SumFunctionOnSet(cols(T), R)
        <3> HIDE DEF cols, line, G
        <3> QED BY <2>3, SumPlus
    <2>5. SumFunctionOnSet(row, T) = SumFunctionOnSet(cols(T), R)
        OBVIOUS
    <2> HIDE DEF row, cols, G
    <2>6. /\ SumFunctionOnSet(row, T \cup {x}) = row[x] + SumFunctionOnSet(row, T)
          /\ row[x] = SumFunctionOnSet(line, R)
        BY <1>0, <2>1, SumAdd
    <2>7. SumFunctionOnSet(row, T \cup {x}) = SumFunctionOnSet(cols(T \cup {x}), R)
        BY <2>4, <2>5, <2>6
    <2> QED BY <2>1, <2>7 DEF G
<1> HIDE DEF G
<1>3. S \in G
    <2>1. G \in SUBSET (SUBSET S)
        BY DEF G
    <2> QED BY <1>1, <1>2, <2>1, OneByOne
<1>4. SumFunctionOnSet(row, S) = SumFunctionOnSet(cols(S), R)
    BY <1>3 DEF G
<1> QED BY <1>4

\* Renaming the elements.
LEMMA SumRenamed ==
    ASSUME NEW S, IsFiniteSet(S), NEW b, \A x, y \in S : b[x] = b[y] => x = y,
           NEW f, NEW g, \A x \in S : f[x] \in Int /\ g[b[x]] = f[x]
    PROVE  SumFunctionOnSet(g, {b[x] : x \in S}) = SumFunctionOnSet(f, S)
<1> DEFINE image(T) == {b[x] : x \in T}
           G == {T \in SUBSET S : /\ SumFunctionOnSet(g, image(T)) = SumFunctionOnSet(f, T)
                                  /\ IsFiniteSet(image(T))}
<1>1. {} \in G
    <2>1. image({}) = {}
        OBVIOUS
    <2> HIDE DEF image
    <2> QED BY SumNone, FS_EmptySet, <2>1
<1>2. ASSUME NEW T \in G, NEW x \in S \ T PROVE T \cup {x} \in G
    <2>1. IsFiniteSet(T) /\ T \in SUBSET S
        BY FS_Subset
    <2>2. image(T \cup {x}) = image(T) \cup {b[x]} /\ b[x] \notin image(T)
        OBVIOUS
    <2>3. \A z \in image(T) \cup {b[x]} : g[z] \in Int
        OBVIOUS
    <2>4. \A z \in T \cup {x} : f[z] \in Int
        OBVIOUS
    <2>5. g[b[x]] = f[x]
        OBVIOUS
    <2>6. SumFunctionOnSet(g, image(T)) = SumFunctionOnSet(f, T) /\ IsFiniteSet(image(T))
        OBVIOUS
    <2> HIDE DEF image, G
    <2>7. SumFunctionOnSet(g, image(T) \cup {b[x]}) = g[b[x]] + SumFunctionOnSet(g, image(T))
        BY <2>2, <2>3, <2>6, SumAdd
    <2>8. SumFunctionOnSet(f, T \cup {x}) = f[x] + SumFunctionOnSet(f, T)
        BY <2>1, <2>4, SumAdd
    <2>9. SumFunctionOnSet(g, image(T \cup {x})) = SumFunctionOnSet(g, image(T) \cup {b[x]})
        BY <2>2
    <2>10. IsFiniteSet(image(T \cup {x}))
        <3>1. IsFiniteSet(image(T) \cup {b[x]})
            BY <2>6, FS_AddElement
        <3> QED BY <2>2, <3>1
    <2>11. SumFunctionOnSet(g, image(T \cup {x})) = SumFunctionOnSet(f, T \cup {x})
        BY <2>5, <2>6, <2>7, <2>8, <2>9
    <2>12. T \cup {x} \in SUBSET S
        BY <2>1
    <2> QED BY <2>10, <2>11, <2>12 DEF G
<1> HIDE DEF G
<1>3. S \in G
    <2>1. G \in SUBSET (SUBSET S)
        BY DEF G
    <2> QED BY <1>1, <1>2, <2>1, OneByOne
<1> QED BY <1>3 DEF G

\* How many elements a set has of each value.
LEMMA CountByValue ==
    ASSUME NEW S, IsFiniteSet(S), NEW C, IsFiniteSet(C), NEW v, \A x \in S : v[x] \in C
    PROVE  Cardinality(S) = SumFunctionOnSet([c \in C |-> Cardinality({x \in S : v[x] = c})], C)
<1> DEFINE G == {T \in SUBSET S : Cardinality(T) = SumFunctionOnSet([x \in S |-> 1], T)}
           one == [x \in S |-> 1]
<1> HIDE DEF one
<1>1. \A T \in SUBSET S : T \in G
    <2>1. {} \in G
        BY SumNone, FS_EmptySet
    <2>2. ASSUME NEW T \in SUBSET S, \A U \in SUBSET T : U # T => U \in G PROVE T \in G
        <3>1. CASE T = {}
            BY <2>1, <3>1
        <3>2. CASE T # {}
            <4>1. PICK x \in T : TRUE
                BY <3>2
            <4>2. IsFiniteSet(T)
                BY FS_Subset
            <4>3. Cardinality(T \ {x}) = SumFunctionOnSet(one, T \ {x})
                BY <2>2, <4>1 DEF one
            <4>4. Cardinality(T \ {x}) = Cardinality(T) - 1 /\ Cardinality(T) \in Nat
                BY <4>1, <4>2, FS_RemoveElement, FS_CardinalityType
            <4>5. \A y \in T : one[y] \in Int /\ one[y] = 1
                BY DEF one
            <4>6. SumFunctionOnSet(one, T) = one[x] + SumFunctionOnSet(one, T \ {x})
                BY <4>1, <4>2, <4>5, SumTake
            <4>7. Cardinality(T) = SumFunctionOnSet(one, T)
                BY <4>1, <4>3, <4>4, <4>5, <4>6
            <4> QED BY <4>7 DEF one
        <3> QED BY <3>1, <3>2
    <2> HIDE DEF G
    <2>3. G \in SUBSET (SUBSET S)
        BY DEF G
    <2> QED BY <2>2, <2>3, SmallerFirst
<1>2. Cardinality(S) = SumFunctionOnSet(one, S)
    BY <1>1 DEF one
<1> DEFINE d == [c \in C |-> 1]
           taken(c) == Cardinality({x \in S : v[x] = c})
<1>3. \A c \in C : d[c] \in Int
    OBVIOUS
<1>4. [x \in S |-> d[v[x]]] = one
    BY DEF one
<1>5. ASSUME NEW c \in C PROVE taken(c) * d[c] = taken(c)
    <2>1. taken(c) \in Nat
        BY FS_Subset, FS_CardinalityType
    <2> QED BY <2>1
<1>6. [c \in C |-> taken(c) * d[c]] = [c \in C |-> taken(c)]
    BY <1>5
<1>7. SumFunctionOnSet([x \in S |-> d[v[x]]], S) = SumFunctionOnSet([c \in C |-> taken(c) * d[c]], C)
    <2> HIDE DEF d
    <2> QED BY <1>3, SumByValue
<1> QED BY <1>2, <1>4, <1>6, <1>7

\* An injection leaves the number of elements as it is.
LEMMA CountRenamed ==
    ASSUME NEW S, IsFiniteSet(S), NEW b, \A x, y \in S : b[x] = b[y] => x = y
    PROVE  /\ IsFiniteSet({b[x] : x \in S})
           /\ Cardinality({b[x] : x \in S}) = Cardinality(S)
<1> DEFINE image(T) == {b[x] : x \in T}
           G == {T \in SUBSET S : /\ IsFiniteSet(image(T))
                                  /\ Cardinality(image(T)) = Cardinality(T)}
<1>1. {} \in G
    <2>1. image({}) = {}
        OBVIOUS
    <2> HIDE DEF image
    <2> QED BY FS_EmptySet, <2>1
<1>2. ASSUME NEW T \in G, NEW x \in S \ T PROVE T \cup {x} \in G
    <2>1. IsFiniteSet(T) /\ T \in SUBSET S
        BY FS_Subset
    <2>2. image(T \cup {x}) = image(T) \cup {b[x]} /\ b[x] \notin image(T)
        OBVIOUS
    <2>3. IsFiniteSet(image(T)) /\ Cardinality(image(T)) = Cardinality(T)
        OBVIOUS
    <2>4. T \cup {x} \in SUBSET S /\ x \notin T
        BY <2>1
    <2> HIDE DEF image, G
    <2>5. /\ IsFiniteSet(image(T) \cup {b[x]})
          /\ Cardinality(image(T) \cup {b[x]}) = Cardinality(image(T)) + 1
        BY <2>2, <2>3, FS_AddElement
    <2>6. Cardinality(T \cup {x}) = Cardinality(T) + 1
        BY <2>1, <2>4, FS_AddElement
    <2>7. IsFiniteSet(image(T \cup {x})) /\ Cardinality(image(T \cup {x})) = Cardinality(T \cup {x})
        BY <2>2, <2>3, <2>5, <2>6
    <2> QED BY <2>4, <2>7 DEF G
<1> HIDE DEF G
<1>3. S \in G
    <2>1. G \in SUBSET (SUBSET S)
        BY DEF G
    <2> QED BY <1>1, <1>2, <2>1, OneByOne
<1> QED BY <1>3 DEF G

-----------------------------------------------------------------------------
(* The judgements of an outlet.                                            *)

LEMMA FiniteJudgements ==
    ASSUME NEW s
    PROVE  /\ IsFiniteSet(Articles(s)) /\ IsFiniteSet(Units(s))
           /\ IsFiniteSet(Judgements(s)) /\ IsFiniteSet(Judged(s))
           /\ \A i : IsFiniteSet(Judges(i)) /\ IsFiniteSet(JudgedOf(s, i))
           /\ IsFiniteSet(Category \X Category)
<1> USE ConstantAssumption
<1>1. IsFiniteSet(Articles(s))
    BY FS_Subset DEF Articles
<1>2. IsFiniteSet(Units(s))
    BY <1>1, FS_Subset DEF Units
<1>3. IsFiniteSet(Annotator \X Articles(s))
    BY <1>1, FS_Product
<1>4. IsFiniteSet(Judgements(s))
    BY <1>3, FS_Subset DEF Judgements
<1>5. IsFiniteSet(Judged(s))
    BY <1>4, FS_Subset DEF Judged
<1>6. \A i : IsFiniteSet(Judges(i))
    BY FS_Subset DEF Judges
<1>7. \A i : IsFiniteSet(JudgedOf(s, i))
    BY <1>5, FS_Subset DEF JudgedOf
<1>8. IsFiniteSet(Category \X Category)
    BY FS_Product
<1> QED BY <1>1, <1>2, <1>4, <1>5, <1>6, <1>7, <1>8

\* Each of the k judges of an article is paired with k - 1 others, and the weight of
\* a pair makes up for it.
LEMMA WeightOfAnArticle ==
    ASSUME NEW s, NEW i \in Units(s)
    PROVE  /\ Cardinality(Judges(i)) \in Nat /\ Cardinality(Judges(i)) >= 2
           /\ Weight(i) \in Int
           /\ Weight(i) * (Cardinality(Judges(i)) - 1) = Scale
<1> USE ConstantAssumption
<1> DEFINE k == Cardinality(Judges(i))
<1>1. k \in Nat /\ k >= 2
    BY FiniteJudgements, FS_CardinalityType DEF Units
<1>2. k <= Cardinality(Annotator) /\ Cardinality(Annotator) \in Nat
    BY FS_Subset, FS_CardinalityType DEF Judges
<1>3. k - 1 \in 1 .. (Cardinality(Annotator) - 1)
    BY <1>1, <1>2
<1>4. (Scale \div (k - 1)) * (k - 1) = Scale
    BY <1>3
<1>5. Scale \div (k - 1) \in Int
    <2>1. k - 1 \in Nat /\ k - 1 > 0
        BY <1>1
    <2> HIDE DEF k
    <2> QED BY <2>1
<1> QED BY <1>1, <1>4, <1>5 DEF Weight

\* A judgement is of a category, and one that counts of an article judged twice.
LEMMA JudgedAre ==
    ASSUME NEW s
    PROVE  /\ \A p \in Judged(s) : /\ p[2] \in Units(s) /\ p[1] \in Judges(p[2])
                                   /\ ValueOf(p) \in Category /\ p = <<p[1], p[2]>>
           /\ \A i \in Units(s) : \A a \in Judges(i) : <<a, i>> \in JudgedOf(s, i)
           /\ \A i : \A p \in JudgedOf(s, i) : p \in Judged(s) /\ p = <<p[1], i>>
           /\ Units(s) \subseteq Articles(s)
<1>1. ASSUME NEW p \in Judged(s)
      PROVE  /\ p[2] \in Units(s) /\ p[1] \in Judges(p[2])
             /\ ValueOf(p) \in Category /\ p = <<p[1], p[2]>>
    BY DEF Judged, Judgements, Judges, ValueOf
<1>2. ASSUME NEW i \in Units(s), NEW a \in Judges(i) PROVE <<a, i>> \in JudgedOf(s, i)
    BY DEF Units, Judges, JudgedOf, Judged, Judgements
<1>3. ASSUME NEW i, NEW p \in JudgedOf(s, i) PROVE p \in Judged(s) /\ p = <<p[1], i>>
    BY <1>1 DEF JudgedOf
<1> QED BY <1>1, <1>2, <1>3 DEF Units

-----------------------------------------------------------------------------
(* The matrix of coincidences.                                             *)

Saying(i, c) == {a \in Judges(i) : answer[a][i] = c}

LEMMA PairsAreFinite ==
    ASSUME NEW i, NEW c, NEW d
    PROVE  IsFiniteSet(Pairs(i, c, d)) /\ Cardinality(Pairs(i, c, d)) \in Nat
<1>1. IsFiniteSet(Judges(i) \X Judges(i))
    BY FiniteJudgements, FS_Product
<1>2. IsFiniteSet(Pairs(i, c, d))
    BY <1>1, FS_Subset DEF Pairs
<1> QED BY <1>2, FS_CardinalityType

\* One who says c is in a pair with every other judge of the article.
LEMMA PairsOfOneValue ==
    ASSUME NEW s, NEW i \in Units(s), NEW c \in Category
    PROVE  /\ SumFunctionOnSet([d \in Category |-> Cardinality(Pairs(i, c, d))], Category)
              = Cardinality(Saying(i, c)) * (Cardinality(Judges(i)) - 1)
           /\ IsFiniteSet(Saying(i, c)) /\ Cardinality(Saying(i, c)) \in Nat
<1> DEFINE A == Saying(i, c)
           J == Judges(i)
           P == {p \in J \X J : p[1] # p[2] /\ answer[p[1]][i] = c}
           v == [p \in P |-> answer[p[2]][i]]
           same == {<<a, a>> : a \in A}
<1>0. IsFiniteSet(J) /\ IsFiniteSet(A) /\ A \subseteq J
    BY FiniteJudgements, FS_Subset DEF Saying
<1>1. IsFiniteSet(A \X J) /\ Cardinality(A \X J) = Cardinality(A) * Cardinality(J)
    <2> HIDE DEF A, J
    <2> QED BY <1>0, FS_Product
<1>2. IsFiniteSet(same) /\ Cardinality(same) = Cardinality(A)
    <2> DEFINE b == [a \in A |-> <<a, a>>]
    <2> HIDE DEF A
    <2>1. \A x, y \in A : b[x] = b[y] => x = y
        OBVIOUS
    <2>2. {b[x] : x \in A} = same
        OBVIOUS
    <2> HIDE DEF b, same
    <2>3. IsFiniteSet({b[x] : x \in A}) /\ Cardinality({b[x] : x \in A}) = Cardinality(A)
        BY <1>0, <2>1, CountRenamed
    <2> QED BY <2>2, <2>3
<1>3. P = (A \X J) \ same /\ same \subseteq A \X J
    BY <1>0 DEF Saying
<1>4. IsFiniteSet(P) /\ Cardinality(P) = Cardinality(A) * Cardinality(J) - Cardinality(A)
    <2>1. (A \X J) \cap same = same
        BY <1>3
    <2> HIDE DEF A, J, P, same
    <2>2. /\ IsFiniteSet((A \X J) \ same)
          /\ Cardinality((A \X J) \ same) = Cardinality(A \X J) - Cardinality((A \X J) \cap same)
        BY <1>1, FS_Difference
    <2>3. Cardinality((A \X J) \cap same) = Cardinality(same)
        BY <2>1
    <2>4. IsFiniteSet(P) /\ Cardinality(P) = Cardinality((A \X J) \ same)
        BY <1>3, <2>2
    <2> QED BY <1>1, <1>2, <2>2, <2>3, <2>4
<1>5. \A p \in P : v[p] \in Category
    BY DEF Judges
<1>6. \A d \in Category : {p \in P : v[p] = d} = Pairs(i, c, d)
    BY DEF Pairs
<1>7. Cardinality(P) = SumFunctionOnSet([d \in Category |-> Cardinality({p \in P : v[p] = d})], Category)
    <2> HIDE DEF P, v
    <2> QED BY <1>4, <1>5, ConstantAssumption, CountByValue
<1>8. [d \in Category |-> Cardinality({p \in P : v[p] = d})]
      = [d \in Category |-> Cardinality(Pairs(i, c, d))]
    <2> HIDE DEF P, v
    <2> QED BY <1>6
<1>9. Cardinality(A) \in Nat /\ Cardinality(J) \in Nat
    BY <1>0, FS_CardinalityType
<1>10. \A m, n \in Nat : m * n - m = m * (n - 1)
    OBVIOUS
<1>11. SumFunctionOnSet([d \in Category |-> Cardinality(Pairs(i, c, d))], Category) = Cardinality(P)
    BY <1>7, <1>8
<1>12. Cardinality(A) * Cardinality(J) - Cardinality(A) = Cardinality(A) * (Cardinality(J) - 1)
    BY <1>9, <1>10
<1> HIDE DEF P
<1> QED BY <1>0, <1>4, <1>9, <1>11, <1>12

\* What is taken over all the judgements that count is the sum over the articles.
LEMMA TakenByArticle ==
    ASSUME NEW s, NEW c \in Category
    PROVE  /\ Taken(s)[c] \in Nat
           /\ Taken(s)[c] = SumFunctionOnSet([i \in Units(s) |-> Cardinality(Saying(i, c))], Units(s))
<1> DEFINE S == {p \in Judged(s) : ValueOf(p) = c}
           v == [p \in S |-> p[2]]
<1>1. IsFiniteSet(S) /\ IsFiniteSet(Units(s))
    BY FiniteJudgements, FS_Subset
<1>2. \A p \in S : v[p] \in Units(s)
    BY JudgedAre
<1>3. Cardinality(S) = SumFunctionOnSet([i \in Units(s) |-> Cardinality({p \in S : v[p] = i})], Units(s))
    <2> HIDE DEF S, v
    <2> QED BY <1>1, <1>2, CountByValue
<1>4. ASSUME NEW i \in Units(s)
      PROVE  Cardinality({p \in S : v[p] = i}) = Cardinality(Saying(i, c))
    <2> DEFINE b == [a \in Saying(i, c) |-> <<a, i>>]
    <2>1. \A x, y \in Saying(i, c) : b[x] = b[y] => x = y
        OBVIOUS
    <2>2. {b[x] : x \in Saying(i, c)} = {p \in S : v[p] = i}
        <3>1. ASSUME NEW a \in Saying(i, c) PROVE <<a, i>> \in S /\ v[<<a, i>>] = i
            BY JudgedAre DEF Saying, JudgedOf, ValueOf
        <3>2. ASSUME NEW p \in S, v[p] = i PROVE p[1] \in Saying(i, c) /\ p = <<p[1], i>>
            BY <3>2, JudgedAre DEF Saying, ValueOf
        <3> HIDE DEF S, v
        <3> QED BY <3>1, <3>2
    <2>3. IsFiniteSet(Saying(i, c))
        BY PairsOfOneValue
    <2> HIDE DEF b, S, v
    <2>4. Cardinality({b[x] : x \in Saying(i, c)}) = Cardinality(Saying(i, c))
        BY <2>1, <2>3, CountRenamed
    <2> QED BY <2>2, <2>4
<1>5. [i \in Units(s) |-> Cardinality({p \in S : v[p] = i})] = [i \in Units(s) |-> Cardinality(Saying(i, c))]
    <2> HIDE DEF S, v
    <2> QED BY <1>4
<1>6. Taken(s)[c] = Cardinality(S)
    BY DEF Taken
<1>7. Cardinality(S) \in Nat
    <2> HIDE DEF S
    <2> QED BY <1>1, FS_CardinalityType
<1> QED BY <1>3, <1>5, <1>6, <1>7

LEMMA Products ==
    \A k, m, n \in Int : /\ k * m \in Int /\ k * m = m * k
                         /\ k * (m * n) = (k * m) * n /\ k * (m * n) = m * (k * n)
OBVIOUS

\* The marginals are the numbers of judgements, in units of 1 / Scale.
LEMMA MarginalsAreTaken ==
    ASSUME NEW s, NEW c \in Category
    PROVE  /\ Marginals(Coincidences(s))[c] = Scale * Taken(s)[c]
           /\ Taken(s)[c] \in Nat
<1> DEFINE U == Units(s)
           f == [z \in Category \X U |-> Cardinality(Pairs(z[2], c, z[1])) * Weight(z[2])]
           says == [i \in U |-> Cardinality(Saying(i, c))]
           column == [i \in U |-> SumFunctionOnSet([d \in Category |-> f[<<d, i>>]], Category)]
<1>0. IsFiniteSet(U) /\ IsFiniteSet(Category) /\ Scale \in Int
    BY FiniteJudgements, ConstantAssumption
<1>1. Marginals(Coincidences(s))[c]
      = SumFunctionOnSet([d \in Category |-> SumFunctionOnSet([i \in U |-> f[<<d, i>>]], U)], Category)
    <2>1. \A d \in Category : Coincidences(s)[<<c, d>>] = SumFunctionOnSet([i \in U |-> f[<<d, i>>]], U)
        <3> SUFFICES ASSUME NEW d \in Category
                     PROVE  Coincidences(s)[<<c, d>>] = SumFunctionOnSet([i \in U |-> f[<<d, i>>]], U)
            OBVIOUS
        <3>1. [i \in U |-> f[<<d, i>>]] = [i \in U |-> Cardinality(Pairs(i, c, d)) * Weight(i)]
            OBVIOUS
        <3>2. Coincidences(s)[<<c, d>>]
              = SumFunctionOnSet([i \in U |-> Cardinality(Pairs(i, c, d)) * Weight(i)], U)
            BY DEF Coincidences, SumFunction
        <3> HIDE DEF f, U
        <3> QED BY <3>1, <3>2
    <2>2. Marginals(Coincidences(s))[c]
          = SumFunctionOnSet([d \in Category |-> Coincidences(s)[<<c, d>>]], Category)
        BY DEF Marginals, SumFunction
    <2>3. [d \in Category |-> Coincidences(s)[<<c, d>>]]
          = [d \in Category |-> SumFunctionOnSet([i \in U |-> f[<<d, i>>]], U)]
        <3> HIDE DEF f, U
        <3> QED BY <2>1
    <2> HIDE DEF f, U
    <2> QED BY <2>2, <2>3
<1>2. \A d \in Category : \A i \in U : f[<<d, i>>] \in Int
    <2> SUFFICES ASSUME NEW d \in Category, NEW i \in U
                 PROVE  Cardinality(Pairs(i, c, d)) * Weight(i) \in Int
        OBVIOUS
    <2> QED BY PairsAreFinite, WeightOfAnArticle, Products
<1>3. Marginals(Coincidences(s))[c] = SumFunctionOnSet(column, U)
    <2> HIDE DEF f, U
    <2> QED BY <1>0, <1>1, <1>2, SumSwap
<1>4. ASSUME NEW i \in U PROVE says[i] \in Int /\ column[i] = Scale * says[i]
    <2> DEFINE pairs == [d \in Category |-> Cardinality(Pairs(i, c, d))]
               weighed == [d \in Category |-> f[<<d, i>>]]
               k == Cardinality(Judges(i))
    <2>1. \A d \in Category : pairs[d] \in Int /\ weighed[d] = Weight(i) * pairs[d]
        <3> SUFFICES ASSUME NEW d \in Category
                     PROVE  /\ Cardinality(Pairs(i, c, d)) \in Int
                            /\ Cardinality(Pairs(i, c, d)) * Weight(i) = Weight(i) * Cardinality(Pairs(i, c, d))
            OBVIOUS
        <3> QED BY PairsAreFinite, WeightOfAnArticle, Products
    <2>2. Weight(i) \in Int /\ k \in Nat /\ Weight(i) * (k - 1) = Scale
        BY WeightOfAnArticle
    <2>3. SumFunctionOnSet(weighed, Category) = Weight(i) * SumFunctionOnSet(pairs, Category)
        <3> HIDE DEF pairs, weighed
        <3> QED BY <1>0, <2>1, <2>2, SumTimes
    <2>4. /\ SumFunctionOnSet(pairs, Category) = Cardinality(Saying(i, c)) * (k - 1)
          /\ Cardinality(Saying(i, c)) \in Nat
        BY PairsOfOneValue
    <2>5. Weight(i) * (Cardinality(Saying(i, c)) * (k - 1)) = Cardinality(Saying(i, c)) * (Weight(i) * (k - 1))
        <3> HIDE DEF k
        <3> QED BY <2>2, <2>4, Products
    <2>6. Cardinality(Saying(i, c)) * Scale = Scale * Cardinality(Saying(i, c))
        BY <1>0, <2>4, Products
    <2>7. column[i] = SumFunctionOnSet(weighed, Category)
        OBVIOUS
    <2>8. says[i] = Cardinality(Saying(i, c))
        OBVIOUS
    <2> HIDE DEF column, says, weighed, pairs, k
    <2> QED BY <2>2, <2>3, <2>4, <2>5, <2>6, <2>7, <2>8
<1>5. SumFunctionOnSet(column, U) = Scale * SumFunctionOnSet(says, U)
    <2> HIDE DEF column, says, U
    <2> QED BY <1>0, <1>4, SumTimes
<1> QED BY <1>3, <1>5, TakenByArticle

\* The sum of the marginals is the number of judgements.
LEMMA TotalIsJudged ==
    ASSUME NEW s
    PROVE  /\ SumFunction(Marginals(Coincidences(s))) = Scale * Cardinality(Judged(s))
           /\ Cardinality(Judged(s)) \in Nat
<1> DEFINE n == Marginals(Coincidences(s))
           v == [p \in Judged(s) |-> ValueOf(p)]
<1>1. DOMAIN n = Category
    BY DEF Marginals
<1>2. \A c \in Category : Taken(s)[c] \in Int /\ n[c] = Scale * Taken(s)[c]
    BY MarginalsAreTaken
<1>3. SumFunctionOnSet(n, Category) = Scale * SumFunctionOnSet(Taken(s), Category)
    <2>1. IsFiniteSet(Category) /\ Scale \in Int
        BY ConstantAssumption
    <2> HIDE DEF n
    <2> QED BY <1>2, <2>1, SumTimes
<1>4. IsFiniteSet(Judged(s)) /\ \A p \in Judged(s) : v[p] \in Category
    BY FiniteJudgements, JudgedAre
<1>5. Cardinality(Judged(s))
      = SumFunctionOnSet([c \in Category |-> Cardinality({p \in Judged(s) : v[p] = c})], Category)
    <2> HIDE DEF v
    <2> QED BY <1>4, ConstantAssumption, CountByValue
<1>6. [c \in Category |-> Cardinality({p \in Judged(s) : v[p] = c})] = Taken(s)
    <2>1. \A c \in Category : {p \in Judged(s) : v[p] = c} = {p \in Judged(s) : ValueOf(p) = c}
        OBVIOUS
    <2> HIDE DEF v
    <2> QED BY <2>1 DEF Taken
<1> QED BY <1>1, <1>3, <1>4, <1>5, <1>6, FS_CardinalityType DEF SumFunction

-----------------------------------------------------------------------------
(* Distances.                                                              *)

Squares(c, d, n) ==
    IF c = d THEN 0 ELSE 2 * SumFunctionOnSet(n, Amid(c, d)) - n[c] - n[d]

LEMMA DistanceOfTaken ==
    ASSUME NEW s, NEW c \in Category, NEW d \in Category
    PROVE  /\ Squares(c, d, Taken(s)) \in Int
           /\ Distance(Taken(s), c, d) = Squares(c, d, Taken(s)) * Squares(c, d, Taken(s))
           /\ Distance(Taken(s), c, d) \in Int
           /\ Distance(Taken(s), c, d) = Distance(Taken(s), d, c)
           /\ c = d => Distance(Taken(s), c, d) = 0
<1> DEFINE n == Taken(s)
<1>1. \A g \in Category : n[g] \in Int
    BY MarginalsAreTaken
<1>2. IsFiniteSet(Amid(c, d)) /\ Amid(c, d) \subseteq Category /\ Amid(c, d) = Amid(d, c)
    BY ConstantAssumption, FS_Subset DEF Amid
<1> HIDE DEF n
<1>3. SumFunctionOnSet(n, Amid(c, d)) \in Int
    BY <1>1, <1>2, SumTake
<1>4. SumFunctionOnSet(n, Amid(c, d)) = SumFunctionOnSet(n, Amid(d, c))
    BY <1>2
<1>5. Squares(c, d, n) \in Int /\ Squares(c, d, n) = Squares(d, c, n)
    BY <1>1, <1>3, <1>4 DEF Squares
<1>6. /\ Distance(n, c, d) = Squares(c, d, n) * Squares(c, d, n)
      /\ Distance(n, d, c) = Squares(d, c, n) * Squares(d, c, n)
    BY DEF Distance, Squares
<1>7. c = d => Squares(c, d, n) = 0
    BY DEF Squares
<1> QED BY <1>5, <1>6, <1>7, Products DEF n

\* Distances are counted in units of 1 / Scale too, before they are squared.
LEMMA DistanceOfMarginals ==
    ASSUME NEW s, NEW c \in Category, NEW d \in Category
    PROVE  Distance(Marginals(Coincidences(s)), c, d)
           = (Scale * Scale) * Distance(Taken(s), c, d)
<1> DEFINE n == Taken(s)
           m == Marginals(Coincidences(s))
<1>1. \A g \in Category : n[g] \in Int /\ m[g] = Scale * n[g]
    BY MarginalsAreTaken
<1>2. IsFiniteSet(Amid(c, d)) /\ Amid(c, d) \subseteq Category /\ Scale \in Int
    BY ConstantAssumption, FS_Subset DEF Amid
<1> HIDE DEF n, m
<1>3. /\ SumFunctionOnSet(n, Amid(c, d)) \in Int
      /\ SumFunctionOnSet(m, Amid(c, d)) = Scale * SumFunctionOnSet(n, Amid(c, d))
    BY <1>1, <1>2, SumTake, SumTimes
<1>4. Squares(c, d, m) = Scale * Squares(c, d, n) /\ Squares(c, d, n) \in Int
    <2>1. \A k, x, y, z \in Int : 2 * (k * x) - k * y - k * z = k * (2 * x - y - z)
        OBVIOUS
    <2>2. CASE c = d
        BY <1>2, <2>2 DEF Squares
    <2>3. CASE c # d
        BY <1>1, <1>2, <1>3, <2>1, <2>3 DEF Squares
    <2> QED BY <2>2, <2>3
<1>5. /\ Distance(n, c, d) = Squares(c, d, n) * Squares(c, d, n)
      /\ Distance(m, c, d) = Squares(c, d, m) * Squares(c, d, m)
    BY DEF Distance, Squares
<1>6. \A k, x \in Int : (k * x) * (k * x) = (k * k) * (x * x)
    OBVIOUS
<1> QED BY <1>2, <1>4, <1>5, <1>6 DEF n, m

\* Two judgements are at the distance of their values, which Apart counts in one of
\* their two orders.
LEMMA ApartIsDistance ==
    ASSUME NEW s, NEW p \in Judged(s), NEW q \in Judged(s)
    PROVE  /\ Apart(s)[<<p, q>>] \in Int
           /\ Apart(s)[<<p, q>>] + Apart(s)[<<q, p>>] = Distance(Taken(s), ValueOf(p), ValueOf(q))
<1> DEFINE n == Taken(s)
           c == ValueOf(p)
           d == ValueOf(q)
           side(x, y) == 2 * SumFunctionOnSet(n, (x .. y) \cap Category) - n[x] - n[y]
           half(x, y) == IF x >= y THEN 0 ELSE side(x, y) * side(x, y)
<1>1. c \in Category /\ d \in Category /\ Category \subseteq Int
    BY JudgedAre, ConstantAssumption
<1>2. Apart(s)[<<p, q>>] = half(c, d) /\ Apart(s)[<<q, p>>] = half(d, c)
    BY DEF Apart
<1>3. ASSUME NEW x \in Category, NEW y \in Category, x < y
      PROVE  side(x, y) = Squares(x, y, n)
    <2>1. (x .. y) \cap Category = Amid(x, y)
        <3> SUFFICES ASSUME NEW g \in Category
                     PROVE  g \in x .. y <=> (x <= g /\ g <= y) \/ (y <= g /\ g <= x)
            BY DEF Amid
        <3>1. x \in Int /\ y \in Int /\ g \in Int
            BY <1>1
        <3> QED BY <1>3, <3>1
    <2>2. x # y
        BY <1>1, <1>3
    <2> HIDE DEF n
    <2> QED BY <2>1, <2>2 DEF Squares
<1>4. ASSUME NEW x \in Category, NEW y \in Category
      PROVE  half(x, y) = IF x >= y THEN 0 ELSE Distance(n, x, y)
    <2>1. CASE x >= y
        BY <2>1
    <2>2. CASE ~ (x >= y)
        <3>1. x < y
            BY <1>1, <2>2
        <3>2. side(x, y) = Squares(x, y, n)
            BY <1>3, <3>1
        <3> HIDE DEF side, n
        <3> QED BY <2>2, <3>2, DistanceOfTaken DEF n
    <2> QED BY <2>1, <2>2
<1> HIDE DEF half, c, d
<1>5. /\ half(c, d) = IF c >= d THEN 0 ELSE Distance(n, c, d)
      /\ half(d, c) = IF d >= c THEN 0 ELSE Distance(n, d, c)
    BY <1>1, <1>4
<1>6. /\ Distance(n, c, d) \in Int /\ Distance(n, c, d) = Distance(n, d, c)
      /\ c = d => Distance(n, c, d) = 0
    BY <1>1, DistanceOfTaken
<1> HIDE DEF n
<1>7. c \in Int /\ d \in Int
    BY <1>1
<1>8. half(c, d) \in Int /\ half(c, d) + half(d, c) = Distance(n, c, d)
    <2>1. CASE c > d
        BY <1>5, <1>6, <1>7, <2>1
    <2>2. CASE c < d
        BY <1>5, <1>6, <1>7, <2>2
    <2>3. CASE c = d
        BY <1>5, <1>6, <1>7, <2>3
    <2> QED BY <1>7, <2>1, <2>2, <2>3
<1> QED BY <1>2, <1>8 DEF n, c, d

DistanceOf(s) == [pq \in Judged(s) \X Judged(s) |-> Distance(Taken(s), ValueOf(pq[1]), ValueOf(pq[2]))]

\* Over all the pairs of some judgements, the distances are twice what Apart counts.
LEMMA DistancesAreTwice ==
    ASSUME NEW s, NEW X \in SUBSET Judged(s)
    PROVE  /\ SumFunctionOnSet(Apart(s), X \X X) \in Int
           /\ SumFunctionOnSet(DistanceOf(s), X \X X) = 2 * SumFunctionOnSet(Apart(s), X \X X)
<1> DEFINE S == X \X X
           b == [pq \in S |-> <<pq[2], pq[1]>>]
           f == Apart(s)
           g == [pq \in S |-> f[b[pq]]]
<1>1. IsFiniteSet(S)
    <2>1. IsFiniteSet(X)
        BY FiniteJudgements, FS_Subset
    <2> QED BY <2>1, FS_Product
<1>2. ASSUME NEW pq \in S
      PROVE  /\ f[pq] \in Int /\ g[pq] \in Int
             /\ DistanceOf(s)[pq] = f[pq] + g[pq]
    <2>1. pq[1] \in Judged(s) /\ pq[2] \in Judged(s) /\ pq = <<pq[1], pq[2]>>
        OBVIOUS
    <2>2. g[pq] = Apart(s)[<<pq[2], pq[1]>>] /\ f[pq] = Apart(s)[<<pq[1], pq[2]>>]
        BY <2>1
    <2>3. DistanceOf(s)[pq] = Distance(Taken(s), ValueOf(pq[1]), ValueOf(pq[2]))
        BY <2>1 DEF DistanceOf
    <2> HIDE DEF f, g
    <2> QED BY <2>1, <2>2, <2>3, ApartIsDistance
<1>3. SumFunctionOnSet(DistanceOf(s), S) = SumFunctionOnSet(f, S) + SumFunctionOnSet(g, S)
    <2> HIDE DEF f, g, S
    <2> QED BY <1>1, <1>2, SumPlus
<1>4. SumFunctionOnSet(f, S) = SumFunctionOnSet(g, S)
    <2>1. \A x, y \in S : b[x] = b[y] => x = y
        OBVIOUS
    <2>2. {b[x] : x \in S} = S
        <3>1. \A x \in S : b[x] \in S /\ b[b[x]] = x
            OBVIOUS
        <3> HIDE DEF S, b
        <3> QED BY <3>1
    <2>3. \A x \in S : f[b[x]] = g[x]
        OBVIOUS
    <2> HIDE DEF f, g, S, b
    <2>4. SumFunctionOnSet(f, {b[x] : x \in S}) = SumFunctionOnSet(g, S)
        BY <1>1, <1>2, <2>1, <2>3, SumRenamed
    <2> QED BY <2>2, <2>4
<1>5. SumFunctionOnSet(f, S) \in Int
    <2> HIDE DEF f, g, S
    <2> QED BY <1>1, <1>2, SumTake
<1> QED BY <1>3, <1>4, <1>5

\* The pairs of judges of an article, at the distance of what they say.
LEMMA PairsOfAnArticle ==
    ASSUME NEW s, NEW i \in Units(s)
    PROVE  SumFunctionOnSet([p \in Category \X Category |->
                Cardinality(Pairs(i, p[1], p[2])) * Distance(Taken(s), p[1], p[2])], Category \X Category)
           = SumFunctionOnSet(DistanceOf(s), JudgedOf(s, i) \X JudgedOf(s, i))
<1> DEFINE J == JudgedOf(s, i)
           S == J \X J
           C == Category \X Category
           v == [pq \in S |-> <<ValueOf(pq[1]), ValueOf(pq[2])>>]
           d == [p \in C |-> Distance(Taken(s), p[1], p[2])]
           counted == [p \in C |-> Cardinality({pq \in S : v[pq] = p}) * d[p]]
           paired == [p \in C |-> Cardinality(Pairs(i, p[1], p[2])) * Distance(Taken(s), p[1], p[2])]
           apart == [pq \in S |-> d[v[pq]]]
<1>1. IsFiniteSet(S) /\ IsFiniteSet(C)
    BY FiniteJudgements, FS_Product
<1>2. \A pq \in S : v[pq] \in C
    BY JudgedAre
<1>3. \A p \in C : d[p] \in Int
    BY DistanceOfTaken
<1>4. SumFunctionOnSet(apart, S) = SumFunctionOnSet(counted, C)
    <2> HIDE DEF S, C, v, d
    <2> QED BY <1>1, <1>2, <1>3, SumByValue
<1>5. ASSUME NEW p \in C PROVE counted[p] = paired[p]
    <2>1. p[1] \in Category /\ p[2] \in Category /\ p = <<p[1], p[2]>>
        OBVIOUS
    <2>2. CASE p[1] = p[2]
        <3>1. d[p] = 0 /\ Distance(Taken(s), p[1], p[2]) = 0
            BY <2>1, <2>2, DistanceOfTaken
        <3>2. Cardinality({pq \in S : v[pq] = p}) \in Int /\ Cardinality(Pairs(i, p[1], p[2])) \in Int
            <4>1. IsFiniteSet({pq \in S : v[pq] = p})
                <5> HIDE DEF S, v
                <5> QED BY <1>1, FS_Subset
            <4> HIDE DEF S, v
            <4> QED BY <4>1, PairsAreFinite, FS_CardinalityType
        <3>3. counted[p] = Cardinality({pq \in S : v[pq] = p}) * d[p]
            OBVIOUS
        <3>4. paired[p] = Cardinality(Pairs(i, p[1], p[2])) * Distance(Taken(s), p[1], p[2])
            OBVIOUS
        <3> HIDE DEF counted, paired, d, S, v
        <3> QED BY <3>1, <3>2, <3>3, <3>4
    <2>3. CASE p[1] # p[2]
        <3> DEFINE P == Pairs(i, p[1], p[2])
                   b == [ab \in P |-> <<<<ab[1], i>>, <<ab[2], i>>>>]
        <3>1. \A x, y \in P : b[x] = b[y] => x = y
            <4>1. \A x \in P : x = <<x[1], x[2]>> /\ b[x] = <<<<x[1], i>>, <<x[2], i>>>>
                BY DEF Pairs
            <4> HIDE DEF P, b
            <4> QED BY <4>1
        <3>2. {b[x] : x \in P} = {pq \in S : v[pq] = p}
            <4>1. ASSUME NEW x \in P PROVE b[x] \in S /\ v[b[x]] = p
                <5>1. /\ x[1] \in Judges(i) /\ x[2] \in Judges(i)
                      /\ answer[x[1]][i] = p[1] /\ answer[x[2]][i] = p[2]
                    BY DEF Pairs
                <5>2. <<x[1], i>> \in J /\ <<x[2], i>> \in J
                    BY <5>1, JudgedAre
                <5>3. b[x] \in S
                    BY <5>2
                <5>4. v[b[x]] = <<p[1], p[2]>>
                    BY <5>1, <5>2, <5>3 DEF ValueOf
                <5> QED BY <2>1, <5>3, <5>4
            <4>2. ASSUME NEW pq \in S, v[pq] = p PROVE \E x \in P : b[x] = pq
                <5> DEFINE x == <<pq[1][1], pq[2][1]>>
                <5>1. pq[1] \in J /\ pq[2] \in J /\ pq = <<pq[1], pq[2]>>
                    OBVIOUS
                <5>2. pq[1] = <<pq[1][1], i>> /\ pq[2] = <<pq[2][1], i>>
                    BY <5>1, JudgedAre
                <5>3. /\ pq[1][1] \in Judges(i) /\ pq[2][1] \in Judges(i)
                      /\ answer[pq[1][1]][i] = p[1] /\ answer[pq[2][1]][i] = p[2]
                    BY <4>2, <5>1, <5>2, JudgedAre DEF ValueOf
                <5>4. x \in P
                    BY <2>3, <5>3 DEF Pairs
                <5>5. b[x] = pq
                    BY <5>1, <5>2, <5>4
                <5> QED BY <5>4, <5>5
            <4> HIDE DEF P, b, S, v
            <4> QED BY <4>1, <4>2
        <3>3. Cardinality({b[x] : x \in P}) = Cardinality(P)
            <4>1. IsFiniteSet(P)
                BY PairsAreFinite
            <4> HIDE DEF P, b
            <4> QED BY <3>1, <4>1, CountRenamed
        <3>4. Cardinality({pq \in S : v[pq] = p}) = Cardinality(P)
            <4> HIDE DEF P, b, S, v
            <4> QED BY <3>2, <3>3
        <3>5. counted[p] = Cardinality({pq \in S : v[pq] = p}) * d[p]
            OBVIOUS
        <3>6. paired[p] = Cardinality(P) * d[p]
            OBVIOUS
        <3> HIDE DEF counted, paired, P, b, S, v, d
        <3> QED BY <3>4, <3>5, <3>6
    <2> QED BY <2>2, <2>3
<1>6. counted = paired
    <2> SUFFICES [p \in C |-> counted[p]] = [p \in C |-> paired[p]]
        OBVIOUS
    <2> HIDE DEF counted, paired, C
    <2> QED BY <1>5
<1>7. SumFunctionOnSet(apart, S) = SumFunctionOnSet(DistanceOf(s), S)
    <2>1. ASSUME NEW pq \in S PROVE apart[pq] \in Int /\ DistanceOf(s)[pq] = apart[pq]
        <3>1. v[pq] \in C /\ d[v[pq]] \in Int
            BY <1>2, <1>3
        <3>2. pq[1] \in Judged(s) /\ pq[2] \in Judged(s) /\ pq \in Judged(s) \X Judged(s)
            BY JudgedAre
        <3>3. DistanceOf(s)[pq] = Distance(Taken(s), ValueOf(pq[1]), ValueOf(pq[2]))
            BY <3>2 DEF DistanceOf
        <3>4. d[v[pq]] = Distance(Taken(s), ValueOf(pq[1]), ValueOf(pq[2]))
            BY <1>2
        <3> QED BY <3>1, <3>3, <3>4
    <2> HIDE DEF apart, S
    <2> QED BY <1>1, <2>1, SumSame
<1> QED BY <1>4, <1>6, <1>7

-----------------------------------------------------------------------------
(* The two sums of alpha.                                                  *)

\* The disagreement observed, from the matrix and from the pairs of judgements.
LEMMA ObservedIsWithin ==
    ASSUME NEW s
    PROVE  /\ Observed(Coincidences(s), Marginals(Coincidences(s))) = (Scale * Scale) * (2 * Within(s))
           /\ Within(s) \in Int
<1> DEFINE U == Units(s)
           C == Category \X Category
           m == Coincidences(s)
           n == Marginals(m)
           far(p) == Distance(Taken(s), p[1], p[2])
           f == [z \in C \X U |-> (Cardinality(Pairs(z[2], z[1][1], z[1][2])) * far(z[1])) * Weight(z[2])]
           row == [p \in C |-> SumFunctionOnSet([i \in U |-> f[<<p, i>>]], U)]
           column == [i \in U |-> SumFunctionOnSet([p \in C |-> f[<<p, i>>]], C)]
           inside == [i \in U |-> SumFunctionOnSet(Apart(s), JudgedOf(s, i) \X JudgedOf(s, i)) * Weight(i)]
           o == [p \in C |-> m[p] * Distance(n, p[1], p[2])]
<1>0. IsFiniteSet(U) /\ IsFiniteSet(C) /\ Scale \in Int /\ Scale * Scale \in Int
    <2>1. Scale \in Int
        BY ConstantAssumption
    <2> QED BY <2>1, FiniteJudgements, Products
<1>1. ASSUME NEW p \in C
      PROVE  /\ row[p] \in Int /\ far(p) \in Int /\ row[p] = far(p) * m[p]
             /\ m[p] \in Int /\ \A i \in U : f[<<p, i>>] \in Int
    <2> DEFINE c == [i \in U |-> Cardinality(Pairs(i, p[1], p[2])) * Weight(i)]
               r == [i \in U |-> f[<<p, i>>]]
    <2>1. p[1] \in Category /\ p[2] \in Category /\ p = <<p[1], p[2]>>
        OBVIOUS
    <2>2. far(p) \in Int
        BY <2>1, DistanceOfTaken
    <2>3. ASSUME NEW i \in U PROVE c[i] \in Int /\ r[i] = far(p) * c[i] /\ r[i] \in Int /\ f[<<p, i>>] = r[i]
        <3>1. Cardinality(Pairs(i, p[1], p[2])) \in Int /\ Weight(i) \in Int
            BY PairsAreFinite, WeightOfAnArticle
        <3>2. /\ c[i] = Cardinality(Pairs(i, p[1], p[2])) * Weight(i)
              /\ r[i] = (Cardinality(Pairs(i, p[1], p[2])) * far(p)) * Weight(i)
              /\ f[<<p, i>>] = r[i]
            OBVIOUS
        <3>3. \A x, y, z \in Int : (x * y) * z = y * (x * z) /\ x * z \in Int /\ y * (x * z) \in Int
            OBVIOUS
        <3> HIDE DEF c, r, far
        <3> QED BY <2>2, <3>1, <3>2, <3>3
    <2>4. SumFunctionOnSet(r, U) = far(p) * SumFunctionOnSet(c, U) /\ SumFunctionOnSet(c, U) \in Int
        <3> DEFINE k == far(p)
        <3>1. k \in Int /\ \A i \in U : c[i] \in Int /\ r[i] = k * c[i]
            BY <2>2, <2>3
        <3> HIDE DEF c, r, k, U
        <3>2. SumFunctionOnSet(c, U) \in Int
            BY <1>0, <3>1, SumTake
        <3>3. SumFunctionOnSet(r, U) = k * SumFunctionOnSet(c, U)
            BY <1>0, <3>1, SumTimes
        <3> QED BY <3>2, <3>3 DEF k
    <2>5. m[p] = SumFunctionOnSet(c, U)
        BY <2>1 DEF Coincidences, SumFunction
    <2>6. row[p] = SumFunctionOnSet(r, U)
        OBVIOUS
    <2>7. \A i \in U : f[<<p, i>>] \in Int
        BY <2>3
    <2> HIDE DEF row, far, m, c, r, U, f
    <2>8. far(p) * m[p] \in Int
        BY <2>2, <2>4, <2>5, Products
    <2> QED BY <2>2, <2>4, <2>5, <2>6, <2>7, <2>8
<1>2. ASSUME NEW p \in C PROVE row[p] \in Int /\ o[p] = (Scale * Scale) * row[p]
    <2>1. Distance(n, p[1], p[2]) = (Scale * Scale) * far(p)
        BY DistanceOfMarginals
    <2>2. o[p] = m[p] * Distance(n, p[1], p[2])
        OBVIOUS
    <2>3. \A k, x, y \in Int : x * (k * y) = k * (y * x)
        OBVIOUS
    <2> HIDE DEF o, row, far, m, n, C
    <2> QED BY <1>0, <1>1, <2>1, <2>2, <2>3
<1>3. SumFunctionOnSet(o, C) = (Scale * Scale) * SumFunctionOnSet(row, C)
    <2> HIDE DEF o, row, C
    <2> QED BY <1>0, <1>2, SumTimes
<1>4. SumFunctionOnSet(row, C) = SumFunctionOnSet(column, U)
    <2>1. \A p \in C : \A i \in U : f[<<p, i>>] \in Int
        BY <1>1
    <2> HIDE DEF f, C, U
    <2> QED BY <1>0, <2>1, SumSwap
<1>5. ASSUME NEW i \in U PROVE inside[i] \in Int /\ column[i] = 2 * inside[i]
    <2> DEFINE paired == [p \in C |-> Cardinality(Pairs(i, p[1], p[2])) * far(p)]
               weighed == [p \in C |-> f[<<p, i>>]]
               J == JudgedOf(s, i)
    <2>1. Weight(i) \in Int
        BY WeightOfAnArticle
    <2>2. ASSUME NEW p \in C PROVE paired[p] \in Int /\ weighed[p] = Weight(i) * paired[p]
        <3>1. Cardinality(Pairs(i, p[1], p[2])) \in Int
            BY PairsAreFinite
        <3>2. /\ paired[p] = Cardinality(Pairs(i, p[1], p[2])) * far(p)
              /\ weighed[p] = (Cardinality(Pairs(i, p[1], p[2])) * far(p)) * Weight(i)
            OBVIOUS
        <3>3. far(p) \in Int
            BY <1>1
        <3>4. \A x, y, z \in Int : x * y \in Int /\ (x * y) * z = z * (x * y)
            OBVIOUS
        <3> HIDE DEF paired, weighed, far
        <3> QED BY <2>1, <3>1, <3>2, <3>3, <3>4
    <2>3. SumFunctionOnSet(weighed, C) = Weight(i) * SumFunctionOnSet(paired, C)
        <3> HIDE DEF paired, weighed, C
        <3> QED BY <1>0, <2>1, <2>2, SumTimes
    <2>4. SumFunctionOnSet(paired, C) = SumFunctionOnSet(DistanceOf(s), J \X J)
        BY PairsOfAnArticle
    <2>5. /\ SumFunctionOnSet(Apart(s), J \X J) \in Int
          /\ SumFunctionOnSet(DistanceOf(s), J \X J) = 2 * SumFunctionOnSet(Apart(s), J \X J)
        <3>1. J \in SUBSET Judged(s)
            BY DEF JudgedOf
        <3> HIDE DEF J
        <3> QED BY <3>1, DistancesAreTwice
    <2>6. column[i] = SumFunctionOnSet(weighed, C)
        OBVIOUS
    <2>7. inside[i] = SumFunctionOnSet(Apart(s), J \X J) * Weight(i)
        OBVIOUS
    <2>8. \A w, x \in Int : w * (2 * x) = 2 * (x * w) /\ x * w \in Int
        OBVIOUS
    <2> HIDE DEF column, inside, weighed, paired, C, J
    <2> QED BY <2>1, <2>3, <2>4, <2>5, <2>6, <2>7, <2>8
<1>6. /\ SumFunctionOnSet(column, U) = 2 * SumFunctionOnSet(inside, U)
      /\ SumFunctionOnSet(inside, U) \in Int
    <2> HIDE DEF column, inside, U
    <2> QED BY <1>0, <1>5, SumTimes, SumTake
<1>7. Within(s) = SumFunctionOnSet(inside, U)
    BY DEF Within, SumFunction
<1>8. Observed(m, n) = SumFunctionOnSet(o, C)
    BY DEF Observed, SumFunction
<1> QED BY <1>3, <1>4, <1>6, <1>7, <1>8

\* The disagreement expected.
LEMMA ExpectedIsAcross ==
    ASSUME NEW s
    PROVE  /\ Expected(Marginals(Coincidences(s)))
              = ((Scale * Scale) * (Scale * Scale)) * (2 * Across(s))
           /\ Across(s) \in Int
<1> DEFINE C == Category \X Category
           J == Judged(s)
           S == J \X J
           N == Taken(s)
           n == Marginals(Coincidences(s))
           v == [pq \in S |-> <<ValueOf(pq[1]), ValueOf(pq[2])>>]
           d == [p \in C |-> Distance(N, p[1], p[2])]
           counted == [p \in C |-> Cardinality({pq \in S : v[pq] = p}) * d[p]]
           e == [p \in C |-> n[p[1]] * n[p[2]] * Distance(n, p[1], p[2])]
           K == (Scale * Scale) * (Scale * Scale)
<1>0. IsFiniteSet(J) /\ IsFiniteSet(S) /\ IsFiniteSet(C) /\ Scale \in Int /\ K \in Int
    <2>1. Scale \in Int
        BY ConstantAssumption
    <2>2. Scale * Scale \in Int
        BY <2>1, Products
    <2>3. K \in Int
        BY <2>2, Products
    <2>4. IsFiniteSet(J) /\ IsFiniteSet(C)
        BY FiniteJudgements
    <2>5. IsFiniteSet(S)
        <3> HIDE DEF J
        <3> QED BY <2>4, FS_Product
    <2> QED BY <2>1, <2>3, <2>4, <2>5
<1>1. \A pq \in S : v[pq] \in C
    BY JudgedAre
<1>2. \A p \in C : d[p] \in Int
    BY DistanceOfTaken
<1>3. SumFunctionOnSet([pq \in S |-> d[v[pq]]], S) = SumFunctionOnSet(counted, C)
    <2> HIDE DEF S, C, v, d
    <2> QED BY <1>0, <1>1, <1>2, SumByValue
<1>4. [pq \in S |-> d[v[pq]]] = DistanceOf(s)
    <2>1. \A pq \in S : d[v[pq]] = Distance(N, ValueOf(pq[1]), ValueOf(pq[2]))
        BY <1>1
    <2> HIDE DEF d, v
    <2> QED BY <2>1 DEF DistanceOf
<1>5. ASSUME NEW p \in C PROVE counted[p] \in Int /\ e[p] = K * counted[p]
    <2> DEFINE A(c) == {q \in J : ValueOf(q) = c}
    <2>1. p[1] \in Category /\ p[2] \in Category /\ p = <<p[1], p[2]>>
        OBVIOUS
    <2>2. {pq \in S : v[pq] = p} = A(p[1]) \X A(p[2])
        BY <2>1
    <2>3. \A c \in Category : IsFiniteSet(A(c)) /\ N[c] = Cardinality(A(c)) /\ N[c] \in Int /\ n[c] = Scale * N[c]
        <3> SUFFICES ASSUME NEW c \in Category
                     PROVE  IsFiniteSet(A(c)) /\ N[c] = Cardinality(A(c)) /\ N[c] \in Int /\ n[c] = Scale * N[c]
            OBVIOUS
        <3>1. IsFiniteSet(A(c))
            BY <1>0, FS_Subset
        <3>2. N[c] = Cardinality(A(c))
            BY DEF Taken
        <3> HIDE DEF A
        <3> QED BY <3>1, <3>2, MarginalsAreTaken
    <2>4. Cardinality(A(p[1]) \X A(p[2])) = N[p[1]] * N[p[2]]
        <3>1. /\ IsFiniteSet(A(p[1])) /\ IsFiniteSet(A(p[2]))
              /\ N[p[1]] = Cardinality(A(p[1])) /\ N[p[2]] = Cardinality(A(p[2]))
            BY <2>1, <2>3
        <3> HIDE DEF A, N
        <3> QED BY <3>1, FS_Product
    <2>5. counted[p] = (N[p[1]] * N[p[2]]) * d[p]
        <3>1. counted[p] = Cardinality({pq \in S : v[pq] = p}) * d[p]
            OBVIOUS
        <3> HIDE DEF counted, A, S, v, d, N
        <3> QED BY <2>2, <2>4, <3>1
    <2>6. Distance(n, p[1], p[2]) = (Scale * Scale) * d[p]
        BY <2>1, DistanceOfMarginals
    <2>7. e[p] = (n[p[1]] * n[p[2]]) * Distance(n, p[1], p[2])
        OBVIOUS
    <2>8. \A k, x, y, z \in Int :
            /\ ((k * x) * (k * y)) * ((k * k) * z) = ((k * k) * (k * k)) * ((x * y) * z)
            /\ (x * y) * z \in Int
        OBVIOUS
    <2>9. n[p[1]] = Scale * N[p[1]] /\ n[p[2]] = Scale * N[p[2]] /\ N[p[1]] \in Int /\ N[p[2]] \in Int
        BY <2>1, <2>3
    <2>10. e[p] = ((Scale * N[p[1]]) * (Scale * N[p[2]])) * ((Scale * Scale) * d[p])
        <3> HIDE DEF e, n, N, d
        <3> QED BY <2>6, <2>7, <2>9
    <2>11. d[p] \in Int
        BY <1>2
    <2> HIDE DEF e, counted, n, N, d, C
    <2>12. /\ ((Scale * N[p[1]]) * (Scale * N[p[2]])) * ((Scale * Scale) * d[p])
              = K * ((N[p[1]] * N[p[2]]) * d[p])
           /\ (N[p[1]] * N[p[2]]) * d[p] \in Int
        BY <1>0, <2>8, <2>9, <2>11, Zenon
    <2> HIDE DEF K
    <2> QED BY <2>5, <2>10, <2>12, Zenon
<1>6. SumFunctionOnSet(e, C) = K * SumFunctionOnSet(counted, C)
    <2> HIDE DEF e, counted, C, K
    <2> QED BY <1>0, <1>5, SumTimes
<1>7. /\ SumFunctionOnSet(DistanceOf(s), S) = 2 * SumFunctionOnSet(Apart(s), S)
      /\ SumFunctionOnSet(Apart(s), S) \in Int
    BY DistancesAreTwice
<1>8. Across(s) = SumFunctionOnSet(Apart(s), S)
    <2>1. DOMAIN Apart(s) = S
        BY DEF Apart
    <2> QED BY <2>1 DEF Across, SumFunction
<1>9. Expected(n) = SumFunctionOnSet(e, C)
    BY DEF Expected, SumFunction
<1> HIDE DEF K
<1> QED BY <1>3, <1>4, <1>6, <1>7, <1>8, <1>9 DEF K

LEMMA RatioIsPairwise ==
    ASSUME NEW k \in Nat \ {0}, NEW w \in Int, NEW e \in Int, NEW j \in Nat
    PROVE  (((k * k) * (2 * w)) * (k * j - k)) * k * e = w * (j - 1) * (((k * k) * (k * k)) * (2 * e))
<1>1. k * j - k = k * (j - 1)
    OBVIOUS
<1>2. \A x, y, z, u \in Int : (((x * x) * (2 * y)) * (x * z)) * x * u = y * z * (((x * x) * (x * x)) * (2 * u))
    OBVIOUS
<1> QED BY <1>1, <1>2

LEMMA ZeroProduct ==
    ASSUME NEW k \in Nat \ {0}, NEW e \in Int
    PROVE  ((k * k) * (k * k)) * (2 * e) = 0 <=> e = 0
<1>1. \A m, n \in Int : m # 0 /\ n # 0 => m * n # 0
    OBVIOUS
<1>2. k * k \in Int /\ k * k # 0
    BY <1>1
<1>3. (k * k) * (k * k) \in Int /\ (k * k) * (k * k) # 0
    BY <1>1, <1>2
<1>4. e # 0 => 2 * e # 0
    OBVIOUS
<1>5. CASE e = 0
    BY <1>3, <1>5
<1>6. CASE e # 0
    BY <1>1, <1>3, <1>4, <1>6
<1> QED BY <1>5, <1>6

\* An outlet where no article is judged twice, and one where some article is.
LEMMA HowManyAreJudged ==
    ASSUME NEW s
    PROVE  /\ Judged(s) = {} => Cardinality(Judged(s)) = 0
           /\ Judged(s) # {} => Cardinality(Judged(s)) >= 2
<1>1. IsFiniteSet(Judged(s))
    BY FiniteJudgements
<1>2. ASSUME Judged(s) # {} PROVE Cardinality(Judged(s)) >= 2
    <2>1. PICK p \in Judged(s) : TRUE
        BY <1>2
    <2> DEFINE i == p[2]
               b == [a \in Judges(i) |-> <<a, i>>]
    <2>2. i \in Units(s)
        BY JudgedAre
    <2>3. {b[a] : a \in Judges(i)} \subseteq Judged(s)
        BY <2>2, JudgedAre
    <2>4. Cardinality({b[a] : a \in Judges(i)}) = Cardinality(Judges(i))
        <3>1. IsFiniteSet(Judges(i)) /\ \A x, y \in Judges(i) : b[x] = b[y] => x = y
            BY FiniteJudgements
        <3> HIDE DEF b
        <3> QED BY <3>1, CountRenamed
    <2>5. Cardinality({b[a] : a \in Judges(i)}) <= Cardinality(Judged(s))
        <3> HIDE DEF b
        <3> QED BY <1>1, <2>3, FS_Subset
    <2>6. Cardinality(Judges(i)) >= 2 /\ Cardinality(Judges(i)) \in Nat
        BY <2>2, WeightOfAnArticle
    <2>7. Cardinality(Judged(s)) \in Nat
        BY <1>1, FS_CardinalityType
    <2> HIDE DEF b, i
    <2> QED BY <2>4, <2>5, <2>6, <2>7
<1> QED BY <1>1, <1>2, FS_EmptySet

LEMMA AlphaOfTheMatrix ==
    ASSUME NEW s
    PROVE  Alpha(s) = Ratio(Coincidences(s), Marginals(Coincidences(s)))
<1> DEFINE r == Ratio(Coincidences(s), Marginals(Coincidences(s)))
<1>1. UNION {{Ratio(m, n) : n \in {Marginals(m)}} : m \in {Coincidences(s)}} = {r}
    <2> HIDE DEF r
    <2> SUFFICES ASSUME NEW x
                 PROVE  x \in UNION {{Ratio(m, n) : n \in {Marginals(m)}} : m \in {Coincidences(s)}} <=> x = r
        OBVIOUS
    <2> QED BY Zenon DEF r
<1>2. (CHOOSE alpha \in {r} : TRUE) = r
    <2> HIDE DEF r
    <2> QED OBVIOUS
<1> HIDE DEF r
<1> QED BY <1>1, <1>2 DEF Alpha, r

\* The agreement the job computes from the matrix of coincidences is that of the
\* pairs of judgements (krippendorff_alpha_ordinal), for any number of annotators,
\* articles and categories.
LEMMA AgreementFromPairs == AlphaIsPairwise
<1> SUFFICES ASSUME NEW s \in Source
             PROVE  IF Judged(s) = {} THEN Alpha(s) = <<0, -1>>
                    ELSE IF Across(s) = 0 THEN Alpha(s) = <<0, 0>>
                    ELSE Alpha(s)[1] * Scale * Across(s)
                         = Within(s) * (Cardinality(Judged(s)) - 1) * Alpha(s)[2]
    BY DEF AlphaIsPairwise
<1> DEFINE m == Coincidences(s)
           n == Marginals(m)
           j == Cardinality(Judged(s))
<1>1. Scale \in Nat \ {0}
    BY ConstantAssumption
<1>2. SumFunction(n) = Scale * j /\ j \in Nat
    BY TotalIsJudged
<1>3. Observed(m, n) = (Scale * Scale) * (2 * Within(s)) /\ Within(s) \in Int
    BY ObservedIsWithin
<1>4. Expected(n) = ((Scale * Scale) * (Scale * Scale)) * (2 * Across(s)) /\ Across(s) \in Int
    BY ExpectedIsAcross
<1>5. Alpha(s) = IF SumFunction(n) <= Scale THEN <<0, -1>>
                 ELSE IF Expected(n) = 0 THEN <<0, 0>>
                 ELSE <<Observed(m, n) * (SumFunction(n) - Scale), Expected(n)>>
    BY AlphaOfTheMatrix DEF Ratio
<1>6. (Judged(s) = {} => j = 0) /\ (Judged(s) # {} => j >= 2)
    BY HowManyAreJudged
<1> HIDE DEF m, n, j
<1>7. CASE Judged(s) = {}
    <2>1. SumFunction(n) <= Scale
        BY <1>1, <1>2, <1>6, <1>7
    <2> QED BY <1>5, <1>7, <2>1
<1>8. CASE Judged(s) # {}
    <2>1. ~ (SumFunction(n) <= Scale)
        <3>1. \A k, l \in Nat : k # 0 /\ l >= 2 => ~ (k * l <= k)
            OBVIOUS
        <3> QED BY <1>1, <1>2, <1>6, <1>8, <3>1
    <2>2. CASE Across(s) = 0
        <3>1. Expected(n) = 0
            BY <1>1, <1>4, <2>2, ZeroProduct
        <3> QED BY <1>5, <1>8, <2>1, <2>2, <3>1
    <2>3. CASE Across(s) # 0
        <3>1. Expected(n) # 0
            BY <1>1, <1>4, <2>3, ZeroProduct
        <3>2. Alpha(s) = <<Observed(m, n) * (SumFunction(n) - Scale), Expected(n)>>
            BY <1>5, <2>1, <3>1
        <3>3. /\ Alpha(s)[1] = ((Scale * Scale) * (2 * Within(s))) * (Scale * j - Scale)
              /\ Alpha(s)[2] = ((Scale * Scale) * (Scale * Scale)) * (2 * Across(s))
            BY <1>2, <1>3, <1>4, <3>2
        <3>4. (((Scale * Scale) * (2 * Within(s))) * (Scale * j - Scale)) * Scale * Across(s)
              = Within(s) * (j - 1) * (((Scale * Scale) * (Scale * Scale)) * (2 * Across(s)))
            BY <1>1, <1>2, <1>3, <1>4, RatioIsPairwise
        <3>5. Alpha(s)[1] * Scale * Across(s) = Within(s) * (j - 1) * Alpha(s)[2]
            BY <3>3, <3>4, Zenon
        <3> QED BY <1>8, <2>3, <3>5 DEF j
    <2> QED BY <2>2, <2>3
<1> QED BY <1>7, <1>8

-----------------------------------------------------------------------------
(* The annotators and their forms.                                         *)

\* The articles of an outlet an annotator has annotated or has before him.
InHand(a, s) == (Annotated(a) \cup form[a]) \cap Articles(s)

\* With what he has before him counted as done, no outlet is further ahead: that is
\* what the next offer does not look at.
BalancedWithForms ==
    \A a \in Annotator : \A s \in Source, t \in Available(a) :
        Cardinality(InHand(a, s)) <= Mine(a, t) + Forms

FewForms == \A a \in Annotator : Cardinality(form[a]) <= Forms

IInv == TypeOK /\ FewForms /\ BalancedWithForms

\* What is before an annotator is counted.
LEMMA FormsAreFew ==
    ASSUME TypeOK, NEW a \in Annotator
    PROVE  /\ IsFiniteSet(Annotated(a)) /\ IsFiniteSet(form[a])
           /\ Cardinality(form[a]) \in Nat
           /\ \A s : /\ Mine(a, s) \in Nat /\ IsFiniteSet(InHand(a, s))
                     /\ Cardinality(InHand(a, s)) \in Nat
                     /\ Mine(a, s) <= Cardinality(InHand(a, s))
                     /\ Cardinality(InHand(a, s)) <= Mine(a, s) + Cardinality(form[a])
<1>1. IsFiniteSet(Annotated(a)) /\ IsFiniteSet(form[a])
  BY ConstantAssumption, FS_Subset DEF Annotated, TypeOK
<1>2. Cardinality(form[a]) \in Nat
  BY <1>1, FS_CardinalityType
<1>3. ASSUME NEW s
      PROVE  /\ Mine(a, s) \in Nat /\ IsFiniteSet(InHand(a, s))
             /\ Cardinality(InHand(a, s)) \in Nat
             /\ Mine(a, s) <= Cardinality(InHand(a, s))
             /\ Cardinality(InHand(a, s)) <= Mine(a, s) + Cardinality(form[a])
  <2> DEFINE M == Annotated(a) \cap Articles(s)
             F == form[a] \cap Articles(s)
  <2>1. IsFiniteSet(M) /\ IsFiniteSet(F) /\ Cardinality(F) <= Cardinality(form[a])
    BY <1>1, FS_Subset
  <2>2. InHand(a, s) = M \cup F
    BY DEF InHand
  <2>3. IsFiniteSet(M \cup F) /\ IsFiniteSet(M \cap F)
    BY <2>1, FS_Union, FS_Intersection
  <2>4. Cardinality(M \cup F) = Cardinality(M) + Cardinality(F) - Cardinality(M \cap F)
    BY <2>1, FS_Union
  <2>5. Cardinality(M) <= Cardinality(M \cup F)
    BY <2>3, FS_Subset
  <2>6. /\ Cardinality(M) \in Nat /\ Cardinality(F) \in Nat
        /\ Cardinality(M \cup F) \in Nat /\ Cardinality(M \cap F) \in Nat
    BY <2>1, <2>3, FS_CardinalityType
  <2>7. Mine(a, s) = Cardinality(M)
    BY DEF Mine
  <2> QED
    BY <1>2, <2>1, <2>2, <2>3, <2>4, <2>5, <2>6, <2>7
<1> QED
  BY <1>1, <1>2, <1>3

LEMMA InitFairlyOffered == Init => IInv
<1> SUFFICES ASSUME Init PROVE IInv
  OBVIOUS
<1>1. TypeOK
  BY ConstantAssumption DEF Init, TypeOK, Answer, Status, Job
<1>2. FewForms
  BY ConstantAssumption, FS_EmptySet DEF Init, FewForms
<1>3. BalancedWithForms
  <2> SUFFICES ASSUME NEW a \in Annotator, NEW s \in Source, NEW t \in Available(a)
               PROVE  Cardinality(InHand(a, s)) <= Mine(a, t) + Forms
    BY DEF BalancedWithForms
  <2>1. InHand(a, s) = {}
    BY DEF InHand, Annotated, Init
  <2> QED
    BY <1>1, <2>1, FS_EmptySet, FormsAreFew, ConstantAssumption
<1> QED
  BY <1>1, <1>2, <1>3 DEF IInv

LEMMA NextKeepsTypes == TypeOK /\ [Next]_vars => TypeOK'
<1> SUFFICES ASSUME TypeOK, [Next]_vars PROVE TypeOK'
  OBVIOUS
<1>1. ASSUME NEW a \in Annotator, Offer(a) PROVE TypeOK'
  <2>1. PICK i \in Article : form' = [form EXCEPT ![a] = @ \cup {i}]
    BY <1>1 DEF Offer, Articles
  <2> QED
    BY <1>1, <2>1 DEF Offer, TypeOK
<1>2. ASSUME NEW a \in Annotator, NEW i \in Article, NEW v \in Opinion[a][i], Submit(a, i, v)
      PROVE  TypeOK'
  <2>1. v \in Answer
    BY ConstantAssumption DEF Answer
  <2> QED
    BY <1>2, <2>1 DEF Submit, TypeOK
<1>3. CASE Compute
  <2>1. job' \in Job
    BY <1>3 DEF Compute, Job, Status, TypeOK
  <2> QED
    BY <1>3, <2>1 DEF Compute, TypeOK
<1>4. CASE EndJob
  BY <1>4 DEF EndJob, TypeOK, Job
<1>5. CASE JobFails
  BY <1>5 DEF JobFails, TypeOK
<1>6. CASE CalmDown
  BY <1>6 DEF CalmDown, TypeOK
<1>7. CASE UNCHANGED vars
  BY <1>7 DEF vars, TypeOK
<1> QED
  BY <1>1, <1>2, <1>3, <1>4, <1>5, <1>6, <1>7 DEF Next

\* The guard of an offer is on the forms of all, so it holds of each.
LEMMA OfferLeavesRoom ==
    ASSUME TypeOK, NEW a \in Annotator, Offer(a)
    PROVE  Cardinality(form[a]) < Forms
<1> DEFINE open == [b \in Annotator |-> Cardinality(form[b])]
<1>1. open \in [Annotator -> Nat]
  BY FormsAreFew
<1>2. SumFunction(open) < Forms
  BY DEF Offer
<1>3. SumFunction(open) = SumFunctionOnSet(open, Annotator)
  BY <1>1 DEF SumFunction
<1>4. /\ SumFunctionOnSet(open, Annotator) \in Nat
      /\ open[a] <= SumFunctionOnSet(open, Annotator)
  <2> HIDE DEF open
  <2> QED
    BY <1>1, ConstantAssumption, SumNatural
<1>5. open[a] = Cardinality(form[a])
  OBVIOUS
<1> QED
  BY <1>1, <1>2, <1>3, <1>4, <1>5, ConstantAssumption

\* Nothing before the annotators changes but by an offer or an answer.
LEMMA FormsUntouched ==
    ASSUME IInv, UNCHANGED <<answer, form>>
    PROVE  FewForms' /\ BalancedWithForms'
BY DEF IInv, FewForms, BalancedWithForms, InHand, Mine, Available, Annotated

LEMMA OfferIsFair ==
    ASSUME IInv, NEW a \in Annotator, Offer(a)
    PROVE  FewForms' /\ BalancedWithForms'
<1>0. TypeOK
  BY DEF IInv
<1>1. PICK o \in Least(a) : \E i \in Articles(o) \ Annotated(a) :
          form' = [form EXCEPT ![a] = @ \cup {i}]
  BY DEF Offer
<1>2. PICK i \in Articles(o) \ Annotated(a) : form' = [form EXCEPT ![a] = @ \cup {i}]
  BY <1>1
<1>3. form'[a] = form[a] \cup {i} /\ \A b \in Annotator \ {a} : form'[b] = form[b]
  BY <1>0, <1>2 DEF TypeOK
<1>4. Cardinality(form[a]) < Forms /\ Cardinality(form[a]) \in Nat /\ IsFiniteSet(form[a])
  BY <1>0, OfferLeavesRoom, FormsAreFew
<1>5. Cardinality(form'[a]) <= Forms /\ Cardinality(form'[a]) \in Nat
  <2>1. /\ IsFiniteSet(form[a] \cup {i})
        /\ i \in form[a] => form[a] \cup {i} = form[a]
        /\ i \notin form[a] => Cardinality(form[a] \cup {i}) = Cardinality(form[a]) + 1
    BY <1>4, FS_AddElement
  <2>2. Cardinality(form[a] \cup {i}) <= Forms /\ Cardinality(form[a] \cup {i}) \in Nat
    <3> DEFINE open == Cardinality(form[a])
               after == Cardinality(form[a] \cup {i})
    <3>1. open \in Nat /\ Forms \in Nat /\ open < Forms
      BY <1>4, ConstantAssumption
    <3>2. after = open \/ after = open + 1
      BY <2>1
    <3> HIDE DEF open, after
    <3>3. after <= Forms /\ after \in Nat
      BY <3>1, <3>2
    <3> QED
      BY <3>3 DEF after
  <2> QED
    BY <1>3, <2>2
<1>6. answer' = answer
  BY DEF Offer
<1>7. /\ \A b : Annotated(b)' = Annotated(b) /\ Available(b)' = Available(b)
      /\ \A b, s : Mine(b, s)' = Mine(b, s)
  BY <1>6 DEF Annotated, Available, Mine
<1>8. FewForms'
  BY <1>3, <1>5 DEF FewForms, IInv
<1>9. ASSUME NEW b \in Annotator, NEW s \in Source, NEW t \in Available(b)
      PROVE  Cardinality(InHand(b, s)') <= Mine(b, t) + Forms
  <2>1. CASE b = a /\ s = o
    <3>1. InHand(a, s)' = (Annotated(a) \cap Articles(s)) \cup (form'[a] \cap Articles(s))
      BY <1>7 DEF InHand
    <3>2. IsFiniteSet(Annotated(a) \cap Articles(s)) /\ IsFiniteSet(form'[a])
      BY <1>0, <1>3, <1>4, FormsAreFew, FS_Subset, FS_AddElement
    <3>3. IsFiniteSet(form'[a] \cap Articles(s)) /\ Cardinality(form'[a] \cap Articles(s)) <= Cardinality(form'[a])
      BY <3>2, FS_Subset
    <3>4. Cardinality(InHand(a, s)') <= Mine(a, s) + Cardinality(form'[a] \cap Articles(s))
      <4>1. IsFiniteSet((Annotated(a) \cap Articles(s)) \cap (form'[a] \cap Articles(s)))
        BY <3>2, FS_Subset
      <4>2. Cardinality((Annotated(a) \cap Articles(s)) \cap (form'[a] \cap Articles(s))) \in Nat
        BY <4>1, FS_CardinalityType
      <4>3. /\ Cardinality(Annotated(a) \cap Articles(s)) \in Nat
            /\ Cardinality(form'[a] \cap Articles(s)) \in Nat
        BY <3>2, <3>3, FS_CardinalityType
      <4>4. Cardinality(InHand(a, s)')
                = Cardinality(Annotated(a) \cap Articles(s)) + Cardinality(form'[a] \cap Articles(s))
                  - Cardinality((Annotated(a) \cap Articles(s)) \cap (form'[a] \cap Articles(s)))
        BY <3>1, <3>2, <3>3, FS_Union
      <4> QED
        BY <4>2, <4>3, <4>4 DEF Mine
    <3>5. Mine(a, s) <= Mine(a, t) /\ Mine(a, s) \in Nat /\ Mine(a, t) \in Nat
      BY <1>0, <2>1, FormsAreFew DEF Least
    <3>6. Cardinality(InHand(a, s)') \in Nat /\ Cardinality(form'[a] \cap Articles(s)) \in Nat
      BY <3>1, <3>2, <3>3, FS_Union, FS_CardinalityType
    <3> QED
      BY <1>5, <2>1, <3>3, <3>4, <3>5, <3>6, ConstantAssumption
  <2>2. CASE b # a \/ s # o
    <3>1. InHand(b, s)' = InHand(b, s)
      BY <1>3, <1>7, <2>2 DEF InHand, Articles
    <3> QED
      BY <3>1 DEF IInv, BalancedWithForms
  <2> QED
    BY <2>1, <2>2
<1>10. BalancedWithForms'
  BY <1>7, <1>9 DEF BalancedWithForms
<1> QED
  BY <1>8, <1>10

LEMMA AnswerIsFair ==
    ASSUME IInv, NEW a \in Annotator, NEW i \in Article, NEW v \in Opinion[a][i], Submit(a, i, v)
    PROVE  FewForms' /\ BalancedWithForms'
<1>0. TypeOK
  BY DEF IInv
<1>1. v # NoAnswer
  BY ConstantAssumption
<1>2. /\ answer'[a][i] = v
      /\ \A b \in Annotator, j \in Article : b # a \/ j # i => answer'[b][j] = answer[b][j]
  BY <1>0 DEF Submit, TypeOK
<1>3. form'[a] = form[a] \ {i} /\ \A b \in Annotator \ {a} : form'[b] = form[b]
  BY <1>0 DEF Submit, TypeOK
<1>4. ASSUME NEW b \in Annotator
      PROVE  Annotated(b) \subseteq Annotated(b)' /\ Available(b)' \subseteq Available(b)
  BY <1>1, <1>2 DEF Annotated, Available, Articles
<1>5. ASSUME NEW b \in Annotator, NEW s
      PROVE  InHand(b, s)' \subseteq InHand(b, s)
  <2>1. CASE b = a
    <3>1. Annotated(a)' = Annotated(a) \cup {i}
      BY <1>1, <1>2 DEF Annotated
    <3>2. i \in Annotated(a) \cup form[a]
      BY DEF Submit
    <3> QED
      BY <1>3, <2>1, <3>1, <3>2 DEF InHand, Articles
  <2>2. CASE b # a
    BY <1>2, <1>3, <2>2 DEF InHand, Articles, Annotated
  <2> QED
    BY <2>1, <2>2
<1>6. ASSUME NEW b \in Annotator, NEW t
      PROVE  Mine(b, t) <= Mine(b, t)' /\ Mine(b, t) \in Nat /\ Mine(b, t)' \in Nat
  <2>1. IsFiniteSet(Annotated(b)')
    BY ConstantAssumption, FS_Subset DEF Annotated
  <2>2. Articles(t)' = Articles(t) /\ IsFiniteSet(Annotated(b)' \cap Articles(t))
    BY <2>1, FS_Subset DEF Articles
  <2>3. Annotated(b) \cap Articles(t) \subseteq Annotated(b)' \cap Articles(t)
    BY <1>4
  <2>4. Mine(b, t)' = Cardinality(Annotated(b)' \cap Articles(t))
    BY <2>2 DEF Mine
  <2>5. Mine(b, t) = Cardinality(Annotated(b) \cap Articles(t))
    BY DEF Mine
  <2>6. /\ Cardinality(Annotated(b) \cap Articles(t)) <= Cardinality(Annotated(b)' \cap Articles(t))
        /\ Cardinality(Annotated(b)' \cap Articles(t)) \in Nat
    BY <2>2, <2>3, FS_Subset, FS_CardinalityType
  <2>7. Mine(b, t) \in Nat
    BY <1>0, FormsAreFew
  <2> QED
    BY <2>4, <2>5, <2>6, <2>7
<1>7. FewForms'
  <2> SUFFICES ASSUME NEW b \in Annotator PROVE Cardinality(form'[b]) <= Forms
    BY DEF FewForms
  <2>1. Cardinality(form[b]) <= Forms /\ Cardinality(form[b]) \in Nat /\ IsFiniteSet(form[b])
    BY <1>0, FormsAreFew DEF IInv, FewForms
  <2>2. form'[b] \subseteq form[b]
    BY <1>3
  <2>3. Cardinality(form'[b]) <= Cardinality(form[b]) /\ Cardinality(form'[b]) \in Nat
    BY <2>1, <2>2, FS_Subset, FS_CardinalityType
  <2> QED
    BY <2>1, <2>3, ConstantAssumption
<1>8. BalancedWithForms'
  <2> SUFFICES ASSUME NEW b \in Annotator, NEW s \in Source, NEW t \in Available(b)'
               PROVE  Cardinality(InHand(b, s)') <= Mine(b, t)' + Forms
    BY DEF BalancedWithForms
  <2>1. Cardinality(InHand(b, s)) <= Mine(b, t) + Forms
    BY <1>4 DEF IInv, BalancedWithForms
  <2>2. IsFiniteSet(InHand(b, s)) /\ Cardinality(InHand(b, s)) \in Nat
    BY <1>0, FormsAreFew
  <2>3. Cardinality(InHand(b, s)') <= Cardinality(InHand(b, s)) /\ Cardinality(InHand(b, s)') \in Nat
    BY <1>5, <2>2, FS_Subset, FS_CardinalityType
  <2> QED
    BY <1>6, <2>1, <2>2, <2>3, ConstantAssumption
<1> QED
  BY <1>7, <1>8

LEMMA NextFairlyOffers == IInv /\ [Next]_vars => IInv'
<1> SUFFICES ASSUME IInv, [Next]_vars PROVE IInv'
  OBVIOUS
<1>1. TypeOK'
  BY NextKeepsTypes DEF IInv
<1>2. FewForms' /\ BalancedWithForms'
  <2>1. ASSUME NEW a \in Annotator, Offer(a) PROVE FewForms' /\ BalancedWithForms'
    BY <2>1, OfferIsFair
  <2>2. ASSUME NEW a \in Annotator, NEW i \in Article, NEW v \in Opinion[a][i], Submit(a, i, v)
        PROVE  FewForms' /\ BalancedWithForms'
    BY <2>2, AnswerIsFair
  <2>3. CASE UNCHANGED <<answer, form>>
    BY <2>3, FormsUntouched
  <2>4. (Compute \/ EndJob \/ JobFails \/ CalmDown \/ UNCHANGED vars) => UNCHANGED <<answer, form>>
    BY DEF Compute, EndJob, JobFails, CalmDown, vars
  <2> QED
    BY <2>1, <2>2, <2>3, <2>4 DEF Next
<1> QED
  BY <1>1, <1>2 DEF IInv

\* The invariant from which the sampling is shown to be stratified.
THEOREM AnnotationInvariant == Spec => []IInv
<1>1. Init => IInv
  BY InitFairlyOffered
<1>2. IInv /\ [Next]_vars => IInv'
  BY NextFairlyOffers
<1> QED
  BY <1>1, <1>2, PTL DEF Spec

\* Answers, forms, labels and what the job has found are always of their kind.
THEOREM AnnotationTypes == Spec => []TypeOK
<1>1. IInv => TypeOK
  BY DEF IInv
<1> QED
  BY <1>1, AnnotationInvariant, PTL

\* _pick_article offers an article of the outlet annotated least, and by then the
\* annotator may have other forms open: he never gets further ahead with an outlet than
\* by the forms he may have, over one he could have been offered instead.
THEOREM SamplingIsStratified == Spec => []Balanced
<1>1. IInv => Balanced
  <2> SUFFICES ASSUME IInv, NEW a \in Annotator, NEW s \in Source, NEW t \in Available(a)
               PROVE  Mine(a, s) <= Mine(a, t) + Forms
    BY DEF Balanced
  <2>1. Cardinality(InHand(a, s)) <= Mine(a, t) + Forms
    BY DEF IInv, BalancedWithForms
  <2>2. /\ Mine(a, s) <= Cardinality(InHand(a, s)) /\ Mine(a, s) \in Nat /\ Mine(a, t) \in Nat
        /\ Cardinality(InHand(a, s)) \in Nat
    BY FormsAreFew DEF IInv
  <2> QED
    BY <2>1, <2>2, ConstantAssumption
<1> QED
  BY <1>1, AnnotationInvariant, PTL

\* krippendorff_alpha_ordinal counts coincidences in a matrix; what it returns is, for
\* any annotators, articles and answers, the alpha of the pairs of judgements.
THEOREM AgreementIsPairwise == Spec => []AlphaIsPairwise
<1>1. AlphaIsPairwise
  BY AgreementFromPairs
<1> QED
  BY <1>1, PTL
=============================================================================
