---------------------------- MODULE Annotations ----------------------------
(***************************************************************************)
(* The blind annotation and the labels that come of it                     *)
(* (routers/annotate.py, core/bias/annotation.py, core/bias/signals.py).   *)
(*                                                                         *)
(* An annotator is offered an article of the outlet he has annotated       *)
(* least, and may have several forms open; what he answers replaces what   *)
(* he had answered.  The weekly job goes through the outlets with          *)
(* annotations and says of each whether its label is published: enough     *)
(* articles, enough annotators, of two orientations at least, and an       *)
(* agreement (Krippendorff's alpha, ordinal) not below the minimum.        *)
(*                                                                         *)
(* One axis is modelled of two alike.  Alpha is kept as the ratio          *)
(* 1 - num / den, over integers: coincidences times Scale, distances       *)
(* times two before they are squared.                                      *)
(***************************************************************************)
EXTENDS Integers, FiniteSets, Functions

CONSTANTS
    Annotator, Article, Source,
    SourceOf,           \* SourceOf[i]: the outlet of an article
    Bucket,             \* Bucket[a]: where an annotator says he stands
    Category,           \* the values of the axis, -2 .. 2
    Opinion,            \* bound: Opinion[a][i], what an annotator may answer
    Forms,              \* bound: the forms open at once
    MinArticles, MinAnnotators,
    MinAlpha,           \* a ratio: <<3, 5>> for 0.6
    Scale,              \* coincidences are counted in units of 1 / Scale
    NotApplicable, NoAnswer, NoJob

Answer == Category \cup {NotApplicable, NoAnswer}
Status == {"none", "in valutazione", "pubblicata"}
Job == [Source -> Status]

ASSUME ConstantAssumption ==
    /\ SourceOf \in [Article -> Source] /\ Category \subseteq Int
    /\ NotApplicable \notin Category /\ NoAnswer \notin Category \cup {NotApplicable}
    /\ \A a \in Annotator, i \in Article : Opinion[a][i] \subseteq Category \cup {NotApplicable}
    /\ NoJob \notin Job /\ Forms \in Nat \ {0}
    /\ IsFiniteSet(Annotator) /\ IsFiniteSet(Article) /\ IsFiniteSet(Category)
    /\ Scale \in Nat \ {0}
    /\ \A n \in 1 .. (Cardinality(Annotator) - 1) : (Scale \div n) * n = Scale

VARIABLES
    answer,     \* answer[a][i]: the row of Annotation
    form,       \* form[a]: the articles an annotator has before him
    label,      \* label[s]: the latest signal of an outlet
    job,        \* signals_job: the labels it has found and not committed
    calm        \* no more answers, the job does not fail

vars == <<answer, form, label, job, calm>>

TypeOK ==
    /\ answer \in [Annotator -> [Article -> Answer]]
    /\ form \in [Annotator -> SUBSET Article]
    /\ label \in [Source -> Status]
    /\ job \in Job \cup {NoJob}
    /\ calm \in BOOLEAN

Init ==
    /\ answer = [a \in Annotator |-> [i \in Article |-> NoAnswer]]
    /\ form = [a \in Annotator |-> {}]
    /\ label = [s \in Source |-> "none"]
    /\ job = NoJob
    /\ calm = FALSE

Articles(s) == {i \in Article : SourceOf[i] = s}
Annotated(a) == {i \in Article : answer[a][i] # NoAnswer}
Judges(i) == {a \in Annotator : answer[a][i] \in Category}

-----------------------------------------------------------------------------
(* Agreement: krippendorff_alpha_ordinal on the articles of an outlet.     *)

Units(s) == {i \in Articles(s) : Cardinality(Judges(i)) >= 2}

Pairs(i, c, d) == {p \in Judges(i) \X Judges(i) :
                      p[1] # p[2] /\ answer[p[1]][i] = c /\ answer[p[2]][i] = d}

\* What a pair of judgements of an article counts for, in units of 1 / Scale.
Weight(i) == Scale \div (Cardinality(Judges(i)) - 1)

Coincidences(s) ==
    [p \in Category \X Category |->
        SumFunction([i \in Units(s) |-> Cardinality(Pairs(i, p[1], p[2])) * Weight(i)])]

\* A variant of Distance for values without an order.
DistanceNominal(n, c, d) == IF c = d THEN 0 ELSE 1

Amid(c, d) == {g \in Category : (c <= g /\ g <= d) \/ (d <= g /\ g <= c)}

Distance(n, c, d) ==
    LET steps == IF c = d THEN 0 ELSE 2 * SumFunctionOnSet(n, Amid(c, d)) - n[c] - n[d]
    IN  steps * steps

Marginals(m) == [c \in Category |-> SumFunction([d \in Category |-> m[<<c, d>>]])]

Observed(m, n) == SumFunction([p \in Category \X Category |-> m[p] * Distance(n, p[1], p[2])])
Expected(n) ==
    SumFunction([p \in Category \X Category |-> n[p[1]] * n[p[2]] * Distance(n, p[1], p[2])])

\* <<num, den>>; den is 0 if there is nothing to disagree about, and num is then 0;
\* <<0, -1>> if nothing is judged twice.
Ratio(m, n) ==
    LET total == SumFunction(n)
        expected == Expected(n)
    IN  IF total <= Scale THEN <<0, -1>>
        ELSE IF expected = 0 THEN <<0, 0>>
        ELSE <<Observed(m, n) * (total - Scale), expected>>

\* The sets of one element have TLC compute the matrix once.
Alpha(s) == CHOOSE alpha \in UNION {{Ratio(m, n) : n \in {Marginals(m)}} : m \in {Coincidences(s)}} : TRUE

Agreed(alpha) ==
    /\ alpha[2] # -1
    /\ (alpha[2] - alpha[1]) * MinAlpha[2] >= MinAlpha[1] * alpha[2]

-----------------------------------------------------------------------------
(* The label: aggregate_source_annotation.                                 *)

Judgements(s) == {p \in Annotator \X Articles(s) : answer[p[1]][p[2]] \in Category}
Judging(s) == {p[1] : p \in Judgements(s)}
Buckets(s) == {Bucket[a] : a \in Judging(s)}

Publishable(s) ==
    /\ Cardinality({p[2] : p \in Judgements(s)}) >= MinArticles
    /\ Cardinality(Judging(s)) >= MinAnnotators
    /\ Cardinality(Buckets(s)) >= 2
    /\ \E alpha \in {Alpha(s)} : Agreed(alpha)

Of(s, b) == {p \in Judgements(s) : Bucket[p[1]] = b}
Total(js) == SumFunction([p \in js |-> answer[p[1]][p[2]]])

\* The mean of the means of the orientations, over their common denominator.
Mean(s) ==
    LET count(b) == Cardinality(Of(s, b))
        product == FoldFunction(LAMBDA m, n : m * n, 1, [b \in Buckets(s) |-> count(b)])
    IN  <<SumFunction([b \in Buckets(s) |-> Total(Of(s, b)) * (product \div count(b))]),
          product * Cardinality(Buckets(s))>>

-----------------------------------------------------------------------------
(* Annotating.                                                             *)

Mine(a, s) == Cardinality(Annotated(a) \cap Articles(s))
Available(a) == {s \in Source : \E i \in Articles(s) : answer[a][i] = NoAnswer}

Least(a) == {s \in Available(a) : \A t \in Available(a) : Mine(a, s) <= Mine(a, t)}

\* _pick_article.
Offer(a) ==
    /\ SumFunction([b \in Annotator |-> Cardinality(form[b])]) < Forms
    /\ \E s \in Least(a) : \E i \in Articles(s) \ Annotated(a) :
          form' = [form EXCEPT ![a] = @ \cup {i}]
    /\ UNCHANGED <<answer, label, job, calm>>

\* Both axes of a form, whether or not the article was annotated before.
Submit(a, i, v) ==
    /\ i \in form[a] \/ i \in Annotated(a)
    /\ ~ calm
    /\ answer' = [answer EXCEPT ![a][i] = v]
    /\ form' = [form EXCEPT ![a] = @ \ {i}]
    /\ UNCHANGED <<label, job, calm>>

-----------------------------------------------------------------------------
(* The weekly job: compute_annotation_signals.                             *)

\* A variant of Concerned for outlets with a judgement.
ConcernedByJudgement == {s \in Source : Judgements(s) # {}}

Concerned == {s \in Source : \E a \in Annotator : Annotated(a) \cap Articles(s) # {}}

\* What the job finds; outlets do not depend on each other.
Compute ==
    /\ job = NoJob
    /\ job' = [s \in Source |-> IF s \notin Concerned THEN label[s]
                               ELSE IF Publishable(s) THEN "pubblicata" ELSE "in valutazione"]
    /\ UNCHANGED <<answer, form, label, calm>>

\* The signals of all outlets in one transaction.
EndJob ==
    /\ job # NoJob
    /\ label' = job
    /\ job' = NoJob
    /\ UNCHANGED <<answer, form, calm>>

JobFails ==
    /\ job # NoJob /\ ~ calm
    /\ job' = NoJob
    /\ UNCHANGED <<answer, form, label, calm>>

CalmDown ==
    /\ ~ calm /\ calm' = TRUE
    /\ UNCHANGED <<answer, form, label, job>>

Next ==
    \/ \E a \in Annotator :
          \/ Offer(a)
          \/ \E i \in Article : \E v \in Opinion[a][i] : Submit(a, i, v)
    \/ Compute \/ EndJob \/ JobFails
    \/ CalmDown

Spec == Init /\ [][Next]_vars

\* The job is run every week, and annotators do not change their minds for ever.
FairSpec ==
    /\ Spec
    /\ WF_vars(CalmDown)
    /\ WF_vars(Compute \/ EndJob)

-----------------------------------------------------------------------------
(* Safety.                                                                 *)

\* No outlet gets ahead of another an annotator could have annotated instead by
\* more than the forms he has open: the sampling stays stratified.
Balanced ==
    \A a \in Annotator : \A s \in Source, t \in Available(a) : Mine(a, s) <= Mine(a, t) + Forms

\* The judgements that count: those of articles judged twice.
Judged(s) == {p \in Judgements(s) : p[2] \in Units(s)}
JudgedOf(s, i) == {p \in Judged(s) : p[2] = i}
ValueOf(p) == answer[p[1]][p[2]]
Taken(s) == [c \in Category |-> Cardinality({p \in Judged(s) : ValueOf(p) = c})]

\* How far two judgements are from each other, counted once.
Apart(s) ==
    LET n == Taken(s)
        steps(c, d) == 2 * SumFunctionOnSet(n, (c .. d) \cap Category) - n[c] - n[d]
    IN  [pq \in Judged(s) \X Judged(s) |->
            IF ValueOf(pq[1]) >= ValueOf(pq[2]) THEN 0
            ELSE steps(ValueOf(pq[1]), ValueOf(pq[2])) * steps(ValueOf(pq[1]), ValueOf(pq[2]))]

\* Those of one article, weighed, and those of any two.
Within(s) ==
    SumFunction([i \in Units(s) |-> SumFunctionOnSet(Apart(s), JudgedOf(s, i) \X JudgedOf(s, i)) * Weight(i)])
Across(s) == SumFunction(Apart(s))

\* Alpha from the matrix of coincidences is alpha from the pairs of judgements, and
\* a judgement nobody shares counts in neither.
AlphaIsPairwise ==
    \A s \in Source :
        LET alpha == Alpha(s)
            across == Across(s)
        IN  IF Judged(s) = {} THEN alpha = <<0, -1>>
            ELSE IF across = 0 THEN alpha = <<0, 0>>
            ELSE alpha[1] * Scale * across = Within(s) * (Cardinality(Judged(s)) - 1) * alpha[2]

\* Where those of one orientation all say the same, the label is midway between the
\* orientations, however many spoke for each.
OrientationsWeighAlike ==
    \A s \in Source :
        (Judgements(s) # {} /\ \A p, q \in Judgements(s) :
            Bucket[p[1]] = Bucket[q[1]] => answer[p[1]][p[2]] = answer[q[1]][q[2]])
        => LET says == {<<Bucket[p[1]], answer[p[1]][p[2]]>> : p \in Judgements(s)}
           IN  Mean(s)[1] * Cardinality(says)
               = SumFunction([x \in says |-> x[2]]) * Mean(s)[2]

(* Liveness.                                                               *)

\* What is shown of an outlet follows its annotations, those withdrawn and those
\* changed while the job was at work included: no label outlives its reasons.
LabelsFollow ==
    <>[](\A s \in Source : label[s] = "pubblicata" <=> Publishable(s))

(* What documents say.                                                     *)

\* "etichette pubblicate nascano dall'accordo tra annotatori con orientamenti
\* diversi".
AgreementOfOrientations ==
    \A s \in Source : Publishable(s) =>
        \E i \in Articles(s), a, b \in Annotator :
            {a, b} \subseteq Judges(i) /\ Bucket[a] # Bucket[b]
=============================================================================
