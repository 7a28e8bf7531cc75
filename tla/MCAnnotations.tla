--------------------------- MODULE MCAnnotations ---------------------------
(* Annotations for TLC: three annotators of two orientations, an outlet     *)
(* with two articles and one with one.                                      *)
EXTENDS Annotations

CONSTANTS anna, bob, carl, flood, vote, strike, gazette, herald

MCAnnotator == {anna, bob, carl}
MCArticle == {flood, vote, strike}
MCSource == {gazette, herald}
MCSourceOf == [i \in MCArticle |-> IF i = strike THEN herald ELSE gazette]
MCBucket == [a \in MCAnnotator |-> IF a = carl THEN "piu" ELSE "meno"]
MCCategory == {-1, 0, 1}
MCOpinion == [a \in MCAnnotator |-> [i \in MCArticle |->
                IF i = strike THEN {0}
                ELSE IF a = bob THEN {-1}
                ELSE {IF i = vote THEN -1 ELSE IF a = anna THEN 1 ELSE 0, NotApplicable}]]
MCMinAlpha == <<3, 5>>
=============================================================================
