------------------------------ MODULE Grouping ------------------------------
(***************************************************************************)
(* What the rest of the program may count on of the clustering while one   *)
(* round runs at a time: an article that has arrived gets a story in one   *)
(* transaction, with others or alone, and keeps it; a story becomes        *)
(* "lampo" only with an article that joins it, and stays so.               *)
(***************************************************************************)
CONSTANTS Article, Story, NoStory

VARIABLES
    arrived,    \* the articles stored
    of,         \* of[a]: the story of an article, or NoStory
    lampo       \* the stories that are lampo

grouping == <<arrived, of, lampo>>

Init == arrived = {} /\ of = [a \in Article |-> NoStory] /\ lampo = {}

\* A transaction of the collection.
Collect(a) ==
    /\ a \notin arrived /\ arrived' = arrived \cup {a}
    /\ UNCHANGED <<of, lampo>>

\* The commit of a round: the articles in new go each to a story.
Group ==
    \E new \in SUBSET {a \in arrived : of[a] = NoStory} : \E to \in [new -> Story] :
        /\ of' = [a \in Article |-> IF a \in new THEN to[a] ELSE of[a]]
        /\ \E hasty \in SUBSET {to[a] : a \in new} : lampo' = lampo \cup hasty
        /\ UNCHANGED arrived

Next == Group \/ \E a \in Article : Collect(a)

Spec == Init /\ [][Next]_grouping
=============================================================================
