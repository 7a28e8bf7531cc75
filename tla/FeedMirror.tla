----------------------------- MODULE FeedMirror -----------------------------
(***************************************************************************)
(* What the rest of the program may count on of the collection of feeds:   *)
(* what is stored of a feed was published, at an address of that feed, and *)
(* is never lost; what a site is told we have is what was stored last;     *)
(* and, as long as one round runs at a time, nothing is stored of an       *)
(* address that is older than what is stored of it already.                *)
(***************************************************************************)
EXTENDS Naturals

CONSTANTS Feed, Address, AddressesOf, Nothing

VARIABLES
    published,  \* published[a]: how often a was published
    mirror,     \* mirror[f]: the contents stored of f
    known,      \* known[f]: what a site is told of it, or Nothing
    crowded     \* rounds have run side by side

mirrored == <<published, mirror, known, crowded>>

Init ==
    /\ published = [a \in Address |-> 1]
    /\ mirror = [f \in Feed |-> {}] /\ known = [f \in Feed |-> Nothing]
    /\ crowded = FALSE

Publish(a) ==
    /\ published' = [published EXCEPT ![a] = @ + 1]
    /\ UNCHANGED <<mirror, known, crowded>>

\* The transaction that stores a download.
Copy(f) ==
    \E a \in AddressesOf[f] : \E v \in 1 .. published[a] :
        /\ ~ crowded => \A old \in mirror[f] : old.from = a => old.version <= v
        /\ mirror' = [mirror EXCEPT ![f] = @ \cup {[from |-> a, version |-> v]}]
        /\ known' = [known EXCEPT ![f] = [from |-> a, version |-> v]]
        /\ UNCHANGED <<published, crowded>>

Crowd == crowded' = TRUE /\ UNCHANGED <<published, mirror, known>>

Next == Crowd \/ (\E a \in Address : Publish(a)) \/ \E f \in Feed : Copy(f)

Spec == Init /\ [][Next]_mirrored
=============================================================================
