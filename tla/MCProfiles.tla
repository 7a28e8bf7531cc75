----------------------------- MODULE MCProfiles -----------------------------
(* Profiles for TLC: outlets of a small catalogue, pages of one are opened. *)
EXTENDS Profiles, Registry

CONSTANTS gazette, herald

MCTwo == {gazette, herald}
MCId == [s \in MCTwo |-> IF s = gazette THEN 1 ELSE 2]
MCFirst == {gazette}
=============================================================================
