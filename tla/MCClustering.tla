---------------------------- MODULE MCClustering ----------------------------
(* Clustering for TLC: articles of two outlets that do not come in the order  *)
(* of their times; 2 and 3 are of the same hours, 1 and 3 have only 2 in      *)
(* common, 4 is among the newest and always raises, 5 continues 1 later.      *)
EXTENDS Clustering, TLC

CONSTANTS corriere, post, scheduled

MCArticle == 1 .. 5
MCSource == {corriere, post}
MCSourceOf == 1 :> corriere @@ 2 :> post @@ 3 :> corriere @@ 4 :> post @@ 5 :> post
MCTimeOf == 1 :> 4 @@ 2 :> 1 @@ 3 :> 2 @@ 4 :> 3 @@ 5 :> 6
Both(pairs) == pairs \cup {<<p[2], p[1]>> : p \in pairs}
MCResembles == Both({<<1, 2>>, <<2, 3>>, <<1, 5>>})
MCRound == {scheduled}
MCIndigestible == {4}
=============================================================================
