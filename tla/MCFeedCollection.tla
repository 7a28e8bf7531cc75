-------------------------- MODULE MCFeedCollection --------------------------
(* FeedCollection for TLC: one feed of the catalogue and one address        *)
(* autodiscovery can find for it; the periodic round and the seed.          *)
EXTENDS FeedCollection, TLC

CONSTANTS catalogue, alternative, periodic, seed

MCFeed == {catalogue}
MCAddress == {catalogue, alternative}
MCCandidates == [f \in MCFeed |-> MCAddress]
MCKinds == (catalogue :> {"feed", "page", "down"})
           @@ (alternative :> {"filtered", "gone"})
MCRound == {periodic, seed}
MCRetryAll == {seed}
MCPeriodic == {periodic}
=============================================================================
