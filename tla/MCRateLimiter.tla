---------------------------- MODULE MCRateLimiter ---------------------------
(* RateLimiter for TLC: three coroutines of one job, two hosts.               *)
EXTENDS RateLimiter, TLC

CONSTANTS feed1, feed2, feed3, feeds, site, gdelt

MCCoroutine == {feed1, feed2, feed3}
MCLimiter == {feeds}
MCLimiterOf == [t \in MCCoroutine |-> feeds]
MCHost == {site, gdelt}
MCInterval == site :> 2 @@ gdelt :> 3
=============================================================================
