---------------------------- MODULE MCFullTexts ----------------------------
(* FullTexts for TLC: the job and two coroutines of a round of feeds that  *)
(* look for the feeds of one site; four articles of one site, the newest   *)
(* without a text, the oldest redirecting out of the allowlist.            *)
EXTENDS FullTexts

CONSTANTS texts, home1, home2, site

MCCaller == {texts, home1, home2}
MCCache == {"job", "round"}
MCCacheOf == [t \in MCCaller |-> IF t = texts THEN "job" ELSE "round"]
MCServer == {site}
MCHomeOf == [t \in {home1, home2} |-> site]
MCSiteOf == [a \in 1 .. 4 |-> site]
MCMoved == {1}
MCBlank == {4}
=============================================================================
