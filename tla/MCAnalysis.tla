----------------------------- MODULE MCAnalysis -----------------------------
(* Analysis for TLC: three Italian outlets and four of other countries, a   *)
(* story the Italians follow and one they may miss.                         *)
EXTENDS Analysis

CONSTANTS ansa, agi, rai, bbc, monde, welt, pais, it, uk, fr, de, es, quake, vote, senate

MCStory == {quake, vote}
MCSource == {ansa, agi, rai, bbc, monde, welt, pais}
MCCountry == {it, uk, fr, de, es}
MCLabel == {senate}
MCCountryOf == [s \in MCSource |-> CASE s = bbc -> uk [] s = monde -> fr [] s = welt -> de [] s = pais -> es
                                            [] OTHER -> it]
MCMentions == [l \in MCLabel |-> {ansa, agi, rai} \X {vote}]
MCEarly == ({ansa, agi, rai} \X {vote}) \cup ({bbc, monde, welt, pais} \X {quake})
MCArrivals == {<<bbc, vote>>, <<ansa, quake>>}
MCWindow == [j \in Judge |-> IF j = "signals" THEN 2 ELSE 1]
MCAges == [st \in MCStory |-> IF st = vote THEN 1 .. 2 ELSE 0 .. 1]
MCRank == [c \in MCCountry |-> CASE c = it -> 1 [] c = uk -> 2 [] c = fr -> 3 [] c = de -> 4
                                         [] OTHER -> 5]
MCAlpha == <<1, 5>>
MCThreshold == <<1, 2>>
=============================================================================
