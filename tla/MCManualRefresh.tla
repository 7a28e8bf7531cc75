--------------------------- MODULE MCManualRefresh ---------------------------
(* ManualRefresh for TLC: no work or one item, three groups of domains for    *)
(* the manual round and one for the scheduler's.                              *)
EXTENDS ManualRefresh

CONSTANTS click1, click2

MCClick == {click1, click2}
MCOtherKind == {}
MCSizes == {0, 1}
MCGroupsFor == [c \in MCClick \cup {Scheduler} |-> IF c = Scheduler THEN {1} ELSE {3}]
=============================================================================
