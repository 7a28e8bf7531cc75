-------------------------- MODULE MCAdministration --------------------------
(* Administration for TLC: a process that serves pages, one at a time, and  *)
(* the worker; two administrators, a switch, which every form sets, and a   *)
(* number, which a form may leave empty.                                    *)
EXTENDS Administration

CONSTANTS enable_llm, cluster_window_hours, on, off, short, long,
          web, worker, page, anna, bob

MCPerson == {anna, bob}
MCKey == {enable_llm, cluster_window_hours}
MCValue == {on, off, short, long}
MCAllowed == [k \in MCKey |-> IF k = enable_llm THEN {on, off} ELSE {short, long}]
MCDefault == [k \in MCKey |-> IF k = enable_llm THEN off ELSE long]
MCForm == {[k \in MCKey |-> IF k = enable_llm THEN on ELSE Blank],
           [k \in MCKey |-> IF k = enable_llm THEN off ELSE short]}
MCWeb == {web}
MCScheduled == {worker}
MCPage == {page}
MCServedBy == [g \in MCPage |-> web]
=============================================================================
