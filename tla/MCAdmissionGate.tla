--------------------------- MODULE MCAdmissionGate ---------------------------
(* Five tasks, two agents, two projects.  t1 and t2 touch the same files; p1's  *)
(* level is above a1's hard cap, p2's is below it.                             *)
EXTENDS AdmissionGate

CONSTANTS t1, t2, t3, t4, t5, a1, a2, p1, p2

MCTasks == {t1, t2, t3, t4, t5}
MCAgentOf == [t \in MCTasks |-> IF t = t3 THEN a2 ELSE a1]
MCProjectOf == [t \in MCTasks |-> IF t \in {t4, t5} THEN p2 ELSE p1]
MCHardCap == [a \in {a1, a2} |-> IF a = a1 THEN 2 ELSE 1]
MCLevel == [p \in {p1, p2} |-> IF p = p1 THEN 5 ELSE 1]
MCProjectLimit == [p \in {p1, p2} |-> IF p = p1 THEN 2 ELSE 0]
MCDailyCap == [p \in {p1, p2} |-> IF p = p1 THEN 2 ELSE 0]
MCOverlaps == {<<t1, t2>>, <<t2, t1>>}
==============================================================================
