---------------------------- MODULE MCCaptainWaker ----------------------------
(* A small instance of CaptainWaker: two events of one task. *)
EXTENDS CaptainWaker

CONSTANTS f1, f2, t1

MCFacts == {f1, f2}
MCTasks == {t1}
MCTaskOf == [f \in MCFacts |-> t1]

===============================================================================
