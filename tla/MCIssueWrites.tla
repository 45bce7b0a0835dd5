---------------------------- MODULE MCIssueWrites ----------------------------
(* Calls that share the key of a create and the key of an update or of a link. *)
EXTENDS IssueWrites, TLC

CONSTANTS c1, c2, c3, s1, k1, k2, k3

MCSymmetry == Permutations(Calls)
MCTwoCalls == {c1, c2}
MCThreeCalls == {c1, c2, c3}
MCOneSweep == {s1}
MCOneKey == {k1}
MCTwoKeys == {k1, k2}
MCThreeKeys == {k1, k2, k3}
MCActions == [k \in Keys |-> IF k = k1 THEN "create" ELSE IF k = k2 THEN "update" ELSE "link"]
==============================================================================
