------------------------------ MODULE WriteOnce ------------------------------
(***************************************************************************)
(* What the ledger of delegated issue writes promises (the header of       *)
(* src/main/issue-writes.ts): under one idempotency key GitHub carries out *)
(* at most one write, whatever the number of requests, and 21x records it  *)
(* as done, and gives it its local effects (the link on the task, the      *)
(* journal), only when GitHub shows what was asked for, and once.          *)
(***************************************************************************)
EXTENDS Integers

CONSTANTS Keys, Action                \* Action: key -> "create", "update" or "link"

VARIABLES
    made,         \* key -> how many writes GitHub carried out under it
    shown,        \* key -> GitHub shows what the key asks for
    recorded,     \* key -> the ledger says it is done
    applied       \* key -> how many times its local effects were applied

Init ==
    /\ made = [k \in Keys |-> 0]
    /\ shown = [k \in Keys |-> Action[k] = "link"]
    /\ recorded = [k \in Keys |-> FALSE]
    /\ applied = [k \in Keys |-> 0]

Make(k) ==
    /\ made[k] = 0
    /\ made' = [made EXCEPT ![k] = 1]
    /\ shown' = [shown EXCEPT ![k] = TRUE]
    /\ UNCHANGED <<recorded, applied>>

\* A person gives the issue the very content an update asks for.
Anticipate(k) ==
    /\ Action[k] = "update"
    /\ shown' = [shown EXCEPT ![k] = TRUE]
    /\ UNCHANGED <<made, recorded, applied>>

\* The ledger takes the keys of new as done, and the effects of those of done.
Account(new, done) ==
    /\ \A k \in new : shown[k]
    /\ \A k \in done : (recorded[k] \/ k \in new) /\ applied[k] = 0
    /\ recorded' = [k \in Keys |-> recorded[k] \/ k \in new]
    /\ applied' = [k \in Keys |-> applied[k] + (IF k \in done THEN 1 ELSE 0)]
    /\ UNCHANGED <<made, shown>>

Next ==
    \/ \E k \in Keys : Make(k) \/ Anticipate(k)
    \/ \E new, done \in SUBSET Keys : Account(new, done)

Spec == Init /\ [][Next]_<<made, shown, recorded, applied>>
==============================================================================
