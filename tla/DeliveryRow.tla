------------------------------ MODULE DeliveryRow ------------------------------
(***************************************************************************)
(* One row of delivery_outbox for a message to a task's agent, and what    *)
(* each operation of DeliveryStore does to it                              *)
(* (src/main/sessions/delivery-store.ts).                                  *)
(*                                                                         *)
(* Timestamps are reduced to what the WHERE clauses ask of them: whether   *)
(* the claim's lease has run out.  An owner is the process that claimed:   *)
(* the one that runs, or one that died.                                    *)
(***************************************************************************)
EXTENDS Naturals

DeliveryStates == {"pending", "claimed", "accepted", "acknowledged", "failed", "timed_out",
                   "cancelled"}
EndStates == {"acknowledged", "failed", "timed_out", "cancelled"}

Rows == [state : DeliveryStates \cup {"absent"}, owner : {"none", "current", "dead"},
         expired : BOOLEAN, attempts : Nat]
NoRow == [state |-> "absent", owner |-> "none", expired |-> FALSE, attempts |-> 0]

\* enqueue: INSERT OR IGNORE under the idempotency key, so the first one wins.
Enqueued(r) == IF r.state = "absent" THEN [r EXCEPT !.state = "pending"] ELSE r

\* claim, and the rows listRecoverable returns.
IsPending(r) == \* slip
    r.state = "pending"
IsClaimable(r) == r.state = "pending" \/ (r.state = "claimed" /\ r.expired)
IsRecoverable(r) == IsClaimable(r) \/ r.state = "accepted"
Claimed(r) ==
    [state |-> "claimed", owner |-> "current", expired |-> FALSE, attempts |-> r.attempts + 1]

\* accept, acknowledge and release count for the claim's owner only.
IsOwned(r) == r.state = "claimed" /\ r.owner = "current"
Accepted(r) == IF IsOwned(r) THEN [r EXCEPT !.state = "accepted"] ELSE r
Acknowledged(r) ==
    IF r.state \in {"claimed", "accepted"}
    THEN [r EXCEPT !.state = "acknowledged", !.owner = "none", !.expired = FALSE] ELSE r
AcknowledgedByOwner(r) == IF r.owner = "current" THEN Acknowledged(r) ELSE r
Released(r) ==
    IF IsOwned(r) THEN [r EXCEPT !.state = "pending", !.owner = "none", !.expired = FALSE] ELSE r

\* terminal: from every state that is not an end, whoever owns the row.
Ended(r, state) ==
    IF r.state \in EndStates \cup {"absent"} THEN r
    ELSE [r EXCEPT !.state = state, !.owner = "none", !.expired = FALSE]

\* cancelUnacceptedForTask
Withdrawn(r) == IF r.state \in {"pending", "claimed"} THEN Ended(r, "cancelled") ELSE r

\* reopen: only what ran out of attempts, and with a full new set.
Reopened(r) == IF r.state = "failed" THEN [r EXCEPT !.state = "pending", !.attempts = 0] ELSE r

\* What a process that dies leaves behind: its claims, owned by nobody alive.
AfterCrash(r) == IF r.owner = "current" THEN [r EXCEPT !.owner = "dead"] ELSE r
================================================================================
