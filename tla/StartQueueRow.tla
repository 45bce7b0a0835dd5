---------------------------- MODULE StartQueueRow ----------------------------
(***************************************************************************)
(* One row of the durable start queue (table agent_start_queue) and the    *)
(* operations DurableStartQueueStore offers on it                          *)
(* (src/main/sessions/start-queue-store.ts).  Each operation is a guard    *)
(* and the row it leaves; a call whose guard is false changes nothing and  *)
(* returns null or false in the code.                                      *)
(*                                                                         *)
(* The wording a row carries (reason, cause, action, result, error) and    *)
(* its timestamps are left out.  next_retry_at becomes "due", the lease    *)
(* becomes the process that holds it.  The place of a row in the queue is  *)
(* StartOrder's subject.                                                   *)
(***************************************************************************)
EXTENDS Naturals

CONSTANT MaxRetries              \* START_QUEUE_MAX_RETRIES

ASSUME MaxRetriesAssumption == MaxRetries \in Nat

ClaimedStates == {"claimed", "starting"}
DispatchableStates == {"queued", "retrying"}
ActiveStates == DispatchableStates \cup ClaimedStates
TerminalStates == {"cancelled", "failed"}
RowStates == ActiveStates \cup TerminalStates \cup {"started", "recovered", "absent"}

\* The process whose lease the row carries: this one, one that is gone, or none.
Leases == {"none", "current", "previous"}

Rows == [state : RowStates, generation : Nat, retryCount : Nat, due : BOOLEAN, lease : Leases]

\* The task has no row.
NoRow == [state |-> "absent", generation |-> 0, retryCount |-> 0, due |-> TRUE, lease |-> "none"]

IsActive(r) == r.state \in ActiveStates
IsDispatchable(r) == r.state \in DispatchableStates
IsClaimed(r) == r.state \in ClaimedStates
IsTerminal(r) == r.state \in TerminalStates

\* The claim a caller was handed is still the row's own.
Owns(r, generation) == r.generation = generation /\ IsClaimed(r)

\* enqueue: an active row is kept as it is; any other starts over at the next
\* generation with a fresh retry budget.
Enqueued(r) ==
    IF IsActive(r) THEN r
    ELSE [state |-> "queued", generation |-> r.generation + 1, retryCount |-> 0,
          due |-> TRUE, lease |-> "none"]

MayClaim(r) == IsDispatchable(r) /\ r.due
ClaimedSameGeneration(r) == [r EXCEPT !.state = "claimed", !.lease = "current"]   \* slip
Claimed(r) == [r EXCEPT !.state = "claimed", !.generation = @ + 1, !.lease = "current"]

MayMarkStarting(r, generation) == r.generation = generation /\ r.state = "claimed"
MarkedStarting(r) == [r EXCEPT !.state = "starting"]

Acknowledged(r) == [r EXCEPT !.state = "started", !.lease = "none"]

\* failOrRetry: one retry spent; past the budget the row fails for good.
FailedTooLate(r) ==                                                              \* slip
    IF r.retryCount > MaxRetries
    THEN [r EXCEPT !.state = "failed", !.retryCount = @ + 1, !.due = TRUE, !.lease = "none"]
    ELSE [r EXCEPT !.state = "retrying", !.retryCount = @ + 1, !.due = FALSE, !.lease = "none"]
FailedOrRetrying(r) ==
    IF r.retryCount + 1 > MaxRetries
    THEN [r EXCEPT !.state = "failed", !.retryCount = @ + 1, !.due = TRUE, !.lease = "none"]
    ELSE [r EXCEPT !.state = "retrying", !.retryCount = @ + 1, !.due = FALSE, !.lease = "none"]

\* markRecovered: a live session was found for the row.  No generation is asked
\* for, and next_retry_at is left as it was.
MayRecover(r) == IsActive(r) \/ r.state = "started"
Recovered(r) == IF MayRecover(r) THEN [r EXCEPT !.state = "recovered", !.lease = "none"] ELSE r

\* terminal: cancel and fail, refused only where no row or a terminal one is found.
MayEndUnclaimed(r) == IsDispatchable(r) \/ r.state \in {"started", "recovered"}   \* slip
MayEnd(r) == IsActive(r) \/ r.state \in {"started", "recovered"}
EndedWithLease(r, state) == IF MayEnd(r) THEN [r EXCEPT !.state = state] ELSE r  \* slip
Ended(r, state) == IF MayEnd(r) THEN [r EXCEPT !.state = state, !.lease = "none"] ELSE r

\* interruptedClaims: a claimed row whose lease another process holds.  (A lease
\* of this process that ran out is not modelled: the list is read once, at boot,
\* before this process has claimed anything.)
IsInterruptedEarly(r) == r.state = "claimed" /\ r.lease # "current"               \* slip
IsInterrupted(r) == IsClaimed(r) /\ r.lease # "current"

\* The process died: what it had leased now belongs to a process that is gone.
AfterCrash(r) == IF r.lease = "current" THEN [r EXCEPT !.lease = "previous"] ELSE r

\* The backoff of a retrying row has run out.
BackoffOver(r) == [r EXCEPT !.due = TRUE]
==============================================================================
