---------------------------- MODULE DeliveryOutbox ----------------------------
(***************************************************************************)
(* The messages to one task's agent, from the moment a user sends one:     *)
(* the durable outbox, the flights that hand messages over one after the   *)
(* other, the provider recovery that sends a rejected prompt again, the    *)
(* sweep that retries what is left, stops, and a crash                     *)
(* (src/main/agent-manager-core.ts, src/main/sessions/).                   *)
(*                                                                         *)
(* An action is the code between two awaits.  Accepting and acknowledging  *)
(* a delivery are two commits, so they are two actions; only a crash comes *)
(* between them (Quiet).                                                   *)
(*                                                                         *)
(* Left out: heartbeat checks and task groups, managed sessions (their     *)
(* ledger stands between sendTrackedPrompt and the backend), fallback      *)
(* agents, read-only polling recovery, starts from the queue, a refused    *)
(* teardown, a session replaced without a stop, and a second sweep that    *)
(* starts during one.                                                      *)
(***************************************************************************)
EXTENDS DeliveryRow, Sequences

CONSTANTS
    LastMessage,      \* bound on the messages, which are numbered as they are created
    MaxAttempts,      \* claims before a delivery is given up: five in the code
    MaxRetries,       \* PROVIDER_MAX_RETRIES: five in the code
    Scenarios         \* how often the environment may do each of Kinds, with how many messages

Messages == 1..LastMessage
Kinds == {"send", "stop", "abort", "label", "restart", "turn", "deadline", "crash"}

ASSUME OutboxAssumption ==
    /\ LastMessage \in Nat \ {0} /\ MaxAttempts \in Nat \ {0} /\ MaxRetries \in Nat
    /\ Scenarios \subseteq [most : [Kinds -> Nat], messages : 0..LastMessage]

VARIABLES
    row,          \* durable: message -> its row of delivery_outbox
    recovery,     \* durable: agent_provider_recovery, [state, message, rejected, attempt, here]
    task,         \* durable: [excluded (retryExclusion), ended (its start-queue row)]
    flights,      \* deliveryTaskTails and deliveryFlights: [message, seen], the first one runs
    hand,         \* message -> its handoff: sendMessageNow, and the promise that waits for it
    session,      \* is a session of the task registered
    redo,         \* dispatchProviderRecovery in flight: [phase, owns, taken]
    sweep,        \* recoverAgentMessages: the rows it has yet to visit, [message, seen]
    stop,         \* stopByTaskId
    booted,
    taken,        \* history: how often the backend took the message (counted to two)
    continued,    \* history: the messages whose failed turn was continued, or is to be
    shut,         \* history: the messages there were when a stop last returned
    told,         \* history: the messages whose recovery ended with a notice or a stop
    uses

vars == <<row, recovery, task, flights, hand, session, redo, sweep, stop, booted,
          taken, continued, shut, told, uses>>

NoHandoff == [phase |-> "none", open |-> FALSE, owns |-> FALSE, taken |-> FALSE]
NoRedo == [phase |-> "none", owns |-> FALSE, taken |-> FALSE]
NoMessage == 0
Phases == {"none", "opening", "barred", "preparing", "sending", "resolved", "recorded"}
Letters == [message : Messages, seen : DeliveryStates]
Handoffs == [phase : Phases, open : BOOLEAN, owns : BOOLEAN, taken : BOOLEAN]
Retries == [phase : {"none", "waiting", "sending"}, owns : BOOLEAN, taken : BOOLEAN]
Recoveries == [state : {"none", "sending", "accepted", "retrying", "dispatching", "failed",
                        "cancelled", "completed"},
               message : Messages \cup {NoMessage}, rejected : BOOLEAN, attempt : Nat, here : BOOLEAN]

Init ==
    /\ row = [m \in Messages |-> NoRow]
    /\ recovery = [state |-> "none", message |-> NoMessage, rejected |-> FALSE,
                   attempt |-> 0, here |-> FALSE]
    /\ task = [excluded |-> FALSE, ended |-> FALSE]
    /\ flights = <<>> /\ sweep = {}
    /\ hand = [m \in Messages |-> NoHandoff]
    /\ session \in BOOLEAN
    /\ redo = NoRedo
    /\ stop = "none" /\ booted = TRUE
    /\ taken = [m \in Messages |-> 0]
    /\ continued = {} /\ shut = {} /\ told = {}
    /\ uses \in [scenario : Scenarios, done : {[k \in Kinds |-> 0]}]

Spend(kind) == /\ uses.done[kind] < uses.scenario.most[kind]
               /\ uses' = [uses EXCEPT !.done[kind] = @ + 1]
Never(kind) == uses.done[kind] = 0

Put(m, r) == row' = [row EXCEPT ![m] = r]
InFlight(m) == \E i \in DOMAIN flights : flights[i].message = m

\* Between the commits at the end of a handoff there is room for a crash only.
Quiet == booted /\ \A m \in Messages : hand[m].phase \notin {"resolved", "recorded"}

\* serializeTaskSend: one prompt of a task is on the wire at a time.
WireIsFree == redo.phase # "sending" /\ \A m \in Messages : hand[m].phase # "sending"

------------------------------------------------------------------------------
(* Provider recovery: one row per task, for the prompt sent last. *)

\* ProviderRecoveryStore.begin: the new prompt takes the row over.
Begun(m) == [state |-> "sending", message |-> m, rejected |-> FALSE, attempt |-> 0, here |-> TRUE]
\* ProviderRecoveryStore.cancel
CancelledRecovery == IF recovery.state = "none" THEN recovery
                     ELSE [recovery EXCEPT !.state = "cancelled"]
FailWithoutNotice == \* slip
    /\ recovery' = [recovery EXCEPT !.state = "failed"]
    /\ task' = [task EXCEPT !.ended = TRUE]
    /\ UNCHANGED told
\* failProviderRecovery: the start-queue row of the task ends too, and the user is told.
FailRecovery ==
    /\ recovery' = [recovery EXCEPT !.state = "failed"]
    /\ task' = [task EXCEPT !.ended = TRUE]
    /\ told' = told \cup {recovery.message}
\* ProviderRecoveryStore.schedule
RetryLater(rejected) ==
    /\ recovery' = [recovery EXCEPT !.state = "retrying", !.attempt = @ + 1,
                                    !.rejected = rejected]
    /\ UNCHANGED <<task, told>>

\* tryProviderRecovery, where the failure is of the row's own turn: an unconfirmed one
\* and an excluded task are for a person to review.
TryRecovery(rejected, recoverable) ==
    IF recoverable /\ ~task.excluded THEN RetryLater(rejected) ELSE FailRecovery
Recovers(recoverable) == recoverable /\ ~task.excluded

------------------------------------------------------------------------------
(* Sending and dispatching. *)

\* agentSession:sendByTaskId: reopen what was given up, enqueue, and join the flight
\* of the message or queue a new one behind the others.  Internal senders do not reopen.
Join(m, seen) ==
    IF InFlight(m) THEN UNCHANGED flights
    ELSE flights' = Append(flights, [message |-> m, seen |-> seen])
SendReopens(m, byUser) ==
    LET sent == Enqueued(IF byUser THEN Reopened(row[m]) ELSE row[m])
    IN  /\ Put(m, sent) /\ Join(m, sent.state)
        /\ shut' = IF byUser /\ row[m].state = "failed" THEN shut \ {m} ELSE shut
SendMessage(m) ==
    /\ Quiet /\ m <= uses.scenario.messages /\ Spend("send")
    /\ m > 1 => row[m - 1].state # "absent"
    /\ \E byUser \in BOOLEAN : SendReopens(m, byUser)
    /\ UNCHANGED <<recovery, task, hand, session, redo, sweep, stop, booted, taken, continued,
                   told>>

\* dispatchAgentMessageNow up to its first await.  The record is the one its caller read,
\* perhaps long ago; the claim reads the row again.
Starts(m) ==
    /\ Put(m, Claimed(row[m]))
    /\ hand' = [hand EXCEPT ![m] =
           [phase |-> IF session THEN "preparing"
                      ELSE IF stop = "tearing" THEN "barred" ELSE "opening",
            open |-> TRUE, owns |-> session, taken |-> FALSE]]
    /\ UNCHANGED flights
Dispatch ==
    /\ Quiet /\ flights # <<>>
    /\ LET m == Head(flights).message
           seen == Head(flights).seen
       IN  /\ ~hand[m].open
           /\ IF seen \notin EndStates \cup {"accepted"} /\ IsClaimable(row[m]) THEN Starts(m)
              ELSE /\ Put(m, IF seen = "accepted" THEN Acknowledged(row[m]) ELSE row[m])
                   /\ flights' = Tail(flights)
                   /\ UNCHANGED hand
    /\ UNCHANGED <<recovery, task, session, redo, sweep, stop, booted, taken, continued, shut,
                   told, uses>>

\* The catch of dispatchAgentMessageNow, in its order.
KeptClaimed(r, now) == \* slip
    IF now.state = "failed" THEN Ended(r, "timed_out")
    ELSE IF r.attempts >= MaxAttempts THEN Ended(r, "failed")
    ELSE r
ReleasedAfterReview(r, now) == \* slip
    IF r.attempts >= MaxAttempts THEN Ended(r, "failed")
    ELSE Released(r)
AttemptsFirst(r, now) == \* slip
    IF r.attempts >= MaxAttempts THEN Ended(r, "failed")
    ELSE IF now.state = "failed" THEN Ended(r, "timed_out")
    ELSE Released(r)
GivenUp(r, now) ==
    IF now.state = "failed" THEN Ended(r, "timed_out")
    ELSE IF r.attempts >= MaxAttempts THEN Ended(r, "failed")
    ELSE Released(r)

\* A handoff failed.  If its promise was given up before, nobody hears of it.
HandoffFails(m) ==
    /\ hand' = [hand EXCEPT ![m] = NoHandoff]
    /\ IF hand[m].open THEN Put(m, GivenUp(row[m], recovery')) /\ flights' = Tail(flights)
       ELSE UNCHANGED <<row, flights>>
HandoffResolves(m) ==
    /\ hand' = [hand EXCEPT ![m] = IF @.open THEN [@ EXCEPT !.phase = "resolved"] ELSE NoHandoff]
    /\ UNCHANGED <<row, flights>>

\* recoverMessageSession: the session is resumed, or a fresh one is started.
OpenSucceeds(m) ==
    /\ Quiet /\ hand[m].phase = "opening"
    /\ session' = TRUE
    /\ hand' = [hand EXCEPT ![m].phase = "preparing", ![m].owns = TRUE]
    /\ IF session THEN UNCHANGED recovery
       ELSE \E same \in BOOLEAN : recovery' = [recovery EXCEPT !.here = same]
    /\ UNCHANGED <<row, task, flights, redo, sweep, stop, booted, taken, continued, shut, told,
                   uses>>

\* It fails, or it waited for a stop and throws when the stop is over.
OpenFails(m) ==
    /\ Quiet
    /\ hand[m].phase = "opening" \/ (hand[m].phase = "barred" /\ stop # "tearing")
    /\ UNCHANGED recovery
    /\ HandoffFails(m)
    /\ UNCHANGED <<task, session, redo, sweep, stop, booted, taken, continued, shut, told, uses>>

\* sendTrackedPrompt up to the call of the backend, under the task's send lock.
PromptGoesOut(m) ==
    /\ Quiet /\ hand[m].phase = "preparing" /\ hand[m].owns /\ WireIsFree
    /\ hand' = [hand EXCEPT ![m].phase = "sending"]
    /\ recovery' = Begun(m)
    /\ UNCHANGED <<row, task, flights, session, redo, sweep, stop, booted, taken, continued,
                   shut, told, uses>>

\* doSendAdapterMessage throws before it calls the backend: the session was stopped, or
\* the configuration or an attachment failed.  handleSessionError takes the failure for
\* the one of the turn that the recovery row is about.
PreparationFails(m) ==
    /\ Quiet /\ hand[m].phase = "preparing"
    /\ IF \/ ~hand[m].owns \/ ~recovery.here
          \/ recovery.state \in {"none", "completed", "cancelled", "failed"}
       THEN UNCHANGED <<recovery, task, told>> /\ HandoffFails(m)
       ELSE IF recovery.state = "retrying"
       THEN UNCHANGED <<recovery, task, told>> /\ HandoffResolves(m)
       ELSE /\ FailRecovery \/ UNCHANGED <<recovery, task, told>>
            /\ HandoffFails(m)
    /\ UNCHANGED <<session, redo, sweep, stop, booted, taken, continued, shut, uses>>

------------------------------------------------------------------------------
(* The backend's answer. *)

Count(n) == IF n = 2 THEN 2 ELSE n + 1

\* The backend takes the prompt; the app does not know yet.
BackendTakes(m) ==
    /\ Quiet /\ hand[m].phase = "sending" /\ ~hand[m].taken
    /\ hand' = [hand EXCEPT ![m].taken = TRUE]
    /\ taken' = [taken EXCEPT ![m] = Count(@)]
    /\ UNCHANGED <<row, recovery, task, flights, session, redo, sweep, stop, booted, continued,
                   shut, told, uses>>

\* sendPrompt resolves.
PromptAccepted(m) ==
    /\ Quiet /\ hand[m].phase = "sending" /\ hand[m].taken
    /\ recovery' = IF hand[m].owns /\ recovery.state = "sending"
                   THEN [recovery EXCEPT !.state = "accepted"] ELSE recovery
    /\ HandoffResolves(m)
    /\ UNCHANGED <<task, session, redo, sweep, stop, booted, taken, continued, shut, told, uses>>

\* sendPrompt rejects: the backend refused it (rejected), or nobody can tell.
PromptFails(m) ==
    /\ Quiet /\ hand[m].phase = "sending"
    /\ \E rejected, transient \in BOOLEAN :
        /\ rejected => ~hand[m].taken
        /\ IF ~hand[m].owns \/ recovery.state # "sending"
           THEN UNCHANGED <<recovery, task, told>> /\ HandoffFails(m)
           ELSE /\ TryRecovery(TRUE, rejected /\ transient)
                /\ IF Recovers(rejected /\ transient) THEN HandoffResolves(m) ELSE HandoffFails(m)
    /\ UNCHANGED <<session, redo, sweep, stop, booted, taken, continued, shut, uses>>

\* The two commits of a handoff that resolved.
Accept(m) ==
    /\ hand[m].phase = "resolved"
    /\ Put(m, Accepted(row[m]))
    /\ hand' = [hand EXCEPT ![m].phase = "recorded"]
    /\ UNCHANGED <<recovery, task, flights, session, redo, sweep, stop, booted, taken,
                   continued, shut, told, uses>>
Acknowledge(m) ==
    /\ hand[m].phase = "recorded"
    /\ Put(m, AcknowledgedByOwner(row[m]))
    /\ hand' = [hand EXCEPT ![m] = NoHandoff]
    /\ flights' = Tail(flights)
    /\ UNCHANGED <<recovery, task, session, redo, sweep, stop, booted, taken, continued, shut,
                   told, uses>>

\* The deadline of the handoff: the row ends, the work behind it goes on.  A session that
\* is being opened meets a shorter deadline of its own first (OpenFails).
HandoffTimesOut(m) ==
    /\ Quiet /\ hand[m].open /\ hand[m].phase \in {"barred", "preparing", "sending"}
    /\ Spend("deadline")
    /\ Put(m, Ended(row[m], "timed_out"))
    /\ hand' = [hand EXCEPT ![m].open = FALSE]
    /\ flights' = Tail(flights)
    /\ UNCHANGED <<recovery, task, session, redo, sweep, stop, booted, taken, continued, shut,
                   told>>

\* The lease is a third of that deadline.
LeaseExpires(m) ==
    /\ row[m].state = "claimed" /\ ~row[m].expired
    /\ row' = [row EXCEPT ![m].expired = TRUE]
    /\ UNCHANGED <<recovery, task, flights, hand, session, redo, sweep, stop, booted,
                   taken, continued, shut, told, uses>>

HandoffStep(m) ==
    \/ OpenSucceeds(m) \/ OpenFails(m) \/ PromptGoesOut(m) \/ PreparationFails(m)
    \/ BackendTakes(m) \/ PromptAccepted(m) \/ PromptFails(m) \/ Accept(m) \/ Acknowledge(m)
================================================================================
