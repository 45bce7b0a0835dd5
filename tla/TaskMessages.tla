----------------------------- MODULE TaskMessages -----------------------------
(***************************************************************************)
(* What crosses the path of the messages of DeliveryOutbox: the end of a   *)
(* turn, the retry of a rejected prompt, the sweep, stops and aborts, a    *)
(* crash and the boot after it (src/main/agent-manager-core.ts).           *)
(***************************************************************************)
EXTENDS DeliveryOutbox

------------------------------------------------------------------------------
(* Turns, and dispatchProviderRecovery. *)

\* checkIdle of the poll: the turn is over.
TurnEnds ==
    /\ Quiet /\ session /\ recovery.state = "accepted" /\ recovery.here
    /\ recovery' = [recovery EXCEPT !.state = "completed"]
    /\ UNCHANGED <<row, task, flights, hand, session, redo, sweep, stop, booted, taken,
                   continued, shut, told, uses>>

\* The poll reads that the turn failed.
TurnFails ==
    /\ Quiet /\ session /\ recovery.state = "accepted" /\ recovery.here
    /\ Spend("turn")
    /\ \E recoverable \in BOOLEAN :
        /\ TryRecovery(FALSE, recoverable)
        /\ continued' = IF Recovers(recoverable) THEN continued \cup {recovery.message} ELSE continued
    /\ UNCHANGED <<row, flights, hand, session, redo, sweep, stop, booted, taken, shut>>

\* The deadline of a retry is reached: up to the state change that announces the send.  A
\* session is resumed first where there is none; the backend may turn out to be busy, or
\* not answer for now.
RetryDispatches ==
    /\ Quiet /\ recovery.state = "retrying" /\ redo.phase = "none"
    /\ stop # "tearing" /\ \A m \in Messages : hand[m].phase # "opening"
    /\ \/ /\ FailRecovery
          /\ UNCHANGED <<session, redo>>
       \/ /\ ~task.excluded /\ recovery.attempt <= MaxRetries /\ session
          /\ RetryLater(recovery.rejected)
          /\ UNCHANGED <<session, redo>>
       \/ /\ ~task.excluded /\ recovery.attempt <= MaxRetries
          /\ session' = TRUE
          /\ recovery' = [recovery EXCEPT !.state = "dispatching", !.here = TRUE]
          /\ redo' = [phase |-> "waiting", owns |-> TRUE, taken |-> FALSE]
          /\ UNCHANGED <<task, told>>
    /\ UNCHANGED <<row, flights, hand, sweep, stop, booted, taken, continued, shut, uses>>

\* The prompt goes out, unless the row was taken over or cancelled, the session was
\* stopped, or the configuration could not be built.
RetryGoesOut ==
    /\ Quiet /\ redo.phase = "waiting" /\ WireIsFree
    /\ redo.owns /\ recovery.state = "dispatching"
    /\ redo' = [redo EXCEPT !.phase = "sending"]
    /\ UNCHANGED <<row, recovery, task, flights, hand, session, sweep, stop, booted, taken,
                   continued, shut, told, uses>>
RetryIsWithdrawn ==
    /\ Quiet /\ redo.phase = "waiting"
    /\ redo' = NoRedo
    /\ IF recovery.state = "dispatching" THEN FailRecovery ELSE UNCHANGED <<recovery, task,
                                                                            told>>
    /\ UNCHANGED <<row, flights, hand, session, sweep, stop, booted, taken, continued, shut,
                   uses>>

\* Only a rejected prompt is sent again as it was; a failed turn is continued.
RetryIsTaken ==
    /\ Quiet /\ redo.phase = "sending" /\ ~redo.taken
    /\ redo' = [redo EXCEPT !.taken = TRUE]
    /\ taken' = IF recovery.rejected THEN [taken EXCEPT ![recovery.message] = Count(@)] ELSE taken
    /\ UNCHANGED <<row, recovery, task, flights, hand, session, sweep, stop, booted, continued,
                   shut, told, uses>>
RetryIsAccepted ==
    /\ Quiet /\ redo.phase = "sending" /\ redo.taken
    /\ recovery' = IF redo.owns /\ recovery.state = "dispatching"
                   THEN [recovery EXCEPT !.state = "accepted"] ELSE recovery
    /\ redo' = NoRedo
    /\ UNCHANGED <<row, task, flights, hand, session, sweep, stop, booted, taken, continued,
                   shut, told, uses>>
RetryFails ==
    /\ Quiet /\ redo.phase = "sending"
    /\ \E rejected, transient \in BOOLEAN :
        /\ rejected => ~redo.taken
        /\ IF recovery.state # "dispatching" THEN UNCHANGED <<recovery, task, told>>
           ELSE TryRecovery(TRUE, rejected /\ transient)
    /\ redo' = NoRedo
    /\ UNCHANGED <<row, flights, hand, session, sweep, stop, booted, taken, continued, shut,
                   uses>>

RetryStep == \/ RetryDispatches \/ RetryGoesOut \/ RetryIsWithdrawn
             \/ RetryIsTaken \/ RetryIsAccepted \/ RetryFails

------------------------------------------------------------------------------
(* recoverAgentMessages: every 30 seconds, and at the end of boot. *)

\* The list is read once, oldest first; the loop then waits for each flight.
Listed == {m \in Messages : IsRecoverable(row[m])}
SweepStarts ==
    /\ Quiet /\ sweep = {} /\ Listed # {}
    /\ sweep' = {[message |-> m, seen |-> row[m].state] : m \in Listed}
    /\ UNCHANGED <<row, recovery, task, flights, hand, session, redo, stop, booted,
                   taken, continued, shut, told, uses>>
Oldest(letter) == \A other \in sweep : letter.message <= other.message

\* An excluded delivery ends, whoever is about to deliver it.
SweepExcludes(letter) ==
    /\ Quiet /\ letter.seen \in DeliveryStates \ {"accepted"}
    /\ task.excluded \/ task.ended
    /\ Put(letter.message, Ended(row[letter.message], "cancelled"))
    /\ sweep' = sweep \ {letter}
    /\ UNCHANGED <<recovery, task, flights, hand, session, redo, stop, booted,
                   taken, continued, shut, told, uses>>
SweepDispatches(letter) ==
    /\ Quiet /\ letter.seen \in DeliveryStates
    /\ letter.seen = "accepted" \/ ~(task.excluded \/ task.ended)
    /\ Join(letter.message, letter.seen)
    /\ sweep' = (sweep \ {letter}) \cup {[letter EXCEPT !.seen = "awaited"]}
    /\ UNCHANGED <<row, recovery, task, hand, session, redo, stop, booted,
                   taken, continued, shut, told, uses>>
SweepGoesOn(letter) ==
    /\ Quiet /\ letter.seen = "awaited" /\ ~InFlight(letter.message)
    /\ sweep' = sweep \ {letter}
    /\ UNCHANGED <<row, recovery, task, flights, hand, session, redo, stop, booted,
                   taken, continued, shut, told, uses>>

SweepStep ==
    \/ SweepStarts
    \/ \E letter \in sweep :
           /\ Oldest(letter)
           /\ SweepExcludes(letter) \/ SweepDispatches(letter) \/ SweepGoesOn(letter)

------------------------------------------------------------------------------
(* Stops. *)

\* cancelUnacceptedForTask and ProviderRecoveryStore.cancel
Withdraw ==
    /\ row' = [m \in Messages |-> Withdrawn(row[m])]
    /\ recovery' = CancelledRecovery
    /\ told' = told \cup {recovery.message}
\* stopSessionNow up to its first await: whoever holds the session holds it no more.
FenceKeepsHandoffs == \* slip
    /\ session' = FALSE
    /\ UNCHANGED hand
    /\ redo' = [redo EXCEPT !.owns = FALSE]
Fence ==
    /\ session' = FALSE
    /\ hand' = [m \in Messages |-> [hand[m] EXCEPT !.owns = FALSE]]
    /\ redo' = [redo EXCEPT !.owns = FALSE]
EndTask == task' = [task EXCEPT !.ended = TRUE]
StopReturns == stop' = "none" /\ shut' = {m \in Messages : row'[m].state \in EndStates}

\* stopByTaskId, with a session of the task or without one.
StopByTaskId ==
    /\ Quiet /\ stop = "none"
    /\ Spend("stop")
    /\ Withdraw
    /\ IF session THEN Fence /\ stop' = "tearing" /\ UNCHANGED task
       ELSE EndTask /\ stop' = "waiting" /\ UNCHANGED <<session, hand, redo>>
    /\ UNCHANGED <<flights, sweep, booted, taken, continued, shut>>

\* Without one it waits for the session that is being opened, and looks again.
StopLooksAgain ==
    /\ Quiet /\ stop = "waiting" /\ \A m \in Messages : hand[m].phase # "opening"
    /\ IF session THEN Withdraw /\ Fence /\ stop' = "tearing" /\ UNCHANGED shut
       ELSE UNCHANGED <<row, recovery, told, session, hand, redo>> /\ StopReturns
    /\ UNCHANGED <<task, flights, sweep, booted, taken, continued, uses>>

\* The backend confirmed.  cancelQueuedStart withdraws once more what came meanwhile.
StopSettles ==
    /\ Quiet /\ stop = "tearing"
    /\ Withdraw /\ EndTask /\ StopReturns
    /\ UNCHANGED <<flights, hand, session, redo, sweep, booted, taken, continued, uses>>

\* abortSession: the turn is cancelled, the session and its messages stay.
Abort ==
    /\ Quiet /\ session
    /\ Spend("abort")
    /\ recovery' = CancelledRecovery /\ told' = told \cup {recovery.message}
    /\ UNCHANGED <<row, task, flights, hand, session, redo, sweep, stop, booted, taken,
                   continued, shut>>

\* A label, a completion or a question that waits excludes the task, or no longer does.
Exclude ==
    /\ Quiet /\ Spend("label")
    /\ task' = [task EXCEPT !.excluded = ~@]
    /\ UNCHANGED <<row, recovery, flights, hand, session, redo, sweep, stop, booted, taken,
                   continued, shut, told>>

\* A person starts the task: its queue row starts over (and waits: the start itself is
\* AgentStarts).
ExplicitStart ==
    /\ Quiet /\ task.ended /\ stop # "tearing"
    /\ Spend("restart")
    /\ task' = [task EXCEPT !.ended = FALSE]
    /\ UNCHANGED <<row, recovery, flights, hand, session, redo, sweep, stop, booted, taken,
                   continued, shut, told>>

------------------------------------------------------------------------------
(* A crash, and reconcileStartup. *)

Crash ==
    /\ booted /\ Spend("crash")
    /\ row' = [m \in Messages |-> AfterCrash(row[m])]
    /\ hand' = [m \in Messages |-> NoHandoff]
    /\ flights' = <<>> /\ sweep' = {} /\ redo' = NoRedo
    /\ session' = FALSE /\ stop' = "none" /\ booted' = FALSE
    /\ UNCHANGED <<recovery, task, taken, continued, shut, told>>

\* A prompt that was on the wire is for a person to review; the session of a turn that
\* was accepted may be resumed.
Boot ==
    /\ ~booted /\ booted' = TRUE
    /\ IF recovery.state \in {"sending", "dispatching"}
       THEN FailRecovery /\ UNCHANGED session
       ELSE /\ session' \in {FALSE, recovery.state = "accepted"}
            /\ UNCHANGED <<recovery, task, told>>
    /\ UNCHANGED <<row, flights, hand, redo, sweep, stop, taken, continued, shut, uses>>

------------------------------------------------------------------------------
Next ==
    \/ Dispatch \/ RetryStep \/ SweepStep \/ Boot \/ Crash
    \/ TurnEnds \/ TurnFails \/ Abort \/ Exclude \/ ExplicitStart
    \/ StopByTaskId \/ StopLooksAgain \/ StopSettles
    \/ \E m \in Messages : \/ SendMessage(m) \/ HandoffStep(m)
                           \/ HandoffTimesOut(m) \/ LeaseExpires(m)

Spec == Init /\ [][Next]_vars

\* The event loop and the 30-second timer run, leases run out, and a backend answers (an
\* answer may be an error).
Fairness ==
    /\ WF_vars(Dispatch) /\ WF_vars(SweepStep) /\ WF_vars(Boot) /\ WF_vars(RetryStep)
    /\ WF_vars(StopLooksAgain) /\ WF_vars(StopSettles)
    /\ \A m \in Messages : WF_vars(HandoffStep(m)) /\ WF_vars(LeaseExpires(m))

FairSpec == Spec /\ Fairness

------------------------------------------------------------------------------
\* Every variable has its type.
TypeOK ==
    /\ row \in [Messages -> Rows]
    /\ recovery \in Recoveries
    /\ task \in [excluded : BOOLEAN, ended : BOOLEAN]
    /\ flights \in Seq(Letters)
    /\ hand \in [Messages -> Handoffs]
    /\ session \in BOOLEAN /\ booted \in BOOLEAN
    /\ redo \in Retries
    /\ sweep \subseteq [message : Messages, seen : DeliveryStates \cup {"awaited"}]
    /\ stop \in {"none", "waiting", "tearing"}
    /\ taken \in [Messages -> 0..2]
    /\ shut \subseteq Messages
    /\ continued \subseteq Messages \cup {NoMessage} /\ told \subseteq Messages \cup {NoMessage}
    /\ uses \in [scenario : Scenarios, done : [Kinds -> Nat]]

\* The prompt of a message crosses to the backend.
GoesOut(m) ==
    \/ hand[m].phase = "preparing" /\ hand'[m].phase = "sending"
    \/ redo.phase = "waiting" /\ redo'.phase = "sending" /\ recovery.message = m

\* A stop that returned is a boundary: no message there was before it reaches the
\* backend after it, neither from a flight that was queued or under way, nor from one
\* that was given up at its deadline, nor as a retry, nor from a sweep
\* (cancelUnacceptedForTask, assertSessionGeneration).  Only a person can send one that
\* ran out of attempts again.
StopIsABoundary == [][\A m \in shut : ~GoesOut(m)]_vars

\* A claim of this process has a flight that will settle it (dispatchAgentMessage).
ClaimsAreInFlight ==
    \A m \in Messages : row[m].state \in {"claimed", "accepted"} /\ row[m].owner = "current" =>
        InFlight(m) /\ hand[m].open

\* The backend takes a message once, however often its delivery is retried, swept,
\* rejected or sent again, unless the app crashes or the user aborts a turn.  A turn that
\* failed is continued; where the continuation is rejected the code sends the message again.
TakenOnce ==
    Never("crash") /\ Never("abort") => \A m \in Messages : taken[m] > 1 => m \in continued

\* A delivery that is given up as failed may be reopened and sent again, so the backend
\* must not have it (the order of the cases in the catch of dispatchAgentMessageNow).
FailedWasNotTaken ==
    Never("crash") /\ Never("abort") =>
        \A m \in Messages : row[m].state = "failed" => taken[m] = 0

\* A rejected prompt is acknowledged because provider recovery owes it: a message that
\* was acknowledged was taken by the backend, or its recovery is under way or ended with
\* a word to the user, until a later message takes the recovery row over.
AcknowledgedIsOwned ==
    \A m \in Messages : row[m].state = "acknowledged" =>
        \/ taken[m] > 0 \/ m \in told
        \/ recovery.message # m
        \/ recovery.state \in {"sending", "retrying", "dispatching"}

\* Every message comes to an end: it is acknowledged, or the user gets it back.
EveryMessageEnds ==
    \A m \in Messages : row[m].state # "absent" ~> row[m].state \in EndStates

==============================================================================
