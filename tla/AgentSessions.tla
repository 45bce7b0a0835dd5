----------------------------- MODULE AgentSessions -----------------------------
(***************************************************************************)
(* What happens to a registered session: stops, the end of its turn, the   *)
(* reaper, messages; and what users and schedulers do to a task meanwhile  *)
(* (src/main/agent-manager-core.ts, src/main/task-updates.ts).             *)
(***************************************************************************)
EXTENDS AgentStarts

\* cancelQueuedStart: a task with no row gets one, so that the stop is remembered.
Cancelled(r) == Ended(IF r.state = "absent" THEN Enqueued(r) ELSE r, "cancelled")

\* stopSessionNow up to its first await: the session leaves the map and its backend
\* is asked to go, under the task's stop lock.
BeginTeardown(t, i, by) ==
    /\ sessions' = [sessions EXCEPT ![t] = RemoveAt(@, i)]
    /\ stopping' = [stopping EXCEPT ![t] = [by |-> by, held |-> sessions[t][i]]]

\* stopByTaskId up to its first await.  It joins a teardown in flight, or stops the
\* task's first session, or (finding none) withdraws the row and waits for the start.
StopByTaskId(t) ==
    /\ Callable /\ stopper[t] = "none"
    /\ SpendOn(t, "stop")
    /\ stopped' = stopped \cup {t}
    /\ \/ /\ Stopping(t)
          /\ stopper' = [stopper EXCEPT ![t] = "joining"]
          /\ UNCHANGED <<row, sessions, stopping>>
       \/ /\ ~Stopping(t) /\ Live(t)
          /\ BeginTeardown(t, 1, "user")
          /\ stopper' = [stopper EXCEPT ![t] = "tearing"]
          /\ UNCHANGED row
       \/ /\ ~Stopping(t) /\ ~Live(t)
          /\ PutRow(t, Cancelled(row[t]))
          /\ stopper' = [stopper EXCEPT ![t] = "waiting"]
          /\ UNCHANGED <<sessions, stopping>>
    /\ UNCHANGED <<task, pauses, attempt, drain, boot>>

\* A stop that found no session waits for the start in flight, then looks again.  The
\* teardown of a withdrawn start that was accepted is no part of what it waits for.
StopLooksAgain(t) ==
    /\ Quiet /\ stopper[t] = "waiting" /\ attempt[t].phase \in {"none", "unacked"}
    /\ \/ /\ Live(t)
          /\ IF Stopping(t) THEN UNCHANGED <<sessions, stopping>>
             ELSE BeginTeardown(t, 1, "user")
          /\ stopper' = [stopper EXCEPT ![t] = "tearing"]
          /\ UNCHANGED task
       \/ /\ ~Live(t)
          /\ stopper' = [stopper EXCEPT ![t] = "none"]
          /\ IF task[t].status = "agent_working" THEN SetTask(t, "not_started", FALSE)
             ELSE UNCHANGED task
          /\ UNCHANGED <<sessions, stopping>>
    /\ UNCHANGED <<row, pauses, attempt, stopped, drain, boot, uses>>

\* stopSession from the session's own stop button: no acknowledgement is asked for,
\* so the row is withdrawn at once.
StopSession(t) ==
    /\ Serving /\ ~Stopping(t)
    /\ \E i \in DOMAIN sessions[t] : BeginTeardown(t, i, "ui")
    /\ SpendOn(t, "end")
    /\ PutRow(t, Cancelled(row[t]))
    /\ stopped' = stopped \cup {t}
    /\ UNCHANGED <<task, pauses, attempt, stopper, drain, boot>>

\* The backend confirmed a teardown.  A user's stop now withdraws the row and, where
\* no other session is left, resets the status; stopByTaskId then resets a status
\* that still says working.
AfterTeardown(t) ==
    IF stopping[t].by \in {"user", "ui"} /\ ~Live(t) /\ task[t].status # "completed"
    THEN [task[t] EXCEPT !.status = "not_started"] ELSE task[t]
AfterStop(t) ==
    IF stopper[t] = "tearing" /\ AfterTeardown(t).status = "agent_working"
    THEN [AfterTeardown(t) EXCEPT !.status = "not_started", !.bound = FALSE]
    ELSE AfterTeardown(t)

StopReturnsItsOwn(t) ==                                                          \* slip
    stopper' = [stopper EXCEPT ![t] = IF @ = "tearing" THEN "none" ELSE @]
StopReturns(t) == stopper' = [stopper EXCEPT ![t] = IF @ = "waiting" THEN @ ELSE "none"]

TeardownSettles(t) ==
    /\ Quiet /\ Stopping(t)
    /\ PutRow(t, IF stopping[t].by = "user" THEN Cancelled(row[t]) ELSE row[t])
    /\ task' = [task EXCEPT ![t] = AfterStop(t)]
    /\ stopping' = [stopping EXCEPT ![t] = NoTeardown]
    /\ StopReturns(t)
    /\ IF Live(t) THEN UNCHANGED drain ELSE ScheduleDrain
    /\ UNCHANGED <<pauses, sessions, attempt, stopped, boot, uses>>

\* The backend refuses to go.  A stop that asked for an acknowledgement puts the
\* session back (at the end of the map) and fails.
TeardownRefused(t) ==
    /\ Quiet /\ stopping[t].by \in {"user", "fence"}
    /\ Spend("refuse")
    /\ sessions' = [sessions EXCEPT ![t] = Append(@, stopping[t].held)]
    /\ stopping' = [stopping EXCEPT ![t] = NoTeardown]
    /\ StopReturns(t)
    /\ stopped' = IF stopper[t] \in {"tearing", "joining"} THEN stopped \ {t} ELSE stopped
    /\ UNCHANGED <<row, task, pauses, attempt, drain, boot>>

------------------------------------------------------------------------------
(* The end of a turn: transitionToIdle, which yields between the idle flag and   *)
(* the task's move to review.                                                    *)

\* The agent is done and its backend says so.  (A start still in flight keeps its own
\* session at work.)
TurnEnds(t) ==
    /\ Quiet
    /\ \E i \in DOMAIN sessions[t] :
        /\ sessions[t][i].status = "working"
        /\ ~(StartPending(t) /\ i \in OwnIndex(t))
        /\ sessions' = [sessions EXCEPT ![t][i].status = "idle", ![t][i].reviewing = TRUE]
    /\ UNCHANGED <<row, task, pauses, attempt, stopping, stopper, stopped, drain, boot, uses>>

ReviewLands(t) ==
    /\ Quiet
    /\ \E i \in DOMAIN sessions[t] :
        /\ sessions[t][i].reviewing
        /\ sessions' = [sessions EXCEPT ![t][i].reviewing = FALSE]
    /\ task' = IF task[t].status = "completed" THEN task
               ELSE [task EXCEPT ![t].status = "ready_for_review"]
    /\ UNCHANGED row
    /\ ScheduleDrain
    /\ UNCHANGED <<pauses, attempt, stopping, stopper, stopped, boot, uses>>

\* reapInactiveSessions releases the runtime of a session long idle.
Reap(t) ==
    /\ Quiet /\ task[t].bound /\ ~Stopping(t)
    /\ \E i \in DOMAIN sessions[t] :
        /\ sessions[t][i].status = "idle" /\ ~sessions[t][i].reviewing
        /\ sessions' = [sessions EXCEPT ![t] = RemoveAt(@, i)]
    /\ UNCHANGED row
    /\ IF sessions'[t] = <<>> THEN ScheduleDrain ELSE UNCHANGED drain
    /\ UNCHANGED <<task, pauses, attempt, stopping, stopper, stopped, boot, uses>>

\* doSendAdapterMessage on an idle session: it works again.  Admission is not asked.
MessageWakes(t) ==
    /\ Callable
    /\ SpendOn(t, "message")
    /\ \E i \in DOMAIN sessions[t] :
        /\ sessions[t][i].status = "idle"
        /\ sessions' = [sessions EXCEPT ![t][i].status = "working"]
    /\ task' = [task EXCEPT ![t].status = "agent_working"]
    /\ stopped' = stopped \ {t}
    /\ UNCHANGED <<row, pauses, attempt, stopping, stopper, drain, boot>>

------------------------------------------------------------------------------
(* What users and sweeps do around the sessions. *)

\* A label that excludes the task from automatic starts is set or taken away.
SetLabel(t) ==
    /\ Serving
    /\ SpendOn(t, "label")
    /\ task' = [task EXCEPT ![t].excluded = ~@]
    /\ UNCHANGED <<row, pauses, sessions, attempt, stopping, stopper, stopped, drain, boot>>

\* prepareUserTaskUpdate stops a task that owns a runtime before it is moved.  A
\* completed sibling re-checks the queue (notifyParentOfSubtaskCompletion).
Complete(t) ==
    /\ Serving
    /\ task[t].status \notin {"agent_working", "completed"}
    /\ ~HasTaskStartOwnership(t)
    /\ SpendOn(t, "complete")
    /\ task' = [task EXCEPT ![t].status = "completed"]
    /\ UNCHANGED row
    /\ ScheduleDrain
    /\ UNCHANGED <<pauses, sessions, attempt, stopping, stopper, stopped, boot>>

Pause ==
    /\ Serving
    /\ Spend("pause")
    /\ \/ ~pauses.all /\ pauses' = [pauses EXCEPT !.all = TRUE]
       \/ \E p \in Projects \ pauses.projects :
            pauses' = [pauses EXCEPT !.projects = @ \cup {p}]
    /\ UNCHANGED <<row, task, sessions, attempt, stopping, stopper, stopped, drain, boot>>

\* Lifting a pause re-checks the queue.
Unpause ==
    /\ Serving
    /\ \/ pauses.all /\ pauses' = [pauses EXCEPT !.all = FALSE]
       \/ \E p \in pauses.projects : pauses' = [pauses EXCEPT !.projects = @ \ {p}]
    /\ UNCHANGED row
    /\ ScheduleDrain
    /\ UNCHANGED <<task, sessions, attempt, stopping, stopper, stopped, boot, uses>>

\* The reaper's sweep re-checks the queue every few minutes.
Sweep ==
    /\ Quiet
    /\ Spend("sweep")
    /\ UNCHANGED row
    /\ ScheduleDrain
    /\ UNCHANGED <<task, pauses, sessions, attempt, stopping, stopper, stopped, boot>>

\* What recovery does with a task whose session is gone: back to not_started and to
\* the queue, or cancelled where it may not be retried.
Requeued(t) == IF Excluded(t) THEN Ended(Enqueued(row[t]), "cancelled") ELSE Enqueued(row[t])

\* reconcileTaskRuntime: a status that says working, with no runtime behind it.
Repair(t) ==
    /\ Serving /\ task[t].status = "agent_working"
    /\ ~Stopping(t) /\ ~StartPending(t)
    /\ \/ /\ Live(t) /\ sessions[t][1].status = "idle"
          /\ SetTask(t, "ready_for_review", TRUE)
          /\ PutRow(t, Recovered(row[t]))
          /\ UNCHANGED drain
       \/ /\ ~Live(t) /\ ~IsActive(row[t])
          /\ SetTask(t, "not_started", FALSE)
          /\ IF IsTerminal(row[t]) THEN UNCHANGED <<row, drain>>
             ELSE PutRow(t, Requeued(t)) /\ ScheduleDrain
    /\ UNCHANGED <<pauses, sessions, attempt, stopping, stopper, stopped, boot, uses>>

SessionStep(t) ==
    \/ StopByTaskId(t) \/ StopLooksAgain(t) \/ StopSession(t) \/ TeardownSettles(t)
    \/ TeardownRefused(t) \/ TurnEnds(t) \/ ReviewLands(t) \/ Reap(t) \/ MessageWakes(t)
    \/ SetLabel(t) \/ Complete(t) \/ Repair(t)
==============================================================================
