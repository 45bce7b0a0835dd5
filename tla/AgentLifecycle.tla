---------------------------- MODULE AgentLifecycle ----------------------------
(***************************************************************************)
(* The whole life of the tasks' sessions: AgentStarts and AgentSessions,   *)
(* a crash of the process at any point, and the recovery after it          *)
(* (reconcileStartup, src/main/agent-manager-core.ts).                     *)
(*                                                                         *)
(* The Captains' share of reconcileStartup is left out, and so is a task   *)
(* with no agent.                                                          *)
(***************************************************************************)
EXTENDS AgentSessions

\* Everything in memory is gone; rows, tasks and pauses are on disk.  A stop that had
\* not returned was not confirmed to the user.
Crash ==
    /\ Spend("crash")
    /\ row' = [t \in Tasks |-> AfterCrash(row[t])]
    /\ sessions' = [t \in Tasks |-> <<>>]
    /\ attempt' = [t \in Tasks |-> NoAttempt]
    /\ stopping' = [t \in Tasks |-> NoTeardown]
    /\ stopper' = [t \in Tasks |-> "none"]
    /\ stopped' = {t \in stopped : stopper[t] = "none"}
    /\ drain' = [scheduled |-> FALSE, left |-> {}, timer |-> {}]
    /\ boot' = [phase |-> "claims", stale |-> {}]
    /\ UNCHANGED <<task, pauses>>

\* Claims of the dead process go back to the queue; then the tasks that look as if
\* they had been at work are listed.
BootRequeues ==
    /\ boot.phase = "claims"
    /\ row' = [t \in Tasks |-> IF IsInterrupted(row[t]) THEN FailedOrRetrying(row[t]) ELSE row[t]]
    /\ boot' = [phase |-> "tasks",
                stale |-> {t \in Tasks :
                    \/ task[t].status = "agent_working"
                    \/ task[t].status # "completed" /\ task[t].bound /\ IsActive(row'[t])}]
    /\ UNCHANGED <<task, pauses, sessions, attempt, stopping, stopper, stopped, drain, uses>>

Resuming(t) == attempt[t].kind = "resume" /\ attempt[t].phase = "resuming"

\* One listed task after the other; each waits for the reconnection of the one before.
BootTurn(t) ==
    /\ Quiet /\ boot.phase = "tasks" /\ t \in boot.stale
    /\ ~\E u \in Tasks : Resuming(u) /\ attempt[u].open
    /\ boot' = [boot EXCEPT !.stale = @ \ {t}]

\* A start of the task is in flight already, or it has a session: nothing to recover.
BootSkips(t) ==
    /\ BootTurn(t)
    /\ StartPending(t) \/ Live(t)
    /\ IF StartPending(t) THEN UNCHANGED <<row, task>>
       ELSE PutRow(t, Recovered(row[t])) /\ task' = [task EXCEPT ![t].bound = TRUE]
    /\ UNCHANGED <<pauses, sessions, attempt, stopping, stopper, stopped, drain, uses>>

\* No session to go back to, or a row that ended: the task is not started any more.
BootResetsUnlessEnded(t) ==                                                      \* slip
    /\ BootTurn(t)
    /\ ~StartPending(t) /\ ~Live(t)
    /\ IsTerminal(row[t]) \/ ~task[t].bound
    /\ IF IsTerminal(row[t]) THEN UNCHANGED <<row, task>>
       ELSE SetTask(t, "not_started", FALSE) /\ PutRow(t, Requeued(t))
    /\ UNCHANGED <<pauses, sessions, attempt, stopping, stopper, stopped, drain, uses>>
BootResets(t) ==
    /\ BootTurn(t)
    /\ ~StartPending(t) /\ ~Live(t)
    /\ IsTerminal(row[t]) \/ ~task[t].bound
    /\ SetTask(t, "not_started", FALSE)
    /\ PutRow(t, IF IsTerminal(row[t]) THEN row[t] ELSE Requeued(t))
    /\ UNCHANGED <<pauses, sessions, attempt, stopping, stopper, stopped, drain, uses>>

\* The saved session is reconnected, within AGENT_START_TIMEOUT_MS.
BootResumes(t) ==
    /\ BootTurn(t)
    /\ ~StartPending(t) /\ ~Live(t) /\ ~Stopping(t)
    /\ ~IsTerminal(row[t]) /\ task[t].bound
    /\ attempt' = [attempt EXCEPT ![t] =
            [phase |-> "resuming", generation |-> 0, open |-> TRUE, kind |-> "resume"]]
    /\ UNCHANGED <<row, task, pauses, sessions, stopping, stopper, stopped, drain, uses>>

\* resumeAdapterSession hands back a live session, busy or idle.  One cut off in its
\* turn is told to go on, or else moved to review.
ResumeReturns(t) ==
    /\ Quiet /\ Resuming(t) /\ task[t].bound
    /\ attempt' = [attempt EXCEPT ![t] = NoAttempt]
    /\ IF attempt[t].open /\ (task[t].status = "completed" \/ IsTerminal(row[t]))
       THEN UNCHANGED <<row, task, sessions>>
       ELSE \E status \in {"working", "idle"} :
            /\ sessions' = [sessions EXCEPT ![t] =
                    Append(@, [status |-> status, by |-> 0, reviewing |-> FALSE])]
            /\ task' = [task EXCEPT ![t].status =
                    IF @ = "completed" THEN @
                    ELSE IF status = "working" THEN "agent_working"
                    ELSE IF attempt[t].open THEN "ready_for_review" ELSE @]
            /\ PutRow(t, IF attempt[t].open THEN Recovered(row[t]) ELSE row[t])
    /\ ScheduleDrain
    /\ UNCHANGED <<pauses, stopping, stopper, stopped, boot, uses>>

\* The catch of a reconnection: the task goes back to the queue, unless it was
\* completed or stopped meanwhile.
Unreclaimed(t) ==
    IF attempt[t].open /\ task[t].status # "completed" /\ ~IsTerminal(row[t])
    THEN SetTask(t, "not_started", FALSE) /\ PutRow(t, Requeued(t))
    ELSE UNCHANGED <<row, task>>

\* The backend does not have the session any more (or its binding was cleared, and
\* what was reconnected is destroyed).
ResumeFails(t) ==
    /\ Quiet /\ Resuming(t)
    /\ Unreclaimed(t)
    /\ attempt' = [attempt EXCEPT ![t] = NoAttempt]
    /\ ScheduleDrain
    /\ UNCHANGED <<pauses, sessions, stopping, stopper, stopped, boot, uses>>

ResumeTimesOut(t) ==
    /\ Quiet /\ Resuming(t) /\ attempt[t].open
    /\ Spend("timeout")
    /\ Unreclaimed(t)
    /\ attempt' = [attempt EXCEPT ![t].open = FALSE]
    /\ UNCHANGED <<pauses, sessions, stopping, stopper, stopped, drain, boot>>

BootEndsQuietly ==                                                               \* slip
    /\ Quiet /\ boot.phase = "tasks" /\ boot.stale = {}
    /\ ~\E t \in Tasks : Resuming(t) /\ attempt[t].open
    /\ boot' = [boot EXCEPT !.phase = "done"]
    /\ UNCHANGED <<row, task, pauses, sessions, attempt, stopping, stopper, stopped, drain, uses>>
BootEnds ==
    /\ Quiet /\ boot.phase = "tasks" /\ boot.stale = {}
    /\ ~\E t \in Tasks : Resuming(t) /\ attempt[t].open
    /\ boot' = [boot EXCEPT !.phase = "done"]
    /\ UNCHANGED row
    /\ ScheduleDrain
    /\ UNCHANGED <<task, pauses, sessions, attempt, stopping, stopper, stopped, uses>>

BootStep ==
    \/ BootRequeues \/ BootEnds
    \/ \E t \in Tasks : BootSkips(t) \/ BootResets(t) \/ BootResumes(t)

ResumeStep(t) == ResumeReturns(t) \/ ResumeFails(t) \/ ResumeTimesOut(t)

Next ==
    \/ Crash \/ BootStep \/ DrainStep \/ Pause \/ Unpause \/ Sweep
    \/ \E t \in Tasks : \/ RequestStart(t) \/ ExplicitStart(t) \/ BackoffElapses(t)
                        \/ StartStep(t) \/ SessionStep(t) \/ ResumeStep(t)

Spec == Init /\ [][Next]_vars

\* The event loop, the timers and the drain run; the backends answer each call (an
\* answer may be an error); agents end their turns.  Nothing is asked of users, of the
\* reaper, or of the moment a deadline passes.
Fairness ==
    /\ WF_vars(DrainStep) /\ WF_vars(BootStep)
    /\ \A t \in Tasks :
        /\ WF_vars(StartStep(t)) /\ WF_vars(ResumeStep(t))
        /\ WF_vars(StopLooksAgain(t)) /\ WF_vars(TeardownSettles(t))
        /\ WF_vars(TurnEnds(t)) /\ WF_vars(ReviewLands(t))
        /\ WF_vars(BackoffElapses(t))

FairSpec == Spec /\ Fairness

------------------------------------------------------------------------------
(* Types. *)

\* Every variable has its type.
TypeOK ==
    /\ row \in [Tasks -> Rows]
    /\ task \in [Tasks -> [status : {"not_started", "agent_working", "ready_for_review", "completed"},
                           bound : BOOLEAN, excluded : BOOLEAN]]
    /\ pauses \in [all : BOOLEAN, projects : SUBSET Projects]
    /\ sessions \in [Tasks -> Seq(Sessions)]
    /\ attempt \in [Tasks -> Attempts]
    /\ stopping \in [Tasks -> [by : {"none", "user", "ui", "fence"}, held : Sessions]]
    /\ stopper \in [Tasks -> {"none", "joining", "waiting", "tearing"}]
    /\ stopped \subseteq Tasks
    /\ drain \in [scheduled : BOOLEAN, left : SUBSET Tasks, timer : SUBSET Tasks]
    /\ boot \in [phase : {"claims", "tasks", "done"}, stale : SUBSET Tasks]
    /\ uses \in [scenario : Scenarios, done : [Kinds -> Nat]]

------------------------------------------------------------------------------
(* Safety. *)

\* A claimed row is never left behind: the start that claimed it is in flight and
\* still answers to its caller, or the claim is a dead process's and boot has yet to
\* take it back (requestSessionNow, drainStartQueue, reconcileStartupNow).  Every
\* path out of a start has to settle the row it claimed.
ClaimsAreHeld ==
    \A t \in Tasks : IsClaimed(row[t]) =>
        \/ /\ row[t].lease = "current"
           /\ Reserved(t)
           /\ attempt[t].generation = row[t].generation
        \/ row[t].lease = "previous" /\ boot.phase = "claims"

\* Once a user's stop has returned, the task's row has ended and no session of it
\* works, whatever start, drain, retry or recovery was under way (stopByTaskId).  It
\* holds as long as no start was taken down by itself (at a deadline, for a label) or
\* could not be: a stop that joins such a teardown does not touch the row.
StopIsFinal ==
    Never("timeout") /\ Never("label") /\ Never("refuse") =>
        \A t \in stopped : stopper[t] = "none" /\ ~Stopping(t) =>
            IsTerminal(row[t]) /\ ~Working(t)

\* A row that ended is only put back in the queue by a person's start (startTask):
\* no recovery, repair, drain or late answer of a start does it.
NoResurrection ==
    [][\A t \in Tasks : IsTerminal(row[t]) /\ ~IsTerminal(row'[t]) => ExplicitStart(t)]_vars

\* What keeps a backend at work: a working session, a start in flight, and a working
\* session a user is stopping.  (One whose start was withdrawn is torn down beside.)
Holding == {t \in Tasks :
    \/ Working(t) \/ Reserved(t)
    \/ stopping[t].by \in {"user", "ui"} /\ stopping[t].held.status = "working"}

\* The limits hold of every slot taken, although a slot passes from a reservation to a
\* session to a teardown (countedSessions, admittedStarts), as long as nobody set a
\* session to work without asking: boot, which resumes what was at work, a message to
\* an idle session, or a teardown that was refused and puts its session back.
SlotsHold ==
    Never("crash") /\ Never("message") /\ Never("refuse") => WithinLimits(Holding)

\* A task never has two sessions at work (the guards of requestSessionNow, of the
\* drain and of the fences together).
AtMostOneWorking ==
    \A t \in Tasks :
        Cardinality({i \in DOMAIN sessions[t] : sessions[t][i].status = "working"}) <= 1

\* No wakeup is lost: while a waiting start could run, a drain is due, or the retry
\* timer is about to ask for one, or a turn that ended or a failed prompt's teardown
\* is on its way to ask for one (emitStatus, and every other caller of
\* scheduleStartQueueDrain).
NoMissedWakeup ==
    \/ ~Serving \/ drain.scheduled
    \/ \E t \in drain.timer : row[t].due \/ row[t].state # "retrying"
    \/ \E t \in Tasks : \/ attempt[t].phase = "closing"
                        \/ \E i \in DOMAIN sessions[t] : sessions[t][i].reviewing
    \/ \A t \in Tasks : ~(MayClaim(row[t]) /\ Startable(t) /\ Admitted(t, Context))

\* A task that says an agent works on it has somebody to answer for it: a session, a
\* start or a stop under way, a row in the queue, or boot, which has yet to come to it
\* (reconcileStartupNow resets or resumes every task it lists, one after the other).
\* Where a label excludes the task from starts while one of it is under way, the start
\* is cancelled and nobody takes the status back.
WorkingIsBacked ==
    \A t \in Tasks : task[t].status = "agent_working" /\ Never("label") =>
        \/ Live(t) \/ StartPending(t) \/ IsActive(row[t])
        \/ Stopping(t) \/ stopper[t] # "none"
        \/ boot.phase = "claims" \/ t \in boot.stale

------------------------------------------------------------------------------
(* Liveness. *)

\* A waiting start leaves the queue (it starts, ends or is cancelled), unless it waits
\* for a predecessor or everything is paused.  A teardown that is refused gives back a
\* slot without asking for a drain: then it may take the next sweep.
QueuedLeaves ==
    \A t \in Tasks : IsDispatchable(row[t]) ~>
        \/ ~IsDispatchable(row[t]) \/ WaitsForPredecessor(t)
        \/ pauses.all \/ ProjectOf[t] \in pauses.projects \/ ~Never("refuse")

\* A claim is settled, over deadlines and crashes.
ClaimsSettle == \A t \in Tasks : IsClaimed(row[t]) ~> ~IsClaimed(row[t])

\* A user's stop returns.
StopsReturn == \A t \in Tasks : stopper[t] # "none" ~> stopper[t] = "none"

==============================================================================
