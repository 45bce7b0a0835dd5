----------------------------- MODULE AgentStarts -----------------------------
(***************************************************************************)
(* How AgentManager starts, stops and recovers the sessions of ordinary    *)
(* tasks (src/main/agent-manager-core.ts) over the durable start queue.    *)
(*                                                                         *)
(* The main process is one thread: code between two awaits runs to         *)
(* completion, and everything else happens at an await.  An action is one  *)
(* such run, named for the call it belongs to.  The exceptions are a queue *)
(* drain and the claim of a row, split further because a crash may come    *)
(* between two SQL commits; Quiet keeps everything but a crash out of      *)
(* them.  Adapters (the agent backends) answer, fail or hang as they like. *)
(*                                                                         *)
(* This module is the start path: requests, the queue drain, and a start   *)
(* from its claim to its acknowledgement.  AgentSessions adds the stops    *)
(* and the turns, AgentLifecycle the crash and the recovery after it.      *)
(*                                                                         *)
(* Left out: triage, coordinator and heartbeat sessions (exempt from       *)
(* admission), task groups, provider recovery and fallback agents, the     *)
(* error status of a session, reassignment and deletion of a task, chains  *)
(* that go on at review, and the message outbox (a delivery is the wake it *)
(* causes; a message that has to open a session first is left out).        *)
(***************************************************************************)
EXTENDS Admission, StartQueueRow, SequencesExt

CONSTANTS
    Predecessors,     \* the siblings a serial chain makes each task wait for
    Scenarios,        \* how often the environment may do each of Kinds, to which tasks
    StartOverIdle     \* whether a task with an idle session is started again

Kinds == {"start", "explicit", "message", "stop", "end", "label", "complete", "pause",
          "sweep", "timeout", "refuse", "crash"}

ASSUME StartsAssumption ==
    /\ Predecessors \in [Tasks -> SUBSET Tasks]
    /\ Scenarios \subseteq [most : [Kinds -> Nat], tasks : SUBSET Tasks]
    /\ StartOverIdle \in BOOLEAN

VARIABLES
    row,          \* durable: task -> its row of agent_start_queue
    task,         \* durable: task -> [status, bound (has a session_id), excluded (by a label)]
    pauses,       \* durable: [all, projects]
    sessions,     \* the registered sessions of each task, oldest first (the Map's order)
    attempt,      \* task -> the start in flight (sessionStarts, admittedStarts, rawTaskStarts)
    stopping,     \* task -> the teardown in flight (taskStops)
    stopper,      \* task -> where its stopByTaskId is
    stopped,      \* history: the tasks whose last word from the user was a stop
    drain,        \* [scheduled, left (entries to visit), timer (rows the retry timer is for)]
    boot,         \* [phase, stale]: reconcileStartup
    uses          \* the scenario, and how often each of Kinds was done

vars == <<row, task, pauses, sessions, attempt, stopping, stopper, stopped, drain, boot, uses>>

Sessions == [status : {"working", "idle"}, by : Nat, reviewing : BOOLEAN]
Phases == {"none", "claimed", "preparing", "resuming", "creating", "binding", "prompting",
           "closing", "fencing", "unacked", "orphan"}
Attempts == [phase : Phases, generation : Nat, open : BOOLEAN,
             kind : {"request", "drain", "resume"}]

NoAttempt == [phase |-> "none", generation |-> 0, open |-> FALSE, kind |-> "request"]
NoSession == [status |-> "idle", by |-> 0, reviewing |-> FALSE]
NoTeardown == [by |-> "none", held |-> NoSession]

Init ==
    /\ row = [t \in Tasks |-> NoRow]
    /\ task = [t \in Tasks |-> [status |-> "not_started", bound |-> FALSE, excluded |-> FALSE]]
    /\ pauses = [all |-> FALSE, projects |-> {}]
    /\ sessions = [t \in Tasks |-> <<>>]
    /\ attempt = [t \in Tasks |-> NoAttempt]
    /\ stopping = [t \in Tasks |-> NoTeardown]
    /\ stopper = [t \in Tasks |-> "none"]
    /\ stopped = {}
    /\ drain = [scheduled |-> FALSE, left |-> {}, timer |-> {}]
    /\ boot = [phase |-> "done", stale |-> {}]
    /\ uses \in [scenario : Scenarios, done : {[k \in Kinds |-> 0]}]

------------------------------------------------------------------------------
(* Reading the state. *)

Live(t) == sessions[t] # <<>>
Working(t) == \E i \in DOMAIN sessions[t] : sessions[t][i].status = "working"
StartPending(t) == attempt[t].phase # "none"          \* sessionStarts or rawTaskStarts
Stopping(t) == stopping[t].by # "none"                \* taskStops

\* admittedStarts: the slot a start holds until its promise settles.
Reserved(t) == attempt[t].open /\ attempt[t].kind \in {"request", "drain"}

\* countedSessions
CountedAtWork == {t \in Tasks : Working(t) \/ Stopping(t)}                         \* slip
Counted == {t \in Tasks : Working(t) \/ Stopping(t) \/ Reserved(t)}

\* hasActiveSessionForTask
HasActive(t) == Stopping(t) \/ Working(t)

\* retryExclusion
Excluded(t) == task[t].excluded \/ task[t].status = "completed"

\* isSerialChainStart
WaitsForPredecessor(t) == \E p \in Predecessors[t] : task[p].status # "completed"

Context == [running |-> Counted, allPaused |-> pauses.all, paused |-> pauses.projects,
            startedToday |-> [p \in Projects |-> 0]]

\* mayStart of startSessionNow: the claim this start was made for is still in force.
MayStart(t) ==
    /\ row[t].generation = attempt[t].generation
    /\ row[t].state = "starting"
    /\ ~Excluded(t)

\* The session the start in flight registered, if it is still registered.
OwnIndex(t) == {i \in DOMAIN sessions[t] : sessions[t][i].by = attempt[t].generation}
WithoutOwn(t) == IF OwnIndex(t) = {} THEN sessions[t]
                 ELSE RemoveAt(sessions[t], CHOOSE i \in OwnIndex(t) : TRUE)

\* No synchronous run is in the middle.
Quiet == drain.left = {} /\ \A t \in Tasks : attempt[t].phase # "claimed"

\* IPC and the schedulers are served once reconcileStartup returned.
Serving == Quiet /\ boot.phase = "done"

\* The task API is up before it, and serves the agents reconnected so far.
Callable == \/ Serving
            \/ Quiet /\ boot.phase = "tasks" /\ \E t \in Tasks : Live(t)

HasTaskStartOwnership(t) == Stopping(t) \/ StartPending(t) \/ Live(t) \/ IsActive(row[t])

------------------------------------------------------------------------------
(* Steps the actions share. *)

Spend(kind) == /\ uses.done[kind] < uses.scenario.most[kind]
               /\ uses' = [uses EXCEPT !.done[kind] = @ + 1]
SpendOn(t, kind) == t \in uses.scenario.tasks /\ Spend(kind)
Never(kind) == uses.done[kind] = 0

PutRow(t, r) == row' = [row EXCEPT ![t] = r]
SetTask(t, status, bound) == task' = [task EXCEPT ![t].status = status, ![t].bound = bound]

\* scheduleStartQueueDrain, after the rows were written: nothing to do with no
\* active row, or when a drain is due already.
ScheduleDrain ==
    drain' = IF drain.scheduled \/ \A t \in Tasks : ~IsActive(row'[t]) THEN drain
             ELSE [drain EXCEPT !.scheduled = TRUE, !.timer = {}]

\* The promise of a start rejects while its claim is in force: an excluded task is
\* cancelled, any other goes back to the queue or fails for good
\* (the catch of requestSessionNow and of a drained start).
RejectedInAnyState(t) ==                                                         \* slip
    IF Reserved(t) /\ row[t].generation = attempt[t].generation
    THEN PutRow(t, FailedOrRetrying(row[t])) /\ SetTask(t, "not_started", FALSE)
    ELSE UNCHANGED <<row, task>>
RejectedUnlessExcluded(t) ==                                                     \* slip
    IF Reserved(t) /\ row[t].generation = attempt[t].generation /\ row[t].state = "starting" /\ ~Excluded(t)
    THEN PutRow(t, FailedOrRetrying(row[t])) /\ SetTask(t, "not_started", FALSE)
    ELSE UNCHANGED <<row, task>>
Rejected(t) ==
    IF Reserved(t) /\ row[t].generation = attempt[t].generation /\ row[t].state = "starting"
    THEN IF Excluded(t)
         THEN PutRow(t, Ended(row[t], "cancelled")) /\ UNCHANGED task
         ELSE PutRow(t, FailedOrRetrying(row[t])) /\ SetTask(t, "not_started", FALSE)
    ELSE UNCHANGED <<row, task>>

\* The start is over, or only its backend call is left of it.
Reject(t, next) ==
    /\ Rejected(t)
    /\ attempt' = [attempt EXCEPT ![t] = next]
    /\ ScheduleDrain

\* stopSession(own session, false, true): the session of a withdrawn start is taken
\* off the map and torn down under the task's stop lock.  Where the task is being
\* stopped already, the call joins that stop and leaves the session alone.
FenceOwn(t, phase) ==
    /\ attempt' = [attempt EXCEPT ![t].phase = phase]
    /\ IF OwnIndex(t) # {} /\ ~Stopping(t)
       THEN /\ sessions' = [sessions EXCEPT ![t] = WithoutOwn(t)]
            /\ stopping' = [stopping EXCEPT ![t] =
                    [by |-> "fence", held |-> sessions[t][CHOOSE i \in OwnIndex(t) : TRUE]]]
       ELSE UNCHANGED <<sessions, stopping>>

\* stopSession(own session, false): as above, with nothing held.
DropOwn(t) ==
    sessions' = IF Stopping(t) THEN sessions ELSE [sessions EXCEPT ![t] = WithoutOwn(t)]

------------------------------------------------------------------------------
(* Asking for a start: requestSessionNow, startTask. *)

\* Nothing answers the request before admission is asked: no stop, no start in
\* flight, and no session but an idle one.
MayAskBesideASession(t) == ~Stopping(t)                                          \* slip
MayAsk(t) ==
    /\ ~Stopping(t)
    /\ Live(t) => StartOverIdle /\ sessions[t][1].status = "idle"

\* A scheduler, a sibling task or a user asks.  An ended row refuses (throws), an
\* active one answers "queued": neither changes anything.
RequestStart(t) ==
    /\ Callable /\ MayAsk(t) /\ ~StartPending(t)
    /\ task[t].status # "completed"
    /\ ~IsTerminal(row[t]) /\ ~IsActive(row[t])
    /\ SpendOn(t, "start")
    /\ IF WaitsForPredecessor(t) \/ ~Admitted(t, Context)
       THEN /\ PutRow(t, Enqueued(row[t]))
            /\ UNCHANGED attempt
       ELSE /\ PutRow(t, Claimed(Enqueued(row[t])))
            /\ attempt' = [attempt EXCEPT ![t] =
                    [phase |-> "claimed", generation |-> Claimed(Enqueued(row[t])).generation,
                     open |-> TRUE, kind |-> "request"]]
    /\ UNCHANGED <<task, pauses, sessions, stopping, stopper, stopped, drain, boot>>

\* startTask with explicitUserStart: the one way past an ended row.  It is enqueued
\* even while an earlier start of the task is still in flight.
ExplicitStart(t) ==
    /\ Serving /\ MayAsk(t)
    /\ IsTerminal(row[t])
    /\ SpendOn(t, "explicit")
    /\ PutRow(t, Enqueued(row[t]))
    /\ stopped' = stopped \ {t}
    /\ ScheduleDrain
    /\ UNCHANGED <<task, pauses, sessions, attempt, stopping, stopper, boot>>

------------------------------------------------------------------------------
(* drainStartQueue: one synchronous loop over the waiting rows.  Its order is    *)
(* StartOrder's; here they come in any order.                                    *)

DrainBegins ==
    /\ drain.scheduled /\ Quiet
    /\ drain' = [drain EXCEPT !.scheduled = FALSE,
                    !.left = IF boot.phase = "done" THEN {t \in Tasks : IsDispatchable(row[t])}
                             ELSE {}]
    /\ UNCHANGED <<row, task, pauses, sessions, attempt, stopping, stopper, stopped, boot, uses>>

Visiting(t) == /\ t \in drain.left
               /\ \A u \in Tasks : attempt[u].phase # "claimed"
LeftWithout(t) == [drain EXCEPT !.left = @ \ {t}]

\* An ineligible task is dropped for good.
DrainCancels(t) ==
    /\ Visiting(t) /\ Excluded(t)
    /\ PutRow(t, Ended(row[t], "cancelled"))
    /\ drain' = LeftWithout(t)
    /\ UNCHANGED <<task, pauses, sessions, attempt, stopping, stopper, stopped, boot, uses>>

\* The task is running already: its row is settled instead of started twice.
DrainFindsRunning(t) ==
    /\ Visiting(t) /\ ~Excluded(t) /\ ~StartPending(t) /\ HasActive(t)
    /\ IF Live(t) THEN PutRow(t, Recovered(row[t])) ELSE UNCHANGED row
    /\ drain' = LeftWithout(t)
    /\ UNCHANGED <<task, pauses, sessions, attempt, stopping, stopper, stopped, boot, uses>>

\* Every check of the loop but the limits lets the entry through.
Startable(t) == /\ ~Excluded(t) /\ ~StartPending(t) /\ ~HasActive(t)
                /\ row[t].due /\ ~WaitsForPredecessor(t)

\* The entry stays: it is being started, backs off (the retry timer will look
\* again), waits for a predecessor, or the limits refuse it.  A global refusal
\* ends the loop.
DrainPassesUntimed(t) ==                                                         \* slip
    /\ Visiting(t) /\ ~Excluded(t)
    /\ \/ StartPending(t) \/ (~HasActive(t) /\ WaitsForPredecessor(t)) \/ (~HasActive(t) /\ ~row[t].due)
       \/ Startable(t) /\ ~Admitted(t, Context)
    /\ drain' = LeftWithout(t)
    /\ UNCHANGED <<row, task, pauses, sessions, attempt, stopping, stopper, stopped, boot, uses>>
DrainPasses(t) ==
    /\ Visiting(t) /\ ~Excluded(t)
    /\ \/ /\ StartPending(t) \/ (~HasActive(t) /\ row[t].due /\ WaitsForPredecessor(t))
          /\ drain' = LeftWithout(t)
       \/ /\ ~StartPending(t) /\ ~HasActive(t) /\ ~row[t].due
          /\ drain' = [LeftWithout(t) EXCEPT !.timer = @ \cup {t}]
       \/ /\ Startable(t) /\ ~Admitted(t, Context)
          /\ drain' = IF AdmissionReason(t, Context) \in GlobalReasons
                      THEN [drain EXCEPT !.left = {}] ELSE LeftWithout(t)
    /\ UNCHANGED <<row, task, pauses, sessions, attempt, stopping, stopper, stopped, boot, uses>>

\* The entry is claimed and its slot reserved, so that the next entry sees it.
DrainClaims(t) ==
    /\ Visiting(t) /\ Startable(t) /\ Admitted(t, Context)
    /\ MayClaim(row[t])
    /\ PutRow(t, Claimed(row[t]))
    /\ attempt' = [attempt EXCEPT ![t] =
            [phase |-> "claimed", generation |-> Claimed(row[t]).generation,
             open |-> TRUE, kind |-> "drain"]]
    /\ drain' = LeftWithout(t)
    /\ UNCHANGED <<task, pauses, sessions, stopping, stopper, stopped, boot, uses>>

\* The second commit of a claim; startSessionNow has begun.
MarkStarting(t) ==
    /\ attempt[t].phase = "claimed"
    /\ MayMarkStarting(row[t], attempt[t].generation)
    /\ PutRow(t, MarkedStarting(row[t]))
    /\ attempt' = [attempt EXCEPT ![t].phase = "preparing"]
    /\ UNCHANGED <<task, pauses, sessions, stopping, stopper, stopped, drain, boot, uses>>

\* A retrying row's backoff is over; the retry timer fires at the earliest of those
\* it was set for.
BackoffElapses(t) ==
    /\ Quiet /\ row[t].state = "retrying" /\ ~row[t].due
    /\ PutRow(t, BackoffOver(row[t]))
    /\ UNCHANGED <<task, pauses, sessions, attempt, stopping, stopper, stopped, drain, boot, uses>>

RetryTimerFires ==
    /\ Quiet
    /\ \E t \in drain.timer : row[t].due \/ row[t].state # "retrying"
    /\ drain' = IF \E t \in Tasks : IsActive(row[t])
                THEN [drain EXCEPT !.scheduled = TRUE, !.timer = {}]
                ELSE [drain EXCEPT !.timer = {}]
    /\ UNCHANGED <<row, task, pauses, sessions, attempt, stopping, stopper, stopped, boot, uses>>

------------------------------------------------------------------------------
(* A start from its claim on: startSessionNow and startAdapterSession.  "open"   *)
(* says that the promise callers wait on (sessionStarts) is still pending; once  *)
(* its deadline has passed only the work itself (rawTaskStarts) is left.         *)

At(t, phases) == Quiet /\ attempt[t].phase \in phases

\* The worktree is set up and the backend probed; ownership is asked for once more
\* before the session is created.
BeginCreate(t) ==
    /\ At(t, {"preparing"})
    /\ IF MayStart(t)
       THEN /\ attempt' = [attempt EXCEPT ![t].phase = "creating"]
            /\ UNCHANGED <<row, task, drain>>
       ELSE Reject(t, NoAttempt)
    /\ UNCHANGED <<pauses, sessions, stopping, stopper, stopped, boot, uses>>

\* The set-up, the probe or the creation of the session fails.
StartFails(t) ==
    /\ At(t, {"preparing", "creating"})
    /\ Reject(t, NoAttempt)
    /\ UNCHANGED <<pauses, sessions, stopping, stopper, stopped, boot, uses>>

\* The session is registered, and then kept only if the claim still stands.
RegisteredIn(s, t) ==
    Append(s, [status |-> "working", by |-> attempt[t].generation, reviewing |-> FALSE])
CreateSucceeds(t) ==
    /\ At(t, {"creating"})
    /\ IF MayStart(t)
       THEN /\ sessions' = [sessions EXCEPT ![t] = RegisteredIn(@, t)]
            /\ SetTask(t, "agent_working", TRUE)
            /\ attempt' = [attempt EXCEPT ![t].phase = "binding"]
            /\ UNCHANGED stopping
       ELSE /\ attempt' = [attempt EXCEPT ![t].phase = "fencing"]
            /\ IF Stopping(t)
               THEN /\ sessions' = [sessions EXCEPT ![t] = RegisteredIn(@, t)]
                    /\ UNCHANGED stopping
               ELSE /\ stopping' = [stopping EXCEPT ![t] =
                            [by |-> "fence", held |-> Last(RegisteredIn(<<>>, t))]]
                    /\ UNCHANGED sessions
            /\ UNCHANGED task
    /\ UNCHANGED <<row, pauses, stopper, stopped, drain, boot, uses>>

\* Ownership once more, before the prompt is written.  A session stopped meanwhile
\* is found gone only when the prompt needs it (a TypeError, outside the inner try).
CheckBeforePrompt(t) ==
    /\ At(t, {"binding"})
    /\ \/ /\ MayStart(t) /\ OwnIndex(t) # {}
          /\ attempt' = [attempt EXCEPT ![t].phase = "prompting"]
          /\ UNCHANGED <<row, task, sessions, stopping, drain>>
       \/ /\ MayStart(t) /\ OwnIndex(t) = {}
          /\ Reject(t, NoAttempt)
          /\ UNCHANGED <<sessions, stopping>>
       \/ /\ ~MayStart(t)
          /\ FenceOwn(t, "fencing")
          /\ UNCHANGED <<row, task, drain>>
    /\ UNCHANGED <<pauses, stopper, stopped, boot, uses>>

\* The backend accepted the prompt.  In time: the claim is acknowledged, or the
\* session fenced if it was withdrawn.  Late: the session is taken down.
PromptAccepted(t) ==
    /\ At(t, {"prompting"})
    /\ \/ /\ attempt[t].open /\ Owns(row[t], attempt[t].generation)
          /\ PutRow(t, Acknowledged(row[t]))
          /\ attempt' = [attempt EXCEPT ![t] = NoAttempt]
          /\ ScheduleDrain
          /\ UNCHANGED <<sessions, stopping>>
       \/ /\ attempt[t].open /\ ~Owns(row[t], attempt[t].generation)
          /\ FenceOwn(t, "unacked")
          /\ UNCHANGED row
          /\ ScheduleDrain
       \/ /\ ~attempt[t].open
          /\ DropOwn(t)
          /\ attempt' = [attempt EXCEPT ![t] = NoAttempt]
          /\ UNCHANGED <<row, stopping>>
          /\ ScheduleDrain
    /\ UNCHANGED <<task, pauses, stopper, stopped, boot, uses>>

\* The prompt may have had its effect: the row fails for good, whatever claim it is
\* under by now, and the session is taken down.
PromptFails(t) ==
    /\ At(t, {"prompting"})
    /\ PutRow(t, Ended(row[t], "failed"))
    /\ DropOwn(t)
    /\ attempt' = [attempt EXCEPT ![t].phase = "closing"]
    /\ UNCHANGED <<task, pauses, stopping, stopper, stopped, drain, boot, uses>>

\* The teardown of the failed prompt's session returned; the error is rethrown.
CloseSettles(t) ==
    /\ At(t, {"closing"}) /\ ~Stopping(t)
    /\ IF task[t].status # "completed" /\ task[t].bound
       THEN SetTask(t, "not_started", FALSE) ELSE UNCHANGED task
    /\ UNCHANGED row
    /\ attempt' = [attempt EXCEPT ![t] = NoAttempt]
    /\ ScheduleDrain
    /\ UNCHANGED <<pauses, sessions, stopping, stopper, stopped, boot, uses>>

\* The teardown a withdrawn start waited for returned; the start rejects.
FenceEnds(t) ==
    /\ At(t, {"fencing", "unacked"}) /\ ~Stopping(t)
    /\ Reject(t, NoAttempt)
    /\ UNCHANGED <<pauses, sessions, stopping, stopper, stopped, boot, uses>>

\* The backend did not create the session within AGENT_SESSION_START_TIMEOUT_MS:
\* the start rejects, and its slot is free while the backend call is still out.
CreateTimesOut(t) ==
    /\ At(t, {"creating"})
    /\ Spend("timeout")
    /\ Reject(t, [attempt[t] EXCEPT !.phase = "orphan", !.open = FALSE])
    /\ UNCHANGED <<pauses, sessions, stopping, stopper, stopped, boot>>

\* It answers at last: a session it did create is retired unregistered.
OrphanSettles(t) ==
    /\ At(t, {"orphan"})
    /\ UNCHANGED row
    /\ attempt' = [attempt EXCEPT ![t] = NoAttempt]
    /\ ScheduleDrain
    /\ UNCHANGED <<task, pauses, sessions, stopping, stopper, stopped, boot, uses>>

\* The whole start did not settle within AGENT_START_TIMEOUT_MS: it rejects, and the
\* work goes on behind it.
StartTimesOut(t) ==
    /\ At(t, {"preparing", "creating", "binding", "prompting", "fencing", "closing"})
    /\ attempt[t].open
    /\ Spend("timeout")
    /\ Reject(t, [attempt[t] EXCEPT !.open = FALSE])
    /\ UNCHANGED <<pauses, sessions, stopping, stopper, stopped, boot>>

StartStep(t) ==
    \/ MarkStarting(t) \/ BeginCreate(t) \/ StartFails(t) \/ CreateSucceeds(t)
    \/ CheckBeforePrompt(t) \/ PromptAccepted(t) \/ PromptFails(t) \/ CloseSettles(t)
    \/ FenceEnds(t) \/ CreateTimesOut(t) \/ OrphanSettles(t) \/ StartTimesOut(t)

DrainStep == \/ DrainBegins \/ RetryTimerFires
             \/ \E t \in Tasks : \/ DrainCancels(t) \/ DrainFindsRunning(t)
                                \/ DrainPasses(t) \/ DrainClaims(t)
==============================================================================
