# 21x: a verification project for the session core

21x (`src/`) is a desktop application that runs coding agents on the tasks of many
projects. Its main process queues, starts, watches, stops and recovers agent sessions,
and decides how many of them may run at once; each project has a Captain, an agent that
coordinates the others and writes issues on GitHub in the user's name. That is the part this
project specifies:
TLA+ modules translated from the TypeScript source, TLC runs on small instances, and
theorems that TLAPS checks for instances of any size.

Paths below are relative to the root of the repository; `PROJECT.json` writes a further
`src/` in front of them, so that `src/main/...` is `src/src/main/...` there. AMC stands for
`src/main/agent-manager-core.ts`.

1. [The system](#1-the-system) is the inventory of its parts.
2. [The modules](#2-the-modules) says what models what.
3. [The runs](#3-the-runs) says what TLC checks, with which bounds and fairness.
4. [The proofs](#4-the-proofs) says what holds for every instance, and why.
5. [Where code and documents disagree](#5-where-code-and-documents-disagree).
6. [What is not modelled](#6-what-is-not-modelled).
7. [The plan](#7-the-plan).

---

## 1. The system

### 1.1 Sessions of tasks

| Component | State it keeps | Operations | Talks to |
| --- | --- | --- | --- |
| **Durable start queue** (`sessions/start-queue-store.ts`) | SQLite table `agent_start_queue`: per task a state, a generation, a retry count, `next_retry_at`, a lease | `enqueue`, `claim`, `markStarting`, `acknowledgeStarted`, `failOrRetry`, `markRecovered`, `cancel`, `fail`, `interruptedClaims`, `requeueInterrupted` | called by AgentManager |
| **Admission control** (`agent-manager/admission.ts`, `shared/concurrency.ts`, `project-limits.ts`) | project pauses, `project_daily_usage`; the running sessions are passed in | `checkAdmission` (eight checks in order), `orderStartQueue`, `recordProjectSessionStart` | asked by every start path |
| **AgentManager: starts, stops, recovery** (AMC) | in memory: `sessions` (a Map in insertion order), `sessionStarts`, `admittedStarts`, `rawTaskStarts`, `taskStops`, the drain flag, the retry timer; durable: a task's `status` and `session_id` | `startTask`, `startSession`, `drainStartQueue`, `startSessionNow`, `startAdapterSession`, `stopByTaskId`, `stopSession`, `transitionToIdle`, `reapInactiveSessions`, `doSendAdapterMessage`, `reconcileTaskRuntime`, `reconcileStartup` | the queue, admission, agent backends, schedulers, the task API |
| **Agent backends** (`adapters/`) | a process or an HTTP session of a third-party agent | create, resume, prompt, abort, destroy, poll | answer, fail or stay silent |
| **Task updates** (`task-updates.ts`) | task rows | stop before a move, completion, exclusion labels | AgentManager's stops |

### 1.2 Messages and managed sessions

| Component | State it keeps | Operations |
| --- | --- | --- |
| **Message outbox** (`sessions/delivery-store.ts`, and the flights in AMC) | table `delivery_outbox`: per message a state (pending, claimed, accepted, acknowledged, failed, timed_out, cancelled), an attempt count, a claim's owner and lease, a deadline; in memory `deliveryFlights`, `deliveryTaskTails` | `enqueue`, `claim`, `accept`, `acknowledge`, `release`, `reopen`, `terminal`, `bindReport`, `cancelUnacceptedForTask`, `listRecoverable`, `expireDeadlines`; `sendMessage`, `dispatchAgentMessage`, `recoverAgentMessages` |
| **Managed sessions** (`sessions/managed-session.ts`, `event-inbox.ts`, `ledger.ts`, `adapter-engine.ts`) | tables `session_event_inbox` (observations, pending or projected), `session_generations` and `session_turns` (what they add up to); in memory the turns and observations this process owns, the attempt accounted to each intent | `observe`, `drainOwned`, `reconcileStartup`, `reconcileInterrupted`, `shutdown`; `createSession`, `resumeSession`, `sendPrompt`, `finishTurn`; `markSessionLost`, `emitStatus` |
| **Captain runtime and rollover** (`sessions/runtime-store.ts`, `captain-rollover.ts`, `handoff.ts`, and AMC) | table `managed_agent_runtimes`: per Captain a generation, a phase, its agent, the candidate, the last agent known to be good, a deadline; table `session_handoffs`: per replaced session how far its handoff is and which session replaces it; `projects.captain_agent_id`, the task's `session_id` and the agent it was recorded with; in memory `sessions`, the active rollover | `begin`, `transition`, `expireStale`; `startSessionNow`, `switchCaptainAgent`, `rollbackCaptainSwitch`, `releaseCaptainIfAgentChanged`, `maybeRolloverCaptain`, `bindCaptainRollover`, `recoverCreatedCaptainHandoff`, boot |
| **Provider recovery** (`sessions/provider-recovery-store.ts`, and AMC) | table `agent_provider_recovery`: one row per task, for the prompt sent last: a state (sending, accepted, retrying, dispatching, failed, cancelled, completed), a generation, an attempt count, a backoff, fallback agents | `begin`, `change`, `schedule`, `cancel`; `sendTrackedPrompt`, `tryProviderRecovery`, `dispatchProviderRecovery`, `failProviderRecovery` |
| **Captain waker** (`captain-waker.ts`, and AMC) | in memory, per project: the batch of pending events with its timer, the wakes of the last hour, whether one is under way; per task when the Captain touched it | `handleEvent`, `noteCoordinatorTouched`, `flush`, `recordDrop`, `shutdown`, `close`; `deliverCaptainWake`, `recordDroppedCaptainWake` |

### 1.3 Writes to GitHub

| Component | State it keeps | Operations |
| --- | --- | --- |
| **Issue writes** (`issue-writes.ts`, `database/manager.ts`) | table `issue_writes`: per idempotency key a status (reserved, succeeded, failed, unresolved), an attempt epoch, a lease, whom and what the key is bound to, `effects_applied_at` | `performIssueWrite`, `reconcileIssueWrites`; `beginIssueWrite`, `settleIssueWrite`, `applyIssueWriteEffects`, `listUnresolvedIssueWrites` |
| **Merge gate** (`pull-request-merge.ts`) | the approvals of a merge | ask, approve, merge, reconcile |

### 1.4 Around the sessions

Task automation and subtask chains (`task-automation-scheduler.ts`), heartbeat,
recurrence and scheduled coordination, concurrency control under resource pressure, git
worktrees and their cleanup, the database
layer, the task API, the mobile API and IPC, Commander and chat, connectors, plugins and
OAuth, voice, the renderer, and a Tauri host with a Rust engine. `PROJECT.json` lists them
with their status.

### 1.5 What is hard

The main process is one thread, so code between two awaits is atomic. What is hard lies at
the awaits and at the process's death:

- a start awaits four times (set-up, creation of the session, the run of the first prompt,
  the teardown of a withdrawn session), and a stop, a label, a second start, a deadline or a
  crash may come at each of them. The source answers with a *generation* per row and a
  re-check (`mayStart`) after every await;
- two deadlines (60 s for the creation, and one for the whole start) reject the *promise*
  of a start while its work goes on behind it;
- a stop joins a teardown that is under way, whoever began it;
- a slot passes from a reservation to a session to a teardown, each in another map;
- every transition that frees a slot must ask for a drain, or a waiting start waits on;
- a handoff of a message has a deadline (180 s) three times as long as the lease of its
  claim (60 s), and its work goes on behind either; a rejected prompt is acknowledged
  because another part, provider recovery, now owes it;
- boot recovers tasks one after the other, with an await each, while the agents it already
  reconnected may call the task API;
- a Captain's start, its switch to another agent and the rollover of its session have three
  owners of their own (a generation, a promise, an abort signal) and write the same row, the
  same binding and the same map of sessions;
- a backend that is asked for a session, and GitHub that is asked for an issue, may do it and
  say nothing: whether it was done is then not known, and asking again would do it twice;
- each commit of the database is atomic, a sequence of two is not.

### 1.6 What makes each part correct

- **Queue**: only the claim handed out last can settle a row; retries are bounded across
  failures and crashes; an ended row comes back by an enqueue only; a boot takes back the
  claims of dead processes and no other.
- **Admission**: limits hold of all running tasks together; nothing is refused that would
  have fitted; a global refusal is one of every start; the daily cap holds per day.
- **Lifecycle**: every claim has its start; a task has one session at work; a stop that
  returned is final; no slot is taken twice; no wakeup is lost; every claim is settled,
  every waiting start leaves the queue and every stop returns.
- **Messages**: a claim has a flight that settles it; the backend takes a message once; what
  is given up for another try was not taken; a stop is a boundary no earlier message crosses;
  every message comes to an end; an acknowledged one is never lost.
- **Captain**: one replacement is made per handoff and is on record; the replaced session has
  stopped when the new one is bound; the selected agent is one that came up; a row said to be
  healthy or starting is; one session runs when nothing is in progress.
- **Managed sessions**: a turn ends once, as it was reported to; what a dead process left
  running is found, and nothing else is called crashed.
- **Captain waker**: an hour takes so many wakes; an event that was let in is told or kept as
  dropped, even if the Captain never goes idle.
- **Issue writes**: one write per key, by the Captain that asked, recorded as done only when
  GitHub shows it, with its local effects once.

`PROJECT.json` lists the hazards with the line at which each bites and the properties that
cover it.

---

## 2. The modules

```
 StartQueueRow ───────┬── StartQueueStore ── MCStartQueueStore
 (one row, pure)      │          └────────── StartQueueStoreProofs
                      │
 Admission ───────────┼── AdmissionGate ──── MCAdmissionGate
 (checkAdmission,     │          └────────── AdmissionGateProofs
  pure)               │
                      └── AgentStarts ── AgentSessions ── AgentLifecycle ── MCAgentLifecycle
                                                               └───────── AgentLifecycleProofs

 DeliveryRow ── DeliveryOutbox ── TaskMessages ── MCTaskMessages
 (one row, pure)                       └───────── TaskMessagesProofs

 CaptainRuntime ── CaptainHandoff ── CaptainStarts ── Captain ── MCCaptain
                                                         └────── CaptainProofs
 CaptainWaker ── MCCaptainWaker
          └───── CaptainWakerProofs

 TurnLog ◁── SessionLedger ── ManagedSession ── MCManagedSession
 (abstract)                          └───────── ManagedSessionProofs
             (implements it: INSTANCE TurnLog WITH ... in ManagedSession)

 WriteOnce ◁── IssueWrites ── MCIssueWrites
 (abstract)         └──────── IssueWritesProofs
               (implements it: INSTANCE WriteOnce WITH ...)
```

### StartQueueRow

The row of `agent_start_queue` and, per store operation, its guard and the row it leaves.
The store's SQL is `UPDATE ... WHERE generation = ? AND state IN (...)`: the `WHERE` is the
guard (`Owns`, `MayClaim`, `MayMarkStarting`, `MayEnd`), the `SET` the row. Timestamps are
reduced to `due` (is `next_retry_at` past) and the lease to whose it is: this process's, a
dead one's, nobody's.

### StartQueueStore

The table and the claims its callers hold, under *any* sequence of calls. A caller may sit
on a claim while the row is cancelled, enqueued and claimed again. `ticket` and `granted`
are history variables.

### Admission

`checkAdmission`: `Checks` is the order of the tests in the code, `Refuses` the condition
of each, `AdmissionReason` the first that refuses. A slot belongs to a task, as the code's
map keyed by task id makes it. `WithinLimits` is the specification: what the limits
promise, with no notion of order or of "one more".

### AdmissionGate

`Admission` as a state machine: starts pass one at a time, sessions end, projects are
paused, days change. The daily counter is a dated row which reads as zero on another day,
and nothing runs at midnight.

### AgentStarts, AgentSessions, AgentLifecycle

The three files of one component, split by subject.

| Variable | Code |
| --- | --- |
| `row` | `agent_start_queue` |
| `task` | `tasks.status`, "has a `session_id`", "carries an exclusion label" |
| `pauses` | `all_projects_paused`, the projects' `paused` |
| `sessions` | the entries of the `sessions` Map of a task, oldest first, with status, the generation that created them, and "its move to review is pending" |
| `attempt` | the start in flight: which await it is at (`phase`), its claim (`generation`), whether its promise is pending (`open`: `sessionStarts`, `admittedStarts`) or only its work is (`rawTaskStarts`) |
| `stopping`, `stopper` | `taskStops`, and where `stopByTaskId` is |
| `drain` | the scheduled drain, the entries it has yet to visit, the retry timer |
| `boot` | how far `reconcileStartup` is |
| `stopped` | history: the tasks whose last word from a user was a stop |
| `uses` | the scenario of the behaviour and, per kind of event, how often the environment did it |

An action is the code between two awaits. A start goes

```
 RequestStart / DrainClaims   claimed      (claim committed)
 MarkStarting                 preparing    (worktree, skills, probe of the backend)
 BeginCreate                  creating     (adapter.createSession)
 CreateSucceeds               binding      (session registered, session_id written)
 CheckBeforePrompt            prompting    (adapter.sendPrompt)
 PromptAccepted               none         (acknowledgeStarted)
```

with `fencing`, `unacked` and `closing` for the teardown a withdrawn or failed start waits
for, and `orphan` for a creation given up at its deadline. The claim and the drain are split
into one action per SQL commit, because a crash may come between two commits; `Quiet` keeps
everything except a crash out of them, as the thread does.

`stopByTaskId` joins a teardown (`joining`), tears down the first session (`tearing`), or
withdraws the row and waits for the start in flight (`waiting`, `StopLooksAgain`); what a
withdrawn start whose prompt was accepted still has to tear down (`unacked`) is not part of
that start any more, and the stop looks again without it.
`TeardownSettles` is what runs when the backend confirms; `TeardownRefused` puts the session
back at the end of the map, as the code does. `transitionToIdle` is two actions, since it
yields between the idle flag and the write of `ready_for_review`.

`Crash` may come in any state. It clears memory and turns this process's leases into a dead
one's. `BootRequeues`, `BootSkips`, `BootResets`, `BootResumes`, `BootEnds` are
`reconcileStartup`; `RequestStart` and `StopByTaskId` may come during it, through the task
API, from a session that was already reconnected.

Environment actions (`Kinds`) are requests, explicit starts, messages, stops, labels,
completions, pauses, sweeps, deadlines, refused teardowns and crashes. A *scenario* says which
tasks they may concern and how often each may come (`Scenarios`, `Spend`, `SpendOn`); it bounds
the runs and nothing else, and a run takes every behaviour of each of its scenarios. A property
that leaves a kind of event out says so with `Never(kind)`, and is checked in the scenarios
that lack it and in the behaviours of the others that did not meet it yet.

### DeliveryRow, DeliveryOutbox, TaskMessages

`DeliveryRow` is to `delivery_outbox` what `StartQueueRow` is to the start queue: the `WHERE`
and the `SET` of each operation. `DeliveryOutbox` is a message's way to the backend, and
`TaskMessages` what crosses it; together they are the specification of one task's messages.

| Variable | Code |
| --- | --- |
| `row` | `delivery_outbox`; messages have numbers, and the first send of each keeps to their order, which is the `ORDER BY created_at` |
| `recovery` | the task's row of `agent_provider_recovery`; `message` is whose prompt its intent is, `rejected` its `delivery = 'rejected'`, `here` that its `session_id` is the live session |
| `task` | `retryExclusion` (`excluded`), and whether the start-queue row is cancelled or failed (`ended`) |
| `flights` | `deliveryTaskTails` with `deliveryFlights`: the first one runs, `seen` is the record its caller had read |
| `hand` | per message, where `sendMessageNow` is (`phase`), whether its promise is awaited (`open`), whether it holds the live session object (`owns`, `assertSessionGeneration`), and whether the backend took the prompt before it answered (`taken`) |
| `redo` | `dispatchProviderRecovery` in flight |
| `sweep` | the rest of the rows `recoverAgentMessages` works through, oldest first |
| `stop` | where `stopByTaskId` is: waiting for a session to open, or tearing one down |
| `taken`, `shut`, `told`, `continued` | history: prompts the backend took, messages from before the last stop, messages whose recovery ended visibly, messages whose failed turn was continued |

```
 Dispatch          claim; the session is there (preparing), is opened (opening),
                   or is being torn down (barred)
 OpenSucceeds      preparing  (configuration, attachments; then the send lock of the task)
 PromptGoesOut     sending    (providerRecoveries.begin, adapter.sendPrompt)
 BackendTakes      sending    (the app does not know)
 PromptAccepted    resolved   (recovery row: accepted)
 Accept            recorded   (deliveries.accept)
 Acknowledge       none       (deliveries.acknowledge; the next flight may run)
```

`PromptFails` is the answer of a backend that refused (`rejected`), perhaps for now
(`transient`), or of which nobody can tell. `GivenUp` is the `catch` of the handoff, in its
order. `HandoffTimesOut` closes the promise and leaves the work. `Quiet` again leaves room
for nothing but a crash between two commits.

### CaptainRuntime, CaptainHandoff, CaptainStarts, Captain

One project's Captain. `CaptainRuntime` has the state and what every part does to it,
`CaptainHandoff` the planned rollover, `CaptainStarts` the starts and switches, and `Captain`
composes them with the turns of the sessions, the crash and boot.

| Variable | Code |
| --- | --- |
| `selected` | `projects.captain_agent_id` |
| `bound`, `keyed` | the task's `session_id`, and the agent `recordCoordinatorSessionAgent` recorded with it |
| `row` | `managed_agent_runtimes`; the five phases of a start under way are `"starting"`, `due` is "has a deadline" |
| `made` | history: every native session a backend made, its agent and the handoff it was made for |
| `live`, `busy` | the `sessions` Map in its order, and which of them are not idle |
| `policy`, `handoff` | `sessions.rollover`, and `session_handoffs` by the session replaced |
| `roll` | the rollover in `CaptainRollover.active`: the await it is at, its abort signal, whether a start waits for it |
| `calls` | the starts and switches in progress: the await each is at, the generation it began, whether its promise is still `owed` |

A handoff goes

```
 TurnEnds            begin      (maybeRolloverCaptain, considered under the send lock)
 BeginHandoff        pending    (its row)
 SaveSummary         summary    (the model's, or the fallback)
 WriteMemory         memory
 AnnounceCreation    asking     (row: creating)
 AskForCreation      creating   (adapter.createSession)
 CreationAnswered    bind       (row: created, with its session; kept even when cancelled)
 ResumeTarget        resume     (the last look at mayContinue)
 VerifyTarget        verify
 StopSource          stopping   (the source leaves the map)
 BindTarget          divide     (bound, keyed, live, row: one turn)
 CompleteHandoff     idle       (row: completed)
```

and each of its steps may find it cancelled, or fail. A start that finds a handoff whose
session was created goes on with it (`TakesOver`, `Recovered`). A start goes through
`Enter`, then `check` (the live session), `release` (a session of another agent), `resume`
(the bound one), or `prepare`, `creating`, `yield` (a new one); a switch has the last three
and `CommitSwitch`. `Expire` is the deadline of either: its caller is told and the row is
rolled back, the backend goes on, and `Registered`, `Withdrawn` and `Fenced` keep what comes
late out of the row and the map: a session that comes up for a call whose promise is no longer
`owed` is stopped (AMC 3807-3811), by `Resumed`, or by `Withdrawn` in place of `Started` and
`CommitSwitch`. The last await of either (`yield`) is one `setImmediate` (AMC 88, 2322), so
sessions that wait there go on in the order in which they were registered (`ItsTurn`). `BootRollsBack`, `BootResumes` and `BootIgnores` are the
Captains' share of `reconcileStartup`.

### TurnLog, SessionLedger, ManagedSession

`TurnLog` is what the ledger of a managed conversation promises: a turn is started once and
ends once, as it was reported to end or, when its process died, as crashed; it has no inbox
and no projection. `SessionLedger` is the observer: an observation is in the inbox at once
(`Observe`), and projected (`Apply`) later, under the owner's lock (`Drain`), by the seal at
shutdown (`Shutdown`) or by the next process (`BootDrain`, then `ReconcileInterrupted`).
`ManagedSession` is the engine and the places that call it: a session is created, resumed or
found missing, a prompt is sent in four steps between its awaits, and its turn is ended by an
idle report, a failure, an abort, a stop, a loss or the next attempt.

| Variable | Code |
| --- | --- |
| `run`, `life` | `SESSION_PROCESS_RUN_ID`, and whether the process is up, in boot's reconciliation, shut down or killed |
| `inbox` | `session_event_inbox`: `pending` in the order of ids, and all that was ever `said` |
| `owned` | `ManagedSessionObserver.ownedTurns` |
| `book` | `session_turns` and `session_generations` |
| `binding`, `row` | the task's `session_id`; `agent_provider_recovery` |
| `sess` | the entry of the `sessions` Map: status, `managedIntentId`; `idling` is "transitionToIdle is at its yield" |
| `usage` | `AdapterEngine.usage`: the attempt accounted to each intent |
| `send`, `stop` | the await `sendPrompt` is at; the teardown in flight with the session's status before it, or that the last one failed |
| `missing` | history: the backends that said that they lost the session |

`Log` instantiates `TurnLog` with the projection as it will be once the inbox is drained, and
`ActsAsIfProjectedAtOnce` (`Log!Spec`) is a property of `managed_sessions`: when something is
projected, and by whom, cannot be told from the ledger. A turn, here and there, is an attempt
of an intent on one backend (`AdapterEngine.attemptKey`).

### CaptainWaker

The batch of one project and the wake that comes of it. Time passes in ticks, so that ages and
the timer are small numbers that stop at the bound they are compared with, and nothing needs a
budget: the environment raises events, makes the Captain work, changes the project and shuts
the waker down for ever.

| Variable | Code |
| --- | --- |
| `batch` | the entry of `pending`: events, age (`since`), ticks left of its timer (a batch in the map has one armed whenever no flush is at it) |
| `touched`, `wakes` | the maps of these names, as ages |
| `send` | `flushing`, and where the wake is: `queued` (its microtask), `received` (`deliverCaptainWake` waits for the observation), `sending` (`sendMessage`) |
| `drop` | the batch of a `recordDrop` whose microtask is queued |
| `life` | `closing`, and how `close()` came back |
| `captain`, `project`, `missing` | the Captain's session as `findSessionByTaskId` finds it; its project's row, the Captain's row and an agent for it |
| `reached`, `told` | history: the facts the host was told of, as a wake or as a disposition; the ages of the last wakes it was handed |

`Flush` is the code from the timer to the first await, one disjunct per way out of it, in the
order of the code. `HandOver` and `KeepDisposition` are the microtasks, `SendWake` the host's
second look, `SendSettles` the end of the delivery.

### WriteOnce, IssueWrites

`WriteOnce` is what the ledger promises, without a row, a lease or a crash: under one key
GitHub makes one write at most (`Make`); the ledger takes a key as done only when GitHub
shows what it asks for, and applies its local effects once (`Account`). A person may make the
very edit an update asks for (`Anticipate`), which the code cannot tell from its own.

`IssueWrites` is the code: `performIssueWrite` as `Ask`, `Preflight`, `Begin`, `Dispatch`,
`Answer` (`MidTurn` keeps the steps of one turn together), `reconcileIssueWrites` as `Sweep`
or `Begin` and then `Search` per row and `Searched`; the transactions of the ledger as
operators on one row (`Reserved`, `MaySettle`, `SettledAs`, `WithEffects`); and GitHub, which
carries a request out or refuses it at any time after it was sent, also when the caller has
given up (`Execute`, `Refuse`). `Confirmed` is `confirmedIssueWriteFailure`; `Texts` says what
a payload's own words look like to it.

| Variable | Code |
| --- | --- |
| `row` | `issue_writes`; `by` stands for the Captain's task, session and origin, `text` for the payload, `leased` is "the lease has time left" |
| `pc`, `job`, `todo` | where each call is, what it was asked, the list its reconciliation works through |
| `req`, `shown` | GitHub: the request of each call, and whether the key's content is there to see |
| `captain` | the Captain `authorizeIssueWriteNow` would find |

`Promise` instantiates `WriteOnce` over these: `made` counts the requests carried out,
`recorded` is "succeeded", `applied` the effects. `KeepsThePromise` (`Promise!Spec`) is a
property of the run, so every step of the code is a step of the promise or none.

The claim for a retry at the end of `performIssueWrite` (`issue-writes.ts` 664-686) is not an
action, because it cannot be reached: reconciliation settles a row as succeeded or leaves it
unresolved, and nothing else settles an unresolved row.

**Slips.** Definitions marked `\* slip` are near misses of the definition below them, one
for each checked property: a dropped guard, a forgotten re-check, a lease not cleared. Each
was put in the place of the right one and TLC found the property violated; they show what
the property can tell apart.

---

## 3. The runs

| Run | Instance | Properties | What it shows |
| --- | --- | --- | --- |
| `start_queue_store` | 2 tasks, generations to 4, one retry | `OnlyTheLastClaimSettles`, `RetriesAreBounded`, `LeaseNamesTheHolder` | late claims, cancellations, recoveries and crashes in any order |
| `admission_gate` | 5 tasks, 2 agents, 2 projects, every limit set, 2 days | `TypeOK`, `RunningWithinLimits`, `AdmitsExactlyWhatFits`, `GlobalRefusalBlocksEveryStart`, `DailyCapHolds` | the limits over starts, ends, pauses and a midnight |
| `lifecycle_safety` | 2 agents with a cap of 1, 1 retry; four scenarios: one task with 2 stops and 1 each of request, explicit start, UI stop, label, message, deadline, crash; two of one agent with 2 requests, 1 each of stop, deadline, pause; two of two agents with a crash, and 2 requests and a stop or 3 requests | `ClaimsAreHeld`, `AtMostOneWorking`, `StopIsFinal`, `SlotsHold`, `NoMissedWakeup`, `WorkingIsBacked`, `NoResurrection` | every race of one start, one slot passed between two tasks, and boot with the API open behind it |
| `lifecycle_liveness` | 2 tasks in series, no retry; 2 requests, 1 each of stop, deadline, refused teardown, completion, sweep, crash; fair | `QueuedLeaves`, `ClaimsSettle`, `StopsReturn` | the queue empties, claims and stops settle |
| `messages` | 2 attempts, 1 retry; three scenarios: one message, sent twice, with a stop, a crash, a deadline and either an explicit start and a label or an abort; two messages with 2 sends, 1 each of stop, failed turn, deadline; fair | `ClaimsAreInFlight`, `TakenOnce`, `FailedWasNotTaken`, `AcknowledgedIsOwned`, `StopIsABoundary`, `EveryMessageEnds` | a message is taken once, ends, and is not lost once acknowledged |
| `captain` | 2 agents, 2 calls, 4 native sessions, 1 edit of the agent; rollover off: 1 start, 2 switches, 1 each of roll-back, turn, fault, deadline, crash; rollover on: 1 start, 1 each of turn, cancellation, fault, deadline, 2 crashes | `HandoffCreatesOnce`, `SourceStopsFirst`, `SelectionIsEarned`, `BoundForSelected`, `HealthyIsTrue`, `OneRuntime`, `NothingStartsForever` | starts, switches and rollovers of one Captain |
| `captain_waker` | 2 events of 1 task, 2 wakes in an hour of 3 ticks; fair | `WakesAreCapped`, `EventsEnd` | batches, drops, turns, failures, changes of the project and a shutdown, in unending behaviours |
| `managed_sessions` | 2 processes, 2 backends, 2 prompts, 1 retry each, 2 attempts altogether; fair | `OneAttemptRuns`, `ShutdownSettles`, `CrashOnlyIfUnreported`, `NoOrphanRuns`, `ActsAsIfProjectedAtOnce` | the ledger implements `TurnLog` over prompts, retries, aborts, stops, losses, shutdowns and kills |
| `issue_writes` | 2 calls, 1 sweep, 3 keys (create, update, link), 2 identities of the Captain, 1 change, 1 crash | `DispatchIsAuthorized`, `KeepsThePromise` | the ledger implements its promise |
| `issue_filed_twice`, `rollover_during_switch`, `lost_session` | the least that shows it | `WrittenOnce`, `BoundForSelected`, `LostSessionIsReplaced` | expected violations, section 5 |

**Bounds.** The store's properties relate one row to its claims; rows do not touch each
other, and two tasks show as much (the proofs hold for any number). Four generations let a
claim be superseded by a retry, by a re-enqueue and by both. The gate has an agent shared by
two projects, a project with two agents, an overlap, a level above and one below the hard
cap, and a global limit under the sum of the others, so that each of the eight checks is the
first to refuse somewhere. One task shows every race of a start with stops, deadlines and
crashes, because the code's locks are per task; two tasks are needed only where they share a
slot, a queue loop, a chain or the boot loop, which are exactly the scenarios that have
two (of one agent for the slot, of two for boot, where both have to be at work). Two messages
are needed where one overtakes another's recovery row or waits behind it; nothing in the code
looks at a third. A
second crash would start from a state a first crash already reaches (rows and statuses on
disk, nothing in memory), so one is enough for the invariants. `MaxRetries` is 1
instead of the code's 5, and `MaxAttempts` 2: what matters is "within" and "beyond" the
budget. In `lifecycle_liveness` it is 0, which makes every failure the last one; the backoff
and its timer are in `lifecycle_safety`.

A Captain's switch and its rollover are in scenarios of their own in `captain` (`MCApart`):
together they break `BoundForSelected`, which is `rollover_during_switch` (`MCTogether`), and
with it most of the others; with a deadline they break `NothingStartsForever` (`MCLate`,
section 5). Two agents are enough for a
switch to a new agent, a retry of the selected one, and a roll-back. Four native sessions are the one at the start, a replacement, the
candidate of a switch and one more. Two crashes of a rollover are needed for boot to find what
a boot left. In `issue_writes` a retry under the key of a call that is still on the wire needs
two calls, and the reconciliation of both a third party; the third call would wait behind the
same row. Its `Texts` are words that mean nothing and words that look like a timeout;
words that look like a refusal are the violation run's.

In `managed_sessions` the second backend is the replacement of a session that was lost, and
the second prompt is a message to a session at work or just idle; a third of either would meet
nothing new, as only one session lives and the recovery row is one. Two attempts are a prompt
and its retry, or two prompts. A third process would start from what a boot left, which the
second does already when it is shut down and the first was killed.

In `captain_waker` the two events of one batch are one that starts it and one that joins it; a
batch is stale after 2 ticks, so that it outlives a window and can be put off more than once,
and an hour lets both wakes of the cap expire one after the other. The code counts touches per
task and batches per project, and one of each does not see the other.

`CHECK_DEADLOCK FALSE` is set where a scenario makes the environment fall silent: a system with
nothing queued, nothing running and nobody asking is at rest, and that is no error.

**Fairness** (`FairSpec`) is weak, and only of steps that the event loop, a timer or a
backend's answer takes by itself: the drain, the retry timer and the backoff, boot, the steps
of a start and of a reconnection (a step may be a failure or a deadline, never silence: the
code races each backend call against a deadline), the teardown's confirmation (`abort` and
`destroySession` are bounded by deadlines too), a stop's second look, the end of a turn and
its move to review. For messages it is: the flights, the retry timer, the sweep's interval, the
lease's end, boot, a stop's two continuations and each handoff (`HandoffStep`; an answer may
be an error, and each await of a handoff is raced against a deadline). For the ledger it is: the projection
behind the lock, boot and its reconciliation, all of which the process does by itself once it
is started (`Fairness` of `ManagedSession`). For the waker it is: its timer, its microtasks, the
host's answer (`sendMessage` has a deadline) and time; not the end of the Captain's turns.
Nothing is assumed of users, schedulers, labels, pauses being lifted, messages or the reaper's
sweep. The end of a turn is assumed because nobody promises a slot
while an agent works on without end.

**What some properties leave out.** `StopIsFinal` is stated for behaviours without a label, a
deadline or a refused teardown so far (its antecedent names them): a refused teardown makes
the stop *fail* towards the user, and with a deadline it does not hold (section 5).
`AtMostOneWorking`, `WorkingIsBacked` and `NoMissedWakeup` are checked without refused
teardowns: one puts a session back behind another one's back, and gives back a slot without a
drain. A crash and a deadline together are checked with one task only (section 4 says what the
model does with two).
`SlotsHold` is about behaviours without a crash, a message or a refused teardown, as it says
itself: boot resumes what was at work, a message wakes an idle session, a refused teardown puts
its session back, and the code asks no admission for any of them. `WorkingIsBacked` leaves
labels out: one that is set while a start runs into its deadline leaves the task
`agent_working` with nobody behind it. `QueuedLeaves` makes an exception after a refused
teardown: the slot it gives back asks for no drain, and the sweep has to pick the start up. It
is also the sweep that notices midnight when the daily cap was the reason for waiting. The runs
have `StartOverIdle = FALSE`, which keeps a task from being started beside its idle session;
with `TRUE` the task gets a second session, and section 5 says what follows.
`TakenOnce` and `FailedWasNotTaken` are stated for behaviours without a crash and an abort: a
crash after the backend took the prompt, and an abort that cancels the recovery row of a
prompt nobody confirmed, both leave a row that the sweep sends again. `TakenOnce` also excepts
the message of a failed turn that was continued, whose prompt may go out again (section 5).
`AcknowledgedIsOwned` makes an exception for a recovery row that another message took over
(section 5).
`HealthyIsTrue`, `OneRuntime`, `BoundForSelected` and `SelectionIsEarned` are about behaviours in
which nobody has changed the agent in the project editor, which writes the selection and leaves
the row, and may stop the session a switch is about to select (section 5);
`NothingStartsForever` makes an exception for a replacement that was verified and not bound, and
does not hold where a deadline passes between switches and rollovers made at once (section 5).
`EventsEnd` makes an exception for a project that loses its Captain's row, whose batch is dropped
without a record. `WrittenOnce` and `KeepsThePromise` hold without words that look like a refusal.

---

## 4. The proofs

TLAPS checks the eight modules whose names end in `Proofs`. What they state holds for every
value of the constants that meets the assumptions named in the modules: any number of tasks,
agents, projects, messages, calls, keys and processes, any limits and retry budgets, and any
scenario, so that no bound of section 3 is left in a theorem.

| Assumption | Module | Asks |
| --- | --- | --- |
| `MaxRetriesAssumption` | `StartQueueRow` | a natural number |
| `AdmissionAssumption` | `Admission` | finitely many tasks, limits that are natural numbers, a positive hard cap, overlaps that are symmetric |
| `BoundsAssumption` | `AdmissionGate` | natural numbers |
| `StartsAssumption` | `AgentStarts` | predecessors are tasks, a scenario counts |
| `OutboxAssumption` | `DeliveryOutbox` | a message and an attempt at least, a scenario counts |
| `WritesAssumption` | `IssueWrites` | a key at least, calls are not sweeps, nobody is no Captain |
| `LedgerAssumption` | `SessionLedger` | a process at least, `None` is neither a backend nor a prompt |
| `WakerAssumption` | `CaptainWaker` | each fact has a task, an hour has a tick |
| `CaptainAssumption` | `CaptainRuntime` | nobody is no agent, there is a session at least |
| `ScenariosAssumption` | `Captain` | a scenario counts |

### StartQueueStoreProofs

| Theorem | Says | Inductive invariant |
| --- | --- | --- |
| `Typing` | `TypeOK` | itself, with `RowOperations`: each operation maps `Rows` into `Rows` |
| `LastClaimSettles` | `OnlyTheLastClaimSettles` | `GenerationsFence` |
| `LeaseHolder` | `LeaseNamesTheHolder` | `LeasesFence` |
| `BoundedRetries` | `RetriesAreBounded` | `RetriesFence` |
| `EndedStayEnded` | `EndedRowsStayEnded` (proved, in no run) | `TypeOK` alone |

`OnlyTheLastClaimSettles` is not inductive: a state in which an *old* claim has the row's
next generation satisfies it and breaks it one step later. `GenerationsFence` says that a held
claim is never ahead of its row, and that where the generations agree, its ticket is the last
one. It is kept because only two operations move a generation, and each moves it past every
held claim: `claim`, which hands out the new ticket at the same time, and `enqueue` of an
inactive row, after which no held claim owns the row.

`RetriesFence` ties the durable `retryCount` to the history: a waiting row was handed out
`retryCount` times, a claimed row once more; so `failOrRetry` and `requeueInterrupted` spend
from one budget, whichever of them comes. `LeasesFence` says that the lease is set exactly in
the claimed states, and that a claim that can still settle its row has this process's lease.

### AdmissionGateProofs

| Theorem | Says | From |
| --- | --- | --- |
| `Typing` | `TypeOK` | itself |
| `LimitsHold` | `RunningWithinLimits` | itself, with `RoomForOneMore` and `LimitsOfFewer` |
| `AdmissionIsExact` | `AdmitsExactlyWhatFits` | `LimitsHold` and `RoomForOneMore` |
| `GlobalRefusals` | `GlobalRefusalBlocksEveryStart` | `Decision`: it holds in every state |
| `DailyCaps` | `DailyCapHolds` | `DaysFence` |

The argument has three layers. `Decision` takes the first-refusal search of
`checkAdmission` apart: "admitted" means that none of the eight refuses, anything else names
one that does. `RoomForOneMore` is the heart: for a set of tasks within the limits, the
counting checks on one more task let it through *if and only if* the larger set is within the
limits. It is what makes a comparison with the others only, made once at the start, enough for
limits on all of them. Its proof counts (a set with one more member) and uses that overlaps
are symmetric, that the level depends on agent and project only, and that the sets of other
agents and projects do not change. Then the gate's steps are a start, which
`RoomForOneMore` covers, and steps that take tasks away or none, which `LimitsOfFewer` covers.

`DaysFence` strengthens the daily cap: the dated row counts the starts of its own date, its
date is not ahead, and no later day has a start. `DailyCapHolds` alone says nothing of the
counter, and the step of a start needs it.

### AgentLifecycleProofs

| Theorem | Says | While | Inductive invariant |
| --- | --- | --- | --- |
| `Typing` | `TypeOK` | | `Shaped`, which is `TypeOK` with its sets named |
| `ClaimsHeld` | `ClaimsAreHeld` | | `HInv` |
| `NothingResurrects` | `NoResurrection` | | `HInv` |
| `OneWorks` | `AtMostOneWorking` | `Undisturbed` | `SInv` |
| `StopsAreFinal` | `StopIsFinal` | `~StartOverIdle` | `TInv` |
| `WorkingBacked` | `WorkingIsBacked` | `Undisturbed` | `BInv` |
| `SlotsAreHeld` | `SlotsHold` | `~StartOverIdle` | `LInv` |
| `WakeupsReach` | `NoMissedWakeup` | `Undisturbed` | `NInv` |

The invariants are layers, each on top of the ones before. Every step but a few is about one
task, and `Elsewhere` says what such a step leaves alone, so a layer is a statement about one
task (`HeldAt`, `SingleAt`, `StopAt`, `BackAt`), shown once for the task of the step and once,
in a line, for every other.

`HeldAt` adds to `ClaimsAreHeld` the shape of a start at each of its awaits: which lease and
generation the row has while the start is reserved, and what is blank while there is none.
`SingleAt` counts the sessions a task has *or is about to have*: none while one is being
opened or torn down, the start's own while it is bound and prompted, and none under a row that
may be claimed. `AtMostOneWorking` speaks of sessions at work and says nothing about the idle
one a message may wake, so it is far from inductive. `StopAt` says whom each teardown and each
withdrawn start answers to, and that a stopped task has no session and a row that ended, or
that the teardown under way will end. `BackAt` says who answers for a task shown as working.

`SlotsAreHeld` uses `AdmittedFits`, the half of `RoomForOneMore` it needs: a start is admitted
beside `Counted`, which covers every task that holds a slot (`Holding`), so the holders and
the new one are within the limits. The other steps pass a slot from a reservation to a session
to a teardown of the same task, or drop it (`HoldsNothing`).

`NoMissedWakeup` is not inductive because it is silent while a drain is due. `Heard` is not:
while none is due, a start that *wants* a slot is among those the drain under way has yet to
visit, or the timer is set for it. It wants one if it is admitted beside `Busy`, which is wider
than `Counted`: it has the sessions on their way to review and the teardowns of failed prompts
as well, whose ends ask for a drain. A refusal lasts while the tasks beside it only grow
(`MoreRefuse`), and a step that takes one away schedules a drain; a task the drain passes
was refused or set on the timer at that moment.

The hypotheses are conditions on what has happened so far. `Undisturbed` is: no task is started
beside its idle session, no teardown was refused, and not both a crash and a deadline have
come. Without the first a task has two sessions (section 5). A refused teardown puts a session
back behind another, and gives a slot back without a drain. The third leaves out more than the
code does wrong: boot's reconnection may outlive its deadline and register its session after
the user started the task again, and the model lets a drain and a message come before the stop
that waits for the reconnection looks again: with two tasks, a task has two sessions at work
after 25 steps. In the code that look is a microtask (`joinRawTaskStarts`, AMC 6955), and the
drain comes with `setImmediate` (AMC 5815), after it.

### TaskMessagesProofs

| Theorem | Says | Parts of `IInv` it reads |
| --- | --- | --- |
| `Typing` | `TypeOK` | |
| `ClaimsAreSettled` | `ClaimsAreInFlight` | `Flying`, `Holding` |
| `NeverTakenTwice` | `TakenOnce` | `Once` |
| `ReopenedIsNew` | `FailedWasNotTaken` | `Once` |
| `NobodyIsForgotten` | `AcknowledgedIsOwned` | `Owning` |
| `StopsAreBoundaries` | `StopIsABoundary` | `Shut` |

`IInv` is one invariant in eight parts, because they hold each other up. `Flying`: one flight
is under way, and the open handoff is that of the first one. `Lettered`: what a flight or the
sweep has *read* as accepted is past claiming, although it was read before an await. `Holding`
pairs the durable row with the handoff: a claim of this process has an open handoff, and a
handoff whose promise was given up has a row that nothing reopens. `Wired`: one prompt is on
the wire, and the recovery row is about it. `Sessions`: who holds the session object, also
while a stop is under way. `Shut`: a message from before the last stop has an ended row, no
handoff with a session, and no recovery. `Owning`: who answers for a message that was handed
over. `Once` holds as long as there was no crash and no abort: what may still be handed over
was not taken, and the recovery row is not about it, or is about a turn that is continued.

`TakenOnce` needs all of them: a second prompt could come from the row (`Holding`), from a
stale record (`Lettered`), from a late answer (`Wired`) or from the recovery row (`Owning`).

### ManagedSessionProofs

`Agreement` is the inductive invariant `IInv`; `OneAttemptAtATime`, `OrderlyShutdown`,
`CrashesAreUnreported`, `NothingIsOrphaned` and the refinement `ProjectedLate` follow from it.
It is about `Settled`, the book once all that was received is projected, because the pending
observations make the ledger's own tables say too little. `LedgerInv` relates the book to what
was ever said: no turn runs that was reported to end, what counts as crashed had not been
reported to end by the process that ran it, what runs is owned by this process and of its
generations, and a process that is up has not been sealed.
`OwnerInv` and `AttemptInv` relate it to the recovery row, the engine's accounting and the
session: only the attempt the engine accounts to an intent can be running.

`ProjectedLate` maps each step of the code to a step of `TurnLog` or a stutter: an observation
that was received is a step of the log, and its projection is none, whoever makes it.

### IssueWritesProofs

| Theorem | Says | From |
| --- | --- | --- |
| `Typing` | the types | itself |
| `AuthorizedDispatches` | `DispatchIsAuthorized` | `TurnsFence`: one turn is in its synchronous stretch, and what it read holds |
| `OneWrite` | one write at most under a key | `EpochsFence`, `WritesFence` |
| `PromiseKept` | `KeepsThePromise` | the same, step by step |

`EpochsFence` says that an epoch of a row was given to one call at most, so the epoch of a
reserved row names the only call that may settle it; `WritesFence`, that a request GitHub
carried out or may carry out keeps its key, so that nobody claims the row before its outcome
is known. `OneWrite` and `PromiseKept` assume
`Discreet`: no payload has words that are taken for a refusal of GitHub. The assumption cannot
be dropped: without it the code files an issue twice (`issue_filed_twice`).

### CaptainWakerProofs

`HourlyCapHolds` says `WakesAreCapped`. The waker counts what it decided, the property what
the host was told of, which comes a microtask later and may come after an hour has turned.
`WInv` pairs them: the wake at a place in one list is no younger than the decision at its
place in the other, one place further on while the last decision waits in its microtask. Both
lists are in the order of their ages, so to drop those older than an hour is to cut the list.

### CaptainProofs

| Theorem | Says | While | Invariants it rests on |
| --- | --- | --- | --- |
| `Typing` | `TypeOK` | | `Types` |
| `CreatesOnce` | `HandoffCreatesOnce` | | `MadeOnce` |
| `StartsEnd` | `NothingStartsForever` | `Unhurried` | `Ages`, `InTime`, `StartsAreAnswered` |
| `SourceStops` | `SourceStopsFirst` | `Apart` | `Rollovers` |
| `RunsOnce` | `OneRuntime` | `Apart`, `OneEdit` | `Rollovers`, `Unedited` |
| `Healthy` | `HealthyIsTrue` | `Apart`, `OneEdit` | `Unedited`, `Alike` |
| `BindsSelected` | `BoundForSelected` | `Apart`, `OneEdit` | `Unedited`, `Alike` |
| `SelectionEarned` | `SelectionIsEarned` | `Apart`, `OneEdit` | `Unedited` |

The first two hold of starts, switches, rollovers, roll-backs, edits and crashes in any
mixture, and so does the third as long as no deadline passes in a scenario that has both
rollovers and switches, which is what `Unhurried` says: with one it does not hold
(section 5). `Apart` says that a scenario with rollover has no switches: the two together break the
next four (section 5), and the proof of the last needs the invariants of those. `OneEdit` says
that the agent is chosen by hand once at most, so that `Edited`, a budget that is spent, is true
from then on; the properties themselves are about the time before.

`Ages` gives each call its generation: none is ahead of the row, no two have the same, and a
start or a boot that has the row's is alone, so a row has one owner. `StartsAreAnswered` names
who moves a row that says "starting" on: a call of its generation whose promise is owed, the
boot of the next process, or a handoff whose session was made and not yet bound. `InTime` is
about the calls whose deadline passed: without rollover none of them owns the row any more (the
deadline rolled it back, and only a handoff makes a row healthy under a generation somebody else
began); with rollover nobody switches or there are none. `MadeOnce` pairs
the durable row of a handoff with the await of the rollover: while either says that no backend was
asked, no session was made for it, and the row moves on before anybody is asked.

With rollover and without switches (`Rolling`, the first half of `Rollovers`) the only session in
the map is the bound one (`BoundOnly`), it is not there while a start opens another (`Fits`), and a
rollover that goes on has its source (`Backed`). `SourceStopsFirst` is far from inductive: it is
true with any second session in the map, and false one binding later. `SameAgent` adds that all
that is recorded (the row, the binding, the calls, the rollover, the sessions made) is of one
agent, and `Attached` that a healthy row has its sessions and nobody opens another beside it;
`Alike` is both.

Without rollover (`Unrolled`) the invariant is `Switches` and `Candidates`; `Unedited` says that it
holds before an edit. `Trusted`: the last agent known to be good is the selected one, and a healthy
row, its session and the bound session are of that agent. `Mapped`: a session in the map is bound,
or a call at its last await has it, and the map is in the order in which sessions were made.
`OwnSessions`: no two calls share a session. `Placed`: what the call that owns the row relies on at
each await, such as that the session a switch is going to stop is the bound one, if that is up.
`Candidates`: the session a switch is about to select is up, and later than the one it stops. They
need each other: a switch that commits without its candidate leaves project and row apart
(section 5), and only the order of the last await keeps a candidate from being overtaken by the
next.

### Induction

The library's induction theorems take an operator as a parameter, which no installed prover
can instantiate. What is needed is first-order: a nonempty set of natural numbers has a least
element (`Least`, from the well-foundedness of `<`), and so a set that has 0 and each
successor has every number (`Induction` in `ManagedSessionProofs`). It is used on the length
of a sequence: for the fold of the ledger's observations, and for cutting the waker's lists.
`CaptainProofs` uses the least and the greatest element of a set in the same way, for `Min` and
for the first session of an agent in the map.

### What is only model-checked

- **Liveness under fairness**, and with it everything with ENABLED: `QueuedLeaves`,
  `ClaimsSettle`, `StopsReturn`, `EveryMessageEnds`, `EventsEnd`. The prover does not reason about them.
- **The properties that are violated** (section 5): they are facts about the code, and TLC
  shows the behaviour.

`TypeOK` of `StartQueueStore`, `AgentLifecycle`, `TaskMessages`, `IssueWrites` and `Captain` is
proved and in no run; the runs spend their time on the other properties. `ManagedSession` states
one that documents its state.
No module that is proved about has a RECURSIVE operator.

---

## 5. Where code and documents disagree

Three runs check a property that states a sentence of a comment or a document and find it
violated.

**`issue_filed_twice`.** `confirmedIssueWriteFailure` (`issue-writes.ts:91`) decides whether
GitHub certainly refused a write by looking for `ENOENT` and `(HTTP 4xx)` in the message of
the error. For a `gh` that ran, `promisify(execFile)` makes that message of the command line
and the output, and the command line holds the title and the body. An issue *about* a 404,
whose creation is killed after 30 s, is recorded as refused although GitHub may have filed it;
asking again files it again. The comment above the function says that anything but a certain
refusal "must not be retried blindly".

**`rollover_during_switch`.** `bindCaptainRollover` stops the source (AMC 5141) and then looks
at the abort signal and the policy only (5110-5113). While it waits the source is out of the
map, so a switch that commits and stops "its" old session (4028) finds nothing to stop and
does not cancel the rollover (5274-5277). The rollover then binds the task to its replacement
(5144-5150), a session of the agent that was just switched away from, and writes it into the
row as healthy (5162). "A Captain's persisted session belongs to the agent that made it.
Another agent cannot continue it" (AMC 3891).

**`lost_session`.** `markSessionLost` ends the turn of the task's recovery row as interrupted
(AMC 1955-1956) without asking whether it ended before. The turn of a finished, cancelled or
failed prompt has: the inbox refuses the second end (`event-inbox.ts` 36-41: the same key,
another payload) by throwing, and whoever resumes the conversation fails before its
`session_id` is cleared (AMC 3455-3460, 4099-4101), each time anew. Only a session lost while
its prompt is unfinished, or without any recovery row, gets past. "A managed Captain whose backend session is explicitly
missing starts a visible recap-pending replacement" (`docs/managed-sessions.md:101`).

More were seen, and are described here without a run of their own.

- A retry first ends the attempt before, which also forgets which attempt that was
  (`adapter-engine.ts` 81-85, 127), and accounts the new one when its prompt goes out (111). A
  stop in between ends attempt 0 again, as cancelled where it was an error: refused, as in
  `lost_session`, after the backend was destroyed, the session removed and the start row
  withdrawn (AMC 5304, 5352, 5357), while "a failed stop leaves both the live handle and its
  acknowledged start row intact" (AMC 5350).
- `transitionToIdle` yields between its look at the backend and `emitStatus` (AMC 4889-4894, and
  four times more for a task), which ends the turn of whatever intent the session has by then
  (AMC 1897-1901). A message that begins there is recorded as completed while its prompt goes
  out; killed at work, it is not among the turns that "become explicitly `interrupted`"
  (`docs/managed-sessions.md:39-41`). A task is moved to review on the same path.
- A Captain "that is mid-turn is not interrupted" (`captain-waker.ts:15`), but the waker looks at
  its session before it hands the wake over, and the wake then waits behind the other messages of
  the Captain's task: it reaches a Captain that one of them has set to work.
- The cap of wakes an hour counts decisions of the waker; the outbox's sweep sends a failed wake
  again without asking, and its disposition stays `failed`.
- Switching wakes off, or archiving the project, is looked at when an event comes in and not when
  its batch is sent (`captain-waker.ts` 255-257, 301-303).
- `stopByTaskId` stops the first session of the map only (AMC 5402); a task started beside its
  idle session keeps the other (`task-updates.ts:33`: "can never silently strand an agent").
- A stop that joins the teardown of a timed-out start leaves its row `retrying` (AMC 5398;
  `docs/captain-recovery.md:70`: explicit stops "remain terminal").
- The next message's `begin` overwrites the recovery row of a rejected prompt that waits for
  its retry (AMC 6300), whose delivery is acknowledged already (AMC 6288: "the same intent
  owns the whole interrupted turn until idle").
- A prompt that was accepted, and whose turn failed, is continued; where the continuation is
  rejected for now, the next retry sends the original prompt again, since `row.prompt` goes out
  whenever `row.delivery` is `'rejected'` (AMC 6522), whatever was rejected. TLC shows it with two
  retries, in 14 steps; `docs/captain-recovery.md:133-136`: only a rejection "permits resending the original
  prompt", a failed turn "a new continuation".
- After a crash with a prompt on the wire boot fails the recovery row but leaves the outbox
  row claimed; after an explicit start the sweep sends it again (AMC 895;
  `docs/captain-recovery.md:144-145`: "never a replay").
- The start's deadline also covers the delivery of the first prompt, and the `catch` of the
  start retries it (AMC 3807), while `docs/captain-recovery.md:81` lets a prompt that may have
  been accepted end as `prompt_delivery_unconfirmed`.
- A message wakes an idle session without `checkAdmission` (AMC 6581), so the agent's hard
  cap, which nothing may exceed (`shared/concurrency.ts:6`), bounds starts and not work.
- `stopSessionNow` asks for the re-check of the queue only when no other session of the task
  is left (AMC 5386), although AMC 1915 says that every stop does.
- A rollover cancelled after its row says `creating` and before the backend is asked keeps
  that row (`NobodyToAsk`, `AskForCreation`); nothing confirms a Captain's creation
  (`confirmCreated` has a caller for chats only), so every later start of the Captain is
  refused (AMC 5026), while `docs/managed-sessions.md:141` promises "resumable evidence".
- A switch that passes its deadline is reported as failed and its row rolled back (AMC
  4031-4051), while its set-up goes on. What keeps it out from then on is `mayStart`, which asks
  for the generation and for a row that has neither failed nor been rolled back (3978-3982). A
  rollover that was under way meanwhile binds its replacement with a transition that names no
  generation (5161): the row is healthy, under the generation of the late switch. `mayStart` holds
  again, the late switch creates its session and writes `verifying` (2073, 2103); the session is
  then stopped for being late (3807-3811), and nobody moves the row on. TLC shows it in 17 steps:
  `NothingStartsForever` in the instance of `captain` with `Scenarios <- MCLate`. A late start is
  "reported as failed, so the drawer leaves \"Agent is starting...\" with the reason and a retry
  instead of waiting forever" (AMC 3799-3803), and the drawer says that the Captain is verifying.
- A replacement that is verified and then not bound leaves the row verifying without a
  deadline; only a restart or another start moves it on.
- After the agent is changed in the project editor the row stays healthy for the agent before,
  and boot brings that one up (AMC 720-728) although "the next message or warm-up starts the
  new agent" (AMC 3912-3916).
- The interleaving of `rollover_during_switch` also leaves two sessions of one Captain at rest and
  a healthy row of an agent that is not selected (`OneRuntime`, `HealthyIsTrue`). Where the stop of
  the source is refused, the source comes back into the map beside the session the switch has
  bound, and the end of that session's turn goes on with the handoff and binds the replacement:
  the session it replaced still runs (`SourceStopsFirst`).
- A switch whose candidate is stopped by hand during its last await (`releaseCaptainIfAgentChanged`
  stops the session it finds, AMC 3918-3928) commits a session that is gone: what follows the
  transaction throws (AMC 4025-4027), and the `catch` writes the agent before into the row (4043)
  while the project and the binding stay with the candidate. The step is the second branch of
  `CommitSwitch`; `captain` reaches it by a retry of the selected agent. "Only the final SQLite
  transaction commits the candidate and its session binding" (AMC 3932-3933), also this one.
- A start that waits for a foreign session to stop, and is superseded meanwhile, still drops
  the binding afterwards (AMC 3866), also one that a switch has just made.
- An abort does not reach a prompt that is being prepared: `sendPrompt` asks after each await
  whether the session is owned (`adapter-engine.ts` 98-104), which an abort does not change, so
  the prompt goes out after its turn was recorded as cancelled.
- The turn of a message that another message overtakes stays `running` in the ledger until
  shutdown: `managedIntentId` is overwritten (AMC 6306) and nothing else ends it.
- The observation of a resume has the model in its payload and the process in its key
  (`adapter-engine.ts` 73): after the model of the agent was changed a second resume in the
  same process is refused.
- A `link_issue` interrupted between its claim and its settlement stays unresolved: the
  reconciliation asks about creates and updates only.

---

## 6. What is not modelled

- **Inside the modelled files**: the order of the queue (`orderStartQueue`, `refresh`,
  `markServed`), the in-memory queue used with test doubles, triage, Captain, coordinator and
  heartbeat sessions (exempt from admission), task groups, the error status of a session, reassignment and deletion of a task, chains that go
  on at review, and everything about transcripts, skills and prompts' text. In
  `AgentStarts` the daily cap never refuses; it is `AdmissionGate`'s.
- **Inside the message modules**: heartbeat checks, task groups, Captain requests and reports
  (`bindReport`, `expireDeadlines`), the ledger between `sendTrackedPrompt`
  and the backend (`ManagedSession`), fallback agents, read-only polling recovery, a refused teardown, a session
  replaced without a stop, the session a start brings up and its first prompt, two session
  openings of one task at once, and a sweep that starts while another runs.
- **Inside the Captain modules**: the five phases of a start under way are one; refused stops
  are modelled where the code asks for an acknowledgement, in rollovers; a resumed session is
  idle; the rollover policy is fixed per behaviour and its thresholds are a choice; a start
  beside a switch (refused by `rawTaskStarts`), the warm-up, and what the summary, the
  workspace memory, the seed and the transcript's divider contain.
- **Inside the managed sessions**: observations no turn or generation depends on (dispatch and
  acceptance marks, wakes, outputs, summaries), re-keyed sessions, fallback agents, token
  accounting, the error status of a session (idle here), the awaits inside an abort and between
  `checkIdle` and the second look at the backend, and a second observer on the same database, whose keys are
  its own. One session lives at a time, and the next is opened when sends and stops of the one
  before came back. A prompt's input and a payload other than the reason are left out.
- **Inside the waker**: the text of a wake and the events past the listing limit, the log, the
  clean-up of the map of touched tasks, the path of a Captain that is not managed, which agent's
  session is rejoined, the observation's own projection (`SessionLedger`), and the wake's way
  through the outbox (`TaskMessages`; a wake is one of its messages). One project: nothing but
  `close()` looks at two.
- **Inside the issue writes**: the validation of targets and payloads, which touches nothing;
  answers of GitHub that are not JSON; edits that undo what an update wrote; the audit view.
  Of the same component, the merge gate of pull requests.
- **External**: agent backends answer, fail or hang. Nothing of their protocol is modelled.
- **Other components**: see section 7 for those that will be; the renderer, voice, OAuth,
  transports and file-system work are I/O with little control of their own, and the Rust
  engine is a second host of the same program under migration.

---

## 7. The plan

Most important first. Done: `StartQueueRow`, `StartQueueStore`, `Admission`,
`AdmissionGate`, `AgentStarts`, `AgentSessions`, `AgentLifecycle`, `DeliveryRow`,
`DeliveryOutbox`, `TaskMessages`, `CaptainRuntime`, `CaptainHandoff`, `CaptainStarts`,
`Captain`, `CaptainWaker`, `WriteOnce`, `IssueWrites`, `TurnLog`, `SessionLedger`, `ManagedSession`, and the
proof modules.

| Module | Models | Properties aimed at |
| --- | --- | --- |
| `CaptainRequests` | `bindReport`, `expireDeadlines` (`sessions/delivery-store.ts`) | a request is answered or expires, and not both |
| `MergeGate` | `pull-request-merge.ts` | one merge per approval, of the head that was approved |
| `TurnLifecycle` | `transitionToIdle` against the messages of one turn | review never lands on a working turn; the status and the session agree |
| `StartOrder` | `orderStartQueue`, `markServed` (`shared/concurrency.ts`) | the order refines "priority, then the project served longest ago"; no project starves within a priority |
| `ProviderFallback` | the fallback agents and polling recovery of `dispatchProviderRecovery` | a task is handed on without a cycle; a read-only recovery sends nothing |
| `SubtaskGraph` | `task-automation-scheduler.ts`, chains | a chain never overtakes; it ends |
| `Recurrence`, `WorktreeOwnership` | periodic work, locks | one occurrence per period; one owner |

Compositions: `TaskMessages` with `AgentSessions` (a delivery is the wake of `MessageWakes`,
and a start's first prompt begins a recovery row); `ProviderFallback` with `AgentStarts` (a
fallback is a start).

Proofs to come: the theorems of `CaptainProofs` without `Apart`, once a rollover looks at the
selected agent when it binds: the invariant is then `Rolling` and `Switches` together. In
`AgentLifecycle` the hypothesis on a crash with a deadline can go once a stop's second look
comes before the next drain, as it does in the code.
