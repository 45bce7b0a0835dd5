------------------------- MODULE AgentLifecycleProofs -------------------------
(***************************************************************************)
(* What the life of the sessions promises, for every number of tasks, every *)
(* cap and every scenario.  Each invariant is on top of the ones before:   *)
(*                                                                         *)
(*   Shaped  the types;                                                    *)
(*   HInv    a claimed row has the start that claimed it.  Nothing is       *)
(*           assumed of the scenario;                                      *)
(*   SInv    a task has one session at most, counting those being created   *)
(*           and those being torn down, while the scenario is Undisturbed;  *)
(*   TInv    what a stop left behind stays stopped, while it is Stoppable;  *)
(*   BInv    a task shown as working has something working for it, while    *)
(*           nobody sets its status by hand (Unlabelled);                  *)
(*   LInv    the slots taken are within the limits, while nobody sets a     *)
(*           session to work without asking for a slot (Unasked);          *)
(*   NInv    a start that could run is waited for by the drain under way    *)
(*           or by the timer, or a drain is due, while the scenario is      *)
(*           Undisturbed.                                                  *)
(*                                                                         *)
(* Next is split by the task a step is about: a step about one task leaves  *)
(* the others alone (Elsewhere), so each invariant is shown of one task.    *)
(***************************************************************************)
EXTENDS AgentLifecycle, FiniteSetTheorems, WellFoundedInduction, TLAPS

TaskStates == [status : {"not_started", "agent_working", "ready_for_review", "completed"},
               bound : BOOLEAN, excluded : BOOLEAN]
Teardowns == [by : {"none", "user", "ui", "fence"}, held : Sessions]
Drains == [scheduled : BOOLEAN, left : SUBSET Tasks, timer : SUBSET Tasks]
Stoppers == {"none", "joining", "waiting", "tearing"}
Pauses == [all : BOOLEAN, projects : SUBSET Projects]
Boots == [phase : {"claims", "tasks", "done"}, stale : SUBSET Tasks]
Uses == [scenario : Scenarios, done : [Kinds -> Nat]]

\* TypeOK, its sets by name.
Shaped ==
    /\ row \in [Tasks -> Rows] /\ task \in [Tasks -> TaskStates] /\ pauses \in Pauses
    /\ sessions \in [Tasks -> Seq(Sessions)] /\ attempt \in [Tasks -> Attempts]
    /\ stopping \in [Tasks -> Teardowns] /\ stopper \in [Tasks -> Stoppers]
    /\ stopped \subseteq Tasks /\ drain \in Drains /\ boot \in Boots /\ uses \in Uses

(* Rows. *)

\* The states and the lease holders the operations write.
LEMMA RowWords ==
    /\ {"queued", "retrying", "claimed", "starting"} \subseteq RowStates
    /\ {"started", "recovered", "cancelled", "failed"} \subseteq RowStates
    /\ {"none", "current", "previous"} \subseteq Leases
  BY DEF RowStates, ActiveStates, DispatchableStates, ClaimedStates, TerminalStates, Leases

\* A row written in some of its fields is a row.
LEMMA RowWritten ==
    ASSUME NEW r \in Rows, NEW s \in RowStates, NEW l \in Leases, NEW d \in BOOLEAN,
           NEW n \in Nat
    PROVE  /\ [r EXCEPT !.state = s] \in Rows
           /\ [r EXCEPT !.lease = l] \in Rows
           /\ [r EXCEPT !.due = d] \in Rows
           /\ [r EXCEPT !.state = s, !.lease = l] \in Rows
           /\ [r EXCEPT !.state = s, !.retryCount = n, !.due = d, !.lease = l] \in Rows
           /\ [r EXCEPT !.state = s, !.generation = n, !.lease = l] \in Rows
           /\ [state |-> s, generation |-> n, retryCount |-> 0, due |-> d, lease |-> l] \in Rows
  BY DEF Rows

\* Every operation of the queue leaves a row of the declared shape.
LEMMA RowTypes ==
    ASSUME NEW r \in Rows
    PROVE  /\ Enqueued(r) \in Rows /\ Claimed(r) \in Rows /\ MarkedStarting(r) \in Rows
           /\ Acknowledged(r) \in Rows /\ FailedOrRetrying(r) \in Rows /\ Recovered(r) \in Rows
           /\ Ended(r, "cancelled") \in Rows /\ Ended(r, "failed") \in Rows
           /\ Cancelled(r) \in Rows
           /\ AfterCrash(r) \in Rows /\ BackoffOver(r) \in Rows
  <1>1. r.generation + 1 \in Nat /\ r.retryCount + 1 \in Nat /\ 0 \in Nat
    BY DEF Rows
  <1>2. Enqueued(r) \in Rows
    BY <1>1, RowWords, RowWritten DEF Enqueued
  <1>3. Claimed(r) \in Rows
    BY <1>1, RowWords, RowWritten DEF Claimed
  <1>4. MarkedStarting(r) \in Rows /\ Acknowledged(r) \in Rows
    BY <1>1, RowWords, RowWritten DEF MarkedStarting, Acknowledged
  <1>5. FailedOrRetrying(r) \in Rows
    BY <1>1, RowWords, RowWritten DEF FailedOrRetrying
  <1>6. Recovered(r) \in Rows
    BY <1>1, RowWords, RowWritten DEF Recovered
  <1>7. ASSUME NEW q \in Rows
        PROVE  Ended(q, "cancelled") \in Rows /\ Ended(q, "failed") \in Rows
    BY <1>1, RowWords, RowWritten DEF Ended
  <1>8. Cancelled(r) \in Rows
    BY <1>2, <1>7 DEF Cancelled
  <1>9. AfterCrash(r) \in Rows /\ BackoffOver(r) \in Rows
    BY <1>1, RowWords, RowWritten DEF AfterCrash, BackoffOver
  <1>10. QED
    BY <1>2, <1>3, <1>4, <1>5, <1>6, <1>7, <1>8, <1>9

\* A task nobody asked to start has the row NoRow, a row like any other.
LEMMA NoRowIsARow == NoRow \in Rows
  BY DEF NoRow, Rows, RowStates, ActiveStates, DispatchableStates, ClaimedStates, TerminalStates,
         Leases

\* What each operation does of a row's standing in the queue.
LEMMA RowFates ==
    ASSUME NEW r \in Rows
    PROVE  /\ IsActive(r) <=> IsClaimed(r) \/ IsDispatchable(r)
           /\ ~(IsClaimed(r) /\ IsDispatchable(r)) /\ ~(IsTerminal(r) /\ IsActive(r))
           /\ IsActive(r) => Enqueued(r) = r
           /\ ~IsActive(r) => /\ IsDispatchable(Enqueued(r)) /\ ~IsClaimed(Enqueued(r))
                              /\ ~IsTerminal(Enqueued(r))
           /\ Claimed(r).state = "claimed" /\ Claimed(r).lease = "current" /\ IsClaimed(Claimed(r))
           /\ MarkedStarting(r).state = "starting" /\ MarkedStarting(r).lease = r.lease
           /\ MarkedStarting(r).generation = r.generation
           /\ Acknowledged(r).state = "started"
           /\ ~IsClaimed(FailedOrRetrying(r))
           /\ MayRecover(r) => Recovered(r).state = "recovered"
           /\ IsActive(r) => MayRecover(r)
           /\ ~MayRecover(r) => Recovered(r) = r
           /\ IsTerminal(r) => ~MayRecover(r)
           /\ IsTerminal(r) => ~MayEnd(r)
           /\ IsActive(r) => MayEnd(r)
           /\ ~MayEnd(r) => Ended(r, "cancelled") = r /\ Ended(r, "failed") = r
           /\ MayEnd(r) => Ended(r, "cancelled").state = "cancelled" /\ Ended(r, "failed").state = "failed"
           /\ IsTerminal(Cancelled(r))
           /\ AfterCrash(r).state = r.state /\ AfterCrash(r).lease # "current"
           /\ AfterCrash(r).lease = "none" <=> r.lease = "none"
           /\ BackoffOver(r).state = r.state
           /\ r.state = "claimed" => IsClaimed(r)
           /\ r.state = "starting" => IsClaimed(r)
           /\ r.state \in {"cancelled", "failed"} => IsTerminal(r)
           /\ r.state \in {"started", "recovered", "retrying"} => ~IsClaimed(r) /\ ~IsTerminal(r)
           /\ r.state \in {"started", "recovered"} => ~IsActive(r)
  <1> USE DEF Rows, RowStates, ActiveStates, DispatchableStates, ClaimedStates, TerminalStates,
              Leases, IsActive, IsClaimed, IsDispatchable, IsTerminal
  <1>1. /\ IsActive(r) <=> IsClaimed(r) \/ IsDispatchable(r)
        /\ ~(IsClaimed(r) /\ IsDispatchable(r)) /\ ~(IsTerminal(r) /\ IsActive(r))
        /\ r.state = "claimed" => IsClaimed(r)
        /\ r.state = "starting" => IsClaimed(r)
        /\ r.state \in {"cancelled", "failed"} => IsTerminal(r)
        /\ r.state \in {"started", "recovered", "retrying"} => ~IsClaimed(r) /\ ~IsTerminal(r)
        /\ r.state \in {"started", "recovered"} => ~IsActive(r)
    OBVIOUS
  <1>2. /\ IsActive(r) => Enqueued(r) = r
        /\ ~IsActive(r) => /\ IsDispatchable(Enqueued(r)) /\ ~IsClaimed(Enqueued(r))
                           /\ ~IsTerminal(Enqueued(r))
    BY DEF Enqueued
  <1>3. /\ Claimed(r).state = "claimed" /\ Claimed(r).lease = "current" /\ IsClaimed(Claimed(r))
        /\ MarkedStarting(r).state = "starting" /\ MarkedStarting(r).lease = r.lease
        /\ MarkedStarting(r).generation = r.generation
        /\ Acknowledged(r).state = "started"
    BY DEF Claimed, MarkedStarting, Acknowledged
  <1>4. ~IsClaimed(FailedOrRetrying(r))
    BY DEF FailedOrRetrying
  <1>5. /\ MayRecover(r) => Recovered(r).state = "recovered"
        /\ IsActive(r) => MayRecover(r)
        /\ ~MayRecover(r) => Recovered(r) = r
        /\ IsTerminal(r) => ~MayRecover(r)
    BY DEF Recovered, MayRecover
  <1>6. /\ IsTerminal(r) => ~MayEnd(r)
        /\ IsActive(r) => MayEnd(r)
        /\ ~MayEnd(r) => Ended(r, "cancelled") = r /\ Ended(r, "failed") = r
        /\ MayEnd(r) => Ended(r, "cancelled").state = "cancelled" /\ Ended(r, "failed").state = "failed"
    BY DEF Ended, MayEnd
  <1>7. IsTerminal(Cancelled(r))
    <2>1. CASE r.state = "absent"
      <3>1. Enqueued(r) \in Rows /\ Enqueued(r).state = "queued"
        BY <2>1, RowTypes DEF Enqueued
      <3>2. QED
        BY <2>1, <3>1 DEF Cancelled, Ended, MayEnd
    <2>2. CASE r.state # "absent"
      BY <2>2 DEF Cancelled, Ended, MayEnd
    <2>3. QED
      BY <2>1, <2>2
  <1>8. /\ AfterCrash(r).state = r.state /\ AfterCrash(r).lease # "current"
        /\ AfterCrash(r).lease = "none" <=> r.lease = "none"
        /\ BackoffOver(r).state = r.state
    BY DEF AfterCrash, BackoffOver
  <1> HIDE DEF Rows, RowStates, ActiveStates, DispatchableStates, ClaimedStates, TerminalStates,
              Leases, IsActive, IsClaimed, IsDispatchable, IsTerminal
  <1>9. QED
    BY <1>1, <1>2, <1>3, <1>4, <1>5, <1>6, <1>7, <1>8

\* Taking one entry out of a task's sessions.
LEMMA Removal ==
    ASSUME NEW s \in Seq(Sessions), NEW i \in DOMAIN s
    PROVE  /\ RemoveAt(s, i) \in Seq(Sessions)
           /\ Len(RemoveAt(s, i)) = Len(s) - 1
           /\ Len(s) = 1 => RemoveAt(s, i) = <<>>
  <1> DEFINE front == SubSeq(s, 1, i - 1)
             back == SubSeq(s, i + 1, Len(s))
  <1>1. i \in 1..Len(s) /\ Len(s) \in Nat
    OBVIOUS
  <1>2. front \in Seq(Sessions) /\ Len(front) = i - 1
    BY <1>1
  <1>3. back \in Seq(Sessions) /\ Len(back) = Len(s) - i
    BY <1>1
  <1>4. RemoveAt(s, i) = front \o back
    BY DEF RemoveAt
  <1> HIDE DEF front, back
  <1>5. RemoveAt(s, i) \in Seq(Sessions) /\ Len(RemoveAt(s, i)) = Len(s) - 1
    BY <1>1, <1>2, <1>3, <1>4
  <1>6. ASSUME Len(s) = 1 PROVE RemoveAt(s, i) = <<>>
    BY <1>5, <1>6
  <1>7. QED
    BY <1>5, <1>6
------------------------------------------------------------------------------
(* Types. *)

\* Writing a task's status and binding leaves the rest of it, and every other task.
LEMMA TaskWritten ==
    ASSUME task \in [Tasks -> TaskStates], NEW t \in Tasks, NEW bound \in BOOLEAN,
           NEW status \in {"not_started", "agent_working", "ready_for_review", "completed"},
           SetTask(t, status, bound)
    PROVE  /\ task' \in [Tasks -> TaskStates]
           /\ task'[t].status = status /\ task'[t].bound = bound
           /\ task'[t].excluded = task[t].excluded
           /\ \A u \in Tasks \ {t} : task'[u] = task[u]
  <1> DEFINE k == [task[t] EXCEPT !.status = status]
             l == [k EXCEPT !.bound = bound]
  <1>1. task[t] \in TaskStates
    OBVIOUS
  <1>2. k \in TaskStates /\ k.status = status /\ k.excluded = task[t].excluded
    BY <1>1 DEF TaskStates
  <1> HIDE DEF k
  <1>3. l \in TaskStates /\ l.status = status /\ l.bound = bound /\ l.excluded = task[t].excluded
    BY <1>2 DEF TaskStates
  <1>4. task' = [task EXCEPT ![t] = l]
    BY DEF SetTask, k
  <1> HIDE DEF l
  <1>5. QED
    BY <1>3, <1>4

\* What every action does to the types goes through these few helpers.
LEMMA HelperTypes ==
    ASSUME Shaped, NEW t \in Tasks
    PROVE  /\ \A r \in Rows : PutRow(t, r) => row' \in [Tasks -> Rows]
           /\ \A kind \in Kinds : Spend(kind) \/ SpendOn(t, kind) =>
                  /\ uses' \in Uses
                  /\ \A k \in Kinds : Never(k)' => Never(k)
                  /\ ~Never(kind)'
           /\ ScheduleDrain => drain' \in Drains
           /\ NoAttempt \in Attempts /\ NoSession \in Sessions /\ attempt[t] \in Attempts
           /\ row[t] \in Rows
           /\ \A i \in DOMAIN sessions[t] : sessions[t][i] \in Sessions
           /\ sessions[t] \in Seq(Sessions)
           /\ WithoutOwn(t) \in Seq(Sessions)
           /\ Rejected(t) => row' \in [Tasks -> Rows] /\ task' \in [Tasks -> TaskStates]
           /\ \A s \in Seq(Sessions) : RegisteredIn(s, t) \in Seq(Sessions) /\ Len(RegisteredIn(s, t)) = Len(s) + 1
  <1>1. /\ row[t] \in Rows /\ attempt[t] \in Attempts
        /\ row \in [Tasks -> Rows]
        /\ task \in [Tasks -> TaskStates]
        /\ uses \in Uses
        /\ drain \in Drains
        /\ sessions[t] \in Seq(Sessions)
    BY DEF Shaped
  <1>2. \A r \in Rows : PutRow(t, r) => row' \in [Tasks -> Rows]
    BY <1>1 DEF PutRow
  <1>3. ASSUME NEW kind \in Kinds, Spend(kind) \/ SpendOn(t, kind)
        PROVE  /\ uses' \in Uses
               /\ \A k \in Kinds : Never(k)' => Never(k)
               /\ ~Never(kind)'
    <2>1. uses' = [uses EXCEPT !.done[kind] = @ + 1]
      BY <1>3 DEF Spend, SpendOn
    <2>2. uses.done \in [Kinds -> Nat] /\ uses.scenario \in Scenarios
      BY <1>1 DEF Uses
    <2>3. \A k \in Kinds : uses.done[k] \in Nat
      BY <2>2
    <2>4. \A k \in Kinds : uses'.done[k] = IF k = kind THEN uses.done[k] + 1 ELSE uses.done[k]
      BY <1>1, <2>1, <2>2 DEF Uses
    <2> DEFINE d == [uses.done EXCEPT ![kind] = @ + 1]
    <2>7. d \in [Kinds -> Nat]
      BY <2>2, <2>3
    <2>8. uses' = [uses EXCEPT !.done = d]
      BY <1>1, <2>1 DEF Uses
    <2> HIDE DEF d
    <2>5. uses' \in Uses
      BY <1>1, <2>2, <2>7, <2>8 DEF Uses
    <2>6. QED
      BY <2>3, <2>4, <2>5 DEF Never
  <1>4. ScheduleDrain => drain' \in Drains
    BY <1>1 DEF ScheduleDrain, Drains
  <1>5. NoAttempt \in Attempts /\ NoSession \in Sessions
    BY DEF NoAttempt, NoSession, Attempts, Sessions, Phases
  <1>6. \A i \in DOMAIN sessions[t] : sessions[t][i] \in Sessions
    BY <1>1
  <1>7. WithoutOwn(t) \in Seq(Sessions)
    <2>1. CASE OwnIndex(t) = {}
      BY <1>1, <2>1 DEF WithoutOwn
    <2>2. CASE OwnIndex(t) # {}
      <3>1. PICK i \in OwnIndex(t) : i = CHOOSE j \in OwnIndex(t) : TRUE
        BY <2>2
      <3>2. i \in DOMAIN sessions[t]
        BY DEF OwnIndex
      <3>3. QED
        BY <1>1, <2>2, <3>1, <3>2, Removal DEF WithoutOwn
    <2>3. QED
      BY <2>1, <2>2
  <1>8. Rejected(t) => row' \in [Tasks -> Rows] /\ task' \in [Tasks -> TaskStates]
    <2>1. FailedOrRetrying(row[t]) \in Rows /\ Ended(row[t], "cancelled") \in Rows
      BY <1>1, RowTypes
    <2>2. SetTask(t, "not_started", FALSE) => task' \in [Tasks -> TaskStates]
      BY <1>1, TaskWritten
    <2>3. /\ PutRow(t, FailedOrRetrying(row[t])) => row' \in [Tasks -> Rows]
          /\ PutRow(t, Ended(row[t], "cancelled")) => row' \in [Tasks -> Rows]
      BY <1>2, <2>1
    <2>4. Rejected(t) => \/ PutRow(t, Ended(row[t], "cancelled")) /\ UNCHANGED task
                         \/ PutRow(t, FailedOrRetrying(row[t])) /\ SetTask(t, "not_started", FALSE)
                         \/ UNCHANGED <<row, task>>
      <3> DEFINE inForce == /\ Reserved(t) /\ row[t].generation = attempt[t].generation
                            /\ row[t].state = "starting"
      <3>1. CASE inForce /\ Excluded(t)
        BY <3>1 DEF Rejected
      <3>2. CASE inForce /\ ~Excluded(t)
        BY <3>2 DEF Rejected
      <3>3. CASE ~inForce
        BY <3>3 DEF Rejected
      <3>4. QED
        BY <3>1, <3>2, <3>3
    <2>5. QED
      BY <1>1, <2>2, <2>3, <2>4
  <1>9. \A s \in Seq(Sessions) : RegisteredIn(s, t) \in Seq(Sessions) /\ Len(RegisteredIn(s, t)) = Len(s) + 1
    <2>1. attempt[t].generation \in Nat
      BY <1>1 DEF Attempts
    <2>2. [status |-> "working", by |-> attempt[t].generation, reviewing |-> FALSE] \in Sessions
      BY <2>1 DEF Sessions
    <2>3. QED
      BY <2>2 DEF RegisteredIn
  <1>10. QED
    BY <1>1, <1>2, <1>3, <1>4, <1>5, <1>6, <1>7, <1>8, <1>9

\* The actions that ask for a start, and the drain's.
LEMMA AskingTypes ==
    ASSUME Shaped, NEW t \in Tasks,
           \/ RequestStart(t) \/ ExplicitStart(t) \/ BackoffElapses(t)
           \/ DrainCancels(t) \/ DrainFindsRunning(t) \/ DrainPasses(t) \/ DrainClaims(t)
    PROVE  Shaped'
  <1>0. /\ row \in [Tasks -> Rows] /\ task \in [Tasks -> TaskStates]
        /\ pauses \in Pauses /\ sessions \in [Tasks -> Seq(Sessions)]
        /\ attempt \in [Tasks -> Attempts] /\ stopping \in [Tasks -> Teardowns]
        /\ stopper \in [Tasks -> Stoppers] /\ stopped \subseteq Tasks
        /\ drain \in Drains /\ boot \in Boots /\ uses \in Uses
    BY DEF Shaped
  <1>20. /\ \A r \in Rows : PutRow(t, r) => row' \in [Tasks -> Rows]
         /\ \A kind \in Kinds : Spend(kind) \/ SpendOn(t, kind) => uses' \in Uses
         /\ ScheduleDrain => drain' \in Drains
    BY HelperTypes
  <1>1. row[t] \in Rows /\ Enqueued(row[t]) \in Rows /\ Claimed(Enqueued(row[t])) \in Rows
        /\ Claimed(row[t]) \in Rows /\ Ended(row[t], "cancelled") \in Rows
        /\ Recovered(row[t]) \in Rows /\ BackoffOver(row[t]) \in Rows
    BY RowTypes, HelperTypes
  <1>2. Claimed(Enqueued(row[t])).generation \in Nat /\ Claimed(row[t]).generation \in Nat
    BY <1>1 DEF Rows
  <1>3. \A g \in Nat, kind \in {"request", "drain"} :
            [phase |-> "claimed", generation |-> g, open |-> TRUE, kind |-> kind] \in Attempts
    BY DEF Attempts, Phases
  <1>4. {"start", "explicit"} \subseteq Kinds
    BY DEF Kinds
  <1>5. /\ LeftWithout(t) \in Drains /\ [LeftWithout(t) EXCEPT !.timer = @ \cup {t}] \in Drains
        /\ [drain EXCEPT !.left = {}] \in Drains
    BY <1>0 DEF LeftWithout, Drains
  <1>6. CASE RequestStart(t)
    BY <1>0, <1>20, <1>1, <1>2, <1>3, <1>4, <1>6 DEF RequestStart, PutRow, Shaped
  <1>7. CASE ExplicitStart(t)
    BY <1>0, <1>20, <1>1, <1>4, <1>7 DEF ExplicitStart, Shaped
  <1>8. CASE BackoffElapses(t)
    BY <1>0, <1>20, <1>1, <1>8 DEF BackoffElapses, Shaped
  <1>9. CASE DrainCancels(t)
    BY <1>0, <1>20, <1>1, <1>5, <1>9 DEF DrainCancels, Shaped
  <1>10. CASE DrainFindsRunning(t)
    BY <1>0, <1>20, <1>1, <1>5, <1>10 DEF DrainFindsRunning, Shaped
  <1>11. CASE DrainPasses(t)
    BY <1>0, <1>20, <1>5, <1>11 DEF DrainPasses, Shaped
  <1>12. CASE DrainClaims(t)
    BY <1>0, <1>20, <1>1, <1>2, <1>3, <1>5, <1>12 DEF DrainClaims, Shaped
  <1>13. QED
    BY <1>6, <1>7, <1>8, <1>9, <1>10, <1>11, <1>12

\* The two outcomes of fencing a start's own session.
LEMMA Fencing ==
    ASSUME NEW t, NEW phase, FenceOwn(t, phase)
    PROVE  /\ attempt' = [attempt EXCEPT ![t].phase = phase]
           /\ OwnIndex(t) # {} /\ ~Stopping(t) =>
                /\ sessions' = [sessions EXCEPT ![t] = WithoutOwn(t)]
                /\ \E i \in OwnIndex(t) :
                      stopping' = [stopping EXCEPT ![t] = [by |-> "fence", held |-> sessions[t][i]]]
           /\ OwnIndex(t) = {} \/ Stopping(t) => UNCHANGED <<sessions, stopping>>
  <1>1. attempt' = [attempt EXCEPT ![t].phase = phase]
    BY DEF FenceOwn
  <1>2. CASE OwnIndex(t) # {} /\ ~Stopping(t)
    <2> DEFINE i == CHOOSE j \in OwnIndex(t) : TRUE
    <2>1. i \in OwnIndex(t)
      BY <1>2
    <2>2. /\ sessions' = [sessions EXCEPT ![t] = WithoutOwn(t)]
          /\ stopping' = [stopping EXCEPT ![t] = [by |-> "fence", held |-> sessions[t][i]]]
      BY <1>2 DEF FenceOwn
    <2> HIDE DEF i
    <2>3. QED
      BY <1>1, <1>2, <2>1, <2>2
  <1>3. CASE OwnIndex(t) = {} \/ Stopping(t)
    BY <1>1, <1>3 DEF FenceOwn
  <1>4. QED
    BY <1>1, <1>2, <1>3

\* The steps of a start.
LEMMA StartTypes ==
    ASSUME Shaped, NEW t \in Tasks, MarkStarting(t) \/ StartStep(t)
    PROVE  Shaped'
  <1>0. /\ row \in [Tasks -> Rows] /\ task \in [Tasks -> TaskStates]
        /\ pauses \in Pauses /\ sessions \in [Tasks -> Seq(Sessions)]
        /\ attempt \in [Tasks -> Attempts] /\ stopping \in [Tasks -> Teardowns]
        /\ stopper \in [Tasks -> Stoppers] /\ stopped \subseteq Tasks
        /\ drain \in Drains /\ boot \in Boots /\ uses \in Uses
    BY DEF Shaped
  <1>20. /\ \A r \in Rows : PutRow(t, r) => row' \in [Tasks -> Rows]
         /\ \A kind \in Kinds : Spend(kind) \/ SpendOn(t, kind) => uses' \in Uses
         /\ ScheduleDrain => drain' \in Drains
         /\ Rejected(t) => row' \in [Tasks -> Rows] /\ task' \in [Tasks -> TaskStates]
    BY HelperTypes
  <1>1. row[t] \in Rows /\ MarkedStarting(row[t]) \in Rows /\ Acknowledged(row[t]) \in Rows
        /\ Ended(row[t], "failed") \in Rows
    BY RowTypes, HelperTypes
  <1>2. \A phase \in Phases :
            /\ [attempt EXCEPT ![t].phase = phase] \in [Tasks -> Attempts]
            /\ [attempt EXCEPT ![t] = NoAttempt] \in [Tasks -> Attempts]
            /\ [attempt EXCEPT ![t] = [attempt[t] EXCEPT !.open = FALSE]] \in [Tasks -> Attempts]
            /\ [attempt EXCEPT ![t] = [attempt[t] EXCEPT !.phase = phase, !.open = FALSE]]
                  \in [Tasks -> Attempts]
    <2>1. attempt \in [Tasks -> Attempts] /\ attempt[t] \in Attempts /\ NoAttempt \in Attempts
      BY <1>0, HelperTypes
    <2>2. \A phase \in Phases : /\ [attempt[t] EXCEPT !.phase = phase] \in Attempts
                                /\ [attempt[t] EXCEPT !.open = FALSE] \in Attempts
                                /\ [attempt[t] EXCEPT !.phase = phase, !.open = FALSE] \in Attempts
      BY <2>1 DEF Attempts
    <2>3. QED
      BY <2>1, <2>2
  <1>3. /\ "preparing" \in Phases /\ "creating" \in Phases /\ "binding" \in Phases
        /\ "prompting" \in Phases /\ "closing" \in Phases /\ "fencing" \in Phases
        /\ "unacked" \in Phases /\ "orphan" \in Phases /\ "timeout" \in Kinds
    BY DEF Phases, Kinds
  <1>4. ASSUME NEW phase \in Phases, FenceOwn(t, phase)
        PROVE  /\ attempt' \in [Tasks -> Attempts] /\ sessions' \in [Tasks -> Seq(Sessions)]
               /\ stopping' \in [Tasks -> Teardowns]
    <2>1. attempt' \in [Tasks -> Attempts]
      BY <1>2, <1>4 DEF FenceOwn
    <2>2. CASE OwnIndex(t) # {} /\ ~Stopping(t)
      <3>1. PICK i \in OwnIndex(t) :
                stopping' = [stopping EXCEPT ![t] = [by |-> "fence", held |-> sessions[t][i]]]
        BY <1>4, <2>2, Fencing
      <3>2. [by |-> "fence", held |-> sessions[t][i]] \in Teardowns
        BY HelperTypes DEF OwnIndex, Teardowns
      <3>3. sessions' = [sessions EXCEPT ![t] = WithoutOwn(t)] /\ WithoutOwn(t) \in Seq(Sessions)
        BY <1>4, <2>2, Fencing, HelperTypes
      <3>4. QED
        BY <1>0, <2>1, <3>1, <3>2, <3>3
    <2>3. CASE ~(OwnIndex(t) # {} /\ ~Stopping(t))
      BY <1>0, <1>4, <2>1, <2>3, Fencing
    <2>4. QED
      BY <2>2, <2>3
  <1>5. DropOwn(t) => sessions' \in [Tasks -> Seq(Sessions)]
    BY <1>0, HelperTypes DEF DropOwn
  <1>21. ASSUME Reject(t, NoAttempt)
         PROVE  /\ row' \in [Tasks -> Rows] /\ task' \in [Tasks -> TaskStates]
                /\ attempt' \in [Tasks -> Attempts] /\ drain' \in Drains
    <2>1. Rejected(t) /\ attempt' = [attempt EXCEPT ![t] = NoAttempt] /\ ScheduleDrain
      BY <1>21 DEF Reject
    <2>2. [attempt EXCEPT ![t] = NoAttempt] \in [Tasks -> Attempts]
      BY <1>2, <1>3
    <2>3. QED
      BY <1>20, <2>1, <2>2
  <1>22. [attempt EXCEPT ![t].phase = "creating"] \in [Tasks -> Attempts]
    BY <1>2, <1>3
  <1>6. CASE MarkStarting(t)
    BY <1>0, <1>20, <1>1, <1>2, <1>3, <1>6 DEF MarkStarting, Shaped
  <1>7. CASE BeginCreate(t)
    <2>1. /\ \/ /\ attempt' = [attempt EXCEPT ![t].phase = "creating"]
                /\ UNCHANGED <<row, task, drain>>
             \/ Reject(t, NoAttempt)
          /\ UNCHANGED <<pauses, sessions, stopping, stopper, stopped, boot, uses>>
      BY <1>7 DEF BeginCreate
    <2>2. /\ row' \in [Tasks -> Rows] /\ task' \in [Tasks -> TaskStates]
          /\ attempt' \in [Tasks -> Attempts] /\ drain' \in Drains
      BY <1>0, <1>21, <1>22, <2>1
    <2>3. QED
      BY <1>0, <2>1, <2>2 DEF Shaped
  <1>8. CASE StartFails(t)
    <2>1. /\ Reject(t, NoAttempt)
          /\ UNCHANGED <<pauses, sessions, stopping, stopper, stopped, boot, uses>>
      BY <1>8 DEF StartFails
    <2>2. QED
      BY <1>0, <1>21, <2>1 DEF Shaped
  <1>9. CASE CreateSucceeds(t)
    <2>1. SetTask(t, "agent_working", TRUE) => task' \in [Tasks -> TaskStates]
      BY <1>0, TaskWritten
    <2>2. <<>> \in Seq(Sessions) /\ sessions[t] \in Seq(Sessions) /\ Len(<<>>) + 1 = 1
      BY <1>0
    <2>3. /\ RegisteredIn(<<>>, t) \in Seq(Sessions) /\ Len(RegisteredIn(<<>>, t)) = 1
          /\ RegisteredIn(sessions[t], t) \in Seq(Sessions)
      BY <2>2, HelperTypes
    <2>4. ASSUME NEW s \in Seq(Sessions), Len(s) = 1 PROVE Last(s) \in Sessions
      <3>1. 1 \in DOMAIN s
        BY <2>4
      <3>2. QED
        BY <2>4, <3>1 DEF Last
    <2>5. [by |-> "fence", held |-> Last(RegisteredIn(<<>>, t))] \in Teardowns
      BY <2>3, <2>4 DEF Teardowns
    <2>6. /\ [sessions EXCEPT ![t] = RegisteredIn(@, t)] \in [Tasks -> Seq(Sessions)]
          /\ [stopping EXCEPT ![t] = [by |-> "fence", held |-> Last(RegisteredIn(<<>>, t))]]
                \in [Tasks -> Teardowns]
      BY <1>0, <2>3, <2>5
    <2>7. /\ attempt' = [attempt EXCEPT ![t].phase = "binding"] \/ attempt' = [attempt EXCEPT ![t].phase = "fencing"]
          /\ \/ sessions' = [sessions EXCEPT ![t] = RegisteredIn(@, t)]
             \/ UNCHANGED sessions
          /\ \/ UNCHANGED stopping
             \/ stopping' = [stopping EXCEPT ![t] = [by |-> "fence", held |-> Last(RegisteredIn(<<>>, t))]]
          /\ SetTask(t, "agent_working", TRUE) \/ UNCHANGED task
          /\ UNCHANGED <<row, pauses, stopper, stopped, drain, boot, uses>>
      BY <1>9 DEF CreateSucceeds
    <2>8. attempt' \in [Tasks -> Attempts]
      BY <1>2, <1>3, <2>7
    <2>9. /\ task' \in [Tasks -> TaskStates] /\ sessions' \in [Tasks -> Seq(Sessions)]
          /\ stopping' \in [Tasks -> Teardowns]
      BY <1>0, <2>1, <2>6, <2>7
    <2>10. QED
      BY <1>0, <2>7, <2>8, <2>9 DEF Shaped
  <1>10. CASE CheckBeforePrompt(t)
    <2>1. \/ /\ attempt' = [attempt EXCEPT ![t].phase = "prompting"]
             /\ UNCHANGED <<row, task, sessions, stopping, drain>>
          \/ /\ Rejected(t) /\ attempt' = [attempt EXCEPT ![t] = NoAttempt] /\ ScheduleDrain
             /\ UNCHANGED <<sessions, stopping>>
          \/ FenceOwn(t, "fencing") /\ UNCHANGED <<row, task, drain>>
      BY <1>10 DEF CheckBeforePrompt, Reject
    <2>2. UNCHANGED <<pauses, stopper, stopped, boot, uses>>
      BY <1>10 DEF CheckBeforePrompt
    <2>3. CASE FenceOwn(t, "fencing") /\ UNCHANGED <<row, task, drain>>
      <3>1. /\ attempt' \in [Tasks -> Attempts] /\ sessions' \in [Tasks -> Seq(Sessions)]
            /\ stopping' \in [Tasks -> Teardowns]
        BY <1>3, <1>4, <2>3
      <3>2. QED
        BY <1>0, <2>2, <2>3, <3>1 DEF Shaped
    <2>4. CASE /\ attempt' = [attempt EXCEPT ![t].phase = "prompting"]
               /\ UNCHANGED <<row, task, sessions, stopping, drain>>
      <3>1. attempt' \in [Tasks -> Attempts]
        BY <1>2, <1>3, <2>4
      <3>2. QED
        BY <1>0, <2>2, <2>4, <3>1 DEF Shaped
    <2>5. CASE /\ Rejected(t) /\ attempt' = [attempt EXCEPT ![t] = NoAttempt] /\ ScheduleDrain
               /\ UNCHANGED <<sessions, stopping>>
      <3>1. attempt' \in [Tasks -> Attempts]
        BY <1>2, <1>3, <2>5
      <3>2. QED
        BY <1>0, <1>20, <2>2, <2>5, <3>1 DEF Shaped
    <2>6. QED
      BY <2>1, <2>3, <2>4, <2>5
  <1>11. CASE PromptAccepted(t)
    <2>1. FenceOwn(t, "unacked") =>
            /\ attempt' \in [Tasks -> Attempts] /\ sessions' \in [Tasks -> Seq(Sessions)]
            /\ stopping' \in [Tasks -> Teardowns]
      BY <1>3, <1>4
    <2>2. QED
      BY <1>0, <1>20, <1>1, <1>2, <1>3, <1>5, <1>11, <2>1 DEF PromptAccepted, Shaped
  <1>12. CASE PromptFails(t)
    BY <1>0, <1>20, <1>1, <1>2, <1>3, <1>5, <1>12 DEF PromptFails, Shaped
  <1>13. CASE CloseSettles(t)
    <2>1. SetTask(t, "not_started", FALSE) => task' \in [Tasks -> TaskStates]
      BY <1>0, TaskWritten
    <2>2. QED
      BY <1>0, <1>20, <1>2, <1>3, <1>13, <2>1 DEF CloseSettles, Shaped
  <1>14. CASE FenceEnds(t)
    BY <1>0, <1>20, <1>1, <1>2, <1>3, <1>14 DEF FenceEnds, Reject, Shaped
  <1>15. CASE CreateTimesOut(t)
    BY <1>0, <1>20, <1>1, <1>2, <1>3, <1>15 DEF CreateTimesOut, Reject, Shaped
  <1>16. CASE OrphanSettles(t)
    BY <1>0, <1>20, <1>1, <1>2, <1>3, <1>16 DEF OrphanSettles, Shaped
  <1>17. CASE StartTimesOut(t)
    BY <1>0, <1>20, <1>1, <1>2, <1>3, <1>17 DEF StartTimesOut, Reject, Shaped
  <1>18. QED
    BY <1>6, <1>7, <1>8, <1>9, <1>10, <1>11, <1>12, <1>13, <1>14, <1>15, <1>16, <1>17
       DEF StartStep

\* What happens to registered sessions, and what users do around them.
LEMMA SessionTypes ==
    ASSUME Shaped, NEW t \in Tasks, SessionStep(t)
    PROVE  Shaped'
  <1>0. /\ row \in [Tasks -> Rows] /\ task \in [Tasks -> TaskStates]
        /\ pauses \in Pauses /\ sessions \in [Tasks -> Seq(Sessions)]
        /\ attempt \in [Tasks -> Attempts] /\ stopping \in [Tasks -> Teardowns]
        /\ stopper \in [Tasks -> Stoppers] /\ stopped \subseteq Tasks
        /\ drain \in Drains /\ boot \in Boots /\ uses \in Uses
    BY DEF Shaped
  <1>1. /\ row[t] \in Rows /\ Cancelled(row[t]) \in Rows /\ Recovered(row[t]) \in Rows
        /\ Requeued(t) \in Rows
    <2>1. row[t] \in Rows /\ Enqueued(row[t]) \in Rows
      BY <1>0, RowTypes
    <2>2. QED
      BY <2>1, RowTypes DEF Requeued
  <1>2. /\ \A r \in Rows : PutRow(t, r) => row' \in [Tasks -> Rows]
        /\ ScheduleDrain => drain' \in Drains
    BY HelperTypes
  <1>3. ASSUME NEW kind \in Kinds, Spend(kind) \/ SpendOn(t, kind) PROVE uses' \in Uses
    BY <1>3, HelperTypes
  <1>4. /\ "stop" \in Kinds /\ "end" \in Kinds /\ "refuse" \in Kinds /\ "message" \in Kinds
        /\ "label" \in Kinds /\ "complete" \in Kinds
    BY DEF Kinds
  <1>5. ASSUME NEW i \in DOMAIN sessions[t], NEW by \in {"user", "ui"}, BeginTeardown(t, i, by)
        PROVE  sessions' \in [Tasks -> Seq(Sessions)] /\ stopping' \in [Tasks -> Teardowns]
    <2>1. RemoveAt(sessions[t], i) \in Seq(Sessions)
      BY <1>0, Removal
    <2>2. [by |-> by, held |-> sessions[t][i]] \in Teardowns
      BY <1>0 DEF Teardowns
    <2>3. QED
      BY <1>0, <1>5, <2>1, <2>2 DEF BeginTeardown
  <1>6. Live(t) => 1 \in DOMAIN sessions[t]
    BY <1>0 DEF Live
  <1>7. ASSUME NEW i \in DOMAIN sessions[t], NEW e \in Sessions,
               sessions' = [sessions EXCEPT ![t][i] = e]
        PROVE  sessions' \in [Tasks -> Seq(Sessions)]
    <2>1. [sessions[t] EXCEPT ![i] = e] \in Seq(Sessions)
      BY <1>0
    <2>2. QED
      BY <1>0, <1>7, <2>1
  <1>8. NoTeardown \in Teardowns
    BY DEF NoTeardown, Teardowns, NoSession, Sessions
  <1>9. SetTask(t, "not_started", FALSE) \/ SetTask(t, "ready_for_review", TRUE) =>
            task' \in [Tasks -> TaskStates]
    BY <1>0, TaskWritten
  <1>10. \A r \in TaskStates : [task EXCEPT ![t] = r] \in [Tasks -> TaskStates]
    BY <1>0
  <1>11. task[t] \in TaskStates /\ stopping[t] \in Teardowns
    BY <1>0
  <1>12. \A p \in Stoppers : [stopper EXCEPT ![t] = p] \in [Tasks -> Stoppers]
    BY <1>0
  <1>13. /\ "none" \in Stoppers /\ "joining" \in Stoppers /\ "waiting" \in Stoppers
         /\ "tearing" \in Stoppers
    BY DEF Stoppers
  <1>14. CASE StopByTaskId(t)
    <2>1. /\ UNCHANGED <<task, pauses, attempt, drain, boot>>
          /\ stopped' = stopped \cup {t} /\ SpendOn(t, "stop")
          /\ \/ /\ stopper' = [stopper EXCEPT ![t] = "joining"] /\ UNCHANGED <<row, sessions, stopping>>
             \/ /\ Live(t) /\ BeginTeardown(t, 1, "user") /\ UNCHANGED row
                /\ stopper' = [stopper EXCEPT ![t] = "tearing"]
             \/ /\ PutRow(t, Cancelled(row[t])) /\ UNCHANGED <<sessions, stopping>>
                /\ stopper' = [stopper EXCEPT ![t] = "waiting"]
      BY <1>14 DEF StopByTaskId
    <2>2. uses' \in Uses
      BY <1>3, <1>4, <2>1
    <2>3. BeginTeardown(t, 1, "user") /\ Live(t) =>
             sessions' \in [Tasks -> Seq(Sessions)] /\ stopping' \in [Tasks -> Teardowns]
      BY <1>5, <1>6
    <2>4. QED
      BY <1>0, <1>1, <1>2, <1>12, <1>13, <2>1, <2>2, <2>3 DEF Shaped
  <1>15. CASE StopLooksAgain(t)
    <2>1. /\ UNCHANGED <<row, pauses, attempt, stopped, drain, boot, uses>>
          /\ \/ /\ Live(t) /\ UNCHANGED task
                /\ UNCHANGED <<sessions, stopping>> \/ BeginTeardown(t, 1, "user")
                /\ stopper' = [stopper EXCEPT ![t] = "tearing"]
             \/ /\ stopper' = [stopper EXCEPT ![t] = "none"]
                /\ SetTask(t, "not_started", FALSE) \/ UNCHANGED task
                /\ UNCHANGED <<sessions, stopping>>
      BY <1>15 DEF StopLooksAgain
    <2>2. BeginTeardown(t, 1, "user") /\ Live(t) =>
             sessions' \in [Tasks -> Seq(Sessions)] /\ stopping' \in [Tasks -> Teardowns]
      BY <1>5, <1>6
    <2>3. QED
      BY <1>0, <1>9, <1>12, <1>13, <2>1, <2>2 DEF Shaped
  <1>16. CASE StopSession(t)
    <2>1. PICK i \in DOMAIN sessions[t] : BeginTeardown(t, i, "ui")
      BY <1>16 DEF StopSession
    <2>2. uses' \in Uses
      BY <1>3, <1>4, <1>16 DEF StopSession
    <2>3. sessions' \in [Tasks -> Seq(Sessions)] /\ stopping' \in [Tasks -> Teardowns]
      BY <1>5, <2>1
    <2>4. QED
      BY <1>0, <1>1, <1>2, <1>16, <2>2, <2>3 DEF StopSession, Shaped
  <1>17. CASE TeardownSettles(t)
    <2>1. AfterTeardown(t) \in TaskStates
      BY <1>11 DEF AfterTeardown, TaskStates
    <2>2. AfterStop(t) \in TaskStates
      BY <2>1 DEF AfterStop, TaskStates
    <2>3. stopper' \in [Tasks -> Stoppers]
      BY <1>0, <1>12, <1>13, <1>17 DEF TeardownSettles, StopReturns
    <2>4. row' \in [Tasks -> Rows] /\ task' \in [Tasks -> TaskStates] /\ drain' \in Drains
      BY <1>0, <1>1, <1>2, <1>10, <1>17, <2>2 DEF TeardownSettles
    <2>5. QED
      BY <1>0, <1>8, <1>17, <2>3, <2>4 DEF TeardownSettles, Shaped
  <1>18. CASE TeardownRefused(t)
    <2>1. stopper' \in [Tasks -> Stoppers]
      BY <1>0, <1>12, <1>13, <1>18 DEF TeardownRefused, StopReturns
    <2>2. stopping[t].held \in Sessions
      BY <1>11 DEF Teardowns
    <2>3. Append(sessions[t], stopping[t].held) \in Seq(Sessions)
      BY <1>0, <2>2
    <2>4. uses' \in Uses
      BY <1>3, <1>4, <1>18 DEF TeardownRefused
    <2>5. stopped' \subseteq Tasks
      BY <1>0, <1>18 DEF TeardownRefused
    <2>6. QED
      BY <1>0, <1>8, <1>18, <2>1, <2>3, <2>4, <2>5 DEF TeardownRefused, Shaped
  <1>19. CASE TurnEnds(t)
    <2>1. PICK i \in DOMAIN sessions[t] :
             sessions' = [sessions EXCEPT ![t][i].status = "idle", ![t][i].reviewing = TRUE]
      BY <1>19 DEF TurnEnds
    <2> DEFINE k == [sessions[t][i] EXCEPT !.status = "idle"]
               e == [k EXCEPT !.reviewing = TRUE]
    <2>2. sessions[t][i] \in Sessions
      BY <1>0
    <2>3. k \in Sessions
      BY <2>2 DEF Sessions
    <2>4. e \in Sessions
      BY <2>3 DEF Sessions
    <2>5. sessions' = [sessions EXCEPT ![t][i] = e]
      BY <2>1
    <2> HIDE DEF e
    <2>6. sessions' \in [Tasks -> Seq(Sessions)]
      BY <1>7, <2>4, <2>5
    <2>7. QED
      BY <1>0, <1>19, <2>6 DEF TurnEnds, Shaped
  <1>20. CASE ReviewLands(t)
    <2>1. PICK i \in DOMAIN sessions[t] : sessions' = [sessions EXCEPT ![t][i].reviewing = FALSE]
      BY <1>20 DEF ReviewLands
    <2> DEFINE e == [sessions[t][i] EXCEPT !.reviewing = FALSE]
    <2>2. sessions[t][i] \in Sessions
      BY <1>0
    <2>3. e \in Sessions
      BY <2>2 DEF Sessions
    <2>4. sessions' = [sessions EXCEPT ![t][i] = e]
      BY <2>1
    <2> HIDE DEF e
    <2>5. sessions' \in [Tasks -> Seq(Sessions)]
      BY <1>7, <2>3, <2>4
    <2>6. [task[t] EXCEPT !.status = "ready_for_review"] \in TaskStates
      BY <1>11 DEF TaskStates
    <2>7. task' \in [Tasks -> TaskStates] /\ drain' \in Drains
      BY <1>0, <1>2, <1>20, <2>6 DEF ReviewLands
    <2>8. QED
      BY <1>0, <1>20, <2>5, <2>7 DEF ReviewLands, Shaped
  <1>21. CASE Reap(t)
    <2>1. PICK i \in DOMAIN sessions[t] : sessions' = [sessions EXCEPT ![t] = RemoveAt(@, i)]
      BY <1>21 DEF Reap
    <2>2. RemoveAt(sessions[t], i) \in Seq(Sessions)
      BY <1>0, Removal
    <2>3. sessions' \in [Tasks -> Seq(Sessions)]
      BY <1>0, <2>1, <2>2
    <2>4. QED
      BY <1>0, <1>2, <1>21, <2>3 DEF Reap, Shaped
  <1>22. CASE MessageWakes(t)
    <2>1. PICK i \in DOMAIN sessions[t] : sessions' = [sessions EXCEPT ![t][i].status = "working"]
      BY <1>22 DEF MessageWakes
    <2> DEFINE e == [sessions[t][i] EXCEPT !.status = "working"]
    <2>2. sessions[t][i] \in Sessions
      BY <1>0
    <2>3. e \in Sessions
      BY <2>2 DEF Sessions
    <2>4. sessions' = [sessions EXCEPT ![t][i] = e]
      BY <2>1
    <2> HIDE DEF e
    <2>5. sessions' \in [Tasks -> Seq(Sessions)]
      BY <1>7, <2>3, <2>4
    <2>6. [task[t] EXCEPT !.status = "agent_working"] \in TaskStates
      BY <1>11 DEF TaskStates
    <2>7. task' \in [Tasks -> TaskStates]
      BY <1>0, <1>22, <2>6 DEF MessageWakes
    <2>8. uses' \in Uses
      BY <1>3, <1>4, <1>22 DEF MessageWakes
    <2>9. stopped' \subseteq Tasks
      BY <1>0, <1>22 DEF MessageWakes
    <2>10. QED
      BY <1>0, <1>22, <2>5, <2>7, <2>8, <2>9 DEF MessageWakes, Shaped
  <1>23. CASE SetLabel(t)
    <2>1. [task[t] EXCEPT !.excluded = ~@] \in TaskStates
      BY <1>11 DEF TaskStates
    <2>2. task' \in [Tasks -> TaskStates]
      BY <1>0, <1>23, <2>1 DEF SetLabel
    <2>3. uses' \in Uses
      BY <1>3, <1>4, <1>23 DEF SetLabel
    <2>4. QED
      BY <1>0, <1>23, <2>2, <2>3 DEF SetLabel, Shaped
  <1>24. CASE Complete(t)
    <2>1. [task[t] EXCEPT !.status = "completed"] \in TaskStates
      BY <1>11 DEF TaskStates
    <2>2. task' \in [Tasks -> TaskStates]
      BY <1>0, <1>24, <2>1 DEF Complete
    <2>3. uses' \in Uses
      BY <1>3, <1>4, <1>24 DEF Complete
    <2>4. QED
      BY <1>0, <1>2, <1>24, <2>2, <2>3 DEF Complete, Shaped
  <1>25. CASE Repair(t)
    <2>1. /\ PutRow(t, Recovered(row[t])) \/ PutRow(t, Requeued(t)) \/ UNCHANGED row
          /\ SetTask(t, "ready_for_review", TRUE) \/ SetTask(t, "not_started", FALSE)
          /\ ScheduleDrain \/ UNCHANGED drain
          /\ UNCHANGED <<pauses, sessions, attempt, stopping, stopper, stopped, boot, uses>>
      BY <1>25 DEF Repair
    <2>2. row' \in [Tasks -> Rows] /\ task' \in [Tasks -> TaskStates] /\ drain' \in Drains
      BY <1>0, <1>1, <1>2, <1>9, <2>1
    <2>3. QED
      BY <1>0, <2>1, <2>2 DEF Shaped
  <1>26. QED
    BY <1>14, <1>15, <1>16, <1>17, <1>18, <1>19, <1>20, <1>21, <1>22, <1>23, <1>24, <1>25
       DEF SessionStep

\* Boot's turn at a task, and the reconnection it begins.
LEMMA RecoveryTypes ==
    ASSUME Shaped, NEW t \in Tasks,
           \/ BootSkips(t) \/ BootResets(t) \/ BootResumes(t) \/ ResumeStep(t)
    PROVE  Shaped'
  <1>0. /\ row \in [Tasks -> Rows] /\ task \in [Tasks -> TaskStates]
        /\ pauses \in Pauses /\ sessions \in [Tasks -> Seq(Sessions)]
        /\ attempt \in [Tasks -> Attempts] /\ stopping \in [Tasks -> Teardowns]
        /\ stopper \in [Tasks -> Stoppers] /\ stopped \subseteq Tasks
        /\ drain \in Drains /\ boot \in Boots /\ uses \in Uses
    BY DEF Shaped
  <1>1. /\ row[t] \in Rows /\ Recovered(row[t]) \in Rows /\ Requeued(t) \in Rows
    <2>1. row[t] \in Rows /\ Enqueued(row[t]) \in Rows
      BY <1>0, RowTypes
    <2>2. QED
      BY <2>1, RowTypes DEF Requeued
  <1>2. /\ \A r \in Rows : PutRow(t, r) => row' \in [Tasks -> Rows]
        /\ ScheduleDrain => drain' \in Drains
        /\ Spend("timeout") => uses' \in Uses
    <2>1. "timeout" \in Kinds
      BY DEF Kinds
    <2>2. QED
      BY <2>1, HelperTypes
  <1>3. SetTask(t, "not_started", FALSE) => task' \in [Tasks -> TaskStates]
    BY <1>0, TaskWritten
  <1>4. task[t] \in TaskStates /\ attempt[t] \in Attempts
    BY <1>0
  <1>5. BootTurn(t) => boot' \in Boots
    <2>1. boot.phase \in {"claims", "tasks", "done"} /\ boot.stale \ {t} \in SUBSET Tasks
      BY <1>0 DEF Boots
    <2>2. [boot EXCEPT !.stale = @ \ {t}] \in Boots
      BY <1>0, <2>1 DEF Boots
    <2>3. QED
      BY <2>2 DEF BootTurn
  <1>6. /\ [attempt EXCEPT ![t] = NoAttempt] \in [Tasks -> Attempts]
        /\ [attempt EXCEPT ![t] = [phase |-> "resuming", generation |-> 0, open |-> TRUE, kind |-> "resume"]]
             \in [Tasks -> Attempts]
        /\ [attempt EXCEPT ![t].open = FALSE] \in [Tasks -> Attempts]
    <2>1. [attempt[t] EXCEPT !.open = FALSE] \in Attempts
      BY <1>4 DEF Attempts
    <2>2. [phase |-> "resuming", generation |-> 0, open |-> TRUE, kind |-> "resume"] \in Attempts
      BY DEF Attempts, Phases
    <2>3. QED
      BY <1>0, <2>1, <2>2, HelperTypes
  <1>7. Unreclaimed(t) => row' \in [Tasks -> Rows] /\ task' \in [Tasks -> TaskStates]
    BY <1>0, <1>1, <1>2, <1>3 DEF Unreclaimed
  <1>8. CASE BootSkips(t)
    <2>1. [task[t] EXCEPT !.bound = TRUE] \in TaskStates
      BY <1>4 DEF TaskStates
    <2>2. row' \in [Tasks -> Rows] /\ task' \in [Tasks -> TaskStates]
      BY <1>0, <1>1, <1>2, <1>8, <2>1 DEF BootSkips
    <2>3. QED
      BY <1>0, <1>5, <1>8, <2>2 DEF BootSkips, Shaped
  <1>9. CASE BootResets(t)
    BY <1>0, <1>1, <1>2, <1>3, <1>5, <1>9 DEF BootResets, Shaped
  <1>10. CASE BootResumes(t)
    BY <1>0, <1>5, <1>6, <1>10 DEF BootResumes, Shaped
  <1>11. CASE ResumeReturns(t)
    <2>1. \A status \in {"working", "idle"} :
            Append(sessions[t], [status |-> status, by |-> 0, reviewing |-> FALSE]) \in Seq(Sessions)
      BY <1>0 DEF Sessions
    <2>2. \A status \in {"not_started", "agent_working", "ready_for_review", "completed"} :
            [task[t] EXCEPT !.status = status] \in TaskStates
      BY <1>4 DEF TaskStates
    <2> DEFINE after(status) == IF task[t].status = "completed" THEN task[t].status
                    ELSE IF status = "working" THEN "agent_working"
                    ELSE IF attempt[t].open THEN "ready_for_review" ELSE task[t].status
    <2>3. \/ UNCHANGED <<row, task, sessions>>
          \/ \E status \in {"working", "idle"} :
            /\ sessions' = [sessions EXCEPT ![t] =
                    Append(sessions[t], [status |-> status, by |-> 0, reviewing |-> FALSE])]
            /\ task' = [task EXCEPT ![t].status = after(status)]
            /\ PutRow(t, Recovered(row[t])) \/ PutRow(t, row[t])
      BY <1>11 DEF ResumeReturns
    <2>4. \A status : after(status) \in {"not_started", "agent_working", "ready_for_review", "completed"}
      BY <1>4 DEF TaskStates
    <2> HIDE DEF after
    <2>5. /\ sessions' \in [Tasks -> Seq(Sessions)] /\ row' \in [Tasks -> Rows]
          /\ task' \in [Tasks -> TaskStates]
      <3>1. CASE UNCHANGED <<row, task, sessions>>
        BY <1>0, <3>1
      <3>2. ASSUME NEW status \in {"working", "idle"},
                   sessions' = [sessions EXCEPT ![t] =
                       Append(sessions[t], [status |-> status, by |-> 0, reviewing |-> FALSE])],
                   task' = [task EXCEPT ![t].status = after(status)],
                   PutRow(t, Recovered(row[t])) \/ PutRow(t, row[t])
            PROVE  /\ sessions' \in [Tasks -> Seq(Sessions)] /\ row' \in [Tasks -> Rows]
                   /\ task' \in [Tasks -> TaskStates]
        <4>1. [task[t] EXCEPT !.status = after(status)] \in TaskStates
          BY <2>2, <2>4
        <4>2. task' = [task EXCEPT ![t] = [task[t] EXCEPT !.status = after(status)]]
          BY <3>2
        <4>3. QED
          BY <1>0, <1>1, <1>2, <2>1, <3>2, <4>1, <4>2
      <3>3. QED
        BY <2>3, <3>1, <3>2
    <2>6. /\ attempt' = [attempt EXCEPT ![t] = NoAttempt] /\ ScheduleDrain
          /\ UNCHANGED <<pauses, stopping, stopper, stopped, boot, uses>>
      BY <1>11 DEF ResumeReturns
    <2>7. QED
      BY <1>0, <1>2, <1>6, <2>5, <2>6 DEF Shaped
  <1>12. CASE ResumeFails(t)
    BY <1>0, <1>2, <1>6, <1>7, <1>12 DEF ResumeFails, Shaped
  <1>13. CASE ResumeTimesOut(t)
    BY <1>0, <1>2, <1>6, <1>7, <1>13 DEF ResumeTimesOut, Shaped
  <1>14. QED
    BY <1>8, <1>9, <1>10, <1>11, <1>12, <1>13 DEF ResumeStep

\* The steps that are not about one task.
LEMMA CommonTypes ==
    ASSUME Shaped,
           \/ Crash \/ BootRequeues \/ BootEnds \/ DrainBegins \/ RetryTimerFires
           \/ Pause \/ Unpause \/ Sweep
    PROVE  Shaped'
  <1>0. /\ row \in [Tasks -> Rows] /\ task \in [Tasks -> TaskStates]
        /\ pauses \in Pauses /\ sessions \in [Tasks -> Seq(Sessions)]
        /\ attempt \in [Tasks -> Attempts] /\ stopping \in [Tasks -> Teardowns]
        /\ stopper \in [Tasks -> Stoppers] /\ stopped \subseteq Tasks
        /\ drain \in Drains /\ boot \in Boots /\ uses \in Uses
    BY DEF Shaped
  <1>1. ScheduleDrain => drain' \in Drains
    BY <1>0 DEF ScheduleDrain, Drains
  <1>2. ASSUME NEW kind \in {"crash", "pause", "sweep"}, Spend(kind)
        PROVE  uses' \in Uses
    <2>1. kind \in Kinds
      BY DEF Kinds
    <2>2. uses.done \in [Kinds -> Nat]
      BY <1>0 DEF Uses
    <2> DEFINE d == [uses.done EXCEPT ![kind] = @ + 1]
    <2>3. d \in [Kinds -> Nat]
      BY <2>1, <2>2
    <2>4. uses' = [uses EXCEPT !.done = d]
      BY <1>0, <1>2 DEF Spend, Uses
    <2> HIDE DEF d
    <2>5. QED
      BY <1>0, <2>3, <2>4 DEF Uses
  <1>3. CASE Crash
    <2>1. \A t \in Tasks : AfterCrash(row[t]) \in Rows
      BY <1>0, RowTypes
    <2>2. NoAttempt \in Attempts /\ NoTeardown \in Teardowns /\ <<>> \in Seq(Sessions)
          /\ "none" \in Stoppers
      BY DEF NoAttempt, NoTeardown, NoSession, Attempts, Phases, Teardowns, Sessions, Stoppers
    <2>3. [scheduled |-> FALSE, left |-> {}, timer |-> {}] \in Drains
          /\ [phase |-> "claims", stale |-> {}] \in Boots
      BY DEF Drains, Boots
    <2>4. uses' \in Uses
      BY <1>2, <1>3 DEF Crash
    <2>5. row' \in [Tasks -> Rows] /\ stopped' \subseteq Tasks
      BY <1>0, <1>3, <2>1 DEF Crash
    <2>6. QED
      BY <1>0, <1>3, <2>2, <2>3, <2>4, <2>5 DEF Crash, Shaped
  <1>4. CASE BootRequeues
    <2>1. \A t \in Tasks : (IF IsInterrupted(row[t]) THEN FailedOrRetrying(row[t]) ELSE row[t]) \in Rows
      BY <1>0, RowTypes
    <2>2. row' \in [Tasks -> Rows]
      BY <1>4, <2>1 DEF BootRequeues
    <2> DEFINE looks == {t \in Tasks :
                    \/ task[t].status = "agent_working"
                    \/ task[t].status # "completed" /\ task[t].bound /\ IsActive(row'[t])}
    <2>3. boot' = [phase |-> "tasks", stale |-> looks]
      BY <1>4 DEF BootRequeues
    <2>4. looks \subseteq Tasks
      OBVIOUS
    <2> HIDE DEF looks
    <2>5. boot' \in Boots
      BY <2>3, <2>4 DEF Boots
    <2>6. QED
      BY <1>0, <1>4, <2>2, <2>5 DEF BootRequeues, Shaped
  <1>5. CASE BootEnds
    <2>1. boot' \in Boots
      BY <1>0, <1>5 DEF BootEnds, Boots
    <2>2. QED
      BY <1>0, <1>1, <1>5, <2>1 DEF BootEnds, Shaped
  <1>6. CASE DrainBegins
    <2>1. drain' \in Drains
      BY <1>0, <1>6 DEF DrainBegins, Drains
    <2>2. QED
      BY <1>0, <1>6, <2>1 DEF DrainBegins, Shaped
  <1>7. CASE RetryTimerFires
    <2>1. /\ [drain EXCEPT !.scheduled = TRUE, !.timer = {}] \in Drains
          /\ [drain EXCEPT !.timer = {}] \in Drains
      BY <1>0 DEF Drains
    <2>2. QED
      BY <1>0, <1>7, <2>1 DEF RetryTimerFires, Shaped
  <1>8. CASE Pause
    <2>1. [pauses EXCEPT !.all = TRUE] \in Pauses
      BY <1>0 DEF Pauses
    <2>2. \A p \in Projects : [pauses EXCEPT !.projects = @ \cup {p}] \in Pauses
      BY <1>0 DEF Pauses
    <2>3. pauses' \in Pauses
      BY <1>8, <2>1, <2>2 DEF Pause
    <2>4. uses' \in Uses
      BY <1>2, <1>8 DEF Pause
    <2>5. QED
      BY <1>0, <1>8, <2>3, <2>4 DEF Pause, Shaped
  <1>9. CASE Unpause
    <2>1. pauses' \in Pauses
      BY <1>0, <1>9 DEF Unpause, Pauses
    <2>2. QED
      BY <1>0, <1>1, <1>9, <2>1 DEF Unpause, Shaped
  <1>10. CASE Sweep
    BY <1>0, <1>1, <1>2, <1>10 DEF Sweep, Shaped
  <1>11. QED
    BY <1>3, <1>4, <1>5, <1>6, <1>7, <1>8, <1>9, <1>10

\* One disjunct for what a step may be: about no task in particular, or about one.
Common == \/ Crash \/ BootRequeues \/ BootEnds \/ DrainBegins \/ RetryTimerFires
          \/ Pause \/ Unpause \/ Sweep
Asks(t) == \/ RequestStart(t) \/ ExplicitStart(t) \/ BackoffElapses(t)
           \/ DrainCancels(t) \/ DrainFindsRunning(t) \/ DrainPasses(t) \/ DrainClaims(t)
Recovers(t) == BootSkips(t) \/ BootResets(t) \/ BootResumes(t) \/ ResumeStep(t)
About(t) == Asks(t) \/ StartStep(t) \/ SessionStep(t) \/ Recovers(t)

\* Every step is one of them.
LEMMA NextIs ==
    ASSUME Next
    PROVE  Common \/ \E t \in Tasks : About(t)
  BY DEF Next, BootStep, DrainStep, Common, Asks, Recovers, About

\* Every step keeps every variable typed.
LEMMA StepTypes ==
    ASSUME Shaped, [Next]_vars
    PROVE  Shaped'
  <1>1. CASE Common
    BY <1>1, CommonTypes DEF Common
  <1>2. ASSUME NEW t \in Tasks, About(t) PROVE Shaped'
    BY <1>2, AskingTypes, StartTypes, SessionTypes, RecoveryTypes DEF About, Asks, Recovers
  <1>3. CASE UNCHANGED vars
    BY <1>3 DEF vars, Shaped
  <1>4. QED
    BY <1>1, <1>2, <1>3, NextIs

\* The service starts with every variable typed, whatever the scenario.
LEMMA InitTypes == Init => Shaped
  <1> SUFFICES ASSUME Init PROVE Shaped
    OBVIOUS
  <1>1. NoRow \in Rows /\ NoAttempt \in Attempts /\ NoTeardown \in Teardowns /\ "none" \in Stoppers
        /\ <<>> \in Seq(Sessions)
    BY NoRowIsARow DEF NoAttempt, NoTeardown, NoSession, Attempts, Phases, Teardowns, Sessions, Stoppers
  <1>2. [status |-> "not_started", bound |-> FALSE, excluded |-> FALSE] \in TaskStates
        /\ [all |-> FALSE, projects |-> {}] \in Pauses
        /\ [scheduled |-> FALSE, left |-> {}, timer |-> {}] \in Drains
        /\ [phase |-> "done", stale |-> {}] \in Boots
    BY DEF TaskStates, Pauses, Drains, Boots
  <1>3. uses \in Uses
    <2>1. [k \in Kinds |-> 0] \in [Kinds -> Nat]
      OBVIOUS
    <2>2. QED
      BY <2>1 DEF Init, Uses
  <1>4. QED
    BY <1>1, <1>2, <1>3 DEF Init, Shaped

\* Every variable keeps its type, whatever the scenario.
THEOREM Typing == Spec => []TypeOK
  <1>1. Init => Shaped
    BY InitTypes
  <1>2. Shaped /\ [Next]_vars => Shaped'
    BY StepTypes
  <1>3. Shaped => TypeOK
    BY DEF Shaped, TypeOK, TaskStates, Teardowns, Drains, Stoppers, Pauses, Boots, Uses
  <1>4. QED
    BY <1>1, <1>2, <1>3, PTL DEF Spec

------------------------------------------------------------------------------
(* A step about one task leaves the others alone. *)

Untouched(u) ==
    /\ row'[u] = row[u] /\ task'[u] = task[u] /\ sessions'[u] = sessions[u]
    /\ attempt'[u] = attempt[u] /\ stopping'[u] = stopping[u] /\ stopper'[u] = stopper[u]
    /\ u \in stopped' <=> u \in stopped

\* What the steps are built from writes the record of its own task only.
LEMMA HelpersElsewhere ==
    ASSUME Shaped, NEW t \in Tasks, NEW u \in Tasks, u # t
    PROVE  /\ \A r : PutRow(t, r) => row'[u] = row[u]
           /\ \A status, bound : SetTask(t, status, bound) => task'[u] = task[u]
           /\ Rejected(t) => row'[u] = row[u] /\ task'[u] = task[u]
           /\ Unreclaimed(t) => row'[u] = row[u] /\ task'[u] = task[u]
           /\ \A a : attempt' = [attempt EXCEPT ![t] = a] => attempt'[u] = attempt[u]
           /\ \A p : attempt' = [attempt EXCEPT ![t].phase = p] => attempt'[u] = attempt[u]
           /\ \A p : stopper' = [stopper EXCEPT ![t] = p] => stopper'[u] = stopper[u]
           /\ \A p : FenceOwn(t, p) => /\ attempt'[u] = attempt[u] /\ sessions'[u] = sessions[u]
                                       /\ stopping'[u] = stopping[u]
           /\ DropOwn(t) => sessions'[u] = sessions[u]
           /\ \A i, by : BeginTeardown(t, i, by) => /\ sessions'[u] = sessions[u]
                                                    /\ stopping'[u] = stopping[u]
           /\ BootTurn(t) => boot'.phase = boot.phase /\ (u \in boot'.stale <=> u \in boot.stale)
  <1>0. /\ row \in [Tasks -> Rows] /\ task \in [Tasks -> TaskStates]
        /\ sessions \in [Tasks -> Seq(Sessions)]
        /\ attempt \in [Tasks -> Attempts] /\ stopping \in [Tasks -> Teardowns]
        /\ stopper \in [Tasks -> Stoppers] /\ boot \in Boots
    BY DEF Shaped
  <1>1. \A r : PutRow(t, r) => row'[u] = row[u]
    BY <1>0 DEF PutRow
  <1>2. \A status, bound : SetTask(t, status, bound) => task'[u] = task[u]
    BY <1>0 DEF SetTask
  <1>3. Rejected(t) => row'[u] = row[u] /\ task'[u] = task[u]
    <2> DEFINE inForce == /\ Reserved(t) /\ row[t].generation = attempt[t].generation
                          /\ row[t].state = "starting"
    <2>1. CASE inForce /\ Excluded(t)
      BY <1>1, <2>1 DEF Rejected
    <2>2. CASE inForce /\ ~Excluded(t)
      BY <1>1, <1>2, <2>2 DEF Rejected
    <2>3. CASE ~inForce
      BY <2>3 DEF Rejected
    <2>4. QED
      BY <2>1, <2>2, <2>3
  <1>4. Unreclaimed(t) => row'[u] = row[u] /\ task'[u] = task[u]
    BY <1>1, <1>2 DEF Unreclaimed
  <1>5. /\ \A a : attempt' = [attempt EXCEPT ![t] = a] => attempt'[u] = attempt[u]
        /\ \A p : attempt' = [attempt EXCEPT ![t].phase = p] => attempt'[u] = attempt[u]
        /\ \A p : stopper' = [stopper EXCEPT ![t] = p] => stopper'[u] = stopper[u]
    BY <1>0
  <1>6. \A p : FenceOwn(t, p) => /\ attempt'[u] = attempt[u] /\ sessions'[u] = sessions[u]
                                 /\ stopping'[u] = stopping[u]
    BY <1>0 DEF FenceOwn
  <1>7. DropOwn(t) => sessions'[u] = sessions[u]
    BY <1>0 DEF DropOwn
  <1>8. \A i, by : BeginTeardown(t, i, by) => /\ sessions'[u] = sessions[u]
                                              /\ stopping'[u] = stopping[u]
    BY <1>0 DEF BeginTeardown
  <1>9. BootTurn(t) => boot'.phase = boot.phase /\ (u \in boot'.stale <=> u \in boot.stale)
    BY <1>0 DEF BootTurn, Boots
  <1>10. QED
    BY <1>1, <1>2, <1>3, <1>4, <1>5, <1>6, <1>7, <1>8, <1>9

\* So do the requests, and what the drain does with them.
LEMMA AskingElsewhere ==
    ASSUME Shaped, NEW t \in Tasks, NEW u \in Tasks, u # t, Asks(t)
    PROVE  Untouched(u) /\ boot' = boot
  <1>1. /\ \A r : PutRow(t, r) => row'[u] = row[u]
        /\ \A a : attempt' = [attempt EXCEPT ![t] = a] => attempt'[u] = attempt[u]
    BY HelpersElsewhere
  <1>2. CASE RequestStart(t)
    BY <1>1, <1>2 DEF RequestStart, Untouched
  <1>3. CASE ExplicitStart(t)
    BY <1>1, <1>3 DEF ExplicitStart, Untouched
  <1>4. CASE BackoffElapses(t)
    BY <1>1, <1>4 DEF BackoffElapses, Untouched
  <1>5. CASE DrainCancels(t)
    BY <1>1, <1>5 DEF DrainCancels, Untouched
  <1>6. CASE DrainFindsRunning(t)
    BY <1>1, <1>6 DEF DrainFindsRunning, Untouched
  <1>7. CASE DrainPasses(t)
    BY <1>7 DEF DrainPasses, Untouched
  <1>8. CASE DrainClaims(t)
    BY <1>1, <1>8 DEF DrainClaims, Untouched
  <1>9. QED
    BY <1>2, <1>3, <1>4, <1>5, <1>6, <1>7, <1>8 DEF Asks

\* So do the steps of a start.
LEMMA StartElsewhere ==
    ASSUME Shaped, NEW t \in Tasks, NEW u \in Tasks, u # t, StartStep(t)
    PROVE  Untouched(u) /\ boot' = boot
  <1>0. /\ row \in [Tasks -> Rows] /\ task \in [Tasks -> TaskStates]
        /\ sessions \in [Tasks -> Seq(Sessions)] /\ stopping \in [Tasks -> Teardowns]
        /\ attempt \in [Tasks -> Attempts]
    BY DEF Shaped
  <1>1. /\ \A r : PutRow(t, r) => row'[u] = row[u]
        /\ \A status, bound : SetTask(t, status, bound) => task'[u] = task[u]
        /\ Rejected(t) => row'[u] = row[u] /\ task'[u] = task[u]
        /\ \A a : attempt' = [attempt EXCEPT ![t] = a] => attempt'[u] = attempt[u]
        /\ \A p : attempt' = [attempt EXCEPT ![t].phase = p] => attempt'[u] = attempt[u]
        /\ \A p : FenceOwn(t, p) => /\ attempt'[u] = attempt[u] /\ sessions'[u] = sessions[u]
                                    /\ stopping'[u] = stopping[u]
        /\ DropOwn(t) => sessions'[u] = sessions[u]
    BY HelpersElsewhere
  <1>2. CASE MarkStarting(t)
    BY <1>1, <1>2 DEF MarkStarting, Untouched
  <1>3. CASE BeginCreate(t)
    BY <1>1, <1>3 DEF BeginCreate, Reject, Untouched
  <1>4. CASE StartFails(t)
    BY <1>1, <1>4 DEF StartFails, Reject, Untouched
  <1>5. CASE CreateSucceeds(t)
    <2>1. /\ attempt' = [attempt EXCEPT ![t].phase = "binding"] \/ attempt' = [attempt EXCEPT ![t].phase = "fencing"]
          /\ \/ sessions' = [sessions EXCEPT ![t] = RegisteredIn(@, t)]
             \/ UNCHANGED sessions
          /\ \/ UNCHANGED stopping
             \/ stopping' = [stopping EXCEPT ![t] = [by |-> "fence", held |-> Last(RegisteredIn(<<>>, t))]]
          /\ SetTask(t, "agent_working", TRUE) \/ UNCHANGED task
          /\ UNCHANGED <<row, pauses, stopper, stopped, drain, boot, uses>>
      BY <1>5 DEF CreateSucceeds
    <2>2. /\ sessions' = [sessions EXCEPT ![t] = RegisteredIn(@, t)] => sessions'[u] = sessions[u]
          /\ \A e : stopping' = [stopping EXCEPT ![t] = e] => stopping'[u] = stopping[u]
      BY <1>0
    <2>3. QED
      BY <1>1, <2>1, <2>2 DEF Untouched
  <1>6. CASE CheckBeforePrompt(t)
    BY <1>1, <1>6 DEF CheckBeforePrompt, Reject, Untouched
  <1>7. CASE PromptAccepted(t)
    BY <1>1, <1>7 DEF PromptAccepted, Untouched
  <1>8. CASE PromptFails(t)
    BY <1>1, <1>8 DEF PromptFails, Untouched
  <1>9. CASE CloseSettles(t)
    BY <1>1, <1>9 DEF CloseSettles, Untouched
  <1>10. CASE FenceEnds(t)
    BY <1>1, <1>10 DEF FenceEnds, Reject, Untouched
  <1>11. CASE CreateTimesOut(t)
    BY <1>1, <1>11 DEF CreateTimesOut, Reject, Untouched
  <1>12. CASE OrphanSettles(t)
    BY <1>1, <1>12 DEF OrphanSettles, Untouched
  <1>13. CASE StartTimesOut(t)
    BY <1>1, <1>13 DEF StartTimesOut, Reject, Untouched
  <1>14. QED
    BY <1>2, <1>3, <1>4, <1>5, <1>6, <1>7, <1>8, <1>9, <1>10, <1>11, <1>12, <1>13 DEF StartStep

\* So do the stops, the turns and what users do.
LEMMA SessionElsewhere ==
    ASSUME Shaped, NEW t \in Tasks, NEW u \in Tasks, u # t, SessionStep(t)
    PROVE  Untouched(u) /\ boot' = boot
  <1>0. /\ row \in [Tasks -> Rows] /\ task \in [Tasks -> TaskStates]
        /\ sessions \in [Tasks -> Seq(Sessions)] /\ stopping \in [Tasks -> Teardowns]
        /\ attempt \in [Tasks -> Attempts] /\ stopper \in [Tasks -> Stoppers]
    BY DEF Shaped
  <1>1. /\ \A r : PutRow(t, r) => row'[u] = row[u]
        /\ \A status, bound : SetTask(t, status, bound) => task'[u] = task[u]
        /\ \A p : stopper' = [stopper EXCEPT ![t] = p] => stopper'[u] = stopper[u]
        /\ \A i, by : BeginTeardown(t, i, by) => /\ sessions'[u] = sessions[u]
                                                 /\ stopping'[u] = stopping[u]
    BY HelpersElsewhere
  <1>2. CASE StopByTaskId(t)
    BY <1>1, <1>2 DEF StopByTaskId, Untouched
  <1>3. CASE StopLooksAgain(t)
    BY <1>1, <1>3 DEF StopLooksAgain, Untouched
  <1>4. CASE StopSession(t)
    BY <1>1, <1>4 DEF StopSession, Untouched
  <1>5. CASE TeardownSettles(t)
    BY <1>0, <1>1, <1>5 DEF TeardownSettles, StopReturns, Untouched
  <1>6. CASE TeardownRefused(t)
    <2>1. u \in stopped' <=> u \in stopped
      BY <1>6 DEF TeardownRefused
    <2>2. QED
      BY <1>0, <1>1, <1>6, <2>1 DEF TeardownRefused, StopReturns, Untouched
  <1>7. CASE TurnEnds(t)
    BY <1>0, <1>7 DEF TurnEnds, Untouched
  <1>8. CASE ReviewLands(t)
    BY <1>0, <1>8 DEF ReviewLands, Untouched
  <1>9. CASE Reap(t)
    BY <1>0, <1>9 DEF Reap, Untouched
  <1>10. CASE MessageWakes(t)
    BY <1>0, <1>10 DEF MessageWakes, Untouched
  <1>11. CASE SetLabel(t)
    BY <1>0, <1>11 DEF SetLabel, Untouched
  <1>12. CASE Complete(t)
    BY <1>0, <1>12 DEF Complete, Untouched
  <1>13. CASE Repair(t)
    BY <1>1, <1>13 DEF Repair, Untouched
  <1>14. QED
    BY <1>2, <1>3, <1>4, <1>5, <1>6, <1>7, <1>8, <1>9, <1>10, <1>11, <1>12, <1>13 DEF SessionStep

\* So does the boot's turn at a task; it also takes the task off the boot's list.
LEMMA RecoveryElsewhere ==
    ASSUME Shaped, NEW t \in Tasks, NEW u \in Tasks, u # t, Recovers(t)
    PROVE  Untouched(u) /\ boot'.phase = boot.phase /\ (u \in boot'.stale <=> u \in boot.stale)
  <1>0. /\ row \in [Tasks -> Rows] /\ task \in [Tasks -> TaskStates]
        /\ sessions \in [Tasks -> Seq(Sessions)] /\ attempt \in [Tasks -> Attempts]
    BY DEF Shaped
  <1>1. /\ \A r : PutRow(t, r) => row'[u] = row[u]
        /\ \A status, bound : SetTask(t, status, bound) => task'[u] = task[u]
        /\ Unreclaimed(t) => row'[u] = row[u] /\ task'[u] = task[u]
        /\ \A a : attempt' = [attempt EXCEPT ![t] = a] => attempt'[u] = attempt[u]
        /\ BootTurn(t) => boot'.phase = boot.phase /\ (u \in boot'.stale <=> u \in boot.stale)
    BY HelpersElsewhere
  <1>2. CASE BootSkips(t)
    BY <1>0, <1>1, <1>2 DEF BootSkips, Untouched
  <1>3. CASE BootResets(t)
    BY <1>1, <1>3 DEF BootResets, Untouched
  <1>4. CASE BootResumes(t)
    BY <1>1, <1>4 DEF BootResumes, Untouched
  <1>5. CASE ResumeReturns(t)
    BY <1>0, <1>1, <1>5 DEF ResumeReturns, Untouched
  <1>6. CASE ResumeFails(t)
    BY <1>1, <1>6 DEF ResumeFails, Untouched
  <1>7. CASE ResumeTimesOut(t)
    BY <1>0, <1>1, <1>7 DEF ResumeTimesOut, Untouched
  <1>8. QED
    BY <1>2, <1>3, <1>4, <1>5, <1>6, <1>7 DEF Recovers, ResumeStep

\* A step about one task leaves every other task, and the phase of the boot, alone.
LEMMA Elsewhere ==
    ASSUME Shaped, NEW t \in Tasks, NEW u \in Tasks, u # t, About(t)
    PROVE  Untouched(u) /\ boot'.phase = boot.phase /\ (u \in boot'.stale <=> u \in boot.stale)
  BY AskingElsewhere, StartElsewhere, SessionElsewhere, RecoveryElsewhere DEF About

------------------------------------------------------------------------------
(* Who holds a claim. *)

\* ClaimsAreHeld, told apart by how far the start has come.  Without the last two lines
\* it is not inductive: a start rejects by its row's state, and a failed prompt's start
\* leaves the row alone when it ends.
ClaimHeld(t) ==
    IsClaimed(row[t]) =>
        \/ /\ row[t].lease = "current"
           /\ Reserved(t)
           /\ attempt[t].generation = row[t].generation
           /\ row[t].state = "claimed" <=> attempt[t].phase = "claimed"
           /\ attempt[t].phase # "closing"
        \/ row[t].lease = "previous" /\ boot.phase = "claims"

\* What a start in flight looks like at its various points.
StartShape(t) ==
    /\ attempt[t].phase = "none" => attempt[t] = NoAttempt
    /\ attempt[t].kind = "resume" <=> attempt[t].phase = "resuming"
    /\ attempt[t].phase = "claimed" =>
          row[t].state = "claimed" /\ attempt[t].generation = row[t].generation
    /\ attempt[t].phase = "orphan" => ~attempt[t].open

\* A process that has not read its claims yet has done nothing else.
BlankAt(t) ==
    boot.phase = "claims" => /\ attempt[t] = NoAttempt /\ sessions[t] = <<>>
                             /\ stopping[t] = NoTeardown /\ stopper[t] = "none"

HeldAt(t) == ClaimHeld(t) /\ StartShape(t) /\ BlankAt(t)

\* Nothing is drained before boot is done.
NoDrainAtBoot == boot.phase # "done" => drain.left = {}

HInv == Shaped /\ NoDrainAtBoot /\ \A t \in Tasks : HeldAt(t)

\* HeldAt of one task survives the steps about the others.
LEMMA HeldElsewhere ==
    ASSUME Shaped, NEW t \in Tasks, NEW u \in Tasks, u # t, About(t), HeldAt(u)
    PROVE  HeldAt(u)'
  <1>1. Untouched(u) /\ boot'.phase = boot.phase
    BY Elsewhere
  <1>2. ClaimHeld(u)' /\ StartShape(u)' /\ BlankAt(u)'
    BY <1>1 DEF Untouched, HeldAt, ClaimHeld, StartShape, BlankAt, Reserved
  <1>3. QED
    BY <1>2 DEF HeldAt

\* Before boot has read the claims, the one thing that moves is a backoff.
LEMMA NothingBeforeBoot ==
    ASSUME Shaped, NoDrainAtBoot, NEW t \in Tasks, HeldAt(t), boot.phase = "claims", About(t)
    PROVE  BackoffElapses(t) /\ ~StartStep(t) /\ ~SessionStep(t) /\ ~Recovers(t)
  <1>1. /\ drain.left = {} /\ attempt[t].phase = "none" /\ ~Live(t) /\ ~Stopping(t)
        /\ stopper[t] = "none" /\ ~Callable /\ ~Serving /\ sessions[t] = <<>>
    BY DEF NoDrainAtBoot, HeldAt, BlankAt, NoAttempt, NoTeardown, Live, Stopping, Callable, Serving
  <1>2. ~RequestStart(t) /\ ~ExplicitStart(t) /\ ~DrainCancels(t) /\ ~DrainFindsRunning(t)
        /\ ~DrainPasses(t) /\ ~DrainClaims(t)
    BY <1>1 DEF RequestStart, ExplicitStart, DrainCancels, DrainFindsRunning, DrainPasses,
                DrainClaims, Visiting
  <1>3. ~StartStep(t)
    BY <1>1 DEF StartStep, MarkStarting, BeginCreate, StartFails, CreateSucceeds, CheckBeforePrompt,
                PromptAccepted, PromptFails, CloseSettles, FenceEnds, CreateTimesOut, OrphanSettles,
                StartTimesOut, At
  <1>4. ~SessionStep(t)
    <2>1. DOMAIN sessions[t] = {}
      BY <1>1
    <2>2. QED
      BY <1>1, <2>1 DEF SessionStep, StopByTaskId, StopLooksAgain, StopSession, TeardownSettles,
                TeardownRefused, TurnEnds, ReviewLands, Reap, MessageWakes, SetLabel, Complete,
                Repair, Stopping
  <1>5. ~Recovers(t)
    BY <1>1 DEF Recovers, ResumeStep, BootSkips, BootResets, BootResumes, BootTurn, ResumeReturns,
                ResumeFails, ResumeTimesOut, Resuming
  <1>6. QED
    BY <1>2, <1>3, <1>4, <1>5 DEF About, Asks

\* The new row and start of the task a step is about.
LEMMA Written ==
    ASSUME Shaped, NEW t \in Tasks
    PROVE  /\ \A r : PutRow(t, r) => row'[t] = r
           /\ \A a : attempt' = [attempt EXCEPT ![t] = a] => attempt'[t] = a
           /\ \A p : attempt' = [attempt EXCEPT ![t].phase = p] =>
                /\ attempt'[t].phase = p /\ attempt'[t].generation = attempt[t].generation
                /\ attempt'[t].open = attempt[t].open /\ attempt'[t].kind = attempt[t].kind
           /\ attempt' = [attempt EXCEPT ![t].open = FALSE] =>
                /\ attempt'[t].phase = attempt[t].phase /\ ~attempt'[t].open
                /\ attempt'[t].generation = attempt[t].generation
                /\ attempt'[t].kind = attempt[t].kind
  <1>1. row \in [Tasks -> Rows] /\ attempt \in [Tasks -> Attempts] /\ attempt[t] \in Attempts
    BY DEF Shaped
  <1>2. /\ \A p : /\ [attempt[t] EXCEPT !.phase = p].phase = p
                  /\ [attempt[t] EXCEPT !.phase = p].generation = attempt[t].generation
                  /\ [attempt[t] EXCEPT !.phase = p].open = attempt[t].open
                  /\ [attempt[t] EXCEPT !.phase = p].kind = attempt[t].kind
        /\ [attempt[t] EXCEPT !.open = FALSE].phase = attempt[t].phase
        /\ ~[attempt[t] EXCEPT !.open = FALSE].open
        /\ [attempt[t] EXCEPT !.open = FALSE].generation = attempt[t].generation
        /\ [attempt[t] EXCEPT !.open = FALSE].kind = attempt[t].kind
    BY <1>1 DEF Attempts
  <1>3. /\ \A p : attempt' = [attempt EXCEPT ![t].phase = p] => attempt'[t] = [attempt[t] EXCEPT !.phase = p]
        /\ attempt' = [attempt EXCEPT ![t].open = FALSE] => attempt'[t] = [attempt[t] EXCEPT !.open = FALSE]
        /\ \A a : attempt' = [attempt EXCEPT ![t] = a] => attempt'[t] = a
    BY <1>1
  <1>4. \A r : PutRow(t, r) => row'[t] = r
    BY <1>1 DEF PutRow
  <1>5. ASSUME NEW p, attempt' = [attempt EXCEPT ![t].phase = p]
        PROVE  /\ attempt'[t].phase = p /\ attempt'[t].generation = attempt[t].generation
               /\ attempt'[t].open = attempt[t].open /\ attempt'[t].kind = attempt[t].kind
    BY <1>1, <1>2, <1>5
  <1>6. ASSUME attempt' = [attempt EXCEPT ![t].open = FALSE]
        PROVE  /\ attempt'[t].phase = attempt[t].phase /\ ~attempt'[t].open
               /\ attempt'[t].generation = attempt[t].generation
               /\ attempt'[t].kind = attempt[t].kind
    BY <1>1, <1>2, <1>6
  <1>7. QED
    BY <1>3, <1>4, <1>5, <1>6

\* A start that rejects settles the row it claimed, and revives none.
LEMMA RejectedSettles ==
    ASSUME Shaped, NEW t \in Tasks, HeldAt(t), boot.phase # "claims", attempt[t].phase # "claimed",
           Rejected(t)
    PROVE  ~IsClaimed(row'[t]) /\ (IsTerminal(row[t]) => row'[t] = row[t])
  <1> DEFINE inForce == /\ Reserved(t) /\ row[t].generation = attempt[t].generation
                        /\ row[t].state = "starting"
  <1>1. row[t] \in Rows
    BY DEF Shaped
  <1>2. inForce => IsClaimed(row[t]) /\ MayEnd(row[t]) /\ ~IsTerminal(row[t])
    BY <1>1, RowFates
  <1>3. /\ ~IsClaimed(FailedOrRetrying(row[t]))
        /\ MayEnd(row[t]) => Ended(row[t], "cancelled").state = "cancelled"
    BY <1>1, RowFates
  <1>4. ~IsClaimed(Ended(row[t], "cancelled")) \/ ~MayEnd(row[t])
    BY <1>3 DEF IsClaimed, ClaimedStates
  <1>5. CASE inForce /\ Excluded(t)
    BY <1>2, <1>4, <1>5, Written DEF Rejected
  <1>6. CASE inForce /\ ~Excluded(t)
    BY <1>2, <1>3, <1>6, Written DEF Rejected
  <1>7. CASE ~inForce
    <2>1. row'[t] = row[t]
      BY <1>7 DEF Rejected
    <2>2. ~IsClaimed(row[t])
      <3>1. SUFFICES ASSUME IsClaimed(row[t]) PROVE FALSE
        OBVIOUS
      <3>2. Reserved(t) /\ row[t].generation = attempt[t].generation /\ row[t].state # "claimed"
        BY <3>1 DEF HeldAt, ClaimHeld
      <3>3. row[t].state = "starting"
        BY <3>1, <3>2 DEF IsClaimed, ClaimedStates
      <3>4. QED
        BY <1>7, <3>2, <3>3
    <2>3. QED
      BY <2>1, <2>2
  <1>8. QED
    BY <1>5, <1>6, <1>7


\* What a step keeps of its task: the claim is held, the start is well formed, and a row
\* that ended stays so unless the user starts the task.
Keeps(t) == HeldAt(t)' /\ (IsTerminal(row[t]) => IsTerminal(row'[t]) \/ ExplicitStart(t))

\* Requests, and what the drain does with them, keep the claims held.
LEMMA AskingHeld ==
    ASSUME Shaped, NoDrainAtBoot, NEW t \in Tasks, HeldAt(t), Asks(t)
    PROVE  Keeps(t)
  <1>0. /\ row[t] \in Rows /\ Enqueued(row[t]) \in Rows
        /\ boot'.phase = boot.phase
        /\ UNCHANGED <<sessions, stopping, stopper>>
    <2>1. row[t] \in Rows
      BY DEF Shaped
    <2>2. QED
      BY <2>1, RowTypes DEF Asks, RequestStart, ExplicitStart, BackoffElapses, DrainCancels,
         DrainFindsRunning, DrainPasses, DrainClaims
  <1>1. CASE BackoffElapses(t)
    <2>1. row'[t] = BackoffOver(row[t]) /\ UNCHANGED <<attempt, boot>> /\ row[t].state = "retrying"
      BY <1>1, Written DEF BackoffElapses
    <2>2. row'[t].state = "retrying"
      BY <1>0, <2>1, RowFates
    <2>3. ~IsClaimed(row'[t]) /\ ~IsTerminal(row[t])
      BY <2>1, <2>2 DEF IsClaimed, ClaimedStates, IsTerminal, TerminalStates
    <2>4. ClaimHeld(t)' /\ StartShape(t)' /\ BlankAt(t)'
      BY <1>0, <2>1, <2>3 DEF HeldAt, ClaimHeld, StartShape, BlankAt
    <2>5. QED
      BY <2>3, <2>4 DEF HeldAt, Keeps
  <1>2. ASSUME ~BackoffElapses(t) PROVE boot.phase # "claims" /\ BlankAt(t)'
    <2>1. boot.phase # "claims"
      BY <1>2, NothingBeforeBoot DEF About
    <2>2. QED
      BY <1>0, <2>1 DEF BlankAt
  <1>3. CASE RequestStart(t)
    <2>1. /\ ~IsActive(row[t]) /\ ~IsTerminal(row[t]) /\ attempt[t].phase = "none"
          /\ \/ row'[t] = Enqueued(row[t]) /\ UNCHANGED attempt
             \/ /\ row'[t] = Claimed(Enqueued(row[t]))
                /\ attempt'[t] = [phase |-> "claimed", generation |-> Claimed(Enqueued(row[t])).generation,
                                  open |-> TRUE, kind |-> "request"]
      BY <1>3, Written DEF RequestStart, StartPending
    <2>2. CASE row'[t] = Enqueued(row[t]) /\ UNCHANGED attempt
      <3>1. ~IsClaimed(row'[t])
        BY <1>0, <2>1, <2>2, RowFates
      <3>2. ClaimHeld(t)' /\ StartShape(t)'
        BY <2>1, <2>2, <3>1 DEF HeldAt, ClaimHeld, StartShape
      <3>3. QED
        BY <1>2, <1>3, <2>1, <3>2 DEF HeldAt, Keeps, BackoffElapses, IsActive, ActiveStates, DispatchableStates
    <2>3. CASE /\ row'[t] = Claimed(Enqueued(row[t]))
               /\ attempt'[t] = [phase |-> "claimed", generation |-> Claimed(Enqueued(row[t])).generation,
                                 open |-> TRUE, kind |-> "request"]
      <3>1. row'[t].state = "claimed" /\ row'[t].lease = "current"
            /\ attempt'[t].generation = row'[t].generation /\ attempt'[t].phase = "claimed"
            /\ attempt'[t].open /\ attempt'[t].kind = "request"
        BY <1>0, <2>3, RowFates
      <3>2. ClaimHeld(t)' /\ StartShape(t)'
        BY <3>1 DEF ClaimHeld, StartShape, Reserved
      <3>3. QED
        BY <1>2, <1>3, <2>1, <3>2 DEF HeldAt, Keeps, BackoffElapses, IsActive, ActiveStates, DispatchableStates
    <2>4. QED
      BY <2>1, <2>2, <2>3
  <1>4. CASE ExplicitStart(t)
    <2>1. /\ row'[t] = Enqueued(row[t]) /\ IsTerminal(row[t]) /\ UNCHANGED attempt
          /\ attempt[t].phase # "claimed"
      BY <1>4, Written DEF ExplicitStart, Serving, Quiet
    <2>2. ~IsClaimed(row'[t])
      BY <1>0, <2>1, RowFates
    <2>3. ClaimHeld(t)' /\ StartShape(t)'
      BY <2>1, <2>2 DEF HeldAt, ClaimHeld, StartShape
    <2>4. ~BackoffElapses(t)
      BY <2>1 DEF BackoffElapses, IsTerminal, TerminalStates
    <2>5. QED
      BY <1>2, <1>4, <2>3, <2>4 DEF HeldAt, Keeps
  <1>5. CASE DrainCancels(t) \/ DrainFindsRunning(t)
    <2>1. /\ row'[t] \in {Ended(row[t], "cancelled"), Recovered(row[t]), row[t]} /\ UNCHANGED attempt
          /\ attempt[t].phase # "claimed" /\ t \in drain.left
      BY <1>5, Written DEF DrainCancels, DrainFindsRunning, Visiting
    <2>2. /\ row'[t].state \in {"cancelled", "recovered"} \/ row'[t] = row[t]
          /\ IsTerminal(row[t]) => row'[t] = row[t]
      BY <1>0, <2>1, RowFates
    <2>3. boot.phase # "claims"
      BY <2>1 DEF NoDrainAtBoot
    <2>4. ~IsClaimed(row'[t]) \/ row'[t] = row[t]
      BY <2>2 DEF IsClaimed, ClaimedStates
    <2>5. ClaimHeld(t)' /\ StartShape(t)' /\ BlankAt(t)'
      BY <1>0, <2>1, <2>3, <2>4 DEF HeldAt, ClaimHeld, StartShape, Reserved, BlankAt
    <2>6. QED
      BY <2>2, <2>5 DEF HeldAt, Keeps
  <1>6. CASE DrainPasses(t)
    <2>1. UNCHANGED <<row, attempt, boot>>
      BY <1>6 DEF DrainPasses
    <2>2. ClaimHeld(t)' /\ StartShape(t)' /\ BlankAt(t)'
      BY <1>0, <2>1 DEF HeldAt, ClaimHeld, StartShape, Reserved, BlankAt
    <2>3. QED
      BY <2>1, <2>2 DEF HeldAt, Keeps
  <1>7. CASE DrainClaims(t)
    <2>1. /\ row'[t] = Claimed(row[t]) /\ t \in drain.left /\ IsDispatchable(row[t])
          /\ attempt'[t] = [phase |-> "claimed", generation |-> Claimed(row[t]).generation,
                            open |-> TRUE, kind |-> "drain"]
      BY <1>7, Written DEF DrainClaims, Visiting, MayClaim
    <2>2. row'[t].state = "claimed" /\ row'[t].lease = "current"
          /\ attempt'[t].generation = row'[t].generation /\ attempt'[t].phase = "claimed"
          /\ attempt'[t].open /\ attempt'[t].kind = "drain"
      BY <1>0, <2>1, RowFates
    <2>3. boot.phase # "claims" /\ ~IsTerminal(row[t])
      BY <1>0, <2>1, RowFates DEF NoDrainAtBoot
    <2>4. ClaimHeld(t)' /\ StartShape(t)' /\ BlankAt(t)'
      BY <1>0, <2>2, <2>3 DEF ClaimHeld, StartShape, Reserved, BlankAt
    <2>5. QED
      BY <2>3, <2>4 DEF HeldAt, Keeps
  <1>8. QED
    BY <1>1, <1>3, <1>4, <1>5, <1>6, <1>7 DEF Asks


\* The steps of a start keep the claims held: it gives its claim up only by ending its row,
\* by putting it back in the queue or by acknowledging it.
LEMMA StartHeld ==
    ASSUME Shaped, NoDrainAtBoot, NEW t \in Tasks, HeldAt(t), StartStep(t)
    PROVE  Keeps(t)
  <1>0. /\ row[t] \in Rows /\ attempt[t] \in Attempts /\ boot'.phase = boot.phase
        /\ boot.phase # "claims" /\ BlankAt(t)'
        /\ ~IsTerminal(row[t]) /\ ~IsClaimed(row[t]) => ~ (row[t].state = "starting")
    <2>1. row[t] \in Rows /\ attempt[t] \in Attempts
      BY DEF Shaped
    <2>2. UNCHANGED boot
      BY DEF StartStep, MarkStarting, BeginCreate, StartFails, CreateSucceeds, CheckBeforePrompt,
             PromptAccepted, PromptFails, CloseSettles, FenceEnds, CreateTimesOut, OrphanSettles,
             StartTimesOut
    <2>3. boot.phase # "claims"
      BY NothingBeforeBoot DEF About
    <2>4. BlankAt(t)'
      BY <2>2, <2>3 DEF BlankAt
    <2>5. QED
      BY <2>1, <2>2, <2>3, <2>4, RowFates
  <1>1. ClaimHeld(t) /\ StartShape(t)
    BY DEF HeldAt
  <1>2. StartShape(t)' /\ ~IsClaimed(row'[t]) /\ (IsTerminal(row[t]) => IsTerminal(row'[t])) => Keeps(t)
    BY <1>0 DEF Keeps, HeldAt, ClaimHeld
  <1>3. StartShape(t)' /\ row'[t] = row[t] /\ ClaimHeld(t)' => Keeps(t)
    BY <1>0 DEF Keeps, HeldAt
  <1>4. attempt'[t] = NoAttempt => StartShape(t)'
    BY DEF StartShape, NoAttempt
  <1>5. ASSUME Rejected(t), attempt[t].phase # "claimed", StartShape(t)' PROVE Keeps(t)
    <2>1. ~IsClaimed(row'[t]) /\ (IsTerminal(row[t]) => row'[t] = row[t])
      BY <1>0, <1>5, RejectedSettles
    <2>2. QED
      BY <1>2, <1>5, <2>1
  <1>6. ASSUME NEW p \in {"creating", "binding", "prompting", "fencing", "unacked"},
               attempt[t].phase \in {"preparing", "creating", "binding", "prompting"},
               attempt' = [attempt EXCEPT ![t].phase = p], row'[t] = row[t]
        PROVE  Keeps(t)
    <2>1. /\ attempt'[t].phase = p /\ attempt'[t].generation = attempt[t].generation
          /\ attempt'[t].open = attempt[t].open /\ attempt'[t].kind = attempt[t].kind
      BY <1>6, Written
    <2>2. StartShape(t)' /\ ClaimHeld(t)'
      BY <1>0, <1>1, <1>6, <2>1 DEF StartShape, ClaimHeld, Reserved
    <2>3. QED
      BY <1>3, <1>6, <2>2
  <1>7. CASE MarkStarting(t)
    <2>1. /\ attempt[t].phase = "claimed" /\ row[t].state = "claimed"
          /\ row'[t] = MarkedStarting(row[t]) /\ attempt'[t].phase = "preparing"
          /\ attempt'[t].generation = attempt[t].generation
          /\ attempt'[t].open = attempt[t].open /\ attempt'[t].kind = attempt[t].kind
      BY <1>7, Written DEF MarkStarting, MayMarkStarting
    <2>2. row'[t].state = "starting" /\ row'[t].lease = row[t].lease /\ row'[t].generation = row[t].generation
          /\ IsClaimed(row[t]) /\ ~IsTerminal(row[t])
      BY <1>0, <2>1, RowFates
    <2>3. StartShape(t)' /\ ClaimHeld(t)'
      BY <1>0, <1>1, <2>1, <2>2 DEF StartShape, ClaimHeld, Reserved
    <2>4. QED
      BY <1>0, <2>2, <2>3 DEF Keeps, HeldAt
  <1>8. CASE BeginCreate(t)
    <2>1. \/ attempt' = [attempt EXCEPT ![t].phase = "creating"] /\ UNCHANGED row
          \/ Rejected(t) /\ attempt' = [attempt EXCEPT ![t] = NoAttempt]
      BY <1>8 DEF BeginCreate, Reject
    <2>2. attempt[t].phase = "preparing"
      BY <1>8 DEF BeginCreate, At
    <2>3. QED
      BY <1>4, <1>5, <1>6, <2>1, <2>2, Written
  <1>9. CASE StartFails(t)
    BY <1>4, <1>5, <1>9, Written DEF StartFails, Reject, At
  <1>10. CASE CreateSucceeds(t)
    <2>1. /\ attempt' = [attempt EXCEPT ![t].phase = "binding"] \/ attempt' = [attempt EXCEPT ![t].phase = "fencing"]
          /\ UNCHANGED row /\ attempt[t].phase = "creating"
      BY <1>10 DEF CreateSucceeds, At
    <2>2. QED
      BY <1>6, <2>1
  <1>11. CASE CheckBeforePrompt(t)
    <2>1. /\ \/ attempt' = [attempt EXCEPT ![t].phase = "prompting"] /\ UNCHANGED row
             \/ Rejected(t) /\ attempt' = [attempt EXCEPT ![t] = NoAttempt]
             \/ attempt' = [attempt EXCEPT ![t].phase = "fencing"] /\ UNCHANGED row
          /\ attempt[t].phase = "binding"
      BY <1>11, Fencing DEF CheckBeforePrompt, Reject, At
    <2>2. QED
      BY <1>4, <1>5, <1>6, <2>1, Written
  <1>12. CASE PromptAccepted(t)
    <2>1. /\ attempt[t].phase = "prompting"
          /\ \/ /\ Owns(row[t], attempt[t].generation) /\ row'[t] = Acknowledged(row[t])
                /\ attempt'[t] = NoAttempt
             \/ attempt' = [attempt EXCEPT ![t].phase = "unacked"] /\ UNCHANGED row
             \/ ~attempt[t].open /\ attempt'[t] = NoAttempt /\ UNCHANGED row
      BY <1>12, Written, Fencing DEF PromptAccepted, At
    <2>2. CASE /\ Owns(row[t], attempt[t].generation) /\ row'[t] = Acknowledged(row[t])
               /\ attempt'[t] = NoAttempt
      <3>1. row'[t].state = "started" /\ ~IsTerminal(row[t])
        BY <1>0, <2>2, RowFates DEF Owns
      <3>2. ~IsClaimed(row'[t])
        BY <3>1 DEF IsClaimed, ClaimedStates
      <3>3. QED
        BY <1>2, <1>4, <2>2, <3>1, <3>2
    <2>3. CASE ~attempt[t].open /\ attempt'[t] = NoAttempt /\ UNCHANGED row
      <3>1. ~IsClaimed(row[t])
        BY <1>0, <1>1, <2>3 DEF ClaimHeld, Reserved
      <3>2. QED
        BY <1>2, <1>4, <2>3, <3>1
    <2>4. QED
      BY <1>6, <2>1, <2>2, <2>3
  <1>13. CASE PromptFails(t)
    <2>1. /\ attempt[t].phase = "prompting" /\ row'[t] = Ended(row[t], "failed")
          /\ attempt'[t].phase = "closing" /\ attempt'[t].kind = attempt[t].kind
      BY <1>13, Written DEF PromptFails, At
    <2>2. /\ row'[t].state = "failed" \/ (row'[t] = row[t] /\ ~IsActive(row[t]))
          /\ IsTerminal(row[t]) => row'[t] = row[t]
      BY <1>0, <2>1, RowFates
    <2>3. ~IsClaimed(row'[t])
      BY <1>0, <2>2, RowFates DEF IsClaimed, ClaimedStates
    <2>4. StartShape(t)'
      BY <1>1, <2>1 DEF StartShape
    <2>5. QED
      BY <1>2, <2>2, <2>3, <2>4
  <1>14. CASE CloseSettles(t)
    <2>1. attempt[t].phase = "closing" /\ UNCHANGED row /\ attempt'[t] = NoAttempt
      BY <1>14, Written DEF CloseSettles, At
    <2>2. ~IsClaimed(row[t])
      BY <1>0, <1>1, <2>1 DEF ClaimHeld
    <2>3. QED
      BY <1>2, <1>4, <2>1, <2>2
  <1>15. CASE FenceEnds(t)
    BY <1>4, <1>5, <1>15, Written DEF FenceEnds, Reject, At
  <1>16. CASE CreateTimesOut(t)
    <2>1. attempt[t].phase = "creating" /\ Rejected(t)
          /\ attempt'[t] = [attempt[t] EXCEPT !.phase = "orphan", !.open = FALSE]
      BY <1>16, Written DEF CreateTimesOut, Reject, At
    <2>2. attempt'[t].phase = "orphan" /\ ~attempt'[t].open /\ attempt'[t].kind = attempt[t].kind
      BY <1>0, <2>1 DEF Attempts
    <2>3. StartShape(t)'
      BY <1>1, <2>1, <2>2 DEF StartShape
    <2>4. QED
      BY <1>5, <2>1, <2>3
  <1>17. CASE OrphanSettles(t)
    <2>1. attempt[t].phase = "orphan" /\ UNCHANGED row /\ attempt'[t] = NoAttempt
      BY <1>17, Written DEF OrphanSettles, At
    <2>2. ~IsClaimed(row[t])
      BY <1>0, <1>1, <2>1 DEF ClaimHeld, StartShape, Reserved
    <2>3. QED
      BY <1>2, <1>4, <2>1, <2>2
  <1>18. CASE StartTimesOut(t)
    <2>1. /\ attempt[t].phase \in {"preparing", "creating", "binding", "prompting", "fencing", "closing"}
          /\ Rejected(t) /\ attempt'[t] = [attempt[t] EXCEPT !.open = FALSE]
      BY <1>18, Written DEF StartTimesOut, Reject, At
    <2>2. attempt'[t].phase = attempt[t].phase /\ ~attempt'[t].open /\ attempt'[t].kind = attempt[t].kind
      BY <1>0, <2>1 DEF Attempts
    <2>3. StartShape(t)'
      BY <1>1, <2>1, <2>2 DEF StartShape
    <2>4. QED
      BY <1>5, <2>1, <2>3
  <1>19. QED
    BY <1>7, <1>8, <1>9, <1>10, <1>11, <1>12, <1>13, <1>14, <1>15, <1>16, <1>17, <1>18
       DEF StartStep

\* Withdrawing, recovering or requeueing a row claims none and revives none.
LEMMA RecoveringFates ==
    ASSUME NEW r \in Rows
    PROVE  /\ ~IsClaimed(Cancelled(r)) /\ IsTerminal(Cancelled(r))
           /\ ~IsClaimed(Recovered(r)) \/ Recovered(r) = r
           /\ ~IsClaimed(r) => ~IsClaimed(Recovered(r)) /\ ~IsClaimed(Ended(r, "cancelled"))
           /\ IsTerminal(r) => Recovered(r) = r
           /\ IsActive(r) => ~IsClaimed(Recovered(r))
           /\ \A t \in Tasks : row[t] = r /\ ~IsActive(r) => ~IsClaimed(Requeued(t))
  <1>1. IsTerminal(Cancelled(r)) /\ Cancelled(r) \in Rows
    BY RowFates, RowTypes
  <1>2. ~IsClaimed(Cancelled(r))
    BY <1>1, RowFates
  <1>3. ~IsClaimed(Recovered(r)) \/ Recovered(r) = r
    BY RowFates DEF IsClaimed, ClaimedStates
  <1>4. ASSUME NEW q \in Rows, ~IsClaimed(q) PROVE ~IsClaimed(Ended(q, "cancelled"))
    BY <1>4, RowFates DEF IsClaimed, ClaimedStates
  <1>5. IsTerminal(r) => Recovered(r) = r
    BY RowFates
  <1>6. IsActive(r) => ~IsClaimed(Recovered(r))
    BY RowFates DEF IsClaimed, ClaimedStates
  <1>7. ASSUME NEW t \in Tasks, row[t] = r, ~IsActive(r) PROVE ~IsClaimed(Requeued(t))
    <2>1. Enqueued(r) \in Rows /\ ~IsClaimed(Enqueued(r))
      BY <1>7, RowTypes, RowFates
    <2>2. QED
      BY <1>4, <1>7, <2>1 DEF Requeued
  <1>8. QED
    BY <1>1, <1>2, <1>3, <1>4, <1>5, <1>6, <1>7

\* So do stops, turns and what users do, which end rows and never claim one.
LEMMA SessionHeld ==
    ASSUME Shaped, NoDrainAtBoot, NEW t \in Tasks, HeldAt(t), SessionStep(t)
    PROVE  Keeps(t)
  <1>0. /\ row[t] \in Rows /\ UNCHANGED <<attempt, boot>> /\ boot.phase # "claims" /\ BlankAt(t)'
        /\ attempt[t].phase # "claimed"
    <2>1. row[t] \in Rows
      BY DEF Shaped
    <2>2. UNCHANGED <<attempt, boot>> /\ Quiet
      BY DEF SessionStep, StopByTaskId, StopLooksAgain, StopSession, TeardownSettles,
             TeardownRefused, TurnEnds, ReviewLands, Reap, MessageWakes, SetLabel, Complete, Repair,
             Callable, Serving
    <2>3. boot.phase # "claims"
      BY NothingBeforeBoot DEF About
    <2>4. QED
      BY <2>1, <2>2, <2>3 DEF BlankAt, Quiet
  <1>1. \/ row'[t] \in {row[t], Cancelled(row[t]), Recovered(row[t])}
        \/ row'[t] = Requeued(t) /\ ~IsTerminal(row[t]) /\ ~IsActive(row[t])
    <2>1. CASE StopByTaskId(t)
      BY <2>1, Written DEF StopByTaskId
    <2>2. CASE StopSession(t)
      BY <2>2, Written DEF StopSession
    <2>3. CASE TeardownSettles(t)
      BY <2>3, Written DEF TeardownSettles
    <2>4. CASE Repair(t)
      BY <2>4, Written DEF Repair
    <2>5. CASE StopLooksAgain(t) \/ TeardownRefused(t) \/ TurnEnds(t) \/ ReviewLands(t) \/ Reap(t)
               \/ MessageWakes(t) \/ SetLabel(t) \/ Complete(t)
      BY <2>5 DEF StopLooksAgain, TeardownRefused, TurnEnds, ReviewLands, Reap, MessageWakes,
                  SetLabel, Complete
    <2>6. QED
      BY <2>1, <2>2, <2>3, <2>4, <2>5 DEF SessionStep
  <1>2. /\ row'[t] = row[t] \/ ~IsClaimed(row'[t])
        /\ IsTerminal(row[t]) => IsTerminal(row'[t])
    BY <1>0, <1>1, RecoveringFates
  <1>3. StartShape(t)' /\ ClaimHeld(t)'
    BY <1>0, <1>2 DEF HeldAt, StartShape, ClaimHeld, Reserved
  <1>4. QED
    BY <1>0, <1>2, <1>3 DEF Keeps, HeldAt

\* So does the boot's turn at a task, and the reconnection it begins.
LEMMA RecoveryHeld ==
    ASSUME Shaped, NoDrainAtBoot, NEW t \in Tasks, HeldAt(t), Recovers(t)
    PROVE  Keeps(t)
  <1>0. /\ row[t] \in Rows /\ boot'.phase = boot.phase /\ boot.phase # "claims" /\ BlankAt(t)'
        /\ attempt[t].phase # "claimed" /\ attempt[t] \in Attempts
    <2>1. row[t] \in Rows /\ attempt[t] \in Attempts /\ boot \in Boots
      BY DEF Shaped
    <2>2. Quiet
      BY DEF Recovers, ResumeStep, BootSkips, BootResets, BootResumes, BootTurn,
             ResumeReturns, ResumeFails, ResumeTimesOut
    <2>3. BootTurn(t) => boot'.phase = boot.phase
      BY <2>1 DEF BootTurn, Boots
    <2>4. boot'.phase = boot.phase
      BY <2>3 DEF Recovers, ResumeStep, BootSkips, BootResets, BootResumes,
             ResumeReturns, ResumeFails, ResumeTimesOut
    <2>5. boot.phase # "claims"
      BY NothingBeforeBoot DEF About
    <2>6. QED
      BY <2>1, <2>2, <2>4, <2>5 DEF BlankAt, Quiet
  <1>1. ClaimHeld(t) /\ StartShape(t)
    BY DEF HeldAt
  <1>2. ~Reserved(t) => ~IsClaimed(row[t])
    BY <1>0, <1>1 DEF ClaimHeld
  <1>3. IsActive(row[t]) /\ ~Reserved(t) => IsDispatchable(row[t])
    BY <1>0, <1>2, RowFates
  <1>4. attempt[t].phase = "none" \/ Resuming(t) => ~Reserved(t)
    BY <1>1 DEF StartShape, NoAttempt, Reserved, Resuming
  <1>5. ASSUME ~Reserved(t), ~IsTerminal(row[t]) PROVE ~IsClaimed(Requeued(t))
    <2>1. Enqueued(row[t]) \in Rows /\ ~IsClaimed(Enqueued(row[t]))
      BY <1>0, <1>2, <1>5, RowTypes, RowFates
    <2>2. QED
      BY <2>1, RecoveringFates DEF Requeued
  <1>6. \/ UNCHANGED <<row, attempt>>
        \/ row'[t] = Recovered(row[t]) /\ UNCHANGED attempt
        \/ /\ ~Reserved(t) /\ row'[t] \in {row[t], Recovered(row[t])}
           /\ \/ UNCHANGED attempt
              \/ attempt'[t] = NoAttempt
              \/ attempt'[t].phase = "resuming" /\ attempt'[t].kind = "resume"
        \/ /\ ~Reserved(t) /\ row'[t] = Requeued(t) /\ ~IsTerminal(row[t])
           /\ \/ UNCHANGED attempt
              \/ attempt'[t] = NoAttempt
              \/ attempt'[t].phase = "resuming" /\ attempt'[t].kind = "resume"
    <2>1. CASE BootSkips(t)
      BY <2>1, Written DEF BootSkips
    <2>2. CASE BootResets(t)
      BY <1>4, <2>2, Written DEF BootResets, StartPending
    <2>3. CASE BootResumes(t)
      <3>1. /\ attempt'[t] = [phase |-> "resuming", generation |-> 0, open |-> TRUE, kind |-> "resume"]
            /\ UNCHANGED row /\ attempt[t].phase = "none"
        BY <2>3, Written DEF BootResumes, StartPending
      <3>2. attempt'[t].phase = "resuming" /\ attempt'[t].kind = "resume"
        BY <3>1
      <3>3. QED
        BY <1>4, <3>1, <3>2
    <2>4. CASE ResumeReturns(t)
      BY <1>4, <2>4, Written DEF ResumeReturns
    <2>5. CASE ResumeFails(t)
      BY <1>4, <2>5, Written DEF ResumeFails, Unreclaimed
    <2>6. CASE ResumeTimesOut(t)
      BY <1>1, <1>4, <2>6, Written DEF ResumeTimesOut, Unreclaimed, Resuming
    <2>7. QED
      BY <2>1, <2>2, <2>3, <2>4, <2>5, <2>6 DEF Recovers, ResumeStep
  <1>7. /\ (UNCHANGED attempt /\ row'[t] = row[t]) \/ ~IsClaimed(row'[t])
        /\ IsTerminal(row[t]) => IsTerminal(row'[t])
    BY <1>0, <1>2, <1>5, <1>6, RecoveringFates
  <1>8. StartShape(t)'
    BY <1>0, <1>1, <1>6 DEF StartShape, NoAttempt
  <1>9. ClaimHeld(t)'
    BY <1>0, <1>1, <1>7 DEF ClaimHeld, Reserved
  <1>10. QED
    BY <1>0, <1>7, <1>8, <1>9 DEF Keeps, HeldAt

\* A crash hands the claims to a process that is gone; boot takes each of them back.
LEMMA CommonHeld ==
    ASSUME HInv, Common
    PROVE  /\ NoDrainAtBoot' /\ \A t \in Tasks : HeldAt(t)'
           /\ \A t \in Tasks : IsTerminal(row[t]) => IsTerminal(row'[t])
  <1>0. Shaped /\ NoDrainAtBoot /\ \A t \in Tasks : HeldAt(t) /\ row[t] \in Rows
    BY DEF HInv, Shaped
  <1>1. CASE Crash
    <2>1. /\ boot'.phase = "claims" /\ drain'.left = {}
          /\ \A t \in Tasks : /\ row'[t] = AfterCrash(row[t]) /\ attempt'[t] = NoAttempt
                              /\ sessions'[t] = <<>> /\ stopping'[t] = NoTeardown
                              /\ stopper'[t] = "none"
      BY <1>1 DEF Crash
    <2>2. ASSUME NEW t \in Tasks PROVE HeldAt(t)' /\ (IsTerminal(row[t]) => IsTerminal(row'[t]))
      <3>1. row'[t].state = row[t].state /\ (IsClaimed(row[t]) => row'[t].lease = "previous")
        BY <1>0, <2>1 DEF HeldAt, ClaimHeld, AfterCrash, Rows
      <3>2. ClaimHeld(t)' /\ StartShape(t)' /\ BlankAt(t)'
        BY <2>1, <3>1 DEF ClaimHeld, StartShape, BlankAt, NoAttempt, IsClaimed
      <3>3. QED
        BY <3>1, <3>2 DEF HeldAt, IsTerminal
    <2>3. QED
      BY <2>1, <2>2 DEF NoDrainAtBoot
  <1>2. CASE BootRequeues
    <2>1. /\ boot.phase = "claims" /\ boot'.phase = "tasks" /\ UNCHANGED <<drain, attempt>>
          /\ \A t \in Tasks : row'[t] = IF IsInterrupted(row[t]) THEN FailedOrRetrying(row[t]) ELSE row[t]
      BY <1>2 DEF BootRequeues
    <2>2. ASSUME NEW t \in Tasks PROVE HeldAt(t)' /\ (IsTerminal(row[t]) => IsTerminal(row'[t]))
      <3>1. attempt[t] = NoAttempt /\ ~Reserved(t)
        BY <1>0, <2>1 DEF HeldAt, BlankAt, NoAttempt, Reserved
      <3>2. IsClaimed(row[t]) => IsInterrupted(row[t])
        BY <1>0, <3>1 DEF HeldAt, ClaimHeld, IsInterrupted
      <3>3. ~IsClaimed(row'[t]) /\ (IsTerminal(row[t]) => row'[t] = row[t])
        BY <1>0, <2>1, <3>2, RowFates DEF IsInterrupted
      <3>4. ClaimHeld(t)' /\ StartShape(t)' /\ BlankAt(t)'
        BY <2>1, <3>1, <3>3 DEF ClaimHeld, StartShape, BlankAt, NoAttempt
      <3>5. QED
        BY <3>3, <3>4 DEF HeldAt
    <2>3. NoDrainAtBoot'
      BY <1>0, <2>1 DEF NoDrainAtBoot
    <2>4. QED
      BY <2>2, <2>3
  <1>3. CASE BootEnds \/ DrainBegins \/ RetryTimerFires \/ Pause \/ Unpause \/ Sweep
    <2>1. UNCHANGED <<row, attempt, sessions, stopping, stopper>>
      BY <1>3 DEF BootEnds, DrainBegins, RetryTimerFires, Pause, Unpause, Sweep
    <2>2. boot'.phase = boot.phase \/ (boot.phase = "tasks" /\ boot'.phase = "done")
      BY <1>0, <1>3 DEF BootEnds, DrainBegins, RetryTimerFires, Pause, Unpause, Sweep, Shaped, Boots
    <2>3. ASSUME NEW t \in Tasks PROVE HeldAt(t)'
      <3>1. ClaimHeld(t)' /\ StartShape(t)' /\ BlankAt(t)'
        BY <1>0, <2>1, <2>2 DEF HeldAt, ClaimHeld, StartShape, BlankAt, Reserved
      <3>2. QED
        BY <3>1 DEF HeldAt
    <2>4. ScheduleDrain => drain'.left = drain.left
      BY <1>0 DEF ScheduleDrain, Shaped, Drains
    <2>5. NoDrainAtBoot'
      <3>1. CASE DrainBegins
        BY <1>0, <3>1 DEF DrainBegins, NoDrainAtBoot, Shaped, Drains
      <3>2. CASE RetryTimerFires
        <4>1. drain'.left = drain.left
          BY <1>0, <3>2 DEF RetryTimerFires, Shaped, Drains
        <4>2. QED
          BY <1>0, <3>2, <4>1 DEF RetryTimerFires, NoDrainAtBoot
      <3>3. CASE BootEnds \/ Pause \/ Unpause \/ Sweep
        BY <1>0, <2>2, <2>4, <3>3 DEF BootEnds, Pause, Unpause, Sweep, NoDrainAtBoot
      <3>4. QED
        BY <1>3, <3>1, <3>2, <3>3
    <2>6. QED
      BY <2>1, <2>3, <2>5
  <1>4. QED
    BY <1>1, <1>2, <1>3 DEF Common

\* Only a crash and boot itself move boot on.
LEMMA AboutKeepsBoot ==
    ASSUME Shaped, NEW t \in Tasks, About(t)
    PROVE  boot'.phase = boot.phase
  <1>1. BootTurn(t) => boot'.phase = boot.phase
    BY DEF BootTurn, Shaped, Boots
  <1>2. Recovers(t) => boot'.phase = boot.phase
    BY <1>1 DEF Recovers, ResumeStep, BootSkips, BootResets, BootResumes,
           ResumeReturns, ResumeFails, ResumeTimesOut
  <1>3. Asks(t) => boot'.phase = boot.phase
    BY DEF Asks, RequestStart, ExplicitStart, BackoffElapses, DrainCancels,
           DrainFindsRunning, DrainPasses, DrainClaims
  <1>4. StartStep(t) => boot'.phase = boot.phase
    BY DEF StartStep, MarkStarting, BeginCreate, StartFails, CreateSucceeds, CheckBeforePrompt,
           PromptAccepted, PromptFails, CloseSettles, FenceEnds, CreateTimesOut, OrphanSettles,
           StartTimesOut
  <1>5. SessionStep(t) => boot'.phase = boot.phase
    BY DEF SessionStep, StopByTaskId, StopLooksAgain, StopSession, TeardownSettles,
           TeardownRefused, TurnEnds, ReviewLands, Reap, MessageWakes, SetLabel, Complete, Repair
  <1>6. QED
    BY <1>2, <1>3, <1>4, <1>5 DEF About

\* A step about one task drains nothing while boot is under way.
LEMMA DrainWaitsForBoot ==
    ASSUME Shaped, NoDrainAtBoot, NEW t \in Tasks, About(t)
    PROVE  NoDrainAtBoot'
  <1>0. drain \in Drains
    BY DEF Shaped
  <1>1. ScheduleDrain => drain'.left = drain.left
    BY <1>0 DEF ScheduleDrain, Drains
  <1>2. boot'.phase = boot.phase
    BY AboutKeepsBoot
  <1>3. boot.phase # "done" => drain'.left = drain.left
    <2>1. Asks(t) /\ boot.phase # "done" => drain'.left = drain.left
      <3>1. boot.phase # "done" => t \notin drain.left
        BY DEF NoDrainAtBoot
      <3>2. QED
        BY <1>1, <3>1 DEF Asks, RequestStart, ExplicitStart, BackoffElapses, DrainCancels,
             DrainFindsRunning, DrainPasses, DrainClaims, Visiting
    <2>2. StartStep(t) => drain'.left = drain.left
      BY <1>1 DEF StartStep, MarkStarting, BeginCreate, StartFails, CreateSucceeds, CheckBeforePrompt,
             PromptAccepted, PromptFails, CloseSettles, FenceEnds, CreateTimesOut, OrphanSettles,
             StartTimesOut, Reject
    <2>3. SessionStep(t) => drain'.left = drain.left
      BY <1>1 DEF SessionStep, StopByTaskId, StopLooksAgain, StopSession, TeardownSettles,
             TeardownRefused, TurnEnds, ReviewLands, Reap, MessageWakes, SetLabel, Complete, Repair
    <2>4. Recovers(t) => drain'.left = drain.left
      BY <1>1 DEF Recovers, ResumeStep, BootSkips, BootResets, BootResumes,
             ResumeReturns, ResumeFails, ResumeTimesOut
    <2>5. QED
      BY <2>1, <2>2, <2>3, <2>4 DEF About
  <1>4. QED
    BY <1>2, <1>3 DEF NoDrainAtBoot

\* HInv is inductive, and along with it a row that ended is revived by the user alone.
LEMMA HeldStep ==
    ASSUME HInv, [Next]_vars
    PROVE  /\ HInv'
           /\ \A t \in Tasks : IsTerminal(row[t]) /\ ~IsTerminal(row'[t]) => ExplicitStart(t)
  <1>0. Shaped /\ NoDrainAtBoot /\ \A t \in Tasks : HeldAt(t)
    BY DEF HInv
  <1>1. Shaped'
    BY <1>0, StepTypes
  <1>2. CASE Common
    BY <1>1, <1>2, CommonHeld DEF HInv
  <1>3. ASSUME NEW t \in Tasks, About(t)
        PROVE  /\ HInv'
               /\ \A u \in Tasks : IsTerminal(row[u]) /\ ~IsTerminal(row'[u]) => ExplicitStart(u)
    <2>1. NoDrainAtBoot'
      BY <1>0, <1>3, DrainWaitsForBoot
    <2>2. Keeps(t)
      BY <1>0, <1>3, AskingHeld, StartHeld, SessionHeld, RecoveryHeld DEF About
    <2>3. \A u \in Tasks \ {t} : HeldAt(u)' /\ row'[u] = row[u]
      BY <1>0, <1>3, HeldElsewhere, Elsewhere DEF Untouched
    <2>4. QED
      BY <1>1, <2>1, <2>2, <2>3 DEF HInv, Keeps
  <1>4. CASE UNCHANGED vars
    <2>1. UNCHANGED <<row, task, pauses, sessions, attempt, stopping, stopper, stopped, drain, boot, uses>>
      BY <1>4 DEF vars
    <2>2. NoDrainAtBoot' /\ \A t \in Tasks : HeldAt(t)'
      BY <1>0, <2>1 DEF NoDrainAtBoot, HeldAt, ClaimHeld, StartShape, BlankAt, Reserved
    <2>3. QED
      BY <1>1, <2>1, <2>2 DEF HInv
  <1>5. QED
    BY <1>2, <1>3, <1>4, NextIs

\* HInv holds when the service starts.
LEMMA InitHeld == Init => HInv
  <1> SUFFICES ASSUME Init PROVE HInv
    OBVIOUS
  <1>1. Shaped
    BY InitTypes
  <1>2. \A t \in Tasks : row[t] = NoRow /\ attempt[t] = NoAttempt
    BY DEF Init
  <1>3. boot.phase = "done"
    BY DEF Init
  <1>4. \A t \in Tasks : ~IsClaimed(row[t])
    BY <1>2 DEF NoRow, IsClaimed, ClaimedStates
  <1>5. \A t \in Tasks : HeldAt(t)
    BY <1>2, <1>3, <1>4 DEF HeldAt, ClaimHeld, StartShape, BlankAt, NoAttempt
  <1>6. QED
    BY <1>1, <1>3, <1>5 DEF HInv, NoDrainAtBoot

\* A claimed row is never left behind: at every moment the start that claimed it is in
\* flight and answers to its caller, or boot has yet to take the claim of a dead process
\* back.  Every end a start may come to (refused, withdrawn, timed out, failed before or
\* in its prompt) settles the row it claimed, and a crash leaves none that boot misses.
THEOREM ClaimsHeld == Spec => []ClaimsAreHeld
  <1>1. HInv => ClaimsAreHeld
    BY DEF HInv, HeldAt, ClaimHeld, ClaimsAreHeld
  <1>2. HInv /\ [Next]_vars => HInv'
    BY HeldStep
  <1>3. QED
    BY InitHeld, <1>1, <1>2, PTL DEF Spec

\* No recovery, repair, drain or late answer puts a row that ended back in the queue:
\* only the user's explicit start does.
THEOREM NothingResurrects == Spec => NoResurrection
  <1>1. HInv /\ [Next]_vars => HInv'
    BY HeldStep
  <1>2. HInv /\ [Next]_vars =>
            [\A t \in Tasks : IsTerminal(row[t]) /\ ~IsTerminal(row'[t]) => ExplicitStart(t)]_vars
    BY HeldStep
  <1>3. QED
    BY InitHeld, <1>1, <1>2, PTL DEF Spec, NoResurrection

------------------------------------------------------------------------------
(* One session at a time. *)

\* What the environment has done stays done.
LEMMA SpentStaysSpent ==
    ASSUME Shaped, [Next]_vars, NEW k \in Kinds
    PROVE  Never(k)' => Never(k)
  <1>1. \/ UNCHANGED uses
        \/ \E kind \in {"start", "explicit", "message", "stop", "end", "label", "complete", "pause",
                        "sweep", "timeout", "refuse", "crash"} : Spend(kind)
    <2>1. CASE Common
      BY <2>1 DEF Common, Crash, BootRequeues, BootEnds, DrainBegins, RetryTimerFires, Pause,
                  Unpause, Sweep
    <2>2. ASSUME NEW t \in Tasks, Asks(t)
          PROVE  UNCHANGED uses \/ \E kind \in {"start", "explicit"} : Spend(kind)
      BY <2>2 DEF Asks, RequestStart, ExplicitStart, BackoffElapses, DrainCancels,
                  DrainFindsRunning, DrainPasses, DrainClaims, SpendOn
    <2>3. ASSUME NEW t \in Tasks, StartStep(t) PROVE UNCHANGED uses \/ Spend("timeout")
      BY <2>3 DEF StartStep, MarkStarting, BeginCreate, StartFails, CreateSucceeds,
             CheckBeforePrompt, PromptAccepted, PromptFails, CloseSettles, FenceEnds,
             CreateTimesOut, OrphanSettles, StartTimesOut
    <2>4. ASSUME NEW t \in Tasks, SessionStep(t)
          PROVE  \/ UNCHANGED uses
                 \/ \E kind \in {"message", "stop", "end", "label", "complete", "refuse"} : Spend(kind)
      BY <2>4 DEF SessionStep, StopByTaskId, StopLooksAgain, StopSession, TeardownSettles,
             TeardownRefused, TurnEnds, ReviewLands, Reap, MessageWakes, SetLabel, Complete, Repair,
             SpendOn
    <2>5. ASSUME NEW t \in Tasks, Recovers(t) PROVE UNCHANGED uses \/ Spend("timeout")
      BY <2>5 DEF Recovers, ResumeStep, BootSkips, BootResets, BootResumes, ResumeReturns,
             ResumeFails, ResumeTimesOut
    <2>6. CASE UNCHANGED vars
      BY <2>6 DEF vars
    <2>7. QED
      BY <2>1, <2>2, <2>3, <2>4, <2>5, <2>6, NextIs DEF About
  <1>2. CASE UNCHANGED uses
    BY <1>2 DEF Never
  <1>3. ASSUME NEW kind \in Kinds, Spend(kind) PROVE Never(k)' => Never(k)
    <2>1. CASE Tasks = {}
      <3>1. uses.done \in [Kinds -> Nat] /\ uses \in Uses
        BY DEF Shaped, Uses
      <3>2. uses'.done[k] = IF k = kind THEN uses.done[k] + 1 ELSE uses.done[k]
        BY <1>3, <3>1 DEF Spend, Uses
      <3>3. uses.done[k] \in Nat
        BY <3>1
      <3>4. QED
        BY <3>2, <3>3 DEF Never
    <2>2. ASSUME NEW t \in Tasks PROVE Never(k)' => Never(k)
      BY <1>3, <2>2, HelperTypes
    <2>3. QED
      BY <2>1, <2>2
  <1>4. QED
    BY <1>1, <1>2, <1>3 DEF Kinds

\* The conditions AtMostOneWorking and WorkingIsBacked need: no start beside an idle
\* session, no backend that refused to go, and no deadline passed in a process that
\* recovers from a crash.
Undisturbed == ~StartOverIdle /\ Never("refuse") /\ (Never("crash") \/ Never("timeout"))

Opening == {"claimed", "preparing", "creating", "orphan", "resuming"}
Prompting == {"binding", "prompting"}
Closing == {"closing", "fencing", "unacked"}

\* A task has one session at most, and that is known of each point of a start: none while
\* the session is being opened, the start's own one at work while it is bound and
\* prompted, none while it is taken down; and none for a row that may be claimed.
SingleAt(t) ==
    /\ Len(sessions[t]) <= 1
    /\ Live(t) => ~Stopping(t)
    /\ attempt[t].phase \in Opening => ~Live(t) /\ ~Stopping(t)
    /\ attempt[t].phase \in Closing => ~Live(t)
    /\ attempt[t].phase \in Prompting /\ Live(t) =>
          sessions[t][1].by = attempt[t].generation /\ sessions[t][1].status = "working"
    /\ IsDispatchable(row[t]) /\ ~StartPending(t) => ~Live(t)
    /\ Resuming(t) => attempt[t].open /\ ~Never("crash")

\* Boot is under way only after a crash.
BootAfterCrash == boot.phase # "done" => ~Never("crash")

\* What there is to know of at most one session.
LEMMA OneEntry ==
    ASSUME NEW s \in Seq(Sessions), Len(s) <= 1
    PROVE  /\ s # <<>> => Len(s) = 1 /\ 1 \in DOMAIN s /\ s[1] \in Sessions
           /\ \A i \in DOMAIN s : i = 1 /\ s # <<>> /\ RemoveAt(s, i) = <<>>
  <1>1. Len(s) \in Nat /\ DOMAIN s = 1..Len(s)
    OBVIOUS
  <1>2. s # <<>> => Len(s) # 0
    OBVIOUS
  <1>3. s # <<>> => Len(s) = 1 /\ 1 \in DOMAIN s
    BY <1>1, <1>2
  <1>4. s # <<>> => s[1] \in Sessions
    BY <1>3
  <1>5. ASSUME NEW i \in DOMAIN s PROVE i = 1 /\ s # <<>> /\ RemoveAt(s, i) = <<>>
    <2>1. i = 1 /\ Len(s) = 1
      BY <1>1
    <2>2. RemoveAt(s, i) = <<>>
      BY <2>1, Removal
    <2>3. QED
      BY <2>1, <2>2
  <1>6. QED
    BY <1>3, <1>4, <1>5

\* What SingleAt gives the steps: a task with one session at most has none once that one
\* is taken away.
LEMMA OneSession ==
    ASSUME Shaped, NEW t \in Tasks, Len(sessions[t]) <= 1
    PROVE  /\ Live(t) => sessions[t] # <<>> /\ Len(sessions[t]) = 1 /\ 1 \in DOMAIN sessions[t]
                         /\ sessions[t][1] \in Sessions
           /\ \A i \in DOMAIN sessions[t] :
                Live(t) /\ i = 1 /\ RemoveAt(sessions[t], i) = <<>>
           /\ OwnIndex(t) # {} => Live(t) /\ WithoutOwn(t) = <<>>
  <1>1. sessions[t] \in Seq(Sessions)
    BY DEF Shaped
  <1>2. /\ Live(t) => sessions[t] # <<>> /\ Len(sessions[t]) = 1 /\ 1 \in DOMAIN sessions[t]
                      /\ sessions[t][1] \in Sessions
        /\ \A i \in DOMAIN sessions[t] : Live(t) /\ i = 1 /\ RemoveAt(sessions[t], i) = <<>>
    BY <1>1, OneEntry DEF Live
  <1>3. ASSUME OwnIndex(t) # {} PROVE Live(t) /\ WithoutOwn(t) = <<>>
    <2>1. PICK i \in OwnIndex(t) : i = CHOOSE j \in OwnIndex(t) : TRUE
      BY <1>3
    <2>2. i \in DOMAIN sessions[t]
      BY DEF OwnIndex
    <2>3. QED
      BY <1>2, <1>3, <2>1, <2>2 DEF WithoutOwn
  <1>4. QED
    BY <1>2, <1>3

\* So taking a session away leaves none.
LEMMA TakenAway ==
    ASSUME Shaped, NEW t \in Tasks, SingleAt(t)
    PROVE  /\ \A by : \A i \in DOMAIN sessions[t] : BeginTeardown(t, i, by) =>
                /\ Live(t) /\ i = 1 /\ sessions'[t] = <<>> /\ stopping'[t].by = by
                /\ stopping'[t].held = sessions[t][1]
           /\ attempt[t].phase \in Prompting =>
                /\ OwnIndex(t) = {} <=> ~Live(t)
                /\ DropOwn(t) => sessions'[t] = <<>>
                /\ \A p : FenceOwn(t, p) => /\ sessions'[t] = <<>>
                                            /\ Live(t) => stopping'[t].by = "fence"
                                            /\ ~Live(t) => stopping'[t] = stopping[t]
  <1>1. sessions \in [Tasks -> Seq(Sessions)] /\ stopping \in [Tasks -> Teardowns]
    BY DEF Shaped
  <1>2. Len(sessions[t]) <= 1
    BY DEF SingleAt
  <1>3. ASSUME NEW i \in DOMAIN sessions[t], NEW by, BeginTeardown(t, i, by)
        PROVE  /\ Live(t) /\ i = 1 /\ sessions'[t] = <<>> /\ stopping'[t].by = by
               /\ stopping'[t].held = sessions[t][1]
    BY <1>1, <1>2, <1>3, OneSession DEF BeginTeardown
  <1>4. ASSUME attempt[t].phase \in Prompting
        PROVE  /\ OwnIndex(t) = {} <=> ~Live(t)
               /\ DropOwn(t) => sessions'[t] = <<>>
               /\ \A p : FenceOwn(t, p) => /\ sessions'[t] = <<>>
                                           /\ Live(t) => stopping'[t].by = "fence"
                                           /\ ~Live(t) => stopping'[t] = stopping[t]
    <2>1. Live(t) => 1 \in OwnIndex(t)
      BY <1>2, <1>4, OneSession DEF SingleAt, OwnIndex
    <2>2. OwnIndex(t) = {} <=> ~Live(t)
      BY <1>2, <2>1, OneSession
    <2>3. Live(t) => WithoutOwn(t) = <<>> /\ ~Stopping(t)
      BY <1>2, <2>2, OneSession DEF SingleAt
    <2>4. ~Live(t) => sessions[t] = <<>> /\ WithoutOwn(t) = <<>>
      BY <2>2 DEF Live, WithoutOwn
    <2>5. DropOwn(t) => sessions'[t] = <<>>
      BY <1>1, <2>3, <2>4 DEF DropOwn
    <2>6. ASSUME NEW p, FenceOwn(t, p)
          PROVE  /\ sessions'[t] = <<>>
                 /\ Live(t) => stopping'[t].by = "fence"
                 /\ ~Live(t) => stopping'[t] = stopping[t]
      <3>1. CASE Live(t)
        <4>1. PICK i \in OwnIndex(t) :
                 /\ sessions' = [sessions EXCEPT ![t] = WithoutOwn(t)]
                 /\ stopping' = [stopping EXCEPT ![t] = [by |-> "fence", held |-> sessions[t][i]]]
          BY <2>2, <2>3, <2>6, <3>1, Fencing
        <4>2. QED
          BY <1>1, <2>3, <3>1, <4>1
      <3>2. CASE ~Live(t)
        BY <2>2, <2>4, <2>6, <3>2, Fencing
      <3>3. QED
        BY <3>1, <3>2
    <2>7. QED
      BY <2>2, <2>5, <2>6
  <1>5. QED
    BY <1>3, <1>4

\* Two ways a step keeps to one session: there is none, or nothing that matters changed.
LEMMA NoSessionLeft ==
    ASSUME NEW t \in Tasks, sessions'[t] = <<>>,
           attempt'[t].phase \in Opening => stopping'[t].by = "none",
           attempt'[t].phase # "resuming"
    PROVE  SingleAt(t)'
  <1>1. Len(<<>>) = 0
    OBVIOUS
  <1>2. QED
    BY <1>1 DEF SingleAt, Live, Stopping, Resuming

\* SingleAt survives a step that leaves the sessions and the start alone, releases the stop
\* lock at most, and puts no row of a live task back in the queue.
LEMMA SessionsAsBefore ==
    ASSUME Shaped, [Next]_vars, NEW t \in Tasks, SingleAt(t), sessions'[t] = sessions[t],
           attempt'[t] = attempt[t], stopping'[t].by \in {stopping[t].by, "none"},
           IsDispatchable(row'[t]) => IsDispatchable(row[t]) \/ ~Live(t)
    PROVE  SingleAt(t)'
  <1>1. ~Never("crash") => ~Never("crash")'
    <2>1. "crash" \in Kinds
      BY DEF Kinds
    <2>2. QED
      BY <2>1, SpentStaysSpent
  <1>2. Live(t)' <=> Live(t)
    BY DEF Live
  <1>3. Stopping(t)' => Stopping(t)
    BY DEF Stopping
  <1>4. Resuming(t)' <=> Resuming(t)
    BY DEF Resuming
  <1>5. StartPending(t)' <=> StartPending(t)
    BY DEF StartPending
  <1>6. QED
    BY <1>1, <1>2, <1>3, <1>4, <1>5 DEF SingleAt

\* A request does not bring a second session: it is not granted beside a live one.
LEMMA AskingSingle ==
    ASSUME Shaped, [Next]_vars, ~StartOverIdle, NEW t \in Tasks, HeldAt(t), SingleAt(t), Asks(t)
    PROVE  SingleAt(t)'
  <1>0. /\ row[t] \in Rows /\ UNCHANGED <<sessions, stopping>>
    <2>1. row[t] \in Rows
      BY DEF Shaped
    <2>2. QED
      BY <2>1 DEF Asks, RequestStart, ExplicitStart, BackoffElapses, DrainCancels,
         DrainFindsRunning, DrainPasses, DrainClaims
  <1>1. MayAsk(t) => ~Live(t) /\ ~Stopping(t)
    BY DEF MayAsk
  <1>2. ASSUME ~Live(t), ~Stopping(t), attempt'[t].phase = "claimed" PROVE SingleAt(t)'
    BY <1>0, <1>2, NoSessionLeft DEF Live, Stopping
  <1>3. CASE RequestStart(t)
    <2>1. /\ ~Live(t) /\ ~Stopping(t)
          /\ \/ UNCHANGED attempt
             \/ attempt'[t] = [phase |-> "claimed", generation |-> Claimed(Enqueued(row[t])).generation,
                               open |-> TRUE, kind |-> "request"]
      BY <1>1, <1>3, Written DEF RequestStart
    <2>2. CASE UNCHANGED attempt
      BY <1>0, <2>1, <2>2, SessionsAsBefore
    <2>3. CASE attempt'[t] = [phase |-> "claimed", generation |-> Claimed(Enqueued(row[t])).generation,
                              open |-> TRUE, kind |-> "request"]
      BY <1>2, <2>1, <2>3
    <2>4. QED
      BY <2>1, <2>2, <2>3
  <1>4. CASE ExplicitStart(t)
    <2>1. ~Live(t) /\ UNCHANGED attempt
      BY <1>1, <1>4 DEF ExplicitStart
    <2>2. QED
      BY <1>0, <2>1, SessionsAsBefore
  <1>5. CASE BackoffElapses(t)
    <2>1. row[t].state = "retrying" /\ UNCHANGED attempt
      BY <1>5 DEF BackoffElapses
    <2>2. IsDispatchable(row[t])
      BY <2>1 DEF IsDispatchable, DispatchableStates
    <2>3. QED
      BY <1>0, <2>1, <2>2, SessionsAsBefore
  <1>6. CASE DrainCancels(t) \/ DrainFindsRunning(t) \/ DrainPasses(t)
    <2>1. row'[t] \in {Ended(row[t], "cancelled"), Recovered(row[t]), row[t]} /\ UNCHANGED attempt
      BY <1>6, Written DEF DrainCancels, DrainFindsRunning, DrainPasses
    <2>2. row'[t].state \in {"cancelled", "recovered"} \/ row'[t] = row[t]
      BY <1>0, <2>1, RowFates
    <2>3. IsDispatchable(row'[t]) => IsDispatchable(row[t])
      BY <2>2 DEF IsDispatchable, DispatchableStates
    <2>4. QED
      BY <1>0, <2>1, <2>3, SessionsAsBefore
  <1>7. CASE DrainClaims(t)
    <2>1. ~StartPending(t) /\ ~HasActive(t) /\ IsDispatchable(row[t])
          /\ attempt'[t] = [phase |-> "claimed", generation |-> Claimed(row[t]).generation,
                            open |-> TRUE, kind |-> "drain"]
      BY <1>7, Written DEF DrainClaims, Startable, MayClaim
    <2>2. ~Live(t) /\ ~Stopping(t)
      BY <2>1 DEF SingleAt, HasActive
    <2>3. QED
      BY <1>2, <2>1, <2>2
  <1>8. QED
    BY <1>3, <1>4, <1>5, <1>6, <1>7 DEF Asks

\* Nor does a start, which registers its session where there was none.
LEMMA StartSingle ==
    ASSUME Shaped, [Next]_vars, NEW t \in Tasks, HeldAt(t), SingleAt(t), StartStep(t)
    PROVE  SingleAt(t)'
  <1>0. /\ row[t] \in Rows /\ attempt[t] \in Attempts
        /\ sessions \in [Tasks -> Seq(Sessions)] /\ stopping \in [Tasks -> Teardowns]
        /\ row \in [Tasks -> Rows]
    BY DEF Shaped
  <1>1. attempt[t].phase \in Opening => sessions[t] = <<>> /\ stopping[t].by = "none"
    BY DEF SingleAt, Live, Stopping
  <1>2. attempt[t].phase \in Closing => sessions[t] = <<>>
    BY DEF SingleAt, Live
  <1>3. NoAttempt.phase = "none" /\ "none" \notin Opening
    BY DEF NoAttempt, Opening
  <1>4. ASSUME sessions[t] = <<>>, UNCHANGED <<sessions, stopping>>,
               attempt'[t] = NoAttempt
        PROVE  SingleAt(t)'
    BY <1>3, <1>4, NoSessionLeft
  <1>5. CASE MarkStarting(t)
    <2>1. attempt[t].phase = "claimed" /\ attempt'[t].phase = "preparing" /\ UNCHANGED <<sessions, stopping>>
      BY <1>5, Written DEF MarkStarting
    <2>2. QED
      BY <1>1, <2>1, NoSessionLeft DEF Opening
  <1>6. CASE BeginCreate(t)
    <2>1. attempt[t].phase = "preparing" /\ UNCHANGED <<sessions, stopping>>
          /\ (attempt'[t].phase = "creating" \/ attempt'[t] = NoAttempt)
      BY <1>6, Written DEF BeginCreate, At, Reject
    <2>2. QED
      BY <1>1, <1>4, <2>1, NoSessionLeft DEF Opening
  <1>7. CASE StartFails(t)
    <2>1. attempt[t].phase \in {"preparing", "creating"} /\ UNCHANGED <<sessions, stopping>>
          /\ attempt'[t] = NoAttempt
      BY <1>7, Written DEF StartFails, At, Reject
    <2>2. QED
      BY <1>1, <1>4, <2>1 DEF Opening
  <1>8. CASE CreateSucceeds(t)
    <2>1. attempt[t].phase = "creating" /\ sessions[t] = <<>> /\ stopping[t].by = "none"
      BY <1>1, <1>8 DEF CreateSucceeds, At, Opening
    <2>2. CASE MayStart(t)
      <3>1. /\ sessions' = [sessions EXCEPT ![t] = RegisteredIn(@, t)] /\ UNCHANGED stopping
            /\ attempt' = [attempt EXCEPT ![t].phase = "binding"]
        BY <1>8, <2>2 DEF CreateSucceeds
      <3>2. sessions'[t] = RegisteredIn(<<>>, t)
        BY <1>0, <2>1, <3>1
      <3>3. RegisteredIn(<<>>, t) = <<[status |-> "working", by |-> attempt[t].generation, reviewing |-> FALSE]>>
        BY DEF RegisteredIn
      <3>4. Len(sessions'[t]) = 1 /\ sessions'[t][1].by = attempt[t].generation
            /\ sessions'[t][1].status = "working"
        BY <3>2, <3>3
      <3>5. attempt'[t].phase = "binding" /\ attempt'[t].generation = attempt[t].generation
        BY <3>1, Written
      <3>6. ~Stopping(t)' /\ StartPending(t)' /\ ~Resuming(t)'
        BY <2>1, <3>1, <3>5 DEF Stopping, StartPending, Resuming
      <3>7. QED
        BY <3>4, <3>5, <3>6 DEF SingleAt, Opening, Closing
    <2>3. CASE ~MayStart(t)
      <3>1. attempt'[t].phase = "fencing" /\ sessions'[t] = <<>>
        BY <1>8, <2>1, <2>3, Written DEF CreateSucceeds, Stopping
      <3>2. QED
        BY <3>1, NoSessionLeft DEF Opening
    <2>4. QED
      BY <2>2, <2>3
  <1>9. CASE CheckBeforePrompt(t)
    <2>1. /\ attempt[t].phase = "binding"
          /\ \/ attempt' = [attempt EXCEPT ![t].phase = "prompting"] /\ UNCHANGED <<sessions, stopping>>
             \/ OwnIndex(t) = {} /\ attempt'[t] = NoAttempt /\ UNCHANGED <<sessions, stopping>>
             \/ FenceOwn(t, "fencing")
      BY <1>9, Written DEF CheckBeforePrompt, At, Reject
    <2>2. CASE attempt' = [attempt EXCEPT ![t].phase = "prompting"] /\ UNCHANGED <<sessions, stopping>>
      <3>1. attempt'[t].phase = "prompting" /\ attempt'[t].generation = attempt[t].generation
        BY <2>2, Written
      <3>2. QED
        BY <2>1, <2>2, <3>1 DEF SingleAt, Opening, Closing, Prompting, Live, Stopping, StartPending, Resuming
    <2>3. CASE OwnIndex(t) = {} /\ attempt'[t] = NoAttempt /\ UNCHANGED <<sessions, stopping>>
      <3>1. sessions[t] = <<>>
        BY <2>1, <2>3, TakenAway DEF Prompting, Live
      <3>2. QED
        BY <1>4, <2>3, <3>1
    <2>4. CASE FenceOwn(t, "fencing")
      <3>1. sessions'[t] = <<>>
        BY <2>1, <2>4, TakenAway DEF Prompting
      <3>2. attempt'[t].phase = "fencing"
        BY <2>4, Written, Fencing
      <3>3. QED
        BY <3>1, <3>2, NoSessionLeft DEF Opening
    <2>5. QED
      BY <2>1, <2>2, <2>3, <2>4
  <1>10. CASE PromptAccepted(t)
    <2>1. /\ attempt[t].phase = "prompting"
          /\ \/ Owns(row[t], attempt[t].generation) /\ row'[t] = Acknowledged(row[t])
                /\ attempt'[t] = NoAttempt /\ UNCHANGED <<sessions, stopping>>
             \/ FenceOwn(t, "unacked")
             \/ DropOwn(t) /\ attempt'[t] = NoAttempt /\ UNCHANGED stopping
      BY <1>10, Written DEF PromptAccepted, At
    <2>2. CASE Owns(row[t], attempt[t].generation) /\ row'[t] = Acknowledged(row[t])
               /\ attempt'[t] = NoAttempt /\ UNCHANGED <<sessions, stopping>>
      <3>1. row'[t].state = "started"
        BY <1>0, <2>2, RowFates
      <3>2. ~IsDispatchable(row'[t])
        BY <3>1 DEF IsDispatchable, DispatchableStates
      <3>3. QED
        BY <1>3, <2>2, <3>2 DEF SingleAt, Opening, Closing, Prompting, Live, Stopping, Resuming
    <2>3. CASE FenceOwn(t, "unacked")
      <3>1. attempt[t].phase \in Prompting
        BY <2>1 DEF Prompting
      <3>2. sessions'[t] = <<>>
        BY <2>3, <3>1, TakenAway
      <3>3. attempt'[t].phase = "unacked"
        BY <2>3, Written, Fencing
      <3>4. QED
        BY <3>2, <3>3, NoSessionLeft DEF Opening
    <2>4. CASE DropOwn(t) /\ attempt'[t] = NoAttempt /\ UNCHANGED stopping
      <3>1. sessions'[t] = <<>>
        BY <2>1, <2>4, TakenAway DEF Prompting
      <3>2. QED
        BY <1>3, <2>4, <3>1, NoSessionLeft
    <2>5. QED
      BY <2>1, <2>2, <2>3, <2>4
  <1>11. CASE PromptFails(t)
    <2>1. attempt[t].phase = "prompting" /\ DropOwn(t) /\ attempt'[t].phase = "closing"
      BY <1>11, Written DEF PromptFails, At
    <2>2. sessions'[t] = <<>>
      BY <2>1, TakenAway DEF Prompting
    <2>3. QED
      BY <2>1, <2>2, NoSessionLeft DEF Opening
  <1>12. CASE CloseSettles(t) \/ FenceEnds(t)
    <2>1. attempt[t].phase \in Closing /\ attempt'[t] = NoAttempt /\ UNCHANGED <<sessions, stopping>>
      BY <1>12, Written DEF CloseSettles, FenceEnds, At, Reject, Closing
    <2>2. QED
      BY <1>2, <1>4, <2>1
  <1>13. CASE CreateTimesOut(t)
    <2>1. attempt[t].phase = "creating" /\ UNCHANGED <<sessions, stopping>>
          /\ attempt'[t] = [attempt[t] EXCEPT !.phase = "orphan", !.open = FALSE]
      BY <1>13, Written DEF CreateTimesOut, At, Reject
    <2>2. attempt'[t].phase = "orphan"
      BY <1>0, <2>1 DEF Attempts
    <2>3. QED
      BY <1>1, <2>1, <2>2, NoSessionLeft DEF Opening
  <1>14. CASE OrphanSettles(t)
    <2>1. attempt[t].phase = "orphan" /\ UNCHANGED <<sessions, stopping>> /\ attempt'[t] = NoAttempt
      BY <1>14, Written DEF OrphanSettles, At
    <2>2. QED
      BY <1>1, <1>4, <2>1 DEF Opening
  <1>15. CASE StartTimesOut(t)
    <2>1. /\ attempt[t].phase \in {"preparing", "creating", "binding", "prompting", "fencing", "closing"}
          /\ attempt'[t] = [attempt[t] EXCEPT !.open = FALSE] /\ UNCHANGED <<sessions, stopping>>
      BY <1>15, Written DEF StartTimesOut, Reject, At
    <2>2. attempt'[t].phase = attempt[t].phase /\ attempt'[t].generation = attempt[t].generation
      BY <1>0, <2>1 DEF Attempts
    <2>3. QED
      BY <2>1, <2>2 DEF SingleAt, Live, Stopping, StartPending, Resuming
  <1>16. QED
    BY <1>5, <1>6, <1>7, <1>8, <1>9, <1>10, <1>11, <1>12, <1>13, <1>14, <1>15 DEF StartStep

\* Nor do stops, turns and messages: none of them registers a session, and each that takes
\* one away leaves none.
LEMMA SessionSingle ==
    ASSUME Shaped, [Next]_vars, Never("refuse")', NEW t \in Tasks, HeldAt(t), SingleAt(t),
           SessionStep(t)
    PROVE  SingleAt(t)'
  <1>0. /\ row[t] \in Rows /\ attempt[t] \in Attempts
        /\ sessions \in [Tasks -> Seq(Sessions)] /\ stopping \in [Tasks -> Teardowns]
        /\ sessions[t] \in Seq(Sessions) /\ UNCHANGED attempt
    <2>1. UNCHANGED attempt
      BY DEF SessionStep, StopByTaskId, StopLooksAgain, StopSession, TeardownSettles,
             TeardownRefused, TurnEnds, ReviewLands, Reap, MessageWakes, SetLabel, Complete, Repair
    <2>2. QED
      BY <2>1 DEF Shaped
  <1>1. Len(sessions[t]) <= 1
    BY DEF SingleAt
  <1>2. ASSUME NEW i \in DOMAIN sessions[t], sessions'[t] = <<>>, UNCHANGED attempt PROVE SingleAt(t)'
    <2>1. Live(t) /\ attempt[t].phase \notin Opening
      BY <1>1, <1>2, OneSession DEF SingleAt
    <2>2. attempt'[t].phase # "resuming"
      BY <1>2, <2>1 DEF Opening
    <2>3. QED
      BY <1>2, <2>1, <2>2, NoSessionLeft
  <1>3. ASSUME NEW i \in DOMAIN sessions[t], NEW by, BeginTeardown(t, i, by), UNCHANGED attempt
        PROVE  SingleAt(t)'
    BY <1>2, <1>3, TakenAway
  <1>4. Live(t) => 1 \in DOMAIN sessions[t]
    BY <1>1, OneSession
  <1>5. Cancelled(row[t]).state = "cancelled" \/ Cancelled(row[t]).state = "failed"
    BY <1>0, RowFates DEF IsTerminal, TerminalStates
  <1>6. ~IsDispatchable(Cancelled(row[t]))
    BY <1>5 DEF IsDispatchable, DispatchableStates
  <1>7. IsDispatchable(Recovered(row[t])) => IsDispatchable(row[t])
    <2>1. Recovered(row[t]) = row[t] \/ Recovered(row[t]).state = "recovered"
      BY <1>0, RowFates
    <2>2. QED
      BY <2>1 DEF IsDispatchable, DispatchableStates
  <1>8. CASE StopByTaskId(t)
    <2>1. \/ UNCHANGED <<row, sessions, stopping>>
          \/ Live(t) /\ BeginTeardown(t, 1, "user")
          \/ row'[t] = Cancelled(row[t]) /\ UNCHANGED <<sessions, stopping>>
      BY <1>8, Written DEF StopByTaskId
    <2>2. QED
      BY <1>0, <1>3, <1>4, <1>6, <2>1, SessionsAsBefore
  <1>9. CASE StopLooksAgain(t)
    <2>1. /\ UNCHANGED row
          /\ UNCHANGED <<sessions, stopping>> \/ (Live(t) /\ BeginTeardown(t, 1, "user"))
      BY <1>9 DEF StopLooksAgain
    <2>2. QED
      BY <1>0, <1>3, <1>4, <2>1, SessionsAsBefore
  <1>10. CASE StopSession(t)
    <2>1. PICK i \in DOMAIN sessions[t] : BeginTeardown(t, i, "ui")
      BY <1>10 DEF StopSession
    <2>2. QED
      BY <1>0, <1>3, <2>1
  <1>11. CASE TeardownSettles(t)
    <2>1. /\ row'[t] \in {Cancelled(row[t]), row[t]} /\ UNCHANGED sessions
          /\ stopping' = [stopping EXCEPT ![t] = NoTeardown]
      BY <1>11, Written DEF TeardownSettles
    <2>2. stopping'[t].by = "none"
      BY <1>0, <2>1 DEF NoTeardown
    <2>3. QED
      BY <1>0, <1>6, <2>1, <2>2, SessionsAsBefore
  <1>12. CASE TeardownRefused(t)
    <2>1. "refuse" \in Kinds /\ Spend("refuse")
      BY <1>12 DEF Kinds, TeardownRefused
    <2>2. QED
      BY <2>1, HelperTypes
  <1>13. ASSUME NEW i \in DOMAIN sessions[t], NEW e,
                sessions' = [sessions EXCEPT ![t] = [@ EXCEPT ![i] = e]],
                e.by = sessions[t][i].by,
                e.status = "working" \/ e.status = sessions[t][i].status
                  \/ ~(StartPending(t) /\ i \in OwnIndex(t)),
                UNCHANGED <<row, attempt, stopping>>
         PROVE  SingleAt(t)'
    <2>1. Live(t) /\ i = 1 /\ sessions[t] # <<>> /\ Len(sessions[t]) = 1
      BY <1>1, <1>13, OneSession
    <2>2. sessions'[t] = [sessions[t] EXCEPT ![i] = e]
      BY <1>0, <1>13
    <2>3. Len(sessions'[t]) = 1 /\ sessions'[t][1] = e
      BY <1>0, <2>1, <2>2
    <2>4. attempt[t].phase \notin Opening /\ attempt[t].phase \notin Closing /\ ~Stopping(t)
      BY <2>1 DEF SingleAt
    <2>5. attempt[t].phase \in Prompting =>
             e.by = attempt[t].generation /\ e.status = "working"
      <3>1. SUFFICES ASSUME attempt[t].phase \in Prompting
                     PROVE  e.by = attempt[t].generation /\ e.status = "working"
        OBVIOUS
      <3>2. sessions[t][1].by = attempt[t].generation /\ sessions[t][1].status = "working"
        BY <2>1, <3>1 DEF SingleAt
      <3>3. i \in OwnIndex(t) /\ StartPending(t)
        BY <2>1, <3>1, <3>2 DEF OwnIndex, StartPending, Prompting
      <3>4. QED
        BY <1>13, <2>1, <3>2, <3>3
    <2>6. ~(IsDispatchable(row[t]) /\ ~StartPending(t))
      BY <2>1 DEF SingleAt
    <2>7. QED
      BY <1>13, <2>3, <2>4, <2>5, <2>6 DEF SingleAt, Stopping, StartPending, Resuming, Opening
  <1>14. \A i \in DOMAIN sessions[t] : sessions[t][i] \in Sessions
    BY <1>0
  <1>15. CASE TurnEnds(t)
    <2>1. PICK i \in DOMAIN sessions[t] :
             /\ ~(StartPending(t) /\ i \in OwnIndex(t))
             /\ sessions' = [sessions EXCEPT ![t][i].status = "idle", ![t][i].reviewing = TRUE]
      BY <1>15 DEF TurnEnds
    <2> DEFINE k == [sessions[t][i] EXCEPT !.status = "idle"]
               e == [k EXCEPT !.reviewing = TRUE]
    <2>2. sessions' = [sessions EXCEPT ![t] = [@ EXCEPT ![i] = e]]
      BY <2>1
    <2>3. e.by = sessions[t][i].by
      BY <1>14 DEF Sessions
    <2> HIDE DEF e
    <2>4. QED
      BY <1>13, <1>15, <2>1, <2>2, <2>3 DEF TurnEnds
  <1>16. CASE ReviewLands(t)
    <2>1. PICK i \in DOMAIN sessions[t] : sessions' = [sessions EXCEPT ![t][i].reviewing = FALSE]
      BY <1>16 DEF ReviewLands
    <2> DEFINE e == [sessions[t][i] EXCEPT !.reviewing = FALSE]
    <2>2. sessions' = [sessions EXCEPT ![t] = [@ EXCEPT ![i] = e]]
      BY <2>1
    <2>3. e.by = sessions[t][i].by /\ e.status = sessions[t][i].status
      BY <1>14 DEF Sessions
    <2> HIDE DEF e
    <2>4. QED
      BY <1>13, <1>16, <2>1, <2>2, <2>3 DEF ReviewLands
  <1>17. CASE Reap(t)
    <2>1. PICK i \in DOMAIN sessions[t] : sessions' = [sessions EXCEPT ![t] = RemoveAt(@, i)]
      BY <1>17 DEF Reap
    <2>2. sessions'[t] = <<>>
      BY <1>0, <1>1, <2>1, OneSession
    <2>3. QED
      BY <1>0, <1>2, <2>2
  <1>18. CASE MessageWakes(t)
    <2>1. PICK i \in DOMAIN sessions[t] : sessions' = [sessions EXCEPT ![t][i].status = "working"]
      BY <1>18 DEF MessageWakes
    <2> DEFINE e == [sessions[t][i] EXCEPT !.status = "working"]
    <2>2. sessions' = [sessions EXCEPT ![t] = [@ EXCEPT ![i] = e]]
      BY <2>1
    <2>3. e.by = sessions[t][i].by /\ e.status = "working"
      BY <1>14 DEF Sessions
    <2> HIDE DEF e
    <2>4. QED
      BY <1>13, <1>18, <2>1, <2>2, <2>3 DEF MessageWakes
  <1>19. CASE SetLabel(t) \/ Complete(t)
    <2>1. UNCHANGED <<row, sessions, stopping>>
      BY <1>19 DEF SetLabel, Complete
    <2>2. QED
      BY <1>0, <2>1, SessionsAsBefore
  <1>20. CASE Repair(t)
    <2>1. /\ UNCHANGED <<sessions, stopping>>
          /\ row'[t] = Recovered(row[t]) \/ ~Live(t)
      BY <1>20, Written DEF Repair
    <2>2. QED
      BY <1>0, <1>7, <2>1, SessionsAsBefore
  <1>21. QED
    BY <1>8, <1>9, <1>10, <1>11, <1>12, <1>15, <1>16, <1>17, <1>18, <1>19, <1>20 DEF SessionStep

\* Nor does the boot: it reconnects a task only while the map is empty, and a reconnection
\* that its deadline does not cut off is the one attempt of its task.
LEMMA RecoverySingle ==
    ASSUME Shaped, [Next]_vars, Undisturbed', BootAfterCrash, NEW t \in Tasks, HeldAt(t), SingleAt(t),
           Recovers(t)
    PROVE  SingleAt(t)'
  <1>0. /\ row[t] \in Rows /\ attempt[t] \in Attempts /\ sessions \in [Tasks -> Seq(Sessions)]
        /\ UNCHANGED stopping
    <2>1. UNCHANGED stopping
      BY DEF Recovers, ResumeStep, BootSkips, BootResets, BootResumes, ResumeReturns,
             ResumeFails, ResumeTimesOut
    <2>2. QED
      BY <2>1 DEF Shaped
  <1>1. ~Never("crash") => ~Never("crash")'
    <2>1. "crash" \in Kinds
      BY DEF Kinds
    <2>2. QED
      BY <2>1, SpentStaysSpent
  <1>2. IsDispatchable(Recovered(row[t])) => FALSE
    <2>1. Recovered(row[t]).state = "recovered" \/ (Recovered(row[t]) = row[t] /\ ~IsActive(row[t]))
      BY <1>0, RowFates
    <2>2. QED
      BY <1>0, <2>1, RowFates DEF IsDispatchable, DispatchableStates
  <1>3. Resuming(t) => attempt[t].phase \in Opening /\ sessions[t] = <<>> /\ stopping[t].by = "none"
    BY DEF SingleAt, Resuming, Opening, Live, Stopping
  <1>4. CASE BootSkips(t)
    <2>1. UNCHANGED <<sessions, attempt>> /\ row'[t] \in {row[t], Recovered(row[t])}
      BY <1>4, Written DEF BootSkips
    <2>2. QED
      BY <1>0, <1>2, <2>1, SessionsAsBefore
  <1>5. CASE BootResets(t)
    <2>1. UNCHANGED <<sessions, attempt>> /\ ~Live(t)
      BY <1>5 DEF BootResets
    <2>2. QED
      BY <1>0, <2>1, SessionsAsBefore
  <1>6. CASE BootResumes(t)
    <2>1. /\ sessions'[t] = <<>> /\ stopping'[t].by = "none" /\ boot.phase = "tasks"
          /\ attempt'[t] = [phase |-> "resuming", generation |-> 0, open |-> TRUE, kind |-> "resume"]
      BY <1>0, <1>6, Written DEF BootResumes, BootTurn, Live, Stopping
    <2>2. attempt'[t].phase = "resuming" /\ attempt'[t].open
      BY <2>1
    <2>3. ~Never("crash")'
      BY <1>1, <2>1 DEF BootAfterCrash
    <2>4. Len(<<>>) = 0
      OBVIOUS
    <2>5. QED
      BY <2>1, <2>2, <2>3, <2>4 DEF SingleAt, Live, Stopping, StartPending, Resuming, Closing, Prompting
  <1>7. CASE ResumeReturns(t)
    <2>1. sessions[t] = <<>> /\ stopping'[t].by = "none" /\ attempt[t].open
      BY <1>0, <1>3, <1>7 DEF ResumeReturns, SingleAt
    <2>2. /\ attempt'[t] = NoAttempt
          /\ \/ UNCHANGED sessions
             \/ /\ \E status \in {"working", "idle"} : sessions' = [sessions EXCEPT ![t] =
                       Append(@, [status |-> status, by |-> 0, reviewing |-> FALSE])]
                /\ row'[t] = Recovered(row[t])
      BY <1>7, <2>1, Written DEF ResumeReturns
    <2>3. attempt'[t].phase = "none"
      BY <2>2 DEF NoAttempt
    <2>4. CASE UNCHANGED sessions
      BY <2>1, <2>3, <2>4, NoSessionLeft
    <2>5. ASSUME NEW status \in {"working", "idle"},
                 sessions' = [sessions EXCEPT ![t] =
                       Append(@, [status |-> status, by |-> 0, reviewing |-> FALSE])],
                 row'[t] = Recovered(row[t])
          PROVE  SingleAt(t)'
      <3>1. sessions'[t] = Append(<<>>, [status |-> status, by |-> 0, reviewing |-> FALSE])
        BY <1>0, <2>1, <2>5
      <3>2. Len(sessions'[t]) = 1
        BY <3>1
      <3>3. ~IsDispatchable(row'[t])
        BY <1>2, <2>5
      <3>4. QED
        BY <2>1, <2>3, <3>2, <3>3 DEF SingleAt, Live, Stopping, StartPending, Resuming, Opening,
                                      Closing, Prompting
    <2>6. QED
      BY <2>2, <2>4, <2>5
  <1>8. CASE ResumeFails(t)
    <2>1. sessions'[t] = <<>> /\ attempt'[t] = NoAttempt
      BY <1>0, <1>3, <1>8, Written DEF ResumeFails
    <2>2. QED
      BY <2>1, NoSessionLeft DEF NoAttempt, Opening
  <1>9. CASE ResumeTimesOut(t)
    <2>1. ~Never("timeout")'
      <3>1. "timeout" \in Kinds /\ Spend("timeout")
        BY <1>9 DEF ResumeTimesOut, Kinds
      <3>2. QED
        BY <3>1, HelperTypes
    <2>2. ~Never("crash")'
      BY <1>1, <1>9 DEF ResumeTimesOut, SingleAt
    <2>3. QED
      BY <2>1, <2>2 DEF Undisturbed
  <1>10. QED
    BY <1>4, <1>5, <1>6, <1>7, <1>8, <1>9 DEF Recovers, ResumeStep

\* SingleAt of one task survives the steps about the others.
LEMMA SingleElsewhere ==
    ASSUME Shaped, [Next]_vars, NEW t \in Tasks, NEW u \in Tasks, u # t, About(t), SingleAt(u)
    PROVE  SingleAt(u)'
  <1>1. Untouched(u)
    BY Elsewhere
  <1>2. QED
    BY <1>1, SessionsAsBefore DEF Untouched

\* SingleAt survives the steps about no task in particular; a crash empties the map.
LEMMA CommonSingle ==
    ASSUME HInv, [Next]_vars, Common, NEW t \in Tasks, SingleAt(t)
    PROVE  SingleAt(t)'
  <1>0. Shaped /\ HeldAt(t) /\ row[t] \in Rows
    BY DEF HInv, Shaped
  <1>1. CASE Crash
    <2>1. sessions'[t] = <<>> /\ attempt'[t] = NoAttempt
      BY <1>1 DEF Crash
    <2>2. QED
      BY <2>1, NoSessionLeft DEF NoAttempt, Opening
  <1>2. CASE BootRequeues
    <2>1. UNCHANGED <<sessions, attempt, stopping>> /\ boot.phase = "claims"
      BY <1>2 DEF BootRequeues
    <2>2. ~Live(t)
      BY <1>0, <2>1 DEF HeldAt, BlankAt, Live
    <2>3. QED
      BY <1>0, <2>1, <2>2, SessionsAsBefore
  <1>3. CASE BootEnds \/ DrainBegins \/ RetryTimerFires \/ Pause \/ Unpause \/ Sweep
    <2>1. UNCHANGED <<row, attempt, sessions, stopping>>
      BY <1>3 DEF BootEnds, DrainBegins, RetryTimerFires, Pause, Unpause, Sweep
    <2>2. QED
      BY <1>0, <2>1, SessionsAsBefore
  <1>4. QED
    BY <1>1, <1>2, <1>3 DEF Common

\* The boot sequence runs only once the service has crashed.
LEMMA BootStaysAfterCrash ==
    ASSUME HInv, BootAfterCrash, [Next]_vars
    PROVE  BootAfterCrash'
  <1>0. Shaped
    BY DEF HInv
  <1>1. "crash" \in Kinds
    BY DEF Kinds
  <1>2. ~Never("crash") => ~Never("crash")'
    BY <1>0, <1>1, SpentStaysSpent
  <1>3. ASSUME NEW t \in Tasks, About(t) PROVE boot'.phase = boot.phase
    BY <1>0, <1>3, AboutKeepsBoot
  <1>4. CASE Crash
    <2>1. Spend("crash")
      BY <1>4 DEF Crash
    <2>2. ~Never("crash")'
      <3>1. uses.done \in [Kinds -> Nat] /\ uses \in Uses
        BY <1>0 DEF Shaped, Uses
      <3>2. uses'.done["crash"] = uses.done["crash"] + 1
        BY <1>1, <2>1, <3>1 DEF Spend, Uses
      <3>3. uses.done["crash"] \in Nat
        BY <1>1, <3>1
      <3>4. QED
        BY <3>2, <3>3 DEF Never
    <2>3. QED
      BY <2>2 DEF BootAfterCrash
  <1>5. CASE BootRequeues
    BY <1>2, <1>5 DEF BootRequeues, BootAfterCrash
  <1>6. CASE BootEnds
    BY <1>0, <1>6 DEF BootEnds, BootAfterCrash, Shaped, Boots
  <1>7. CASE DrainBegins \/ RetryTimerFires \/ Pause \/ Unpause \/ Sweep \/ UNCHANGED vars
    <2>1. UNCHANGED boot
      BY <1>7 DEF DrainBegins, RetryTimerFires, Pause, Unpause, Sweep, vars
    <2>2. QED
      BY <1>2, <2>1 DEF BootAfterCrash
  <1>8. QED
    BY <1>2, <1>3, <1>4, <1>5, <1>6, <1>7, NextIs DEF Common, BootAfterCrash

SInv == HInv /\ BootAfterCrash /\ (Undisturbed => \A t \in Tasks : SingleAt(t))

\* SInv is inductive.
LEMMA SingleStep ==
    ASSUME SInv, [Next]_vars
    PROVE  SInv'
  <1>0. Shaped /\ HInv /\ BootAfterCrash /\ \A t \in Tasks : HeldAt(t)
    BY DEF SInv, HInv
  <1>1. HInv' /\ BootAfterCrash'
    BY <1>0, HeldStep, BootStaysAfterCrash
  <1>2. ASSUME Undisturbed' PROVE \A t \in Tasks : SingleAt(t)'
    <2>1. {"refuse", "crash", "timeout"} \subseteq Kinds
      BY DEF Kinds
    <2>2. Undisturbed /\ Never("refuse")'
      BY <1>0, <1>2, <2>1, SpentStaysSpent DEF Undisturbed
    <2>3. \A t \in Tasks : SingleAt(t)
      BY <2>2 DEF SInv
    <2>4. CASE Common
      BY <1>0, <2>3, <2>4, CommonSingle
    <2>5. ASSUME NEW t \in Tasks, About(t) PROVE \A u \in Tasks : SingleAt(u)'
      <3>1. SingleAt(t)'
        BY <1>0, <1>2, <2>2, <2>3, <2>5, AskingSingle, StartSingle, SessionSingle, RecoverySingle
           DEF About, Undisturbed
      <3>2. \A u \in Tasks \ {t} : SingleAt(u)'
        BY <1>0, <2>3, <2>5, SingleElsewhere
      <3>3. QED
        BY <3>1, <3>2
    <2>6. CASE UNCHANGED vars
      <3>1. UNCHANGED <<row, attempt, sessions, stopping>>
        BY <2>6 DEF vars
      <3>2. QED
        BY <1>0, <2>3, <3>1, SessionsAsBefore
    <2>7. QED
      BY <2>4, <2>5, <2>6, NextIs
  <1>3. QED
    BY <1>1, <1>2 DEF SInv

\* SInv holds when the service starts.
LEMMA InitSingle == Init => SInv
  <1> SUFFICES ASSUME Init PROVE SInv
    OBVIOUS
  <1>1. HInv
    BY InitHeld
  <1>2. BootAfterCrash
    BY DEF Init, BootAfterCrash
  <1>3. ASSUME NEW t \in Tasks PROVE SingleAt(t)
    <2>1. sessions[t] = <<>> /\ attempt[t].phase = "none"
      BY DEF Init, NoAttempt
    <2>2. Len(<<>>) = 0
      OBVIOUS
    <2>3. QED
      BY <2>1, <2>2 DEF SingleAt, Live, Resuming, Opening, Prompting
  <1>4. QED
    BY <1>1, <1>2, <1>3 DEF SInv

\* A task has two sessions at work in no state of a behaviour in which no start goes
\* beside an idle session, no backend refuses to go, and no deadline passes where a
\* process recovers from a crash.
THEOREM OneWorks == Spec => [](Undisturbed => AtMostOneWorking)
  <1>1. SInv => (Undisturbed => AtMostOneWorking)
    <2> SUFFICES ASSUME SInv, Undisturbed, NEW t \in Tasks
                 PROVE  Cardinality({i \in DOMAIN sessions[t] : sessions[t][i].status = "working"}) <= 1
      BY DEF AtMostOneWorking
    <2> DEFINE at == {i \in DOMAIN sessions[t] : sessions[t][i].status = "working"}
    <2>1. Shaped /\ Len(sessions[t]) <= 1
      BY DEF SInv, HInv, SingleAt
    <2>2. at \subseteq {1}
      BY <2>1, OneSession
    <2>3. at = {} \/ at = {1}
      BY <2>2
    <2>4. Cardinality({}) = 0 /\ Cardinality({1}) = 1
      BY FS_EmptySet, FS_Singleton
    <2> HIDE DEF at
    <2>5. Cardinality(at) <= 1
      BY <2>3, <2>4
    <2>6. QED
      BY <2>5 DEF at
  <1>2. SInv /\ [Next]_vars => SInv'
    BY SingleStep
  <1>3. QED
    BY InitSingle, <1>1, <1>2, PTL DEF Spec

------------------------------------------------------------------------------
(* A stop is final. *)

\* The conditions StopIsFinal is stated under, and no start beside an idle session.
Stoppable == ~StartOverIdle /\ Never("timeout") /\ Never("label") /\ Never("refuse")

\* What a stop relies on.  A withdrawn start has a stop waiting for it, a teardown has the
\* stop it belongs to, a session under a start has a claim still in force; and a task that
\* was stopped has no session, and a row that ended or is about to be withdrawn.
StopAt(t) ==
    /\ ~task[t].excluded
    /\ stopping[t].by = "fence" => stopper[t] = "waiting" /\ attempt[t].phase = "fencing"
    /\ stopping[t].by = "user" => stopper[t] = "tearing"
    /\ stopping[t].by = "ui" => IsTerminal(row[t])
    /\ attempt[t].phase \in {"preparing", "creating"} /\ ~MayStart(t) => stopper[t] = "waiting"
    /\ attempt[t].phase \in Prompting /\ Live(t) => MayStart(t)
    /\ Reserved(t) => ~Excluded(t)
    /\ t \in stopped => ~Live(t) /\ (IsTerminal(row[t]) \/ stopping[t].by = "user")

\* A step that leaves the task's row, start, sessions and stops alone keeps it.
LEMMA StopsAsBefore ==
    ASSUME NEW t \in Tasks, StopAt(t), row'[t] = row[t], sessions'[t] = sessions[t],
           attempt'[t] = attempt[t], stopping'[t] = stopping[t], stopper'[t] = stopper[t],
           t \in stopped' => t \in stopped, ~task'[t].excluded,
           task'[t].status = "completed" => task[t].status = "completed"
    PROVE  StopAt(t)'
  <1>1. Live(t)' <=> Live(t)
    BY DEF Live
  <1>2. Excluded(t)' => Excluded(t)
    BY DEF Excluded
  <1>3. MayStart(t) => MayStart(t)'
    BY <1>2 DEF MayStart
  <1>4. Reserved(t)' <=> Reserved(t)
    BY DEF Reserved
  <1>5. QED
    BY <1>1, <1>2, <1>3, <1>4 DEF StopAt

\* So does one that leaves no session and no start, and a teardown only if it was there.
LEMMA StopsWithNothing ==
    ASSUME NEW t \in Tasks, ~task'[t].excluded, sessions'[t] = <<>>,
           attempt'[t].phase \notin {"preparing", "creating"},
           Reserved(t)' => ~Excluded(t)',
           stopping'[t].by = "fence" => stopper'[t] = "waiting" /\ attempt'[t].phase = "fencing",
           stopping'[t].by = "user" => stopper'[t] = "tearing",
           stopping'[t].by = "ui" => IsTerminal(row'[t]),
           t \in stopped' => IsTerminal(row'[t]) \/ stopping'[t].by = "user"
    PROVE  StopAt(t)'
  BY DEF StopAt, Live

\* StopAt of one task survives the steps about the others.
LEMMA StopsElsewhere ==
    ASSUME Shaped, NEW t \in Tasks, NEW u \in Tasks, u # t, About(t), StopAt(u)
    PROVE  StopAt(u)'
  <1>1. Untouched(u)
    BY Elsewhere
  <1>2. ~task[u].excluded
    BY DEF StopAt
  <1>3. QED
    BY <1>1, <1>2, StopsAsBefore DEF Untouched

\* A request for a stopped task is refused, and one for another task withdraws no stop.
LEMMA AskingStops ==
    ASSUME Shaped, ~StartOverIdle, NEW t \in Tasks, HeldAt(t), SingleAt(t), StopAt(t), Asks(t)
    PROVE  StopAt(t)'
  <1>0. /\ row[t] \in Rows /\ UNCHANGED <<task, sessions, stopping, stopper>>
        /\ t \in stopped' => t \in stopped
        /\ ~task[t].excluded
    <2>1. row[t] \in Rows
      BY DEF Shaped
    <2>2. UNCHANGED <<task, sessions, stopping, stopper>> /\ (t \in stopped' => t \in stopped)
      BY DEF Asks, RequestStart, ExplicitStart, BackoffElapses, DrainCancels,
         DrainFindsRunning, DrainPasses, DrainClaims
    <2>3. QED
      BY <2>1, <2>2 DEF StopAt
  <1>1. MayAsk(t) => ~Live(t) /\ ~Stopping(t)
    BY DEF MayAsk
  <1>2. ASSUME ~Live(t), ~Stopping(t), attempt'[t].phase = "claimed", ~Excluded(t), ~IsTerminal(row[t])
        PROVE  StopAt(t)'
    <2>1. t \notin stopped'
      BY <1>0, <1>2 DEF StopAt, Stopping
    <2>2. ~Excluded(t)' /\ stopping'[t].by = "none" /\ sessions'[t] = <<>>
      BY <1>0, <1>2 DEF Excluded, Stopping, Live
    <2>3. QED
      BY <1>0, <1>2, <2>1, <2>2, StopsWithNothing
  <1>3. CASE RequestStart(t)
    <2>1. /\ ~Live(t) /\ ~Stopping(t) /\ attempt[t].phase = "none" /\ ~Excluded(t) /\ ~IsTerminal(row[t])
          /\ \/ UNCHANGED attempt
             \/ attempt'[t] = [phase |-> "claimed", generation |-> Claimed(Enqueued(row[t])).generation,
                               open |-> TRUE, kind |-> "request"]
      BY <1>0, <1>1, <1>3, Written DEF RequestStart, Excluded, StartPending
    <2>2. t \notin stopped' /\ stopping'[t].by = "none" /\ sessions'[t] = <<>> /\ ~Excluded(t)'
      BY <1>0, <2>1 DEF StopAt, Stopping, Live, Excluded
    <2>3. CASE UNCHANGED attempt
      BY <1>0, <2>1, <2>2, <2>3, StopsWithNothing
    <2>4. CASE attempt'[t] = [phase |-> "claimed", generation |-> Claimed(Enqueued(row[t])).generation,
                              open |-> TRUE, kind |-> "request"]
      BY <1>2, <2>1, <2>4
    <2>5. QED
      BY <2>1, <2>3, <2>4
  <1>4. CASE ExplicitStart(t)
    <2>1. /\ ~Live(t) /\ ~Stopping(t) /\ IsTerminal(row[t]) /\ UNCHANGED attempt
          /\ t \notin stopped' /\ attempt[t].phase # "claimed"
      BY <1>1, <1>4 DEF ExplicitStart, Serving, Quiet
    <2>2. row[t].state # "starting"
      BY <1>0, <2>1, RowFates
    <2>3. /\ attempt[t].phase \in {"preparing", "creating"} => stopper[t] = "waiting"
          /\ ~Live(t)' /\ stopping'[t].by = "none"
          /\ Reserved(t)' => ~Excluded(t)'
      BY <1>0, <2>1, <2>2 DEF StopAt, MayStart, Live, Stopping, Reserved, Excluded
    <2>4. QED
      BY <1>0, <2>1, <2>3 DEF StopAt
  <1>5. CASE BackoffElapses(t)
    <2>1. row[t].state = "retrying" /\ row'[t] = BackoffOver(row[t]) /\ UNCHANGED attempt
      BY <1>5, Written DEF BackoffElapses
    <2>2. ~MayStart(t) /\ ~IsTerminal(row[t])
      BY <1>0, <2>1, RowFates DEF MayStart
    <2>3. QED
      BY <1>0, <2>1, <2>2 DEF StopAt, Live, Reserved, Excluded
  <1>6. CASE DrainCancels(t)
    <2>1. row'[t] = Ended(row[t], "cancelled") /\ UNCHANGED attempt /\ Excluded(t)
      BY <1>6, Written DEF DrainCancels
    <2>2. ~MayStart(t) /\ (IsTerminal(row[t]) => IsTerminal(row'[t]))
      BY <1>0, <2>1, RowFates DEF MayStart
    <2>3. QED
      BY <1>0, <2>1, <2>2 DEF StopAt, Live, Reserved, Excluded
  <1>7. CASE DrainFindsRunning(t)
    <2>1. row'[t] \in {Recovered(row[t]), row[t]} /\ UNCHANGED attempt /\ attempt[t].phase = "none"
      BY <1>7, Written DEF DrainFindsRunning, StartPending
    <2>2. IsTerminal(row[t]) => IsTerminal(row'[t])
      BY <1>0, <2>1, RecoveringFates
    <2>3. QED
      BY <1>0, <2>1, <2>2 DEF StopAt, Live, Reserved, Excluded, Prompting
  <1>8. CASE DrainPasses(t)
    BY <1>0, <1>8, StopsAsBefore DEF DrainPasses
  <1>9. CASE DrainClaims(t)
    <2>1. /\ ~StartPending(t) /\ ~HasActive(t) /\ IsDispatchable(row[t]) /\ ~Excluded(t)
          /\ attempt'[t] = [phase |-> "claimed", generation |-> Claimed(row[t]).generation,
                            open |-> TRUE, kind |-> "drain"]
      BY <1>9, Written DEF DrainClaims, Startable, MayClaim
    <2>2. ~Live(t) /\ ~Stopping(t) /\ ~IsTerminal(row[t])
      BY <1>0, <2>1, RowFates DEF SingleAt, HasActive
    <2>3. QED
      BY <1>2, <2>1, <2>2
  <1>10. QED
    BY <1>3, <1>4, <1>5, <1>6, <1>7, <1>8, <1>9 DEF Asks

\* A start that finds its task stopped puts what it holds away and ends.
LEMMA StartStops ==
    ASSUME Shaped, Never("timeout")', NEW t \in Tasks, HeldAt(t), SingleAt(t), StopAt(t), StartStep(t)
    PROVE  StopAt(t)'
  <1>0. /\ row[t] \in Rows /\ attempt[t] \in Attempts /\ task \in [Tasks -> TaskStates]
        /\ sessions \in [Tasks -> Seq(Sessions)] /\ stopping \in [Tasks -> Teardowns]
        /\ row \in [Tasks -> Rows] /\ UNCHANGED <<stopper, stopped>>
        /\ boot.phase # "claims"
    <2>1. UNCHANGED <<stopper, stopped>>
      BY DEF StartStep, MarkStarting, BeginCreate, StartFails, CreateSucceeds, CheckBeforePrompt,
             PromptAccepted, PromptFails, CloseSettles, FenceEnds, CreateTimesOut, OrphanSettles,
             StartTimesOut
    <2>2. attempt[t].phase # "none"
      BY DEF StartStep, MarkStarting, BeginCreate, StartFails, CreateSucceeds, CheckBeforePrompt,
             PromptAccepted, PromptFails, CloseSettles, FenceEnds, CreateTimesOut, OrphanSettles,
             StartTimesOut, At
    <2>3. QED
      BY <2>1, <2>2 DEF Shaped, HeldAt, BlankAt, NoAttempt
  <1>1. attempt[t].phase \in Opening => sessions[t] = <<>> /\ stopping[t].by = "none"
    BY DEF SingleAt, Live, Stopping
  <1>2. attempt[t].phase \in Closing => sessions[t] = <<>>
    BY DEF SingleAt, Live
  <1>3. NoAttempt.phase = "none" /\ ~NoAttempt.open
    BY DEF NoAttempt
  <1>4. ~task[t].excluded /\ (t \in stopped => IsTerminal(row[t]) \/ stopping[t].by = "user")
    BY DEF StopAt
  <1>5. \A status \in {"not_started", "agent_working"}, bound \in BOOLEAN :
            SetTask(t, status, bound) => task'[t].status = status /\ ~task'[t].excluded
    BY <1>0, <1>4, TaskWritten
  <1>6. /\ ~Never("timeout")' => FALSE
        /\ Spend("timeout") => FALSE
    <2>1. "timeout" \in Kinds
      BY DEF Kinds
    <2>2. QED
      BY <2>1, HelperTypes
  <1>7. Rejected(t) => /\ IsTerminal(row[t]) => IsTerminal(row'[t])
                       /\ ~task'[t].excluded
                       /\ task'[t].status = "completed" => task[t].status = "completed"
    <2> DEFINE inForce == /\ Reserved(t) /\ row[t].generation = attempt[t].generation
                          /\ row[t].state = "starting"
    <2>1. CASE inForce /\ Excluded(t)
      <3>1. Rejected(t) => UNCHANGED task
        BY <2>1 DEF Rejected
      <3>2. ~IsTerminal(row[t])
        BY <1>0, <2>1, RowFates
      <3>3. QED
        BY <1>4, <3>1, <3>2
    <2>2. CASE inForce /\ ~Excluded(t)
      <3>1. Rejected(t) => SetTask(t, "not_started", FALSE)
        BY <2>2 DEF Rejected
      <3>2. ~IsTerminal(row[t])
        BY <1>0, <2>2, RowFates
      <3>3. QED
        BY <1>5, <3>1, <3>2
    <2>3. CASE ~inForce
      BY <1>4, <2>3 DEF Rejected
    <2>4. QED
      BY <2>1, <2>2, <2>3
  <1>8. ASSUME Rejected(t), sessions[t] = <<>>, attempt[t].phase # "claimed",
               attempt[t].phase \in {"fencing", "unacked"} => ~Stopping(t),
               UNCHANGED <<sessions, stopping>>, attempt'[t] = NoAttempt
        PROVE  StopAt(t)'
    <2>1. Reserved(t)' => FALSE
      BY <1>3, <1>8 DEF Reserved
    <2>2. stopping[t].by = "fence" => attempt[t].phase \in {"fencing", "unacked"}
      BY DEF StopAt
    <2>3. stopping'[t].by = "fence" => FALSE
      BY <1>8, <2>2 DEF Stopping
    <2>4. /\ stopping'[t].by = "user" => stopper'[t] = "tearing"
          /\ stopping'[t].by = "ui" => IsTerminal(row'[t])
          /\ t \in stopped' => IsTerminal(row'[t]) \/ stopping'[t].by = "user"
      BY <1>0, <1>7, <1>8 DEF StopAt
    <2>5. attempt'[t].phase \notin {"preparing", "creating"}
      BY <1>3, <1>8
    <2>6. QED
      BY <1>7, <1>8, <2>1, <2>3, <2>4, <2>5, StopsWithNothing
  <1>9. CASE MarkStarting(t)
    <2>1. /\ attempt[t].phase = "claimed" /\ row[t].state = "claimed" /\ row'[t] = MarkedStarting(row[t])
          /\ attempt'[t].phase = "preparing" /\ attempt'[t].generation = attempt[t].generation
          /\ attempt'[t].open = attempt[t].open /\ attempt'[t].kind = attempt[t].kind
          /\ UNCHANGED <<sessions, stopping, task>> /\ row[t].generation = attempt[t].generation
      BY <1>9, Written DEF MarkStarting, MayMarkStarting
    <2>2. Reserved(t) /\ ~IsTerminal(row[t])
      BY <1>0, <2>1, RowFates DEF HeldAt, ClaimHeld
    <2>3. ~Excluded(t) /\ t \notin stopped /\ sessions[t] = <<>> /\ stopping[t].by = "none"
      BY <1>1, <2>1, <2>2 DEF StopAt, Opening
    <2>4. row'[t].state = "starting" /\ row'[t].generation = row[t].generation
      BY <1>0, <2>1, RowFates
    <2>5. MayStart(t)' /\ ~Excluded(t)' /\ ~Live(t)'
      BY <2>1, <2>3, <2>4 DEF MayStart, Excluded, Live
    <2>6. QED
      BY <1>0, <1>4, <2>1, <2>3, <2>5 DEF StopAt
  <1>10. CASE BeginCreate(t)
    <2>1. /\ attempt[t].phase = "preparing" /\ UNCHANGED <<sessions, stopping>>
          /\ \/ /\ MayStart(t) /\ attempt' = [attempt EXCEPT ![t].phase = "creating"]
                /\ UNCHANGED <<row, task>>
             \/ Rejected(t) /\ attempt'[t] = NoAttempt
      BY <1>10, Written DEF BeginCreate, At, Reject
    <2>2. CASE MayStart(t) /\ attempt' = [attempt EXCEPT ![t].phase = "creating"] /\ UNCHANGED <<row, task>>
      <3>1. /\ attempt'[t].phase = "creating" /\ attempt'[t].generation = attempt[t].generation
            /\ attempt'[t].open = attempt[t].open /\ attempt'[t].kind = attempt[t].kind
        BY <2>2, Written
      <3>2. MayStart(t)' /\ (Reserved(t)' => Reserved(t)) /\ Live(t)' = Live(t) /\ Excluded(t)' = Excluded(t)
        BY <2>1, <2>2, <3>1 DEF MayStart, Excluded, Reserved, Live
      <3>3. stopping[t].by = "none" /\ sessions[t] = <<>>
        BY <1>1, <2>1 DEF Opening
      <3>4. QED
        BY <1>0, <2>1, <2>2, <3>1, <3>2, <3>3 DEF StopAt, Prompting
    <2>3. CASE Rejected(t) /\ attempt'[t] = NoAttempt
      BY <1>1, <1>8, <2>1, <2>3 DEF Opening
    <2>4. QED
      BY <2>1, <2>2, <2>3
  <1>11. CASE StartFails(t)
    <2>1. attempt[t].phase \in {"preparing", "creating"} /\ UNCHANGED <<sessions, stopping>>
          /\ Rejected(t) /\ attempt'[t] = NoAttempt
      BY <1>11, Written DEF StartFails, At, Reject
    <2>2. QED
      BY <1>1, <1>8, <2>1 DEF Opening
  <1>12. CASE CreateSucceeds(t)
    <2>1. attempt[t].phase = "creating" /\ sessions[t] = <<>> /\ stopping[t].by = "none" /\ UNCHANGED row
      BY <1>1, <1>12 DEF CreateSucceeds, At, Opening
    <2>2. CASE MayStart(t)
      <3>1. /\ UNCHANGED stopping /\ SetTask(t, "agent_working", TRUE)
            /\ attempt' = [attempt EXCEPT ![t].phase = "binding"]
        BY <1>12, <2>2 DEF CreateSucceeds
      <3>2. /\ attempt'[t].phase = "binding" /\ attempt'[t].generation = attempt[t].generation
        BY <3>1, Written
      <3>3. task'[t].status = "agent_working" /\ ~task'[t].excluded
        BY <1>5, <3>1
      <3>4. ~Excluded(t)' /\ MayStart(t)'
        BY <2>1, <2>2, <3>2, <3>3 DEF MayStart, Excluded
      <3>5. ~IsTerminal(row[t])
        BY <1>0, <2>2, RowFates DEF MayStart
      <3>6. t \notin stopped'
        BY <1>0, <1>4, <2>1, <3>5
      <3>7. QED
        BY <2>1, <3>1, <3>2, <3>3, <3>4, <3>6 DEF StopAt
    <2>3. CASE ~MayStart(t)
      <3>1. /\ attempt'[t].phase = "fencing" /\ sessions'[t] = <<>> /\ UNCHANGED task
            /\ attempt'[t].open = attempt[t].open /\ attempt'[t].kind = attempt[t].kind
            /\ stopping' = [stopping EXCEPT ![t] =
                              [by |-> "fence", held |-> Last(RegisteredIn(<<>>, t))]]
        BY <1>12, <2>1, <2>3, Written DEF CreateSucceeds, Stopping
      <3>2. stopping'[t].by = "fence"
        BY <1>0, <3>1
      <3>3. stopper[t] = "waiting"
        BY <2>1, <2>3 DEF StopAt
      <3>4. t \in stopped' => IsTerminal(row'[t])
        BY <1>0, <1>4, <2>1
      <3>5. Reserved(t)' => ~Excluded(t)'
        BY <3>1 DEF StopAt, Reserved, Excluded
      <3>6. QED
        BY <1>0, <1>4, <3>1, <3>2, <3>3, <3>4, <3>5, StopsWithNothing
    <2>4. QED
      BY <2>2, <2>3
  <1>13. ASSUME attempt[t].phase \in Prompting, NEW p \in {"fencing", "unacked"}, FenceOwn(t, p),
                UNCHANGED <<row, task>>, ~MayStart(t)
         PROVE  StopAt(t)'
    <2>1. ~Live(t)
      BY <1>13 DEF StopAt
    <2>2. /\ sessions'[t] = <<>> /\ stopping'[t] = stopping[t]
      BY <1>13, <2>1, TakenAway
    <2>3. /\ attempt'[t].phase = p /\ attempt'[t].open = attempt[t].open
          /\ attempt'[t].kind = attempt[t].kind
      BY <1>13, Fencing, Written
    <2>4. Reserved(t)' => ~Excluded(t)'
      BY <1>13, <2>3 DEF StopAt, Reserved, Excluded
    <2>5. QED
      BY <1>0, <1>13, <2>2, <2>3, <2>4, StopsWithNothing DEF StopAt, Prompting
  <1>14. ASSUME sessions'[t] = <<>>, UNCHANGED <<task, stopping>>,
                attempt[t].phase \in Prompting,
                IsTerminal(row[t]) => IsTerminal(row'[t]),
                \/ attempt'[t] = NoAttempt
                \/ /\ attempt'[t].phase = "closing" /\ attempt'[t].open = attempt[t].open
                   /\ attempt'[t].kind = attempt[t].kind
         PROVE  StopAt(t)'
    <2>1. Reserved(t)' => Reserved(t)
      BY <1>3, <1>14 DEF Reserved
    <2>2. Excluded(t)' <=> Excluded(t)
      BY <1>14 DEF Excluded
    <2>3. stopping[t].by # "fence"
      BY <1>14 DEF StopAt, Prompting
    <2>4. /\ Reserved(t)' => ~Excluded(t)'
          /\ stopping'[t].by = "user" => stopper'[t] = "tearing"
          /\ stopping'[t].by = "ui" => IsTerminal(row'[t])
          /\ t \in stopped' => IsTerminal(row'[t]) \/ stopping'[t].by = "user"
      BY <1>0, <1>14, <2>1, <2>2 DEF StopAt
    <2>5. attempt'[t].phase \notin {"preparing", "creating"}
      BY <1>3, <1>14
    <2>6. QED
      BY <1>4, <1>14, <2>3, <2>4, <2>5, StopsWithNothing
  <1>15. CASE CheckBeforePrompt(t)
    <2>1. /\ attempt[t].phase = "binding"
          /\ \/ /\ MayStart(t) /\ attempt' = [attempt EXCEPT ![t].phase = "prompting"]
                /\ UNCHANGED <<row, task, sessions, stopping>>
             \/ /\ OwnIndex(t) = {} /\ Rejected(t) /\ attempt'[t] = NoAttempt
                /\ UNCHANGED <<sessions, stopping>>
             \/ ~MayStart(t) /\ FenceOwn(t, "fencing") /\ UNCHANGED <<row, task>>
      BY <1>15, Written DEF CheckBeforePrompt, At, Reject
    <2>2. attempt[t].phase \in Prompting
      BY <2>1 DEF Prompting
    <2>3. CASE MayStart(t) /\ attempt' = [attempt EXCEPT ![t].phase = "prompting"]
               /\ UNCHANGED <<row, task, sessions, stopping>>
      <3>1. /\ attempt'[t].phase = "prompting" /\ attempt'[t].generation = attempt[t].generation
            /\ attempt'[t].open = attempt[t].open /\ attempt'[t].kind = attempt[t].kind
        BY <2>3, Written
      <3>2. MayStart(t)' /\ (Reserved(t)' => Reserved(t)) /\ (Live(t)' <=> Live(t)) /\ (Excluded(t)' <=> Excluded(t))
        BY <2>3, <3>1 DEF MayStart, Reserved, Live, Excluded
      <3>3. QED
        BY <1>0, <2>1, <2>3, <3>1, <3>2 DEF StopAt
    <2>4. CASE OwnIndex(t) = {} /\ Rejected(t) /\ attempt'[t] = NoAttempt
               /\ UNCHANGED <<sessions, stopping>>
      <3>1. sessions[t] = <<>>
        BY <2>2, <2>4, TakenAway DEF Live
      <3>2. QED
        BY <1>8, <2>1, <2>4, <3>1
    <2>5. CASE ~MayStart(t) /\ FenceOwn(t, "fencing") /\ UNCHANGED <<row, task>>
      BY <1>13, <2>2, <2>5
    <2>6. QED
      BY <2>1, <2>3, <2>4, <2>5
  <1>16. CASE PromptAccepted(t)
    <2>1. /\ attempt[t].phase = "prompting" /\ UNCHANGED task
          /\ \/ /\ Owns(row[t], attempt[t].generation) /\ row'[t] = Acknowledged(row[t])
                /\ attempt'[t] = NoAttempt /\ UNCHANGED <<sessions, stopping>>
             \/ ~Owns(row[t], attempt[t].generation) /\ FenceOwn(t, "unacked") /\ UNCHANGED row
             \/ DropOwn(t) /\ attempt'[t] = NoAttempt /\ UNCHANGED <<row, stopping>>
      BY <1>16, Written DEF PromptAccepted, At
    <2>2. attempt[t].phase \in Prompting
      BY <2>1 DEF Prompting
    <2>3. CASE Owns(row[t], attempt[t].generation) /\ row'[t] = Acknowledged(row[t])
               /\ attempt'[t] = NoAttempt /\ UNCHANGED <<sessions, stopping>>
      <3>1. ~IsTerminal(row[t])
        BY <1>0, <2>3, RowFates DEF Owns
      <3>2. stopping[t].by \notin {"fence", "ui"}
        BY <2>1, <3>1 DEF StopAt
      <3>3. t \in stopped => ~Live(t) /\ stopping[t].by = "user"
        BY <3>1 DEF StopAt
      <3>4. attempt'[t].phase = "none" /\ ~Reserved(t)'
        BY <1>3, <2>3 DEF Reserved
      <3>5. Live(t)' <=> Live(t)
        BY <2>3 DEF Live
      <3>6. QED
        BY <1>0, <1>4, <2>1, <2>3, <3>2, <3>3, <3>4, <3>5 DEF StopAt, Prompting
    <2>4. CASE ~Owns(row[t], attempt[t].generation) /\ FenceOwn(t, "unacked") /\ UNCHANGED row
      <3>1. ~MayStart(t)
        BY <1>0, <2>4, RowFates DEF MayStart, Owns
      <3>2. QED
        BY <1>13, <2>1, <2>2, <2>4, <3>1
    <2>5. CASE DropOwn(t) /\ attempt'[t] = NoAttempt /\ UNCHANGED <<row, stopping>>
      <3>1. sessions'[t] = <<>>
        BY <2>2, <2>5, TakenAway
      <3>2. QED
        BY <1>14, <2>1, <2>2, <2>5, <3>1
    <2>6. QED
      BY <2>1, <2>3, <2>4, <2>5
  <1>17. CASE PromptFails(t)
    <2>1. /\ attempt[t].phase = "prompting" /\ DropOwn(t) /\ row'[t] = Ended(row[t], "failed")
          /\ attempt'[t].phase = "closing" /\ attempt'[t].open = attempt[t].open
          /\ attempt'[t].kind = attempt[t].kind /\ UNCHANGED <<task, stopping>>
      BY <1>17, Written DEF PromptFails, At
    <2>2. attempt[t].phase \in Prompting
      BY <2>1 DEF Prompting
    <2>3. sessions'[t] = <<>>
      BY <2>1, <2>2, TakenAway
    <2>4. IsTerminal(row[t]) => IsTerminal(row'[t])
      BY <1>0, <2>1, RowFates
    <2>5. QED
      BY <1>14, <2>1, <2>2, <2>3, <2>4
  <1>18. CASE CloseSettles(t)
    <2>1. /\ attempt[t].phase = "closing" /\ ~Stopping(t) /\ UNCHANGED <<row, sessions, stopping>>
          /\ attempt'[t] = NoAttempt /\ (SetTask(t, "not_started", FALSE) \/ UNCHANGED task)
      BY <1>18, Written DEF CloseSettles, At
    <2>2. sessions'[t] = <<>> /\ stopping'[t].by = "none" /\ ~task'[t].excluded
      BY <1>2, <1>4, <1>5, <2>1 DEF Closing, Stopping
    <2>3. ~Reserved(t)' /\ attempt'[t].phase = "none"
      BY <1>3, <2>1 DEF Reserved
    <2>4. QED
      BY <1>0, <1>4, <2>1, <2>2, <2>3, StopsWithNothing
  <1>19. CASE FenceEnds(t)
    <2>1. attempt[t].phase \in {"fencing", "unacked"} /\ ~Stopping(t) /\ UNCHANGED <<sessions, stopping>>
          /\ Rejected(t) /\ attempt'[t] = NoAttempt
      BY <1>19, Written DEF FenceEnds, At, Reject
    <2>2. QED
      BY <1>2, <1>8, <2>1 DEF Closing
  <1>20. CASE CreateTimesOut(t) \/ StartTimesOut(t)
    BY <1>6, <1>20 DEF CreateTimesOut, StartTimesOut
  <1>21. CASE OrphanSettles(t)
    <2>1. attempt[t].phase = "orphan" /\ UNCHANGED <<row, task, sessions, stopping>> /\ attempt'[t] = NoAttempt
      BY <1>21, Written DEF OrphanSettles, At
    <2>2. sessions'[t] = <<>> /\ stopping'[t].by = "none"
      BY <1>1, <2>1 DEF Opening
    <2>3. ~Reserved(t)' /\ attempt'[t].phase = "none"
      BY <1>3, <2>1 DEF Reserved
    <2>4. QED
      BY <1>0, <1>4, <2>1, <2>2, <2>3, StopsWithNothing
  <1>22. QED
    BY <1>9, <1>10, <1>11, <1>12, <1>15, <1>16, <1>17, <1>18, <1>19, <1>20, <1>21 DEF StartStep


\* What users, turns and teardowns do to a task's sessions.
LEMMA SessionStops ==
    ASSUME Shaped, Never("refuse")', Never("label")', NEW t \in Tasks, HeldAt(t), SingleAt(t),
           StopAt(t), SessionStep(t)
    PROVE  StopAt(t)'
  <1>0. /\ row[t] \in Rows /\ attempt[t] \in Attempts /\ task \in [Tasks -> TaskStates]
        /\ sessions \in [Tasks -> Seq(Sessions)] /\ stopping \in [Tasks -> Teardowns]
        /\ stopper \in [Tasks -> Stoppers] /\ UNCHANGED attempt
    <2>1. UNCHANGED attempt
      BY DEF SessionStep, StopByTaskId, StopLooksAgain, StopSession, TeardownSettles,
             TeardownRefused, TurnEnds, ReviewLands, Reap, MessageWakes, SetLabel, Complete, Repair
    <2>2. QED
      BY <2>1 DEF Shaped
  <1>1. Len(sessions[t]) <= 1 /\ ~task[t].excluded /\ (Live(t) => ~Stopping(t))
    BY DEF SingleAt, StopAt
  <1>2. Live(t) => 1 \in DOMAIN sessions[t] /\ attempt[t].phase \notin {"preparing", "creating"}
                   /\ t \notin stopped
    BY <1>1, OneSession DEF SingleAt, Opening, StopAt
  <1>3. \A i \in DOMAIN sessions[t] : Live(t)
    BY <1>1, OneSession
  <1>4. IsTerminal(Cancelled(row[t]))
    BY <1>0, RowFates
  <1>5. Reserved(t)' <=> Reserved(t)
    BY <1>0 DEF Reserved
  <1>6. ASSUME UNCHANGED task
        PROVE  /\ Excluded(t)' <=> Excluded(t)
               /\ Reserved(t)' => ~Excluded(t)'
    BY <1>5, <1>6 DEF Excluded, StopAt
  <1>7. ASSUME Live(t), BeginTeardown(t, 1, "user"), stopper' = [stopper EXCEPT ![t] = "tearing"],
               UNCHANGED task
        PROVE  StopAt(t)'
    <2>1. sessions'[t] = <<>> /\ stopping'[t].by = "user" /\ stopper'[t] = "tearing"
      BY <1>0, <1>2, <1>7, TakenAway
    <2>2. QED
      BY <1>0, <1>1, <1>2, <1>6, <1>7, <2>1, StopsWithNothing
  <1>8. CASE StopByTaskId(t)
    <2>1. UNCHANGED task /\ stopper[t] = "none" /\ stopped' = stopped \cup {t}
      BY <1>8 DEF StopByTaskId
    <2>2. CASE Stopping(t) /\ stopper' = [stopper EXCEPT ![t] = "joining"]
               /\ UNCHANGED <<row, sessions, stopping>>
      <3>1. stopping[t].by = "ui" /\ ~Live(t) /\ attempt[t].phase \notin {"preparing", "creating"}
        BY <1>0, <2>1, <2>2 DEF StopAt, Stopping, SingleAt, Opening, Teardowns
      <3>2. QED
        BY <1>0, <1>1, <1>6, <2>1, <2>2, <3>1 DEF StopAt, Live
    <2>3. CASE Live(t) /\ BeginTeardown(t, 1, "user") /\ stopper' = [stopper EXCEPT ![t] = "tearing"]
      BY <1>7, <2>1, <2>3
    <2>4. CASE /\ ~Stopping(t) /\ ~Live(t) /\ PutRow(t, Cancelled(row[t]))
               /\ stopper' = [stopper EXCEPT ![t] = "waiting"] /\ UNCHANGED <<sessions, stopping>>
      <3>1. IsTerminal(row'[t]) /\ stopper'[t] = "waiting" /\ ~Live(t)' /\ stopping'[t].by = "none"
        BY <1>0, <1>4, <2>4, Written DEF Stopping, Live
      <3>2. QED
        BY <1>0, <1>1, <1>6, <2>1, <3>1 DEF StopAt
    <2>5. QED
      BY <1>8, <2>2, <2>3, <2>4 DEF StopByTaskId
  <1>9. CASE StopLooksAgain(t)
    <2>1. /\ stopper[t] = "waiting" /\ attempt[t].phase \in {"none", "unacked"}
          /\ UNCHANGED <<row, attempt, stopped>>
      BY <1>9 DEF StopLooksAgain
    <2>2. CASE Live(t) /\ BeginTeardown(t, 1, "user") /\ UNCHANGED task
               /\ stopper' = [stopper EXCEPT ![t] = "tearing"]
      BY <1>7, <2>2
    <2>3. CASE /\ ~Live(t) /\ stopper' = [stopper EXCEPT ![t] = "none"]
               /\ SetTask(t, "not_started", FALSE) \/ UNCHANGED task
               /\ UNCHANGED <<sessions, stopping>>
      <3>1. sessions'[t] = <<>> /\ attempt'[t].phase \notin {"preparing", "creating"}
        BY <2>1, <2>3 DEF Live
      <3>2. Reserved(t)' => ~Excluded(t)'
        BY <1>0, <1>1, <2>1, <2>3, TaskWritten DEF StopAt, Reserved, Excluded
      <3>3. ~task'[t].excluded
        BY <1>0, <1>1, <2>3, TaskWritten
      <3>4. stopping[t].by \notin {"fence", "user"}
        BY <2>1 DEF StopAt
      <3>5. /\ stopping'[t].by = "ui" => IsTerminal(row'[t])
            /\ t \in stopped' => IsTerminal(row'[t])
        BY <2>1, <2>3, <3>4 DEF StopAt
      <3>6. stopping'[t].by \notin {"fence", "user"}
        BY <2>3, <3>4
      <3>7. QED
        BY <3>1, <3>2, <3>3, <3>5, <3>6, StopsWithNothing
    <2>4. QED
      BY <1>1, <1>9, <2>2, <2>3 DEF StopLooksAgain
  <1>10. CASE StopSession(t)
    <2>1. PICK i \in DOMAIN sessions[t] : BeginTeardown(t, i, "ui")
      BY <1>10 DEF StopSession
    <2>2. sessions'[t] = <<>> /\ stopping'[t].by = "ui" /\ Live(t)
      BY <2>1, TakenAway
    <2>3. UNCHANGED task /\ IsTerminal(row'[t])
      BY <1>4, <1>10, Written DEF StopSession
    <2>4. QED
      BY <1>0, <1>1, <1>2, <1>6, <2>2, <2>3, StopsWithNothing
  <1>11. CASE TeardownSettles(t)
    <2>1. /\ row'[t] = IF stopping[t].by = "user" THEN Cancelled(row[t]) ELSE row[t]
          /\ stopping'[t] = NoTeardown /\ UNCHANGED <<sessions, stopped>> /\ Stopping(t)
          /\ task'[t] = AfterStop(t)
      BY <1>0, <1>11, Written DEF TeardownSettles
    <2>2. sessions'[t] = <<>> /\ attempt'[t].phase \notin {"preparing", "creating"}
          /\ stopping'[t].by = "none"
      BY <1>0, <2>1 DEF SingleAt, Opening, Live, NoTeardown
    <2>3. ~task'[t].excluded /\ (task'[t].status = "completed" => task[t].status = "completed")
      <3>1. task[t] \in TaskStates
        BY <1>0
      <3>2. /\ AfterTeardown(t) \in TaskStates /\ ~AfterTeardown(t).excluded
            /\ AfterTeardown(t).status = "completed" => task[t].status = "completed"
        BY <1>1, <3>1 DEF AfterTeardown, TaskStates
      <3>3. /\ ~AfterStop(t).excluded
            /\ AfterStop(t).status = "completed" => task[t].status = "completed"
        <4> DEFINE a == AfterTeardown(t)
                   k == [a EXCEPT !.status = "not_started"]
                   l == [k EXCEPT !.bound = FALSE]
        <4>1. k \in TaskStates /\ k.status = "not_started" /\ k.excluded = a.excluded
          BY <3>2 DEF TaskStates
        <4> HIDE DEF k
        <4>2. l.status = "not_started" /\ l.excluded = a.excluded
          BY <4>1 DEF TaskStates
        <4>3. AfterStop(t) = l \/ AfterStop(t) = a
          BY DEF AfterStop, k
        <4> HIDE DEF l, a
        <4>4. a.excluded = FALSE /\ (a.status = "completed" => task[t].status = "completed")
          BY <3>2 DEF a, TaskStates
        <4>5. QED
          BY <4>2, <4>3, <4>4
      <3>4. QED
        BY <2>1, <3>3
    <2>4. Reserved(t)' => ~Excluded(t)'
      BY <1>5, <2>3 DEF StopAt, Excluded
    <2>5. t \in stopped' => IsTerminal(row'[t])
      BY <1>4, <2>1 DEF StopAt
    <2>6. QED
      BY <2>2, <2>3, <2>4, <2>5, StopsWithNothing
  <1>12. CASE TeardownRefused(t)
    <2>1. "refuse" \in Kinds /\ Spend("refuse")
      BY <1>12 DEF Kinds, TeardownRefused
    <2>2. QED
      BY <2>1, HelperTypes
  <1>13. CASE SetLabel(t)
    <2>1. "label" \in Kinds /\ SpendOn(t, "label")
      BY <1>13 DEF Kinds, SetLabel
    <2>2. QED
      BY <2>1, HelperTypes
  <1>14. ASSUME Live(t), UNCHANGED <<row, stopping, stopper>>,
                t \in stopped' => t \in stopped, ~task'[t].excluded,
                task'[t].status = "completed" => task[t].status = "completed"
         PROVE  StopAt(t)'
    <2>1. Excluded(t)' => Excluded(t)
      BY <1>14 DEF Excluded
    <2>2. MayStart(t) => MayStart(t)'
      BY <1>0, <1>14, <2>1 DEF MayStart
    <2>3. t \notin stopped' /\ (attempt[t].phase \in Prompting => MayStart(t)')
          /\ (Reserved(t)' => ~Excluded(t)')
      BY <1>2, <1>5, <1>14, <2>1, <2>2 DEF StopAt
    <2>4. QED
      BY <1>0, <1>2, <1>14, <2>3 DEF StopAt
  <1>15. CASE TurnEnds(t) \/ Reap(t)
    <2>1. Live(t)
      BY <1>3, <1>15 DEF TurnEnds, Reap
    <2>2. QED
      BY <1>1, <1>14, <1>15, <2>1 DEF TurnEnds, Reap
  <1>16. \A s \in {"agent_working", "ready_for_review"} :
             task' = [task EXCEPT ![t].status = s] => ~task'[t].excluded /\ task'[t].status = s
    <2>1. task[t] \in TaskStates
      BY <1>0
    <2>2. \A s \in {"agent_working", "ready_for_review"} :
             ~[task[t] EXCEPT !.status = s].excluded /\ [task[t] EXCEPT !.status = s].status = s
      BY <1>1, <2>1 DEF TaskStates
    <2>3. \A s \in {"agent_working", "ready_for_review"} :
             task' = [task EXCEPT ![t].status = s] => task'[t] = [task[t] EXCEPT !.status = s]
      BY <1>0
    <2>4. QED
      BY <2>2, <2>3
  <1>17. CASE ReviewLands(t)
    <2>1. Live(t) /\ UNCHANGED <<row, stopping, stopper, stopped>>
      BY <1>3, <1>17 DEF ReviewLands
    <2>2. UNCHANGED task \/ task' = [task EXCEPT ![t].status = "ready_for_review"]
      BY <1>17 DEF ReviewLands
    <2>3. ~task'[t].excluded /\ (task'[t].status = "completed" => task[t].status = "completed")
      BY <1>1, <1>16, <2>2
    <2>4. QED
      BY <1>14, <2>1, <2>3
  <1>18. CASE MessageWakes(t)
    <2>1. Live(t) /\ UNCHANGED <<row, stopping, stopper>> /\ t \notin stopped'
          /\ task' = [task EXCEPT ![t].status = "agent_working"]
      BY <1>3, <1>18 DEF MessageWakes
    <2>2. ~task'[t].excluded /\ task'[t].status # "completed"
      BY <1>16, <2>1
    <2>3. QED
      BY <1>14, <2>1, <2>2
  <1>19. ASSUME ~StartPending(t), UNCHANGED <<sessions, stopping, stopper, stopped>>, ~task'[t].excluded,
                IsTerminal(row[t]) => IsTerminal(row'[t])
         PROVE  StopAt(t)'
    <2>1. attempt[t] = NoAttempt /\ NoAttempt.phase = "none" /\ ~NoAttempt.open
      BY <1>19 DEF StartPending, HeldAt, StartShape, NoAttempt
    <2>2. ~Reserved(t)' /\ attempt'[t].phase \notin Prompting \cup {"preparing", "creating"}
      BY <1>0, <2>1 DEF Reserved, Prompting
    <2>3. QED
      BY <1>0, <1>19, <2>2 DEF StopAt, Live
  <1>20. CASE Complete(t)
    <2>1. ~StartPending(t) /\ UNCHANGED <<row, sessions, stopping, stopper, stopped>>
          /\ task' = [task EXCEPT ![t].status = "completed"]
      BY <1>20 DEF Complete, HasTaskStartOwnership
    <2>2. ~task'[t].excluded
      BY <1>0, <1>1, <2>1 DEF TaskStates
    <2>3. QED
      BY <1>19, <2>1, <2>2
  <1>21. CASE Repair(t)
    <2>1. /\ ~StartPending(t) /\ UNCHANGED <<sessions, stopping, stopper, stopped>>
          /\ SetTask(t, "ready_for_review", TRUE) \/ SetTask(t, "not_started", FALSE)
          /\ row'[t] = Recovered(row[t]) \/ row'[t] = row[t] \/ ~IsTerminal(row[t])
      BY <1>21, Written DEF Repair
    <2>2. ~task'[t].excluded
      BY <1>0, <1>1, <2>1, TaskWritten
    <2>3. IsTerminal(row[t]) => IsTerminal(row'[t])
      BY <1>0, <2>1, RecoveringFates
    <2>4. QED
      BY <1>19, <2>1, <2>2, <2>3
  <1>22. QED
    BY <1>8, <1>9, <1>10, <1>11, <1>12, <1>13, <1>15, <1>17, <1>18, <1>20, <1>21 DEF SessionStep



\* What boot and a reconnection do: a task that was stopped gets no session back.
LEMMA RecoveryStops ==
    ASSUME Shaped, Never("timeout")', NEW t \in Tasks, HeldAt(t), SingleAt(t), StopAt(t), Recovers(t)
    PROVE  StopAt(t)'
  <1>0. /\ row[t] \in Rows /\ attempt[t] \in Attempts /\ task \in [Tasks -> TaskStates]
        /\ task[t] \in TaskStates /\ sessions \in [Tasks -> Seq(Sessions)]
        /\ UNCHANGED <<stopping, stopper, stopped>> /\ ~task[t].excluded
    <2>1. UNCHANGED <<stopping, stopper, stopped>>
      BY DEF Recovers, ResumeStep, BootSkips, BootResets, BootResumes, ResumeReturns,
             ResumeFails, ResumeTimesOut
    <2>2. QED
      BY <2>1 DEF Shaped, StopAt
  <1>1. NoAttempt.phase = "none" /\ ~NoAttempt.open
    BY DEF NoAttempt
  <1>2. \A status \in {"not_started", "agent_working", "ready_for_review"}, bound \in BOOLEAN :
            SetTask(t, status, bound) => ~task'[t].excluded
    BY <1>0, TaskWritten
  <1>3. Resuming(t) => sessions[t] = <<>> /\ stopping[t].by = "none" /\ attempt[t].open
    BY DEF SingleAt, Resuming, Opening, Live, Stopping
  <1>4. ASSUME ~StartPending(t), UNCHANGED <<sessions, attempt>>, ~task'[t].excluded,
               IsTerminal(row[t]) => IsTerminal(row'[t])
        PROVE  StopAt(t)'
    <2>1. attempt[t] = NoAttempt
      BY <1>4 DEF StartPending, HeldAt, StartShape
    <2>2. ~Reserved(t)' /\ attempt'[t].phase \notin Prompting \cup {"preparing", "creating"}
      BY <1>1, <1>4, <2>1 DEF Reserved, Prompting
    <2>3. QED
      BY <1>0, <1>4, <2>2 DEF StopAt, Live
  <1>5. CASE BootSkips(t)
    <2>1. UNCHANGED <<sessions, attempt>>
      BY <1>5 DEF BootSkips
    <2>2. CASE UNCHANGED <<row, task>>
      BY <1>0, <2>1, <2>2, StopsAsBefore
    <2>3. CASE ~StartPending(t) /\ row'[t] = Recovered(row[t]) /\ task' = [task EXCEPT ![t].bound = TRUE]
      <3>1. [task[t] EXCEPT !.bound = TRUE].excluded = task[t].excluded
        BY <1>0 DEF TaskStates
      <3>2. task'[t] = [task[t] EXCEPT !.bound = TRUE]
        BY <1>0, <2>3
      <3>3. IsTerminal(row[t]) => IsTerminal(row'[t])
        BY <1>0, <2>3, RecoveringFates
      <3>4. QED
        BY <1>0, <1>4, <2>1, <2>3, <3>1, <3>2, <3>3
    <2>4. QED
      BY <1>5, <2>2, <2>3, Written DEF BootSkips
  <1>6. CASE BootResets(t)
    <2>1. /\ UNCHANGED <<sessions, attempt>> /\ ~StartPending(t) /\ SetTask(t, "not_started", FALSE)
          /\ IsTerminal(row[t]) => row'[t] = row[t]
      BY <1>6, Written DEF BootResets
    <2>2. QED
      BY <1>2, <1>4, <2>1
  <1>7. CASE BootResumes(t)
    <2>1. /\ sessions'[t] = <<>> /\ stopping'[t].by = "none" /\ ~IsTerminal(row[t]) /\ UNCHANGED task
          /\ attempt'[t] = [phase |-> "resuming", generation |-> 0, open |-> TRUE, kind |-> "resume"]
      BY <1>0, <1>7, Written DEF BootResumes, Live, Stopping
    <2>2. attempt'[t].phase = "resuming" /\ ~Reserved(t)'
      BY <2>1 DEF Reserved
    <2>3. t \notin stopped'
      BY <1>0, <2>1 DEF StopAt
    <2>4. QED
      BY <1>0, <2>1, <2>2, <2>3, StopsWithNothing
  <1>8. CASE ResumeReturns(t)
    <2>1. /\ Resuming(t) /\ attempt'[t] = NoAttempt
          /\ \/ UNCHANGED <<row, task, sessions>>
             \/ /\ ~IsTerminal(row[t])
                /\ \E status \in {"working", "idle"} : task' = [task EXCEPT ![t].status =
                        IF @ = "completed" THEN @
                        ELSE IF status = "working" THEN "agent_working"
                        ELSE IF attempt[t].open THEN "ready_for_review" ELSE @]
      BY <1>3, <1>8, Written DEF ResumeReturns
    <2>2. ~Reserved(t)' /\ attempt'[t].phase = "none" /\ stopping'[t].by = "none"
      BY <1>0, <1>1, <1>3, <2>1 DEF Reserved
    <2>3. CASE UNCHANGED <<row, task, sessions>>
      BY <1>0, <1>3, <2>1, <2>2, <2>3, StopsWithNothing DEF StopAt
    <2>4. ASSUME ~IsTerminal(row[t]), NEW status \in {"working", "idle"},
                 task' = [task EXCEPT ![t].status =
                        IF @ = "completed" THEN @
                        ELSE IF status = "working" THEN "agent_working"
                        ELSE IF attempt[t].open THEN "ready_for_review" ELSE @]
          PROVE  StopAt(t)'
      <3>1. \E s \in {"completed", "agent_working", "ready_for_review", task[t].status} :
                task'[t] = [task[t] EXCEPT !.status = s]
        BY <1>0, <2>4
      <3>2. \A s : [task[t] EXCEPT !.status = s].excluded = task[t].excluded
        BY <1>0 DEF TaskStates
      <3>3. ~task'[t].excluded /\ t \notin stopped'
        BY <1>0, <1>3, <2>1, <2>4, <3>1, <3>2 DEF StopAt
      <3>4. QED
        BY <2>2, <3>3 DEF StopAt, Prompting
    <2>5. QED
      BY <2>1, <2>3, <2>4
  <1>9. CASE ResumeFails(t)
    <2>1. /\ sessions'[t] = <<>> /\ attempt'[t] = NoAttempt /\ stopping'[t].by = "none"
          /\ IsTerminal(row[t]) => row'[t] = row[t]
          /\ SetTask(t, "not_started", FALSE) \/ UNCHANGED task
      BY <1>0, <1>3, <1>9, Written DEF ResumeFails, Unreclaimed
    <2>2. ~task'[t].excluded /\ ~Reserved(t)' /\ attempt'[t].phase = "none"
      BY <1>0, <1>1, <1>2, <2>1 DEF Reserved
    <2>3. t \in stopped' => IsTerminal(row'[t])
      BY <1>0, <1>3, <1>9, <2>1 DEF StopAt, ResumeFails
    <2>4. QED
      BY <2>1, <2>2, <2>3, StopsWithNothing
  <1>10. CASE ResumeTimesOut(t)
    <2>1. "timeout" \in Kinds /\ Spend("timeout")
      BY <1>10 DEF Kinds, ResumeTimesOut
    <2>2. QED
      BY <2>1, HelperTypes
  <1>11. QED
    BY <1>5, <1>6, <1>7, <1>8, <1>9, <1>10 DEF Recovers, ResumeStep

\* A crash forgets the stops that had not returned, and boot leaves rows that ended alone.
LEMMA CommonStops ==
    ASSUME HInv, Common, NEW t \in Tasks, StopAt(t)
    PROVE  StopAt(t)'
  <1>0. Shaped /\ HeldAt(t) /\ row[t] \in Rows /\ ~task[t].excluded
    BY DEF HInv, Shaped, StopAt
  <1>1. NoAttempt.phase = "none" /\ ~NoAttempt.open /\ NoTeardown.by = "none"
    BY DEF NoAttempt, NoTeardown
  <1>2. IsTerminal(row[t]) => IsTerminal(row'[t])
    BY CommonHeld
  <1>3. ASSUME sessions'[t] = <<>>, attempt'[t] = NoAttempt, stopping'[t] = NoTeardown, UNCHANGED task,
               t \in stopped' => IsTerminal(row[t])
        PROVE  StopAt(t)'
    <2>1. ~Reserved(t)' /\ attempt'[t].phase = "none" /\ stopping'[t].by = "none"
      BY <1>1, <1>3 DEF Reserved
    <2>2. QED
      BY <1>0, <1>2, <1>3, <2>1, StopsWithNothing
  <1>4. CASE Crash
    <2>1. /\ sessions'[t] = <<>> /\ attempt'[t] = NoAttempt /\ stopping'[t] = NoTeardown
          /\ UNCHANGED task /\ stopped' = {u \in stopped : stopper[u] = "none"}
      BY <1>4 DEF Crash
    <2>2. t \in stopped' => IsTerminal(row[t])
      BY <2>1 DEF StopAt
    <2>3. QED
      BY <1>3, <2>1, <2>2
  <1>5. CASE BootRequeues
    <2>1. UNCHANGED <<task, sessions, attempt, stopping, stopper, stopped>> /\ boot.phase = "claims"
      BY <1>5 DEF BootRequeues
    <2>2. sessions[t] = <<>> /\ attempt[t] = NoAttempt /\ stopping[t] = NoTeardown
      BY <1>0, <2>1 DEF HeldAt, BlankAt
    <2>3. t \in stopped => IsTerminal(row[t])
      BY <1>1, <2>2 DEF StopAt
    <2>4. QED
      BY <1>3, <2>1, <2>2, <2>3
  <1>6. CASE BootEnds \/ DrainBegins \/ RetryTimerFires \/ Pause \/ Unpause \/ Sweep
    <2>1. UNCHANGED <<row, task, sessions, attempt, stopping, stopper, stopped>>
      BY <1>6 DEF BootEnds, DrainBegins, RetryTimerFires, Pause, Unpause, Sweep
    <2>2. QED
      BY <1>0, <2>1, StopsAsBefore
  <1>7. QED
    BY <1>4, <1>5, <1>6 DEF Common

\* SInv with what stops rely on.
TInv == SInv /\ (Stoppable => \A t \in Tasks : StopAt(t))

\* TInv is inductive.
LEMMA StopsStep ==
    ASSUME TInv, [Next]_vars
    PROVE  TInv'
  <1>0. SInv /\ Shaped /\ HInv /\ \A t \in Tasks : HeldAt(t)
    BY DEF TInv, SInv, HInv
  <1>1. SInv'
    BY <1>0, SingleStep
  <1>2. ASSUME Stoppable' PROVE \A t \in Tasks : StopAt(t)'
    <2>1. {"timeout", "label", "refuse"} \subseteq Kinds
      BY DEF Kinds
    <2>2. Stoppable /\ Undisturbed
      BY <1>0, <1>2, <2>1, SpentStaysSpent DEF Stoppable, Undisturbed
    <2>3. /\ Never("timeout")' /\ Never("label")' /\ Never("refuse")' /\ ~StartOverIdle
          /\ \A t \in Tasks : SingleAt(t) /\ StopAt(t)
      BY <1>0, <1>2, <2>2 DEF TInv, SInv, Stoppable
    <2>4. CASE Common
      BY <1>0, <2>3, <2>4, CommonStops
    <2>5. ASSUME NEW t \in Tasks, About(t) PROVE \A u \in Tasks : StopAt(u)'
      <3>1. StopAt(t)'
        BY <1>0, <2>3, <2>5, AskingStops, StartStops, SessionStops, RecoveryStops DEF About
      <3>2. \A u \in Tasks \ {t} : StopAt(u)'
        BY <1>0, <2>3, <2>5, StopsElsewhere
      <3>3. QED
        BY <3>1, <3>2
    <2>6. CASE UNCHANGED vars
      <3>1. UNCHANGED <<row, task, attempt, sessions, stopping, stopper, stopped>>
        BY <2>6 DEF vars
      <3>2. \A t \in Tasks : ~task[t].excluded
        BY <2>3 DEF StopAt
      <3>3. QED
        BY <2>3, <3>1, <3>2, StopsAsBefore
    <2>7. QED
      BY <2>4, <2>5, <2>6, NextIs
  <1>3. QED
    BY <1>1, <1>2 DEF TInv

\* TInv holds when the service starts.
LEMMA InitStops == Init => TInv
  <1> SUFFICES ASSUME Init PROVE TInv
    OBVIOUS
  <1>1. SInv
    BY InitSingle
  <1>2. ASSUME NEW t \in Tasks PROVE StopAt(t)
    <2>1. /\ sessions[t] = <<>> /\ attempt[t].phase = "none" /\ ~attempt[t].open
          /\ stopping[t].by = "none" /\ ~task[t].excluded /\ t \notin stopped
      BY DEF Init, NoAttempt, NoTeardown
    <2>2. QED
      BY <2>1 DEF StopAt, Live, Reserved, Prompting
  <1>3. QED
    BY <1>1, <1>2 DEF TInv

\* Once a user's stop has returned, the task's row has ended and nothing of it works,
\* whatever start, drain, retry, crash or recovery was under way: in every behaviour in
\* which no start goes beside an idle session, and, as StopIsFinal itself says, no
\* deadline passes, no label changes and no backend refuses to go.
THEOREM StopsAreFinal == Spec => [](~StartOverIdle => StopIsFinal)
  <1>1. TInv => (~StartOverIdle => StopIsFinal)
    <2> SUFFICES ASSUME TInv, Stoppable, NEW t \in stopped, stopper[t] = "none", ~Stopping(t)
                 PROVE  IsTerminal(row[t]) /\ ~Working(t)
      BY DEF StopIsFinal, Stoppable
    <2>1. Shaped /\ t \in Tasks
      BY DEF TInv, SInv, HInv, Shaped
    <2>2. ~Live(t) /\ IsTerminal(row[t])
      BY <2>1 DEF TInv, StopAt, Stopping
    <2>3. QED
      BY <2>2 DEF Live, Working
  <1>2. TInv /\ [Next]_vars => TInv'
    BY StopsStep
  <1>3. QED
    BY InitStops, <1>1, <1>2, PTL DEF Spec



------------------------------------------------------------------------------
(* A task that says an agent works on it has somebody to answer for it. *)

\* The ones WorkingIsBacked names.
Answered(t) ==
    \/ Live(t) \/ StartPending(t) \/ IsActive(row[t])
    \/ Stopping(t) \/ stopper[t] # "none"
    \/ boot.phase = "claims" \/ t \in boot.stale

\* Where such a task's start is withdrawn, a stop waits for it to end; its session is at
\* work or on its way to review.
Tended(t) ==
    /\ Answered(t) /\ task[t].bound
    /\ Live(t) => sessions[t][1].status = "working" \/ sessions[t][1].reviewing
    /\ attempt[t].phase \in {"preparing", "creating"} /\ ~MayStart(t) => stopper[t] = "waiting"
    /\ attempt[t].phase = "orphan" => stopper[t] = "waiting"
    /\ attempt[t].phase \in Prompting /\ Live(t) => MayStart(t)
    /\ attempt[t].phase \in Prompting /\ ~Live(t) /\ ~Stopping(t) => stopper[t] = "waiting"
    /\ attempt[t].phase \in {"fencing", "unacked"} /\ stopping[t].by \in {"none", "fence"} =>
          stopper[t] = "waiting"

\* What is known of a task whatever it says of itself: nobody completes it under a start
\* or under boot, a session in force is bound to it, and a reconnection that must not
\* come back has a stop waiting for it.
Unfinished(t) == StartPending(t) \/ (boot.phase = "tasks" /\ t \in boot.stale)
BackAt(t) ==
    /\ ~task[t].excluded
    /\ stopping[t].by = "fence" => attempt[t].phase \in {"fencing", "unacked"}
    /\ Unfinished(t) => task[t].status # "completed"
    /\ Live(t) => task[t].bound \/ (attempt[t].phase \in Prompting /\ ~MayStart(t))
    /\ Resuming(t) /\ IsTerminal(row[t]) => stopper[t] = "waiting"
    /\ task[t].status = "agent_working" => Tended(t)

\* A step that leaves the task alone keeps it.
LEMMA BackAsBefore ==
    ASSUME NEW t \in Tasks, BackAt(t), row'[t] = row[t], task'[t] = task[t],
           sessions'[t] = sessions[t], attempt'[t] = attempt[t], stopping'[t] = stopping[t],
           stopper'[t] = stopper[t], boot'.phase = boot.phase,
           t \in boot'.stale <=> t \in boot.stale
    PROVE  BackAt(t)'
  <1>1. /\ Live(t)' <=> Live(t)
        /\ MayStart(t)' <=> MayStart(t)
        /\ StartPending(t)' <=> StartPending(t)
        /\ Stopping(t)' <=> Stopping(t)
        /\ Resuming(t)' <=> Resuming(t)
    BY DEF Live, MayStart, Excluded, StartPending, Stopping, Resuming
  <1>2. /\ Answered(t)' <=> Answered(t)
        /\ Unfinished(t)' <=> Unfinished(t)
    BY <1>1 DEF Answered, Unfinished
  <1>3. Tended(t) => Tended(t)'
    BY <1>1, <1>2 DEF Tended
  <1>4. QED
    BY <1>1, <1>2, <1>3 DEF BackAt

\* A step about one task leaves what the others rely on.
LEMMA BackElsewhere ==
    ASSUME Shaped, NEW t \in Tasks, NEW u \in Tasks, u # t, About(t), BackAt(u)
    PROVE  BackAt(u)'
  <1>1. Untouched(u) /\ boot'.phase = boot.phase /\ (u \in boot'.stale <=> u \in boot.stale)
    BY Elsewhere
  <1>2. QED
    BY <1>1, BackAsBefore DEF Untouched

\* A start with no session beside it, under no stop, whose row was just claimed or queued.
LEMMA BackWhileAsked ==
    ASSUME NEW t \in Tasks, BackAt(t), UNCHANGED <<task, sessions, stopping, stopper, boot>>,
           ~Live(t), ~Stopping(t), task[t].status # "completed",
           attempt'[t].phase = "claimed" \/ (attempt'[t].phase = "none" /\ IsActive(row'[t])),
           attempt'[t].kind # "resume"
    PROVE  BackAt(t)'
  <1>1. /\ ~Live(t)' /\ ~Resuming(t)' /\ attempt'[t].phase \in {"claimed", "none"}
        /\ ~Stopping(t)' /\ attempt'[t].phase \notin Prompting
    BY DEF Live, Resuming, Stopping, Prompting
  <1>2. Answered(t)'
    BY DEF Answered, StartPending
  <1>3. task[t].status = "agent_working" => Tended(t)'
    BY <1>1, <1>2 DEF Tended, BackAt
  <1>4. QED
    BY <1>1, <1>3 DEF BackAt, Stopping

\* Asking for a start: by a scheduler, by the user, by the drain.
LEMMA AskingBack ==
    ASSUME Shaped, ~StartOverIdle, NEW t \in Tasks, HeldAt(t), SingleAt(t), BackAt(t), Asks(t)
    PROVE  BackAt(t)'
  <1>0. row[t] \in Rows /\ UNCHANGED <<task, sessions, stopping, stopper, boot>>
    <2>1. UNCHANGED <<task, sessions, stopping, stopper, boot>>
      BY DEF Asks, RequestStart, ExplicitStart, BackoffElapses, DrainCancels,
         DrainFindsRunning, DrainPasses, DrainClaims
    <2>2. QED
      BY <2>1 DEF Shaped
  <1>1. MayAsk(t) => ~Live(t) /\ ~Stopping(t)
    BY DEF MayAsk
  <1>2. ASSUME UNCHANGED attempt, MayStart(t)' <=> MayStart(t), IsTerminal(row'[t]) => IsTerminal(row[t]),
               task[t].status = "agent_working" => Answered(t)'
        PROVE  BackAt(t)'
    <2>1. /\ Live(t)' <=> Live(t)
          /\ Stopping(t)' <=> Stopping(t)
          /\ Resuming(t)' <=> Resuming(t)
          /\ Unfinished(t)' <=> Unfinished(t)
      BY <1>0, <1>2 DEF Live, Stopping, Resuming, Unfinished, StartPending
    <2>2. task[t].status = "agent_working" => Tended(t)'
      BY <1>0, <1>2, <2>1 DEF BackAt, Tended
    <2>3. QED
      BY <1>0, <1>2, <2>1, <2>2 DEF BackAt
  <1>3. CASE RequestStart(t)
    <2>1. /\ MayAsk(t) /\ attempt[t].phase = "none" /\ task[t].status # "completed"
          /\ \/ UNCHANGED attempt /\ row'[t] = Enqueued(row[t])
             \/ attempt'[t] = [phase |-> "claimed", generation |-> Claimed(Enqueued(row[t])).generation,
                               open |-> TRUE, kind |-> "request"]
      BY <1>3, Written DEF RequestStart, StartPending
    <2>2. attempt[t] = NoAttempt
      BY <2>1 DEF HeldAt, StartShape
    <2>3. CASE UNCHANGED attempt /\ row'[t] = Enqueued(row[t])
      <3>1. IsActive(row'[t])
        <4>1. Enqueued(row[t]) \in Rows
          BY <1>0, RowTypes
        <4>2. IsActive(Enqueued(row[t]))
          BY <1>0, <4>1, RowFates
        <4>3. QED
          BY <2>3, <4>2
      <3>2. attempt'[t].phase = "none" /\ attempt'[t].kind # "resume"
        BY <2>2, <2>3 DEF NoAttempt
      <3>3. QED
        BY <1>0, <1>1, <2>1, <3>1, <3>2, BackWhileAsked
    <2>4. CASE attempt'[t] = [phase |-> "claimed", generation |-> Claimed(Enqueued(row[t])).generation,
                              open |-> TRUE, kind |-> "request"]
      <3>1. attempt'[t].phase = "claimed" /\ attempt'[t].kind # "resume"
        BY <2>4
      <3>2. QED
        BY <1>0, <1>1, <2>1, <3>1, BackWhileAsked
    <2>5. QED
      BY <2>1, <2>3, <2>4
  <1>4. CASE ExplicitStart(t)
    <2>1. /\ ~Live(t) /\ ~Stopping(t) /\ IsTerminal(row[t]) /\ UNCHANGED attempt
          /\ row'[t] = Enqueued(row[t])
      BY <1>1, <1>4, Written DEF ExplicitStart
    <2>2. row[t].state # "starting" /\ ~MayStart(t)
      BY <1>0, <2>1, RowFates DEF MayStart
    <2>3. IsDispatchable(row'[t]) /\ ~IsTerminal(row'[t]) /\ IsActive(row'[t])
      BY <1>0, <2>1, RowFates, RowTypes
    <2>4. row'[t].state # "starting" /\ ~MayStart(t)'
      BY <2>3 DEF IsDispatchable, DispatchableStates, MayStart
    <2>5. QED
      BY <1>2, <2>1, <2>2, <2>3, <2>4 DEF Answered
  <1>5. CASE BackoffElapses(t)
    <2>1. row[t].state = "retrying" /\ row'[t] = BackoffOver(row[t]) /\ UNCHANGED attempt
      BY <1>5, Written DEF BackoffElapses
    <2>2. row'[t].state = "retrying"
      BY <1>0, <2>1, RowFates
    <2>3. ~MayStart(t) /\ ~MayStart(t)' /\ ~IsTerminal(row'[t]) /\ IsActive(row'[t])
      BY <2>1, <2>2 DEF MayStart, IsTerminal, TerminalStates, IsActive, ActiveStates, DispatchableStates
    <2>4. QED
      BY <1>2, <2>1, <2>3 DEF Answered
  <1>6. CASE DrainCancels(t)
    <2>1. Excluded(t) /\ UNCHANGED attempt
      BY <1>6 DEF DrainCancels
    <2>2. task[t].status = "completed"
      BY <2>1 DEF Excluded, BackAt
    <2>3. ~StartPending(t)
      BY <2>2 DEF BackAt, Unfinished
    <2>4. /\ ~Resuming(t)' /\ (Unfinished(t)' <=> Unfinished(t)) /\ (Live(t)' <=> Live(t))
          /\ attempt[t].phase \notin Prompting
      BY <1>0, <2>1, <2>3 DEF StartPending, Resuming, Unfinished, Live, Prompting
    <2>5. QED
      BY <1>0, <2>1, <2>2, <2>4 DEF BackAt
  <1>7. CASE DrainFindsRunning(t)
    <2>1. /\ row'[t] \in {Recovered(row[t]), row[t]} /\ UNCHANGED attempt /\ attempt[t].phase = "none"
          /\ HasActive(t)
      BY <1>7, Written DEF DrainFindsRunning, StartPending
    <2>2. Answered(t)'
      BY <1>0, <2>1 DEF HasActive, Working, Answered, Live, Stopping
    <2>3. /\ ~Resuming(t)' /\ (Unfinished(t)' <=> Unfinished(t)) /\ (Live(t)' <=> Live(t))
          /\ attempt[t].phase \notin Prompting
      BY <1>0, <2>1 DEF StartPending, Resuming, Unfinished, Live, Prompting
    <2>4. task[t].status = "agent_working" => Tended(t)'
      BY <1>0, <2>1, <2>2, <2>3 DEF BackAt, Tended
    <2>5. QED
      BY <1>0, <2>1, <2>3, <2>4 DEF BackAt
  <1>8. CASE DrainPasses(t)
    BY <1>0, <1>8, BackAsBefore DEF DrainPasses
  <1>9. CASE DrainClaims(t)
    <2>1. /\ ~StartPending(t) /\ ~HasActive(t) /\ IsDispatchable(row[t]) /\ ~Excluded(t)
          /\ attempt'[t] = [phase |-> "claimed", generation |-> Claimed(row[t]).generation,
                            open |-> TRUE, kind |-> "drain"]
      BY <1>9, Written DEF DrainClaims, Startable, MayClaim
    <2>2. ~Live(t) /\ ~Stopping(t) /\ task[t].status # "completed"
      BY <2>1 DEF SingleAt, HasActive, Excluded
    <2>3. attempt'[t].phase = "claimed" /\ attempt'[t].kind # "resume"
      BY <2>1
    <2>4. QED
      BY <1>0, <2>2, <2>3, BackWhileAsked
  <1>10. QED
    BY <1>3, <1>4, <1>5, <1>6, <1>7, <1>8, <1>9 DEF Asks



\* A task left with no session and no start needs somebody else to answer for it.
LEMMA BackWithNothing ==
    ASSUME NEW t \in Tasks, ~task'[t].excluded, sessions'[t] = <<>>, attempt'[t].phase = "none",
           stopping'[t].by # "fence", Unfinished(t)' => task'[t].status # "completed",
           task'[t].status = "agent_working" => task'[t].bound /\ Answered(t)'
    PROVE  BackAt(t)'
  <1>1. ~Live(t)' /\ ~Resuming(t)' /\ attempt'[t].phase \notin Prompting
    BY DEF Live, Resuming, Prompting
  <1>2. task'[t].status = "agent_working" => Tended(t)'
    BY <1>1 DEF Tended
  <1>3. QED
    BY <1>1, <1>2 DEF BackAt

\* What a rejection leaves: a task that is not started any more, or a claim that was
\* not in force before.
LEMMA RejectedTends ==
    ASSUME Shaped, NEW t \in Tasks, HeldAt(t), BackAt(t), boot.phase # "claims", StartPending(t),
           Rejected(t)
    PROVE  \/ task'[t].status = "not_started" /\ ~task'[t].excluded /\ row'[t].state # "starting"
           \/ ~MayStart(t) /\ UNCHANGED <<row, task>>
  <1> DEFINE inForce == /\ Reserved(t) /\ row[t].generation = attempt[t].generation
                        /\ row[t].state = "starting"
  <1>1. row[t] \in Rows /\ task \in [Tasks -> TaskStates]
    BY DEF Shaped
  <1>2. ~Excluded(t) /\ ~task[t].excluded
    BY DEF BackAt, Excluded, Unfinished
  <1>3. CASE inForce
    <2>1. row'[t] = FailedOrRetrying(row[t]) /\ SetTask(t, "not_started", FALSE)
      BY <1>2, <1>3, Written DEF Rejected
    <2>2. ~IsClaimed(row'[t])
      BY <1>1, <2>1, RowFates
    <2>3. row'[t].state # "starting"
      BY <2>2 DEF IsClaimed, ClaimedStates
    <2>4. QED
      BY <1>1, <1>2, <2>1, <2>3, TaskWritten
  <1>4. CASE ~inForce
    <2>1. MayStart(t) => IsClaimed(row[t])
      BY <1>1, RowFates DEF MayStart
    <2>2. MayStart(t) => Reserved(t)
      BY <2>1 DEF HeldAt, ClaimHeld
    <2>3. QED
      BY <1>4, <2>2 DEF Rejected, MayStart
  <1>5. QED
    BY <1>3, <1>4

\* A start from its claim to its end.
LEMMA StartBack ==
    ASSUME Shaped, NEW t \in Tasks, HeldAt(t), SingleAt(t), BackAt(t), StartStep(t)
    PROVE  BackAt(t)'
  <1>0. /\ row[t] \in Rows /\ attempt[t] \in Attempts /\ task \in [Tasks -> TaskStates]
        /\ sessions \in [Tasks -> Seq(Sessions)] /\ stopping \in [Tasks -> Teardowns]
        /\ row \in [Tasks -> Rows] /\ UNCHANGED <<stopper, boot>>
        /\ boot.phase # "claims" /\ StartPending(t)
    <2>1. UNCHANGED <<stopper, boot>>
      BY DEF StartStep, MarkStarting, BeginCreate, StartFails, CreateSucceeds, CheckBeforePrompt,
             PromptAccepted, PromptFails, CloseSettles, FenceEnds, CreateTimesOut, OrphanSettles,
             StartTimesOut
    <2>2. attempt[t].phase # "none"
      BY DEF StartStep, MarkStarting, BeginCreate, StartFails, CreateSucceeds, CheckBeforePrompt,
             PromptAccepted, PromptFails, CloseSettles, FenceEnds, CreateTimesOut, OrphanSettles,
             StartTimesOut, At
    <2>3. QED
      BY <2>1, <2>2 DEF Shaped, HeldAt, BlankAt, NoAttempt, StartPending
  <1>1. attempt[t].phase \in Opening => sessions[t] = <<>> /\ stopping[t].by = "none"
    BY DEF SingleAt, Live, Stopping
  <1>2. attempt[t].phase \in Closing => sessions[t] = <<>>
    BY DEF SingleAt, Live
  <1>3. NoAttempt.phase = "none" /\ ~NoAttempt.open
    BY DEF NoAttempt
  <1>4. ~task[t].excluded /\ task[t].status # "completed" /\ ~Excluded(t)
    BY <1>0 DEF BackAt, Unfinished, Excluded
  <1>5. MayStart(t) => Reserved(t) /\ attempt[t].open
    <2>1. MayStart(t) => IsClaimed(row[t])
      BY <1>0, RowFates DEF MayStart
    <2>2. QED
      BY <1>0, <2>1 DEF HeldAt, ClaimHeld, Reserved
  \* The start has ended, nothing of it is left.
  <1>6. ASSUME sessions'[t] = <<>>, attempt'[t] = NoAttempt, stopping'[t].by # "fence",
               ~task'[t].excluded, task'[t].status # "completed",
               task'[t].status = "agent_working" =>
                  task'[t].bound /\ (Stopping(t)' \/ stopper[t] = "waiting")
        PROVE  BackAt(t)'
    BY <1>0, <1>3, <1>6, BackWithNothing DEF Answered
  <1>7. ASSUME Rejected(t), sessions[t] = <<>>, UNCHANGED <<sessions, stopping>>,
               attempt'[t] = NoAttempt, stopping[t].by # "fence",
               task[t].status = "agent_working" /\ ~MayStart(t) => Stopping(t) \/ stopper[t] = "waiting"
        PROVE  BackAt(t)'
    <2>1. CASE task'[t].status = "not_started" /\ ~task'[t].excluded /\ row'[t].state # "starting"
      BY <1>6, <1>7, <2>1
    <2>2. CASE ~MayStart(t) /\ UNCHANGED <<row, task>>
      <3>1. task[t].status = "agent_working" => task[t].bound
        BY DEF BackAt, Tended
      <3>2. Stopping(t) => Stopping(t)'
        BY <1>7 DEF Stopping
      <3>3. QED
        BY <1>4, <1>6, <1>7, <2>2, <3>1, <3>2
    <2>3. QED
      BY <1>0, <1>7, <2>1, <2>2, RejectedTends
  <1>8. CASE MarkStarting(t)
    <2>1. /\ attempt[t].phase = "claimed" /\ row[t].state = "claimed" /\ row'[t] = MarkedStarting(row[t])
          /\ attempt'[t].phase = "preparing" /\ attempt'[t].generation = attempt[t].generation
          /\ UNCHANGED <<sessions, stopping, task>> /\ row[t].generation = attempt[t].generation
      BY <1>8, Written DEF MarkStarting, MayMarkStarting
    <2>2. sessions[t] = <<>> /\ stopping[t].by = "none"
      BY <1>1, <2>1 DEF Opening
    <2>3. row'[t].state = "starting" /\ row'[t].generation = row[t].generation
      BY <1>0, <2>1, RowFates
    <2>4. MayStart(t)' /\ ~Live(t)' /\ ~Resuming(t)' /\ StartPending(t)'
      BY <1>4, <2>1, <2>2, <2>3 DEF MayStart, Excluded, Live, Resuming, StartPending
    <2>5. task[t].status = "agent_working" => Tended(t)'
      BY <2>1, <2>4 DEF BackAt, Tended, Answered, Prompting
    <2>6. QED
      BY <1>4, <2>1, <2>2, <2>4, <2>5 DEF BackAt
  <1>9. CASE BeginCreate(t)
    <2>1. /\ attempt[t].phase = "preparing" /\ UNCHANGED <<sessions, stopping>>
          /\ \/ /\ MayStart(t) /\ attempt' = [attempt EXCEPT ![t].phase = "creating"]
                /\ UNCHANGED <<row, task>>
             \/ Rejected(t) /\ attempt'[t] = NoAttempt
      BY <1>9, Written DEF BeginCreate, At, Reject
    <2>2. sessions[t] = <<>> /\ stopping[t].by = "none"
      BY <1>1, <2>1 DEF Opening
    <2>3. CASE MayStart(t) /\ attempt' = [attempt EXCEPT ![t].phase = "creating"] /\ UNCHANGED <<row, task>>
      <3>1. attempt'[t].phase = "creating" /\ attempt'[t].generation = attempt[t].generation
        BY <2>3, Written
      <3>2. MayStart(t)' /\ ~Live(t)' /\ ~Resuming(t)' /\ StartPending(t)'
        BY <2>1, <2>2, <2>3, <3>1 DEF MayStart, Excluded, Live, Resuming, StartPending
      <3>3. task[t].status = "agent_working" => Tended(t)'
        BY <2>3, <3>1, <3>2 DEF BackAt, Tended, Answered, Prompting
      <3>4. QED
        BY <1>4, <2>1, <2>2, <2>3, <3>2, <3>3 DEF BackAt
    <2>4. CASE Rejected(t) /\ attempt'[t] = NoAttempt
      BY <1>7, <2>1, <2>2, <2>4 DEF BackAt, Tended
    <2>5. QED
      BY <2>1, <2>3, <2>4
  <1>10. CASE StartFails(t)
    <2>1. attempt[t].phase \in {"preparing", "creating"} /\ UNCHANGED <<sessions, stopping>>
          /\ Rejected(t) /\ attempt'[t] = NoAttempt
      BY <1>10, Written DEF StartFails, At, Reject
    <2>2. sessions[t] = <<>> /\ stopping[t].by = "none"
      BY <1>1, <2>1 DEF Opening
    <2>3. QED
      BY <1>7, <2>1, <2>2 DEF BackAt, Tended
  <1>11. CASE CreateSucceeds(t)
    <2>1. attempt[t].phase = "creating" /\ sessions[t] = <<>> /\ stopping[t].by = "none" /\ UNCHANGED row
      BY <1>1, <1>11 DEF CreateSucceeds, At, Opening
    <2>2. CASE MayStart(t)
      <3>1. /\ UNCHANGED stopping /\ SetTask(t, "agent_working", TRUE)
            /\ attempt' = [attempt EXCEPT ![t].phase = "binding"]
            /\ sessions'[t] = Append(<<>>, [status |-> "working", by |-> attempt[t].generation,
                                            reviewing |-> FALSE])
        BY <1>0, <1>11, <2>1, <2>2 DEF CreateSucceeds, RegisteredIn
      <3>2. attempt'[t].phase = "binding" /\ attempt'[t].generation = attempt[t].generation
        BY <3>1, Written
      <3>3. task'[t].status = "agent_working" /\ ~task'[t].excluded /\ task'[t].bound
        BY <1>0, <1>4, <3>1, TaskWritten
      <3>4. sessions'[t][1].status = "working" /\ Live(t)'
        BY <3>1 DEF Live
      <3>5. ~Excluded(t)' /\ MayStart(t)' /\ ~Resuming(t)'
        BY <2>1, <2>2, <3>2, <3>3 DEF MayStart, Excluded, Resuming
      <3>6. Tended(t)'
        BY <3>2, <3>3, <3>4, <3>5 DEF Tended, Answered
      <3>7. QED
        BY <2>1, <3>1, <3>3, <3>5, <3>6 DEF BackAt
    <2>3. CASE ~MayStart(t)
      <3>1. /\ attempt'[t].phase = "fencing" /\ sessions'[t] = <<>> /\ UNCHANGED task
            /\ stopping' = [stopping EXCEPT ![t] =
                              [by |-> "fence", held |-> Last(RegisteredIn(<<>>, t))]]
        BY <1>11, <2>1, <2>3, Written DEF CreateSucceeds, Stopping
      <3>2. stopping'[t].by = "fence" /\ ~Live(t)' /\ ~Resuming(t)' /\ Stopping(t)'
        BY <1>0, <3>1 DEF Live, Resuming, Stopping
      <3>3. task[t].status = "agent_working" => Tended(t)'
        BY <1>0, <2>1, <2>3, <3>1, <3>2 DEF BackAt, Tended, Answered, Prompting
      <3>4. QED
        BY <1>4, <3>1, <3>2, <3>3 DEF BackAt
    <2>4. QED
      BY <2>2, <2>3
  <1>12. ASSUME attempt[t].phase \in Prompting, NEW p \in {"fencing", "unacked"}, FenceOwn(t, p),
                UNCHANGED <<row, task>>, ~MayStart(t)
         PROVE  BackAt(t)'
    <2>1. stopping[t].by # "fence"
      BY <1>12 DEF BackAt, Prompting
    <2>2. /\ sessions'[t] = <<>> /\ attempt'[t].phase = p
          /\ ~Live(t) => stopping'[t] = stopping[t]
      <3>1. attempt'[t].phase = p
        BY <1>12, Fencing, Written
      <3>2. QED
        BY <1>12, <3>1, TakenAway
    <2>3. task[t].status = "agent_working" =>
             ~Live(t) /\ (Stopping(t) \/ stopper[t] = "waiting") /\ task[t].bound
      BY <1>12 DEF BackAt, Tended
    <2>4. task[t].status = "agent_working" => Tended(t)'
      <3>1. ~Live(t)' /\ StartPending(t)' /\ attempt'[t].phase \in {"fencing", "unacked"}
        BY <1>12, <2>2 DEF Live, StartPending
      <3>2. task[t].status = "agent_working" =>
               (stopping'[t].by \in {"none", "fence"} => stopper'[t] = "waiting")
        BY <1>0, <2>1, <2>2, <2>3 DEF Stopping
      <3>3. QED
        BY <1>12, <2>3, <3>1, <3>2 DEF Tended, Answered, Prompting
    <2>5. ~Live(t)' /\ ~Resuming(t)'
      BY <1>12, <2>2 DEF Live, Resuming
    <2>6. QED
      BY <1>4, <1>12, <2>2, <2>4, <2>5 DEF BackAt
  <1>13. CASE CheckBeforePrompt(t)
    <2>1. /\ attempt[t].phase = "binding"
          /\ \/ /\ MayStart(t) /\ attempt' = [attempt EXCEPT ![t].phase = "prompting"]
                /\ UNCHANGED <<row, task, sessions, stopping>>
             \/ /\ OwnIndex(t) = {} /\ Rejected(t) /\ attempt'[t] = NoAttempt
                /\ UNCHANGED <<sessions, stopping>>
             \/ ~MayStart(t) /\ FenceOwn(t, "fencing") /\ UNCHANGED <<row, task>>
      BY <1>13, Written DEF CheckBeforePrompt, At, Reject
    <2>2. attempt[t].phase \in Prompting /\ stopping[t].by # "fence"
      BY <2>1 DEF Prompting, BackAt
    <2>3. CASE MayStart(t) /\ attempt' = [attempt EXCEPT ![t].phase = "prompting"]
               /\ UNCHANGED <<row, task, sessions, stopping>>
      <3>1. attempt'[t].phase = "prompting" /\ attempt'[t].generation = attempt[t].generation
            /\ attempt'[t].phase \in Prompting
        BY <2>3, Written DEF Prompting
      <3>2. MayStart(t)' /\ (Live(t)' <=> Live(t)) /\ ~Resuming(t)' /\ (Stopping(t)' <=> Stopping(t))
            /\ StartPending(t)'
        BY <2>3, <3>1 DEF MayStart, Live, Excluded, Resuming, Stopping, StartPending
      <3>3. task[t].status = "agent_working" => Tended(t)'
        BY <1>0, <2>2, <2>3, <3>1, <3>2 DEF BackAt, Tended, Answered
      <3>4. Live(t) => task[t].bound
        BY <2>3 DEF BackAt
      <3>5. QED
        BY <1>4, <2>2, <2>3, <3>2, <3>3, <3>4 DEF BackAt
    <2>4. CASE OwnIndex(t) = {} /\ Rejected(t) /\ attempt'[t] = NoAttempt
               /\ UNCHANGED <<sessions, stopping>>
      <3>1. sessions[t] = <<>> /\ ~Live(t)
        BY <2>2, <2>4, TakenAway DEF Live
      <3>2. QED
        BY <1>7, <2>2, <2>4, <3>1 DEF BackAt, Tended
    <2>5. CASE ~MayStart(t) /\ FenceOwn(t, "fencing") /\ UNCHANGED <<row, task>>
      BY <1>12, <2>2, <2>5
    <2>6. QED
      BY <2>1, <2>3, <2>4, <2>5
  <1>14. CASE PromptAccepted(t)
    <2>1. /\ attempt[t].phase = "prompting" /\ UNCHANGED task
          /\ \/ /\ Owns(row[t], attempt[t].generation)
                /\ attempt'[t] = NoAttempt /\ UNCHANGED <<sessions, stopping>>
             \/ ~Owns(row[t], attempt[t].generation) /\ FenceOwn(t, "unacked") /\ UNCHANGED row
             \/ ~attempt[t].open /\ DropOwn(t) /\ attempt'[t] = NoAttempt /\ UNCHANGED <<row, stopping>>
      BY <1>14, Written DEF PromptAccepted, At
    <2>2. attempt[t].phase \in Prompting /\ stopping[t].by # "fence"
      BY <2>1 DEF Prompting, BackAt
    <2>3. CASE Owns(row[t], attempt[t].generation) /\ attempt'[t] = NoAttempt
               /\ UNCHANGED <<sessions, stopping>>
      <3>1. row[t].state = "starting"
        BY <1>0, <2>1, <2>3 DEF Owns, HeldAt, ClaimHeld, IsClaimed, ClaimedStates
      <3>2. MayStart(t)
        BY <1>4, <2>3, <3>1 DEF MayStart, Owns
      <3>3. Live(t) => task[t].bound
        BY <3>2 DEF BackAt
      <3>4. /\ ~Resuming(t)' /\ (Live(t)' <=> Live(t)) /\ attempt'[t].phase = "none"
            /\ Stopping(t)' <=> Stopping(t)
        BY <1>3, <2>3 DEF Resuming, Live, Stopping
      <3>5. task[t].status = "agent_working" => Tended(t)'
        <4>1. task[t].status = "agent_working" => Answered(t)'
          BY <1>0, <2>2, <3>4 DEF BackAt, Tended, Answered
        <4>2. QED
          BY <2>1, <2>3, <3>4, <4>1 DEF BackAt, Tended, Prompting
      <3>6. QED
        BY <1>4, <2>1, <2>2, <2>3, <3>3, <3>4, <3>5 DEF BackAt
    <2>4. CASE ~Owns(row[t], attempt[t].generation) /\ FenceOwn(t, "unacked") /\ UNCHANGED row
      <3>1. ~MayStart(t)
        BY <1>0, <2>4, RowFates DEF MayStart, Owns
      <3>2. QED
        BY <1>12, <2>1, <2>2, <2>4, <3>1
    <2>5. CASE ~attempt[t].open /\ DropOwn(t) /\ attempt'[t] = NoAttempt /\ UNCHANGED <<row, stopping>>
      <3>1. sessions'[t] = <<>>
        BY <2>2, <2>5, TakenAway
      <3>2. task[t].status = "agent_working" =>
               task[t].bound /\ (Stopping(t) \/ stopper[t] = "waiting")
        BY <1>5, <2>2, <2>5 DEF BackAt, Tended
      <3>3. Stopping(t) => Stopping(t)'
        BY <2>5 DEF Stopping
      <3>4. QED
        BY <1>4, <1>6, <2>1, <2>2, <2>5, <3>1, <3>2, <3>3
    <2>6. QED
      BY <2>1, <2>3, <2>4, <2>5
  <1>15. CASE PromptFails(t)
    <2>1. /\ attempt[t].phase = "prompting" /\ DropOwn(t)
          /\ attempt'[t].phase = "closing" /\ UNCHANGED <<task, stopping>>
      BY <1>15, Written DEF PromptFails, At
    <2>2. attempt[t].phase \in Prompting /\ stopping[t].by # "fence"
      BY <2>1 DEF Prompting, BackAt
    <2>3. sessions'[t] = <<>>
      BY <2>1, <2>2, TakenAway
    <2>4. ~Live(t)' /\ ~Resuming(t)' /\ StartPending(t)'
      BY <2>1, <2>3 DEF Live, Resuming, StartPending
    <2>5. task[t].status = "agent_working" => Tended(t)'
      BY <2>1, <2>4 DEF BackAt, Tended, Answered, Prompting
    <2>6. QED
      BY <1>4, <2>1, <2>2, <2>4, <2>5 DEF BackAt
  <1>16. CASE CloseSettles(t)
    <2>1. /\ attempt[t].phase = "closing" /\ ~Stopping(t) /\ UNCHANGED <<row, sessions, stopping>>
          /\ attempt'[t] = NoAttempt
          /\ \/ SetTask(t, "not_started", FALSE)
             \/ UNCHANGED task /\ ~task[t].bound
      BY <1>4, <1>16, Written DEF CloseSettles, At
    <2>2. sessions'[t] = <<>> /\ stopping'[t].by = "none"
      BY <1>2, <2>1 DEF Closing, Stopping
    <2>3. CASE SetTask(t, "not_started", FALSE)
      <3>1. task'[t].status = "not_started" /\ ~task'[t].excluded
        BY <1>0, <1>4, <2>3, TaskWritten
      <3>2. QED
        BY <1>6, <2>1, <2>2, <3>1
    <2>4. CASE UNCHANGED task /\ ~task[t].bound
      <3>1. task[t].status # "agent_working"
        BY <2>4 DEF BackAt, Tended
      <3>2. QED
        BY <1>4, <1>6, <2>1, <2>2, <2>4, <3>1
    <2>5. QED
      BY <2>1, <2>3, <2>4
  <1>17. CASE FenceEnds(t)
    <2>1. attempt[t].phase \in {"fencing", "unacked"} /\ ~Stopping(t) /\ UNCHANGED <<sessions, stopping>>
          /\ Rejected(t) /\ attempt'[t] = NoAttempt
      BY <1>17, Written DEF FenceEnds, At, Reject
    <2>2. sessions[t] = <<>> /\ stopping[t].by = "none"
      BY <1>2, <2>1 DEF Closing, Stopping
    <2>3. QED
      BY <1>7, <2>1, <2>2 DEF BackAt, Tended
  <1>18. CASE CreateTimesOut(t)
    <2>1. /\ attempt[t].phase = "creating" /\ Rejected(t) /\ UNCHANGED <<sessions, stopping>>
          /\ attempt'[t] = [attempt[t] EXCEPT !.phase = "orphan", !.open = FALSE]
      BY <1>18, Written DEF CreateTimesOut, At, Reject
    <2>2. attempt'[t].phase = "orphan"
      BY <1>0, <2>1 DEF Attempts
    <2>3. sessions[t] = <<>> /\ stopping[t].by = "none"
      BY <1>1, <2>1 DEF Opening
    <2>4. ~Live(t)' /\ ~Resuming(t)' /\ StartPending(t)'
      BY <2>1, <2>2, <2>3 DEF Live, Resuming, StartPending
    <2>5. CASE task'[t].status = "not_started" /\ ~task'[t].excluded
      BY <2>1, <2>3, <2>4, <2>5 DEF BackAt
    <2>6. CASE ~MayStart(t) /\ UNCHANGED <<row, task>>
      <3>1. task[t].status = "agent_working" => Tended(t)'
        BY <1>0, <2>1, <2>2, <2>4, <2>6 DEF BackAt, Tended, Answered, Prompting
      <3>2. QED
        BY <1>4, <2>1, <2>3, <2>4, <2>6, <3>1 DEF BackAt
    <2>7. QED
      BY <1>0, <2>1, <2>5, <2>6, RejectedTends
  <1>19. CASE OrphanSettles(t)
    <2>1. attempt[t].phase = "orphan" /\ UNCHANGED <<row, task, sessions, stopping>> /\ attempt'[t] = NoAttempt
      BY <1>19, Written DEF OrphanSettles, At
    <2>2. sessions'[t] = <<>> /\ stopping'[t].by = "none"
      BY <1>1, <2>1 DEF Opening
    <2>3. task[t].status = "agent_working" => task[t].bound /\ stopper[t] = "waiting"
      BY <2>1 DEF BackAt, Tended
    <2>4. QED
      BY <1>4, <1>6, <2>1, <2>2, <2>3
  <1>20. CASE StartTimesOut(t)
    <2>1. /\ attempt[t].phase \in {"preparing", "creating", "binding", "prompting", "fencing", "closing"}
          /\ Rejected(t) /\ UNCHANGED <<sessions, stopping>>
          /\ attempt'[t] = [attempt[t] EXCEPT !.open = FALSE]
      BY <1>20, Written DEF StartTimesOut, At, Reject
    <2>2. attempt'[t].phase = attempt[t].phase /\ attempt'[t].generation = attempt[t].generation
      BY <1>0, <2>1 DEF Attempts
    <2>3. /\ Live(t)' <=> Live(t)
          /\ ~Resuming(t)' /\ StartPending(t)' /\ (Stopping(t)' <=> Stopping(t))
          /\ Live(t) => attempt[t].phase \in Prompting
      BY <2>1, <2>2 DEF Live, Resuming, StartPending, Stopping, SingleAt, Opening, Closing, Prompting
    <2>4. CASE task'[t].status = "not_started" /\ ~task'[t].excluded /\ row'[t].state # "starting"
      <3>1. ~MayStart(t)'
        BY <2>4 DEF MayStart
      <3>2. QED
        BY <2>1, <2>2, <2>3, <2>4, <3>1 DEF BackAt
    <2>5. CASE ~MayStart(t) /\ UNCHANGED <<row, task>>
      <3>1. ~MayStart(t)'
        BY <2>2, <2>5 DEF MayStart, Excluded
      <3>2. task[t].status = "agent_working" => Tended(t)'
        BY <1>0, <2>1, <2>2, <2>3, <2>5, <3>1 DEF BackAt, Tended, Answered
      <3>3. QED
        BY <1>4, <2>1, <2>2, <2>3, <2>5, <3>1, <3>2 DEF BackAt
    <2>6. QED
      BY <1>0, <2>1, <2>4, <2>5, RejectedTends
  <1>21. QED
    BY <1>8, <1>9, <1>10, <1>11, <1>13, <1>14, <1>15, <1>16, <1>17, <1>18, <1>19, <1>20 DEF StartStep



\* Stops, teardowns, turns, messages, and what users and sweeps do to a task meanwhile.
LEMMA SessionBack ==
    ASSUME Shaped, Never("refuse")', Never("label")', NEW t \in Tasks, HeldAt(t), SingleAt(t),
           BackAt(t), SessionStep(t)
    PROVE  BackAt(t)'
  <1>0. /\ row[t] \in Rows /\ attempt[t] \in Attempts /\ task \in [Tasks -> TaskStates]
        /\ task[t] \in TaskStates /\ sessions \in [Tasks -> Seq(Sessions)]
        /\ stopping \in [Tasks -> Teardowns] /\ stopper \in [Tasks -> Stoppers]
        /\ UNCHANGED <<attempt, boot>>
    <2>1. UNCHANGED <<attempt, boot>>
      BY DEF SessionStep, StopByTaskId, StopLooksAgain, StopSession, TeardownSettles,
             TeardownRefused, TurnEnds, ReviewLands, Reap, MessageWakes, SetLabel, Complete, Repair
    <2>2. QED
      BY <2>1 DEF Shaped
  <1>1. Len(sessions[t]) <= 1 /\ ~task[t].excluded /\ (Live(t) => ~Stopping(t))
    BY DEF SingleAt, BackAt
  <1>2. \A i \in DOMAIN sessions[t] : Live(t) /\ i = 1
    BY <1>1, OneSession
  <1>3. /\ StartPending(t)' <=> StartPending(t)
        /\ Unfinished(t)' <=> Unfinished(t)
        /\ Resuming(t)' <=> Resuming(t)
    BY <1>0 DEF StartPending, Unfinished, Resuming
  <1>4. Live(t) => attempt[t].phase \in Prompting \cup {"none"} /\ ~Resuming(t)
    BY <1>0 DEF SingleAt, Attempts, Phases, Opening, Closing, Prompting, Resuming
  \* The task's one session is on its way out.
  <1>5. ASSUME Live(t), sessions'[t] = <<>>, UNCHANGED task, stopping'[t].by \in {"user", "ui"}
        PROVE  BackAt(t)'
    <2>1. ~Live(t)' /\ Stopping(t)' /\ ~Resuming(t)'
      BY <1>3, <1>4, <1>5 DEF Live, Stopping
    <2>2. task[t].status = "agent_working" => Tended(t)'
      BY <1>0, <1>4, <1>5, <2>1 DEF BackAt, Tended, Answered, Prompting
    <2>3. QED
      BY <1>1, <1>3, <1>5, <2>1, <2>2 DEF BackAt
  <1>6. ASSUME Live(t), BeginTeardown(t, 1, "user"), UNCHANGED task
        PROVE  BackAt(t)'
    <2>1. 1 \in DOMAIN sessions[t]
      BY <1>1, <1>6, OneSession
    <2>2. sessions'[t] = <<>> /\ stopping'[t].by = "user"
      BY <1>6, <2>1, TakenAway
    <2>3. QED
      BY <1>5, <1>6, <2>2
  <1>7. CASE StopByTaskId(t)
    <2>1. UNCHANGED task /\ stopper[t] = "none"
      BY <1>7 DEF StopByTaskId
    <2>2. CASE Stopping(t) /\ stopper' = [stopper EXCEPT ![t] = "joining"]
               /\ UNCHANGED <<row, sessions, stopping>>
      <3>1. /\ Live(t)' <=> Live(t)
            /\ MayStart(t)' <=> MayStart(t)
            /\ Stopping(t)'
        BY <1>0, <2>1, <2>2 DEF Live, MayStart, Excluded, Stopping
      <3>2. task[t].status = "agent_working" => Tended(t)'
        BY <1>0, <2>1, <2>2, <3>1 DEF BackAt, Tended, Answered
      <3>3. QED
        BY <1>0, <1>1, <1>3, <2>1, <2>2, <3>1, <3>2 DEF BackAt
    <2>3. CASE Live(t) /\ BeginTeardown(t, 1, "user")
      BY <1>6, <2>1, <2>3
    <2>4. CASE /\ ~Stopping(t) /\ ~Live(t) /\ stopper' = [stopper EXCEPT ![t] = "waiting"]
               /\ UNCHANGED <<sessions, stopping>>
      <3>1. stopper'[t] = "waiting" /\ ~Live(t)' /\ stopping'[t].by = "none"
        BY <1>0, <2>4 DEF Stopping, Live
      <3>2. task[t].status = "agent_working" => Tended(t)'
        BY <2>1, <3>1 DEF BackAt, Tended, Answered
      <3>3. QED
        BY <1>1, <1>3, <2>1, <3>1, <3>2 DEF BackAt
    <2>5. QED
      BY <1>7, <2>2, <2>3, <2>4 DEF StopByTaskId
  <1>8. CASE StopLooksAgain(t)
    <2>1. attempt[t].phase \in {"none", "unacked"} /\ UNCHANGED <<row, attempt, boot>>
      BY <1>8 DEF StopLooksAgain
    <2>2. CASE Live(t) /\ BeginTeardown(t, 1, "user") /\ UNCHANGED task
      BY <1>6, <2>2
    <2>3. CASE /\ ~Live(t) /\ UNCHANGED <<sessions, stopping>>
               /\ IF task[t].status = "agent_working" THEN SetTask(t, "not_started", FALSE)
                  ELSE UNCHANGED task
      <3>1. ~task'[t].excluded /\ task'[t].status # "agent_working"
            /\ (task'[t].status = "completed" => task[t].status = "completed")
        BY <1>0, <1>1, <2>3, TaskWritten
      <3>2. /\ ~Live(t)' /\ ~Resuming(t)' /\ (Unfinished(t)' => Unfinished(t))
            /\ stopping'[t].by = "fence" => attempt'[t].phase \in {"fencing", "unacked"}
        BY <2>1, <2>3 DEF Live, Resuming, StartPending, Unfinished, BackAt
      <3>3. QED
        BY <3>1, <3>2 DEF BackAt
    <2>4. QED
      BY <1>1, <1>8, <2>2, <2>3 DEF StopLooksAgain
  <1>9. CASE StopSession(t)
    <2>1. PICK i \in DOMAIN sessions[t] : BeginTeardown(t, i, "ui")
      BY <1>9 DEF StopSession
    <2>2. sessions'[t] = <<>> /\ stopping'[t].by = "ui" /\ Live(t)
      BY <2>1, TakenAway
    <2>3. QED
      BY <1>5, <1>9, <2>2 DEF StopSession
  <1>10. CASE TeardownSettles(t)
    <2>1. /\ stopping'[t] = NoTeardown /\ UNCHANGED sessions /\ Stopping(t)
          /\ stopper'[t] = IF stopper[t] = "waiting" THEN "waiting" ELSE "none"
          /\ task'[t] = AfterStop(t)
      BY <1>0, <1>10 DEF TeardownSettles, StopReturns
    <2>2. /\ stopping'[t].by = "none" /\ ~Live(t) /\ ~Live(t)' /\ ~Resuming(t)'
      BY <1>1, <1>3, <2>1 DEF Live, NoTeardown, SingleAt, Resuming, Opening
    <2>3. CASE stopping[t].by = "fence"
      <3>1. task[t].status = "agent_working" => Tended(t) /\ stopper[t] = "waiting"
        BY <2>3 DEF BackAt, Tended
      <3>2. AfterTeardown(t) = task[t]
        BY <2>3 DEF AfterTeardown
      <3>3. task'[t] = task[t]
        BY <2>1, <3>1, <3>2 DEF AfterStop
      <3>4. attempt[t].phase \in {"fencing", "unacked"} /\ StartPending(t)'
        BY <1>3, <2>3 DEF BackAt, StartPending
      <3>5. task[t].status = "agent_working" => Tended(t)'
        BY <1>0, <2>1, <2>2, <3>1, <3>3, <3>4 DEF Tended, Answered, Prompting
      <3>6. QED
        BY <1>1, <1>3, <2>2, <3>3, <3>5 DEF BackAt
    <2>4. CASE stopping[t].by \in {"user", "ui"}
      <3>1. /\ ~AfterTeardown(t).excluded /\ AfterTeardown(t).status # "agent_working"
            /\ AfterTeardown(t).status = "completed" => task[t].status = "completed"
        BY <1>0, <1>1, <2>2, <2>4 DEF AfterTeardown, TaskStates
      <3>2. task'[t] = AfterTeardown(t)
        BY <2>1, <3>1 DEF AfterStop
      <3>3. QED
        BY <1>3, <2>2, <3>1, <3>2 DEF BackAt
    <2>5. QED
      BY <1>0, <2>1, <2>3, <2>4 DEF Stopping, Teardowns
  <1>11. CASE TeardownRefused(t)
    <2>1. "refuse" \in Kinds /\ Spend("refuse")
      BY <1>11 DEF Kinds, TeardownRefused
    <2>2. QED
      BY <2>1, HelperTypes
  <1>12. CASE SetLabel(t)
    <2>1. "label" \in Kinds /\ SpendOn(t, "label")
      BY <1>12 DEF Kinds, SetLabel
    <2>2. QED
      BY <2>1, HelperTypes
  \* The task's one session goes on otherwise, under no start.
  <1>13. ASSUME NEW i \in DOMAIN sessions[t], NEW e,
                sessions' = [sessions EXCEPT ![t] = [@ EXCEPT ![i] = e]],
                attempt[t].phase = "none", UNCHANGED stopping,
                ~task'[t].excluded, task'[t].bound = task[t].bound,
                Unfinished(t) => task'[t].status # "completed",
                task'[t].status = "agent_working" => e.status = "working" \/ e.reviewing
         PROVE  BackAt(t)'
    <2>1. Live(t) /\ i = 1 /\ Len(sessions[t]) = 1
      BY <1>1, <1>13, OneSession
    <2>2. sessions'[t] = [sessions[t] EXCEPT ![i] = e]
      BY <1>0, <1>13
    <2>3. Len(sessions'[t]) = 1 /\ sessions'[t][1] = e
      BY <1>0, <2>1, <2>2
    <2>4. task[t].bound
      BY <1>13, <2>1 DEF BackAt, Prompting
    <2>5. Live(t)'
      <3>1. Len(<<>>) = 0
        OBVIOUS
      <3>2. QED
        BY <2>3, <3>1 DEF Live
    <2>6. task'[t].status = "agent_working" => Tended(t)'
      BY <1>0, <1>13, <2>3, <2>4, <2>5 DEF Tended, Answered, Prompting
    <2>7. stopping'[t].by # "fence"
      BY <1>13 DEF BackAt
    <2>8. QED
      BY <1>3, <1>4, <1>13, <2>1, <2>4, <2>6, <2>7 DEF BackAt
  <1>14. \A i \in DOMAIN sessions[t] : sessions[t][i] \in Sessions
    BY <1>0
  <1>15. CASE TurnEnds(t)
    <2>1. PICK i \in DOMAIN sessions[t] :
             /\ ~(StartPending(t) /\ i \in OwnIndex(t))
             /\ sessions' = [sessions EXCEPT ![t][i].status = "idle", ![t][i].reviewing = TRUE]
      BY <1>15 DEF TurnEnds
    <2> DEFINE k == [sessions[t][i] EXCEPT !.status = "idle"]
               e == [k EXCEPT !.reviewing = TRUE]
    <2>2. sessions' = [sessions EXCEPT ![t] = [@ EXCEPT ![i] = e]]
      BY <2>1
    <2>3. e.reviewing
      BY <1>14 DEF Sessions
    <2> HIDE DEF e
    <2>4. attempt[t].phase = "none"
      <3>1. Live(t) /\ i = 1
        BY <1>2
      <3>2. attempt[t].phase \notin Prompting
        BY <2>1, <3>1 DEF SingleAt, OwnIndex, StartPending, Prompting
      <3>3. QED
        BY <1>4, <3>1, <3>2
    <2>5. UNCHANGED <<task, stopping>>
      BY <1>15 DEF TurnEnds
    <2>6. QED
      BY <1>1, <1>13, <2>2, <2>3, <2>4, <2>5 DEF BackAt
  <1>16. \A s \in {"agent_working", "ready_for_review", "completed"} :
             task' = [task EXCEPT ![t].status = s] =>
                ~task'[t].excluded /\ task'[t].status = s /\ task'[t].bound = task[t].bound
    <2>1. \A s \in {"agent_working", "ready_for_review", "completed"} :
             /\ ~[task[t] EXCEPT !.status = s].excluded /\ [task[t] EXCEPT !.status = s].status = s
             /\ [task[t] EXCEPT !.status = s].bound = task[t].bound
      BY <1>0, <1>1 DEF TaskStates
    <2>2. \A s \in {"agent_working", "ready_for_review", "completed"} :
             task' = [task EXCEPT ![t].status = s] => task'[t] = [task[t] EXCEPT !.status = s]
      BY <1>0
    <2>3. QED
      BY <2>1, <2>2
  <1>17. CASE ReviewLands(t)
    <2>1. /\ UNCHANGED <<row, stopping, stopper>> /\ Live(t)
          /\ \/ UNCHANGED task /\ task[t].status = "completed"
             \/ task' = [task EXCEPT ![t].status = "ready_for_review"] /\ task[t].status # "completed"
      BY <1>2, <1>17 DEF ReviewLands
    <2>2. /\ ~task'[t].excluded /\ task'[t].status # "agent_working"
          /\ task'[t].status = "completed" <=> task[t].status = "completed"
          /\ task'[t].bound = task[t].bound
      BY <1>1, <1>16, <2>1
    <2>3. MayStart(t)' <=> MayStart(t)
      BY <1>0, <1>1, <2>1, <2>2 DEF MayStart, Excluded
    <2>4. QED
      BY <1>0, <1>3, <1>4, <2>1, <2>2, <2>3 DEF BackAt
  <1>18. CASE Reap(t)
    <2>1. PICK i \in DOMAIN sessions[t] :
             /\ sessions[t][i].status = "idle" /\ ~sessions[t][i].reviewing
             /\ sessions' = [sessions EXCEPT ![t] = RemoveAt(@, i)]
      BY <1>18 DEF Reap
    <2>2. sessions'[t] = <<>> /\ Live(t) /\ i = 1
      BY <1>0, <1>1, <2>1, OneSession
    <2>3. task[t].status # "agent_working"
      BY <2>1, <2>2 DEF BackAt, Tended
    <2>4. ~Live(t)' /\ UNCHANGED <<task, stopping>>
      BY <1>18, <2>2 DEF Live, Reap
    <2>5. QED
      BY <1>0, <1>1, <1>3, <1>4, <2>2, <2>3, <2>4 DEF BackAt
  <1>19. CASE MessageWakes(t)
    <2>1. PICK i \in DOMAIN sessions[t] :
             /\ sessions[t][i].status = "idle"
             /\ sessions' = [sessions EXCEPT ![t][i].status = "working"]
      BY <1>19 DEF MessageWakes
    <2> DEFINE e == [sessions[t][i] EXCEPT !.status = "working"]
    <2>2. sessions' = [sessions EXCEPT ![t] = [@ EXCEPT ![i] = e]]
      BY <2>1
    <2>3. e.status = "working"
      BY <1>14 DEF Sessions
    <2> HIDE DEF e
    <2>4. attempt[t].phase = "none"
      <3>1. Live(t) /\ i = 1
        BY <1>2
      <3>2. attempt[t].phase \notin Prompting
        BY <2>1, <3>1 DEF SingleAt
      <3>3. QED
        BY <1>4, <3>1, <3>2
    <2>5. UNCHANGED stopping /\ task' = [task EXCEPT ![t].status = "agent_working"]
      BY <1>19 DEF MessageWakes
    <2>6. ~task'[t].excluded /\ task'[t].status # "completed" /\ task'[t].bound = task[t].bound
      BY <1>16, <2>5
    <2>7. QED
      BY <1>13, <2>2, <2>3, <2>4, <2>5, <2>6
  <1>20. CASE Complete(t)
    <2>1. /\ ~StartPending(t) /\ ~Live(t) /\ ~Stopping(t) /\ boot.phase = "done"
          /\ UNCHANGED <<sessions, stopping>> /\ task' = [task EXCEPT ![t].status = "completed"]
      BY <1>20 DEF Complete, HasTaskStartOwnership, Serving
    <2>2. ~task'[t].excluded /\ task'[t].status = "completed"
      BY <1>16, <2>1
    <2>3. ~Live(t)' /\ ~Resuming(t)' /\ ~Unfinished(t)' /\ stopping'[t].by # "fence"
      BY <1>3, <2>1 DEF Live, Resuming, StartPending, Unfinished, Stopping
    <2>4. QED
      BY <2>2, <2>3 DEF BackAt
  <1>21. CASE Repair(t)
    <2>1. /\ ~StartPending(t) /\ ~Stopping(t) /\ UNCHANGED <<sessions, stopping>>
          /\ SetTask(t, "ready_for_review", TRUE) \/ (SetTask(t, "not_started", FALSE) /\ ~Live(t))
      BY <1>21 DEF Repair
    <2>2. ~task'[t].excluded /\ task'[t].status \notin {"agent_working", "completed"}
          /\ (Live(t) => task'[t].bound)
      BY <1>0, <1>1, <2>1, TaskWritten
    <2>3. (Live(t)' <=> Live(t)) /\ ~Resuming(t)' /\ stopping'[t].by # "fence"
      BY <1>3, <2>1 DEF Live, Resuming, StartPending, Stopping
    <2>4. QED
      BY <2>2, <2>3 DEF BackAt
  <1>22. QED
    BY <1>7, <1>8, <1>9, <1>10, <1>11, <1>12, <1>15, <1>17, <1>18, <1>19, <1>20, <1>21 DEF SessionStep



\* Boot leaves each task it lists with a session, a reconnection, or not started.
LEMMA RecoveryBack ==
    ASSUME Shaped, [Next]_vars, Undisturbed', NEW t \in Tasks, HeldAt(t), SingleAt(t), BackAt(t),
           Recovers(t)
    PROVE  BackAt(t)'
  <1>0. /\ row[t] \in Rows /\ attempt[t] \in Attempts /\ task \in [Tasks -> TaskStates]
        /\ task[t] \in TaskStates /\ sessions \in [Tasks -> Seq(Sessions)]
        /\ boot'.phase = boot.phase /\ (t \in boot'.stale => t \in boot.stale)
        /\ UNCHANGED <<stopping, stopper>>
    <2>1. UNCHANGED <<stopping, stopper>>
      BY DEF Recovers, ResumeStep, BootSkips, BootResets, BootResumes, ResumeReturns,
             ResumeFails, ResumeTimesOut
    <2>2. BootTurn(t) => boot'.phase = boot.phase /\ t \notin boot'.stale
      BY DEF BootTurn, Shaped, Boots
    <2>3. boot'.phase = boot.phase /\ (t \in boot'.stale => t \in boot.stale)
      BY <2>2 DEF Recovers, ResumeStep, BootSkips, BootResets, BootResumes, ResumeReturns,
                  ResumeFails, ResumeTimesOut
    <2>4. QED
      BY <2>1, <2>3 DEF Shaped
  <1>1. NoAttempt.phase = "none" /\ ~NoAttempt.open /\ ~task[t].excluded
    BY DEF NoAttempt, BackAt
  <1>2. Resuming(t) => /\ sessions[t] = <<>> /\ stopping'[t].by = "none" /\ attempt[t].open
                       /\ task[t].status # "completed"
                       /\ IsTerminal(row[t]) => stopper'[t] = "waiting"
    BY <1>0 DEF SingleAt, Resuming, Opening, Live, Stopping, BackAt, Unfinished, StartPending
  <1>3. StartPending(t)' => Unfinished(t)'
    BY DEF Unfinished
  <1>4. CASE BootSkips(t)
    <2>1. /\ UNCHANGED <<sessions, attempt>> /\ (StartPending(t) \/ Live(t))
          /\ (StartPending(t)' <=> StartPending(t)) /\ (Live(t)' <=> Live(t))
          /\ (Resuming(t)' <=> Resuming(t)) /\ (Unfinished(t)' => Unfinished(t))
      BY <1>0, <1>4 DEF BootSkips, StartPending, Live, Resuming, Unfinished
    <2>2. CASE StartPending(t) /\ UNCHANGED <<row, task>>
      <3>1. (MayStart(t)' <=> MayStart(t)) /\ (Stopping(t)' <=> Stopping(t))
        BY <1>0, <2>1, <2>2 DEF MayStart, Excluded, Stopping
      <3>2. task[t].status = "agent_working" => Tended(t)'
        BY <1>0, <2>1, <2>2, <3>1 DEF BackAt, Tended, Answered
      <3>3. QED
        BY <1>0, <2>1, <2>2, <3>1, <3>2 DEF BackAt
    <2>3. CASE ~StartPending(t) /\ task' = [task EXCEPT ![t].bound = TRUE]
      <3>1. /\ [task[t] EXCEPT !.bound = TRUE].excluded = task[t].excluded
            /\ [task[t] EXCEPT !.bound = TRUE].status = task[t].status
            /\ [task[t] EXCEPT !.bound = TRUE].bound
        BY <1>0 DEF TaskStates
      <3>2. task'[t] = [task[t] EXCEPT !.bound = TRUE]
        BY <1>0, <2>3
      <3>3. attempt'[t].phase = "none" /\ ~Resuming(t)' /\ Live(t)'
        BY <2>1, <2>3 DEF StartPending, Resuming
      <3>4. task[t].status = "agent_working" => Tended(t)'
        BY <1>0, <2>1, <3>1, <3>2, <3>3 DEF BackAt, Tended, Answered, Prompting
      <3>5. QED
        BY <1>0, <1>1, <2>1, <3>1, <3>2, <3>3, <3>4 DEF BackAt
    <2>4. QED
      BY <1>4, <2>2, <2>3 DEF BootSkips
  <1>5. CASE BootResets(t)
    <2>1. /\ UNCHANGED <<sessions, attempt>> /\ ~StartPending(t) /\ ~Live(t)
          /\ SetTask(t, "not_started", FALSE)
      BY <1>5 DEF BootResets
    <2>2. ~task'[t].excluded /\ task'[t].status = "not_started"
      BY <1>0, <1>1, <2>1, TaskWritten
    <2>3. ~Live(t)' /\ ~Resuming(t)' /\ stopping'[t].by # "fence"
      BY <1>0, <2>1 DEF Live, Resuming, StartPending, BackAt
    <2>4. QED
      BY <2>2, <2>3 DEF BackAt
  <1>6. CASE BootResumes(t)
    <2>1. /\ ~Live(t) /\ ~Stopping(t) /\ ~IsTerminal(row[t]) /\ task[t].bound
          /\ boot.phase = "tasks" /\ t \in boot.stale /\ UNCHANGED <<row, task, sessions>>
          /\ attempt'[t] = [phase |-> "resuming", generation |-> 0, open |-> TRUE, kind |-> "resume"]
      BY <1>6, Written DEF BootResumes, BootTurn
    <2>2. attempt'[t].phase = "resuming" /\ StartPending(t)' /\ ~Live(t)' /\ stopping'[t].by = "none"
      BY <1>0, <2>1 DEF StartPending, Live, Stopping
    <2>3. task[t].status # "completed"
      BY <2>1 DEF BackAt, Unfinished
    <2>4. Tended(t)'
      BY <2>1, <2>2 DEF Tended, Answered, Prompting
    <2>5. QED
      BY <1>1, <2>1, <2>2, <2>3, <2>4 DEF BackAt
  <1>7. CASE ResumeReturns(t)
    <2>1. /\ Resuming(t) /\ task[t].bound /\ attempt'[t] = NoAttempt
          /\ \/ IsTerminal(row[t]) /\ UNCHANGED <<row, task, sessions>>
             \/ \E status \in {"working", "idle"} :
                /\ sessions' = [sessions EXCEPT ![t] =
                        Append(@, [status |-> status, by |-> 0, reviewing |-> FALSE])]
                /\ task' = [task EXCEPT ![t].status =
                        IF @ = "completed" THEN @
                        ELSE IF status = "working" THEN "agent_working"
                        ELSE IF attempt[t].open THEN "ready_for_review" ELSE @]
      BY <1>2, <1>7, Written DEF ResumeReturns
    <2>2. attempt'[t].phase = "none"
      BY <1>1, <2>1
    <2>3. CASE IsTerminal(row[t]) /\ UNCHANGED <<row, task, sessions>>
      <3>1. sessions'[t] = <<>> /\ stopper'[t] = "waiting" /\ stopping'[t].by # "fence"
        BY <1>2, <2>1, <2>3
      <3>2. Answered(t)'
        BY <3>1 DEF Answered
      <3>3. QED
        BY <1>1, <1>2, <2>1, <2>2, <2>3, <3>1, <3>2, BackWithNothing
    <2>4. ASSUME NEW status \in {"working", "idle"},
                 sessions' = [sessions EXCEPT ![t] =
                        Append(@, [status |-> status, by |-> 0, reviewing |-> FALSE])],
                 task' = [task EXCEPT ![t].status =
                        IF @ = "completed" THEN @
                        ELSE IF status = "working" THEN "agent_working"
                        ELSE IF attempt[t].open THEN "ready_for_review" ELSE @]
          PROVE  BackAt(t)'
      <3> DEFINE s == IF status = "working" THEN "agent_working" ELSE "ready_for_review"
      <3>1. /\ [task[t] EXCEPT !.status = s].excluded = task[t].excluded
            /\ [task[t] EXCEPT !.status = s].status = s
            /\ [task[t] EXCEPT !.status = s].bound = task[t].bound
        BY <1>0 DEF TaskStates
      <3>2. task'[t] = [task[t] EXCEPT !.status = s]
        BY <1>0, <1>2, <2>1, <2>4
      <3>3. sessions'[t] = Append(<<>>, [status |-> status, by |-> 0, reviewing |-> FALSE])
        BY <1>0, <1>2, <2>1, <2>4
      <3>4. sessions'[t][1].status = status /\ Live(t)'
        BY <3>3 DEF Live
      <3>5. ~task'[t].excluded /\ task'[t].status = s /\ task'[t].bound /\ s # "completed"
            /\ (s = "agent_working" => status = "working")
        BY <1>1, <2>1, <3>1, <3>2
      <3> HIDE DEF s
      <3>6. task'[t].status = "agent_working" => Tended(t)'
        BY <2>2, <3>4, <3>5 DEF Tended, Answered, Prompting
      <3>7. QED
        BY <1>2, <2>1, <2>2, <3>5, <3>6 DEF BackAt, Resuming
    <2>5. QED
      BY <2>1, <2>3, <2>4
  <1>8. CASE ResumeFails(t)
    <2>1. /\ Resuming(t) /\ UNCHANGED sessions /\ attempt'[t] = NoAttempt
          /\ \/ SetTask(t, "not_started", FALSE)
             \/ IsTerminal(row[t]) /\ UNCHANGED task
      BY <1>2, <1>8, Written DEF ResumeFails, Unreclaimed
    <2>2. sessions'[t] = <<>> /\ attempt'[t].phase = "none" /\ stopping'[t].by # "fence"
      BY <1>1, <1>2, <2>1
    <2>3. CASE SetTask(t, "not_started", FALSE)
      <3>1. ~task'[t].excluded /\ task'[t].status = "not_started"
        BY <1>0, <1>1, <2>3, TaskWritten
      <3>2. QED
        BY <2>2, <3>1, BackWithNothing
    <2>4. CASE IsTerminal(row[t]) /\ UNCHANGED task
      <3>1. Answered(t)' /\ (task[t].status = "agent_working" => task[t].bound)
        BY <1>2, <2>1, <2>4 DEF Answered, BackAt, Tended
      <3>2. QED
        BY <1>1, <1>2, <2>1, <2>2, <2>4, <3>1, BackWithNothing
    <2>5. QED
      BY <2>1, <2>3, <2>4
  <1>9. CASE ResumeTimesOut(t)
    <2>1. ~Never("timeout")'
      <3>1. "timeout" \in Kinds /\ Spend("timeout")
        BY <1>9 DEF ResumeTimesOut, Kinds
      <3>2. QED
        BY <3>1, HelperTypes
    <2>2. ~Never("crash")'
      <3>1. "crash" \in Kinds /\ ~Never("crash")
        BY <1>9 DEF ResumeTimesOut, SingleAt, Kinds
      <3>2. QED
        BY <3>1, SpentStaysSpent
    <2>3. QED
      BY <2>1, <2>2 DEF Undisturbed
  <1>10. QED
    BY <1>4, <1>5, <1>6, <1>7, <1>8, <1>9 DEF Recovers, ResumeStep

\* A crash leaves every task to boot, which lists the ones that say they are at work.
LEMMA CommonBack ==
    ASSUME HInv, Common, NEW t \in Tasks, BackAt(t)
    PROVE  BackAt(t)'
  <1>0. Shaped /\ HeldAt(t) /\ ~task[t].excluded /\ boot \in Boots
    BY DEF HInv, Shaped, BackAt
  <1>1. NoAttempt.phase = "none" /\ ~NoAttempt.open /\ NoTeardown.by = "none"
    BY DEF NoAttempt, NoTeardown
  <1>2. task[t].status = "agent_working" => task[t].bound
    BY DEF BackAt, Tended
  <1>3. CASE Crash
    <2>1. /\ sessions'[t] = <<>> /\ attempt'[t] = NoAttempt /\ stopping'[t] = NoTeardown
          /\ UNCHANGED task /\ boot'.phase = "claims"
      BY <1>3 DEF Crash
    <2>2. ~Unfinished(t)' /\ Answered(t)'
      BY <1>1, <2>1 DEF Unfinished, StartPending, Answered
    <2>3. QED
      BY <1>0, <1>1, <1>2, <2>1, <2>2, BackWithNothing
  <1>4. CASE BootRequeues
    <2>1. /\ UNCHANGED <<task, sessions, attempt, stopping, stopper>> /\ boot.phase = "claims"
          /\ boot'.stale = {u \in Tasks :
                    \/ task[u].status = "agent_working"
                    \/ task[u].status # "completed" /\ task[u].bound /\ IsActive(row'[u])}
      BY <1>4 DEF BootRequeues
    <2>2. sessions[t] = <<>> /\ attempt[t] = NoAttempt /\ stopping[t] = NoTeardown
      BY <1>0, <2>1 DEF HeldAt, BlankAt
    <2>3. /\ Unfinished(t)' => task[t].status # "completed"
          /\ task[t].status = "agent_working" => Answered(t)'
      BY <1>1, <2>1, <2>2 DEF Unfinished, StartPending, Answered
    <2>4. QED
      BY <1>0, <1>1, <1>2, <2>1, <2>2, <2>3, BackWithNothing
  <1>5. CASE BootEnds
    <2>1. /\ UNCHANGED <<row, task, sessions, attempt, stopping, stopper>>
          /\ boot.phase = "tasks" /\ boot.stale = {} /\ boot'.phase = "done"
      BY <1>0, <1>5 DEF BootEnds, Boots
    <2>2. /\ Live(t)' <=> Live(t)
          /\ MayStart(t)' <=> MayStart(t)
          /\ StartPending(t)' <=> StartPending(t)
          /\ Stopping(t)' <=> Stopping(t)
          /\ Resuming(t)' <=> Resuming(t)
          /\ Unfinished(t)' => Unfinished(t)
      BY <2>1 DEF Live, MayStart, Excluded, StartPending, Stopping, Resuming, Unfinished
    <2>3. Answered(t) => Answered(t)'
      BY <2>1, <2>2 DEF Answered
    <2>4. Tended(t) => Tended(t)'
      BY <2>1, <2>2, <2>3 DEF Tended
    <2>5. QED
      BY <2>1, <2>2, <2>4 DEF BackAt
  <1>6. CASE DrainBegins \/ RetryTimerFires \/ Pause \/ Unpause \/ Sweep
    <2>1. UNCHANGED <<row, task, sessions, attempt, stopping, stopper, boot>>
      BY <1>6 DEF DrainBegins, RetryTimerFires, Pause, Unpause, Sweep
    <2>2. QED
      BY <2>1, BackAsBefore
  <1>7. QED
    BY <1>3, <1>4, <1>5, <1>6 DEF Common

\* SInv with what a working task relies on.
Unlabelled == Undisturbed /\ Never("label")
BInv == SInv /\ (Unlabelled => \A t \in Tasks : BackAt(t))

\* Every step keeps it.
LEMMA BackStep ==
    ASSUME BInv, [Next]_vars
    PROVE  BInv'
  <1>0. SInv /\ Shaped /\ HInv /\ \A t \in Tasks : HeldAt(t)
    BY DEF BInv, SInv, HInv
  <1>1. SInv'
    BY <1>0, SingleStep
  <1>2. ASSUME Unlabelled' PROVE \A t \in Tasks : BackAt(t)'
    <2>1. {"crash", "timeout", "label", "refuse"} \subseteq Kinds
      BY DEF Kinds
    <2>2. Unlabelled
      BY <1>0, <1>2, <2>1, SpentStaysSpent DEF Unlabelled, Undisturbed
    <2>3. /\ Undisturbed' /\ Never("label")' /\ Never("refuse")' /\ ~StartOverIdle
          /\ \A t \in Tasks : SingleAt(t) /\ BackAt(t)
      BY <1>0, <1>2, <2>2 DEF BInv, SInv, Unlabelled, Undisturbed
    <2>4. CASE Common
      BY <1>0, <2>3, <2>4, CommonBack
    <2>5. ASSUME NEW t \in Tasks, About(t) PROVE \A u \in Tasks : BackAt(u)'
      <3>1. BackAt(t)'
        BY <1>0, <2>3, <2>5, AskingBack, StartBack, SessionBack, RecoveryBack DEF About
      <3>2. \A u \in Tasks \ {t} : BackAt(u)'
        BY <1>0, <2>3, <2>5, BackElsewhere
      <3>3. QED
        BY <3>1, <3>2
    <2>6. CASE UNCHANGED vars
      <3>1. UNCHANGED <<row, task, attempt, sessions, stopping, stopper, boot>>
        BY <2>6 DEF vars
      <3>2. QED
        BY <2>3, <3>1, BackAsBefore
    <2>7. QED
      BY <2>4, <2>5, <2>6, NextIs
  <1>3. QED
    BY <1>1, <1>2 DEF BInv

\* It holds when nothing has been started.
LEMMA InitBack == Init => BInv
  <1> SUFFICES ASSUME Init PROVE BInv
    OBVIOUS
  <1>1. SInv
    BY InitSingle
  <1>2. ASSUME NEW t \in Tasks PROVE BackAt(t)
    <2>1. /\ sessions[t] = <<>> /\ attempt[t].phase = "none" /\ task[t].status = "not_started"
          /\ stopping[t].by = "none" /\ ~task[t].excluded
      BY DEF Init, NoAttempt, NoTeardown
    <2>2. QED
      BY <2>1 DEF BackAt, Live, Resuming
  <1>3. QED
    BY <1>1, <1>2 DEF BInv

\* A task that says an agent works on it has somebody to answer for it (a session, a
\* start, a stop, a row in the queue, or boot): in every behaviour in which no start goes
\* beside an idle session, no backend refuses to go, and no deadline passes where a
\* process recovers from a crash.
THEOREM WorkingBacked == Spec => [](Undisturbed => WorkingIsBacked)
  <1>1. BInv => (Undisturbed => WorkingIsBacked)
    BY DEF BInv, Unlabelled, WorkingIsBacked, BackAt, Tended, Answered
  <1>2. BInv /\ [Next]_vars => BInv'
    BY BackStep
  <1>3. QED
    BY InitBack, <1>1, <1>2, PTL DEF Spec

------------------------------------------------------------------------------
(* A slot is taken once. *)

\* Some refusing check comes first (the order of the checks in checkAdmission).
LEMMA FirstRefusal ==
    ASSUME NEW S \in SUBSET Nat, S # {}
    PROVE  \E i \in S : \A j \in S : i <= j
  <1>1. PICK i \in S : \A j \in S : <<j, i>> \notin OpToRel(<, Nat)
    BY WFMin, NatLessThanWellFounded
  <1>2. \A j \in S : ~(j < i)
    BY <1>1, Zenon DEF OpToRel
  <1>3. QED
    BY <1>2

\* checkAdmission answers "admitted" when no check refuses, and otherwise names a
\* check that does.
LEMMA Decision ==
    ASSUME NEW t, NEW c
    PROVE  /\ Admitted(t, c) <=> \A i \in 1..8 : ~Refuses(Checks[i], t, c)
           /\ ~Admitted(t, c) => \E i \in 1..8 : /\ AdmissionReason(t, c) = Checks[i]
                                                 /\ Refuses(Checks[i], t, c)
  <1> DEFINE refusing == {i \in 1..8 : Refuses(Checks[i], t, c)}
  <1>1. DOMAIN Checks = 1..8
    BY DEF Checks
  <1>2. AdmissionReason(t, c) =
          IF refusing = {} THEN "admitted"
          ELSE Checks[CHOOSE i \in refusing : \A j \in refusing : i <= j]
    BY <1>1 DEF AdmissionReason
  <1>3. \A i \in 1..8 : Checks[i] # "admitted"
    BY DEF Checks
  <1>4. CASE refusing = {}
    BY <1>2, <1>4 DEF Admitted
  <1>5. CASE refusing # {}
    <2>1. \E i \in refusing : \A j \in refusing : i <= j
      BY <1>5, FirstRefusal
    <2>2. PICK i \in refusing : AdmissionReason(t, c) = Checks[i]
      BY <1>2, <1>5, <2>1
    <2>3. i \in 1..8 /\ Refuses(Checks[i], t, c)
      OBVIOUS
    <2>4. QED
      BY <1>3, <2>2, <2>3 DEF Admitted
  <1>6. QED
    BY <1>4, <1>5

\* The eight checks by name.
LEMMA ByName ==
    ASSUME NEW t, NEW c
    PROVE  /\ Admitted(t, c) <=>
                /\ ~Refuses("global_pause", t, c) /\ ~Refuses("project_paused", t, c)
                /\ ~Refuses("project_daily_cap", t, c) /\ ~Refuses("global_limit", t, c)
                /\ ~Refuses("agent_limit", t, c) /\ ~Refuses("concurrency_level", t, c)
                /\ ~Refuses("file_overlap", t, c) /\ ~Refuses("project_limit", t, c)
           /\ ~Admitted(t, c) => Refuses(AdmissionReason(t, c), t, c)
  <1>1. /\ Checks[1] = "global_pause" /\ Checks[2] = "project_paused"
        /\ Checks[3] = "project_daily_cap" /\ Checks[4] = "global_limit"
        /\ Checks[5] = "agent_limit" /\ Checks[6] = "concurrency_level"
        /\ Checks[7] = "file_overlap" /\ Checks[8] = "project_limit"
    BY DEF Checks
  <1>2. \A i \in 1..8 : \/ i = 1 \/ i = 2 \/ i = 3 \/ i = 4
                        \/ i = 5 \/ i = 6 \/ i = 7 \/ i = 8
    OBVIOUS
  <1>3. /\ 1 \in 1..8 /\ 2 \in 1..8 /\ 3 \in 1..8 /\ 4 \in 1..8
        /\ 5 \in 1..8 /\ 6 \in 1..8 /\ 7 \in 1..8 /\ 8 \in 1..8
    OBVIOUS
  <1>4. (\A i \in 1..8 : ~Refuses(Checks[i], t, c)) <=>
          /\ ~Refuses("global_pause", t, c) /\ ~Refuses("project_paused", t, c)
          /\ ~Refuses("project_daily_cap", t, c) /\ ~Refuses("global_limit", t, c)
          /\ ~Refuses("agent_limit", t, c) /\ ~Refuses("concurrency_level", t, c)
          /\ ~Refuses("file_overlap", t, c) /\ ~Refuses("project_limit", t, c)
    BY <1>1, <1>2, <1>3, Zenon
  <1>5. ~Admitted(t, c) => Refuses(AdmissionReason(t, c), t, c)
    BY Decision
  <1>6. QED
    BY <1>4, <1>5, Decision

\* Fewer tasks, no higher count; one more task, a count higher by one.
LEMMA Counts ==
    ASSUME NEW S \in SUBSET Tasks
    PROVE  /\ Cardinality(S) \in Nat
           /\ \A R \in SUBSET S : Cardinality(R) \in Nat /\ Cardinality(R) <= Cardinality(S)
           /\ \A t \in Tasks \ S : Cardinality(S \cup {t}) = Cardinality(S) + 1
  <1>1. IsFiniteSet(S)
    BY AdmissionAssumption, FS_Subset
  <1>2. QED
    BY <1>1, FS_Subset, FS_CardinalityType, FS_AddElement

\* The limits are numbers, and the level is the same for all tasks of an agent and project.
LEMMA Limits ==
    ASSUME NEW t \in Tasks
    PROVE  /\ GlobalLimit \in Nat
           /\ EffectiveLevel(t) \in Nat
           /\ HardCap[AgentOf[t]] \in Nat
           /\ ProjectLimit[ProjectOf[t]] \in Nat
           /\ \A u \in Tasks : AgentOf[u] = AgentOf[t] /\ ProjectOf[u] = ProjectOf[t]
                                 => EffectiveLevel(u) = EffectiveLevel(t)
  <1>1. AgentOf[t] \in Agents /\ ProjectOf[t] \in Projects
    BY DEF Agents, Projects
  <1>2. HardCap[AgentOf[t]] \in Nat /\ Level[ProjectOf[t]] \in Nat /\ ProjectLimit[ProjectOf[t]] \in Nat
        /\ GlobalLimit \in Nat
    BY <1>1, AdmissionAssumption
  <1>3. QED
    BY <1>2 DEF EffectiveLevel, AtLeast, AtMost

\* What refuses a task beside some running ones refuses it beside more.
LEMMA MoreRefuse ==
    ASSUME NEW t \in Tasks, NEW c, NEW d, NEW check, c.running \in SUBSET Tasks, d.running \in SUBSET Tasks,
           c.running \ {t} \subseteq d.running, c.allPaused = d.allPaused, c.paused = d.paused,
           c.startedToday = d.startedToday, Refuses(check, t, c)
    PROVE  Refuses(check, t, d)
  <1> DEFINE sa(e) == SameAgent(t, e.running)
             sp(e) == SameProject(t, e.running)
             sb(e) == SameAgent(t, e.running) \cap SameProject(t, e.running)
  <1>1. /\ Others(t, c.running) \subseteq Others(t, d.running) /\ Others(t, d.running) \subseteq Tasks
        /\ sa(c) \subseteq sa(d) /\ sa(d) \subseteq Tasks
        /\ sp(c) \subseteq sp(d) /\ sp(d) \subseteq Tasks
        /\ sb(c) \subseteq sb(d) /\ sb(d) \subseteq Tasks
    BY DEF SameAgent, SameProject, Others
  <1>2. ASSUME NEW R, NEW S, R \subseteq S, S \subseteq Tasks, NEW limit \in Nat
        PROVE  Full(R, limit) => Full(S, limit)
    <2>1. Cardinality(R) \in Nat /\ Cardinality(S) \in Nat /\ Cardinality(R) <= Cardinality(S)
      BY <1>2, Counts
    <2>2. QED
      BY <2>1 DEF Full
  <1>3. /\ GlobalLimit \in Nat /\ EffectiveLevel(t) \in Nat
        /\ HardCap[AgentOf[t]] \in Nat /\ ProjectLimit[ProjectOf[t]] \in Nat
    BY Limits
  <1>4. /\ Full(Others(t, c.running), GlobalLimit) => Full(Others(t, d.running), GlobalLimit)
        /\ Full(sa(c), HardCap[AgentOf[t]]) => Full(sa(d), HardCap[AgentOf[t]])
        /\ Full(sb(c), EffectiveLevel(t)) => Full(sb(d), EffectiveLevel(t))
        /\ Full(sp(c), ProjectLimit[ProjectOf[t]]) => Full(sp(d), ProjectLimit[ProjectOf[t]])
    BY <1>1, <1>2, <1>3
  <1>5. (\E u \in sp(c) : <<t, u>> \in Overlaps) => (\E u \in sp(d) : <<t, u>> \in Overlaps)
    BY <1>1
  <1>6. QED
    BY <1>4, <1>5 DEF Refuses

\* A task that is admitted beside at least those that hold a slot fits beside them.
LEMMA AdmittedFits ==
    ASSUME NEW R \in SUBSET Tasks, NEW t \in Tasks, t \notin R, WithinLimits(R),
           NEW c, c.running \in SUBSET Tasks, R \subseteq c.running, Admitted(t, c)
    PROVE  WithinLimits(R \cup {t})
  <1> DEFINE OfAgent(S, a) == {u \in S : AgentOf[u] = a}
             OfProject(S, p) == {u \in S : ProjectOf[u] = p}
             OfBoth(S, u) == {v \in S : AgentOf[v] = AgentOf[u] /\ ProjectOf[v] = ProjectOf[u]}
             New == R \cup {t}
  <1>1. /\ Others(t, R) = R
        /\ SameAgent(t, R) = OfAgent(R, AgentOf[t])
        /\ SameProject(t, R) = OfProject(R, ProjectOf[t])
        /\ SameAgent(t, R) \cap SameProject(t, R) = OfBoth(R, t)
    BY DEF Others, SameAgent, SameProject
  <1>2. /\ OfAgent(New, AgentOf[t]) = OfAgent(R, AgentOf[t]) \cup {t}
        /\ OfProject(New, ProjectOf[t]) = OfProject(R, ProjectOf[t]) \cup {t}
        /\ OfBoth(New, t) = OfBoth(R, t) \cup {t}
    OBVIOUS
  <1>3. /\ Cardinality(R) \in Nat /\ Cardinality(New) = Cardinality(R) + 1
        /\ Cardinality(OfAgent(R, AgentOf[t])) \in Nat
        /\ Cardinality(OfAgent(New, AgentOf[t])) = Cardinality(OfAgent(R, AgentOf[t])) + 1
        /\ Cardinality(OfProject(R, ProjectOf[t])) \in Nat
        /\ Cardinality(OfProject(New, ProjectOf[t])) = Cardinality(OfProject(R, ProjectOf[t])) + 1
        /\ Cardinality(OfBoth(R, t)) \in Nat
        /\ Cardinality(OfBoth(New, t)) = Cardinality(OfBoth(R, t)) + 1
    <2>1. /\ OfAgent(R, AgentOf[t]) \in SUBSET Tasks /\ t \notin OfAgent(R, AgentOf[t])
          /\ OfProject(R, ProjectOf[t]) \in SUBSET Tasks /\ t \notin OfProject(R, ProjectOf[t])
          /\ OfBoth(R, t) \in SUBSET Tasks /\ t \notin OfBoth(R, t)
      OBVIOUS
    <2>2. QED
      BY <1>2, <2>1, Counts
  <1>4. /\ \A a \in Agents : a # AgentOf[t] => OfAgent(New, a) = OfAgent(R, a)
        /\ \A u \in R : ProjectOf[u] # ProjectOf[t] =>
                OfProject(New, ProjectOf[u]) = OfProject(R, ProjectOf[u])
        /\ \A u \in R : AgentOf[u] # AgentOf[t] \/ ProjectOf[u] # ProjectOf[t] =>
                OfBoth(New, u) = OfBoth(R, u)
        /\ \A u \in R : AgentOf[u] = AgentOf[t] /\ ProjectOf[u] = ProjectOf[t] =>
                OfBoth(New, u) = OfBoth(New, t)
    OBVIOUS
  <1>5. /\ GlobalLimit \in Nat /\ EffectiveLevel(t) \in Nat
        /\ HardCap[AgentOf[t]] \in Nat /\ ProjectLimit[ProjectOf[t]] \in Nat
    BY Limits
  <1>6. ASSUME NEW e, e = [running |-> R, allPaused |-> c.allPaused, paused |-> c.paused,
                           startedToday |-> c.startedToday]
        PROVE  Admitted(t, e)
    <2>1. \A check : Refuses(check, t, e) => Refuses(check, t, c)
      BY <1>6, MoreRefuse
    <2>2. QED
      BY <2>1, ByName
  <1>7. /\ ~(GlobalLimit # 0 /\ Cardinality(R) >= GlobalLimit)
        /\ ~(Cardinality(OfAgent(R, AgentOf[t])) >= HardCap[AgentOf[t]])
        /\ ~(Cardinality(OfBoth(R, t)) >= EffectiveLevel(t))
        /\ ~(\E u \in OfProject(R, ProjectOf[t]) : <<t, u>> \in Overlaps)
        /\ ~(ProjectLimit[ProjectOf[t]] # 0
                /\ Cardinality(OfProject(R, ProjectOf[t])) >= ProjectLimit[ProjectOf[t]])
    <2> DEFINE e == [running |-> R, allPaused |-> c.allPaused, paused |-> c.paused,
                     startedToday |-> c.startedToday]
    <2>1. Admitted(t, e) /\ e.running = R
      BY <1>6
    <2> HIDE DEF e
    <2>2. /\ ~Refuses("global_limit", t, e) /\ ~Refuses("agent_limit", t, e)
          /\ ~Refuses("concurrency_level", t, e) /\ ~Refuses("file_overlap", t, e)
          /\ ~Refuses("project_limit", t, e)
      BY <2>1, ByName
    <2>3. QED
      BY <1>1, <2>1, <2>2 DEF Refuses, Full
  <1>8. GlobalLimit # 0 => Cardinality(New) <= GlobalLimit
    BY <1>3, <1>5, <1>7
  <1>9. \A a \in Agents : Cardinality(OfAgent(New, a)) <= HardCap[a]
    <2>1. Cardinality(OfAgent(New, AgentOf[t])) <= HardCap[AgentOf[t]]
      BY <1>3, <1>5, <1>7
    <2>2. ASSUME NEW a \in Agents, a # AgentOf[t]
          PROVE  Cardinality(OfAgent(New, a)) <= HardCap[a]
      BY <1>4, <2>2 DEF WithinLimits
    <2>3. QED
      BY <2>1, <2>2
  <1>10. \A u \in New : Cardinality(OfBoth(New, u)) <= EffectiveLevel(u)
    <2>1. Cardinality(OfBoth(New, t)) <= EffectiveLevel(t)
      BY <1>3, <1>5, <1>7
    <2>2. ASSUME NEW u \in R, AgentOf[u] = AgentOf[t], ProjectOf[u] = ProjectOf[t]
          PROVE  Cardinality(OfBoth(New, u)) <= EffectiveLevel(u)
      <3>1. OfBoth(New, u) = OfBoth(New, t) /\ EffectiveLevel(u) = EffectiveLevel(t)
        BY <1>4, <2>2, Limits
      <3>2. QED
        BY <2>1, <3>1
    <2>3. ASSUME NEW u \in R, AgentOf[u] # AgentOf[t] \/ ProjectOf[u] # ProjectOf[t]
          PROVE  Cardinality(OfBoth(New, u)) <= EffectiveLevel(u)
      BY <1>4, <2>3 DEF WithinLimits
    <2>4. QED
      BY <2>1, <2>2, <2>3
  <1>11. \A u \in New : ProjectLimit[ProjectOf[u]] # 0 =>
              Cardinality(OfProject(New, ProjectOf[u])) <= ProjectLimit[ProjectOf[u]]
    <2>1. ASSUME NEW u \in New, ProjectOf[u] = ProjectOf[t], ProjectLimit[ProjectOf[u]] # 0
          PROVE  Cardinality(OfProject(New, ProjectOf[u])) <= ProjectLimit[ProjectOf[u]]
      BY <1>3, <1>5, <1>7, <2>1
    <2>2. ASSUME NEW u \in R, ProjectOf[u] # ProjectOf[t], ProjectLimit[ProjectOf[u]] # 0
          PROVE  Cardinality(OfProject(New, ProjectOf[u])) <= ProjectLimit[ProjectOf[u]]
      BY <1>4, <2>2 DEF WithinLimits
    <2>3. QED
      BY <2>1, <2>2
  <1>12. \A u \in New : \A v \in New \ {u} : ProjectOf[v] = ProjectOf[u] => <<u, v>> \notin Overlaps
    <2>1. \A v \in R : ProjectOf[v] = ProjectOf[t] => <<t, v>> \notin Overlaps
      BY <1>7
    <2>2. \A u \in R : ProjectOf[u] = ProjectOf[t] => <<u, t>> \notin Overlaps
      BY <2>1, AdmissionAssumption
    <2>3. \A u \in R : \A v \in R \ {u} : ProjectOf[v] = ProjectOf[u] => <<u, v>> \notin Overlaps
      BY DEF WithinLimits
    <2>4. QED
      BY <2>1, <2>2, <2>3
  <1>13. QED
    BY <1>8, <1>9, <1>10, <1>11, <1>12 DEF WithinLimits

\* A subset of tasks within the limits is within them.
LEMMA FewerFit ==
    ASSUME NEW S \in SUBSET Tasks, NEW R \in SUBSET S, WithinLimits(S)
    PROVE  WithinLimits(R)
  <1> DEFINE OfAgent(X, a) == {u \in X : AgentOf[u] = a}
             OfProject(X, p) == {u \in X : ProjectOf[u] = p}
             OfBoth(X, u) == {v \in X : AgentOf[v] = AgentOf[u] /\ ProjectOf[v] = ProjectOf[u]}
  <1>1. ASSUME NEW X, NEW Y, X \subseteq Y, Y \subseteq Tasks, NEW n \in Nat, Cardinality(Y) <= n
        PROVE  Cardinality(X) <= n
    <2>1. Cardinality(X) \in Nat /\ Cardinality(Y) \in Nat /\ Cardinality(X) <= Cardinality(Y)
      BY <1>1, Counts
    <2>2. QED
      BY <1>1, <2>1
  <1>2. GlobalLimit # 0 => Cardinality(R) <= GlobalLimit
    BY <1>1, AdmissionAssumption DEF WithinLimits
  <1>3. ASSUME NEW a \in Agents PROVE Cardinality(OfAgent(R, a)) <= HardCap[a]
    <2>1. HardCap[a] \in Nat /\ OfAgent(R, a) \subseteq OfAgent(S, a) /\ OfAgent(S, a) \subseteq Tasks
      BY AdmissionAssumption
    <2>2. Cardinality(OfAgent(S, a)) <= HardCap[a]
      BY DEF WithinLimits
    <2>3. QED
      BY <1>1, <2>1, <2>2
  <1>4. ASSUME NEW u \in R
        PROVE  /\ Cardinality(OfBoth(R, u)) <= EffectiveLevel(u)
               /\ ProjectLimit[ProjectOf[u]] # 0 =>
                     Cardinality(OfProject(R, ProjectOf[u])) <= ProjectLimit[ProjectOf[u]]
    <2>1. /\ EffectiveLevel(u) \in Nat /\ ProjectLimit[ProjectOf[u]] \in Nat
          /\ OfBoth(R, u) \subseteq OfBoth(S, u) /\ OfBoth(S, u) \subseteq Tasks
          /\ OfProject(R, ProjectOf[u]) \subseteq OfProject(S, ProjectOf[u])
          /\ OfProject(S, ProjectOf[u]) \subseteq Tasks
      BY Limits
    <2>2. /\ Cardinality(OfBoth(S, u)) <= EffectiveLevel(u)
          /\ ProjectLimit[ProjectOf[u]] # 0 =>
                Cardinality(OfProject(S, ProjectOf[u])) <= ProjectLimit[ProjectOf[u]]
      BY DEF WithinLimits
    <2>3. QED
      BY <1>1, <2>1, <2>2
  <1>5. \A u \in R : \A v \in R \ {u} : ProjectOf[v] = ProjectOf[u] => <<u, v>> \notin Overlaps
    BY DEF WithinLimits
  <1>6. QED
    BY <1>2, <1>3, <1>4, <1>5 DEF WithinLimits

\* What makes a task one of Holding.
Holds(t) ==
    \/ Working(t) \/ Reserved(t)
    \/ stopping[t].by \in {"user", "ui"} /\ stopping[t].held.status = "working"

Unasked == ~StartOverIdle /\ Never("crash") /\ Never("message") /\ Never("refuse")

\* A task without sessions holds a slot only for its start or its stop.
LEMMA HoldsNothing ==
    ASSUME NEW t \in Tasks, sessions'[t] = <<>>, attempt'[t].open => attempt[t].open,
           attempt'[t].open => attempt'[t].kind = attempt[t].kind,
           stopping'[t] = stopping[t] \/ stopping'[t].by \in {"fence", "none"}
    PROVE  Holds(t)' => Holds(t)
  <1>1. ~Working(t)'
    BY DEF Working
  <1>2. Reserved(t)' => Reserved(t)
    BY DEF Reserved
  <1>3. QED
    BY <1>1, <1>2 DEF Holds

\* Nor does a task come to hold one as long as its sessions, stop and start are left alone.
LEMMA HoldsAsBefore ==
    ASSUME NEW t \in Tasks, sessions'[t] = sessions[t], attempt'[t].open => attempt[t].open,
           attempt'[t].open => attempt'[t].kind = attempt[t].kind,
           stopping'[t] = stopping[t] \/ stopping'[t].by \in {"fence", "none"}
    PROVE  Holds(t)' => Holds(t)
  <1>1. Working(t)' <=> Working(t)
    BY DEF Working
  <1>2. Reserved(t)' => Reserved(t)
    BY DEF Reserved
  <1>3. QED
    BY <1>1, <1>2 DEF Holds

\* A request takes a slot only when it is admitted, and so does the drain.
LEMMA AskingHolds ==
    ASSUME Shaped, NEW t \in Tasks, Asks(t)
    PROVE  Holds(t)' => Holds(t) \/ Admitted(t, Context)
  <1>1. UNCHANGED <<sessions, stopping>>
    BY DEF Asks, RequestStart, ExplicitStart, BackoffElapses, DrainCancels, DrainFindsRunning,
           DrainPasses, DrainClaims
  <1>2. UNCHANGED attempt \/ Admitted(t, Context)
    BY DEF Asks, RequestStart, ExplicitStart, BackoffElapses, DrainCancels, DrainFindsRunning,
           DrainPasses, DrainClaims
  <1>3. QED
    BY <1>1, <1>2, HoldsAsBefore

\* A start works under the slot it reserved: its session is bound while its claim is in
\* force, and then its promise is pending.
LEMMA StartHolds ==
    ASSUME HInv, NEW t \in Tasks, SingleAt(t), StartStep(t)
    PROVE  Holds(t)' => Holds(t)
  <1>0. /\ Shaped /\ HeldAt(t) /\ attempt[t] \in Attempts /\ attempt \in [Tasks -> Attempts]
        /\ sessions \in [Tasks -> Seq(Sessions)] /\ stopping \in [Tasks -> Teardowns]
    BY DEF HInv, Shaped
  <1>1. ~NoAttempt.open
    BY DEF NoAttempt
  <1>2. CASE MarkStarting(t)
    <2>1. UNCHANGED <<sessions, stopping>> /\ attempt'[t] = [attempt[t] EXCEPT !.phase = "preparing"]
      BY <1>0, <1>2 DEF MarkStarting
    <2>2. QED
      BY <1>0, <2>1, HoldsAsBefore DEF Attempts
  <1>3. CASE BeginCreate(t)
    <2>1. UNCHANGED <<sessions, stopping>>
          /\ (attempt'[t] = [attempt[t] EXCEPT !.phase = "creating"] \/ attempt'[t] = NoAttempt)
      BY <1>0, <1>3 DEF BeginCreate, Reject
    <2>2. QED
      BY <1>0, <1>1, <2>1, HoldsAsBefore DEF Attempts
  <1>4. CASE StartFails(t) \/ FenceEnds(t) \/ CloseSettles(t) \/ OrphanSettles(t)
    <2>1. UNCHANGED <<sessions, stopping>> /\ attempt'[t] = NoAttempt
      BY <1>0, <1>4 DEF StartFails, FenceEnds, CloseSettles, OrphanSettles, Reject
    <2>2. QED
      BY <1>1, <2>1, HoldsAsBefore
  <1>5. CASE CreateSucceeds(t)
    <2>1. attempt[t].phase = "creating" /\ ~Live(t) /\ ~Stopping(t)
      BY <1>5 DEF CreateSucceeds, At, SingleAt, Opening
    <2>2. CASE MayStart(t)
      <3>1. IsClaimed(row[t])
        BY <2>2 DEF MayStart, IsClaimed, ClaimedStates
      <3>2. boot.phase = "claims" => attempt[t].phase = "none"
        BY <1>0 DEF HeldAt, BlankAt, NoAttempt
      <3>3. Reserved(t)
        BY <1>0, <2>1, <3>1, <3>2 DEF HeldAt, ClaimHeld
      <3>4. QED
        BY <3>3 DEF Holds
    <2>3. CASE ~MayStart(t)
      <3>1. /\ UNCHANGED sessions /\ attempt'[t] = [attempt[t] EXCEPT !.phase = "fencing"]
            /\ stopping'[t].by = "fence"
        BY <1>0, <1>5, <2>1, <2>3 DEF CreateSucceeds
      <3>2. QED
        BY <1>0, <3>1, HoldsAsBefore DEF Attempts
    <2>4. QED
      BY <2>2, <2>3
  <1>6. ASSUME attempt[t].phase \in Prompting, NEW p, FenceOwn(t, p)
        PROVE  Holds(t)' => Holds(t)
    <2>1. attempt'[t] = [attempt[t] EXCEPT !.phase = p]
      BY <1>0, <1>6, Fencing
    <2>2. sessions'[t] = <<>> /\ (stopping'[t].by = "fence" \/ stopping'[t] = stopping[t])
      BY <1>0, <1>6, TakenAway
    <2>3. QED
      BY <1>0, <2>1, <2>2, HoldsNothing DEF Attempts
  <1>7. CASE CheckBeforePrompt(t)
    <2>1. attempt[t].phase \in Prompting
      BY <1>7 DEF CheckBeforePrompt, At, Prompting
    <2>2. \/ FenceOwn(t, "fencing")
          \/ UNCHANGED <<sessions, stopping>> /\ attempt'[t] = NoAttempt
          \/ UNCHANGED <<sessions, stopping>> /\ attempt'[t] = [attempt[t] EXCEPT !.phase = "prompting"]
      BY <1>0, <1>7 DEF CheckBeforePrompt, Reject
    <2>3. QED
      BY <1>0, <1>1, <1>6, <2>1, <2>2, HoldsAsBefore DEF Attempts
  <1>8. CASE PromptAccepted(t)
    <2>1. attempt[t].phase \in Prompting
      BY <1>8 DEF PromptAccepted, At, Prompting
    <2>2. \/ FenceOwn(t, "unacked")
          \/ UNCHANGED <<sessions, stopping>> /\ attempt'[t] = NoAttempt
          \/ DropOwn(t) /\ UNCHANGED stopping /\ attempt'[t] = NoAttempt
      BY <1>0, <1>8 DEF PromptAccepted
    <2>3. DropOwn(t) => sessions'[t] = <<>>
      BY <1>0, <2>1, TakenAway
    <2>4. QED
      BY <1>1, <1>6, <2>1, <2>2, <2>3, HoldsAsBefore, HoldsNothing
  <1>9. CASE PromptFails(t)
    <2>1. attempt[t].phase \in Prompting /\ DropOwn(t) /\ UNCHANGED stopping
          /\ attempt'[t] = [attempt[t] EXCEPT !.phase = "closing"]
      BY <1>0, <1>9 DEF PromptFails, At, Prompting
    <2>2. sessions'[t] = <<>>
      BY <1>0, <2>1, TakenAway
    <2>3. QED
      BY <1>0, <2>1, <2>2, HoldsNothing DEF Attempts
  <1>10. CASE CreateTimesOut(t) \/ StartTimesOut(t)
    <2>1. UNCHANGED <<sessions, stopping>>
      BY <1>10 DEF CreateTimesOut, StartTimesOut
    <2>2. \/ attempt'[t] = [attempt[t] EXCEPT !.phase = "orphan", !.open = FALSE]
          \/ attempt'[t] = [attempt[t] EXCEPT !.open = FALSE]
      BY <1>0, <1>10 DEF CreateTimesOut, StartTimesOut, Reject
    <2>3. ~attempt'[t].open
      BY <1>0, <2>2 DEF Attempts
    <2>4. QED
      BY <2>1, <2>3, HoldsAsBefore
  <1>11. QED
    BY <1>2, <1>3, <1>4, <1>5, <1>7, <1>8, <1>9, <1>10 DEF StartStep

\* A stop keeps the slot of the session it takes down.
LEMMA SessionHolds ==
    ASSUME Shaped, NEW t \in Tasks, SingleAt(t), SessionStep(t), ~MessageWakes(t), ~TeardownRefused(t)
    PROVE  Holds(t)' => Holds(t)
  <1>0. /\ sessions \in [Tasks -> Seq(Sessions)] /\ stopping \in [Tasks -> Teardowns]
        /\ Len(sessions[t]) <= 1
    BY DEF Shaped, SingleAt
  <1>1. UNCHANGED attempt
    BY DEF SessionStep, StopByTaskId, StopLooksAgain, StopSession, TeardownSettles,
           TeardownRefused, TurnEnds, ReviewLands, Reap, MessageWakes, SetLabel, Complete, Repair
  <1>2. ASSUME NEW i \in DOMAIN sessions[t], NEW by, BeginTeardown(t, i, by)
        PROVE  Holds(t)' => Holds(t)
    <2>1. Live(t) /\ sessions'[t] = <<>> /\ stopping'[t].held = sessions[t][1]
      BY <1>2, TakenAway
    <2>2. 1 \in DOMAIN sessions[t]
      BY <1>0, <2>1, OneSession
    <2>3. ~Working(t)' /\ (Reserved(t)' <=> Reserved(t))
      BY <1>1, <2>1 DEF Working, Reserved
    <2>4. QED
      BY <2>1, <2>2, <2>3 DEF Holds, Working
  <1>3. CASE StopByTaskId(t)
    <2>1. \/ UNCHANGED <<sessions, stopping>>
          \/ Live(t) /\ BeginTeardown(t, 1, "user")
      BY <1>3 DEF StopByTaskId
    <2>2. QED
      BY <1>0, <1>1, <1>2, <2>1, OneSession, HoldsAsBefore
  <1>4. CASE StopLooksAgain(t)
    <2>1. \/ UNCHANGED <<sessions, stopping>>
          \/ Live(t) /\ BeginTeardown(t, 1, "user")
      BY <1>4 DEF StopLooksAgain
    <2>2. QED
      BY <1>0, <1>1, <1>2, <2>1, OneSession, HoldsAsBefore
  <1>5. CASE StopSession(t)
    BY <1>2, <1>5 DEF StopSession
  <1>6. CASE TeardownSettles(t)
    <2>1. UNCHANGED sessions /\ stopping'[t] = NoTeardown
      BY <1>0, <1>6 DEF TeardownSettles
    <2>2. QED
      BY <1>1, <2>1, HoldsAsBefore DEF NoTeardown
  <1>7. CASE TurnEnds(t)
    <2>1. PICK i \in DOMAIN sessions[t] :
              /\ sessions[t][i].status = "working"
              /\ sessions' = [sessions EXCEPT ![t][i].status = "idle", ![t][i].reviewing = TRUE]
      BY <1>7 DEF TurnEnds
    <2>2. Working(t)
      BY <2>1 DEF Working
    <2>3. QED
      BY <2>2 DEF Holds
  <1>8. CASE ReviewLands(t)
    <2>1. PICK i \in DOMAIN sessions[t] :
              sessions' = [sessions EXCEPT ![t][i].reviewing = FALSE]
      BY <1>8 DEF ReviewLands
    <2>2. sessions'[t] = [sessions[t] EXCEPT ![i].reviewing = FALSE]
      BY <1>0, <2>1
    <2>3. i = 1 /\ 1 \in DOMAIN sessions[t] /\ sessions[t][1] \in Sessions
          /\ \A j \in DOMAIN sessions[t] : j = 1
      BY <1>0, OneSession
    <2>4. sessions'[t][1].status = sessions[t][1].status /\ DOMAIN sessions'[t] = DOMAIN sessions[t]
      BY <1>0, <2>2, <2>3 DEF Sessions
    <2>5. Working(t)' => Working(t)
      BY <2>3, <2>4 DEF Working
    <2>6. UNCHANGED stopping
      BY <1>8 DEF ReviewLands
    <2>7. QED
      BY <1>1, <2>5, <2>6 DEF Holds, Reserved
  <1>9. CASE Reap(t)
    <2>1. PICK i \in DOMAIN sessions[t] : sessions' = [sessions EXCEPT ![t] = RemoveAt(@, i)]
      BY <1>9 DEF Reap
    <2>2. sessions'[t] = <<>> /\ UNCHANGED stopping
      BY <1>0, <1>9, <2>1, OneSession DEF Reap
    <2>3. QED
      BY <1>1, <2>2, HoldsNothing
  <1>10. CASE SetLabel(t) \/ Complete(t) \/ Repair(t)
    <2>1. UNCHANGED <<sessions, stopping>>
      BY <1>10 DEF SetLabel, Complete, Repair
    <2>2. QED
      BY <1>1, <2>1, HoldsAsBefore
  <1>11. QED
    BY <1>3, <1>4, <1>5, <1>6, <1>7, <1>8, <1>9, <1>10 DEF SessionStep

\* No step but an admitted start makes a task hold a slot.
LEMMA HoldingStep ==
    ASSUME SInv, [Next]_vars, Unasked', WithinLimits(Holding)
    PROVE  WithinLimits(Holding')
  <1>0. Shaped /\ HInv /\ BootAfterCrash
    BY DEF SInv, HInv
  <1>1. {"crash", "message", "refuse", "timeout"} \subseteq Kinds
    BY DEF Kinds
  <1>2. Unasked /\ Undisturbed
    BY <1>0, <1>1, SpentStaysSpent DEF Unasked, Undisturbed
  <1>3. \A t \in Tasks : SingleAt(t)
    BY <1>2 DEF SInv
  <1>4. Holding = {t \in Tasks : Holds(t)} /\ Holding' = {t \in Tasks : Holds(t)'}
    BY DEF Holding, Holds
  <1>5. Holding \subseteq Counted /\ Counted \subseteq Tasks
    BY DEF Holding, Counted, Stopping
  <1>6. ASSUME Holding' \subseteq Holding PROVE WithinLimits(Holding')
    <2>1. Holding \in SUBSET Tasks
      BY <1>4
    <2>2. QED
      BY <1>6, <2>1, FewerFit
  <1>7. CASE Common
    <2>1. ~Crash
      <3>1. Crash => Spend("crash")
        BY DEF Crash
      <3>2. uses.done \in [Kinds -> Nat] /\ uses \in Uses
        BY <1>0 DEF Shaped, Uses
      <3>3. Spend("crash") => uses'.done["crash"] = uses.done["crash"] + 1
        BY <1>1, <3>2 DEF Spend, Uses
      <3>4. uses.done["crash"] \in Nat /\ uses'.done["crash"] = 0
        BY <1>1, <3>2 DEF Unasked, Never
      <3>5. QED
        BY <3>1, <3>3, <3>4
    <2>2. UNCHANGED <<attempt, sessions, stopping>>
      BY <1>7, <2>1 DEF Common, BootRequeues, BootEnds, DrainBegins, RetryTimerFires, Pause, Unpause, Sweep
    <2>3. Holding' = Holding
      BY <2>2 DEF Holding, Working, Reserved
    <2>4. QED
      BY <2>3
  <1>8. ASSUME NEW t \in Tasks, About(t) PROVE WithinLimits(Holding')
    <2>1. \A u \in Tasks \ {t} : Holds(u)' <=> Holds(u)
      <3>1. SUFFICES ASSUME NEW u \in Tasks \ {t} PROVE Holds(u)' <=> Holds(u)
        OBVIOUS
      <3>2. Untouched(u)
        BY <1>0, <1>8, Elsewhere
      <3>3. QED
        BY <3>2 DEF Untouched, Holds, Working, Reserved
    <2>2. Holds(t)' => Holds(t) \/ Admitted(t, Context)
      <3>1. CASE Asks(t)
        BY <1>0, <3>1, AskingHolds
      <3>2. CASE StartStep(t)
        BY <1>0, <1>3, <3>2, StartHolds
      <3>3. CASE SessionStep(t)
        <4>1. MessageWakes(t) => Spend("message")
          BY DEF MessageWakes, SpendOn
        <4>2. TeardownRefused(t) => Spend("refuse")
          BY DEF TeardownRefused
        <4>3. \A k \in {"message", "refuse"} : Spend(k) => ~Never(k)'
          BY <1>0, <1>1, HelperTypes
        <4>4. ~MessageWakes(t) /\ ~TeardownRefused(t)
          BY <4>1, <4>2, <4>3 DEF Unasked
        <4>5. QED
          BY <1>0, <1>3, <3>3, <4>4, SessionHolds
      <3>4. CASE Recovers(t)
        <4>1. boot.phase = "tasks" \/ Resuming(t)
          BY <3>4 DEF Recovers, ResumeStep, BootSkips, BootResets, BootResumes, BootTurn, ResumeReturns,
                      ResumeFails, ResumeTimesOut
        <4>2. ~Never("crash")
          BY <1>0, <1>3, <4>1 DEF BootAfterCrash, SingleAt
        <4>3. QED
          BY <1>2, <4>2 DEF Unasked
      <3>5. QED
        BY <1>8, <3>1, <3>2, <3>3, <3>4 DEF About
    <2>3. CASE Holding' \subseteq Holding
      BY <1>6, <2>3
    <2>4. CASE ~(Holding' \subseteq Holding)
      <3>1. t \notin Holding /\ Holding' = Holding \cup {t} /\ Admitted(t, Context)
        BY <1>4, <2>1, <2>2, <2>4
      <3>2. Context.running = Counted
        BY DEF Context
      <3>3. WithinLimits(Holding \cup {t})
        BY <1>4, <1>5, <3>1, <3>2, AdmittedFits
      <3>4. QED
        BY <3>1, <3>3
    <2>5. QED
      BY <2>3, <2>4
  <1>9. CASE UNCHANGED vars
    <2>1. Holding' = Holding
      BY <1>9 DEF vars, Holding, Working, Reserved
    <2>2. QED
      BY <2>1
  <1>10. QED
    BY <1>7, <1>8, <1>9, NextIs

\* The limits hold of every slot taken.
LInv == SInv /\ (~StartOverIdle => SlotsHold)

\* The limits hold of the tasks that hold a slot, through every start, stop, deadline and
\* pause, in a behaviour in which nobody sets a session to work without asking; no task is
\* started beside its idle session.
THEOREM SlotsAreHeld == Spec => [](~StartOverIdle => SlotsHold)
  <1>1. Init => LInv
    <2> SUFFICES ASSUME Init PROVE LInv
      OBVIOUS
    <2>1. Holding = {}
      <3> SUFFICES ASSUME NEW t \in Tasks PROVE ~Holds(t)
        BY DEF Holding, Holds
      <3>1. sessions[t] = <<>> /\ attempt[t] = NoAttempt /\ stopping[t] = NoTeardown
        BY DEF Init
      <3>2. DOMAIN <<>> = {}
        OBVIOUS
      <3>3. QED
        BY <3>1, <3>2 DEF Holds, Working, Reserved, NoAttempt, NoTeardown
    <2>2. WithinLimits({})
      <3>1. Cardinality({}) = 0
        BY FS_EmptySet
      <3>2. \A a : {u \in {} : AgentOf[u] = a} = {}
        OBVIOUS
      <3>3. \A a \in Agents : HardCap[a] \in Nat
        BY AdmissionAssumption
      <3>4. QED
        BY <3>1, <3>2, <3>3, AdmissionAssumption DEF WithinLimits
    <2>3. QED
      BY <2>1, <2>2, InitSingle DEF LInv, SlotsHold
  <1>2. LInv /\ [Next]_vars => LInv'
    <2> SUFFICES ASSUME LInv, [Next]_vars PROVE LInv'
      OBVIOUS
    <2>1. SInv /\ SInv'
      BY SingleStep DEF LInv
    <2>2. ASSUME Unasked' PROVE WithinLimits(Holding')
      <3>1. {"crash", "message", "refuse"} \subseteq Kinds /\ Shaped
        BY <2>1 DEF Kinds, SInv, HInv
      <3>2. Unasked
        BY <2>2, <3>1, SpentStaysSpent DEF Unasked
      <3>3. WithinLimits(Holding)
        BY <3>2 DEF LInv, SlotsHold, Unasked
      <3>4. QED
        BY <2>1, <2>2, <3>3, HoldingStep
    <2>3. ASSUME ~StartOverIdle PROVE SlotsHold'
      <3>1. SlotsHold' <=> (Never("crash")' /\ Never("message")' /\ Never("refuse")' => WithinLimits(Holding'))
        BY DEF SlotsHold, WithinLimits
      <3>2. QED
        BY <2>2, <2>3, <3>1 DEF Unasked
    <2>4. QED
      BY <2>1, <2>3 DEF LInv
  <1>3. LInv => (~StartOverIdle => SlotsHold)
    BY DEF LInv
  <1>4. QED
    BY <1>1, <1>2, <1>3, PTL DEF Spec

------------------------------------------------------------------------------
(* No wakeup is lost. *)

\* A task that holds a slot, or whose slot comes free with a drain: the end of the turn or
\* of the failed prompt's teardown asks for one.
Busy(t) ==
    \/ Working(t) \/ Stopping(t) \/ Reserved(t)
    \/ attempt[t].phase = "closing"
    \/ \E i \in DOMAIN sessions[t] : sessions[t][i].reviewing

Beside == [running |-> {t \in Tasks : Busy(t)}, allPaused |-> pauses.all, paused |-> pauses.projects,
           startedToday |-> [p \in Projects |-> 0]]

\* A waiting start that could run, once its backoff is over.
Ready(t) ==
    /\ IsDispatchable(row[t]) /\ task[t].status # "completed"
    /\ ~StartPending(t) /\ ~WaitsForPredecessor(t)
Wants(t) == Ready(t) /\ ~Busy(t) /\ Admitted(t, Beside)

\* What looks at it: the drain under way has it to visit, or the retry timer is set for it.
Backing(t) == row[t].state = "retrying" /\ ~row[t].due
Waiting(t) == t \in drain.left \/ (t \in drain.timer /\ Backing(t))

\* A drain is due, or the timer about to ask for one.
Called == drain.scheduled \/ \E t \in drain.timer : ~Backing(t)

\* NoMissedWakeup is not inductive, since it says nothing while a drain is under way: it
\* does not say that the starts the drain has passed were refused.
Heard == Called \/ \A t \in Tasks : Wants(t) => Waiting(t)
NInv == SInv /\ (Undisturbed /\ boot.phase = "done" => Heard)

\* What a step that schedules nothing leaves of a task: no slot comes free, no timer is put
\* off, no sibling's predecessor ends, and it comes to want no slot but one refused.
Quieter(t) ==
    /\ Busy(t) => Busy(t)'
    /\ Backing(t)' => Backing(t)
    /\ task'[t].status = "completed" => task[t].status = "completed"
    /\ Wants(t)' => Called' \/ Waiting(t)' \/ (Ready(t) /\ (Waiting(t) => Waiting(t)'))

\* Nothing is taken from what is due to be looked at, but the task the step is about.
Looked(S) ==
    /\ drain.scheduled => drain'.scheduled
    /\ drain.timer \subseteq drain'.timer
    /\ drain.left \subseteq drain'.left \cup S

\* The decision of a state, written with its context.
LEMMA Decided ==
    ASSUME NEW t
    PROVE  Admitted(t, Beside)' <=> Admitted(t, Beside')
  BY DEF Admitted, AdmissionReason, Refuses, Full, SameAgent, SameProject, Others

\* A task that is admitted beside more is admitted beside fewer.
LEMMA LessRefuses ==
    ASSUME NEW t \in Tasks, NEW c, NEW d, c.running \in SUBSET Tasks, d.running \in SUBSET Tasks,
           c.running \ {t} \subseteq d.running, c.allPaused => d.allPaused, c.paused \subseteq d.paused,
           c.startedToday = d.startedToday, Admitted(t, d)
    PROVE  Admitted(t, c)
  <1> DEFINE e == [running |-> c.running, allPaused |-> d.allPaused, paused |-> d.paused,
                   startedToday |-> d.startedToday]
  <1>1. /\ e.running = c.running /\ e.allPaused = d.allPaused /\ e.paused = d.paused
        /\ e.startedToday = d.startedToday
    OBVIOUS
  <1> HIDE DEF e
  <1>2. \A check : Refuses(check, t, e) => Refuses(check, t, d)
    BY <1>1, MoreRefuse
  <1>3. \A check : Refuses(check, t, c) => Refuses(check, t, e)
    BY <1>1 DEF Refuses, SameAgent, SameProject, Others
  <1>4. QED
    BY <1>2, <1>3, ByName

\* Once a drain was asked for, it is due, or there is nothing to start.
LEMMA Scheduling ==
    ASSUME Shaped, ScheduleDrain
    PROVE  Heard'
  <1>1. CASE \A t \in Tasks : ~IsActive(row'[t])
    <2>1. \A t \in Tasks : ~Wants(t)'
      BY <1>1 DEF Wants, Ready, IsDispatchable, IsActive, ActiveStates
    <2>2. QED
      BY <2>1 DEF Heard
  <1>2. CASE drain.scheduled
    <2>1. drain'.scheduled
      BY <1>2 DEF ScheduleDrain
    <2>2. QED
      BY <2>1 DEF Heard, Called
  <1>3. CASE ~drain.scheduled /\ ~\A t \in Tasks : ~IsActive(row'[t])
    <2>1. drain' = [drain EXCEPT !.scheduled = TRUE, !.timer = {}] /\ drain \in Drains
      BY <1>3 DEF ScheduleDrain, Shaped
    <2>2. drain'.scheduled
      BY <2>1 DEF Drains
    <2>3. QED
      BY <2>2 DEF Heard, Called
  <1>4. QED
    BY <1>1, <1>2, <1>3

\* While no sibling ends, a task that waits for one goes on waiting.
LEMMA WaitsStill ==
    ASSUME NEW t \in Tasks, WaitsForPredecessor(t),
           \A p \in Tasks : task'[p].status = "completed" => task[p].status = "completed"
    PROVE  WaitsForPredecessor(t)'
  <1>1. Predecessors[t] \subseteq Tasks
    BY StartsAssumption
  <1>2. QED
    BY <1>1 DEF WaitsForPredecessor

\* What was heard stays heard when every task is left quiet.
LEMMA StillHeard ==
    ASSUME Shaped, Heard, NEW S, Looked(S), \A u \in Tasks : Quieter(u),
           pauses.all => pauses'.all, pauses.projects \subseteq pauses'.projects
    PROVE  Heard'
  <1>0. drain.timer \subseteq Tasks
    BY DEF Shaped, Drains
  <1>1. CASE Called
    <2>1. CASE drain.scheduled
      BY <2>1 DEF Looked, Heard, Called
    <2>2. ASSUME NEW u \in drain.timer, ~Backing(u) PROVE Heard'
      <3>1. u \in drain'.timer /\ ~Backing(u)'
        BY <1>0, <2>2 DEF Looked, Quieter
      <3>2. QED
        BY <3>1 DEF Heard, Called
    <2>3. QED
      BY <1>1, <2>1, <2>2 DEF Called
  <1>2. CASE ~Called
    <2>1. SUFFICES ASSUME NEW u \in Tasks, Wants(u)', ~Called' PROVE Waiting(u)'
      BY DEF Heard
    <2>2. CASE Ready(u) /\ (Waiting(u) => Waiting(u)')
      <3>1. ~Busy(u)
        BY <2>1 DEF Quieter, Wants
      <3>2. Admitted(u, Beside)
        <4>1. Admitted(u, Beside')
          BY <2>1, Decided DEF Wants
        <4>2. /\ Beside.running \in SUBSET Tasks /\ Beside'.running \in SUBSET Tasks
              /\ Beside.running \ {u} \subseteq Beside'.running
          BY DEF Beside, Quieter
        <4>3. /\ Beside.allPaused => Beside'.allPaused
              /\ Beside.paused \subseteq Beside'.paused
              /\ Beside.startedToday = Beside'.startedToday
          BY DEF Beside
        <4>4. QED
          BY <4>1, <4>2, <4>3, LessRefuses
      <3>3. Waiting(u)
        BY <1>2, <2>2, <3>1, <3>2 DEF Heard, Wants
      <3>4. QED
        BY <2>2, <3>3
    <2>3. QED
      BY <2>1, <2>2 DEF Quieter
  <1>3. QED
    BY <1>1, <1>2

\* A task is left quiet that still holds a slot.
LEMMA QuietBusy ==
    ASSUME NEW t \in Tasks, Busy(t)', row'[t] = row[t] \/ row'[t].state # "retrying",
           task'[t].status = "completed" => task[t].status = "completed"
    PROVE  Quieter(t)
  BY DEF Quieter, Wants, Backing

\* So is one that waits for no start.
LEMMA QuietUnready ==
    ASSUME NEW t \in Tasks, Busy(t) => Busy(t)', row'[t] = row[t] \/ row'[t].state # "retrying",
           task'[t].status = "completed" => task[t].status = "completed", ~Ready(t)'
    PROVE  Quieter(t)
  BY DEF Quieter, Wants, Backing

\* So is one nothing happened to, as long as no sibling was completed.
LEMMA QuietAsBefore ==
    ASSUME NEW t \in Tasks, NEW S, Looked(S), t \notin S,
           \A p \in Tasks : task'[p].status = "completed" => task[p].status = "completed",
           task[t].status = "completed" => task'[t].status = "completed",
           row'[t] = row[t], sessions'[t] = sessions[t], attempt'[t] = attempt[t],
           stopping'[t] = stopping[t]
    PROVE  Quieter(t)
  <1>1. (Busy(t) => Busy(t)') /\ (Backing(t)' <=> Backing(t))
    BY DEF Busy, Working, Stopping, Reserved, Backing
  <1>2. Ready(t)' => Ready(t)
    <2>1. StartPending(t)' <=> StartPending(t)
      BY DEF StartPending
    <2>2. WaitsForPredecessor(t) => WaitsForPredecessor(t)'
      BY WaitsStill
    <2>3. QED
      BY <2>1, <2>2 DEF Ready, IsDispatchable
  <1>3. Waiting(t) => Waiting(t)'
    BY <1>1 DEF Waiting, Looked
  <1>4. QED
    BY <1>1, <1>2, <1>3 DEF Quieter, Wants

\* A task's slot is still held when its sessions and its stop are left alone and its start
\* goes on.
LEMMA BusyKept ==
    ASSUME NEW t \in Tasks, sessions'[t] = sessions[t], stopping'[t] = stopping[t],
           Reserved(t) => Reserved(t)',
           attempt[t].phase = "closing" => attempt'[t].phase = "closing"
    PROVE  Busy(t) => Busy(t)'
  BY DEF Busy, Working, Stopping

\* What these operations leave is not waiting to be started.
LEMMA OutOfQueue ==
    ASSUME NEW r \in Rows
    PROVE  \A s \in {Recovered(r), Ended(r, "cancelled"), Ended(r, "failed"), Cancelled(r),
                     Claimed(r), MarkedStarting(r), Claimed(Enqueued(r))} : ~IsDispatchable(s)
  <1>1. \A s : s.state \in {"recovered", "cancelled", "failed", "claimed", "starting"} =>
              ~IsDispatchable(s)
    BY DEF IsDispatchable, DispatchableStates
  <1>2. Claimed(Enqueued(r)).state = "claimed"
    BY RowTypes, RowFates
  <1>3. ~MayRecover(r) \/ ~MayEnd(r) => ~IsDispatchable(r)
    BY RowFates
  <1>4. ~IsDispatchable(Recovered(r))
    BY <1>1, <1>3, RowFates
  <1>5. ~IsDispatchable(Ended(r, "cancelled")) /\ ~IsDispatchable(Ended(r, "failed"))
    BY <1>1, <1>3, RowFates
  <1>6. ~IsDispatchable(Cancelled(r))
    BY RowFates DEF IsTerminal, TerminalStates, IsDispatchable, DispatchableStates
  <1>7. ~IsDispatchable(Claimed(r)) /\ ~IsDispatchable(MarkedStarting(r))
    BY <1>1, RowFates
  <1>8. QED
    BY <1>1, <1>2, <1>4, <1>5, <1>6, <1>7

\* A task whose row leaves the queue is left quiet.
LEMMA QuietLeaves ==
    ASSUME NEW t \in Tasks, Busy(t) => Busy(t)', ~IsDispatchable(row'[t]),
           task'[t].status = "completed" => task[t].status = "completed"
    PROVE  Quieter(t)
  <1>1. row'[t].state # "retrying" /\ ~Ready(t)'
    BY DEF Ready, IsDispatchable, DispatchableStates
  <1>2. QED
    BY <1>1, QuietUnready

\* So is one with a start in flight.
LEMMA QuietPending ==
    ASSUME NEW t \in Tasks, Busy(t) => Busy(t)', row'[t] = row[t], attempt'[t].phase # "none",
           task'[t].status = "completed" => task[t].status = "completed"
    PROVE  Quieter(t)
  <1>1. ~Ready(t)'
    BY DEF Ready, StartPending
  <1>2. QED
    BY <1>1, QuietUnready

\* A step about a task asks for a drain, or looks at least at what was due to be looked at
\* and leaves the task quiet.
Heeds(t) == Heard' \/ (Looked({t}) /\ UNCHANGED pauses /\ Quieter(t))

\* A refusal the drain gets holds of the task in the wider context too.
LEMMA RefusedBeside ==
    ASSUME NEW t \in Tasks, ~Admitted(t, Context),
           UNCHANGED <<sessions, attempt, stopping, pauses>>
    PROVE  ~Wants(t)'
  <1>1. Beside' = Beside
    BY DEF Beside, Busy, Working, Stopping, Reserved
  <1>2. Context.running \in SUBSET Tasks /\ Beside.running \in SUBSET Tasks
        /\ Context.running \ {t} \subseteq Beside.running
    BY DEF Context, Counted, Beside, Busy
  <1>3. /\ Context.allPaused = Beside.allPaused
        /\ Context.paused = Beside.paused
        /\ Context.startedToday = Beside.startedToday
    BY DEF Context, Beside
  <1>4. ~Admitted(t, Beside)
    BY <1>2, <1>3, LessRefuses
  <1>5. QED
    BY <1>1, <1>4, Decided DEF Wants

\* A refusal at which the drain stops is one of every task that waits.
LEMMA RefusesAll ==
    ASSUME NEW t \in Tasks, ~Admitted(t, Context),
           AdmissionReason(t, Context) \in GlobalReasons, NEW u \in Tasks, ~Busy(u)
    PROVE  ~Admitted(u, Beside)
  <1>1. Refuses(AdmissionReason(t, Context), t, Context)
    BY ByName
  <1>2. CASE AdmissionReason(t, Context) = "global_pause"
    <2>1. Beside.allPaused
      BY <1>1, <1>2 DEF Refuses, Context, Beside
    <2>2. Refuses("global_pause", u, Beside)
      BY <2>1 DEF Refuses
    <2>3. QED
      BY <2>2, ByName
  <1>3. CASE AdmissionReason(t, Context) = "global_limit"
    <2>1. GlobalLimit # 0 /\ Full(Others(t, Counted), GlobalLimit)
      BY <1>1, <1>3 DEF Refuses, Context
    <2>2. Others(t, Counted) \subseteq Others(u, Beside.running) /\ Beside.running \in SUBSET Tasks
      BY DEF Others, Counted, Beside, Busy
    <2>3. Others(u, Beside.running) \in SUBSET Tasks
      BY <2>2 DEF Others
    <2>4. Full(Others(u, Beside.running), GlobalLimit)
      <3>1. /\ Cardinality(Others(t, Counted)) \in Nat
            /\ Cardinality(Others(u, Beside.running)) \in Nat
            /\ Cardinality(Others(t, Counted)) <= Cardinality(Others(u, Beside.running))
        BY <2>2, <2>3, Counts
      <3>2. QED
        BY <2>1, <3>1, AdmissionAssumption DEF Full
    <2>5. Refuses("global_limit", u, Beside)
      BY <2>1, <2>4 DEF Refuses
    <2>6. QED
      BY <2>5, ByName
  <1>4. QED
    BY <1>2, <1>3 DEF GlobalReasons

\* A request queues a start only where it is refused, and the drain passes one over only
\* where it has to wait.
LEMMA AskingHeard ==
    ASSUME HInv, NEW t \in Tasks, boot.phase = "done", Heard, Asks(t)
    PROVE  Heeds(t)
  <1>0. /\ Shaped /\ row[t] \in Rows /\ drain \in Drains /\ HeldAt(t)
        /\ UNCHANGED <<sessions, stopping, task, pauses>>
    <2>1. Shaped /\ row[t] \in Rows /\ drain \in Drains /\ HeldAt(t)
      BY DEF HInv, Shaped
    <2>2. QED
      BY <2>1 DEF Asks, RequestStart, ExplicitStart, BackoffElapses, DrainCancels,
         DrainFindsRunning, DrainPasses, DrainClaims
  <1>1. UNCHANGED attempt => (Busy(t) => Busy(t)')
    BY <1>0, BusyKept DEF Reserved
  <1>2. UNCHANGED drain => Looked({t})
    BY DEF Looked
  <1>3. drain' = LeftWithout(t) => /\ Looked({t}) /\ drain'.timer = drain.timer
                                   /\ drain'.scheduled = drain.scheduled
    BY <1>0 DEF LeftWithout, Looked, Drains
  <1>4. CASE RequestStart(t)
    <2>1. UNCHANGED drain /\ Looked({t})
      BY <1>2, <1>4 DEF RequestStart
    <2>2. CASE WaitsForPredecessor(t) \/ ~Admitted(t, Context)
      <3>1. UNCHANGED attempt /\ row'[t] = Enqueued(row[t]) /\ ~IsActive(row[t])
        BY <1>0, <1>4, <2>2, Written DEF RequestStart
      <3>2. row'[t].state = "queued"
        BY <3>1 DEF Enqueued
      <3>3. ~Wants(t)'
        <4>1. CASE WaitsForPredecessor(t)
          BY <1>0, <4>1, WaitsStill DEF Wants, Ready
        <4>2. CASE ~Admitted(t, Context)
          BY <1>0, <3>1, <4>2, RefusedBeside
        <4>3. QED
          BY <2>2, <4>1, <4>2
      <3>4. Quieter(t)
        BY <1>0, <1>1, <3>1, <3>2, <3>3 DEF Quieter, Backing
      <3>5. QED
        BY <1>0, <2>1, <3>4 DEF Heeds
    <2>3. CASE ~(WaitsForPredecessor(t) \/ ~Admitted(t, Context))
      <3>1. /\ row'[t] = Claimed(Enqueued(row[t]))
            /\ attempt'[t] = [phase |-> "claimed", generation |-> Claimed(Enqueued(row[t])).generation,
                              open |-> TRUE, kind |-> "request"]
        BY <1>0, <1>4, <2>3, Written DEF RequestStart
      <3>2. Busy(t)' /\ ~IsDispatchable(row'[t])
        BY <1>0, <3>1, OutOfQueue DEF Busy, Reserved
      <3>3. Quieter(t)
        BY <1>0, <3>2, QuietLeaves
      <3>4. QED
        BY <1>0, <2>1, <3>3 DEF Heeds
    <2>4. QED
      BY <2>2, <2>3
  <1>5. CASE ExplicitStart(t)
    BY <1>0, <1>5, Scheduling DEF ExplicitStart, Heeds
  <1>6. CASE BackoffElapses(t)
    <2>1. /\ UNCHANGED <<attempt, drain>> /\ row[t].state = "retrying"
          /\ row'[t] = BackoffOver(row[t])
      BY <1>0, <1>6, Written DEF BackoffElapses
    <2>2. row'[t].due /\ row'[t].state = "retrying"
      BY <1>0, <2>1, RowFates DEF BackoffOver, Rows
    <2>3. CASE t \in drain.timer
      <3>1. Called'
        BY <2>1, <2>2, <2>3 DEF Called, Backing
      <3>2. QED
        BY <3>1 DEF Heeds, Heard
    <2>4. CASE t \notin drain.timer
      <3>1. Ready(t)' => Ready(t)
        <4>1. IsDispatchable(row[t])
          BY <2>1 DEF IsDispatchable, DispatchableStates
        <4>2. WaitsForPredecessor(t) => WaitsForPredecessor(t)'
          BY <1>0, WaitsStill
        <4>3. QED
          BY <1>0, <2>1, <4>1, <4>2 DEF Ready, StartPending
      <3>2. Waiting(t) => Waiting(t)'
        BY <2>1, <2>4 DEF Waiting
      <3>3. Quieter(t)
        BY <1>0, <1>1, <2>1, <2>2, <3>1, <3>2 DEF Quieter, Wants, Backing
      <3>4. QED
        BY <1>0, <1>2, <2>1, <3>3 DEF Heeds
    <2>5. QED
      BY <2>3, <2>4
  <1>7. CASE DrainCancels(t)
    <2>1. UNCHANGED attempt /\ drain' = LeftWithout(t) /\ row'[t] = Ended(row[t], "cancelled")
      BY <1>0, <1>7, Written DEF DrainCancels
    <2>2. Quieter(t)
      BY <1>0, <1>1, <2>1, OutOfQueue, QuietLeaves
    <2>3. QED
      BY <1>0, <1>3, <2>1, <2>2 DEF Heeds
  <1>8. CASE DrainFindsRunning(t)
    <2>1. /\ UNCHANGED attempt /\ drain' = LeftWithout(t) /\ HasActive(t)
          /\ row'[t] = Recovered(row[t]) \/ row'[t] = row[t]
      BY <1>0, <1>8, Written DEF DrainFindsRunning
    <2>2. Busy(t)'
      BY <1>0, <1>1, <2>1 DEF HasActive, Busy
    <2>3. row'[t] = row[t] \/ row'[t].state # "retrying"
      BY <1>0, <2>1, OutOfQueue DEF IsDispatchable, DispatchableStates
    <2>4. QED
      BY <1>0, <1>3, <2>1, <2>2, <2>3, QuietBusy DEF Heeds
  <1>9. CASE DrainPasses(t)
    <2>0. UNCHANGED <<row, attempt>> /\ t \in drain.left
      BY <1>9 DEF DrainPasses, Visiting
    <2>1. Busy(t) => Busy(t)'
      BY <1>1, <2>0
    <2>2. CASE /\ StartPending(t) \/ (~HasActive(t) /\ row[t].due /\ WaitsForPredecessor(t))
               /\ drain' = LeftWithout(t)
      <3>1. ~Ready(t)'
        BY <1>0, <2>0, <2>2, WaitsStill DEF Ready, StartPending
      <3>2. QED
        BY <1>0, <1>3, <2>0, <2>1, <2>2, <3>1, QuietUnready DEF Heeds
    <2>3. CASE /\ ~row[t].due
               /\ drain' = [LeftWithout(t) EXCEPT !.timer = @ \cup {t}]
      <3>1. /\ drain'.timer = drain.timer \cup {t} /\ drain'.left = drain.left \ {t}
            /\ drain'.scheduled = drain.scheduled
        BY <1>0, <2>3 DEF LeftWithout, Drains
      <3>2. Looked({t})
        BY <3>1 DEF Looked
      <3>3. Called' \/ Waiting(t)'
        BY <2>0, <3>1 DEF Called, Waiting, Backing
      <3>4. Quieter(t)
        BY <1>0, <2>0, <2>1, <3>3 DEF Quieter, Backing
      <3>5. QED
        BY <1>0, <3>2, <3>4 DEF Heeds
    <2>4. CASE ~Admitted(t, Context) /\ drain' = LeftWithout(t)
      <3>1. ~Wants(t)'
        BY <1>0, <2>0, <2>4, RefusedBeside
      <3>2. Quieter(t)
        BY <1>0, <2>0, <2>1, <3>1 DEF Quieter, Backing
      <3>3. QED
        BY <1>0, <1>3, <2>4, <3>2 DEF Heeds
    <2>5. CASE ~Admitted(t, Context) /\ AdmissionReason(t, Context) \in GlobalReasons
      <3>1. Beside' = Beside
        BY <1>0, <2>0 DEF Beside, Busy, Working, Stopping, Reserved
      <3>2. \A u \in Tasks : Busy(u)' <=> Busy(u)
        BY <1>0, <2>0 DEF Busy, Working, Stopping, Reserved
      <3>3. \A u \in Tasks : ~Wants(u)'
        BY <2>5, <3>1, <3>2, RefusesAll, Decided DEF Wants
      <3>4. QED
        BY <3>3 DEF Heeds, Heard
    <2>6. QED
      BY <1>9, <2>2, <2>3, <2>4, <2>5 DEF DrainPasses
  <1>10. CASE DrainClaims(t)
    <2>1. /\ row'[t] = Claimed(row[t]) /\ drain' = LeftWithout(t)
          /\ attempt'[t] = [phase |-> "claimed", generation |-> Claimed(row[t]).generation,
                            open |-> TRUE, kind |-> "drain"]
      BY <1>0, <1>10, Written DEF DrainClaims
    <2>2. Busy(t)' /\ ~IsDispatchable(row'[t])
      BY <1>0, <2>1, OutOfQueue DEF Busy, Reserved
    <2>3. QED
      BY <1>0, <1>3, <2>1, <2>2, QuietLeaves DEF Heeds
  <1>11. QED
    BY <1>4, <1>5, <1>6, <1>7, <1>8, <1>9, <1>10 DEF Asks

\* A start gives its slot back with a drain, or to the teardown of its session.
LEMMA StartHeard ==
    ASSUME Shaped, NEW t \in Tasks, SingleAt(t), StartStep(t)
    PROVE  Heeds(t)
  <1>0. /\ row[t] \in Rows /\ attempt[t] \in Attempts /\ attempt \in [Tasks -> Attempts]
        /\ sessions \in [Tasks -> Seq(Sessions)] /\ stopping \in [Tasks -> Teardowns]
        /\ task \in [Tasks -> TaskStates]
    BY DEF Shaped
  <1>1. ScheduleDrain => Heeds(t)
    BY Scheduling DEF Heeds
  <1>2. UNCHANGED drain => Looked({t})
    BY DEF Looked
  <1>3. ASSUME UNCHANGED <<row, task, drain, pauses>>, attempt'[t].phase # "none",
               Busy(t) => Busy(t)'
        PROVE  Heeds(t)
    BY <1>2, <1>3, QuietPending DEF Heeds
  <1>4. ASSUME NEW p, attempt' = [attempt EXCEPT ![t].phase = p], attempt[t].phase # "closing",
               UNCHANGED <<sessions, stopping>>
        PROVE  Busy(t) => Busy(t)'
    BY <1>4, Written, BusyKept DEF Reserved
  <1>5. CASE MarkStarting(t)
    <2>1. /\ attempt[t].phase = "claimed" /\ attempt' = [attempt EXCEPT ![t].phase = "preparing"]
          /\ row'[t] = MarkedStarting(row[t])
          /\ UNCHANGED <<task, pauses, sessions, stopping, drain>>
      BY <1>5, Written DEF MarkStarting
    <2>2. Busy(t) => Busy(t)'
      BY <1>4, <2>1
    <2>3. QED
      BY <1>0, <1>2, <2>1, <2>2, OutOfQueue, QuietLeaves DEF Heeds
  <1>6. CASE BeginCreate(t)
    <2>1. \/ ScheduleDrain
          \/ /\ attempt[t].phase = "preparing"
             /\ attempt' = [attempt EXCEPT ![t].phase = "creating"]
             /\ UNCHANGED <<row, task, pauses, sessions, stopping, drain>>
      BY <1>6 DEF BeginCreate, Reject, At
    <2>2. CASE /\ attempt[t].phase = "preparing"
               /\ attempt' = [attempt EXCEPT ![t].phase = "creating"]
               /\ UNCHANGED <<row, task, pauses, sessions, stopping, drain>>
      <3>1. attempt'[t].phase = "creating"
        BY <2>2, Written
      <3>2. Busy(t) => Busy(t)'
        BY <1>4, <2>2
      <3>3. QED
        BY <1>3, <2>2, <3>1, <3>2
    <2>3. QED
      BY <1>1, <2>1, <2>2
  <1>7. CASE CreateSucceeds(t)
    <2>1. attempt[t].phase = "creating" /\ ~Live(t) /\ ~Stopping(t)
      BY <1>7 DEF CreateSucceeds, At, SingleAt, Opening
    <2>2. sessions[t] = <<>> /\ DOMAIN <<>> = {}
      BY <2>1 DEF Live
    <2>3. Busy(t) => Reserved(t)
      BY <2>1, <2>2 DEF Busy, Working
    <2>4. PICK p \in {"binding", "fencing"} : attempt' = [attempt EXCEPT ![t].phase = p]
      BY <1>7 DEF CreateSucceeds
    <2>5. attempt'[t].phase # "none" /\ (Reserved(t) => Reserved(t)')
      BY <2>4, Written DEF Reserved
    <2>6. Busy(t) => Busy(t)'
      BY <2>3, <2>5 DEF Busy
    <2>7. /\ UNCHANGED <<row, pauses, drain>>
          /\ task'[t].status = "completed" => task[t].status = "completed"
      BY <1>0, <1>7 DEF CreateSucceeds, SetTask, TaskStates
    <2>8. Quieter(t)
      BY <2>5, <2>6, <2>7, QuietPending
    <2>9. QED
      BY <1>2, <2>7, <2>8 DEF Heeds
  <1>8. CASE CheckBeforePrompt(t)
    <2>1. /\ attempt[t].phase = "binding"
          /\ \/ ScheduleDrain
             \/ /\ attempt' = [attempt EXCEPT ![t].phase = "prompting"]
                /\ UNCHANGED <<row, task, pauses, sessions, stopping, drain>>
             \/ FenceOwn(t, "fencing") /\ UNCHANGED <<row, task, pauses, drain>>
      BY <1>8 DEF CheckBeforePrompt, Reject, At
    <2>2. CASE /\ attempt' = [attempt EXCEPT ![t].phase = "prompting"]
               /\ UNCHANGED <<row, task, pauses, sessions, stopping, drain>>
      <3>1. attempt'[t].phase = "prompting"
        BY <2>2, Written
      <3>2. Busy(t) => Busy(t)'
        BY <1>4, <2>1, <2>2
      <3>3. QED
        BY <1>3, <2>2, <3>1, <3>2
    <2>3. CASE FenceOwn(t, "fencing") /\ UNCHANGED <<row, task, pauses, drain>>
      <3>1. attempt' = [attempt EXCEPT ![t].phase = "fencing"]
        BY <2>3, Fencing
      <3>2. stopping'[t].by = "fence" \/ UNCHANGED <<sessions, stopping>>
        BY <2>1, <2>3, TakenAway, Fencing DEF Prompting
      <3>3. Busy(t) => Busy(t)'
        <4>1. CASE stopping'[t].by = "fence"
          BY <4>1 DEF Busy, Stopping
        <4>2. CASE UNCHANGED <<sessions, stopping>>
          <5>1. attempt[t].phase # "closing"
            BY <2>1
          <5>2. QED
            BY <1>4, <3>1, <4>2, <5>1
        <4>3. QED
          BY <3>2, <4>1, <4>2
      <3>4. attempt'[t].phase = "fencing"
        BY <3>1, Written
      <3>5. QED
        BY <1>3, <2>3, <3>3, <3>4
    <2>4. QED
      BY <1>1, <2>1, <2>2, <2>3
  <1>9. CASE PromptFails(t)
    <2>1. /\ attempt' = [attempt EXCEPT ![t].phase = "closing"]
          /\ row'[t] = Ended(row[t], "failed") /\ UNCHANGED <<task, pauses, drain>>
      BY <1>9, Written DEF PromptFails
    <2>2. Busy(t)'
      BY <2>1, Written DEF Busy
    <2>3. QED
      BY <1>0, <1>2, <2>1, <2>2, OutOfQueue, QuietLeaves DEF Heeds
  <1>10. CASE StartFails(t) \/ PromptAccepted(t) \/ CloseSettles(t) \/ FenceEnds(t)
              \/ CreateTimesOut(t) \/ OrphanSettles(t) \/ StartTimesOut(t)
    <2>1. ScheduleDrain
      BY <1>10 DEF StartFails, PromptAccepted, CloseSettles, FenceEnds, CreateTimesOut,
                   OrphanSettles, StartTimesOut, Reject
    <2>2. QED
      BY <1>1, <2>1
  <1>11. QED
    BY <1>5, <1>6, <1>7, <1>8, <1>9, <1>10 DEF StartStep

\* What is done to a session leaves its slot taken, or asks for a drain.
LEMMA SessionHeard ==
    ASSUME Shaped, NEW t \in Tasks, SingleAt(t), SessionStep(t), ~TeardownRefused(t)
    PROVE  Heeds(t)
  <1>0. /\ row[t] \in Rows /\ task \in [Tasks -> TaskStates] /\ task[t] \in TaskStates
        /\ sessions \in [Tasks -> Seq(Sessions)] /\ stopping \in [Tasks -> Teardowns]
        /\ Len(sessions[t]) <= 1
    BY DEF Shaped, SingleAt
  <1>1. ScheduleDrain => Heeds(t)
    BY Scheduling DEF Heeds
  <1>2. UNCHANGED drain => Looked({t})
    BY DEF Looked
  <1>3. UNCHANGED attempt
    BY DEF SessionStep, StopByTaskId, StopLooksAgain, StopSession, TeardownSettles,
           TeardownRefused, TurnEnds, ReviewLands, Reap, MessageWakes, SetLabel, Complete, Repair
  <1>4. ASSUME UNCHANGED <<sessions, stopping>> PROVE Busy(t) => Busy(t)'
    BY <1>3, <1>4, BusyKept DEF Reserved
  <1>5. \A i \in DOMAIN sessions[t] : \A by \in {"user", "ui"} :
            BeginTeardown(t, i, by) => Busy(t)'
    BY TakenAway DEF Busy, Stopping
  <1>6. ASSUME UNCHANGED <<row, sessions, stopping, pauses, drain>>,
               task'[t].status = "completed" <=> task[t].status = "completed",
               \A u \in Tasks \ {t} : task'[u] = task[u]
        PROVE  Heeds(t)
    <2>1. Looked({}) /\ Looked({t})
      BY <1>6 DEF Looked
    <2>2. \A p \in Tasks : task'[p].status = "completed" => task[p].status = "completed"
      BY <1>6
    <2>3. Quieter(t)
      BY <1>3, <1>6, <2>1, <2>2, QuietAsBefore
    <2>4. QED
      BY <1>6, <2>1, <2>3 DEF Heeds
  <1>7. ASSUME UNCHANGED <<pauses, drain>>, Busy(t)', row'[t] = row[t],
               task'[t].status = "completed" => task[t].status = "completed"
        PROVE  Heeds(t)
    BY <1>2, <1>7, QuietBusy DEF Heeds
  <1>8. ASSUME UNCHANGED <<pauses, drain>>, Busy(t) => Busy(t)', ~IsDispatchable(row'[t]),
               task'[t].status = "completed" => task[t].status = "completed"
        PROVE  Heeds(t)
    BY <1>2, <1>8, QuietLeaves DEF Heeds
  <1>9. CASE StopByTaskId(t)
    <2>1. /\ UNCHANGED <<task, pauses, drain>>
          /\ \/ UNCHANGED <<row, sessions, stopping>>
             \/ Live(t) /\ BeginTeardown(t, 1, "user") /\ UNCHANGED row
             \/ row'[t] = Cancelled(row[t]) /\ UNCHANGED <<sessions, stopping>>
      BY <1>9, Written DEF StopByTaskId
    <2>2. Live(t) => 1 \in DOMAIN sessions[t]
      BY <1>0, OneSession
    <2>3. ~IsDispatchable(Cancelled(row[t]))
      BY <1>0, OutOfQueue
    <2>4. CASE UNCHANGED <<row, sessions, stopping>>
      BY <1>6, <2>1, <2>4
    <2>5. CASE Live(t) /\ BeginTeardown(t, 1, "user") /\ UNCHANGED row
      BY <1>5, <1>7, <2>1, <2>2, <2>5
    <2>6. CASE row'[t] = Cancelled(row[t]) /\ UNCHANGED <<sessions, stopping>>
      BY <1>4, <1>8, <2>1, <2>3, <2>6
    <2>7. QED
      BY <2>1, <2>4, <2>5, <2>6
  <1>10. CASE StopLooksAgain(t)
    <2>1. /\ UNCHANGED <<row, pauses, drain>>
          /\ \/ Live(t) /\ BeginTeardown(t, 1, "user") /\ UNCHANGED task
             \/ UNCHANGED <<sessions, stopping, task>>
             \/ /\ task[t].status = "agent_working" /\ SetTask(t, "not_started", FALSE)
                /\ UNCHANGED <<sessions, stopping>>
      BY <1>10 DEF StopLooksAgain
    <2>2. Live(t) => 1 \in DOMAIN sessions[t]
      BY <1>0, OneSession
    <2>3. CASE Live(t) /\ BeginTeardown(t, 1, "user") /\ UNCHANGED task
      BY <1>5, <1>7, <2>1, <2>2, <2>3
    <2>4. CASE UNCHANGED <<sessions, stopping, task>>
      BY <1>6, <2>1, <2>4
    <2>5. CASE /\ task[t].status = "agent_working" /\ SetTask(t, "not_started", FALSE)
               /\ UNCHANGED <<sessions, stopping>>
      <3>1. task'[t].status = "not_started" /\ \A u \in Tasks \ {t} : task'[u] = task[u]
        BY <1>0, <2>5, TaskWritten DEF SetTask
      <3>2. QED
        BY <1>6, <2>1, <2>5, <3>1
    <2>6. QED
      BY <2>1, <2>3, <2>4, <2>5
  <1>11. CASE StopSession(t)
    <2>1. /\ \E i \in DOMAIN sessions[t] : BeginTeardown(t, i, "ui")
          /\ row'[t] = Cancelled(row[t]) /\ UNCHANGED <<task, pauses, drain>>
      BY <1>11, Written DEF StopSession
    <2>2. Busy(t)' /\ ~IsDispatchable(Cancelled(row[t]))
      BY <1>0, <1>5, <2>1, OutOfQueue
    <2>3. QED
      BY <1>8, <2>1, <2>2
  <1>12. CASE TeardownSettles(t)
    <2>1. ~Live(t)
      BY <1>12 DEF TeardownSettles, SingleAt
    <2>2. QED
      BY <1>1, <1>12, <2>1 DEF TeardownSettles
  <1>13. CASE TurnEnds(t)
    <2>1. PICK i \in DOMAIN sessions[t] :
              sessions' = [sessions EXCEPT ![t][i].status = "idle", ![t][i].reviewing = TRUE]
      BY <1>13 DEF TurnEnds
    <2>2. sessions[t][i] \in Sessions /\ sessions[t] \in Seq(Sessions)
      BY <1>0
    <2>3. /\ sessions'[t] = [sessions[t] EXCEPT ![i] = [@ EXCEPT !.status = "idle", !.reviewing = TRUE]]
          /\ i \in DOMAIN sessions'[t]
      BY <1>0, <2>1
    <2>4. sessions'[t][i].reviewing
      BY <2>2, <2>3 DEF Sessions
    <2>5. Busy(t)'
      BY <2>3, <2>4 DEF Busy
    <2>6. UNCHANGED <<row, task, pauses, drain>>
      BY <1>13 DEF TurnEnds
    <2>7. QED
      BY <1>7, <2>5, <2>6
  <1>14. CASE ReviewLands(t)
    BY <1>1, <1>14 DEF ReviewLands
  <1>15. CASE Reap(t)
    <2>1. PICK i \in DOMAIN sessions[t] : sessions' = [sessions EXCEPT ![t] = RemoveAt(@, i)]
      BY <1>15 DEF Reap
    <2>2. sessions'[t] = <<>>
      BY <1>0, <2>1, OneSession
    <2>3. QED
      BY <1>1, <1>15, <2>2 DEF Reap
  <1>16. CASE MessageWakes(t)
    <2>1. PICK i \in DOMAIN sessions[t] :
              sessions' = [sessions EXCEPT ![t][i].status = "working"]
      BY <1>16 DEF MessageWakes
    <2>2. sessions[t][i] \in Sessions /\ sessions[t] \in Seq(Sessions)
      BY <1>0
    <2>3. /\ sessions'[t] = [sessions[t] EXCEPT ![i] = [@ EXCEPT !.status = "working"]]
          /\ i \in DOMAIN sessions'[t]
      BY <1>0, <2>1
    <2>4. sessions'[t][i].status = "working"
      BY <2>2, <2>3 DEF Sessions
    <2>5. Busy(t)'
      BY <2>3, <2>4 DEF Busy, Working
    <2>6. UNCHANGED <<row, pauses, drain>> /\ task' = [task EXCEPT ![t].status = "agent_working"]
      BY <1>16 DEF MessageWakes
    <2>7. task'[t].status = "agent_working"
      BY <1>0, <2>6 DEF TaskStates
    <2>8. QED
      BY <1>7, <2>5, <2>6, <2>7
  <1>17. CASE SetLabel(t)
    <2>1. /\ task' = [task EXCEPT ![t].excluded = ~@]
          /\ UNCHANGED <<row, sessions, stopping, pauses, drain>>
      BY <1>17 DEF SetLabel
    <2>2. task'[t].status = task[t].status /\ \A u \in Tasks \ {t} : task'[u] = task[u]
      BY <1>0, <2>1 DEF TaskStates
    <2>3. QED
      BY <1>6, <2>1, <2>2
  <1>18. CASE Complete(t)
    BY <1>1, <1>18 DEF Complete
  <1>19. CASE Repair(t)
    <2>1. /\ UNCHANGED <<pauses, sessions, stopping>> /\ task[t].status = "agent_working"
          /\ \/ ScheduleDrain
             \/ /\ SetTask(t, "ready_for_review", TRUE)
                /\ row'[t] = Recovered(row[t]) /\ UNCHANGED drain
             \/ /\ SetTask(t, "not_started", FALSE)
                /\ IsTerminal(row[t]) /\ UNCHANGED <<row, drain>>
      BY <1>19, Written DEF Repair
    <2>2. /\ SetTask(t, "ready_for_review", TRUE) => task'[t].status = "ready_for_review"
          /\ SetTask(t, "not_started", FALSE) => task'[t].status = "not_started"
      BY <1>0, TaskWritten DEF SetTask
    <2>3. ~IsDispatchable(Recovered(row[t])) /\ (IsTerminal(row[t]) => ~IsDispatchable(row[t]))
      BY <1>0, OutOfQueue, RowFates
    <2>4. Busy(t) => Busy(t)'
      BY <1>4, <2>1
    <2>5. QED
      BY <1>1, <1>8, <2>1, <2>2, <2>3, <2>4
  <1>20. QED
    BY <1>9, <1>10, <1>11, <1>12, <1>13, <1>14, <1>15, <1>16, <1>17, <1>18, <1>19 DEF SessionStep

\* The invariant's wakeup survives every step after boot.
LEMMA HeardStep ==
    ASSUME SInv, [Next]_vars, Undisturbed', boot.phase = "done", boot'.phase = "done", Heard
    PROVE  Heard'
  <1>0. Shaped /\ HInv /\ drain \in Drains
    BY DEF SInv, HInv, Shaped
  <1>1. {"crash", "timeout", "refuse"} \subseteq Kinds
    BY DEF Kinds
  <1>2. Undisturbed
    BY <1>0, <1>1, SpentStaysSpent DEF Undisturbed
  <1>3. \A t \in Tasks : SingleAt(t)
    BY <1>2 DEF SInv
  <1>4. ScheduleDrain => Heard'
    BY <1>0, Scheduling
  <1>5. ASSUME UNCHANGED <<row, task, sessions, attempt, stopping, drain>>,
               pauses.all => pauses'.all, pauses.projects \subseteq pauses'.projects
        PROVE  Heard'
    <2>1. Looked({})
      BY <1>5 DEF Looked
    <2>2. \A u \in Tasks : Quieter(u)
      <3>1. SUFFICES ASSUME NEW u \in Tasks PROVE Quieter(u)
        OBVIOUS
      <3>2. QED
        BY <1>5, <2>1, QuietAsBefore
    <2>3. QED
      BY <1>0, <1>5, <2>1, <2>2, StillHeard
  <1>6. CASE Common
    <2>1. ~Crash /\ ~BootRequeues
      <3>1. [phase |-> "claims", stale |-> {}].phase # "done"
        OBVIOUS
      <3>2. ~Crash
        BY <3>1 DEF Crash
      <3>3. QED
        BY <3>2 DEF BootRequeues
    <2>2. CASE BootEnds \/ Unpause \/ Sweep
      BY <1>4, <2>2 DEF BootEnds, Unpause, Sweep
    <2>3. CASE DrainBegins
      <3>1. /\ drain' = [drain EXCEPT !.scheduled = FALSE, !.left = {t \in Tasks : IsDispatchable(row[t])}]
            /\ UNCHANGED row
        BY <2>3 DEF DrainBegins
      <3>2. drain'.left = {t \in Tasks : IsDispatchable(row[t])}
        BY <1>0, <3>1 DEF Drains
      <3>3. \A t \in Tasks : Wants(t)' => t \in drain'.left
        BY <3>1, <3>2 DEF Wants, Ready, IsDispatchable
      <3>4. QED
        BY <3>3 DEF Heard, Waiting
    <2>4. CASE RetryTimerFires
      <3>1. CASE \E t \in Tasks : IsActive(row[t])
        <4>1. drain' = [drain EXCEPT !.scheduled = TRUE, !.timer = {}]
          BY <2>4, <3>1 DEF RetryTimerFires
        <4>2. drain'.scheduled
          BY <1>0, <4>1 DEF Drains
        <4>3. QED
          BY <4>2 DEF Heard, Called
      <3>2. CASE ~\E t \in Tasks : IsActive(row[t])
        <4>1. UNCHANGED row
          BY <2>4 DEF RetryTimerFires
        <4>2. \A t \in Tasks : ~Wants(t)'
          BY <3>2, <4>1 DEF Wants, Ready, IsDispatchable, IsActive, ActiveStates
        <4>3. QED
          BY <4>2 DEF Heard
      <3>3. QED
        BY <3>1, <3>2
    <2>5. CASE Pause
      <3>1. UNCHANGED <<row, task, sessions, attempt, stopping, drain>>
        BY <2>5 DEF Pause
      <3>2. (pauses.all => pauses'.all) /\ pauses.projects \subseteq pauses'.projects
        <4>1. pauses \in Pauses
          BY <1>0 DEF Shaped
        <4>2. CASE pauses' = [pauses EXCEPT !.all = TRUE]
          BY <4>1, <4>2 DEF Pauses
        <4>3. ASSUME NEW p, pauses' = [pauses EXCEPT !.projects = @ \cup {p}]
              PROVE  (pauses.all => pauses'.all) /\ pauses.projects \subseteq pauses'.projects
          BY <4>1, <4>3 DEF Pauses
        <4>4. QED
          BY <2>5, <4>2, <4>3 DEF Pause
      <3>3. QED
        BY <1>5, <3>1, <3>2
    <2>6. QED
      BY <1>6, <2>1, <2>2, <2>3, <2>4, <2>5 DEF Common
  <1>7. ASSUME NEW t \in Tasks, About(t) PROVE Heard'
    <2>1. Heeds(t)
      <3>1. CASE Asks(t)
        BY <1>0, <3>1, AskingHeard
      <3>2. CASE StartStep(t)
        BY <1>0, <1>3, <3>2, StartHeard
      <3>3. CASE SessionStep(t)
        <4>1. TeardownRefused(t) => Spend("refuse")
          BY DEF TeardownRefused
        <4>2. Spend("refuse") => ~Never("refuse")'
          BY <1>0, <1>1, HelperTypes
        <4>3. ~TeardownRefused(t)
          BY <4>1, <4>2 DEF Undisturbed
        <4>4. QED
          BY <1>0, <1>3, <3>3, <4>3, SessionHeard
      <3>4. CASE Recovers(t)
        <4>1. ~BootSkips(t) /\ ~BootResets(t) /\ ~BootResumes(t)
          BY DEF BootSkips, BootResets, BootResumes, BootTurn
        <4>2. ~ResumeTimesOut(t)
          <5>1. SUFFICES ASSUME ResumeTimesOut(t) PROVE FALSE
            OBVIOUS
          <5>2. Resuming(t) /\ Spend("timeout")
            BY <5>1 DEF ResumeTimesOut
          <5>3. ~Never("timeout")' /\ (Never("crash")' => Never("crash"))
            BY <1>0, <1>1, <5>2, HelperTypes
          <5>4. ~Never("crash")
            BY <1>3, <5>2 DEF SingleAt
          <5>5. QED
            BY <5>3, <5>4 DEF Undisturbed
        <4>3. ScheduleDrain
          BY <3>4, <4>1, <4>2 DEF Recovers, ResumeStep, ResumeReturns, ResumeFails
        <4>4. QED
          BY <1>4, <4>3 DEF Heeds
      <3>5. QED
        BY <1>7, <3>1, <3>2, <3>3, <3>4 DEF About
    <2>2. CASE Looked({t}) /\ UNCHANGED pauses /\ Quieter(t)
      <3>1. \A u \in Tasks \ {t} : Untouched(u)
        BY <1>0, <1>7, Elsewhere
      <3>2. \A p \in Tasks : task'[p].status = "completed" => task[p].status = "completed"
        BY <2>2, <3>1 DEF Untouched, Quieter
      <3>3. ASSUME NEW u \in Tasks \ {t} PROVE Quieter(u)
        BY <2>2, <3>1, <3>2, QuietAsBefore DEF Untouched
      <3>4. \A u \in Tasks : Quieter(u)
        BY <2>2, <3>3
      <3>5. (pauses.all => pauses'.all) /\ pauses.projects \subseteq pauses'.projects
        BY <2>2
      <3>6. QED
        BY <1>0, <2>2, <3>4, <3>5, StillHeard
    <2>3. QED
      BY <2>1, <2>2 DEF Heeds
  <1>8. CASE UNCHANGED vars
    BY <1>5, <1>8 DEF vars
  <1>9. QED
    BY <1>6, <1>7, <1>8, NextIs

\* It is inductive: boot schedules a drain when it ends.
LEMMA WakeupStep ==
    ASSUME NInv, [Next]_vars
    PROVE  NInv'
  <1>0. SInv /\ Shaped
    BY DEF NInv, SInv, HInv
  <1>1. SInv'
    BY <1>0, SingleStep
  <1>2. ASSUME Undisturbed', boot'.phase = "done" PROVE Heard'
    <2>1. {"crash", "timeout", "refuse"} \subseteq Kinds
      BY DEF Kinds
    <2>2. Undisturbed
      BY <1>0, <1>2, <2>1, SpentStaysSpent DEF Undisturbed
    <2>3. CASE boot.phase = "done"
      BY <1>0, <1>2, <2>2, <2>3, HeardStep DEF NInv
    <2>4. CASE boot.phase # "done"
      <3>1. ASSUME NEW t \in Tasks, About(t) PROVE FALSE
        BY <1>0, <1>2, <2>4, <3>1, AboutKeepsBoot
      <3>2. [phase |-> "claims", stale |-> {}].phase # "done"
        OBVIOUS
      <3>3. ~Crash
        BY <1>2, <3>2 DEF Crash
      <3>4. ~BootRequeues
        BY <1>2 DEF BootRequeues
      <3>5. ~DrainBegins /\ ~RetryTimerFires /\ ~Pause /\ ~Unpause /\ ~Sweep /\ ~UNCHANGED vars
        BY <1>2, <2>4 DEF DrainBegins, RetryTimerFires, Pause, Unpause, Sweep, vars
      <3>6. BootEnds
        BY <3>1, <3>3, <3>4, <3>5, NextIs DEF Common
      <3>7. QED
        BY <1>0, <3>6, Scheduling DEF BootEnds
    <2>5. QED
      BY <2>3, <2>4
  <1>3. QED
    BY <1>1, <1>2 DEF NInv

\* It holds when the service starts, with nothing to be started.
LEMMA InitHeard == Init => NInv
  <1> SUFFICES ASSUME Init PROVE NInv
    OBVIOUS
  <1>1. \A t \in Tasks : ~IsDispatchable(row[t])
    BY DEF Init, NoRow, IsDispatchable, DispatchableStates
  <1>2. Heard
    BY <1>1 DEF Heard, Wants, Ready
  <1>3. QED
    BY <1>2, InitSingle DEF NInv

\* No wakeup is lost: while a waiting start could run, a drain is due or about to be asked
\* for, in every behaviour in which no start goes beside an idle session, no backend
\* refuses to go, and no deadline passes where a process recovers from a crash.
THEOREM WakeupsReach == Spec => [](Undisturbed => NoMissedWakeup)
  <1>1. NInv => (Undisturbed => NoMissedWakeup)
    <2> SUFFICES ASSUME NInv, Undisturbed, Serving, ~drain.scheduled,
                        ~\E u \in drain.timer : row[u].due \/ row[u].state # "retrying",
                        ~\E u \in Tasks : \/ attempt[u].phase = "closing"
                                          \/ \E i \in DOMAIN sessions[u] : sessions[u][i].reviewing,
                        NEW t \in Tasks, MayClaim(row[t]), Startable(t), Admitted(t, Context)
                 PROVE  FALSE
      BY DEF NoMissedWakeup
    <2>0. HInv /\ HeldAt(t) /\ boot.phase = "done" /\ drain.left = {}
      BY DEF NInv, SInv, HInv, Serving, Quiet
    <2>1. ~Called
      BY DEF Called, Backing
    <2>2. ~Waiting(t)
      BY <2>0 DEF Waiting, Backing, Startable
    <2>3. ~Busy(t)
      <3>1. attempt[t] = NoAttempt
        BY <2>0 DEF Startable, StartPending, HeldAt, StartShape
      <3>2. QED
        BY <3>1 DEF Busy, Startable, HasActive, Reserved, NoAttempt
    <2>4. Ready(t)
      BY DEF Ready, Startable, MayClaim, Excluded
    <2>5. Beside = Context
      <3>1. {u \in Tasks : Busy(u)} = Counted
        BY DEF Busy, Counted
      <3>2. QED
        BY <3>1 DEF Beside, Context
    <2>6. QED
      BY <2>0, <2>1, <2>2, <2>3, <2>4, <2>5 DEF NInv, Heard, Wants
  <1>2. NInv /\ [Next]_vars => NInv'
    BY WakeupStep
  <1>3. QED
    BY InitHeard, <1>1, <1>2, PTL DEF Spec

==============================================================================
