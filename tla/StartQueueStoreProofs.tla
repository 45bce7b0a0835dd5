------------------------ MODULE StartQueueStoreProofs ------------------------
(***************************************************************************)
(* What the start queue's store promises its callers, proved for any       *)
(* number of tasks, claims and generations and any retry budget.           *)
(*                                                                         *)
(* The invariants are proved one on another: the types first, then what    *)
(* the generation of a held claim says of its row, then what the lease and *)
(* the retry count of a row say of the claims handed out.                  *)
(***************************************************************************)
EXTENDS StartQueueStore, TLAPS

(* The row operations, as facts about one row. *)

\* Every operation of the store leaves a row of the declared shape.
LEMMA RowOperations ==
    ASSUME NEW r \in Rows
    PROVE  /\ Enqueued(r) \in Rows /\ Claimed(r) \in Rows /\ MarkedStarting(r) \in Rows
           /\ Acknowledged(r) \in Rows /\ FailedOrRetrying(r) \in Rows /\ Recovered(r) \in Rows
           /\ \A state \in TerminalStates : Ended(r, state) \in Rows
           /\ AfterCrash(r) \in Rows /\ BackoffOver(r) \in Rows
  <1> USE DEF Rows, RowStates, ActiveStates, DispatchableStates, ClaimedStates, TerminalStates,
              Leases
  <1>1. r.generation + 1 \in Nat /\ r.retryCount + 1 \in Nat
    OBVIOUS
  <1>2. Enqueued(r) \in Rows
    BY <1>1 DEF Enqueued, IsActive
  <1>3. Claimed(r) \in Rows
    BY <1>1 DEF Claimed
  <1>4. MarkedStarting(r) \in Rows /\ Acknowledged(r) \in Rows
    BY DEF MarkedStarting, Acknowledged
  <1>5. FailedOrRetrying(r) \in Rows
    BY <1>1 DEF FailedOrRetrying
  <1>6. Recovered(r) \in Rows
    BY DEF Recovered
  <1>7. \A state \in TerminalStates : Ended(r, state) \in Rows
    BY DEF Ended
  <1>8. AfterCrash(r) \in Rows /\ BackoffOver(r) \in Rows
    BY DEF AfterCrash, BackoffOver
  <1>9. QED
    BY <1>2, <1>3, <1>4, <1>5, <1>6, <1>7, <1>8

\* A task nobody asked to start has the row NoRow, a row like any other.
LEMMA NoRowIsARow == NoRow \in Rows
  BY DEF NoRow, Rows, RowStates, ActiveStates, DispatchableStates, ClaimedStates, TerminalStates,
         Leases

------------------------------------------------------------------------------

\* Every variable keeps its type, whatever calls are made of the store.
THEOREM Typing == Spec => []TypeOK
  <1>1. Init => TypeOK
    BY NoRowIsARow DEF Init, TypeOK
  <1>2. TypeOK /\ [Next]_vars => TypeOK'
    <2> SUFFICES ASSUME TypeOK, [Next]_vars PROVE TypeOK'
      OBVIOUS
    <2> USE RowOperations DEF TypeOK, Put
    <2>1. ASSUME NEW t \in Tasks, Enqueue(t) PROVE TypeOK'
      BY <2>1 DEF Enqueue
    <2>2. ASSUME NEW t \in Tasks, Claim(t) PROVE TypeOK'
      <3>1. Claimed(row[t]).generation \in Nat
        BY DEF Rows
      <3>2. QED
        BY <2>2, <3>1 DEF Claim, Claims
    <2>3. ASSUME NEW t \in Tasks, MarkRecovered(t) \/ BackoffElapses(t) \/ RequeueInterrupted(t)
          PROVE  TypeOK'
      BY <2>3 DEF MarkRecovered, BackoffElapses, RequeueInterrupted
    <2>4. ASSUME NEW t \in Tasks, NEW state \in TerminalStates, End(t, state) PROVE TypeOK'
      BY <2>4 DEF End
    <2>5. ASSUME NEW c \in claims, MarkStarting(c) \/ AcknowledgeStarted(c) \/ FailOrRetry(c)
          PROVE  TypeOK'
      BY <2>5 DEF MarkStarting, AcknowledgeStarted, FailOrRetry, Claims
    <2>6. ASSUME NEW c \in claims, Forget(c) PROVE TypeOK'
      BY <2>6 DEF Forget
    <2>7. CASE Crash
      BY <2>7 DEF Crash
    <2>8. CASE UNCHANGED vars
      BY <2>8 DEF vars
    <2>9. QED
      BY <2>1, <2>2, <2>3, <2>4, <2>5, <2>6, <2>7, <2>8 DEF Next
  <1>3. QED
    BY <1>1, <1>2, PTL DEF Spec

------------------------------------------------------------------------------
(* Claims and generations. *)

\* A held claim is no newer than its row, and where the row's generation is still the
\* claim's, nobody was handed a later claim.
GenerationsFence ==
    \A c \in claims : /\ c.generation <= row[c.task].generation
                      /\ c.generation = row[c.task].generation => c.ticket = ticket[c.task]

\* Only a claim, or a row started over, moves to the next generation.
LEMMA Generations ==
    ASSUME NEW r \in Rows
    PROVE  /\ Enqueued(r).generation = IF IsActive(r) THEN r.generation ELSE r.generation + 1
           /\ Claimed(r).generation = r.generation + 1
           /\ MarkedStarting(r).generation = r.generation
           /\ Acknowledged(r).generation = r.generation
           /\ FailedOrRetrying(r).generation = r.generation
           /\ Recovered(r).generation = r.generation
           /\ \A state \in TerminalStates : Ended(r, state).generation = r.generation
           /\ AfterCrash(r).generation = r.generation
           /\ BackoffOver(r).generation = r.generation
  BY DEF Rows, Enqueued, Claimed, MarkedStarting, Acknowledged, FailedOrRetrying, Recovered,
         Ended, AfterCrash, BackoffOver

\* The generation check of markStarting, acknowledgeStarted and failOrRetry lets only the
\* last claim through.
THEOREM LastClaimSettles == Spec => []OnlyTheLastClaimSettles
  <1>1. Init => GenerationsFence
    BY DEF Init, GenerationsFence
  <1>2. TypeOK /\ GenerationsFence /\ [Next]_vars => GenerationsFence'
    <2> SUFFICES ASSUME TypeOK, GenerationsFence, [Next]_vars PROVE GenerationsFence'
      OBVIOUS
    <2>1. \A c \in claims : c.task \in Tasks /\ c.generation \in Nat /\ row[c.task] \in Rows
      BY DEF TypeOK, Claims
    <2>2. \A t \in Tasks : row[t] \in Rows /\ row[t].generation \in Nat /\ ticket[t] \in Nat
      BY DEF TypeOK, Rows
    <2>3. ASSUME claims' \subseteq claims, UNCHANGED ticket,
                 \A t \in Tasks : \/ row'[t].generation = row[t].generation
                                  \/ row'[t].generation = row[t].generation + 1
          PROVE  GenerationsFence'
      BY <2>1, <2>2, <2>3 DEF GenerationsFence
    <2>4. ASSUME NEW t \in Tasks, Enqueue(t) PROVE GenerationsFence'
      BY <2>2, <2>3, <2>4, Generations DEF Enqueue, Put, TypeOK
    <2>5. ASSUME NEW t \in Tasks, Claim(t) PROVE GenerationsFence'
      <3> DEFINE new == [task |-> t, generation |-> row[t].generation + 1, ticket |-> ticket[t] + 1]
      <3>1. /\ claims' = claims \cup {new}
            /\ row' = [row EXCEPT ![t] = Claimed(row[t])]
            /\ row'[t].generation = row[t].generation + 1
            /\ ticket' = [ticket EXCEPT ![t] = @ + 1]
        BY <2>2, <2>5, Generations DEF Claim, Put, TypeOK
      <3>2. \A c \in claims : /\ c.generation <= row'[c.task].generation
                              /\ c.generation = row'[c.task].generation => c.ticket = ticket'[c.task]
        BY <2>1, <2>2, <3>1 DEF GenerationsFence, TypeOK
      <3>3. /\ new.generation <= row'[new.task].generation
            /\ new.ticket = ticket'[new.task]
        BY <2>2, <3>1 DEF TypeOK
      <3>4. QED
        BY <3>1, <3>2, <3>3 DEF GenerationsFence
    <2>6. ASSUME NEW t \in Tasks, MarkRecovered(t) \/ BackoffElapses(t) \/ RequeueInterrupted(t)
          PROVE  GenerationsFence'
      BY <2>2, <2>3, <2>6, Generations
         DEF MarkRecovered, BackoffElapses, RequeueInterrupted, Put, TypeOK
    <2>7. ASSUME NEW t \in Tasks, NEW state \in TerminalStates, End(t, state)
          PROVE  GenerationsFence'
      BY <2>2, <2>3, <2>7, Generations DEF End, Put, TypeOK
    <2>8. ASSUME NEW c \in claims, MarkStarting(c) \/ AcknowledgeStarted(c) \/ FailOrRetry(c)
          PROVE  GenerationsFence'
      BY <2>1, <2>2, <2>3, <2>8, Generations
         DEF MarkStarting, AcknowledgeStarted, FailOrRetry, Put, TypeOK
    <2>9. ASSUME NEW c \in claims, Forget(c) PROVE GenerationsFence'
      BY <2>3, <2>9 DEF Forget
    <2>10. CASE Crash
      BY <2>10 DEF Crash, GenerationsFence
    <2>11. CASE UNCHANGED vars
      BY <2>3, <2>11 DEF vars
    <2>12. QED
      BY <2>4, <2>5, <2>6, <2>7, <2>8, <2>9, <2>10, <2>11 DEF Next
  <1>3. GenerationsFence => OnlyTheLastClaimSettles
    BY DEF GenerationsFence, OnlyTheLastClaimSettles, Owns
  <1>4. QED
    BY <1>1, <1>2, <1>3, Typing, PTL DEF Spec

------------------------------------------------------------------------------
(* Leases. *)

\* A held claim that still owns its row owns it under this process's lease.
LeasesFence ==
    \A t \in Tasks : /\ IsClaimed(row[t]) <=> row[t].lease # "none"
                     /\ \A c \in claims :
                            c.task = t /\ Owns(row[t], c.generation) => row[t].lease = "current"

\* What each operation does with the lease.
LEMMA LeaseOperations ==
    ASSUME NEW r \in Rows, IsClaimed(r) <=> r.lease # "none"
    PROVE  /\ IsClaimed(Enqueued(r)) <=> Enqueued(r).lease # "none"
           /\ (Enqueued(r).lease = r.lease /\ Enqueued(r).state = r.state) \/ ~IsClaimed(Enqueued(r))
           /\ IsClaimed(Claimed(r)) /\ Claimed(r).lease = "current"
           /\ r.state = "claimed" => /\ IsClaimed(MarkedStarting(r))
                                     /\ MarkedStarting(r).lease = r.lease
           /\ ~IsClaimed(Acknowledged(r)) /\ Acknowledged(r).lease = "none"
           /\ ~IsClaimed(FailedOrRetrying(r)) /\ FailedOrRetrying(r).lease = "none"
           /\ MayRecover(r) => ~IsClaimed(Recovered(r)) /\ Recovered(r).lease = "none"
           /\ MayEnd(r) => \A state \in TerminalStates :
                    ~IsClaimed(Ended(r, state)) /\ Ended(r, state).lease = "none"
           /\ IsClaimed(AfterCrash(r)) <=> AfterCrash(r).lease # "none"
           /\ BackoffOver(r).state = r.state /\ BackoffOver(r).lease = r.lease
  <1> USE DEF Rows, IsClaimed, ClaimedStates, TerminalStates
  <1>1. /\ IsClaimed(Enqueued(r)) <=> Enqueued(r).lease # "none"
        /\ (Enqueued(r).lease = r.lease /\ Enqueued(r).state = r.state) \/ ~IsClaimed(Enqueued(r))
    BY DEF Enqueued
  <1>2. /\ IsClaimed(Claimed(r)) /\ Claimed(r).lease = "current"
        /\ r.state = "claimed" => /\ IsClaimed(MarkedStarting(r))
                                  /\ MarkedStarting(r).lease = r.lease
    BY DEF Claimed, MarkedStarting
  <1>3. /\ ~IsClaimed(Acknowledged(r)) /\ Acknowledged(r).lease = "none"
        /\ ~IsClaimed(FailedOrRetrying(r)) /\ FailedOrRetrying(r).lease = "none"
    BY DEF Acknowledged, FailedOrRetrying
  <1>4. /\ MayRecover(r) => ~IsClaimed(Recovered(r)) /\ Recovered(r).lease = "none"
        /\ MayEnd(r) => \A state \in TerminalStates :
                ~IsClaimed(Ended(r, state)) /\ Ended(r, state).lease = "none"
    BY DEF Recovered, Ended
  <1>5. /\ IsClaimed(AfterCrash(r)) <=> AfterCrash(r).lease # "none"
        /\ BackoffOver(r).state = r.state /\ BackoffOver(r).lease = r.lease
    BY DEF AfterCrash, BackoffOver
  <1>6. QED
    BY <1>1, <1>2, <1>3, <1>4, <1>5

\* The lease tells a boot the claims of dead processes from its own.
THEOREM LeaseHolder == Spec => []LeaseNamesTheHolder
  <1>1. Init => LeasesFence
    BY DEF Init, LeasesFence, NoRow, IsClaimed, ClaimedStates
  <1>2. TypeOK /\ LeasesFence /\ [Next]_vars => LeasesFence'
    <2> SUFFICES ASSUME TypeOK, LeasesFence, [Next]_vars PROVE LeasesFence'
      OBVIOUS
    <2>1. \A t \in Tasks : row[t] \in Rows /\ (IsClaimed(row[t]) <=> row[t].lease # "none")
      BY DEF TypeOK, LeasesFence
    <2>2. ASSUME NEW t \in Tasks, NEW r \in Rows, Put(t, r), claims' \subseteq claims,
                 \/ ~IsClaimed(r) /\ r.lease = "none"
                 \/ /\ IsClaimed(r) <=> IsClaimed(row[t])
                    /\ r.lease = row[t].lease /\ r.generation = row[t].generation
          PROVE  LeasesFence'
      BY <2>1, <2>2 DEF LeasesFence, Put, Owns, TypeOK
    <2>3. ASSUME NEW t \in Tasks, Enqueue(t) PROVE LeasesFence'
      <3>1. CASE IsActive(row[t])
        BY <2>1, <2>2, <2>3, <3>1 DEF Enqueue, Enqueued
      <3>2. CASE ~IsActive(row[t])
        <4>1. Enqueued(row[t]) \in Rows
          BY <2>1, RowOperations
        <4>2. ~IsClaimed(Enqueued(row[t])) /\ Enqueued(row[t]).lease = "none"
          BY <3>2 DEF Enqueued, IsClaimed, ClaimedStates
        <4>3. QED
          BY <2>2, <2>3, <4>1, <4>2 DEF Enqueue
      <3>3. QED
        BY <3>1, <3>2
    <2>4. ASSUME NEW t \in Tasks, Claim(t) PROVE LeasesFence'
      <3>1. /\ row' = [row EXCEPT ![t] = Claimed(row[t])]
            /\ \A c \in claims' : c \in claims \/ c.task = t
        BY <2>4 DEF Claim, Put
      <3>2. IsClaimed(Claimed(row[t])) /\ Claimed(row[t]).lease = "current"
        BY <2>1, LeaseOperations
      <3>3. QED
        BY <2>1, <3>1, <3>2 DEF LeasesFence, TypeOK
    <2>5. ASSUME NEW t \in Tasks, MarkRecovered(t) PROVE LeasesFence'
      BY <2>1, <2>2, <2>5, RowOperations, LeaseOperations DEF MarkRecovered
    <2>6. ASSUME NEW t \in Tasks, BackoffElapses(t) PROVE LeasesFence'
      <3>1. IsClaimed(BackoffOver(row[t])) <=> IsClaimed(row[t])
        BY <2>1, LeaseOperations DEF IsClaimed
      <3>2. QED
        BY <2>1, <2>2, <2>6, <3>1, RowOperations, LeaseOperations, Generations DEF BackoffElapses
    <2>7. ASSUME NEW t \in Tasks, RequeueInterrupted(t) PROVE LeasesFence'
      BY <2>1, <2>2, <2>7, RowOperations, LeaseOperations DEF RequeueInterrupted
    <2>8. ASSUME NEW t \in Tasks, NEW state \in TerminalStates, End(t, state) PROVE LeasesFence'
      BY <2>1, <2>2, <2>8, RowOperations, LeaseOperations DEF End
    <2>9. ASSUME NEW c \in claims, MarkStarting(c) PROVE LeasesFence'
      <3>1. c.task \in Tasks /\ row[c.task].state = "claimed"
        BY <2>9 DEF TypeOK, Claims, MarkStarting, MayMarkStarting
      <3>2. IsClaimed(MarkedStarting(row[c.task])) /\ IsClaimed(row[c.task])
        BY <2>1, <3>1, LeaseOperations DEF IsClaimed, ClaimedStates
      <3>3. /\ MarkedStarting(row[c.task]) \in Rows
            /\ MarkedStarting(row[c.task]).lease = row[c.task].lease
            /\ MarkedStarting(row[c.task]).generation = row[c.task].generation
        BY <2>1, <3>1, RowOperations, LeaseOperations, Generations
      <3>4. Put(c.task, MarkedStarting(row[c.task])) /\ claims' = claims
        BY <2>9 DEF MarkStarting
      <3>5. QED
        BY <2>2, <3>1, <3>2, <3>3, <3>4
    <2>10. ASSUME NEW c \in claims, AcknowledgeStarted(c) \/ FailOrRetry(c) PROVE LeasesFence'
      <3>1. c.task \in Tasks
        BY DEF TypeOK, Claims
      <3>2. CASE AcknowledgeStarted(c)
        <4>1. /\ Acknowledged(row[c.task]) \in Rows
              /\ ~IsClaimed(Acknowledged(row[c.task]))
              /\ Acknowledged(row[c.task]).lease = "none"
          BY <2>1, <3>1, RowOperations, LeaseOperations
        <4>2. QED
          BY <2>2, <3>1, <3>2, <4>1 DEF AcknowledgeStarted
      <3>3. CASE FailOrRetry(c)
        <4>1. /\ FailedOrRetrying(row[c.task]) \in Rows
              /\ ~IsClaimed(FailedOrRetrying(row[c.task]))
              /\ FailedOrRetrying(row[c.task]).lease = "none"
          BY <2>1, <3>1, RowOperations, LeaseOperations
        <4>2. QED
          BY <2>2, <3>1, <3>3, <4>1 DEF FailOrRetry
      <3>4. QED
        BY <2>10, <3>2, <3>3
    <2>11. ASSUME NEW c \in claims, Forget(c) PROVE LeasesFence'
      BY <2>11 DEF Forget, LeasesFence
    <2>12. CASE Crash
      BY <2>1, <2>12, LeaseOperations DEF Crash, LeasesFence
    <2>13. CASE UNCHANGED vars
      BY <2>13 DEF vars, LeasesFence
    <2>14. QED
      BY <2>3, <2>4, <2>5, <2>6, <2>7, <2>8, <2>9, <2>10, <2>11, <2>12, <2>13 DEF Next
  <1>3. TypeOK /\ LeasesFence => LeaseNamesTheHolder
    BY DEF TypeOK, Claims, LeasesFence, LeaseNamesTheHolder, IsInterrupted
  <1>4. QED
    BY <1>1, <1>2, <1>3, Typing, PTL DEF Spec

------------------------------------------------------------------------------
(* Retries. *)

\* What the retry count of a row says of the claims handed out since its enqueue: a
\* waiting row has spent one retry for each, a claimed one has one out as well.
RetriesFence ==
    \A t \in Tasks :
        /\ IsActive(row[t]) => row[t].retryCount <= MaxRetries
        /\ IsDispatchable(row[t]) => granted[t] = row[t].retryCount
        /\ IsClaimed(row[t]) => granted[t] = row[t].retryCount + 1
        /\ granted[t] <= MaxRetries + 1

\* One request is handed out at most once and a retry for each of the budget.
THEOREM BoundedRetries == Spec => []RetriesAreBounded
  <1> USE MaxRetriesAssumption
  <1>1. Init => RetriesFence
    BY DEF Init, RetriesFence, NoRow, IsActive, IsDispatchable, IsClaimed, ActiveStates,
           DispatchableStates, ClaimedStates
  <1>2. TypeOK /\ RetriesFence /\ [Next]_vars => RetriesFence'
    <2> SUFFICES ASSUME TypeOK, RetriesFence, [Next]_vars PROVE RetriesFence'
      OBVIOUS
    <2> USE DEF IsActive, IsDispatchable, IsClaimed, ActiveStates, DispatchableStates,
                ClaimedStates, TerminalStates
    <2>1. \A t \in Tasks : row[t] \in Rows /\ row[t].retryCount \in Nat /\ granted[t] \in Nat
      BY DEF TypeOK, Rows
    <2>2. ASSUME NEW t \in Tasks, NEW r \in Rows, Put(t, r), UNCHANGED granted,
                 \/ r.state \notin ActiveStates
                 \/ /\ r.retryCount = row[t].retryCount
                    /\ r.state = row[t].state \/ (IsClaimed(r) /\ IsClaimed(row[t]))
                 \/ /\ IsClaimed(row[t]) /\ IsDispatchable(r)
                    /\ r.retryCount = row[t].retryCount + 1 /\ r.retryCount <= MaxRetries
          PROVE  RetriesFence'
      BY <2>1, <2>2 DEF RetriesFence, Put, TypeOK
    <2>3. \A t \in Tasks : /\ FailedOrRetrying(row[t]) \in Rows
                           /\ \/ FailedOrRetrying(row[t]).state \notin ActiveStates
                              \/ /\ FailedOrRetrying(row[t]).state = "retrying"
                                 /\ FailedOrRetrying(row[t]).retryCount = row[t].retryCount + 1
                                 /\ FailedOrRetrying(row[t]).retryCount <= MaxRetries
      <3>1. SUFFICES ASSUME NEW t \in Tasks
                     PROVE  \/ FailedOrRetrying(row[t]).state \notin ActiveStates
                            \/ /\ FailedOrRetrying(row[t]).state = "retrying"
                               /\ FailedOrRetrying(row[t]).retryCount = row[t].retryCount + 1
                               /\ FailedOrRetrying(row[t]).retryCount <= MaxRetries
        BY <2>1, RowOperations
      <3>2. CASE row[t].retryCount + 1 > MaxRetries
        BY <2>1, <3>2 DEF FailedOrRetrying, Rows
      <3>3. CASE ~(row[t].retryCount + 1 > MaxRetries)
        BY <2>1, <3>3 DEF FailedOrRetrying, Rows
      <3>4. QED
        BY <3>2, <3>3
    <2>4. ASSUME NEW t \in Tasks, Enqueue(t) PROVE RetriesFence'
      <3>1. CASE IsActive(row[t])
        <4>1. Put(t, row[t]) /\ UNCHANGED granted
          BY <2>4, <3>1 DEF Enqueue, Enqueued
        <4>2. row' = row
          BY <4>1 DEF Put, TypeOK
        <4>3. QED
          BY <4>1, <4>2 DEF RetriesFence
      <3>2. CASE ~IsActive(row[t])
        BY <2>1, <2>4, <3>2 DEF Enqueue, Enqueued, RetriesFence, Put, TypeOK
      <3>3. QED
        BY <3>1, <3>2
    <2>5. ASSUME NEW t \in Tasks, Claim(t) PROVE RetriesFence'
      BY <2>1, <2>5 DEF Claim, Claimed, MayClaim, RetriesFence, Put, TypeOK, Rows
    <2>6. ASSUME NEW t \in Tasks, MarkRecovered(t) PROVE RetriesFence'
      <3>1. Recovered(row[t]).state = "recovered"
        BY <2>1, <2>6 DEF MarkRecovered, Recovered, Rows
      <3>2. QED
        BY <2>1, <2>2, <2>6, <3>1, RowOperations DEF MarkRecovered
    <2>7. ASSUME NEW t \in Tasks, BackoffElapses(t) PROVE RetriesFence'
      <3>1. /\ BackoffOver(row[t]).state = row[t].state
            /\ BackoffOver(row[t]).retryCount = row[t].retryCount
        BY <2>1 DEF BackoffOver, Rows
      <3>2. Put(t, BackoffOver(row[t])) /\ UNCHANGED granted
        BY <2>7 DEF BackoffElapses
      <3>3. \A u \in Tasks : /\ row'[u].state = row[u].state
                             /\ row'[u].retryCount = row[u].retryCount
        BY <3>1, <3>2 DEF Put, TypeOK
      <3>4. QED
        BY <3>2, <3>3 DEF RetriesFence
    <2>8. ASSUME NEW t \in Tasks, RequeueInterrupted(t) PROVE RetriesFence'
      BY <2>2, <2>3, <2>8 DEF RequeueInterrupted, IsInterrupted
    <2>9. ASSUME NEW t \in Tasks, NEW state \in TerminalStates, End(t, state) PROVE RetriesFence'
      <3>1. Ended(row[t], state).state = state
        BY <2>1, <2>9 DEF End, Ended, Rows
      <3>2. QED
        BY <2>1, <2>2, <2>9, <3>1, RowOperations DEF End
    <2>10. ASSUME NEW c \in claims, MarkStarting(c) PROVE RetriesFence'
      <3>1. c.task \in Tasks /\ IsClaimed(row[c.task])
        BY <2>10 DEF TypeOK, Claims, MarkStarting, MayMarkStarting
      <3>2. /\ IsClaimed(MarkedStarting(row[c.task]))
            /\ MarkedStarting(row[c.task]).retryCount = row[c.task].retryCount
        BY <2>1, <3>1 DEF MarkedStarting, Rows
      <3>3. QED
        BY <2>1, <2>2, <2>10, <3>1, <3>2, RowOperations DEF MarkStarting
    <2>11. ASSUME NEW c \in claims, AcknowledgeStarted(c) PROVE RetriesFence'
      <3>1. c.task \in Tasks /\ Acknowledged(row[c.task]).state = "started"
        BY <2>1 DEF TypeOK, Claims, Acknowledged, Rows
      <3>2. QED
        BY <2>1, <2>2, <2>11, <3>1, RowOperations DEF AcknowledgeStarted
    <2>12. ASSUME NEW c \in claims, FailOrRetry(c) PROVE RetriesFence'
      <3>1. c.task \in Tasks /\ IsClaimed(row[c.task])
        BY <2>12 DEF TypeOK, Claims, FailOrRetry, Owns
      <3>2. QED
        BY <2>2, <2>3, <2>12, <3>1 DEF FailOrRetry
    <2>13. ASSUME NEW c \in claims, Forget(c) PROVE RetriesFence'
      BY <2>13 DEF Forget, RetriesFence
    <2>14. CASE Crash
      <3>1. \A t \in Tasks : /\ row'[t].state = row[t].state
                             /\ row'[t].retryCount = row[t].retryCount
        BY <2>1, <2>14 DEF Crash, AfterCrash, Rows
      <3>2. QED
        BY <2>14, <3>1 DEF Crash, RetriesFence
    <2>15. CASE UNCHANGED vars
      BY <2>15 DEF vars, RetriesFence
    <2>16. QED
      BY <2>4, <2>5, <2>6, <2>7, <2>8, <2>9, <2>10, <2>11, <2>12, <2>13, <2>14, <2>15 DEF Next
  <1>3. RetriesFence => RetriesAreBounded
    BY DEF RetriesFence, RetriesAreBounded
  <1>4. QED
    BY <1>1, <1>2, <1>3, Typing, PTL DEF Spec

------------------------------------------------------------------------------
(* Rows that ended. *)

\* No operation but an enqueue changes the state of a row that was cancelled or failed.
THEOREM EndedStayEnded == Spec => EndedRowsStayEnded
  <1> DEFINE Stays(t) == IsTerminal(row[t]) /\ row'[t].state # row[t].state =>
                            row'[t].state = "queued" /\ row'[t].generation > row[t].generation
  <1>1. TypeOK /\ [Next]_vars => \A t \in Tasks : Stays(t)
    <2> SUFFICES ASSUME TypeOK, [Next]_vars, NEW t \in Tasks, IsTerminal(row[t]),
                        row'[t].state # row[t].state
                 PROVE  row'[t].state = "queued" /\ row'[t].generation > row[t].generation
      BY DEF Stays
    <2> USE DEF IsTerminal, IsActive, IsDispatchable, IsClaimed, TerminalStates, ActiveStates,
                DispatchableStates, ClaimedStates
    <2>1. row[t] \in Rows /\ row[t].generation \in Nat
      BY DEF TypeOK, Rows
    <2>2. ASSUME NEW u \in Tasks, Enqueue(u)
          PROVE  row'[t].state = "queued" /\ row'[t].generation > row[t].generation
      BY <2>1, <2>2 DEF Enqueue, Enqueued, Put, TypeOK
    <2>3. ASSUME NEW u \in Tasks, Claim(u) PROVE FALSE
      BY <2>3 DEF Claim, MayClaim, Put, TypeOK
    <2>4. ASSUME NEW u \in Tasks, MarkRecovered(u) PROVE FALSE
      BY <2>4 DEF MarkRecovered, MayRecover, Put, TypeOK
    <2>5. ASSUME NEW u \in Tasks, BackoffElapses(u) PROVE FALSE
      BY <2>1, <2>5 DEF BackoffElapses, BackoffOver, Put, TypeOK, Rows
    <2>6. ASSUME NEW u \in Tasks, RequeueInterrupted(u) PROVE FALSE
      BY <2>6 DEF RequeueInterrupted, IsInterrupted, Put, TypeOK
    <2>7. ASSUME NEW u \in Tasks, NEW state \in TerminalStates, End(u, state) PROVE FALSE
      BY <2>7 DEF End, MayEnd, Put, TypeOK
    <2>8. ASSUME NEW c \in claims, MarkStarting(c) \/ AcknowledgeStarted(c) \/ FailOrRetry(c)
          PROVE  FALSE
      BY <2>8 DEF MarkStarting, MayMarkStarting, AcknowledgeStarted, FailOrRetry, Owns, Put, TypeOK
    <2>9. ASSUME NEW c \in claims, Forget(c) PROVE FALSE
      BY <2>9 DEF Forget
    <2>10. CASE Crash
      BY <2>1, <2>10 DEF Crash, AfterCrash, Rows
    <2>11. CASE UNCHANGED vars
      BY <2>11 DEF vars
    <2>12. QED
      BY <2>2, <2>3, <2>4, <2>5, <2>6, <2>7, <2>8, <2>9, <2>10, <2>11 DEF Next
  <1>2. QED
    BY <1>1, Typing, PTL DEF Spec, EndedRowsStayEnded
==============================================================================
