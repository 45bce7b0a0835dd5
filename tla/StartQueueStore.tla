--------------------------- MODULE StartQueueStore ---------------------------
(***************************************************************************)
(* DurableStartQueueStore (src/main/sessions/start-queue-store.ts) as its  *)
(* callers see it: a table of rows, and the claims they were handed.  A    *)
(* claim is (row, generation); a caller may sit on one for as long as it   *)
(* likes, while the row is cancelled, enqueued again and claimed by        *)
(* another, and use it then.  Any call may come at any time: what holds    *)
(* here holds whatever the start paths of AgentStarts do with the store.   *)
(***************************************************************************)
EXTENDS StartQueueRow

CONSTANTS Tasks, MaxGeneration        \* MaxGeneration bounds the checked instance

VARIABLES
    row,          \* agent_start_queue: task -> its row
    claims,       \* the claims callers still hold: [task, generation, ticket]
    ticket,       \* history: task -> the number of claims handed out so far
    granted       \* history: task -> the claims handed out since the last enqueue

vars == <<row, claims, ticket, granted>>

Claims == [task : Tasks, generation : Nat, ticket : Nat]

TypeOK ==
    /\ row \in [Tasks -> Rows]
    /\ claims \subseteq Claims
    /\ ticket \in [Tasks -> Nat]
    /\ granted \in [Tasks -> Nat]

Init ==
    /\ row = [t \in Tasks |-> NoRow]
    /\ claims = {}
    /\ ticket = [t \in Tasks |-> 0]
    /\ granted = [t \in Tasks |-> 0]

Put(t, r) == row' = [row EXCEPT ![t] = r]

Enqueue(t) ==
    /\ row[t].generation < MaxGeneration
    /\ Put(t, Enqueued(row[t]))
    /\ granted' = IF IsActive(row[t]) THEN granted ELSE [granted EXCEPT ![t] = 0]
    /\ UNCHANGED <<claims, ticket>>

Claim(t) ==
    /\ row[t].generation < MaxGeneration
    /\ MayClaim(row[t])
    /\ Put(t, Claimed(row[t]))
    /\ ticket' = [ticket EXCEPT ![t] = @ + 1]
    /\ granted' = [granted EXCEPT ![t] = @ + 1]
    /\ claims' = claims \cup
         {[task |-> t, generation |-> Claimed(row[t]).generation, ticket |-> ticket[t] + 1]}

MarkStarting(c) ==
    /\ c \in claims
    /\ MayMarkStarting(row[c.task], c.generation)
    /\ Put(c.task, MarkedStarting(row[c.task]))
    /\ UNCHANGED <<claims, ticket, granted>>

AcknowledgeStarted(c) ==
    /\ c \in claims
    /\ Owns(row[c.task], c.generation)
    /\ Put(c.task, Acknowledged(row[c.task]))
    /\ UNCHANGED <<claims, ticket, granted>>

FailOrRetry(c) ==
    /\ c \in claims
    /\ Owns(row[c.task], c.generation)
    /\ Put(c.task, FailedOrRetrying(row[c.task]))
    /\ UNCHANGED <<claims, ticket, granted>>

\* A caller is done with a claim, or sits on it no longer.
Forget(c) ==
    /\ c \in claims
    /\ claims' = claims \ {c}
    /\ UNCHANGED <<row, ticket, granted>>

MarkRecovered(t) ==
    /\ MayRecover(row[t])
    /\ Put(t, Recovered(row[t]))
    /\ UNCHANGED <<claims, ticket, granted>>

\* cancel and fail.
End(t, state) ==
    /\ MayEnd(row[t])
    /\ Put(t, Ended(row[t], state))
    /\ UNCHANGED <<claims, ticket, granted>>

\* next_retry_at passes.
BackoffElapses(t) ==
    /\ ~row[t].due
    /\ Put(t, BackoffOver(row[t]))
    /\ UNCHANGED <<claims, ticket, granted>>

\* The process dies with its claims; its leases name a process that is gone.
Crash ==
    /\ claims # {} \/ \E t \in Tasks : row[t].lease = "current"
    /\ row' = [t \in Tasks |-> AfterCrash(row[t])]
    /\ claims' = {}
    /\ UNCHANGED <<ticket, granted>>

\* interruptedClaims and requeueInterrupted: the next process takes them back.
RequeueInterrupted(t) ==
    /\ IsInterrupted(row[t])
    /\ Put(t, FailedOrRetrying(row[t]))
    /\ UNCHANGED <<claims, ticket, granted>>

Next ==
    \/ \E t \in Tasks : \/ Enqueue(t) \/ Claim(t) \/ MarkRecovered(t) \/ BackoffElapses(t)
                        \/ RequeueInterrupted(t)
                        \/ \E state \in TerminalStates : End(t, state)
    \/ \E c \in claims : MarkStarting(c) \/ AcknowledgeStarted(c) \/ FailOrRetry(c) \/ Forget(c)
    \/ Crash

Spec == Init /\ [][Next]_vars

------------------------------------------------------------------------------
(* What the store promises its callers. *)

\* A claim that was superseded, by a later claim of the same row or by a row
\* started over, can settle nothing any more: only the claim handed out last
\* passes the generation check of markStarting, acknowledgeStarted and failOrRetry.
OnlyTheLastClaimSettles ==
    \A c \in claims : Owns(row[c.task], c.generation) => c.ticket = ticket[c.task]

\* No interleaving of failures, crashes and recoveries hands one request out more
\* often than once and a retry for each of the budget (failOrRetry,
\* requeueInterrupted; START_QUEUE_MAX_RETRIES).
RetriesAreBounded == \A t \in Tasks : granted[t] <= MaxRetries + 1

\* A row that was cancelled or failed for good comes back only by a new enqueue:
\* no late claim, recovered session or crash recovery revives it.
EndedRowsStayEnded ==
    [][\A t \in Tasks : IsTerminal(row[t]) /\ row'[t].state # row[t].state =>
          row'[t].state = "queued" /\ row'[t].generation > row[t].generation]_vars

\* Once the row has been claimed by this process it carries its lease, so that a
\* boot takes back exactly the claims of processes that are gone (interruptedClaims).
LeaseNamesTheHolder ==
    \A t \in Tasks : /\ IsClaimed(row[t]) <=> row[t].lease # "none"
                     /\ \A c \in claims : Owns(row[c.task], c.generation) => ~IsInterrupted(row[c.task])
==============================================================================
