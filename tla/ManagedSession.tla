---------------------------- MODULE ManagedSession ----------------------------
(***************************************************************************)
(* A managed conversation: the sessions, prompts, retries, stops and losses *)
(* of one owner (src/main/sessions/adapter-engine.ts, and the places of     *)
(* src/main/agent-manager-core.ts that call it), over the ledger that keeps *)
(* the evidence of its turns.                                               *)
(***************************************************************************)
EXTENDS SessionLedger

VARIABLES
    binding,   \* the backend session the task or Captain row names (durable)
    row,       \* the provider-recovery row: one intent and its state (durable)
    sess,      \* the live session: its backend, status and managed intent, and whether
               \* transitionToIdle is between its look at the backend and its report
    usage,     \* intent -> the backend and attempt the engine accounts it to
    send,      \* the prompt on its way through sendPrompt
    stop,      \* the teardown in flight, and how the last one went
    missing    \* backends that told a resume or a poll that they lost the session

vars == <<ledger, binding, row, sess, usage, send, stop, missing>>

NoRow == [intent |-> None, state |-> "none", attempt |-> 0, b |-> None]
NoSession == [b |-> None, status |-> "none", intent |-> None, idling |-> FALSE]
NoSend == [at |-> "none", b |-> None, turn |-> NoTurn]
NoStop == [at |-> "none", kind |-> "none", b |-> None, status |-> "none", intent |-> None, idling |-> FALSE]
FailedStop == [NoStop EXCEPT !.at = "failed", !.b = stop.b]
Stopping(kind) ==
    [at |-> "destroying", kind |-> kind, b |-> sess.b, status |-> sess.status,
     intent |-> sess.intent, idling |-> sess.idling]
NoUsage == [b |-> None, attempt |-> 0]

Unended == {"sending", "accepted", "retrying", "dispatching"}
Turn(i, n) == [intent |-> i, attempt |-> n]
Up == life = "up"
Live == sess.status \in {"idle", "working"}
\* ownsSessionGeneration, for the session a send began on.
Owns(b) == Up /\ Live /\ sess.b = b

------------------------------------------------------------------------------
(* AdapterEngine.finishTurn.  The attempt is the one accounted to the intent, 0    *)
(* when none is; the accounting ends before the observation is made.               *)

Foreign(b, i) == usage[i] # NoUsage /\ usage[i].b # b
DoneOf(b, i, why) == Done(b, Turn(i, usage[i].attempt), why)
FinishRefused(b, i, why) == i # None /\ ~Foreign(b, i) /\ Refused(DoneOf(b, i, why))
Finishes(b, i, why) == i # None /\ ~Foreign(b, i) /\ ~Refused(DoneOf(b, i, why))
Ended(b, i, why) ==
    [inbox |-> IF Finishes(b, i, why) THEN Received(inbox, DoneOf(b, i, why)) ELSE inbox,
     owned |-> IF Finishes(b, i, why) THEN OwnedAfter(DoneOf(b, i, why)) ELSE owned]
ForgetUsage(b, i) ==
    usage' = IF i = None \/ Foreign(b, i) THEN usage ELSE [usage EXCEPT ![i] = NoUsage]

\* finishTurn where the observation is not awaited.
Finish(b, i, why) ==
    /\ inbox' = Ended(b, i, why).inbox
    /\ owned' = Ended(b, i, why).owned
    /\ ForgetUsage(b, i)

LedgerKept == UNCHANGED <<run, life, book>>

------------------------------------------------------------------------------
(* Sessions: AdapterEngine.createSession and resumeSession, and the registration   *)
(* that follows their awaited observation.                                         *)

Unsettled == sess # NoSession \/ send # NoSend \/ stop.at = "destroying"

CreateSession(b) ==
    /\ Up /\ ~Unsettled /\ binding = None
    /\ \A s \in inbox.said : s.b # b
    /\ Observe(Opened(b))
    /\ sess' = [NoSession EXCEPT !.b = b, !.status = "opening"]
    /\ LedgerKept /\ UNCHANGED <<binding, row, usage, send, stop, missing>>

ResumeSession ==
    /\ Up /\ ~Unsettled /\ binding \in Backends \ missing
    /\ Observe(Resumed(binding))
    /\ sess' = [NoSession EXCEPT !.b = binding, !.status = "opening"]
    /\ LedgerKept /\ UNCHANGED <<binding, row, usage, send, stop, missing>>

SessionOpens ==
    /\ Up /\ sess.status = "opening"
    /\ \A e \in {Opened(sess.b), Resumed(sess.b)} : Projected(e)
    /\ sess' = [sess EXCEPT !.status = "idle"]
    /\ binding' = sess.b
    /\ UNCHANGED <<ledger, row, usage, send, stop, missing>>

\* markSessionLost ends the turn of the task's recovery row, if it was this backend's,
\* and closes the generation.  A refusal leaves its caller before anything else is done.
IntentLost(b) == IF row.b = b THEN row.intent ELSE None
LossRefused(b) == FinishRefused(b, IntentLost(b), "interrupted")
ObserveLoss(b) ==
    LET ended == Ended(b, IntentLost(b), "interrupted") IN
    /\ inbox' = IF LossRefused(b) THEN inbox ELSE Received(ended.inbox, Closed(b))
    /\ owned' = ended.owned
    /\ ForgetUsage(b, IntentLost(b))

\* The backend no longer has the session that resumeAdapterSession asks for: the
\* binding is cleared, and the next start opens a replacement.
ResumeFindsLoss ==
    /\ Up /\ ~Unsettled /\ binding # None
    /\ missing' = missing \cup {binding}
    /\ ObserveLoss(binding)
    /\ binding' = IF LossRefused(binding) THEN binding ELSE None
    /\ LedgerKept /\ UNCHANGED <<row, sess, send, stop>>
\* handleErrorStatus: a poll finds the loss, and the session is stopped first.
PollFindsLoss ==
    /\ Up /\ Live /\ binding = sess.b /\ sess.status = "working" /\ send = NoSend
    /\ missing' = missing \cup {sess.b}
    /\ ObserveLoss(sess.b)
    /\ IF LossRefused(sess.b) THEN UNCHANGED <<sess, stop>>
       ELSE stop' = Stopping("lost") /\ sess' = NoSession
    /\ LedgerKept /\ UNCHANGED <<binding, row, send>>

------------------------------------------------------------------------------
(* Prompts: sendTrackedPrompt and AdapterEngine.sendPrompt, in four steps between  *)
(* their awaits.                                                                   *)

\* sendPrompt observes the attempt before anything else happens to it.
Begin(b, t) == send' = [at |-> "recorded", b |-> b, turn |-> t]
TurnsLeft == Cardinality({s \in inbox.said : s.type = "turn_started"}) < MaxTurns

SendMessage(i) ==
    /\ Up /\ Live /\ send = NoSend /\ row.intent # i /\ TurnsLeft
    /\ \A s \in inbox.said : s.turn.intent # i
    /\ row' = [intent |-> i, state |-> "sending", attempt |-> 0, b |-> sess.b]
    /\ sess' = [sess EXCEPT !.status = "working", !.intent = i]
    /\ Observe(Started(sess.b, Turn(i, 0)))
    /\ Begin(sess.b, Turn(i, 0))
    /\ LedgerKept /\ UNCHANGED <<binding, usage, stop, missing>>

\* dispatchProviderRecovery sends the intent again, as its next attempt.  An attempt
\* still accounted for is ended first, and that is awaited; when it is refused, nothing
\* is sent.
NothingIsOpen(i) == FALSE                                                     \* slip
AttemptOpen(i) == usage[i] # NoUsage /\ usage[i].attempt # row.attempt

Dispatch ==
    /\ Up /\ Live /\ send = NoSend /\ row.state = "retrying" /\ row.b = sess.b /\ TurnsLeft
    /\ row' = [row EXCEPT !.state = "dispatching"]
    /\ sess' = [sess EXCEPT !.status = "working", !.intent = row.intent]
    /\ LET i == row.intent  t == Turn(i, row.attempt) IN
        IF AttemptOpen(i)
        THEN /\ Finish(usage[i].b, i, "error")
             /\ send' = [at |-> IF FinishRefused(usage[i].b, i, "error") THEN "refused" ELSE "prior",
                         b |-> sess.b, turn |-> t]
        ELSE /\ Observe(Started(sess.b, t))
             /\ Begin(sess.b, t)
             /\ UNCHANGED usage
    /\ LedgerKept /\ UNCHANGED <<binding, stop, missing>>

OnItsWay == row.intent = send.turn.intent /\ row.state \in {"sending", "dispatching"}

\* Each await is followed by a look at the session: one that was stopped sends nothing.
SendWithdrawn ==
    /\ Up /\ send # NoSend
    /\ ~Owns(send.b) \/ (send.at = "refused" /\ ~OnItsWay)
    /\ send' = NoSend
    /\ UNCHANGED <<ledger, binding, row, sess, usage, stop, missing>>

PriorEnded ==
    /\ send.at = "prior" /\ Owns(send.b)
    /\ \A e \in ToSet(inbox.pending) : e.type # "turn_done"
    /\ Observe(Started(send.b, send.turn))
    /\ Begin(send.b, send.turn)
    /\ LedgerKept /\ UNCHANGED <<binding, row, sess, usage, stop, missing>>

\* The start is projected, and the backend's context is read as a baseline.
DispatchRecorded ==
    /\ send.at = "recorded" /\ Owns(send.b)
    /\ Projected(Started(send.b, send.turn))
    /\ send' = [send EXCEPT !.at = "baseline"]
    /\ UNCHANGED <<ledger, binding, row, sess, usage, stop, missing>>

PromptGoesOut ==
    /\ send.at = "baseline" /\ Owns(send.b)
    /\ usage' = [usage EXCEPT ![send.turn.intent] = [b |-> send.b, attempt |-> send.turn.attempt]]
    /\ send' = [send EXCEPT !.at = "wire"]
    /\ UNCHANGED <<ledger, binding, row, sess, stop, missing>>

Accepted ==
    /\ send.at = "wire" /\ Up
    /\ row' = IF Owns(send.b) /\ OnItsWay THEN [row EXCEPT !.state = "accepted"] ELSE row
    /\ send' = NoSend
    /\ UNCHANGED <<ledger, binding, sess, usage, stop, missing>>

\* tryProviderRecovery and failProviderRecovery: the intent waits for another attempt,
\* or its session ends in error and emitStatus ends the turn.
WaitForRetry == row' = [row EXCEPT !.state = "retrying", !.attempt = @ + 1]
GiveUp ==
    /\ row' = [row EXCEPT !.state = "failed"]
    /\ sess' = [sess EXCEPT !.status = "idle", !.intent = None]
    /\ Finish(sess.b, sess.intent, "error")

Rejected ==
    /\ send.at \in {"wire", "refused"} /\ Owns(send.b) /\ OnItsWay
    /\ send' = NoSend
    /\ \/ /\ send.at = "wire" /\ row.attempt < MaxRetries
          /\ WaitForRetry /\ UNCHANGED <<sess, usage, inbox, owned>>
       \/ GiveUp
    /\ LedgerKept /\ UNCHANGED <<binding, stop, missing>>

------------------------------------------------------------------------------
(* The ends of turns and sessions. *)

Answering == Up /\ Live /\ sess.status = "working" /\ send = NoSend
                /\ row.state = "accepted" /\ row.b = sess.b

\* checkIdle completes the row, transitionToIdle finds the backend idle again ...
TurnEnds ==
    /\ Answering
    /\ row' = [row EXCEPT !.state = "completed"]
    /\ sess' = [sess EXCEPT !.status = "idle", !.idling = TRUE]
    /\ UNCHANGED <<ledger, binding, usage, send, stop, missing>>

\* ... and reports it after it yielded, for whatever intent the session has by then.
ReportIdle ==
    /\ Up /\ Live /\ sess.idling
    /\ Finish(sess.b, sess.intent, "end_turn")
    /\ sess' = [sess EXCEPT !.intent = None, !.idling = FALSE]
    /\ LedgerKept /\ UNCHANGED <<binding, row, send, stop, missing>>

TurnFails ==
    /\ Answering
    /\ \/ row.attempt < MaxRetries /\ WaitForRetry /\ UNCHANGED <<sess, usage, inbox, owned>>
       \/ GiveUp
    /\ LedgerKept /\ UNCHANGED <<binding, send, stop, missing>>

RowCancelled == IF row.state = "none" THEN row ELSE [row EXCEPT !.state = "cancelled"]

\* abortSessionNow: the backend gave the prompt up.  A refused observation leaves the
\* session as it is, without its intent.
Abort ==
    /\ Up /\ Live /\ sess.status = "working"
    /\ row' = RowCancelled
    /\ sess' = [sess EXCEPT !.intent = None,
            !.status = IF FinishRefused(sess.b, sess.intent, "cancelled") THEN @ ELSE "idle"]
    /\ Finish(sess.b, sess.intent, "cancelled")
    /\ LedgerKept /\ UNCHANGED <<binding, send, stop, missing>>

\* stopSessionNow up to its first await: a user's stop, or a release.
StopSession(kind) ==
    /\ Up /\ Live /\ stop.at # "destroying"
    /\ stop' = Stopping(kind)
    /\ sess' = NoSession
    /\ row' = IF kind = "user" THEN RowCancelled ELSE row
    /\ UNCHANGED <<ledger, binding, usage, send, missing>>

\* The backend does not let go: the session is put back as it was, and the stop fails.
\* A report of its idleness that came meanwhile found the session stopped, and was left.
StopRefused ==
    /\ Up /\ stop.at = "destroying" /\ stop.kind = "user"
    /\ \E idling \in {stop.idling, FALSE} :
            sess' = [b |-> stop.b, status |-> stop.status, intent |-> stop.intent, idling |-> idling]
    /\ stop' = FailedStop
    /\ UNCHANGED <<ledger, binding, row, usage, send, missing>>

\* The backend is gone: the turn of the session is ended.  What follows (the task's
\* status, the binding of a lost session) is not reached when that is refused.
Why(kind) == IF kind = "user" THEN "cancelled" ELSE "interrupted"
StopSettles ==
    /\ Up /\ stop.at = "destroying"
    /\ Finish(stop.b, stop.intent, Why(stop.kind))
    /\ IF FinishRefused(stop.b, stop.intent, Why(stop.kind))
       THEN stop' = FailedStop /\ UNCHANGED binding
       ELSE /\ stop' = NoStop
            /\ binding' = IF stop.kind = "lost" /\ binding = stop.b THEN None ELSE binding
    /\ LedgerKept /\ UNCHANGED <<row, sess, send, missing>>

------------------------------------------------------------------------------
(* The process. *)

MemoryGone ==
    /\ sess' = NoSession
    /\ usage' = [i \in Intents |-> NoUsage]
    /\ send' = NoSend
    /\ stop' = NoStop
    /\ UNCHANGED <<binding, row, missing>>

ShutsDown == Shutdown /\ MemoryGone
Crashes == Crash /\ MemoryGone

\* An unanswered prompt may have been taken: its row fails.
Reconcile ==
    /\ ReconcileInterrupted
    /\ row' = IF row.state \in {"sending", "dispatching"} THEN [row EXCEPT !.state = "failed"] ELSE row
    /\ UNCHANGED <<binding, sess, usage, send, stop, missing>>

Ledger == (Drain \/ Boot \/ BootDrain)
            /\ UNCHANGED <<binding, row, sess, usage, send, stop, missing>>

Init ==
    /\ LedgerInit
    /\ binding = None
    /\ row = NoRow
    /\ sess = NoSession
    /\ usage = [i \in Intents |-> NoUsage]
    /\ send = NoSend
    /\ stop = NoStop
    /\ missing = {}

Next ==
    \/ \E b \in Backends : CreateSession(b)
    \/ \E i \in Intents : SendMessage(i)
    \/ \E kind \in {"user", "release"} : StopSession(kind)
    \/ ResumeSession \/ SessionOpens \/ ResumeFindsLoss \/ PollFindsLoss
    \/ Dispatch \/ SendWithdrawn \/ PriorEnded \/ DispatchRecorded \/ PromptGoesOut
    \/ Accepted \/ Rejected \/ TurnEnds \/ ReportIdle \/ TurnFails \/ Abort
    \/ StopRefused \/ StopSettles
    \/ ShutsDown \/ Crashes \/ Reconcile \/ Ledger

Fairness ==
    /\ WF_vars(Drain /\ UNCHANGED <<binding, row, sess, usage, send, stop, missing>>)
    /\ WF_vars((Boot \/ BootDrain) /\ UNCHANGED <<binding, row, sess, usage, send, stop, missing>>)
    /\ WF_vars(Reconcile)

Spec == Init /\ [][Next]_vars /\ Fairness

------------------------------------------------------------------------------
(* Properties. *)

\* The book as it is once all that was received is projected.
Settled == ApplyAll(book, inbox.pending)
Projection == Settled.turns
TurnIds == Backends \X TurnKeys
RunningIn(bk) == {x \in TurnIds : bk.turns[x] = "running"}

States == {"none", "running", "completed", "failed", "cancelled", "interrupted", "crashed"}
TypeOK ==
    /\ run \in 1..MaxRuns
    /\ life \in {"up", "booting", "closed", "killed"}
    /\ owned \subseteq TurnIds
    /\ book.turns \in [TurnIds -> States]
    /\ \A b \in Backends : book.gens[b].run \in 0..run
    /\ ToSet(inbox.pending) \subseteq inbox.said
    /\ binding \in Backends \cup {None}
    /\ row.state \in Unended \cup {"none", "completed", "failed", "cancelled"}
    /\ row.attempt \in 0..MaxRetries
    /\ sess.status \in {"none", "opening", "idle", "working"}
    /\ \A i \in Intents : usage[i].b \in Backends \cup {None}
    /\ missing \subseteq Backends

\* The ledger, which projects later, in transactions that a kill may come between,
\* looks like one that records every turn the moment its owner reports it
\* (event-inbox.ts, ledger.ts, managed-session.ts).
Log == INSTANCE TurnLog WITH Turns <- TurnIds,
    Ends <- {"completed", "failed", "cancelled", "interrupted"}, turn <- Projection
ActsAsIfProjectedAtOnce == Log!Spec

\* No turn counts as lost in a crash whose end the process that ran it had received:
\* boot drains the inbox before it reconciles (managed-session.ts).
CrashOnlyIfUnreported ==
    \A x \in TurnIds : book.turns[x] = "crashed" =>
        ~ \E s, e \in inbox.said :
            /\ s.type = "turn_started" /\ e.type = "turn_done" /\ s.run = e.run
            /\ \A o \in {s, e} : <<o.b, o.turn>> = x

\* What runs while the process is up belongs to a generation this process opened or
\* resumed, so that a crash of it will be noticed by the next (ledger.ts).
NoOrphanRuns ==
    life = "up" => LET bk == Settled IN \A x \in RunningIn(bk) : bk.gens[x[1]].run = run

\* An intent is worked on once at a time: an attempt starts after the one before it was
\* ended, although the failure of that one never ended it (adapter-engine.ts).
OneAttemptRuns ==
    LET running == RunningIn(Settled) IN
        \A x, y \in running : x[2].intent = y[2].intent => x = y

\* An orderly shutdown leaves nothing running and nothing unprojected, although the
\* projections queued behind the lock never run (managed-session.ts).
ShutdownSettles ==
    life = "closed" => inbox.pending = <<>> /\ \A x \in TurnIds : book.turns[x] # "running"

\* A conversation whose backend session is missing gets a replacement
\* (docs/managed-sessions.md): whoever resumes it and is told so lets go of it.
LostSessionIsReplaced == [][ResumeFindsLoss => binding' = None]_vars
==============================================================================
