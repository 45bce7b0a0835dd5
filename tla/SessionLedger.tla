---------------------------- MODULE SessionLedger ----------------------------
(***************************************************************************)
(* The evidence of one conversation's turns: the durable inbox of           *)
(* observations, their projection on generations and turns, the seal at     *)
(* shutdown and the reconciliation at boot (src/main/sessions/              *)
(* event-inbox.ts, ledger.ts, managed-session.ts).                          *)
(*                                                                          *)
(* An observation is committed to the inbox at once and projected later,    *)
(* under the owner's lock, in a transaction of its own.                     *)
(***************************************************************************)
EXTENDS Integers, SequencesExt

CONSTANTS
    Backends,      \* native sessions; each is one generation of the conversation
    Intents,       \* prompts the owner wants carried out
    MaxRetries,    \* bound on the attempts of one intent after the first
    MaxTurns,      \* bound on the attempts of all intents together
    MaxRuns,       \* bound on the processes that follow one another
    None

ASSUME LedgerAssumption ==
    MaxRetries \in Nat /\ MaxTurns \in Nat /\ MaxRuns \in Nat \ {0} /\ None \notin Backends \cup Intents

TurnKeys == [intent : Intents, attempt : 0..MaxRetries]
NoTurn == [intent |-> None, attempt |-> 0]

VARIABLES
    run,           \* the number of this process
    life,          \* "up", "booting", "closed" (an orderly shutdown) or "killed"
    inbox,         \* pending: observations not yet projected; said: all received
    owned,         \* turns this process started and has not ended
    book           \* turns and gens: the projection

ledger == <<run, life, inbox, owned, book>>

------------------------------------------------------------------------------
(* Observations. *)

Observation(type, b, turn, reason) ==
    [type |-> type, b |-> b, turn |-> turn, reason |-> reason, run |-> run]
Opened(b)        == Observation("session_started", b, NoTurn, "none")
Resumed(b)       == Observation("session_resumed", b, NoTurn, "none")
Closed(b)        == Observation("owner_closed", b, NoTurn, "none")
Started(b, t)    == Observation("turn_started", b, t, "none")
Done(b, t, why)  == Observation("turn_done", b, t, why)

\* The idempotency key: a resume counts once per process, a seal is the process's own.
IdentityOfAnyRun(e) == [type |-> e.type, b |-> e.b, turn |-> e.turn]             \* slip
Identity(e) ==
    [type |-> e.type, b |-> e.b, turn |-> e.turn,
     run |-> IF e.type = "session_resumed" \/ e.reason = "shutdown" THEN e.run ELSE 0]

\* The key of a closed owner is drawn at random: it is always news.
News(box, e) == e.type = "owner_closed" \/ \A s \in box.said : Identity(s) # Identity(e)

\* EventInbox.enqueue refuses a key that came with another payload.
Refused(e) == \E s \in inbox.said : Identity(s) = Identity(e) /\ s.reason # e.reason

\* ManagedSessionObserver.observe up to its first await, for an observation that is
\* not refused.
Received(box, e) ==
    IF News(box, e) THEN [pending |-> Append(box.pending, e), said |-> box.said \cup {e}] ELSE box
OwnedAfter(e) ==
    CASE e.type = "turn_started" /\ News(inbox, e) -> owned \cup {<<e.b, e.turn>>}
      [] e.type = "turn_done" -> owned \ {<<e.b, e.turn>>}
      [] OTHER -> owned
Observe(e) ==
    /\ inbox' = Received(inbox, e)
    /\ owned' = OwnedAfter(e)

\* The caller awaits the projection of what it observed.
Projected(e) == e \notin ToSet(inbox.pending)

------------------------------------------------------------------------------
(* The projection: SessionLedger.apply. *)

End(reason) ==
    CASE reason = "end_turn"  -> "completed"
      [] reason = "error"     -> "failed"
      [] reason = "cancelled" -> "cancelled"
      [] OTHER                -> "interrupted"

Running(turns, b) == \E t \in TurnKeys : turns[<<b, t>>] = "running"

\* A generation is opened by the first observation of it, for the process that made it.
GenerationOf(bk, e) ==
    IF bk.gens[e.b].state = "none" THEN [state |-> "open", run |-> e.run] ELSE bk.gens[e.b]

\* ... and passes to the process that resumes it.
Taken(e) == e.type \in {"session_started", "session_resumed"}

Apply(bk, e) ==
    LET gen == GenerationOf(bk, e)
        at == <<e.b, e.turn>>
        turns == CASE e.type = "turn_started" /\ bk.turns[at] = "none" ->
                        [bk.turns EXCEPT ![at] = "running"]
                   [] e.type = "turn_done" /\ bk.turns[at] = "running" ->
                        [bk.turns EXCEPT ![at] = End(e.reason)]
                   [] OTHER -> bk.turns
        state == IF e.type = "turn_started" THEN "running"
                 ELSE IF e.type = "owner_closed" THEN "closed"
                 ELSE IF Running(turns, e.b) THEN "running" ELSE "open"
    IN  [turns |-> turns,
         gens |-> [bk.gens EXCEPT ![e.b] =
            [state |-> state,
             run |-> IF Taken(e) THEN e.run ELSE gen.run]]]

ApplyAll(bk, es) ==
    LET after[n \in 0..Len(es)] == IF n = 0 THEN bk ELSE Apply(after[n - 1], es[n])
    IN  after[Len(es)]

\* drainOwned takes the pending observations in the order of their ids, one
\* transaction each.  (A kill may fall between two of them.)
DrainLast ==                                                                     \* slip
    /\ book' = Apply(book, inbox.pending[Len(inbox.pending)])
    /\ inbox' = [inbox EXCEPT !.pending = Front(@)]
DrainFirst ==
    /\ book' = Apply(book, Head(inbox.pending))
    /\ inbox' = [inbox EXCEPT !.pending = Tail(@)]

\* The owner's lock is free: the projection queued behind it runs.
Drain ==
    /\ life = "up" /\ inbox.pending # <<>>
    /\ DrainFirst
    /\ UNCHANGED <<run, life, owned>>

------------------------------------------------------------------------------
(* The ends of a process, and the start of the next. *)

\* ManagedSessionObserver.shutdown: every turn of this process is sealed, and all that
\* it received is projected, in one JavaScript turn.
SealNothing == <<>>                                                              \* slip
Seals == SetToSeq({e \in {Done(o[1], o[2], "shutdown") : o \in owned} : News(inbox, e)})
Shutdown ==
    /\ life = "up"
    /\ life' = "closed"
    /\ inbox' = [pending |-> <<>>, said |-> inbox.said \cup ToSet(Seals)]
    /\ book' = ApplyAll(book, inbox.pending \o Seals)
    /\ owned' = {}
    /\ UNCHANGED run

\* The process is killed: what SQLite committed survives.
Crash ==
    /\ life \in {"up", "booting"} /\ run < MaxRuns
    /\ life' = "killed"
    /\ owned' = {}
    /\ UNCHANGED <<run, inbox, book>>

Boot ==
    /\ life \in {"closed", "killed"} /\ run < MaxRuns
    /\ run' = run + 1
    /\ life' = "booting"
    /\ UNCHANGED <<inbox, owned, book>>

\* reconcileStartup projects what earlier processes left in the inbox ...
BootDrain ==
    /\ life = "booting" /\ inbox.pending # <<>>
    /\ DrainFirst
    /\ UNCHANGED <<run, life, owned>>

\* ... and only then takes the turns still running elsewhere as interrupted.
Reconciled(bk) ==
    LET lost(b) == bk.gens[b].run # run IN
    [turns |-> [x \in DOMAIN bk.turns |->
                    IF bk.turns[x] = "running" /\ lost(x[1]) THEN "crashed" ELSE bk.turns[x]],
     gens |-> [b \in Backends |->
                    IF lost(b) /\ bk.gens[b].state \in {"running", "open"}
                    THEN [bk.gens[b] EXCEPT !.state = IF @ = "running" THEN "interrupted" ELSE "closed"]
                    ELSE bk.gens[b]]]
ReconcileEagerly ==                                                              \* slip
    /\ life = "booting"
    /\ book' = Reconciled(book)
    /\ life' = "up"
    /\ UNCHANGED <<run, inbox, owned>>
ReconcileInterrupted ==
    /\ life = "booting" /\ inbox.pending = <<>>
    /\ book' = Reconciled(book)
    /\ life' = "up"
    /\ UNCHANGED <<run, inbox, owned>>

LedgerInit ==
    /\ run = 1
    /\ life = "up"
    /\ inbox = [pending |-> <<>>, said |-> {}]
    /\ owned = {}
    /\ book = [turns |-> [x \in Backends \X TurnKeys |-> "none"],
               gens |-> [b \in Backends |-> [state |-> "none", run |-> 0]]]
==============================================================================
