----------------------------- MODULE CaptainWaker -----------------------------
(***************************************************************************)
(* What wakes the Captain of one project (src/main/captain-waker.ts, and   *)
(* deliverCaptainWake of src/main/agent-manager-core.ts).                  *)
(*                                                                         *)
(* Events of the project wait for company in a batch, and a timer turns    *)
(* the batch into one message to the Captain.  A Captain at work is not    *)
(* interrupted, a message under way is waited for, and an hour takes so    *)
(* many messages: each of them puts the batch off or drops it.             *)
(*                                                                         *)
(* A fact is what makes two events the same, the kind and the task.  Time  *)
(* passes in ticks; whatever is due may happen late.  What runs in the     *)
(* microtask that the code queues is over before time passes or another    *)
(* timer fires, but not before other code of the same turn of the loop.    *)
(***************************************************************************)
EXTENDS Naturals, Sequences

CONSTANTS Facts,        \* the events there may be of the project
          Tasks,
          TaskOf,       \* the task an event is about
          Debounce,     \* debounceMs, in ticks
          MaxDefer,     \* maxDeferMs
          Window,       \* selfCausedWindowMs
          Hour,         \* the rolling hour
          HourlyCap

ASSUME WakerAssumption ==
    /\ TaskOf \in [Facts -> Tasks]
    /\ {Debounce, MaxDefer, Window, HourlyCap} \subseteq Nat
    /\ Hour \in Nat \ {0}

VARIABLES batch,      \* the project's entry of `pending`
          touched,    \* per task, how long ago the Captain touched it
          wakes,      \* how long ago the wakes of the last hour were decided
          send,       \* the wake under way (`flushing`): its events and where it is
          drop,       \* the events of a dropped batch whose microtask is queued
          life,       \* of the waker: open, closing, and how close() came back
          captain,    \* the Captain's session: none, idle, working
          project,    \* its row: listening, deaf (archived, or the kind is off), gone
          missing,    \* whether there is no Captain row, or no agent at all
          reached,    \* history: the facts the host was told of since they were raised
          told        \* history: how long ago the host was handed its last wakes

waker == <<batch, touched, wakes, send, drop, life>>
world == <<captain, project, missing>>
vars == <<batch, touched, wakes, send, drop, life, captain, project, missing, reached, told>>

NoBatch == [events |-> {}, age |-> 0, timer |-> 0]
NoSend == [at |-> "none", events |-> {}]

Open == life = "open"

\* No microtask of the waker is queued.
Quiet == send.at # "queued" /\ drop = {}

----
(* Events come in, and the Captain's own calls keep its own changes out. *)

SelfCaused(t) == touched[t] <= Window

HandleEvent(f) ==
    /\ Open
    /\ project = "listening"
    /\ ~SelfCaused(TaskOf[f])
    /\ batch' = IF batch = NoBatch
                THEN [events |-> {f}, age |-> 0, timer |-> Debounce]
                ELSE [batch EXCEPT !.events = @ \cup {f}]
    /\ reached' = reached \ {f}
    /\ UNCHANGED <<touched, wakes, send, drop, life, captain, project, missing, told>>

NoteCoordinatorTouched(t) ==
    /\ Open
    /\ touched' = [touched EXCEPT ![t] = 0]
    /\ UNCHANGED <<batch, wakes, send, drop, life, captain, project, missing, reached, told>>

----
(* The timer of the batch fires: flush, up to its first await. *)

\* The ages are kept in the order of time, the last first: those of the last hour lead.
Leading(ages) ==
    CHOOSE n \in 0..Len(ages) : \A i \in DOMAIN ages : i <= n <=> ages[i] < Hour
OfTheHour(ages) == SubSeq(ages, 1, Leading(ages))

Recent == OfTheHour(wakes)

UnderCapLate == Len(Recent) <= HourlyCap                                    \* slip

UnderCap == Len(Recent) < HourlyCap

ArmedAfresh(b) == [b EXCEPT !.timer = Debounce, !.age = 0]                  \* slip

Armed(b) == [b EXCEPT !.timer = Debounce]

\* The batch waits for another window.
Arm ==
    /\ batch' = Armed(batch)
    /\ UNCHANGED <<wakes, send, drop>>

\* recordDrop, which queues its microtask.
RecordDrop ==
    /\ batch' = NoBatch
    /\ drop' = batch.events
    /\ UNCHANGED send

\* Another message to the Captain is under way: this batch goes after it.
FlushBehindASend ==
    /\ send # NoSend
    /\ Arm

FlushWithoutCaptain ==
    /\ send = NoSend
    /\ \/ /\ "captain" \in missing
          /\ batch' = NoBatch
          /\ UNCHANGED <<wakes, send, drop>>
       \/ /\ "captain" \notin missing /\ project = "gone"
          /\ RecordDrop
          /\ UNCHANGED wakes

\* Somebody is there to be told.
MayFlush == send = NoSend /\ "captain" \notin missing /\ project # "gone"

FlushBesideATurn ==
    /\ MayFlush
    /\ captain = "working"
    /\ IF batch.age > MaxDefer
       THEN RecordDrop /\ UNCHANGED wakes
       ELSE Arm

FlushWakes ==
    /\ MayFlush
    /\ captain # "working"
    /\ \/ /\ ~UnderCap \/ "agent" \in missing
          /\ wakes' = Recent
          /\ RecordDrop
       \/ /\ UnderCap /\ "agent" \notin missing
          /\ wakes' = <<0>> \o Recent
          /\ send' = [at |-> "queued", events |-> batch.events]
          /\ batch' = NoBatch
          /\ UNCHANGED drop

Flush ==
    /\ Open /\ Quiet
    /\ batch # NoBatch /\ batch.timer = 0
    /\ FlushBehindASend \/ FlushWithoutCaptain \/ FlushBesideATurn \/ FlushWakes
    /\ UNCHANGED <<touched, life, captain, project, missing, reached, told>>

----
(* The microtasks, and a wake's way through the host. *)

\* The host is called, unless the waker closed since: deliverCaptainWake commits
\* the receipt of the wake together with its delivery, and waits.
HandOver ==
    /\ send.at = "queued"
    /\ IF Open
       THEN /\ send' = [send EXCEPT !.at = "received"]
            /\ reached' = reached \cup send.events
            /\ told' = <<0>> \o told
       ELSE send' = NoSend /\ UNCHANGED <<reached, told>>
    /\ UNCHANGED <<batch, touched, wakes, drop, life, captain, project, missing>>

\* recordDroppedCaptainWake keeps what became of the batch.
KeepDisposition ==
    /\ drop # {}
    /\ reached' = IF Open THEN reached \cup drop ELSE reached
    /\ drop' = {}
    /\ UNCHANGED <<batch, touched, wakes, send, life, captain, project, missing, told>>

\* After the receipt the host looks again: a shutdown, a stop, a label or an ended
\* recovery keeps the wake from being sent.
SendWake(excluded) ==
    /\ send.at = "received"
    /\ send' = IF ~Open \/ excluded THEN NoSend ELSE [send EXCEPT !.at = "sending"]
    /\ UNCHANGED <<batch, touched, wakes, drop, life, captain, project, missing, reached, told>>

\* sendMessage comes back, delivered or failed; its deadline sees to that.
SendSettles(delivered) ==
    /\ send.at = "sending"
    /\ send' = NoSend
    /\ captain' = IF delivered THEN "working" ELSE captain
    /\ UNCHANGED <<batch, touched, wakes, drop, life, project, missing, reached, told>>

----
(* The end of the waker. *)

Shutdown ==
    /\ Open
    /\ life' = "closing"
    /\ batch' = NoBatch
    /\ UNCHANGED <<touched, wakes, send, drop, captain, project, missing, reached, told>>

\* close() waits for the wake under way, but not longer than its deadline.
CloseReturns ==
    /\ life = "closing"
    /\ life' \in IF send = NoSend THEN {"joined"} ELSE {"incomplete"}
    /\ UNCHANGED <<batch, touched, wakes, send, drop, captain, project, missing, reached, told>>

----
(* The world around it. *)

\* Other messages make the Captain work, turns end, sessions come and go.
CaptainChanges ==
    /\ captain' \in {"none", "idle", "working"} \ {captain}
    /\ UNCHANGED <<waker, project, missing, reached, told>>

\* A person archives the project, changes its settings, deletes it or the agents.
ProjectChanges ==
    /\ \/ /\ project # "gone"
          /\ project' \in {"listening", "deaf", "gone"} \ {project}
          /\ UNCHANGED missing
       \/ /\ missing' \in SUBSET {"captain", "agent"} \ {missing}
          /\ UNCHANGED project
    /\ UNCHANGED <<waker, captain, reached, told>>

Older(age, most) == IF age < most THEN age + 1 ELSE age

Aged(ages) == [i \in DOMAIN ages |-> Older(ages[i], Hour)]

Tick ==
    /\ Quiet
    /\ batch' = IF batch = NoBatch THEN batch
                ELSE [batch EXCEPT !.age = Older(@, MaxDefer + 1),
                                   !.timer = IF @ = 0 THEN 0 ELSE @ - 1]
    /\ touched' = [t \in Tasks |-> Older(touched[t], Window + 1)]
    /\ wakes' = Aged(wakes)
    /\ told' = OfTheHour(Aged(told))
    /\ UNCHANGED <<send, drop, life, captain, project, missing, reached>>

----
(* The specification. *)

Init ==
    /\ batch = NoBatch
    /\ touched = [t \in Tasks |-> Window + 1]
    /\ wakes = <<>> /\ told = <<>>
    /\ send = NoSend /\ drop = {}
    /\ life = "open"
    /\ captain \in {"none", "idle"}
    /\ project = "listening" /\ missing = {}
    /\ reached = {}

Next ==
    \/ \E f \in Facts : HandleEvent(f)
    \/ \E t \in Tasks : NoteCoordinatorTouched(t)
    \/ Flush
    \/ HandOver
    \/ KeepDisposition
    \/ \E excluded \in BOOLEAN : SendWake(excluded)
    \/ \E delivered \in BOOLEAN : SendSettles(delivered)
    \/ Shutdown
    \/ CloseReturns
    \/ CaptainChanges
    \/ ProjectChanges
    \/ Tick

\* Timers fire, microtasks run, the host answers and time goes on.  Nothing is asked
\* of the Captain, which may work for ever.
Fairness ==
    /\ WF_vars(Flush)
    /\ WF_vars(HandOver)
    /\ WF_vars(KeepDisposition)
    /\ WF_vars(\E excluded \in BOOLEAN : SendWake(excluded))
    /\ WF_vars(\E delivered \in BOOLEAN : SendSettles(delivered))
    /\ WF_vars(Tick)

Spec == Init /\ [][Next]_vars /\ Fairness

----
(* What a waker is for. *)

\* At most hourlyCap wakes of a project are handed to the host within an hour, however
\* batches, drops, failures and turns fall (an agent that keeps failing cannot spin
\* the Captain).
WakesAreCapped == Len(told) <= HourlyCap

\* An event that was let in is told to the Captain or its batch is kept as dropped,
\* even if the Captain never goes idle and no send succeeds, unless the waker
\* closes or the project's Captain is gone.
EventsEnd ==
    \A f \in Facts :
        f \in batch.events ~> f \in reached \/ ~Open \/ "captain" \in missing
===============================================================================
