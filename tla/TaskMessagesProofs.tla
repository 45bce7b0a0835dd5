-------------------------- MODULE TaskMessagesProofs --------------------------
(***************************************************************************)
(* What holds of the messages of a task for any number of messages,        *)
(* attempts and retries, and whatever the environment does: types; that    *)
(* every claim has a flight; that a stop is a boundary; that no            *)
(* acknowledged message is disowned; and, unless the app crashes or the    *)
(* user aborts a turn, that the backend takes a message once.              *)
(***************************************************************************)
EXTENDS TaskMessages, TLAPS

------------------------------------------------------------------------------
(* The operations on rows and records. *)

\* Every operation of the outbox yields a row (delivery-store.ts).
LEMMA RowTypes ==
    ASSUME NEW r \in Rows
    PROVE  /\ Enqueued(r) \in Rows /\ Reopened(r) \in Rows /\ Claimed(r) \in Rows
           /\ Accepted(r) \in Rows /\ Acknowledged(r) \in Rows /\ AcknowledgedByOwner(r) \in Rows
           /\ Released(r) \in Rows /\ Withdrawn(r) \in Rows /\ AfterCrash(r) \in Rows
           /\ \A state \in EndStates : Ended(r, state) \in Rows
           /\ \A now : GivenUp(r, now) \in Rows
           /\ [r EXCEPT !.expired = TRUE] \in Rows
  <1>1. r.attempts + 1 \in Nat
    BY DEF Rows
  <1>2. \A state \in EndStates : Ended(r, state) \in Rows
    BY DEF Rows, Ended, EndStates, DeliveryStates
  <1>3. Released(r) \in Rows
    BY DEF Rows, Released, IsOwned, DeliveryStates
  <1>4. Acknowledged(r) \in Rows
    BY DEF Rows, Acknowledged, DeliveryStates
  <1>5. Enqueued(r) \in Rows /\ Reopened(r) \in Rows /\ Claimed(r) \in Rows /\ Accepted(r) \in Rows
        /\ AfterCrash(r) \in Rows /\ [r EXCEPT !.expired = TRUE] \in Rows
    BY <1>1 DEF Rows, Enqueued, Reopened, Claimed, Accepted, IsOwned, AfterCrash, DeliveryStates
  <1> QED
    BY <1>2, <1>3, <1>4, <1>5 DEF AcknowledgedByOwner, Withdrawn, GivenUp, EndStates

\* What each operation makes of the state and the owner of a row.
LEMMA RowFates ==
    ASSUME NEW r \in Rows
    PROVE  /\ Enqueued(r).owner = r.owner
           /\ Enqueued(r).state = IF r.state = "absent" THEN "pending" ELSE r.state
           /\ Reopened(r).owner = r.owner
           /\ Reopened(r).state = IF r.state = "failed" THEN "pending" ELSE r.state
           /\ Claimed(r).state = "claimed" /\ Claimed(r).owner = "current"
           /\ Accepted(r).owner = r.owner
           /\ Accepted(r).state = IF IsOwned(r) THEN "accepted" ELSE r.state
           /\ IF r.state \in {"claimed", "accepted"}
              THEN Acknowledged(r).state = "acknowledged" /\ Acknowledged(r).owner = "none"
              ELSE Acknowledged(r) = r
           /\ IF IsOwned(r) THEN Released(r).state = "pending" /\ Released(r).owner = "none"
              ELSE Released(r) = r
           /\ \A state \in EndStates :
                IF r.state \in EndStates \cup {"absent"} THEN Ended(r, state) = r
                ELSE Ended(r, state).state = state /\ Ended(r, state).owner = "none"
           /\ IF r.state \in {"pending", "claimed"}
              THEN Withdrawn(r).state = "cancelled" /\ Withdrawn(r).owner = "none"
              ELSE Withdrawn(r) = r
           /\ AfterCrash(r).state = r.state
           /\ AfterCrash(r).owner = IF r.owner = "current" THEN "dead" ELSE r.owner
           /\ [r EXCEPT !.expired = TRUE].state = r.state
           /\ [r EXCEPT !.expired = TRUE].owner = r.owner
  <1>1. /\ Enqueued(r).owner = r.owner
        /\ Enqueued(r).state = IF r.state = "absent" THEN "pending" ELSE r.state
        /\ Reopened(r).owner = r.owner
        /\ Reopened(r).state = IF r.state = "failed" THEN "pending" ELSE r.state
        /\ Claimed(r).state = "claimed" /\ Claimed(r).owner = "current"
        /\ Accepted(r).owner = r.owner
        /\ Accepted(r).state = IF IsOwned(r) THEN "accepted" ELSE r.state
    BY DEF Rows, Enqueued, Reopened, Claimed, Accepted
  <1>2. \A state \in EndStates :
             IF r.state \in EndStates \cup {"absent"} THEN Ended(r, state) = r
             ELSE Ended(r, state).state = state /\ Ended(r, state).owner = "none"
    BY DEF Rows, Ended
  <1>3. "cancelled" \in EndStates /\ "pending" \notin EndStates /\ "claimed" \notin EndStates
    BY DEF EndStates
  <1> QED
    BY <1>1, <1>2, <1>3 DEF Rows, Acknowledged, Released, Withdrawn, AfterCrash

\* The fields of a row, a handoff and the recovery row.
LEMMA Fields ==
    /\ \A r \in Rows : r.state \in DeliveryStates \cup {"absent"}
                      /\ r.owner \in {"none", "current", "dead"}
    /\ \A h \in Handoffs : /\ h.phase \in Phases /\ h.open \in BOOLEAN /\ h.owns \in BOOLEAN
                           /\ h.taken \in BOOLEAN
                           /\ \A p \in Phases : [h EXCEPT !.phase = p] \in Handoffs
    /\ NoHandoff \in Handoffs /\ NoHandoff.phase = "none" /\ ~NoHandoff.open /\ ~NoHandoff.owns
    /\ ~NoHandoff.taken
    /\ NoRedo \in Retries /\ NoRedo.phase = "none" /\ ~NoRedo.owns /\ ~NoRedo.taken
    /\ "cancelled" \in EndStates /\ "timed_out" \in EndStates /\ "failed" \in EndStates
    /\ NoMessage \notin Messages
  <1>1. \A r \in Rows : r.state \in DeliveryStates \cup {"absent"}
                       /\ r.owner \in {"none", "current", "dead"}
    BY DEF Rows
  <1>2. \A h \in Handoffs : /\ h.phase \in Phases /\ h.open \in BOOLEAN /\ h.owns \in BOOLEAN
                            /\ h.taken \in BOOLEAN
                            /\ \A p \in Phases : [h EXCEPT !.phase = p] \in Handoffs
    BY DEF Handoffs
  <1>3. NoHandoff \in Handoffs /\ NoHandoff.phase = "none" /\ ~NoHandoff.open /\ ~NoHandoff.owns
        /\ ~NoHandoff.taken
    BY DEF NoHandoff, Handoffs, Phases
  <1>4. NoRedo \in Retries /\ NoRedo.phase = "none" /\ ~NoRedo.owns /\ ~NoRedo.taken
    BY DEF NoRedo, Retries
  <1> QED
    BY <1>1, <1>2, <1>3, <1>4 DEF EndStates, NoMessage, Messages

\* What the steps do to the recovery row and to the queue row of the task.
LEMMA RecoveryFates ==
    ASSUME recovery \in Recoveries
    PROVE  /\ recovery.message \in Messages \cup {NoMessage} /\ recovery.rejected \in BOOLEAN
           /\ recovery.here \in BOOLEAN
           /\ CancelledRecovery \in Recoveries /\ CancelledRecovery.message = recovery.message
           /\ CancelledRecovery.rejected = recovery.rejected
           /\ CancelledRecovery.state = IF recovery.state = "none" THEN "none" ELSE "cancelled"
           /\ \A m \in Messages : /\ Begun(m) \in Recoveries /\ Begun(m).message = m
                                  /\ Begun(m).state = "sending" /\ ~Begun(m).rejected
           /\ FailRecovery => /\ recovery' \in Recoveries /\ recovery'.message = recovery.message
                              /\ recovery'.rejected = recovery.rejected
                              /\ recovery'.state = "failed"
                              /\ told' = told \cup {recovery.message}
                              /\ task' = [task EXCEPT !.ended = TRUE]
           /\ \A rejected \in BOOLEAN :
                RetryLater(rejected) => /\ recovery' \in Recoveries
                                        /\ recovery'.message = recovery.message
                                        /\ recovery'.rejected = rejected
                                        /\ recovery'.state = "retrying"
                                        /\ told' = told /\ task' = task
           /\ \A state \in {"accepted", "completed"} :
                LET r == [recovery EXCEPT !.state = state]
                IN  r \in Recoveries /\ r.state = state /\ r.message = recovery.message
  <1>1. recovery.attempt + 1 \in Nat
    BY DEF Recoveries
  <1>2. /\ recovery.message \in Messages \cup {NoMessage} /\ recovery.rejected \in BOOLEAN
        /\ recovery.here \in BOOLEAN
        /\ CancelledRecovery \in Recoveries /\ CancelledRecovery.message = recovery.message
        /\ CancelledRecovery.rejected = recovery.rejected
        /\ CancelledRecovery.state = IF recovery.state = "none" THEN "none" ELSE "cancelled"
    BY DEF Recoveries, CancelledRecovery
  <1>3. \A m \in Messages : /\ Begun(m) \in Recoveries /\ Begun(m).message = m
                            /\ Begun(m).state = "sending" /\ ~Begun(m).rejected
    BY DEF Recoveries, Begun
  <1>4. ASSUME FailRecovery
        PROVE  /\ recovery' \in Recoveries /\ recovery'.message = recovery.message
               /\ recovery'.rejected = recovery.rejected
               /\ recovery'.state = "failed" /\ told' = told \cup {recovery.message}
               /\ task' = [task EXCEPT !.ended = TRUE]
    BY <1>4 DEF FailRecovery, Recoveries
  <1>5. ASSUME NEW rejected \in BOOLEAN, RetryLater(rejected)
        PROVE  /\ recovery' \in Recoveries /\ recovery'.message = recovery.message
               /\ recovery'.rejected = rejected /\ recovery'.state = "retrying"
               /\ told' = told /\ task' = task
    BY <1>1, <1>5 DEF RetryLater, Recoveries
  <1>6. ASSUME NEW state \in {"accepted", "completed"}
        PROVE  LET r == [recovery EXCEPT !.state = state]
               IN  r \in Recoveries /\ r.state = state /\ r.message = recovery.message
    BY DEF Recoveries
  <1> QED
    BY <1>2, <1>3, <1>4, <1>5, <1>6

\* A step of the environment is counted, and Never looks at the count.
LEMMA Spending ==
    ASSUME TypeOK, NEW kind \in Kinds, Spend(kind)
    PROVE  /\ uses' \in [scenario : Scenarios, done : [Kinds -> Nat]]
           /\ ~(Never(kind)') /\ \A k \in Kinds : Never(k)' => Never(k)
  <1> DEFINE n == uses.done[kind] + 1
  <1>1. uses.done[kind] \in Nat /\ n \in Nat /\ n # 0
    BY DEF TypeOK
  <1>2. uses' = [uses EXCEPT !.done = [uses.done EXCEPT ![kind] = n]]
    BY DEF Spend, TypeOK
  <1> HIDE DEF n
  <1>3. [uses.done EXCEPT ![kind] = n] \in [Kinds -> Nat]
    BY <1>1 DEF TypeOK
  <1>4. uses'.done = [uses.done EXCEPT ![kind] = n]
    BY <1>2 DEF TypeOK
  <1>5. uses' \in [scenario : Scenarios, done : [Kinds -> Nat]]
    BY <1>2, <1>3 DEF TypeOK
  <1>6. uses'.done[kind] = n /\ \A k \in Kinds \ {kind} : uses'.done[k] = uses.done[k]
    BY <1>4 DEF TypeOK
  <1> QED
    BY <1>1, <1>5, <1>6 DEF Never

------------------------------------------------------------------------------
(* A step that moves one message. *)

\* The row and the handoff of m become r and h, the others stay.
Moves(m, r, h) == /\ row' = [row EXCEPT ![m] = r]
                  /\ hand' = [hand EXCEPT ![m] = h]

\* A step of one message leaves the table and the handoffs typed.
LEMMA Moved ==
    ASSUME row \in [Messages -> Rows], hand \in [Messages -> Handoffs], NEW m \in Messages,
           NEW r \in Rows, NEW h \in Handoffs, Moves(m, r, h)
    PROVE  /\ row' \in [Messages -> Rows] /\ hand' \in [Messages -> Handoffs]
           /\ row'[m] = r /\ hand'[m] = h
           /\ \A n \in Messages \ {m} : row'[n] = row[n] /\ hand'[n] = hand[n]
  BY DEF Moves

------------------------------------------------------------------------------
(* The inductive invariant. *)

\* One flight is under way, the first, and no message has two (deliveryFlights).
Flying ==
    /\ \A i, j \in DOMAIN flights : flights[i].message = flights[j].message => i = j
    /\ \A m \in Messages : hand[m].open => flights # <<>> /\ Head(flights).message = m

\* What a flight or a sweep has read as accepted is not claimable again.
Past == {"accepted", "acknowledged", "cancelled", "timed_out"}
Letter(l) == l.seen = "accepted" => row[l.message].state \in Past
Lettered == /\ \A i \in DOMAIN flights : Letter(flights[i])
            /\ \A l \in sweep : Letter(l)

\* A claim of this process has an open handoff, and a handoff whose promise was given up
\* has a row that nothing reopens.
Held(r, h) ==
    /\ h.open => h.phase # "none"
    /\ h.phase \in {"opening", "resolved", "recorded"} => h.open
    /\ h.open => \/ r.state \in {"claimed", "cancelled"}
                 \/ h.phase = "recorded" /\ r.state = "accepted"
    /\ h.open /\ r.state \in {"claimed", "accepted"} => r.owner = "current"
    /\ ~h.open /\ h.phase # "none" => r.state \in {"timed_out", "cancelled"}
    /\ r.state \in {"claimed", "accepted"} /\ r.owner = "current" => h.open
    /\ r.state = "claimed" => r.owner # "none"
Holding == \A m \in Messages : Held(row[m], hand[m])

\* One prompt is on the wire, and the recovery row is about it (serializeTaskSend).
Wired ==
    /\ \A m, n \in Messages : hand[m].phase = "sending" /\ hand[n].phase = "sending" => m = n
    /\ \A m \in Messages : hand[m].phase = "sending" =>
          /\ redo.phase # "sending" /\ recovery.message = m
          /\ recovery.state \in {"sending", "cancelled", "failed"}
          /\ ~hand[m].owns => recovery.state # "sending"
    /\ redo.taken => redo.phase = "sending"
    /\ redo.phase = "sending" => recovery.state \in {"dispatching", "cancelled", "failed"}
    /\ booted /\ recovery.state = "dispatching" => redo.phase # "none" /\ redo.owns
    /\ recovery.state # "none" => recovery.message \in Messages
    /\ redo.phase # "none" => recovery.state # "none"

\* Who holds the session, while a stop is under way as well (assertSessionGeneration).
Sessions ==
    /\ \A m \in Messages : hand[m].owns => session
    /\ \A m \in Messages : hand[m].phase = "opening" => ~session
    /\ redo.owns => session
    /\ stop = "tearing" => ~session /\ \A m \in Messages : hand[m].phase # "opening"
    /\ stop # "none" /\ ~session => recovery.state \in {"none", "cancelled"}
    /\ ~booted => /\ ~session /\ stop = "none" /\ redo.phase = "none"
                  /\ \A m \in Messages : hand[m].phase = "none"

\* What a stop that returned has put an end to.
Ends(m) == /\ row[m].state \in EndStates /\ hand[m].phase # "opening"
           /\ hand[m].phase = "preparing" => ~hand[m].owns
Shut ==
    /\ \A m \in shut : Ends(m)
    /\ recovery.message \in shut => recovery.state \in {"none", "cancelled"}

\* Who answers for a message that was handed over.
Owed == {"sending", "retrying", "dispatching"}
Owned(m) ==
    taken[m] > 0 \/ m \in told \/ recovery.message # m \/ recovery.state \in Owed
Owning ==
    /\ \A m \in Messages : hand[m].taken => taken[m] > 0
    /\ recovery.state = "accepted" => taken[recovery.message] > 0
    /\ recovery.state \in {"retrying", "dispatching"} /\ ~recovery.rejected =>
            taken[recovery.message] > 0
    /\ redo.phase = "sending" /\ (redo.taken \/ ~recovery.rejected) => taken[recovery.message] > 0
    /\ \A m \in Messages :
            \/ row[m].state \in {"accepted", "acknowledged"}
            \/ hand[m].phase \in {"resolved", "recorded"}
            => Owned(m)

\* Without a crash or an abort: what is still to be handed over was not taken, and the
\* recovery row is not about it.
Calm == Never("crash") /\ Never("abort")
Live(m) == /\ recovery.message = m
           /\ recovery.state \in Owed \cup {"accepted"} \/ redo.phase = "sending"
Waiting(m) == \/ row[m].state \in {"absent", "pending", "failed"}
              \/ hand[m].phase \in {"opening", "barred", "preparing"}
Unsent(m) == taken[m] = 0 \/ m \in continued
Once ==
    /\ \A m \in Messages :
          /\ row[m].owner # "dead"
          /\ Waiting(m) => taken[m] = 0 /\ ~Live(m)
          /\ hand[m].phase = "sending" /\ ~hand[m].taken => taken[m] = 0
          /\ hand[m].phase = "sending" /\ recovery.state = "cancelled" =>
                row[m].state \in {"cancelled", "timed_out"}
          /\ taken[m] <= 1 \/ m \in continued
    /\ recovery.state \in {"retrying", "dispatching"} =>
          IF recovery.rejected THEN redo.taken \/ Unsent(recovery.message)
          ELSE recovery.message \in continued
    /\ redo.phase = "sending" /\ ~redo.taken /\ recovery.rejected => Unsent(recovery.message)

IInv == /\ TypeOK /\ Flying /\ Lettered /\ Holding /\ Wired /\ Sessions /\ Shut /\ Owning
        /\ Calm => Once


------------------------------------------------------------------------------
(* The flights. *)

\* The flights survive a step that begins no handoff but that of the first.
LEMMA FlightsStay ==
    ASSUME Flying, flights' = flights,
           \A n \in Messages : hand'[n].open => hand[n].open \/ (flights # <<>> /\ Head(flights).message = n)
    PROVE  Flying'
  BY DEF Flying

\* A flight joins the queue behind the others, unless the message has one.
LEMMA FlightsJoin ==
    ASSUME flights \in Seq(Letters), Flying, NEW m \in Messages, NEW seen \in DeliveryStates,
           Join(m, seen), \A n \in Messages : hand'[n].open => hand[n].open
    PROVE  /\ flights' \in Seq(Letters) /\ Flying'
           /\ \A i \in DOMAIN flights' : \/ \E j \in DOMAIN flights : flights'[i] = flights[j]
                                         \/ flights'[i] = [message |-> m, seen |-> seen]
  <1> DEFINE l == [message |-> m, seen |-> seen]
  <1>1. l \in Letters /\ l.message = m
    BY DEF Letters
  <1>2. CASE flights' = flights
    BY <1>2, FlightsStay
  <1>3. CASE flights' = Append(flights, l) /\ ~InFlight(m)
    <2> HIDE DEF l
    <2>1. /\ flights' \in Seq(Letters) /\ Len(flights') = Len(flights) + 1
          /\ DOMAIN flights' = 1..Len(flights) + 1 /\ DOMAIN flights = 1..Len(flights)
          /\ Len(flights) \in Nat
          /\ \A i \in 1..Len(flights) : flights'[i] = flights[i]
          /\ flights'[Len(flights) + 1] = l
      BY <1>1, <1>3
    <2>2. \A i \in DOMAIN flights' : i \in DOMAIN flights \/ i = Len(flights) + 1
      BY <2>1
    <2>3. \A i \in DOMAIN flights : flights[i].message # m
      BY <1>3 DEF InFlight
    <2>4. \A i, j \in DOMAIN flights' : flights'[i].message = flights'[j].message => i = j
      BY <1>1, <2>1, <2>2, <2>3 DEF Flying
    <2>5. flights # <<>> => flights' # <<>> /\ Head(flights') = Head(flights)
      BY <1>1, <1>3, <2>1
    <2>6. Flying'
      BY <2>4, <2>5 DEF Flying
    <2> QED
      BY <2>1, <2>2, <2>6 DEF l
  <1> QED
    BY <1>2, <1>3 DEF Join

\* The flight that is under way ends.
LEMMA FlightsGoOn ==
    ASSUME flights \in Seq(Letters), Flying, flights # <<>>, flights' = Tail(flights),
           \A n \in Messages : ~hand'[n].open
    PROVE  /\ flights' \in Seq(Letters) /\ Flying'
           /\ \A i \in DOMAIN flights' : \E j \in DOMAIN flights : flights'[i] = flights[j]
  <1>1. /\ flights' \in Seq(Letters) /\ Len(flights) \in Nat /\ Len(flights) > 0
        /\ DOMAIN flights' = 1..Len(flights) - 1 /\ DOMAIN flights = 1..Len(flights)
        /\ \A i \in 1..Len(flights) - 1 : flights'[i] = flights[i + 1]
    OBVIOUS
  <1>2. \A i \in DOMAIN flights' : i + 1 \in DOMAIN flights /\ flights'[i] = flights[i + 1] /\ i \in Nat
    BY <1>1
  <1>3. ASSUME NEW i \in DOMAIN flights', NEW j \in DOMAIN flights',
               flights'[i].message = flights'[j].message
        PROVE  i = j
    <2>1. i + 1 = j + 1
      BY <1>2, <1>3 DEF Flying
    <2> QED
      BY <1>2, <2>1
  <1> QED
    BY <1>1, <1>2, <1>3 DEF Flying

\* What the flights and the sweep have read of a row stays true of it, if the row only
\* moves on.
LEMMA LettersStay ==
    ASSUME flights \in Seq(Letters), flights' \in Seq(Letters), Lettered,
           sweep \subseteq [message : Messages, seen : DeliveryStates \cup {"awaited"}],
           \A i \in DOMAIN flights' :
                \/ \E j \in DOMAIN flights : flights'[i] = flights[j]
                \/ flights'[i].seen = "accepted" => row'[flights'[i].message].state \in Past,
           \A l \in sweep' : \/ l \in sweep
                             \/ l.seen = "accepted" => row'[l.message].state \in Past,
           \A n \in Messages : row[n].state \in Past => row'[n].state \in Past
    PROVE  Lettered'
  <1>1. \A i \in DOMAIN flights : flights[i].message \in Messages
    <2> SUFFICES ASSUME NEW i \in DOMAIN flights PROVE flights[i].message \in Messages
      OBVIOUS
    <2>1. flights[i] \in Letters
      OBVIOUS
    <2> QED
      BY <2>1 DEF Letters
  <1>2. \A l \in sweep : l.message \in Messages
    OBVIOUS
  <1>3. ASSUME NEW i \in DOMAIN flights'
        PROVE  flights'[i].seen = "accepted" => row'[flights'[i].message].state \in Past
    <2>1. CASE \E j \in DOMAIN flights : flights'[i] = flights[j]
      <3>1. PICK j \in DOMAIN flights : flights'[i] = flights[j]
        BY <2>1
      <3> QED
        BY <1>1, <3>1 DEF Lettered, Letter
    <2> QED
      BY <2>1 DEF Letter
  <1>4. ASSUME NEW l \in sweep' PROVE l.seen = "accepted" => row'[l.message].state \in Past
    BY <1>2 DEF Lettered, Letter
  <1> QED
    BY <1>3, <1>4 DEF Lettered, Letter

------------------------------------------------------------------------------
(* The steps. *)

\* What the types say of one message, and of the queue of flights.
LEMMA Typical ==
    ASSUME TypeOK
    PROVE  /\ \A m \in Messages :
                 /\ row[m] \in Rows /\ row[m].state \in DeliveryStates \cup {"absent"}
                 /\ row[m].owner \in {"none", "current", "dead"}
                 /\ hand[m] \in Handoffs /\ hand[m].phase \in Phases /\ hand[m].open \in BOOLEAN
                 /\ hand[m].owns \in BOOLEAN /\ hand[m].taken \in BOOLEAN
                 /\ taken[m] \in 0..2
           /\ recovery \in Recoveries /\ recovery.message \in Messages \cup {NoMessage}
           /\ recovery.rejected \in BOOLEAN /\ NoMessage \notin Messages
           /\ row \in [Messages -> Rows] /\ hand \in [Messages -> Handoffs]
           /\ flights \in Seq(Letters)
  <1>1. \A m \in Messages : row[m] \in Rows /\ hand[m] \in Handoffs /\ taken[m] \in 0..2
    BY DEF TypeOK
  <1>2. recovery \in Recoveries /\ flights \in Seq(Letters)
        /\ row \in [Messages -> Rows] /\ hand \in [Messages -> Handoffs]
    BY DEF TypeOK
  <1> QED
    BY <1>1, <1>2, Fields, RecoveryFates

\* A message is sent, or sent again.
LEMMA SendMessageKeeps ==
    ASSUME IInv, NEW m \in Messages, SendMessage(m)
    PROVE  IInv'
  <1>1. PICK byUser \in BOOLEAN : SendReopens(m, byUser)
    BY DEF SendMessage
  <1> DEFINE r == Enqueued(IF byUser THEN Reopened(row[m]) ELSE row[m])
  <1>2. /\ r \in Rows /\ r.owner = row[m].owner /\ r.state \in DeliveryStates
        /\ r.state = row[m].state \/ (r.state = "pending" /\ row[m].state \in {"absent", "failed"})
        /\ row[m].state = "failed" /\ r.state = "pending" => byUser
    <2>1. row[m] \in Rows /\ Reopened(row[m]) \in Rows /\ r \in Rows /\ r.state \in DeliveryStates \cup {"absent"}
      BY Typical, RowTypes, Fields DEF IInv
    <2> QED
      BY <2>1, RowFates
  <1>3. /\ Put(m, r) /\ Join(m, r.state)
        /\ shut' = IF byUser /\ row[m].state = "failed" THEN shut \ {m} ELSE shut
    BY <1>1 DEF SendReopens
  <1> HIDE DEF r
  <1>4. Moves(m, r, hand[m])
    BY <1>3, Typical DEF Moves, Put, SendMessage, IInv
  <1>5. UNCHANGED <<recovery, task, hand, session, redo, sweep, stop, booted, taken, continued, told>>
    BY DEF SendMessage
  <1>6. /\ row' \in [Messages -> Rows] /\ row'[m] = r
        /\ \A n \in Messages \ {m} : row'[n] = row[n]
    BY <1>2, <1>4, Typical, Moved DEF IInv
  <1>7. /\ uses' \in [scenario : Scenarios, done : [Kinds -> Nat]]
        /\ Calm' => Calm
    BY Spending DEF SendMessage, IInv, Kinds, Calm
  <1>8. /\ flights' \in Seq(Letters) /\ Flying'
        /\ \A i \in DOMAIN flights' : \/ \E j \in DOMAIN flights : flights'[i] = flights[j]
                                      \/ flights'[i] = [message |-> m, seen |-> r.state]
    BY <1>2, <1>3, <1>5, FlightsJoin, Typical DEF IInv
  <1>9. TypeOK'
    BY <1>3, <1>5, <1>6, <1>7, <1>8 DEF IInv, TypeOK
  <1>10. Lettered'
    <2>1. \A n \in Messages : row[n].state \in Past => row'[n].state \in Past
      BY <1>2, <1>6 DEF Past
    <2>2. \A i \in DOMAIN flights' :
              \/ \E j \in DOMAIN flights : flights'[i] = flights[j]
              \/ flights'[i].seen = "accepted" => row'[flights'[i].message].state \in Past
      BY <1>6, <1>8 DEF Past
    <2> QED
      BY <1>5, <1>8, <2>1, <2>2, LettersStay DEF IInv, TypeOK
  <1>11. Holding'
    BY <1>2, <1>5, <1>6 DEF IInv, Holding, Held
  <1>12. Wired' /\ Sessions'
    BY <1>5 DEF IInv, Wired, Sessions
  <1>13. Shut'
    BY <1>2, <1>3, <1>5, <1>6, Typical DEF IInv, TypeOK, Shut, Ends, EndStates
  <1>14. Owning'
    BY <1>2, <1>5, <1>6 DEF IInv, Owning, Owned
  <1>15. Calm' => Once'
    BY <1>2, <1>5, <1>6, <1>7 DEF IInv, Once, Waiting, Live, Unsent
  <1> QED
    BY <1>8, <1>9, <1>10, <1>11, <1>12, <1>13, <1>14, <1>15 DEF IInv


\* The flight that is first in the queue gets its turn.
LEMMA DispatchKeeps ==
    ASSUME IInv, Dispatch
    PROVE  IInv'
  <1> DEFINE m == Head(flights).message
             seen == Head(flights).seen
  <1>1. /\ flights # <<>> /\ booted /\ ~hand[m].open
        /\ UNCHANGED <<recovery, task, session, redo, sweep, stop, booted, taken, continued,
                       shut, told, uses>>
    BY DEF Dispatch, Quiet
  <1>2. m \in Messages /\ seen \in DeliveryStates /\ Letter(Head(flights))
    <2>1. Head(flights) \in Letters /\ Head(flights) = flights[1] /\ 1 \in DOMAIN flights
      BY <1>1, Typical DEF IInv
    <2> QED
      BY <2>1 DEF Letters, IInv, Lettered
  <1>3. CASE Starts(m) /\ IsClaimable(row[m])
    <2> DEFINE p == IF session THEN "preparing" ELSE IF stop = "tearing" THEN "barred" ELSE "opening"
               r == Claimed(row[m])
               h == [phase |-> p, open |-> TRUE, owns |-> session, taken |-> FALSE]
    <2>1. h \in Handoffs /\ h.phase = p /\ h.open /\ h.owns = session /\ ~h.taken
      BY DEF Handoffs, Phases, IInv, TypeOK
    <2>2. r \in Rows /\ r.state = "claimed" /\ r.owner = "current"
      BY <1>2, Typical, RowTypes, RowFates DEF IInv
    <2>3. Moves(m, r, h) /\ flights' = flights
      BY <1>3 DEF Starts, Put, Moves
    <2>4. p \in {"preparing", "barred", "opening"} /\ (p = "preparing" <=> session)
          /\ (p = "opening" => stop # "tearing")
      OBVIOUS
    <2>5. row[m].state \in {"pending", "claimed"} /\ hand[m].phase = "none"
      BY <1>1, <1>2, <1>3, Typical DEF IsClaimable, IInv, Holding, Held
    <2> HIDE DEF m, seen, p, r, h
    <2>6. /\ row' \in [Messages -> Rows] /\ row'[m] = r /\ hand' \in [Messages -> Handoffs]
          /\ hand'[m] = h
          /\ \A n \in Messages \ {m} : row'[n] = row[n] /\ hand'[n] = hand[n]
      BY <1>2, <2>1, <2>2, <2>3, Typical, Moved DEF IInv
    <2>7. TypeOK'
      BY <1>1, <2>3, <2>6 DEF IInv, TypeOK
    <2>8. Flying'
      BY <1>1, <2>3, <2>6, FlightsStay DEF IInv, m
    <2>9. Lettered'
      <3>1. \A n \in Messages : row[n].state \in Past => row'[n].state \in Past
        BY <2>2, <2>5, <2>6 DEF Past
      <3> QED
        BY <1>1, <2>3, <3>1, LettersStay DEF IInv, TypeOK
    <2>10. Holding'
      BY <2>1, <2>2, <2>4, <2>6 DEF IInv, Holding, Held
    <2>11. Wired'
      BY <1>1, <2>1, <2>4, <2>5, <2>6 DEF IInv, Wired
    <2>12. Sessions'
      BY <1>1, <2>1, <2>4, <2>5, <2>6 DEF IInv, Sessions
    <2>13. Shut'
      BY <1>1, <2>1, <2>2, <2>4, <2>5, <2>6 DEF IInv, TypeOK, Shut, Ends, EndStates
    <2>14. Owning'
      BY <1>1, <2>1, <2>2, <2>4, <2>5, <2>6 DEF IInv, Owning, Owned
    <2>15. Calm' => Once'
      <3>1. Calm => Waiting(m) /\ row[m].owner # "dead"
        BY <1>1, <1>2, <2>5, Typical DEF IInv, Once, Waiting, Holding, Held
      <3> QED
        BY <1>1, <2>1, <2>2, <2>4, <2>5, <2>6, <3>1 DEF IInv, Once, Waiting, Live, Unsent, Calm, Never
    <2> QED
      BY <2>7, <2>8, <2>9, <2>10, <2>11, <2>12, <2>13, <2>14, <2>15 DEF IInv
  <1>4. CASE /\ Put(m, IF seen = "accepted" THEN Acknowledged(row[m]) ELSE row[m])
             /\ flights' = Tail(flights) /\ UNCHANGED hand
    <2> DEFINE r == IF seen = "accepted" THEN Acknowledged(row[m]) ELSE row[m]
    <2>1. /\ r \in Rows
          /\ \/ r = row[m]
             \/ /\ row[m].state = "accepted" /\ r.state = "acknowledged" /\ r.owner = "none"
      BY <1>2, Typical, RowTypes, RowFates DEF IInv, Letter, Past
    <2>2. Moves(m, r, hand[m]) /\ hand' = hand
      BY <1>2, <1>4, Typical DEF Put, Moves, IInv
    <2>3. \A n \in Messages : ~hand[n].open
      BY <1>1 DEF IInv, Flying
    <2> HIDE DEF m, seen, r
    <2>4. /\ row' \in [Messages -> Rows] /\ row'[m] = r
          /\ \A n \in Messages \ {m} : row'[n] = row[n]
      BY <1>2, <2>1, <2>2, Typical, Moved DEF IInv
    <2>5. /\ flights' \in Seq(Letters) /\ Flying'
          /\ \A i \in DOMAIN flights' : \E j \in DOMAIN flights : flights'[i] = flights[j]
      BY <1>1, <1>4, <2>2, <2>3, Typical, FlightsGoOn DEF IInv
    <2>6. TypeOK'
      BY <1>1, <2>2, <2>4, <2>5 DEF IInv, TypeOK
    <2>7. Lettered'
      <3>1. \A n \in Messages : row[n].state \in Past => row'[n].state \in Past
        BY <2>1, <2>4 DEF Past
      <3> QED
        BY <1>1, <2>5, <3>1, LettersStay DEF IInv, TypeOK
    <2>8. Holding'
      BY <2>1, <2>2, <2>3, <2>4 DEF IInv, Holding, Held
    <2>9. Wired' /\ Sessions'
      BY <1>1, <2>2 DEF IInv, Wired, Sessions
    <2>10. Shut'
      BY <1>1, <2>1, <2>2, <2>4 DEF IInv, TypeOK, Shut, Ends, EndStates
    <2>11. Owning'
      BY <1>1, <2>1, <2>2, <2>4 DEF IInv, Owning, Owned
    <2>12. Calm' => Once'
      BY <1>1, <2>1, <2>2, <2>4 DEF IInv, Once, Waiting, Live, Unsent, Calm, Never
    <2> QED
      BY <2>5, <2>6, <2>7, <2>8, <2>9, <2>10, <2>11, <2>12 DEF IInv
  <1> QED
    BY <1>3, <1>4 DEF Dispatch


\* A handoff that failed: its row ends, or waits for another attempt.
LEMMA Failed ==
    ASSUME IInv, NEW m \in Messages, HandoffFails(m), sweep' = sweep,
           hand[m].phase \in {"opening", "barred", "preparing", "sending"}
    PROVE  /\ row' \in [Messages -> Rows] /\ hand' \in [Messages -> Handoffs]
           /\ flights' \in Seq(Letters) /\ Flying' /\ Holding' /\ Lettered'
           /\ hand'[m].phase = "none" /\ ~hand'[m].open /\ ~hand'[m].owns /\ ~hand'[m].taken
           /\ \/ row'[m] = row[m] /\ row[m].state \in EndStates \ {"failed"}
              \/ /\ row[m].state = "claimed" /\ row'[m].owner = "none"
                 /\ row'[m].state \in {"timed_out", "failed", "pending"}
                 /\ recovery'.state = "failed" => row'[m].state = "timed_out"
           /\ \A n \in Messages \ {m} : row'[n] = row[n] /\ hand'[n] = hand[n]
  <1> DEFINE r == IF hand[m].open THEN GivenUp(row[m], recovery') ELSE row[m]
  <1>1. /\ hand[m] \in Handoffs /\ row[m] \in Rows /\ Held(row[m], hand[m])
        /\ flights \in Seq(Letters) /\ Flying
    BY Typical DEF IInv, Holding
  <1>2. r \in Rows
    BY <1>1, RowTypes
  <1>3. Moves(m, r, NoHandoff)
    <2>1. CASE hand[m].open
      BY <2>1 DEF HandoffFails, Moves, Put
    <2>2. CASE ~hand[m].open
      BY <2>2, Typical DEF HandoffFails, Moves, IInv
    <2> QED
      BY <1>1, <2>1, <2>2
  <1>4. \/ r = row[m] /\ row[m].state \in EndStates \ {"failed"}
        \/ /\ row[m].state = "claimed" /\ r.owner = "none"
           /\ r.state \in {"timed_out", "failed", "pending"}
           /\ recovery'.state = "failed" => r.state = "timed_out"
    <2>1. row[m].state \in {"claimed", "cancelled", "timed_out"}
      BY <1>1 DEF Held
    <2>2. CASE row[m].state = "claimed"
      <3>1. hand[m].open /\ IsOwned(row[m]) /\ row[m].state \notin EndStates \cup {"absent"}
        BY <1>1, <2>2 DEF Held, IsOwned, EndStates
      <3>2. /\ Ended(row[m], "timed_out").state = "timed_out"
            /\ Ended(row[m], "timed_out").owner = "none"
            /\ Ended(row[m], "failed").state = "failed" /\ Ended(row[m], "failed").owner = "none"
            /\ Released(row[m]).state = "pending" /\ Released(row[m]).owner = "none"
        BY <1>1, <3>1, RowFates, Fields
      <3> QED
        BY <2>2, <3>1, <3>2 DEF GivenUp
    <2>3. CASE row[m].state # "claimed"
      <3>1. row[m].state \in EndStates \ {"failed"} /\ ~IsOwned(row[m])
        BY <2>1, <2>3 DEF EndStates, IsOwned
      <3>2. /\ Ended(row[m], "timed_out") = row[m] /\ Ended(row[m], "failed") = row[m]
            /\ Released(row[m]) = row[m]
        BY <1>1, <3>1, RowFates, Fields
      <3> QED
        BY <3>1, <3>2 DEF GivenUp
    <2> QED
      BY <2>2, <2>3
  <1>5. \/ hand[m].open /\ flights # <<>> /\ flights' = Tail(flights)
        \/ ~hand[m].open /\ flights' = flights
    BY <1>1 DEF HandoffFails, Flying
  <1> HIDE DEF r
  <1>6. /\ row' \in [Messages -> Rows] /\ hand' \in [Messages -> Handoffs]
        /\ row'[m] = r /\ hand'[m] = NoHandoff
        /\ \A n \in Messages \ {m} : row'[n] = row[n] /\ hand'[n] = hand[n]
    BY <1>2, <1>3, Typical, Moved, Fields DEF IInv
  <1>7. /\ hand'[m].phase = "none" /\ ~hand'[m].open /\ ~hand'[m].owns /\ ~hand'[m].taken
    BY <1>6, Fields
  <1>8. /\ flights' \in Seq(Letters) /\ Flying'
        /\ \A i \in DOMAIN flights' : \E j \in DOMAIN flights : flights'[i] = flights[j]
    <2>1. CASE hand[m].open /\ flights # <<>> /\ flights' = Tail(flights)
      <3>1. \A n \in Messages : ~hand'[n].open
        BY <1>1, <1>6, <1>7, <2>1 DEF Flying
      <3> QED
        BY <1>1, <2>1, <3>1, FlightsGoOn
    <2>2. CASE flights' = flights
      BY <1>1, <1>6, <1>7, <2>2, FlightsStay
    <2> QED
      BY <1>5, <2>1, <2>2
  <1>9. Lettered'
    <2>1. \A n \in Messages : row[n].state \in Past => row'[n].state \in Past
      BY <1>4, <1>6 DEF Past
    <2> QED
      BY <1>8, <2>1, LettersStay DEF IInv, TypeOK
  <1>10. Holding'
    BY <1>4, <1>6, <1>7 DEF IInv, Holding, Held, EndStates
  <1> QED
    BY <1>4, <1>6, <1>7, <1>8, <1>9, <1>10

\* A handoff that resolved, or whose promise nobody waits for any more.
LEMMA Resolved ==
    ASSUME IInv, NEW m \in Messages, HandoffResolves(m), sweep' = sweep,
           hand[m].phase \in {"preparing", "sending"}
    PROVE  /\ row' = row /\ flights' = flights
           /\ hand' \in [Messages -> Handoffs] /\ Flying' /\ Holding' /\ Lettered'
           /\ \/ hand'[m].phase = "resolved" /\ hand'[m].owns = hand[m].owns
                 /\ hand'[m].taken = hand[m].taken
              \/ hand'[m].phase = "none" /\ ~hand'[m].owns /\ ~hand'[m].taken
           /\ \A n \in Messages \ {m} : hand'[n] = hand[n]
  <1> DEFINE h == IF hand[m].open THEN [hand[m] EXCEPT !.phase = "resolved"] ELSE NoHandoff
  <1>1. /\ hand[m] \in Handoffs /\ row[m] \in Rows /\ Held(row[m], hand[m])
        /\ flights \in Seq(Letters) /\ Flying
    BY Typical DEF IInv, Holding
  <1>2. /\ h \in Handoffs /\ h.open = hand[m].open
        /\ \/ hand[m].open /\ h.phase = "resolved" /\ h.owns = hand[m].owns /\ h.taken = hand[m].taken
           \/ ~hand[m].open /\ h.phase = "none" /\ ~h.owns /\ ~h.taken
    <2>1. CASE hand[m].open
      BY <1>1, <2>1 DEF Handoffs, Phases
    <2>2. CASE ~hand[m].open
      BY <1>1, <2>2, Fields
    <2> QED
      BY <1>1, <2>1, <2>2, Fields
  <1>3. row' = row /\ flights' = flights /\ hand' = [hand EXCEPT ![m] = h]
    BY DEF HandoffResolves
  <1> HIDE DEF h
  <1>4. /\ hand' \in [Messages -> Handoffs] /\ hand'[m] = h
        /\ \A n \in Messages \ {m} : hand'[n] = hand[n]
    BY <1>2, <1>3, Typical DEF IInv
  <1>5. Flying'
    BY <1>2, <1>3, <1>4, FlightsStay DEF IInv
  <1>6. Lettered'
    BY <1>1, <1>3, LettersStay DEF IInv, TypeOK
  <1>7. Holding'
    BY <1>1, <1>2, <1>3, <1>4 DEF IInv, Holding, Held
  <1> QED
    BY <1>2, <1>3, <1>4, <1>5, <1>6, <1>7


\* A handoff fails, alone or with the recovery of the prompt on the wire.
LEMMA HandoffFailsKeeps ==
    ASSUME IInv, NEW m \in Messages, HandoffFails(m),
           hand[m].phase \in {"opening", "barred", "preparing", "sending"},
           \/ UNCHANGED <<recovery, task, told>>
              /\ (hand[m].phase = "sending" => recovery.state # "sending")
           \/ FailRecovery /\ hand[m].owns /\ recovery.state \notin {"none", "cancelled"},
           UNCHANGED <<session, redo, sweep, stop, booted, taken, continued, shut, uses>>
    PROVE  IInv'
  <1>1. /\ row' \in [Messages -> Rows] /\ hand' \in [Messages -> Handoffs]
        /\ flights' \in Seq(Letters) /\ Flying' /\ Holding' /\ Lettered'
    BY Failed
  <1>2. /\ hand'[m].phase = "none" /\ ~hand'[m].open /\ ~hand'[m].owns /\ ~hand'[m].taken
        /\ \/ row'[m] = row[m] /\ row[m].state \in EndStates \ {"failed"}
           \/ /\ row[m].state = "claimed" /\ row'[m].owner = "none"
              /\ row'[m].state \in {"timed_out", "failed", "pending"}
              /\ recovery'.state = "failed" => row'[m].state = "timed_out"
        /\ \A n \in Messages \ {m} : row'[n] = row[n] /\ hand'[n] = hand[n]
    BY Failed
  <1>3. \/ /\ UNCHANGED <<recovery, task, told>>
           /\ hand[m].phase = "sending" => recovery.state # "sending"
        \/ /\ recovery' \in Recoveries /\ recovery'.message = recovery.message
           /\ recovery'.rejected = recovery.rejected /\ recovery'.state = "failed"
           /\ told' = told \cup {recovery.message} /\ task' = [task EXCEPT !.ended = TRUE]
           /\ hand[m].owns /\ recovery.state \notin {"none", "cancelled"}
    BY Typical, RecoveryFates DEF IInv
  <1>4. TypeOK'
    BY <1>1, <1>3, Typical DEF IInv, TypeOK
  <1>5. Wired'
    BY <1>2, <1>3 DEF IInv, Wired
  <1>6. Sessions'
    BY <1>2, <1>3 DEF IInv, Sessions
  <1>7. Shut'
    <2>1. ASSUME NEW n \in Messages, Ends(n) PROVE Ends(n)'
      <3>1. n = m => row[n].state # "claimed"
        BY <2>1 DEF Ends, EndStates
      <3> QED
        BY <1>2, <2>1, <3>1 DEF Ends
    <2>2. recovery'.message \in shut => recovery'.state \in {"none", "cancelled"}
      BY <1>3 DEF IInv, Shut
    <2> QED
      BY <2>1, <2>2 DEF IInv, TypeOK, Shut
  <1>8. Owning'
    BY <1>2, <1>3 DEF IInv, Owning, Owned, EndStates
  <1>9. ASSUME Calm' PROVE Once'
    <2>1. Once
      BY <1>9 DEF IInv, Calm, Never
    <2>2. hand[m].phase # "sending" \/ row'[m].state \in EndStates \ {"failed"}
      <3> SUFFICES ASSUME hand[m].phase = "sending", row[m].state = "claimed"
                   PROVE  row'[m].state = "timed_out"
        BY <1>2 DEF EndStates
      <3>1. recovery.state \in {"sending", "failed"}
        BY <2>1 DEF Once, IInv, Wired
      <3>2. recovery'.state = "failed"
        BY <3>1, <1>3
      <3>3. row[m].state \notin EndStates \ {"failed"}
        BY DEF EndStates
      <3> QED
        BY <1>2, <3>2, <3>3
    <2>3. hand[m].phase # "sending" => taken[m] = 0 /\ ~Live(m)
      BY <2>1 DEF Once, Waiting
    <2>4. ASSUME NEW n \in Messages
          PROVE  /\ row'[n].owner # "dead"
                 /\ Waiting(n)' => taken[n] = 0 /\ ~Live(n)
                 /\ hand'[n].phase = "sending" => hand[n].phase = "sending" /\ n # m
      <3>1. CASE n = m
        <4>1. Waiting(m)' => hand[m].phase # "sending"
          BY <1>2, <2>2 DEF Waiting, EndStates
        <4> QED
          BY <1>2, <2>1, <2>3, <3>1, <4>1 DEF Once
      <3>2. CASE n # m
        BY <1>2, <2>1, <3>2 DEF Once, Waiting
      <3> QED
        BY <3>1, <3>2
    <2>5. \A n \in Messages : Live(n)' => Live(n)
      BY <1>3 DEF Live, Owed
    <2>6. UNCHANGED <<redo, taken, continued>> /\ recovery'.message = recovery.message
          /\ recovery'.rejected = recovery.rejected
          /\ recovery'.state \in {recovery.state, "failed"}
      BY <1>3
    <2> QED
      BY <2>1, <2>4, <2>5, <2>6, <1>2 DEF Once, Unsent
  <1> QED
    BY <1>1, <1>4, <1>5, <1>6, <1>7, <1>8, <1>9 DEF IInv

\* The session of a handoff comes up, or does not.
LEMMA OpenSucceedsKeeps ==
    ASSUME IInv, NEW m \in Messages, OpenSucceeds(m)
    PROVE  IInv'
  <1> DEFINE h == [hand[m] EXCEPT !.phase = "preparing", !.owns = TRUE]
  <1>1. /\ h \in Handoffs /\ h.phase = "preparing" /\ h.owns /\ h.open = hand[m].open
        /\ h.taken = hand[m].taken
    BY Typical DEF IInv, Handoffs, Phases
  <1>2. hand' = [hand EXCEPT ![m] = h]
    BY DEF OpenSucceeds
  <1> HIDE DEF h
  <1>3. /\ hand' \in [Messages -> Handoffs] /\ hand'[m] = h
        /\ \A n \in Messages \ {m} : hand'[n] = hand[n]
    BY <1>1, <1>2, Typical DEF IInv
  <1>4. /\ session' = TRUE /\ hand[m].phase = "opening" /\ booted
        /\ UNCHANGED <<row, task, flights, redo, sweep, stop, booted, taken, continued, shut,
                       told, uses>>
    BY DEF OpenSucceeds, Quiet
  <1>5. /\ recovery' \in Recoveries /\ recovery'.state = recovery.state
        /\ recovery'.message = recovery.message /\ recovery'.rejected = recovery.rejected
    BY Typical DEF IInv, OpenSucceeds, Recoveries
  <1>6. hand[m].open /\ \A n \in Messages : hand[n].phase = "opening" => n = m
    BY <1>4 DEF IInv, Holding, Held, Flying
  <1>7. TypeOK'
    BY <1>3, <1>4, <1>5 DEF IInv, TypeOK
  <1>8. Flying'
    BY <1>1, <1>3, <1>4, FlightsStay DEF IInv
  <1>9. Lettered'
    BY <1>4, LettersStay, Typical DEF IInv, TypeOK
  <1>10. Holding'
    <2>1. Held(row[m], h)
      BY <1>1, <1>4, <1>6 DEF IInv, Holding, Held
    <2>2. \A n \in Messages : Held(row'[n], hand'[n])
      BY <1>3, <1>4, <2>1 DEF IInv, Holding
    <2>3. QED
      BY <2>2 DEF Holding
  <1>11. Wired'
    BY <1>1, <1>3, <1>4, <1>5 DEF IInv, Wired
  <1>12. Sessions'
    BY <1>1, <1>3, <1>4, <1>5, <1>6 DEF IInv, Sessions
  <1>13. Shut'
    <2>1. m \notin shut /\ shut \subseteq Messages
      BY <1>4 DEF IInv, TypeOK, Shut, Ends
    <2>2. \A n \in shut : Ends(n)'
      BY <1>3, <1>4, <2>1 DEF IInv, Shut, Ends
    <2>3. QED
      BY <1>4, <1>5, <2>2 DEF IInv, Shut
  <1>14. Owning'
    BY <1>1, <1>3, <1>4, <1>5 DEF IInv, Owning, Owned
  <1>15. Calm' => Once'
    BY <1>1, <1>3, <1>4, <1>5 DEF IInv, Once, Waiting, Live, Unsent, Calm, Never
  <1> QED
    BY <1>7, <1>8, <1>9, <1>10, <1>11, <1>12, <1>13, <1>14, <1>15 DEF IInv

\* OpenFails keeps the invariant: it ends the handoff as every failure does.
LEMMA OpenFailsKeeps ==
    ASSUME IInv, NEW m \in Messages, OpenFails(m)
    PROVE  IInv'
  BY HandoffFailsKeeps DEF OpenFails

\* The prompt goes out: the recovery row is about it from now on.
LEMMA PromptGoesOutKeeps ==
    ASSUME IInv, NEW m \in Messages, PromptGoesOut(m)
    PROVE  IInv'
  <1> DEFINE h == [hand[m] EXCEPT !.phase = "sending"]
  <1>1. /\ h \in Handoffs /\ h.phase = "sending" /\ h.owns = hand[m].owns /\ h.open = hand[m].open
        /\ h.taken = hand[m].taken
    BY Typical DEF IInv, Handoffs, Phases
  <1>2. hand' = [hand EXCEPT ![m] = h]
    BY DEF PromptGoesOut
  <1> HIDE DEF h
  <1>3. /\ hand' \in [Messages -> Handoffs] /\ hand'[m] = h
        /\ \A n \in Messages \ {m} : hand'[n] = hand[n]
    BY <1>1, <1>2, Typical DEF IInv
  <1>4. /\ hand[m].phase = "preparing" /\ hand[m].owns /\ booted /\ redo.phase # "sending"
        /\ \A n \in Messages : hand[n].phase # "sending"
        /\ UNCHANGED <<row, task, flights, session, redo, sweep, stop, booted, taken, continued,
                       shut, told, uses>>
    BY DEF PromptGoesOut, Quiet, WireIsFree
  <1>5. /\ recovery' \in Recoveries /\ recovery'.state = "sending" /\ recovery'.message = m
    BY Typical, RecoveryFates DEF IInv, PromptGoesOut
  <1>6. m \notin shut /\ row[m].state \in {"claimed", "cancelled", "timed_out"}
    BY <1>4 DEF IInv, Shut, Ends, Holding, Held
  <1>7. TypeOK'
    BY <1>3, <1>4, <1>5 DEF IInv, TypeOK
  <1>8. Flying'
    BY <1>1, <1>3, <1>4, FlightsStay DEF IInv
  <1>9. Lettered'
    BY <1>4, LettersStay, Typical DEF IInv, TypeOK
  <1>10. Holding'
    BY <1>1, <1>3, <1>4, <1>6 DEF IInv, Holding, Held
  <1>11. Wired'
    <2>1. \A n \in Messages : hand'[n].phase = "sending" => n = m
      BY <1>3, <1>4
    <2>2. hand'[m].owns
      BY <1>1, <1>3, <1>4
    <2> QED
      BY <1>4, <1>5, <2>1, <2>2 DEF IInv, Wired
  <1>12. Sessions'
    BY <1>1, <1>3, <1>4, <1>5 DEF IInv, Sessions
  <1>13. Shut'
    <2>1. \A n \in shut : Ends(n) /\ n \in Messages /\ n # m
      BY <1>6 DEF IInv, TypeOK, Shut
    <2> QED
      BY <1>3, <1>4, <1>5, <1>6, <2>1 DEF Shut, Ends
  <1>14. Owning'
    BY <1>1, <1>3, <1>4, <1>5 DEF IInv, Owning, Owned, Owed
  <1>15. ASSUME Calm' PROVE Once'
    <2>1. Once
      BY <1>4, <1>15 DEF IInv, Calm, Never
    <2>2. taken[m] = 0 /\ ~(Waiting(m)')
      BY <1>1, <1>3, <1>4, <1>6, <2>1 DEF Once, Waiting
    <2>3. ASSUME NEW n \in Messages \ {m} PROVE (Waiting(n)' => Waiting(n)) /\ ~(Live(n)')
      BY <1>3, <1>4, <1>5 DEF Waiting, Live
    <2> QED
      BY <1>1, <1>3, <1>4, <1>5, <2>1, <2>2, <2>3 DEF Once
  <1> QED
    BY <1>7, <1>8, <1>9, <1>10, <1>11, <1>12, <1>13, <1>14, <1>15 DEF IInv

\* Nothing was sent: the failure is taken for the one of the turn the recovery row is about.
LEMMA PreparationFailsKeeps ==
    ASSUME IInv, NEW m \in Messages, PreparationFails(m)
    PROVE  IInv'
  <1>1. /\ hand[m].phase = "preparing" /\ booted
        /\ UNCHANGED <<session, redo, sweep, stop, booted, taken, continued, shut, uses>>
    BY DEF PreparationFails, Quiet
  <1>2. CASE UNCHANGED <<recovery, task, told>> /\ HandoffFails(m)
    BY <1>1, <1>2, HandoffFailsKeeps
  <1>3. CASE FailRecovery /\ HandoffFails(m) /\ hand[m].owns
             /\ recovery.state \notin {"none", "cancelled"}
    BY <1>1, <1>3, HandoffFailsKeeps
  <1>4. CASE UNCHANGED <<recovery, task, told>> /\ HandoffResolves(m) /\ recovery.state = "retrying"
    <2>1. /\ row' = row /\ flights' = flights
          /\ hand' \in [Messages -> Handoffs] /\ Flying' /\ Holding' /\ Lettered'
          /\ \/ hand'[m].phase = "resolved" /\ hand'[m].owns = hand[m].owns
                /\ hand'[m].taken = hand[m].taken
             \/ hand'[m].phase = "none" /\ ~hand'[m].owns /\ ~hand'[m].taken
          /\ \A n \in Messages \ {m} : hand'[n] = hand[n]
      BY <1>1, <1>4, Resolved
    <2>2. TypeOK'
      BY <1>1, <1>4, <2>1 DEF IInv, TypeOK
    <2>3. Wired' /\ Sessions'
      BY <1>1, <1>4, <2>1 DEF IInv, Wired, Sessions
    <2>4. Shut'
      BY <1>1, <1>4, <2>1 DEF IInv, TypeOK, Shut, Ends
    <2>5. Owning'
      BY <1>1, <1>4, <2>1 DEF IInv, Owning, Owned, Owed
    <2>6. Calm' => Once'
      BY <1>1, <1>4, <2>1 DEF IInv, Once, Waiting, Live, Unsent, Calm, Never
    <2> QED
      BY <2>1, <2>2, <2>3, <2>4, <2>5, <2>6 DEF IInv
  <1> QED
    BY <1>2, <1>3, <1>4 DEF PreparationFails


\* The backend takes the prompt that is on the wire.
LEMMA BackendTakesKeeps ==
    ASSUME IInv, NEW m \in Messages, BackendTakes(m)
    PROVE  IInv'
  <1> DEFINE h == [hand[m] EXCEPT !.taken = TRUE]
             c == Count(taken[m])
  <1>1. /\ h \in Handoffs /\ h.taken /\ h.owns = hand[m].owns /\ h.open = hand[m].open
        /\ h.phase = hand[m].phase
    BY Typical DEF IInv, Handoffs
  <1>2. /\ c \in 0..2 /\ c > 0 /\ (taken[m] = 0 => c = 1)
    BY Typical DEF IInv, Count
  <1>3. /\ hand' = [hand EXCEPT ![m] = h] /\ taken' = [taken EXCEPT ![m] = c]
        /\ hand[m].phase = "sending" /\ ~hand[m].taken
        /\ UNCHANGED <<row, recovery, task, flights, session, redo, sweep, stop, booted, continued,
                       shut, told, uses>>
    BY DEF BackendTakes
  <1> HIDE DEF h, c
  <1>4. /\ hand' \in [Messages -> Handoffs] /\ hand'[m] = h
        /\ \A n \in Messages \ {m} : hand'[n] = hand[n]
    BY <1>1, <1>3, Typical DEF IInv
  <1>5. /\ taken' \in [Messages -> 0..2] /\ taken'[m] = c
        /\ \A n \in Messages \ {m} : taken'[n] = taken[n]
    BY <1>2, <1>3 DEF IInv, TypeOK
  <1>6. /\ recovery.message = m /\ recovery.state \in {"sending", "cancelled", "failed"}
        /\ redo.phase # "sending"
    BY <1>3 DEF IInv, Wired
  <1>7. \A n \in Messages : taken[n] > 0 => taken'[n] > 0
    BY <1>2, <1>5
  <1>8. TypeOK'
    BY <1>3, <1>4, <1>5 DEF IInv, TypeOK
  <1>9. Flying'
    BY <1>1, <1>3, <1>4, FlightsStay DEF IInv
  <1>10. Lettered'
    BY <1>3, LettersStay, Typical DEF IInv, TypeOK
  <1>11. Holding'
    BY <1>1, <1>3, <1>4 DEF IInv, Holding, Held
  <1>12. Wired'
    BY <1>1, <1>3, <1>4 DEF IInv, Wired
  <1>13. Sessions'
    BY <1>1, <1>3, <1>4 DEF IInv, Sessions
  <1>14. Shut'
    BY <1>1, <1>3, <1>4 DEF IInv, TypeOK, Shut, Ends
  <1>15. Owning'
    <2>1. \A n \in Messages : Owned(n) => Owned(n)'
      BY <1>3, <1>7 DEF Owned
    <2>2. \A n \in Messages : hand'[n].phase = hand[n].phase
                              /\ (hand'[n].taken => hand[n].taken \/ n = m)
      BY <1>1, <1>4
    <2> QED
      BY <1>2, <1>3, <1>5, <1>6, <1>7, <2>1, <2>2 DEF IInv, Owning
  <1>16. ASSUME Calm' PROVE Once'
    <2>1. Once
      BY <1>3, <1>16 DEF IInv, Calm, Never
    <2>2. taken'[m] = 1 /\ ~Waiting(m) /\ ~(Waiting(m)')
      <3>1. row[m].state \in {"claimed", "cancelled", "timed_out"}
        BY <1>3 DEF IInv, Holding, Held
      <3> QED
        BY <1>1, <1>2, <1>3, <1>4, <1>5, <2>1, <3>1 DEF Once, Waiting
    <2>3. ASSUME NEW n \in Messages \ {m} PROVE (Waiting(n)' => Waiting(n)) /\ (Live(n)' => Live(n))
      BY <1>3, <1>4 DEF Waiting, Live
    <2> QED
      BY <1>1, <1>3, <1>4, <1>5, <1>6, <2>1, <2>2, <2>3 DEF Once, Unsent
  <1> QED
    BY <1>8, <1>9, <1>10, <1>11, <1>12, <1>13, <1>14, <1>15, <1>16 DEF IInv

\* The backend answers that it took the prompt.
LEMMA PromptAcceptedKeeps ==
    ASSUME IInv, NEW m \in Messages, PromptAccepted(m)
    PROVE  IInv'
  <1>1. /\ hand[m].phase = "sending" /\ hand[m].taken /\ booted
        /\ UNCHANGED <<task, session, redo, sweep, stop, booted, taken, continued, shut, told, uses>>
        /\ \/ recovery' = recovery /\ (recovery.state = "sending" => ~hand[m].owns)
           \/ /\ recovery' \in Recoveries /\ recovery'.state = "accepted"
              /\ recovery'.message = recovery.message /\ recovery.state = "sending" /\ hand[m].owns
    BY Typical, RecoveryFates DEF PromptAccepted, Quiet, IInv
  <1>2. /\ row' = row /\ flights' = flights
        /\ hand' \in [Messages -> Handoffs] /\ Flying' /\ Holding' /\ Lettered'
        /\ \/ hand'[m].phase = "resolved" /\ hand'[m].owns = hand[m].owns
              /\ hand'[m].taken = hand[m].taken
           \/ hand'[m].phase = "none" /\ ~hand'[m].owns /\ ~hand'[m].taken
        /\ \A n \in Messages \ {m} : hand'[n] = hand[n]
    BY Resolved DEF PromptAccepted
  <1>3. /\ recovery.message = m /\ recovery.state \in {"cancelled", "failed", "sending"}
        /\ redo.phase # "sending" /\ (~hand[m].owns => recovery.state # "sending")
        /\ \A n \in Messages \ {m} : hand'[n].phase # "sending"
    BY <1>1, <1>2 DEF IInv, Wired
  <1>4. hand'[m].phase # "sending" /\ taken[m] > 0
        /\ recovery'.state \in {"cancelled", "failed", "accepted"} /\ recovery'.message = m
    BY <1>1, <1>2, <1>3 DEF IInv, Owning
  <1>5. TypeOK'
    BY <1>1, <1>2, Typical DEF IInv, TypeOK
  <1>6. Wired'
    BY <1>1, <1>2, <1>3, <1>4 DEF IInv, Wired
  <1>7. Sessions'
    BY <1>1, <1>2, <1>4 DEF IInv, Sessions
  <1>8. Shut'
    <2>1. \A n \in Messages : Ends(n) => Ends(n)'
      BY <1>1, <1>2 DEF Ends
    <2>2. m \in shut => recovery'.state = "cancelled"
      BY <1>1, <1>3 DEF IInv, Shut
    <2> QED
      BY <1>1, <1>4, <2>1, <2>2 DEF IInv, TypeOK, Shut
  <1>9. Owning'
    BY <1>1, <1>2, <1>3, <1>4 DEF IInv, Owning, Owned
  <1>10. ASSUME Calm' PROVE Once'
    <2>1. Once
      BY <1>1, <1>10 DEF IInv, Calm, Never
    <2>2. ~(Waiting(m)')
      <3>1. row[m].state \in {"claimed", "cancelled", "timed_out"}
        BY <1>1 DEF IInv, Holding, Held
      <3> QED
        BY <1>2, <3>1 DEF Waiting
    <2>3. ASSUME NEW n \in Messages \ {m} PROVE (Waiting(n)' => Waiting(n)) /\ ~(Live(n)')
      BY <1>2, <1>4 DEF Waiting, Live
    <2> QED
      BY <1>1, <1>2, <1>3, <1>4, <2>1, <2>2, <2>3 DEF Once, Unsent
  <1> QED
    BY <1>2, <1>5, <1>6, <1>7, <1>8, <1>9, <1>10 DEF IInv

\* The backend refuses the prompt, or nobody can tell.
LEMMA PromptFailsKeeps ==
    ASSUME IInv, NEW m \in Messages, PromptFails(m)
    PROVE  IInv'
  <1>1. /\ hand[m].phase = "sending" /\ booted
        /\ UNCHANGED <<session, redo, sweep, stop, booted, taken, continued, shut, uses>>
    BY DEF PromptFails, Quiet
  <1>2. /\ recovery.message = m /\ redo.phase # "sending" /\ (~hand[m].owns => recovery.state # "sending")
    BY <1>1 DEF IInv, Wired
  <1>3. CASE UNCHANGED <<recovery, task, told>> /\ recovery.state # "sending" /\ HandoffFails(m)
    BY <1>1, <1>3, HandoffFailsKeeps
  <1>4. CASE FailRecovery /\ hand[m].owns /\ recovery.state = "sending" /\ HandoffFails(m)
    BY <1>1, <1>4, HandoffFailsKeeps
  <1>5. CASE RetryLater(TRUE) /\ hand[m].owns /\ recovery.state = "sending" /\ ~hand[m].taken
             /\ HandoffResolves(m)
    <2>1. /\ row' = row /\ flights' = flights
          /\ hand' \in [Messages -> Handoffs] /\ Flying' /\ Holding' /\ Lettered'
          /\ \/ hand'[m].phase = "resolved" /\ hand'[m].owns = hand[m].owns
                /\ hand'[m].taken = hand[m].taken
             \/ hand'[m].phase = "none" /\ ~hand'[m].owns /\ ~hand'[m].taken
          /\ \A n \in Messages \ {m} : hand'[n] = hand[n]
      BY <1>1, <1>5, Resolved
    <2>2. /\ recovery' \in Recoveries /\ recovery'.message = m /\ recovery'.rejected
          /\ recovery'.state = "retrying" /\ told' = told /\ task' = task
      BY <1>2, <1>5, Typical, RecoveryFates DEF IInv
    <2>3. /\ hand'[m].phase # "sending"
          /\ \A n \in Messages \ {m} : hand'[n].phase # "sending"
      BY <1>1, <2>1 DEF IInv, Wired
    <2>4. TypeOK'
      BY <1>1, <2>1, <2>2 DEF IInv, TypeOK
    <2>5. Wired'
      BY <1>1, <1>2, <2>1, <2>2, <2>3 DEF IInv, Wired
    <2>6. Sessions'
      BY <1>1, <1>5, <2>1, <2>2 DEF IInv, Sessions
    <2>7. Shut'
      <3>1. \A n \in Messages : Ends(n) => Ends(n)'
        BY <1>1, <2>1 DEF Ends
      <3>2. m \notin shut
        BY <1>2, <1>5 DEF IInv, Shut
      <3> QED
        BY <1>1, <2>2, <3>1, <3>2 DEF IInv, TypeOK, Shut
    <2>8. Owning'
      BY <1>1, <1>2, <2>1, <2>2, <2>3 DEF IInv, Owning, Owned, Owed
    <2>9. ASSUME Calm' PROVE Once'
      <3>1. Once
        BY <1>1, <2>9 DEF IInv, Calm, Never
      <3>2. ~(Waiting(m)') /\ taken[m] = 0
        <4>1. row[m].state \in {"claimed", "cancelled", "timed_out"}
          BY <1>1 DEF IInv, Holding, Held
        <4> QED
          BY <1>1, <1>5, <2>1, <3>1, <4>1 DEF Waiting, Once
      <3>3. ASSUME NEW n \in Messages \ {m} PROVE (Waiting(n)' => Waiting(n)) /\ ~(Live(n)')
        BY <2>1, <2>2 DEF Waiting, Live
      <3> QED
        BY <1>1, <1>2, <2>1, <2>2, <2>3, <3>1, <3>2, <3>3 DEF Once, Unsent
    <2> QED
      BY <2>1, <2>4, <2>5, <2>6, <2>7, <2>8, <2>9 DEF IInv
  <1>6. PICK rejected \in BOOLEAN, transient \in BOOLEAN :
           /\ rejected => ~hand[m].taken
           /\ IF ~hand[m].owns \/ recovery.state # "sending"
              THEN UNCHANGED <<recovery, task, told>> /\ HandoffFails(m)
              ELSE /\ TryRecovery(TRUE, rejected /\ transient)
                   /\ IF Recovers(rejected /\ transient) THEN HandoffResolves(m) ELSE HandoffFails(m)
    BY DEF PromptFails
  <1> QED
    BY <1>2, <1>3, <1>4, <1>5, <1>6 DEF TryRecovery, Recovers


\* A step that only brings a message nearer to its end: its row and its handoff.
LEMMA Settled ==
    ASSUME IInv, NEW m \in Messages, NEW r \in Rows, NEW h \in Handoffs, Moves(m, r, h),
           UNCHANGED <<recovery, task, session, redo, stop, booted, taken, continued, shut, told>>,
           Held(r, h),
           \/ h.phase \in {hand[m].phase, "none"}
           \/ hand[m].phase = "resolved" /\ h.phase = "recorded",
           h.owns => hand[m].owns, h.taken => hand[m].taken,
           h.phase = "sending" => h.owns = hand[m].owns /\ h.taken = hand[m].taken,
           r.owner \in {row[m].owner, "none"},
           row[m].state \in EndStates => r.state = row[m].state,
           row[m].state = "accepted" => r.state \in Past,
           r.state \in {row[m].state, "accepted", "acknowledged", "cancelled", "timed_out"},
           r.state \in {"accepted", "acknowledged"} => Owned(m)
    PROVE  /\ row' \in [Messages -> Rows] /\ hand' \in [Messages -> Handoffs]
           /\ row'[m] = r /\ hand'[m] = h
           /\ \A n \in Messages \ {m} : row'[n] = row[n] /\ hand'[n] = hand[n]
           /\ \A n \in Messages : row[n].state \in Past => row'[n].state \in Past
           /\ Holding' /\ Wired' /\ Sessions' /\ Shut' /\ Owning' /\ (Once => Once')
  <1>1. /\ row' \in [Messages -> Rows] /\ hand' \in [Messages -> Handoffs]
        /\ row'[m] = r /\ hand'[m] = h
        /\ \A n \in Messages \ {m} : row'[n] = row[n] /\ hand'[n] = hand[n]
    BY Typical, Moved DEF IInv
  <1>2. \A n \in Messages : row[n].state \in Past => row'[n].state \in Past
    BY <1>1 DEF Past, EndStates
  <1>3. Holding'
    BY <1>1 DEF IInv, Holding
  <1>4. Wired'
    <2>1. \A n \in Messages : hand'[n].phase = "sending" =>
             hand[n].phase = "sending" /\ hand'[n].owns = hand[n].owns
      BY <1>1
    <2> QED
      BY <2>1 DEF IInv, Wired
  <1>5. Sessions'
    <2>1. \A n \in Messages : /\ hand'[n].owns => hand[n].owns
                              /\ hand'[n].phase = "opening" => hand[n].phase = "opening"
                              /\ hand[n].phase = "none" => hand'[n].phase = "none"
      BY <1>1
    <2> QED
      BY <2>1 DEF IInv, Sessions
  <1>6. Shut'
    <2>1. \A n \in Messages : Ends(n) => Ends(n)'
      BY <1>1 DEF Ends
    <2> QED
      BY <2>1 DEF IInv, TypeOK, Shut
  <1>7. Owning'
    <2>1. \A n \in Messages : Owned(n)' = Owned(n)
      BY DEF Owned
    <2>2. \A n \in Messages : /\ hand'[n].taken => hand[n].taken
                              /\ hand'[n].phase \in {"resolved", "recorded"} =>
                                     hand[n].phase \in {"resolved", "recorded"}
                              /\ row'[n].state \in {"accepted", "acknowledged"} =>
                                     row[n].state \in {"accepted", "acknowledged"} \/ Owned(n)
      BY <1>1
    <2> QED
      BY <2>1, <2>2 DEF IInv, Owning
  <1>8. ASSUME Once PROVE Once'
    <2>1. \A n \in Messages : /\ Waiting(n)' => Waiting(n)
                              /\ Live(n)' = Live(n)
                              /\ row[n].owner # "dead" => row'[n].owner # "dead"
                              /\ hand'[n].phase = "sending" => hand[n].phase = "sending"
                                                               /\ hand'[n].taken = hand[n].taken
                              /\ row[n].state \in {"cancelled", "timed_out"} =>
                                     row'[n].state = row[n].state
      BY <1>1 DEF Waiting, Live, EndStates
    <2> QED
      BY <1>8, <2>1 DEF Once, Unsent
  <1> QED
    BY <1>1, <1>2, <1>3, <1>4, <1>5, <1>6, <1>7, <1>8

\* The two commits of a handoff that resolved.
LEMMA AcceptKeeps ==
    ASSUME IInv, NEW m \in Messages, Accept(m)
    PROVE  IInv'
  <1> DEFINE r == Accepted(row[m])
             h == [hand[m] EXCEPT !.phase = "recorded"]
  <1>1. /\ hand[m].phase = "resolved" /\ Moves(m, r, h)
        /\ UNCHANGED <<recovery, task, flights, session, redo, sweep, stop, booted, taken,
                       continued, shut, told, uses>>
    BY DEF Accept, Put, Moves
  <1>2. /\ h \in Handoffs /\ h.phase = "recorded" /\ h.owns = hand[m].owns /\ h.open = hand[m].open
        /\ h.taken = hand[m].taken
    BY Typical DEF IInv, Handoffs, Phases
  <1>3. /\ r \in Rows /\ r.owner = row[m].owner
        /\ r.state = IF IsOwned(row[m]) THEN "accepted" ELSE row[m].state
    BY Typical, RowTypes, RowFates DEF IInv
  <1> HIDE DEF r, h
  <1>4. Held(row[m], hand[m]) /\ hand[m].open /\ Owned(m)
        /\ (IsOwned(row[m]) <=> row[m].state = "claimed")
    BY <1>1 DEF IInv, Holding, Held, Owning, IsOwned
  <1>5. /\ Held(r, h) /\ (row[m].state \in EndStates => r.state = row[m].state)
        /\ r.state \in {"accepted", "cancelled"} /\ row[m].state \in {"claimed", "cancelled"}
    BY <1>1, <1>2, <1>3, <1>4 DEF Held, EndStates
  <1>6. /\ row' \in [Messages -> Rows] /\ hand' \in [Messages -> Handoffs]
        /\ row'[m] = r /\ hand'[m] = h
        /\ \A n \in Messages \ {m} : row'[n] = row[n] /\ hand'[n] = hand[n]
        /\ \A n \in Messages : row[n].state \in Past => row'[n].state \in Past
        /\ Holding' /\ Wired' /\ Sessions' /\ Shut' /\ Owning' /\ (Once => Once')
    BY <1>1, <1>2, <1>3, <1>4, <1>5, Settled
  <1>7. TypeOK'
    BY <1>1, <1>6 DEF IInv, TypeOK
  <1>8. Flying'
    BY <1>1, <1>2, <1>6, FlightsStay DEF IInv
  <1>9. Lettered'
    BY <1>1, <1>6, LettersStay, Typical DEF IInv, TypeOK
  <1>10. Calm' => Calm
    BY <1>1 DEF Calm, Never
  <1> QED
    BY <1>6, <1>7, <1>8, <1>9, <1>10 DEF IInv

\* Acknowledge keeps it: the recovery row answers for the message from now on.
LEMMA AcknowledgeKeeps ==
    ASSUME IInv, NEW m \in Messages, Acknowledge(m)
    PROVE  IInv'
  <1> DEFINE r == AcknowledgedByOwner(row[m])
  <1>1. /\ hand[m].phase = "recorded" /\ Moves(m, r, NoHandoff) /\ flights' = Tail(flights)
        /\ UNCHANGED <<recovery, task, session, redo, sweep, stop, booted, taken,
                       continued, shut, told, uses>>
    BY DEF Acknowledge, Put, Moves
  <1>2. Held(row[m], hand[m]) /\ hand[m].open /\ Owned(m) /\ flights # <<>>
    BY <1>1 DEF IInv, Holding, Held, Owning, Flying
  <1>3. /\ r \in Rows
        /\ \/ r = row[m] /\ row[m].state = "cancelled"
           \/ /\ row[m].state \in {"claimed", "accepted"}
              /\ r.state = "acknowledged" /\ r.owner = "none"
    <2>1. row[m] \in Rows /\ r \in Rows
      BY Typical, RowTypes DEF IInv
    <2>2. CASE row[m].state = "cancelled"
      BY <2>1, <2>2, RowFates DEF AcknowledgedByOwner
    <2>3. CASE row[m].state \in {"claimed", "accepted"}
      <3>1. row[m].owner = "current"
        BY <1>2, <2>3 DEF Held
      <3> QED
        BY <2>1, <2>3, <3>1, RowFates DEF AcknowledgedByOwner
    <2> QED
      BY <1>2, <2>1, <2>2, <2>3 DEF Held
  <1> HIDE DEF r
  <1>4. Held(r, NoHandoff) /\ NoHandoff \in Handoffs /\ NoHandoff.phase = "none"
        /\ ~NoHandoff.open /\ ~NoHandoff.owns /\ ~NoHandoff.taken
    BY <1>3, Fields DEF Held
  <1>5. /\ row' \in [Messages -> Rows] /\ hand' \in [Messages -> Handoffs]
        /\ row'[m] = r /\ hand'[m] = NoHandoff
        /\ \A n \in Messages \ {m} : row'[n] = row[n] /\ hand'[n] = hand[n]
        /\ \A n \in Messages : row[n].state \in Past => row'[n].state \in Past
        /\ Holding' /\ Wired' /\ Sessions' /\ Shut' /\ Owning' /\ (Once => Once')
    BY <1>1, <1>2, <1>3, <1>4, Settled DEF EndStates, Past
  <1>6. /\ flights' \in Seq(Letters) /\ Flying'
        /\ \A i \in DOMAIN flights' : \E j \in DOMAIN flights : flights'[i] = flights[j]
    <2>1. \A n \in Messages : ~hand'[n].open
      BY <1>2, <1>4, <1>5 DEF IInv, Flying
    <2> QED
      BY <1>1, <1>2, <2>1, Typical, FlightsGoOn DEF IInv
  <1>7. TypeOK'
    BY <1>1, <1>5, <1>6 DEF IInv, TypeOK
  <1>8. Lettered'
    BY <1>1, <1>5, <1>6, LettersStay, Typical DEF IInv, TypeOK
  <1>9. Calm' => Calm
    BY <1>1 DEF Calm, Never
  <1> QED
    BY <1>5, <1>6, <1>7, <1>8, <1>9 DEF IInv


\* The deadline of a handoff: its row ends and the work behind it goes on.
LEMMA HandoffTimesOutKeeps ==
    ASSUME IInv, NEW m \in Messages, HandoffTimesOut(m)
    PROVE  IInv'
  <1> DEFINE r == Ended(row[m], "timed_out")
             h == [hand[m] EXCEPT !.open = FALSE]
  <1>1. /\ hand[m].open /\ hand[m].phase \in {"barred", "preparing", "sending"}
        /\ Moves(m, r, h) /\ flights' = Tail(flights)
        /\ UNCHANGED <<recovery, task, session, redo, sweep, stop, booted, taken,
                       continued, shut, told>>
    BY DEF HandoffTimesOut, Put, Moves
  <1>2. Held(row[m], hand[m]) /\ flights # <<>>
    BY <1>1 DEF IInv, Holding, Flying
  <1>3. /\ r \in Rows
        /\ \/ r = row[m] /\ row[m].state = "cancelled"
           \/ row[m].state = "claimed" /\ r.state = "timed_out" /\ r.owner = "none"
    <2>1. row[m] \in Rows /\ r \in Rows /\ row[m].state \in {"claimed", "cancelled"}
      BY <1>1, <1>2, Typical, RowTypes DEF IInv, Held, EndStates
    <2>2. "timed_out" \in EndStates /\ "claimed" \notin EndStates \cup {"absent"}
          /\ "cancelled" \in EndStates
      BY DEF EndStates
    <2> QED
      BY <2>1, <2>2, RowFates
  <1>4. /\ h \in Handoffs /\ ~h.open /\ h.phase = hand[m].phase /\ h.owns = hand[m].owns
        /\ h.taken = hand[m].taken
    BY Typical DEF IInv, Handoffs
  <1> HIDE DEF r, h
  <1>5. Held(r, h)
    BY <1>1, <1>3, <1>4 DEF Held
  <1>6. /\ row' \in [Messages -> Rows] /\ hand' \in [Messages -> Handoffs]
        /\ row'[m] = r /\ hand'[m] = h
        /\ \A n \in Messages \ {m} : row'[n] = row[n] /\ hand'[n] = hand[n]
        /\ \A n \in Messages : row[n].state \in Past => row'[n].state \in Past
        /\ Holding' /\ Wired' /\ Sessions' /\ Shut' /\ Owning' /\ (Once => Once')
    BY <1>1, <1>3, <1>4, <1>5, Settled DEF EndStates
  <1>7. /\ flights' \in Seq(Letters) /\ Flying'
        /\ \A i \in DOMAIN flights' : \E j \in DOMAIN flights : flights'[i] = flights[j]
    <2>1. \A n \in Messages : ~hand'[n].open
      BY <1>1, <1>4, <1>6 DEF IInv, Flying
    <2> QED
      BY <1>1, <1>2, <2>1, Typical, FlightsGoOn DEF IInv
  <1>8. uses' \in [scenario : Scenarios, done : [Kinds -> Nat]] /\ (Calm' => Calm)
    BY Spending DEF HandoffTimesOut, IInv, Kinds, Calm
  <1>9. TypeOK'
    BY <1>1, <1>6, <1>7, <1>8 DEF IInv, TypeOK
  <1>10. Lettered'
    BY <1>1, <1>6, <1>7, LettersStay, Typical DEF IInv, TypeOK
  <1> QED
    BY <1>6, <1>7, <1>8, <1>9, <1>10 DEF IInv

\* LeaseExpires keeps it: a claim whose lease ran out may be taken over, and is not yet.
LEMMA LeaseExpiresKeeps ==
    ASSUME IInv, NEW m \in Messages, LeaseExpires(m)
    PROVE  IInv'
  <1> DEFINE r == [row[m] EXCEPT !.expired = TRUE]
  <1>1. /\ row' = [row EXCEPT ![m] = r]
        /\ UNCHANGED <<recovery, task, flights, hand, session, redo, sweep, stop, booted, taken,
                       continued, shut, told, uses>>
    BY DEF LeaseExpires
  <1>2. r \in Rows /\ r.state = row[m].state /\ r.owner = row[m].owner
    BY Typical, RowTypes, RowFates DEF IInv
  <1>3. Moves(m, r, hand[m]) /\ hand[m] \in Handoffs
    BY <1>1, Typical DEF Moves, IInv
  <1> HIDE DEF r
  <1>4. Held(r, hand[m]) /\ (r.state \in {"accepted", "acknowledged"} => Owned(m))
    BY <1>2 DEF IInv, Holding, Held, Owning
  <1>5. /\ row' \in [Messages -> Rows]
        /\ \A n \in Messages : row[n].state \in Past => row'[n].state \in Past
        /\ Holding' /\ Wired' /\ Sessions' /\ Shut' /\ Owning' /\ (Once => Once')
    BY <1>1, <1>2, <1>3, <1>4, Settled DEF Past
  <1>6. TypeOK'
    BY <1>1, <1>5 DEF IInv, TypeOK
  <1>7. Flying'
    BY <1>1, FlightsStay DEF IInv
  <1>8. Lettered'
    BY <1>1, <1>5, LettersStay, Typical DEF IInv, TypeOK
  <1>9. Calm' => Calm
    BY <1>1 DEF Calm, Never
  <1> QED
    BY <1>5, <1>6, <1>7, <1>8, <1>9 DEF IInv

\* The sweep.
LEMMA SweepKeeps ==
    ASSUME IInv, SweepStep
    PROVE  IInv'
  <1>1. CASE SweepStarts
    <2>1. /\ UNCHANGED <<row, recovery, task, flights, hand, session, redo, stop, booted,
                         taken, continued, shut, told, uses>>
          /\ sweep' = {[message |-> m, seen |-> row[m].state] : m \in Listed}
      BY <1>1 DEF SweepStarts
    <2>2. ASSUME NEW l \in sweep'
          PROVE  /\ l \in [message : Messages, seen : DeliveryStates \cup {"awaited"}]
                 /\ l.seen = row[l.message].state
      <3>1. PICK m \in Listed : l = [message |-> m, seen |-> row[m].state]
        BY <2>1, <2>2
      <3>2. m \in Messages /\ row[m].state \in DeliveryStates
        BY <3>1, Typical DEF Listed, IsRecoverable, IsClaimable, IInv
      <3> QED
        BY <3>1, <3>2
    <2>3. TypeOK'
      BY <2>1, <2>2 DEF IInv, TypeOK
    <2>4. Lettered'
      BY <2>1, <2>2 DEF IInv, Lettered, Letter, Past
    <2> QED
      BY <2>1, <2>3, <2>4 DEF IInv, Flying, Holding, Wired, Sessions, Shut, Ends, Owning, Owned,
                              Once, Waiting, Live, Unsent, Calm, Never
  <1>2. ASSUME NEW l \in sweep, SweepExcludes(l)
        PROVE  IInv'
    <2> DEFINE m == l.message
               r == Ended(row[m], "cancelled")
    <2>1. m \in Messages /\ hand[m] \in Handoffs /\ row[m] \in Rows
      BY Typical DEF IInv, TypeOK
    <2>2. /\ Moves(m, r, hand[m]) /\ sweep' = sweep \ {l}
          /\ UNCHANGED <<recovery, task, flights, hand, session, redo, stop, booted, taken,
                         continued, shut, told, uses>>
      BY <1>2, <2>1, Typical DEF SweepExcludes, Put, Moves, IInv
    <2>3. /\ r \in Rows
          /\ \/ r = row[m]
             \/ /\ row[m].state \notin EndStates /\ r.state = "cancelled" /\ r.owner = "none"
      <3>1. "cancelled" \in EndStates
        BY DEF EndStates
      <3>2. r \in Rows
        BY <2>1, <3>1, RowTypes
      <3>3. \/ r = row[m]
            \/ row[m].state \notin EndStates /\ r.state = "cancelled" /\ r.owner = "none"
        BY <2>1, <3>1, RowFates
      <3> QED
        BY <3>2, <3>3
    <2> HIDE DEF m, r
    <2>4. Held(r, hand[m]) /\ (r.state \in {"accepted", "acknowledged"} => Owned(m))
      BY <2>1, <2>3 DEF IInv, Holding, Held, Owning
    <2>5. /\ row' \in [Messages -> Rows]
          /\ \A n \in Messages : row[n].state \in Past => row'[n].state \in Past
          /\ Holding' /\ Wired' /\ Sessions' /\ Shut' /\ Owning' /\ (Once => Once')
      BY <2>1, <2>2, <2>3, <2>4, Settled DEF Past
    <2>6. TypeOK'
      BY <2>2, <2>5 DEF IInv, TypeOK
    <2>7. Flying'
      BY <2>2, FlightsStay DEF IInv
    <2>8. Lettered'
      BY <2>2, <2>5, LettersStay, Typical DEF IInv, TypeOK
    <2>9. Calm' => Calm
      BY <2>2 DEF Calm, Never
    <2> QED
      BY <2>5, <2>6, <2>7, <2>8, <2>9 DEF IInv
  <1>3. ASSUME NEW l \in sweep, SweepDispatches(l) \/ SweepGoesOn(l)
        PROVE  IInv'
    <2> DEFINE k == [l EXCEPT !.seen = "awaited"]
    <2>1. /\ l \in [message : Messages, seen : DeliveryStates \cup {"awaited"}]
          /\ k \in [message : Messages, seen : DeliveryStates \cup {"awaited"}]
          /\ k.seen = "awaited" /\ l.message \in Messages
      BY DEF IInv, TypeOK
    <2>2. /\ UNCHANGED <<row, recovery, task, hand, session, redo, stop, booted,
                         taken, continued, shut, told, uses>>
          /\ sweep' \subseteq sweep \cup {k}
          /\ \/ flights' = flights
             \/ Join(l.message, l.seen) /\ l.seen \in DeliveryStates
      BY <1>3 DEF SweepDispatches, SweepGoesOn
    <2> HIDE DEF k
    <2>3. /\ flights' \in Seq(Letters) /\ Flying'
          /\ \A i \in DOMAIN flights' : \/ \E j \in DOMAIN flights : flights'[i] = flights[j]
                                        \/ flights'[i] = [message |-> l.message, seen |-> l.seen]
      BY <2>1, <2>2, FlightsStay, FlightsJoin, Typical DEF IInv
    <2>4. TypeOK'
      BY <2>1, <2>2, <2>3 DEF IInv, TypeOK
    <2>5. Lettered'
      <3>1. \A i \in DOMAIN flights' :
                \/ \E j \in DOMAIN flights : flights'[i] = flights[j]
                \/ flights'[i].seen = "accepted" => row'[flights'[i].message].state \in Past
        BY <2>2, <2>3 DEF IInv, Lettered, Letter
      <3>2. \A x \in sweep' : \/ x \in sweep
                              \/ x.seen = "accepted" => row'[x.message].state \in Past
        BY <2>1, <2>2
      <3> QED
        BY <2>2, <2>3, <3>1, <3>2, LettersStay DEF IInv, TypeOK
    <2> QED
      BY <2>2, <2>3, <2>4, <2>5 DEF IInv, Holding, Wired, Sessions, Shut, Ends, Owning, Owned,
                                    Once, Waiting, Live, Unsent, Calm, Never
  <1> QED
    BY <1>1, <1>2, <1>3 DEF SweepStep


\* A step that leaves the messages and their handoffs alone.
LEMMA RowsStay ==
    ASSUME IInv, UNCHANGED <<row, hand, flights, sweep>>
    PROVE  Flying' /\ Lettered' /\ Holding'
  BY DEF IInv, Flying, Lettered, Letter, Holding

\* The end of a turn.
LEMMA TurnEndsKeeps ==
    ASSUME IInv, TurnEnds
    PROVE  IInv'
  <1>1. /\ recovery.state = "accepted" /\ session
        /\ UNCHANGED <<row, task, flights, hand, session, redo, sweep, stop, booted, taken,
                       continued, shut, told, uses>>
    BY DEF TurnEnds
  <1>2. recovery' \in Recoveries /\ recovery'.state = "completed" /\ recovery'.message = recovery.message
    BY Typical, RecoveryFates DEF TurnEnds, IInv
  <1>3. \A n \in Messages : hand[n].phase # "sending"
    BY <1>1 DEF IInv, Wired
  <1>4. TypeOK'
    BY <1>1, <1>2 DEF IInv, TypeOK
  <1>5. Flying' /\ Lettered' /\ Holding'
    BY <1>1, RowsStay
  <1>6. Wired' /\ Sessions' /\ Shut'
    BY <1>1, <1>2, <1>3 DEF IInv, Wired, Sessions, Shut, Ends
  <1>7. Owning'
    BY <1>1, <1>2 DEF IInv, Owning, Owned, Wired
  <1>8. Calm' => Once'
    BY <1>1, <1>2, <1>3 DEF IInv, Wired, Once, Waiting, Live, Unsent, Calm, Never
  <1> QED
    BY <1>4, <1>5, <1>6, <1>7, <1>8 DEF IInv

\* TurnFails keeps it: what is retried is the continuation of a turn, not its prompt.
LEMMA TurnFailsKeeps ==
    ASSUME IInv, TurnFails
    PROVE  IInv'
  <1>1. /\ recovery.state = "accepted" /\ session
        /\ UNCHANGED <<row, flights, hand, session, redo, sweep, stop, booted, taken, shut>>
    BY DEF TurnFails
  <1>2. /\ recovery' \in Recoveries /\ recovery'.message = recovery.message
        /\ \/ /\ recovery'.state = "retrying" /\ ~recovery'.rejected /\ told' = told /\ task' = task
              /\ continued' = continued \cup {recovery.message}
           \/ /\ recovery'.state = "failed" /\ told' = told \cup {recovery.message}
              /\ task' = [task EXCEPT !.ended = TRUE] /\ continued' = continued
    <2>1. PICK recoverable \in BOOLEAN :
             /\ TryRecovery(FALSE, recoverable)
             /\ continued' = IF Recovers(recoverable) THEN continued \cup {recovery.message}
                             ELSE continued
      BY DEF TurnFails
    <2> QED
      BY <2>1, Typical, RecoveryFates DEF IInv, TryRecovery, Recovers
  <1>3. uses' \in [scenario : Scenarios, done : [Kinds -> Nat]] /\ (Calm' => Calm)
    BY Spending DEF TurnFails, IInv, Kinds, Calm
  <1>4. /\ \A n \in Messages : hand[n].phase # "sending"
        /\ redo.phase # "sending" /\ ~redo.taken /\ recovery.message \notin shut
        /\ taken[recovery.message] > 0 /\ recovery.message \in Messages
    BY <1>1, Typical DEF IInv, Wired, Shut, Owning
  <1>5. TypeOK'
    BY <1>1, <1>2, <1>3, Typical DEF IInv, TypeOK
  <1>6. Flying' /\ Lettered' /\ Holding'
    BY <1>1, RowsStay
  <1>7. Wired' /\ Sessions' /\ Shut'
    BY <1>1, <1>2, <1>4 DEF IInv, Wired, Sessions, Shut, Ends
  <1>8. Owning'
    BY <1>1, <1>2, <1>4 DEF IInv, Owning, Owned
  <1>9. ASSUME Once PROVE Once'
    <2>1. \A n \in Messages : (Waiting(n)' => Waiting(n)) /\ (Live(n)' => Live(n))
      BY <1>1, <1>2 DEF Waiting, Live
    <2>2. continued \subseteq continued' /\ (recovery'.state = "retrying" => recovery.message \in continued')
      BY <1>2
    <2> QED
      BY <1>1, <1>2, <1>4, <1>9, <2>1, <2>2 DEF Once, Unsent
  <1> QED
    BY <1>3, <1>5, <1>6, <1>7, <1>8, <1>9 DEF IInv

\* The retry of the prompt that the recovery row is about.
LEMMA RetryDispatchesKeeps ==
    ASSUME IInv, RetryDispatches
    PROVE  IInv'
  <1>1. /\ recovery.state = "retrying" /\ redo.phase = "none" /\ stop # "tearing" /\ booted
        /\ \A n \in Messages : hand[n].phase # "opening"
        /\ UNCHANGED <<row, flights, hand, sweep, stop, booted, taken, continued, shut, uses>>
    BY DEF RetryDispatches, Quiet
  <1>2. /\ \A n \in Messages : hand[n].phase # "sending"
        /\ ~redo.taken /\ recovery.message \notin shut /\ recovery.message \in Messages
    BY <1>1, Typical DEF IInv, Wired, Shut
  <1>3. /\ recovery' \in Recoveries /\ recovery'.message = recovery.message
        /\ recovery'.rejected = recovery.rejected
        /\ \/ /\ recovery'.state = "failed" /\ told' = told \cup {recovery.message}
              /\ task' = [task EXCEPT !.ended = TRUE] /\ session' = session /\ redo' = redo
           \/ /\ recovery'.state = "retrying" /\ told' = told /\ task' = task
              /\ session' = session /\ redo' = redo
           \/ /\ recovery'.state = "dispatching" /\ told' = told /\ task' = task
              /\ session' = TRUE /\ redo' \in Retries
              /\ redo'.phase = "waiting" /\ redo'.owns /\ ~redo'.taken
    <2>1. CASE FailRecovery /\ UNCHANGED <<session, redo>>
      BY <2>1, Typical, RecoveryFates DEF IInv
    <2>2. CASE RetryLater(recovery.rejected) /\ UNCHANGED <<session, redo>>
      BY <2>2, Typical, RecoveryFates DEF IInv
    <2>3. CASE /\ session' = TRUE
               /\ recovery' = [recovery EXCEPT !.state = "dispatching", !.here = TRUE]
               /\ redo' = [phase |-> "waiting", owns |-> TRUE, taken |-> FALSE]
               /\ UNCHANGED <<task, told>>
      <3>1. recovery' \in Recoveries /\ recovery'.message = recovery.message
            /\ recovery'.rejected = recovery.rejected /\ recovery'.state = "dispatching"
        BY <2>3, Typical DEF IInv, Recoveries
      <3>2. redo' \in Retries /\ redo'.phase = "waiting" /\ redo'.owns /\ ~redo'.taken
        BY <2>3 DEF Retries
      <3> QED
        BY <2>3, <3>1, <3>2
    <2> QED
      BY <2>1, <2>2, <2>3 DEF RetryDispatches
  <1>4. TypeOK'
    BY <1>1, <1>3, Typical DEF IInv, TypeOK
  <1>5. Flying' /\ Lettered' /\ Holding'
    BY <1>1, RowsStay
  <1>6. Wired'
    BY <1>1, <1>2, <1>3 DEF IInv, Wired
  <1>7. Sessions'
    BY <1>1, <1>3 DEF IInv, Sessions
  <1>8. Shut'
    BY <1>1, <1>2, <1>3 DEF IInv, Shut, Ends
  <1>9. Owning'
    BY <1>1, <1>3 DEF IInv, Owning, Owned, Owed
  <1>10. ASSUME Calm' PROVE Once'
    <2>1. Once
      BY <1>1, <1>10 DEF IInv, Calm, Never
    <2>2. \A n \in Messages : (Waiting(n)' => Waiting(n)) /\ (Live(n)' => Live(n))
      BY <1>1, <1>3 DEF Waiting, Live, Owed
    <2> QED
      BY <1>1, <1>2, <1>3, <2>1, <2>2 DEF Once, Unsent
  <1> QED
    BY <1>4, <1>5, <1>6, <1>7, <1>8, <1>9, <1>10 DEF IInv

\* RetryGoesOut keeps it.
LEMMA RetryGoesOutKeeps ==
    ASSUME IInv, RetryGoesOut
    PROVE  IInv'
  <1>1. /\ redo.phase = "waiting" /\ redo.owns /\ recovery.state = "dispatching"
        /\ \A n \in Messages : hand[n].phase # "sending"
        /\ UNCHANGED <<row, recovery, task, flights, hand, session, sweep, stop, booted, taken,
                       continued, shut, told, uses>>
    BY DEF RetryGoesOut, WireIsFree
  <1>2. redo' \in Retries /\ redo'.phase = "sending" /\ redo'.owns /\ redo'.taken = redo.taken
    BY <1>1 DEF RetryGoesOut, IInv, TypeOK, Retries
  <1>3. ~redo.taken
    BY <1>1 DEF IInv, Wired
  <1>4. TypeOK'
    BY <1>1, <1>2 DEF IInv, TypeOK
  <1>5. Flying' /\ Lettered' /\ Holding'
    BY <1>1, RowsStay
  <1>6. Wired' /\ Sessions' /\ Shut'
    BY <1>1, <1>2 DEF IInv, Wired, Sessions, Shut, Ends
  <1>7. Owning'
    BY <1>1, <1>2, <1>3 DEF IInv, Owning, Owned
  <1>8. ASSUME Calm' PROVE Once'
    <2>1. Once
      BY <1>1, <1>8 DEF IInv, Calm, Never
    <2>2. \A n \in Messages : (Waiting(n)' => Waiting(n)) /\ (Live(n)' => Live(n))
      BY <1>1 DEF Waiting, Live, Owed
    <2> QED
      BY <1>1, <1>2, <1>3, <2>1, <2>2 DEF Once, Unsent
  <1> QED
    BY <1>4, <1>5, <1>6, <1>7, <1>8 DEF IInv


\* RetryIsWithdrawn keeps it: the row it leaves owes nothing.
LEMMA RetryIsWithdrawnKeeps ==
    ASSUME IInv, RetryIsWithdrawn
    PROVE  IInv'
  <1>1. /\ redo.phase = "waiting" /\ booted /\ redo' = NoRedo
        /\ UNCHANGED <<row, flights, hand, session, sweep, stop, booted, taken, continued, shut, uses>>
    BY DEF RetryIsWithdrawn, Quiet
  <1>2. /\ redo' \in Retries /\ redo'.phase = "none" /\ ~redo'.owns /\ ~redo'.taken /\ ~redo.taken
    BY <1>1, Fields DEF IInv, Wired
  <1>3. \/ /\ recovery' \in Recoveries /\ recovery'.message = recovery.message
           /\ recovery'.rejected = recovery.rejected /\ recovery'.state = "failed"
           /\ told' = told \cup {recovery.message} /\ task' = [task EXCEPT !.ended = TRUE]
           /\ recovery.state = "dispatching"
        \/ UNCHANGED <<recovery, task, told>> /\ recovery.state # "dispatching"
    BY Typical, RecoveryFates DEF IInv, RetryIsWithdrawn
  <1>4. TypeOK'
    BY <1>1, <1>2, <1>3, Typical DEF IInv, TypeOK
  <1>5. Flying' /\ Lettered' /\ Holding'
    BY <1>1, RowsStay
  <1>6. Wired' /\ Sessions' /\ Shut'
    BY <1>1, <1>2, <1>3 DEF IInv, Wired, Sessions, Shut, Ends
  <1>7. Owning'
    BY <1>1, <1>2, <1>3 DEF IInv, Owning, Owned, Owed
  <1>8. ASSUME Calm' PROVE Once'
    <2>1. Once
      BY <1>1, <1>8 DEF IInv, Calm, Never
    <2>2. \A n \in Messages : (Waiting(n)' => Waiting(n)) /\ (Live(n)' => Live(n))
      BY <1>1, <1>2, <1>3 DEF Waiting, Live, Owed
    <2> QED
      BY <1>1, <1>2, <1>3, <2>1, <2>2 DEF Once, Unsent
  <1> QED
    BY <1>4, <1>5, <1>6, <1>7, <1>8 DEF IInv

\* RetryIsTaken keeps it: a prompt sent again was refused, or is that of a turn that was
\* continued.
LEMMA RetryIsTakenKeeps ==
    ASSUME IInv, RetryIsTaken
    PROVE  IInv'
  <1> DEFINE m == recovery.message
             c == Count(taken[m])
  <1>1. /\ redo.phase = "sending" /\ ~redo.taken /\ m \in Messages
        /\ UNCHANGED <<row, recovery, task, flights, hand, session, sweep, stop, booted, continued,
                       shut, told, uses>>
    BY DEF RetryIsTaken, IInv, Wired
  <1>2. redo' \in Retries /\ redo'.phase = "sending" /\ redo'.owns = redo.owns /\ redo'.taken
    BY <1>1 DEF RetryIsTaken, IInv, TypeOK, Retries
  <1>3. c \in 0..2 /\ c > 0 /\ (taken[m] = 0 => c = 1)
    BY <1>1, Typical DEF IInv, Count
  <1>4. taken' = IF recovery.rejected THEN [taken EXCEPT ![m] = c] ELSE taken
    BY DEF RetryIsTaken
  <1> HIDE DEF c
  <1>5. /\ taken' \in [Messages -> 0..2]
        /\ \A n \in Messages \ {m} : taken'[n] = taken[n]
        /\ IF recovery.rejected THEN taken'[m] = c ELSE taken' = taken
    BY <1>1, <1>3, <1>4 DEF IInv, TypeOK
  <1>6. \A n \in Messages : hand[n].phase # "sending"
    BY <1>1 DEF IInv, Wired
  <1>7. /\ taken'[m] > 0 /\ \A n \in Messages : taken[n] > 0 => taken'[n] > 0
    BY <1>1, <1>3, <1>5 DEF IInv, Owning
  <1> HIDE DEF m
  <1>8. TypeOK'
    BY <1>1, <1>2, <1>5 DEF IInv, TypeOK
  <1>9. Flying' /\ Lettered' /\ Holding'
    BY <1>1, RowsStay
  <1>10. Wired' /\ Sessions' /\ Shut'
    BY <1>1, <1>2 DEF IInv, Wired, Sessions, Shut, Ends
  <1>11. Owning'
    <2>1. \A n \in Messages : Owned(n) => Owned(n)'
      BY <1>1, <1>7 DEF Owned
    <2> QED
      BY <1>1, <1>2, <1>7, <2>1 DEF IInv, Owning, m
  <1>12. ASSUME Calm' PROVE Once'
    <2>1. Once
      BY <1>1, <1>12 DEF IInv, Calm, Never
    <2>2. ~Waiting(m) /\ \A n \in Messages : (Waiting(n)' = Waiting(n)) /\ (Live(n)' => Live(n))
      BY <1>1, <1>2, <2>1 DEF Waiting, Live, Once, m
    <2>3. taken'[m] <= 1 \/ m \in continued
      BY <1>1, <1>3, <1>5, <2>1 DEF Once, Unsent, m
    <2>4. \A n \in Messages : /\ Waiting(n)' => taken'[n] = 0 /\ ~(Live(n)')
                              /\ taken'[n] <= 1 \/ n \in continued
      BY <1>5, <2>1, <2>2, <2>3 DEF Once
    <2> QED
      BY <1>1, <1>2, <1>6, <2>1, <2>4 DEF Once, Unsent
  <1> QED
    BY <1>8, <1>9, <1>10, <1>11, <1>12 DEF IInv

\* RetryIsAccepted keeps it.
LEMMA RetryIsAcceptedKeeps ==
    ASSUME IInv, RetryIsAccepted
    PROVE  IInv'
  <1>1. /\ redo.phase = "sending" /\ redo.taken /\ redo' = NoRedo /\ booted
        /\ UNCHANGED <<row, task, flights, hand, session, sweep, stop, booted, taken, continued,
                       shut, told, uses>>
    BY DEF RetryIsAccepted, Quiet
  <1>2. /\ redo' \in Retries /\ redo'.phase = "none" /\ ~redo'.owns /\ ~redo'.taken
        /\ recovery.state \in {"dispatching", "cancelled", "failed"}
        /\ recovery.state = "dispatching" => redo.owns
        /\ taken[recovery.message] > 0
    BY <1>1, Fields DEF IInv, Wired, Owning
  <1>3. \/ /\ recovery' \in Recoveries /\ recovery'.message = recovery.message
           /\ recovery'.state = "accepted" /\ recovery.state = "dispatching" /\ session
        \/ recovery' = recovery /\ recovery.state \in {"cancelled", "failed"}
    BY <1>2, Typical, RecoveryFates DEF IInv, RetryIsAccepted, Sessions
  <1>4. TypeOK'
    BY <1>1, <1>2, <1>3, Typical DEF IInv, TypeOK
  <1>5. Flying' /\ Lettered' /\ Holding'
    BY <1>1, RowsStay
  <1>6. Wired' /\ Sessions' /\ Shut'
    BY <1>1, <1>2, <1>3 DEF IInv, Wired, Sessions, Shut, Ends
  <1>7. Owning'
    BY <1>1, <1>2, <1>3 DEF IInv, Owning, Owned, Owed
  <1>8. ASSUME Calm' PROVE Once'
    <2>1. Once
      BY <1>1, <1>8 DEF IInv, Calm, Never
    <2>2. \A n \in Messages : (Waiting(n)' => Waiting(n)) /\ (Live(n)' => Live(n))
      BY <1>1, <1>2, <1>3 DEF Waiting, Live, Owed
    <2>3. \A n \in Messages : hand[n].phase # "sending"
      BY <1>1 DEF IInv, Wired
    <2> QED
      BY <1>1, <1>2, <1>3, <2>1, <2>2, <2>3 DEF Once, Unsent
  <1> QED
    BY <1>4, <1>5, <1>6, <1>7, <1>8 DEF IInv

\* RetryFails keeps it.
LEMMA RetryFailsKeeps ==
    ASSUME IInv, RetryFails
    PROVE  IInv'
  <1>1. /\ redo.phase = "sending" /\ redo' = NoRedo /\ booted
        /\ UNCHANGED <<row, flights, hand, session, sweep, stop, booted, taken, continued, shut, uses>>
    BY DEF RetryFails, Quiet
  <1>2. /\ redo' \in Retries /\ redo'.phase = "none" /\ ~redo'.owns /\ ~redo'.taken
        /\ recovery.state \in {"dispatching", "cancelled", "failed"}
        /\ recovery.state = "dispatching" => redo.owns
        /\ \A n \in Messages : hand[n].phase # "sending"
    BY <1>1, Fields DEF IInv, Wired
  <1>3. \/ UNCHANGED <<recovery, task, told>> /\ recovery.state # "dispatching"
        \/ /\ recovery' \in Recoveries /\ recovery'.message = recovery.message
           /\ recovery.state = "dispatching" /\ session
           /\ \/ /\ recovery'.state = "failed" /\ told' = told \cup {recovery.message}
                 /\ task' = [task EXCEPT !.ended = TRUE]
              \/ /\ recovery'.state = "retrying" /\ recovery'.rejected /\ ~redo.taken
                 /\ told' = told /\ task' = task
    <2>1. PICK rejected \in BOOLEAN, transient \in BOOLEAN :
             /\ rejected => ~redo.taken
             /\ IF recovery.state # "dispatching" THEN UNCHANGED <<recovery, task, told>>
                ELSE TryRecovery(TRUE, rejected /\ transient)
      BY DEF RetryFails
    <2> QED
      BY <1>2, <2>1, Typical, RecoveryFates DEF IInv, TryRecovery, Sessions
  <1>4. TypeOK'
    BY <1>1, <1>2, <1>3, Typical DEF IInv, TypeOK
  <1>5. Flying' /\ Lettered' /\ Holding'
    BY <1>1, RowsStay
  <1>6. Wired' /\ Sessions' /\ Shut'
    BY <1>1, <1>2, <1>3 DEF IInv, Wired, Sessions, Shut, Ends
  <1>7. Owning'
    BY <1>1, <1>2, <1>3 DEF IInv, Owning, Owned, Owed
  <1>8. ASSUME Calm' PROVE Once'
    <2>1. Once
      BY <1>1, <1>8 DEF IInv, Calm, Never
    <2>2. \A n \in Messages : (Waiting(n)' => Waiting(n)) /\ (Live(n)' => Live(n))
      BY <1>1, <1>2, <1>3 DEF Waiting, Live, Owed
    <2>3. recovery'.state = "retrying" => recovery'.rejected /\ Unsent(recovery.message)
      BY <1>1, <1>2, <1>3, <2>1 DEF Once, Unsent
    <2> QED
      BY <1>1, <1>2, <1>3, <2>1, <2>2, <2>3 DEF Once, Unsent
  <1> QED
    BY <1>4, <1>5, <1>6, <1>7, <1>8 DEF IInv


\* What a stop withdraws: the messages nobody accepted, and the recovery.  The handoffs
\* that go on may lose the session on the way.
LEMMA Withdrew ==
    ASSUME IInv, Withdraw, UNCHANGED <<flights, sweep, booted, taken, continued>>,
           hand' \in [Messages -> Handoffs], redo' \in Retries,
           \A n \in Messages : /\ hand'[n].phase = hand[n].phase /\ hand'[n].open = hand[n].open
                               /\ hand'[n].taken = hand[n].taken /\ (hand'[n].owns => hand[n].owns),
           redo'.phase = redo.phase, redo'.taken = redo.taken, redo'.owns => redo.owns
    PROVE  /\ row' \in [Messages -> Rows] /\ recovery' \in Recoveries
           /\ recovery'.state \in {"none", "cancelled"} /\ told' \subseteq Messages \cup {NoMessage}
           /\ \A n \in Messages : row[n].state \in EndStates => row'[n].state = row[n].state
           /\ Flying' /\ Lettered' /\ Holding' /\ Wired' /\ Owning' /\ (Once => Once')
  <1>1. /\ row' \in [Messages -> Rows]
        /\ \A n \in Messages :
              IF row[n].state \in {"pending", "claimed"}
              THEN row'[n].state = "cancelled" /\ row'[n].owner = "none"
              ELSE row'[n] = row[n]
    <2>1. \A n \in Messages : row[n] \in Rows /\ Withdrawn(row[n]) \in Rows
      BY Typical, RowTypes DEF IInv
    <2>2. row' = [n \in Messages |-> Withdrawn(row[n])]
      BY DEF Withdraw
    <2> QED
      BY <2>1, <2>2, RowFates
  <1>2. /\ recovery' \in Recoveries /\ recovery'.message = recovery.message
        /\ recovery'.rejected = recovery.rejected
        /\ recovery'.state = IF recovery.state = "none" THEN "none" ELSE "cancelled"
        /\ told' = told \cup {recovery.message}
    BY Typical, RecoveryFates DEF IInv, Withdraw
  <1>3. told' \subseteq Messages \cup {NoMessage}
    BY <1>2, Typical DEF IInv, TypeOK
  <1>4. \A n \in Messages : row[n].state \in EndStates => row'[n].state = row[n].state
    BY <1>1 DEF EndStates
  <1>5. Flying'
    BY FlightsStay DEF IInv
  <1>6. Lettered'
    <2>1. \A n \in Messages : row[n].state \in Past => row'[n].state \in Past
      BY <1>1 DEF Past
    <2> QED
      BY <2>1, LettersStay, Typical DEF IInv, TypeOK
  <1>7. Holding'
    BY <1>1 DEF IInv, Holding, Held
  <1>8. Wired'
    BY <1>2 DEF IInv, Wired
  <1>9. Owning'
    <2>1. \A n \in Messages : Owned(n) => Owned(n)'
      BY <1>2 DEF Owned
    <2>2. \A n \in Messages : row'[n].state \in {"accepted", "acknowledged"} =>
                                  row[n].state \in {"accepted", "acknowledged"}
      BY <1>1
    <2> QED
      BY <1>2, <2>1, <2>2 DEF IInv, Owning
  <1>10. ASSUME Once PROVE Once'
    <2>1. \A n \in Messages : (Waiting(n)' => Waiting(n)) /\ (Live(n)' => Live(n))
      BY <1>1, <1>2 DEF Waiting, Live, Owed
    <2>2. \A n \in Messages : hand[n].phase = "sending" => row'[n].state \in {"cancelled", "timed_out"}
      BY <1>1 DEF IInv, Holding, Held
    <2>3. \A n \in Messages : row'[n].owner # "dead"
      BY <1>1, <1>10 DEF Once
    <2> QED
      BY <1>2, <1>10, <2>1, <2>2, <2>3 DEF Once, Unsent
  <1> QED
    BY <1>1, <1>2, <1>3, <1>4, <1>5, <1>6, <1>7, <1>8, <1>9, <1>10

\* A stop takes the session away from whoever holds it.
LEMMA Fenced ==
    ASSUME TypeOK, Fence
    PROVE  /\ hand' \in [Messages -> Handoffs] /\ redo' \in Retries /\ session' = FALSE
           /\ \A n \in Messages : /\ hand'[n].phase = hand[n].phase /\ hand'[n].open = hand[n].open
                                  /\ hand'[n].taken = hand[n].taken /\ ~hand'[n].owns
           /\ redo'.phase = redo.phase /\ redo'.taken = redo.taken /\ ~redo'.owns
  <1>1. /\ hand' = [m \in Messages |-> [hand[m] EXCEPT !.owns = FALSE]]
        /\ redo' = [redo EXCEPT !.owns = FALSE] /\ session' = FALSE
    BY DEF Fence
  <1>2. \A h \in Handoffs : LET k == [h EXCEPT !.owns = FALSE]
                            IN  /\ k \in Handoffs /\ k.phase = h.phase /\ k.open = h.open
                                /\ k.taken = h.taken /\ ~k.owns
    BY DEF Handoffs
  <1>3. \A n \in Messages : hand[n] \in Handoffs /\ hand'[n] = [hand[n] EXCEPT !.owns = FALSE]
    BY <1>1, Typical
  <1>4. /\ redo' \in Retries /\ redo'.phase = redo.phase /\ redo'.taken = redo.taken /\ ~redo'.owns
    BY <1>1 DEF TypeOK, Retries
  <1>5. hand' \in [Messages -> Handoffs]
    BY <1>1, <1>2, <1>3
  <1> QED
    BY <1>1, <1>2, <1>3, <1>4, <1>5

\* A stop that has a session to tear down.
LEMMA TearsDown ==
    ASSUME IInv, session, Withdraw, Fence, stop' = "tearing",
           UNCHANGED <<task, flights, sweep, booted, taken, continued, shut>>,
           uses' \in [scenario : Scenarios, done : [Kinds -> Nat]], Calm' => Calm
    PROVE  IInv'
  <1>1. /\ hand' \in [Messages -> Handoffs] /\ redo' \in Retries /\ session' = FALSE
        /\ \A n \in Messages : /\ hand'[n].phase = hand[n].phase /\ hand'[n].open = hand[n].open
                               /\ hand'[n].taken = hand[n].taken /\ ~hand'[n].owns
        /\ redo'.phase = redo.phase /\ redo'.taken = redo.taken /\ ~redo'.owns
    BY Fenced DEF IInv
  <1>2. /\ row' \in [Messages -> Rows] /\ recovery' \in Recoveries
        /\ recovery'.state \in {"none", "cancelled"} /\ told' \subseteq Messages \cup {NoMessage}
        /\ \A n \in Messages : row[n].state \in EndStates => row'[n].state = row[n].state
        /\ Flying' /\ Lettered' /\ Holding' /\ Wired' /\ Owning' /\ (Once => Once')
    BY <1>1, Withdrew
  <1>3. TypeOK'
    BY <1>1, <1>2 DEF IInv, TypeOK
  <1>4. Sessions'
    BY <1>1, <1>2 DEF IInv, Sessions
  <1>5. Shut'
    <2>1. \A n \in Messages : Ends(n) => Ends(n)'
      BY <1>1, <1>2 DEF Ends
    <2> QED
      BY <1>2, <2>1 DEF IInv, TypeOK, Shut
  <1> QED
    BY <1>2, <1>3, <1>4, <1>5 DEF IInv

\* StopByTaskId keeps it, and shuts out every message there is.
LEMMA StopByTaskIdKeeps ==
    ASSUME IInv, StopByTaskId
    PROVE  IInv'
  <1>1. /\ Withdraw /\ booted /\ UNCHANGED <<flights, sweep, booted, taken, continued, shut>>
        /\ uses' \in [scenario : Scenarios, done : [Kinds -> Nat]] /\ (Calm' => Calm)
    BY Spending DEF StopByTaskId, Quiet, IInv, Kinds, Calm
  <1>2. CASE session
    BY <1>1, <1>2, TearsDown DEF StopByTaskId
  <1>3. CASE ~session
    <2>1. /\ task' = [task EXCEPT !.ended = TRUE] /\ stop' = "waiting"
          /\ UNCHANGED <<session, hand, redo>>
      BY <1>3 DEF StopByTaskId, EndTask
    <2>2. /\ row' \in [Messages -> Rows] /\ recovery' \in Recoveries
          /\ recovery'.state \in {"none", "cancelled"} /\ told' \subseteq Messages \cup {NoMessage}
          /\ \A n \in Messages : row[n].state \in EndStates => row'[n].state = row[n].state
          /\ Flying' /\ Lettered' /\ Holding' /\ Wired' /\ Owning' /\ (Once => Once')
      BY <1>1, <2>1, Withdrew DEF IInv, TypeOK
    <2>3. TypeOK'
      BY <1>1, <2>1, <2>2 DEF IInv, TypeOK
    <2>4. Sessions'
      BY <1>1, <1>3, <2>1, <2>2 DEF IInv, Sessions
    <2>5. Shut'
      <3>1. \A n \in Messages : Ends(n) => Ends(n)'
        BY <2>1, <2>2 DEF Ends
      <3> QED
        BY <1>1, <2>2, <3>1 DEF IInv, TypeOK, Shut
    <2> QED
      BY <1>1, <2>2, <2>3, <2>4, <2>5 DEF IInv
  <1> QED
    BY <1>2, <1>3

\* StopLooksAgain keeps it: no session is being opened when it looks.
LEMMA StopLooksAgainKeeps ==
    ASSUME IInv, StopLooksAgain
    PROVE  IInv'
  <1>1. /\ stop = "waiting" /\ booted /\ \A m \in Messages : hand[m].phase # "opening"
        /\ UNCHANGED <<task, flights, sweep, booted, taken, continued, uses>>
    BY DEF StopLooksAgain, Quiet
  <1>2. CASE session
    BY <1>1, <1>2, TearsDown DEF StopLooksAgain, IInv, TypeOK, Calm, Never
  <1>3. CASE ~session
    <2>1. /\ UNCHANGED <<row, recovery, told, session, hand, redo>> /\ stop' = "none"
          /\ shut' = {m \in Messages : row[m].state \in EndStates}
      BY <1>3 DEF StopLooksAgain, StopReturns
    <2>2. TypeOK'
      BY <1>1, <2>1 DEF IInv, TypeOK
    <2>3. Flying' /\ Lettered' /\ Holding'
      BY <1>1, <2>1, RowsStay
    <2>4. Wired' /\ Sessions'
      BY <1>1, <2>1 DEF IInv, Wired, Sessions
    <2>5. Shut'
      BY <1>1, <1>3, <2>1 DEF IInv, Sessions, Shut, Ends
    <2>6. Owning' /\ (Calm' => Once')
      BY <1>1, <2>1 DEF IInv, Owning, Owned, Once, Waiting, Live, Unsent, Calm, Never
    <2> QED
      BY <2>2, <2>3, <2>4, <2>5, <2>6 DEF IInv
  <1> QED
    BY <1>2, <1>3

\* StopSettles keeps it: the withdrawn messages are not handed over any more.
LEMMA StopSettlesKeeps ==
    ASSUME IInv, StopSettles
    PROVE  IInv'
  <1>1. /\ stop = "tearing" /\ booted /\ Withdraw /\ stop' = "none"
        /\ task' = [task EXCEPT !.ended = TRUE]
        /\ shut' = {m \in Messages : row'[m].state \in EndStates}
        /\ UNCHANGED <<flights, hand, session, redo, sweep, booted, taken, continued, uses>>
    BY DEF StopSettles, Quiet, EndTask, StopReturns
  <1>2. /\ row' \in [Messages -> Rows] /\ recovery' \in Recoveries
        /\ recovery'.state \in {"none", "cancelled"} /\ told' \subseteq Messages \cup {NoMessage}
        /\ Flying' /\ Lettered' /\ Holding' /\ Wired' /\ Owning' /\ (Once => Once')
    BY <1>1, Withdrew DEF IInv, TypeOK
  <1>3. ~session /\ \A n \in Messages : hand[n].phase # "opening" /\ ~hand[n].owns
    BY <1>1 DEF IInv, Sessions
  <1>4. TypeOK'
    BY <1>1, <1>2 DEF IInv, TypeOK
  <1>5. Sessions'
    BY <1>1, <1>3 DEF IInv, Sessions
  <1>6. Shut'
    BY <1>1, <1>2, <1>3 DEF Shut, Ends
  <1>7. Calm' => Calm
    BY <1>1 DEF Calm, Never
  <1> QED
    BY <1>2, <1>4, <1>5, <1>6, <1>7 DEF IInv


\* The user cancels the turn, labels the task, or starts it.
LEMMA UsersKeep ==
    ASSUME IInv, Abort \/ Exclude \/ ExplicitStart
    PROVE  IInv'
  <1>1. /\ UNCHANGED <<row, flights, hand, session, redo, sweep, stop, booted, taken, continued, shut>>
        /\ uses' \in [scenario : Scenarios, done : [Kinds -> Nat]] /\ (Calm' => Calm)
    BY Spending DEF Abort, Exclude, ExplicitStart, IInv, Kinds, Calm
  <1>2. Flying' /\ Lettered' /\ Holding'
    BY <1>1, RowsStay
  <1>3. CASE Abort
    <2>1. /\ recovery' \in Recoveries /\ recovery'.message = recovery.message
          /\ recovery'.rejected = recovery.rejected
          /\ recovery'.state = IF recovery.state = "none" THEN "none" ELSE "cancelled"
          /\ told' = told \cup {recovery.message} /\ task' = task /\ session
      BY <1>3, Typical, RecoveryFates DEF IInv, Abort
    <2>2. TypeOK'
      BY <1>1, <2>1, Typical DEF IInv, TypeOK
    <2>3. Wired'
      BY <1>1, <2>1 DEF IInv, Wired
    <2>4. Sessions'
      BY <1>1, <2>1 DEF IInv, Sessions
    <2>5. Shut'
      BY <1>1, <2>1 DEF IInv, Shut, Ends
    <2>6. Owning'
      BY <1>1, <2>1 DEF IInv, Owning, Owned
    <2>7. ~Calm'
      BY <1>3, Spending DEF Abort, IInv, Kinds, Calm
    <2> QED
      BY <1>2, <2>2, <2>3, <2>4, <2>5, <2>6, <2>7 DEF IInv
  <1>4. CASE Exclude \/ ExplicitStart
    <2>1. task' \in [excluded : BOOLEAN, ended : BOOLEAN] /\ UNCHANGED <<recovery, told>>
      BY <1>4 DEF Exclude, ExplicitStart, IInv, TypeOK
    <2>2. TypeOK'
      BY <1>1, <2>1 DEF IInv, TypeOK
    <2>3. Wired' /\ Sessions' /\ Shut'
      BY <1>1, <2>1 DEF IInv, Wired, Sessions, Shut, Ends
    <2>4. Owning' /\ (Once => Once')
      BY <1>1, <2>1 DEF IInv, Owning, Owned, Once, Waiting, Live, Unsent
    <2> QED
      BY <1>1, <1>2, <2>2, <2>3, <2>4 DEF IInv
  <1> QED
    BY <1>3, <1>4

\* The app crashes, and comes back.
LEMMA CrashKeeps ==
    ASSUME IInv, Crash
    PROVE  IInv'
  <1>1. /\ row' = [m \in Messages |-> AfterCrash(row[m])]
        /\ hand' = [m \in Messages |-> NoHandoff]
        /\ flights' = <<>> /\ sweep' = {} /\ redo' = NoRedo
        /\ session' = FALSE /\ stop' = "none" /\ booted' = FALSE
        /\ UNCHANGED <<recovery, task, taken, continued, shut, told>>
    BY DEF Crash
  <1>2. /\ uses' \in [scenario : Scenarios, done : [Kinds -> Nat]] /\ ~Calm'
    BY Spending DEF Crash, IInv, Kinds, Calm
  <1>3. /\ row' \in [Messages -> Rows]
        /\ \A n \in Messages :
              /\ row'[n].state = row[n].state
              /\ row'[n].owner = IF row[n].owner = "current" THEN "dead" ELSE row[n].owner
    <2>1. \A n \in Messages : row[n] \in Rows /\ AfterCrash(row[n]) \in Rows
      BY Typical, RowTypes DEF IInv
    <2> QED
      BY <1>1, <2>1, RowFates
  <1>4. /\ hand' \in [Messages -> Handoffs]
        /\ \A n \in Messages : /\ hand'[n].phase = "none" /\ ~hand'[n].open
                               /\ ~hand'[n].owns /\ ~hand'[n].taken
    <2>1. NoHandoff \in Handoffs /\ \A n \in Messages : hand'[n] = NoHandoff
      BY <1>1, Fields
    <2> QED
      BY <1>1, <2>1, Fields
  <1>5. redo' \in Retries /\ redo'.phase = "none" /\ ~redo'.owns /\ ~redo'.taken
    BY <1>1, Fields
  <1>6. TypeOK'
    <2>1. flights' \in Seq(Letters) /\ sweep' = {} /\ session' \in BOOLEAN /\ booted' \in BOOLEAN
          /\ stop' \in {"none", "waiting", "tearing"}
          /\ UNCHANGED <<recovery, task, taken, continued, shut, told>>
      <3>1. <<>> \in Seq(Letters)
        OBVIOUS
      <3> QED
        BY <1>1, <3>1
    <2> QED
      BY <1>2, <1>3, <1>4, <1>5, <2>1 DEF IInv, TypeOK
  <1>7. Flying' /\ Lettered'
    BY <1>1, <1>4 DEF Flying, Lettered
  <1>8. Holding'
    BY <1>3, <1>4 DEF IInv, Holding, Held
  <1>9. Wired' /\ Sessions'
    BY <1>1, <1>4, <1>5 DEF IInv, Wired, Sessions
  <1>10. Shut'
    BY <1>1, <1>3, <1>4 DEF IInv, TypeOK, Shut, Ends
  <1>11. Owning'
    BY <1>1, <1>3, <1>4, <1>5 DEF IInv, Owning, Owned
  <1> QED
    BY <1>2, <1>6, <1>7, <1>8, <1>9, <1>10, <1>11 DEF IInv

\* Boot keeps it: what a dead process had on the wire is failed, not sent.
LEMMA BootKeeps ==
    ASSUME IInv, Boot
    PROVE  IInv'
  <1>1. /\ ~booted /\ booted' = TRUE
        /\ UNCHANGED <<row, flights, hand, redo, sweep, stop, taken, continued, shut, uses>>
    BY DEF Boot
  <1>2. /\ recovery' \in Recoveries /\ recovery'.message = recovery.message
        /\ recovery'.rejected = recovery.rejected /\ session' \in BOOLEAN
        /\ \/ /\ recovery'.state = "failed" /\ told' = told \cup {recovery.message}
              /\ task' = [task EXCEPT !.ended = TRUE]
              /\ recovery.state \in {"sending", "dispatching"}
           \/ recovery'.state = recovery.state /\ UNCHANGED <<task, told>>
              /\ recovery.state \notin {"sending", "dispatching"}
    BY Typical, RecoveryFates DEF IInv, TypeOK, Boot
  <1>3. /\ ~session /\ stop = "none" /\ redo.phase = "none"
        /\ \A n \in Messages : hand[n].phase = "none" /\ ~hand[n].owns
        /\ ~redo.owns
    BY <1>1 DEF IInv, Sessions
  <1>4. TypeOK'
    BY <1>1, <1>2, Typical DEF IInv, TypeOK
  <1>5. Flying' /\ Lettered' /\ Holding'
    BY <1>1, RowsStay
  <1>6. Wired'
    BY <1>1, <1>2, <1>3 DEF IInv, Wired
  <1>7. Sessions'
    BY <1>1, <1>3 DEF IInv, Sessions
  <1>8. Shut'
    BY <1>1, <1>2, <1>3 DEF IInv, Shut, Ends
  <1>9. Owning'
    BY <1>1, <1>2, <1>3 DEF IInv, Owning, Owned, Owed
  <1>10. ASSUME Calm' PROVE Once'
    <2>1. Once
      BY <1>1, <1>10 DEF IInv, Calm, Never
    <2>2. \A n \in Messages : (Waiting(n)' => Waiting(n)) /\ (Live(n)' => Live(n))
      BY <1>1, <1>2 DEF Waiting, Live, Owed
    <2> QED
      BY <1>1, <1>2, <1>3, <2>1, <2>2 DEF Once, Unsent
  <1> QED
    BY <1>4, <1>5, <1>6, <1>7, <1>8, <1>9, <1>10 DEF IInv

------------------------------------------------------------------------------
(* The invariant is inductive. *)

\* It holds of the empty table.
LEMMA InitHolds == Init => IInv
  <1> SUFFICES ASSUME Init PROVE IInv
    OBVIOUS
  <1>1. /\ \A n \in Messages : row[n] = NoRow /\ hand[n] = NoHandoff /\ taken[n] = 0
        /\ recovery.state = "none" /\ recovery.message = NoMessage /\ flights = <<>> /\ sweep = {}
        /\ redo = NoRedo /\ stop = "none" /\ booted = TRUE /\ shut = {}
    BY DEF Init
  <1>2. /\ NoRow.state = "absent" /\ NoRow.owner = "none" /\ NoRow \in Rows
    BY DEF NoRow, Rows
  <1>3. recovery \in Recoveries
    BY DEF Init, Recoveries
  <1>4. uses \in [scenario : Scenarios, done : [Kinds -> Nat]]
    BY DEF Init
  <1>5. TypeOK
    BY <1>2, <1>3, <1>4, Fields DEF Init, TypeOK
  <1>6. Flying /\ Lettered /\ Holding
    BY <1>1, <1>2, Fields DEF Flying, Lettered, Holding, Held
  <1>7. Wired /\ Sessions /\ Shut
    BY <1>1, Fields DEF Wired, Sessions, Shut
  <1>8. Owning
    BY <1>1, <1>2, Fields DEF Owning
  <1>9. Once
    BY <1>1, <1>2, Fields DEF Once, Waiting, Live, Unsent, Owed
  <1> QED
    BY <1>5, <1>6, <1>7, <1>8, <1>9 DEF IInv

\* Every step keeps it.
LEMMA StepKeeps == IInv /\ [Next]_vars => IInv'
  <1> SUFFICES ASSUME IInv, [Next]_vars PROVE IInv'
    OBVIOUS
  <1>1. CASE Dispatch \/ SweepStep \/ RetryStep
    BY <1>1, DispatchKeeps, SweepKeeps, RetryDispatchesKeeps, RetryGoesOutKeeps,
       RetryIsWithdrawnKeeps, RetryIsTakenKeeps, RetryIsAcceptedKeeps, RetryFailsKeeps DEF RetryStep
  <1>2. CASE Boot \/ Crash \/ TurnEnds \/ TurnFails \/ Abort \/ Exclude \/ ExplicitStart
    BY <1>2, BootKeeps, CrashKeeps, TurnEndsKeeps, TurnFailsKeeps, UsersKeep
  <1>3. CASE StopByTaskId \/ StopLooksAgain \/ StopSettles
    BY <1>3, StopByTaskIdKeeps, StopLooksAgainKeeps, StopSettlesKeeps
  <1>4. ASSUME NEW m \in Messages,
               SendMessage(m) \/ HandoffTimesOut(m) \/ LeaseExpires(m)
        PROVE  IInv'
    BY <1>4, SendMessageKeeps, HandoffTimesOutKeeps, LeaseExpiresKeeps
  <1>5. ASSUME NEW m \in Messages, HandoffStep(m)
        PROVE  IInv'
    BY <1>5, OpenSucceedsKeeps, OpenFailsKeeps, PromptGoesOutKeeps, PreparationFailsKeeps,
       BackendTakesKeeps, PromptAcceptedKeeps, PromptFailsKeeps, AcceptKeeps, AcknowledgeKeeps
       DEF HandoffStep
  <1>6. CASE UNCHANGED vars
    BY <1>6 DEF vars, IInv, TypeOK, Flying, Lettered, Letter, Holding, Wired, Sessions, Shut, Ends,
                Owning, Owned, Once, Waiting, Live, Unsent, Calm, Never
  <1> QED
    BY <1>1, <1>2, <1>3, <1>4, <1>5, <1>6 DEF Next

\* IInv holds in every state.
LEMMA Inductive == Spec => []IInv
  BY InitHolds, StepKeeps, PTL DEF Spec


------------------------------------------------------------------------------
(* What crosses to the backend. *)

\* A handoff goes from preparing to sending in PromptGoesOut only, with the session.
LEMMA OnlyPromptsGoOut ==
    ASSUME IInv, [Next]_vars, NEW m \in Messages,
           hand[m].phase = "preparing", hand'[m].phase = "sending"
    PROVE  hand[m].owns
  <1>1. ASSUME NEW n \in Messages, NEW h, hand' = [hand EXCEPT ![n] = h],
               h.phase # "sending" \/ h.phase = hand[n].phase
        PROVE  FALSE
    <2>1. hand'[n] = h /\ (n # m => hand'[m] = hand[m])
      BY <1>1, Typical DEF IInv
    <2> QED
      BY <1>1, <2>1
  <1>2. ASSUME NEW n \in Messages, HandoffFails(n) \/ HandoffResolves(n)
        PROVE  FALSE
    <2>1. PICK h : hand' = [hand EXCEPT ![n] = h] /\ h.phase # "sending"
      <3>1. [hand[n] EXCEPT !.phase = "resolved"].phase = "resolved"
        BY Typical DEF IInv, Handoffs
      <3> QED
        BY <1>2, <3>1, Fields DEF HandoffFails, HandoffResolves
    <2> QED
      BY <1>1, <2>1
  <1>3. ASSUME NEW n \in Messages, NEW p \in Phases \ {"sending"},
               hand' = [hand EXCEPT ![n].phase = p]
        PROVE  FALSE
    <2>1. [hand[n] EXCEPT !.phase = p].phase = p
      BY Typical DEF IInv, Handoffs
    <2> QED
      BY <1>1, <1>3, <2>1
  <1>4. UNCHANGED hand => FALSE
    OBVIOUS
  <1>5. CASE Dispatch
    <2> DEFINE n == Head(flights).message
    <2>1. PICK h : hand' = [hand EXCEPT ![n] = h] /\ h.phase \in {"preparing", "barred", "opening"}
      BY <1>4, <1>5 DEF Dispatch, Starts
    <2>2. n \in Messages
      <3>1. Head(flights) \in Letters
        BY <1>5, Typical DEF Dispatch, IInv
      <3> QED
        BY <3>1 DEF Letters
    <2> QED
      BY <1>1, <2>1, <2>2
  <1>6. CASE SweepStep \/ RetryStep \/ Boot \/ TurnEnds \/ TurnFails \/ Abort \/ Exclude
             \/ ExplicitStart \/ UNCHANGED vars
    BY <1>4, <1>6 DEF SweepStep, SweepStarts, SweepExcludes, SweepDispatches, SweepGoesOn, RetryStep,
       RetryDispatches, RetryGoesOut, RetryIsWithdrawn, RetryIsTaken, RetryIsAccepted, RetryFails,
       Boot, TurnEnds, TurnFails, Abort, Exclude, ExplicitStart, vars
  <1>7. CASE Crash
    BY <1>7, Fields DEF Crash
  <1>8. CASE StopByTaskId \/ StopLooksAgain \/ StopSettles
    <2>1. Fence \/ UNCHANGED hand
      BY <1>8 DEF StopByTaskId, StopLooksAgain, StopSettles
    <2> QED
      BY <1>4, <2>1, Fenced DEF IInv
  <1>9. ASSUME NEW n \in Messages, SendMessage(n) \/ LeaseExpires(n)
        PROVE  FALSE
    BY <1>4, <1>9 DEF SendMessage, LeaseExpires
  <1>10. ASSUME NEW n \in Messages, HandoffTimesOut(n) \/ BackendTakes(n)
         PROVE  FALSE
    <2>1. /\ [hand[n] EXCEPT !.open = FALSE].phase = hand[n].phase
          /\ [hand[n] EXCEPT !.taken = TRUE].phase = hand[n].phase
      BY Typical DEF IInv, Handoffs
    <2> QED
      BY <1>1, <1>10, <2>1 DEF HandoffTimesOut, BackendTakes
  <1>11. ASSUME NEW n \in Messages,
                OpenFails(n) \/ PreparationFails(n) \/ PromptAccepted(n) \/ PromptFails(n)
         PROVE  FALSE
    BY <1>2, <1>11 DEF OpenFails, PreparationFails, PromptAccepted, PromptFails
  <1>12. ASSUME NEW n \in Messages, OpenSucceeds(n) \/ Accept(n) \/ Acknowledge(n)
         PROVE  FALSE
    <2>1. [hand[n] EXCEPT !.phase = "preparing", !.owns = TRUE].phase = "preparing"
      BY Typical DEF IInv, Handoffs
    <2>2. "recorded" \in Phases \ {"sending"}
      BY DEF Phases
    <2> QED
      BY <1>1, <1>3, <1>12, <2>1, <2>2, Fields DEF OpenSucceeds, Accept, Acknowledge
  <1>13. ASSUME NEW n \in Messages, PromptGoesOut(n)
         PROVE  hand[m].owns
    <2>1. n = m
      BY <1>13, Typical DEF IInv, PromptGoesOut
    <2> QED
      BY <1>13, <2>1 DEF PromptGoesOut
  <1> QED
    BY <1>5, <1>6, <1>7, <1>8, <1>9, <1>10, <1>11, <1>12, <1>13 DEF Next, HandoffStep

\* A retry goes from waiting to sending in RetryGoesOut only, for a recovery that nobody
\* took over or cancelled.
LEMMA OnlyRetriesGoOut ==
    ASSUME IInv, [Next]_vars, redo.phase = "waiting", redo'.phase = "sending"
    PROVE  recovery.state = "dispatching"
  <1>1. ASSUME redo' = redo \/ redo' = NoRedo \/ Fence \/ RetryDispatches \/ RetryIsTaken
        PROVE  FALSE
    BY <1>1, Fields, Fenced DEF IInv, RetryDispatches, RetryIsTaken
  <1>2. CASE RetryStep
    BY <1>1, <1>2 DEF RetryStep, RetryGoesOut, RetryIsWithdrawn, RetryIsAccepted, RetryFails
  <1>3. CASE Crash \/ StopByTaskId \/ StopLooksAgain \/ StopSettles
    BY <1>1, <1>3 DEF Crash, StopByTaskId, StopLooksAgain, StopSettles
  <1>4. CASE Dispatch \/ SweepStep \/ Boot \/ TurnEnds \/ TurnFails \/ Abort \/ Exclude
             \/ ExplicitStart \/ UNCHANGED vars
    BY <1>1, <1>4 DEF Dispatch, SweepStep, SweepStarts, SweepExcludes, SweepDispatches, SweepGoesOn,
       Boot, TurnEnds, TurnFails, Abort, Exclude, ExplicitStart, vars
  <1>5. ASSUME NEW n \in Messages, SendMessage(n) \/ HandoffTimesOut(n) \/ LeaseExpires(n)
        PROVE  FALSE
    BY <1>1, <1>5 DEF SendMessage, HandoffTimesOut, LeaseExpires
  <1>6. ASSUME NEW n \in Messages, HandoffStep(n)
        PROVE  FALSE
    BY <1>1, <1>6 DEF HandoffStep, OpenSucceeds, OpenFails, PromptGoesOut, PreparationFails,
       BackendTakes, PromptAccepted, PromptFails, Accept, Acknowledge
  <1> QED
    BY <1>2, <1>3, <1>4, <1>5, <1>6 DEF Next

------------------------------------------------------------------------------
(* The theorems. *)

\* Every variable keeps its type, whatever the environment does.
THEOREM Typing == Spec => []TypeOK
  <1>1. IInv => TypeOK
    BY DEF IInv
  <1> QED
    BY <1>1, Inductive, PTL

\* A claim of this process has a flight that will settle it: a row is claimed or accepted
\* in this process's name only while its promise is open (Holding), and the open promise
\* belongs to the first flight of the queue (Flying).
THEOREM ClaimsAreSettled == Spec => []ClaimsAreInFlight
  <1>1. IInv => ClaimsAreInFlight
    <2> SUFFICES ASSUME IInv, NEW m \in Messages,
                        row[m].state \in {"claimed", "accepted"} /\ row[m].owner = "current"
                 PROVE  InFlight(m) /\ hand[m].open
      BY DEF ClaimsAreInFlight
    <2>1. hand[m].open
      BY DEF IInv, Holding, Held
    <2>2. flights # <<>> /\ Head(flights).message = m
      BY <2>1 DEF IInv, Flying
    <2>3. 1 \in DOMAIN flights /\ Head(flights) = flights[1]
      BY <2>2, Typical DEF IInv
    <2> QED
      BY <2>1, <2>2, <2>3 DEF InFlight
  <1> QED
    BY <1>1, Inductive, PTL

\* Unless the app crashes or the user aborts a turn, the backend takes a message once, and
\* only a message whose failed turn was continued may reach it again (Once).
THEOREM NeverTakenTwice == Spec => []TakenOnce
  <1>1. IInv => TakenOnce
    BY Typical DEF IInv, Calm, Once, TakenOnce
  <1> QED
    BY <1>1, Inductive, PTL

\* A delivery that failed may be reopened: the backend does not have it (Once, Waiting).
THEOREM ReopenedIsNew == Spec => []FailedWasNotTaken
  <1>1. IInv => FailedWasNotTaken
    BY DEF IInv, Calm, Once, Waiting, FailedWasNotTaken
  <1> QED
    BY <1>1, Inductive, PTL

\* An acknowledged message is taken, owed by the provider recovery, or the user was told
\* (Owning).
THEOREM NobodyIsForgotten == Spec => []AcknowledgedIsOwned
  <1>1. IInv => AcknowledgedIsOwned
    BY DEF IInv, Owning, Owned, Owed, AcknowledgedIsOwned
  <1> QED
    BY <1>1, Inductive, PTL

\* After a stop returned, no message there was before it crosses to the backend: its row
\* has ended, nobody who prepares it holds a session, and the recovery row is not about it
\* or is cancelled (Shut).
THEOREM StopsAreBoundaries == Spec => StopIsABoundary
  <1>1. IInv /\ [Next]_vars => [\A m \in shut : ~GoesOut(m)]_vars
    <2> SUFFICES ASSUME IInv, [Next]_vars, NEW m \in shut, GoesOut(m) PROVE FALSE
      OBVIOUS
    <2>1. /\ m \in Messages /\ Ends(m)
          /\ recovery.message = m => recovery.state \in {"none", "cancelled"}
      BY DEF IInv, TypeOK, Shut
    <2>2. CASE hand[m].phase = "preparing" /\ hand'[m].phase = "sending"
      <3>1. ~hand[m].owns
        BY <2>1, <2>2 DEF Ends
      <3> QED
        BY <2>1, <2>2, <3>1, OnlyPromptsGoOut
    <2>3. CASE redo.phase = "waiting" /\ redo'.phase = "sending" /\ recovery.message = m
      BY <2>1, <2>3, OnlyRetriesGoOut
    <2> QED
      BY <2>2, <2>3 DEF GoesOut
  <1> QED
    BY <1>1, Inductive, PTL DEF Spec, StopIsABoundary


==============================================================================
