-------------------------- MODULE CaptainWakerProofs --------------------------
(***************************************************************************)
(* Proofs about CaptainWaker: the cap of wakes an hour.                     *)
(*                                                                         *)
(* The waker counts what it decided, the property what the host was told.   *)
(* The invariant pairs them: a wake the host was told of is no younger than *)
(* the decision at its place, one place further on while the last decision  *)
(* waits in its microtask.                                                  *)
(***************************************************************************)
EXTENDS CaptainWaker, WellFoundedInduction, TLAPS

------------------------------------------------------------------------------
(* The wakes of the last hour. *)

InOrder(ages) == \A i, j \in DOMAIN ages : i <= j => ages[i] <= ages[j]

\* A nonempty set of natural numbers has a least element.
LEMMA Least ==
    ASSUME NEW S \in SUBSET Nat, S # {}
    PROVE  \E n \in S : \A m \in S : n <= m
<1>1. PICK n \in S : \A m \in S : <<m, n>> \notin OpToRel(<, Nat)
  BY WFMin, NatLessThanWellFounded
<1>2. \A m \in S : ~(m < n)
  BY <1>1, Zenon DEF OpToRel
<1>3. QED
  BY <1>2

\* Ages in order: those below an hour come first.
LEMMA YoungLead ==
    ASSUME NEW s \in Seq(Nat), InOrder(s)
    PROVE  /\ Leading(s) \in 0..Len(s)
           /\ \A i \in DOMAIN s : i <= Leading(s) <=> s[i] < Hour
<1> DEFINE T == {n \in Nat : \A i \in 1..Len(s) : n < i => Hour <= s[i]}
<1>1. Len(s) \in T
  OBVIOUS
<1>2. PICK n \in T : \A m \in T : n <= m
  BY <1>1, Least
<1>3. n \in 0..Len(s)
  BY <1>1, <1>2
<1>4. n # 0 => s[n] < Hour
  <2> SUFFICES ASSUME n # 0, ~(s[n] < Hour) PROVE FALSE
    OBVIOUS
  <2>1. n - 1 \in Nat /\ n \in 1..Len(s) /\ Hour <= s[n]
    BY <1>3, WakerAssumption
  <2>2. \A i \in 1..Len(s) : n - 1 < i => i = n \/ n < i
    BY <2>1
  <2>3. n - 1 \in T
    BY <2>1, <2>2
  <2> QED
    BY <1>2, <2>1, <2>3
<1>5. \A i \in DOMAIN s : i <= n <=> s[i] < Hour
  <2> SUFFICES ASSUME NEW i \in 1..Len(s) PROVE i <= n <=> s[i] < Hour
    OBVIOUS
  <2>1. CASE i <= n
    <3>1. n \in 1..Len(s) /\ s[i] <= s[n] /\ s[i] \in Nat /\ s[n] \in Nat /\ s[n] < Hour
      BY <1>3, <1>4, <2>1 DEF InOrder
    <3>2. Hour \in Nat
      BY WakerAssumption
    <3>3. s[i] < Hour
      BY <3>1, <3>2
    <3> QED
      BY <2>1, <3>3
  <2>2. CASE n < i
    BY <2>2, WakerAssumption
  <2> QED
    BY <1>3, <2>1, <2>2
<1>6. \E m \in 0..Len(s) : \A i \in DOMAIN s : i <= m <=> s[i] < Hour
  BY <1>3, <1>5
<1> QED
  BY <1>6 DEF Leading

\* OfTheHour keeps the ages below an hour and no other, in their order.
LEMMA TheHour ==
    ASSUME NEW s \in Seq(Nat), InOrder(s)
    PROVE  /\ OfTheHour(s) \in Seq(Nat) /\ InOrder(OfTheHour(s))
           /\ Len(OfTheHour(s)) <= Len(s)
           /\ \A i \in DOMAIN OfTheHour(s) : OfTheHour(s)[i] = s[i] /\ s[i] < Hour
           /\ \A i \in DOMAIN s : s[i] < Hour => i \in DOMAIN OfTheHour(s)
<1> DEFINE n == Leading(s)
           r == OfTheHour(s)
<1>1. n \in 0..Len(s) /\ \A i \in DOMAIN s : i <= n <=> s[i] < Hour
  BY YoungLead
<1> HIDE DEF n
<1>2. r = SubSeq(s, 1, n)
  BY DEF OfTheHour, n
<1>3. r \in Seq(Nat) /\ Len(r) = n /\ \A i \in 1..n : r[i] = s[i]
  BY <1>1, <1>2
<1> HIDE DEF r
<1>4. DOMAIN r = 1..n /\ DOMAIN s = 1..Len(s)
  BY <1>3
<1>5. InOrder(r)
  BY <1>1, <1>3, <1>4 DEF InOrder
<1>6. \A i \in DOMAIN r : r[i] = s[i] /\ s[i] < Hour
  BY <1>1, <1>3, <1>4
<1>7. \A i \in DOMAIN s : s[i] < Hour => i \in DOMAIN r
  BY <1>1, <1>4
<1> QED
  BY <1>1, <1>3, <1>5, <1>6, <1>7 DEF r

\* Time passes for all ages alike.
LEMMA Aging ==
    ASSUME NEW s \in Seq(Nat), InOrder(s)
    PROVE  /\ Aged(s) \in Seq(Nat) /\ InOrder(Aged(s)) /\ Len(Aged(s)) = Len(s)
           /\ \A i \in DOMAIN s : Aged(s)[i] = Older(s[i], Hour)
<1> DEFINE a == Aged(s)
<1>1. \A i \in DOMAIN s : Older(s[i], Hour) \in Nat
  BY DEF Older
<1>2. a = [i \in 1..Len(s) |-> Older(s[i], Hour)]
  BY DEF Aged
<1>3. a \in Seq(Nat) /\ Len(a) = Len(s) /\ \A i \in 1..Len(s) : a[i] = Older(s[i], Hour)
  BY <1>1, <1>2
<1> HIDE DEF a
<1>4. InOrder(a)
  <2>0. DOMAIN a = 1..Len(s)
    BY <1>3
  <2> SUFFICES ASSUME NEW i \in 1..Len(s), NEW j \in 1..Len(s), i <= j
               PROVE  a[i] <= a[j]
    BY <2>0 DEF InOrder
  <2>1. s[i] <= s[j] /\ s[i] \in Nat /\ s[j] \in Nat
    BY DEF InOrder
  <2>2. Older(s[i], Hour) <= Older(s[j], Hour)
    <3>1. Hour \in Nat
      BY WakerAssumption
    <3> QED
      BY <2>1, <3>1 DEF Older
  <2>3. a[i] = Older(s[i], Hour) /\ a[j] = Older(s[j], Hour)
    BY <1>3
  <2> QED
    BY <2>2, <2>3
<1> QED
  BY <1>3, <1>4 DEF a

------------------------------------------------------------------------------
(* The invariant. *)

\* A wake the host was told of was decided no later, q of those decided being still untold.
Decided(ages, decided, q) ==
    \A i \in DOMAIN ages : i + q \in DOMAIN decided /\ decided[i + q] <= ages[i]

Capped(decided) == \A i \in DOMAIN decided : decided[i] < Hour => i <= HourlyCap

WInv ==
    /\ wakes \in Seq(Nat) /\ told \in Seq(Nat)
    /\ InOrder(wakes) /\ InOrder(told)
    /\ Capped(wakes)
    /\ \A i \in DOMAIN told : told[i] < Hour
    /\ send.at = "queued" => wakes # <<>> /\ wakes[1] = 0 /\ Decided(told, wakes, 1)
    /\ send.at # "queued" => Decided(told, wakes, 0)
    /\ send = [at |-> send.at, events |-> send.events]

\* No wake was decided on at first.
LEMMA WInit ==
    ASSUME Init
    PROVE  WInv
<1>1. wakes = <<>> /\ told = <<>> /\ send = [at |-> "none", events |-> {}]
  BY DEF Init, NoSend
<1> QED
  BY <1>1 DEF WInv, InOrder, Capped, Decided
\* The batch is put off, dropped or handed on: what was decided before leads.
LEMMA WakesTrimmed ==
    ASSUME WInv
    PROVE  /\ Recent \in Seq(Nat) /\ InOrder(Recent) /\ Capped(Recent)
           /\ Decided(told, wakes, 0) => Decided(told, Recent, 0)
<1>1. wakes \in Seq(Nat) /\ InOrder(wakes) /\ Capped(wakes) /\ told \in Seq(Nat)
      /\ \A i \in DOMAIN told : told[i] < Hour
  BY DEF WInv
<1> DEFINE r == Recent
<1>2. /\ r \in Seq(Nat) /\ InOrder(r)
      /\ \A i \in DOMAIN r : r[i] = wakes[i] /\ wakes[i] < Hour
      /\ Len(r) <= Len(wakes)
      /\ \A i \in DOMAIN wakes : wakes[i] < Hour => i \in DOMAIN r
  BY <1>1, TheHour DEF Recent
<1> HIDE DEF r
<1>3. DOMAIN r = 1..Len(r) /\ DOMAIN wakes = 1..Len(wakes) /\ Len(r) \in Nat /\ Len(wakes) \in Nat
  BY <1>1, <1>2
<1>4. Capped(r)
  BY <1>1, <1>2, <1>3 DEF Capped
<1>5. ASSUME Decided(told, wakes, 0) PROVE Decided(told, r, 0)
  <2> SUFFICES ASSUME NEW i \in DOMAIN told PROVE i + 0 \in DOMAIN r /\ r[i + 0] <= told[i]
    BY DEF Decided
  <2>1. i \in Nat /\ i + 0 = i /\ told[i] \in Nat /\ told[i] < Hour
    BY <1>1
  <2>2. i \in DOMAIN wakes /\ wakes[i] <= told[i]
    BY <1>5, <2>1 DEF Decided
  <2>3. wakes[i] < Hour
    BY <1>1, <2>1, <2>2, WakerAssumption
  <2> QED
    BY <1>2, <2>1, <2>2, <2>3
<1> QED
  BY <1>2, <1>4, <1>5 DEF r

\* A wake is decided: fewer than the cap were within the hour.
LEMMA OneMore ==
    ASSUME NEW r \in Seq(Nat), InOrder(r), Len(r) < HourlyCap,
           NEW s \in Seq(Nat), Decided(s, r, 0),
           NEW w, w = << 0 >> \o r
    PROVE  /\ w \in Seq(Nat) /\ InOrder(w) /\ Capped(w) /\ w # <<>> /\ w[1] = 0
           /\ Decided(s, w, 1)
<1>1. w \in Seq(Nat) /\ Len(w) = Len(r) + 1 /\ w[1] = 0 /\ \A i \in 1..Len(r) : w[i + 1] = r[i]
  OBVIOUS
<1>2. DOMAIN w = 1..Len(r) + 1 /\ DOMAIN r = 1..Len(r) /\ Len(r) \in Nat /\ DOMAIN s = 1..Len(s)
      /\ w # <<>>
  BY <1>1
<1>3. \A i \in 2..Len(r) + 1 : i - 1 \in 1..Len(r) /\ w[i] = r[i - 1]
  BY <1>1, <1>2
<1>4. InOrder(w)
  <2> SUFFICES ASSUME NEW i \in 1..Len(r) + 1, NEW j \in 1..Len(r) + 1, i <= j PROVE w[i] <= w[j]
    BY <1>2 DEF InOrder
  <2>1. CASE i = 1
    BY <1>1, <1>2, <2>1
  <2>2. CASE i \in 2..Len(r) + 1
    <3>1. j \in 2..Len(r) + 1 /\ i - 1 <= j - 1
      BY <1>2, <2>2
    <3> QED
      BY <1>2, <1>3, <2>2, <3>1 DEF InOrder
  <2> QED
    BY <1>2, <2>1, <2>2
<1>5. Capped(w)
  BY <1>2, WakerAssumption DEF Capped
<1>6. Decided(s, w, 1)
  <2> SUFFICES ASSUME NEW i \in 1..Len(s) PROVE i + 1 \in DOMAIN w /\ w[i + 1] <= s[i]
    BY <1>2 DEF Decided
  <2>0. i \in DOMAIN s /\ i + 0 = i
    BY <1>2
  <2>1. i + 0 \in DOMAIN r /\ r[i + 0] <= s[i]
    BY <2>0 DEF Decided
  <2>2. i \in 1..Len(r) /\ r[i] <= s[i]
    BY <1>2, <2>0, <2>1
  <2>3. w[i + 1] = r[i]
    BY <1>1, <2>2
  <2>4. i + 1 \in DOMAIN w
    BY <1>2, <2>2
  <2> QED
    BY <2>2, <2>3, <2>4
<1> QED
  BY <1>1, <1>2, <1>4, <1>5, <1>6

\* A flush decides on a wake only while the hour has fewer than the cap.
LEMMA WFlush ==
    ASSUME WInv, Flush
    PROVE  WInv'
<1>1. told' = told /\ send.at # "queued" /\ Decided(told, wakes, 0)
  BY DEF Flush, Quiet, WInv
<1>2. /\ wakes \in Seq(Nat) /\ told \in Seq(Nat) /\ InOrder(wakes) /\ InOrder(told)
      /\ Capped(wakes) /\ \A i \in DOMAIN told : told[i] < Hour
  BY DEF WInv
<1>3. Recent \in Seq(Nat) /\ InOrder(Recent) /\ Capped(Recent) /\ Decided(told, Recent, 0)
  BY <1>1, WakesTrimmed
<1>4. CASE wakes' \in {wakes, Recent} /\ send' = send
  BY <1>1, <1>2, <1>3, <1>4 DEF WInv
<1>5. CASE UnderCap /\ wakes' = <<0>> \o Recent /\ send' = [at |-> "queued", events |-> batch.events]
  <2> DEFINE r == Recent
  <2>1. Len(r) < HourlyCap /\ wakes' = <<0>> \o r
    BY <1>5 DEF UnderCap
  <2> HIDE DEF r
  <2>2. r \in Seq(Nat) /\ InOrder(r) /\ Decided(told, r, 0)
    BY <1>3 DEF r
  <2>3. /\ wakes' \in Seq(Nat) /\ InOrder(wakes') /\ Capped(wakes') /\ wakes' # <<>> /\ wakes'[1] = 0
        /\ Decided(told, wakes', 1)
    BY <1>2, <2>1, <2>2, OneMore
  <2> QED
    BY <1>1, <1>2, <1>5, <2>3 DEF WInv
<1> QED
  BY <1>4, <1>5 DEF Flush, FlushBehindASend, FlushWithoutCaptain, FlushBesideATurn, FlushWakes, Arm, RecordDrop

\* Told in the microtask: no time has passed since it was decided.
LEMMA WHandOver ==
    ASSUME WInv, HandOver
    PROVE  WInv'
<1>1. wakes' = wakes /\ send.at = "queued" /\ send'.at # "queued"
      /\ send' = [at |-> send'.at, events |-> send'.events]
  BY DEF HandOver, NoSend, WInv
<1>2. /\ wakes \in Seq(Nat) /\ told \in Seq(Nat) /\ InOrder(wakes) /\ InOrder(told)
      /\ Capped(wakes) /\ \A i \in DOMAIN told : told[i] < Hour
      /\ wakes # <<>> /\ wakes[1] = 0 /\ Decided(told, wakes, 1)
  BY <1>1 DEF WInv
<1>3. DOMAIN told = 1..Len(told) /\ DOMAIN wakes = 1..Len(wakes) /\ Len(told) \in Nat /\ Len(wakes) \in Nat
      /\ 1 \in DOMAIN wakes
  BY <1>2
<1>4. CASE told' = told
  <2>1. Decided(told, wakes, 0)
    <3> SUFFICES ASSUME NEW i \in 1..Len(told) PROVE i + 0 \in DOMAIN wakes /\ wakes[i + 0] <= told[i]
      BY <1>3 DEF Decided
    <3>1. i + 1 \in DOMAIN wakes /\ wakes[i + 1] <= told[i]
      BY <1>2, <1>3 DEF Decided
    <3>2. i + 0 = i /\ i \in DOMAIN wakes /\ i <= i + 1
      BY <1>3, <3>1
    <3>3. wakes[i] <= wakes[i + 1]
      BY <1>2, <3>1, <3>2 DEF InOrder
    <3>4. wakes[i] \in Nat /\ wakes[i + 1] \in Nat /\ told[i] \in Nat
      BY <1>2, <1>3, <3>1, <3>2
    <3> QED
      BY <3>1, <3>2, <3>3, <3>4
  <2> QED
    BY <1>1, <1>2, <1>4, <2>1 DEF WInv
<1>5. CASE told' = <<0>> \o told
  <2>1. told' \in Seq(Nat) /\ Len(told') = Len(told) + 1 /\ told'[1] = 0 /\ \A i \in 1..Len(told) : told'[i + 1] = told[i]
    BY <1>2, <1>5
  <2>2. DOMAIN told' = 1..Len(told) + 1
    BY <2>1
  <2>3. \A i \in 2..Len(told) + 1 : i - 1 \in 1..Len(told) /\ told'[i] = told[i - 1]
    BY <1>3, <2>1
  <2>4. InOrder(told')
    <3> SUFFICES ASSUME NEW i \in 1..Len(told) + 1, NEW j \in 1..Len(told) + 1, i <= j
                 PROVE  told'[i] <= told'[j]
      BY <2>2 DEF InOrder
    <3>1. CASE i = 1
      BY <2>1, <2>2, <3>1
    <3>2. CASE i \in 2..Len(told) + 1
      <4>1. j \in 2..Len(told) + 1 /\ i - 1 <= j - 1
        BY <1>3, <3>2
      <4> QED
        BY <1>2, <1>3, <2>3, <3>2, <4>1 DEF InOrder
    <3> QED
      BY <1>3, <3>1, <3>2
  <2>5. \A i \in DOMAIN told' : told'[i] < Hour
    <3> SUFFICES ASSUME NEW i \in 1..Len(told) + 1 PROVE told'[i] < Hour
      BY <2>2
    <3>1. CASE i = 1
      BY <2>1, <3>1, WakerAssumption
    <3>2. CASE i \in 2..Len(told) + 1
      BY <1>2, <1>3, <2>3, <3>2
    <3> QED
      BY <1>3, <3>1, <3>2
  <2>6. Decided(told', wakes, 0)
    <3> SUFFICES ASSUME NEW i \in 1..Len(told) + 1 PROVE i + 0 \in DOMAIN wakes /\ wakes[i + 0] <= told'[i]
      BY <2>2 DEF Decided
    <3>1. i + 0 = i
      OBVIOUS
    <3>2. CASE i = 1
      BY <1>2, <1>3, <2>1, <3>1, <3>2
    <3>3. CASE i \in 2..Len(told) + 1
      <4>1. i - 1 \in DOMAIN told /\ (i - 1) + 1 = i
        BY <1>3, <3>3
      <4>2. (i - 1) + 1 \in DOMAIN wakes /\ wakes[(i - 1) + 1] <= told[i - 1]
        BY <1>2, <4>1 DEF Decided
      <4> QED
        BY <2>3, <3>1, <3>3, <4>1, <4>2
    <3> QED
      BY <1>3, <3>2, <3>3
  <2> QED
    BY <1>1, <1>2, <2>1, <2>4, <2>5, <2>6 DEF WInv
<1> QED
  BY <1>4, <1>5 DEF HandOver

\* Time ages what was decided and what was told alike.
LEMMA WTick ==
    ASSUME WInv, Tick
    PROVE  WInv'
<1>1. wakes' = Aged(wakes) /\ told' = OfTheHour(Aged(told)) /\ send' = send /\ send.at # "queued"
  BY DEF Tick, Quiet
<1>2. /\ wakes \in Seq(Nat) /\ told \in Seq(Nat) /\ InOrder(wakes) /\ InOrder(told)
      /\ Capped(wakes) /\ Decided(told, wakes, 0)
  BY <1>1 DEF WInv
<1> DEFINE w == Aged(wakes)
           a == Aged(told)
           r == OfTheHour(a)
<1>3. /\ w \in Seq(Nat) /\ InOrder(w) /\ Len(w) = Len(wakes)
      /\ \A i \in DOMAIN wakes : w[i] = Older(wakes[i], Hour)
  BY <1>2, Aging
<1>4. /\ a \in Seq(Nat) /\ InOrder(a) /\ Len(a) = Len(told)
      /\ \A i \in DOMAIN told : a[i] = Older(told[i], Hour)
  BY <1>2, Aging
<1> HIDE DEF w, a
<1>5. /\ r \in Seq(Nat) /\ InOrder(r) /\ Len(r) <= Len(a)
      /\ \A i \in DOMAIN r : r[i] = a[i] /\ a[i] < Hour
  BY <1>4, TheHour
<1>6. wakes' = w /\ told' = r
  BY <1>1 DEF w, a
<1> HIDE DEF r
<1>7. DOMAIN w = DOMAIN wakes /\ DOMAIN wakes = 1..Len(wakes) /\ DOMAIN told = 1..Len(told)
      /\ DOMAIN r = 1..Len(r) /\ Len(r) \in Nat /\ Len(r) <= Len(told) /\ Len(told) \in Nat
  BY <1>2, <1>3, <1>4, <1>5
<1>8. Capped(w)
  <2> SUFFICES ASSUME NEW i \in DOMAIN wakes, w[i] < Hour PROVE i <= HourlyCap
    BY <1>7 DEF Capped
  <2>1. wakes[i] \in Nat /\ Older(wakes[i], Hour) < Hour
    BY <1>2, <1>3, <1>7
  <2>2. wakes[i] < Hour
    BY <2>1, WakerAssumption DEF Older
  <2> QED
    BY <1>2, <2>2 DEF Capped
<1>9. Decided(r, w, 0)
  <2> SUFFICES ASSUME NEW i \in 1..Len(r) PROVE i + 0 \in DOMAIN w /\ w[i + 0] <= r[i]
    BY <1>7 DEF Decided
  <2>1. i + 0 = i /\ i \in DOMAIN told
    BY <1>7
  <2>2. i \in DOMAIN wakes /\ wakes[i] <= told[i]
    BY <1>2, <2>1 DEF Decided
  <2>3. wakes[i] \in Nat /\ told[i] \in Nat
    BY <1>2, <1>7, <2>1, <2>2
  <2>4. Older(wakes[i], Hour) <= Older(told[i], Hour)
    BY <2>2, <2>3, WakerAssumption DEF Older
  <2>5. w[i] = Older(wakes[i], Hour) /\ r[i] = Older(told[i], Hour)
    BY <1>3, <1>4, <1>5, <1>7, <2>1, <2>2
  <2> QED
    BY <1>7, <2>1, <2>2, <2>4, <2>5
<1>10. \A i \in DOMAIN r : r[i] < Hour
  BY <1>5
<1> QED
  BY <1>1, <1>3, <1>5, <1>6, <1>8, <1>9, <1>10 DEF WInv

\* Nothing else touches what was decided or told; what is not yet handed over stays so.
LEMMA WRest ==
    ASSUME WInv, UNCHANGED <<wakes, told>>,
           \/ send' = send
           \/ send.at # "queued" /\ send'.at # "queued" /\ send' = [at |-> send'.at, events |-> send'.events]
    PROVE  WInv'
BY DEF WInv

\* WInv is inductive.
LEMMA WNext ==
    ASSUME WInv, [Next]_vars
    PROVE  WInv'
<1>1. CASE Flush
  BY <1>1, WFlush
<1>2. CASE HandOver
  BY <1>2, WHandOver
<1>3. CASE Tick
  BY <1>3, WTick
<1>4. CASE \/ \E f \in Facts : HandleEvent(f)
           \/ \E t \in Tasks : NoteCoordinatorTouched(t)
           \/ KeepDisposition \/ Shutdown \/ CloseReturns \/ CaptainChanges \/ ProjectChanges
           \/ UNCHANGED vars
  <2>1. UNCHANGED <<wakes, told, send>>
    BY <1>4 DEF HandleEvent, NoteCoordinatorTouched, KeepDisposition, Shutdown, CloseReturns,
                CaptainChanges, ProjectChanges, waker, vars
  <2> QED
    BY <2>1, WRest
<1>5. CASE (\E excluded \in BOOLEAN : SendWake(excluded)) \/ (\E delivered \in BOOLEAN : SendSettles(delivered))
  <2>1. UNCHANGED <<wakes, told>> /\ send.at # "queued"
    BY <1>5 DEF SendWake, SendSettles
  <2>2. send' = NoSend \/ send' = [send EXCEPT !.at = "sending"]
    BY <1>5 DEF SendWake, SendSettles
  <2>3. send'.at # "queued" /\ send' = [at |-> send'.at, events |-> send'.events]
    BY <2>1, <2>2 DEF NoSend, WInv
  <2> QED
    BY <2>1, <2>3, WRest
<1> QED
  BY <1>1, <1>2, <1>3, <1>4, <1>5 DEF Next

\* At most HourlyCap wakes of a project are handed to the host within an hour, however
\* batches, drops, failures and turns fall (captain-waker.ts).
THEOREM HourlyCapHolds == Spec => []WakesAreCapped
<1>1. WInv => WakesAreCapped
  <2> SUFFICES ASSUME WInv, ~(Len(told) <= HourlyCap) PROVE FALSE
    BY DEF WakesAreCapped
  <2> DEFINE n == Len(told)
  <2>1. told \in Seq(Nat) /\ wakes \in Seq(Nat) /\ n \in 1..Len(told) /\ HourlyCap \in Nat /\ n > HourlyCap
    BY WakerAssumption DEF WInv
  <2>2. PICK q \in {0, 1} : Decided(told, wakes, q)
    BY DEF WInv
  <2>3. n + q \in DOMAIN wakes /\ wakes[n + q] <= told[n] /\ told[n] < Hour
    BY <2>1, <2>2 DEF WInv, Decided
  <2>4. wakes[n + q] \in Nat /\ told[n] \in Nat
    BY <2>1, <2>3
  <2>5. n + q <= HourlyCap
    BY <2>3, <2>4, WakerAssumption DEF WInv, Capped
  <2> QED
    BY <2>1, <2>2, <2>5
<1>2. Init => WInv
  BY WInit
<1>3. WInv /\ [Next]_vars => WInv'
  BY WNext
<1> QED
  BY <1>1, <1>2, <1>3, PTL DEF Spec

===============================================================================
