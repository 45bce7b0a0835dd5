---------------------------- MODULE CaptainProofs ----------------------------
(***************************************************************************)
(* What holds of a Captain for any agents, calls, sessions and budgets of  *)
(* the environment: types; that a handoff creates one native session; that *)
(* a row does not stay at "starting"; where rollovers and switches are not *)
(* mixed, that the replaced session is stopped; and, while the agent was   *)
(* not chosen by hand, that one session runs, that a healthy row is true   *)
(* and that only the selected agent's session is bound, and is verified.   *)
(***************************************************************************)
EXTENDS Captain, SequenceTheorems, WellFoundedInduction, TLAPS

------------------------------------------------------------------------------
(* Sets of numbers and sequences. *)

Has(l, x) == \E i \in DOMAIN l : l[i] = x
Distinct(l) == \A i, j \in DOMAIN l : l[i] = l[j] => i = j
Ascending(l) == \A i, j \in DOMAIN l : i < j => l[i] < l[j]

\* A nonempty set of natural numbers has a least element.
LEMMA LeastOf ==
    ASSUME NEW S \in SUBSET Nat, S # {}
    PROVE  Min(S) \in S /\ \A m \in S : Min(S) <= m
<1>1. PICK n \in S : \A m \in S : <<m, n>> \notin OpToRel(<, Nat)
  BY WFMin, NatLessThanWellFounded, Zenon
<1>2. \A m \in S : ~(m < n)
  BY <1>1, Zenon DEF OpToRel
<1>3. \A m \in S : n <= m
  BY <1>2
<1>4. QED
  BY <1>3 DEF Min

\* A nonempty set of natural numbers up to N has a greatest one.
LEMMA GreatestOf ==
    ASSUME NEW N \in Nat, NEW S \in SUBSET (1 .. N), S # {}
    PROVE  Max(S) \in S /\ \A m \in S : m <= Max(S)
<1> DEFINE T == {n \in Nat : N - n \in S}
<1>1. \A m \in S : m \in 1 .. N /\ N - m \in Nat /\ N - (N - m) = m
  OBVIOUS
<1>2. T \in SUBSET Nat /\ T # {}
  BY <1>1
<1>3. Min(T) \in T /\ \A n \in T : Min(T) <= n
  <2> HIDE DEF T
  <2> QED
    BY <1>2, LeastOf
<1>4. N - Min(T) \in S /\ \A m \in S : m <= N - Min(T)
  BY <1>1, <1>3
<1>5. \E k \in S : \A m \in S : k >= m
  BY <1>1, <1>4
<1>6. Max(S) \in S /\ \A m \in S : Max(S) >= m
  BY <1>5 DEF Max
<1>7. QED
  BY <1>1, <1>6

\* What is left of a sequence without duplicates when one element is taken out.
LEMMA TakenOut ==
    ASSUME NEW D, NEW l \in Seq(D), Distinct(l), NEW x
    PROVE  /\ RemoveFirst(l, x) \in Seq(D) /\ Distinct(RemoveFirst(l, x))
           /\ \A y : Has(RemoveFirst(l, x), y) <=> Has(l, y) /\ y # x
           /\ Len(RemoveFirst(l, x)) <= Len(l)
           /\ D \in SUBSET Int /\ Ascending(l) => Ascending(RemoveFirst(l, x))
<1>1. CASE ~Has(l, x)
  <2>1. RemoveFirst(l, x) = l
    BY <1>1 DEF RemoveFirst, Has
  <2>2. QED
    BY <1>1, <2>1 DEF Has
<1>2. CASE Has(l, x)
  <2>1. PICK k \in 1 .. Len(l) : l[k] = x
    BY <1>2 DEF Has
  <2> DEFINE I == {i \in 1 .. Len(l) : l[i] = x}
             r == RemoveAt(l, k)
  <2>2. I \in SUBSET Nat /\ k \in I /\ \A i \in I : i = k
    BY <2>1 DEF Distinct
  <2>3. Min(I) = k
    <3> HIDE DEF I
    <3> QED
      BY <2>2, LeastOf
  <2>4. RemoveFirst(l, x) = r
    BY <2>1, <2>2, <2>3 DEF RemoveFirst, SelectInSeq
  <2> HIDE DEF I
  <2> DEFINE front == SubSeq(l, 1, k - 1)
             back == SubSeq(l, k + 1, Len(l))
  <2>5. /\ front \in Seq(D) /\ Len(front) = k - 1
        /\ \A i \in 1 .. k - 1 : front[i] = l[i]
    OBVIOUS
  <2>6. /\ back \in Seq(D) /\ Len(back) = Len(l) - k
        /\ \A i \in 1 .. Len(l) - k : back[i] = l[k + i]
    OBVIOUS
  <2>18. r = front \o back
    BY DEF RemoveAt
  <2> HIDE DEF front, back
  <2>7. r \in Seq(D) /\ Len(r) = Len(l) - 1
    <3> HIDE DEF r
    <3> QED
      BY <2>1, <2>5, <2>6, <2>18
  <2>8. \A i \in 1 .. Len(r) : r[i] = l[IF i < k THEN i ELSE i + 1]
    <3> SUFFICES ASSUME NEW i \in 1 .. Len(r) PROVE r[i] = l[IF i < k THEN i ELSE i + 1]
      OBVIOUS
    <3> HIDE DEF r
    <3>3. CASE i < k
      <4>1. r[i] = front[i]
        BY <2>18, <2>5, <2>6, <3>3, <2>1, <2>7
      <4>2. i \in 1 .. k - 1
        BY <2>7, <3>3
      <4>3. front[i] = l[i]
        BY <2>5, <4>2
      <4>4. QED
        BY <3>3, <4>1, <4>3
    <3>4. CASE ~(i < k)
      <4>1. r[i] = back[i - (k - 1)]
        BY <2>18, <2>5, <2>6, <3>4, <2>1, <2>7
      <4>2. back[i - (k - 1)] = l[k + (i - (k - 1))]
        BY <2>6, <3>4, <2>1, <2>7
      <4>3. k + (i - (k - 1)) = i + 1
        BY <2>1
      <4>4. QED
        BY <4>1, <4>2, <4>3, <3>4
    <3>5. QED
      BY <3>3, <3>4
  <2> DEFINE at(i) == IF i < k THEN i ELSE i + 1
  <2>13. \A i \in 1 .. Len(r) : at(i) \in 1 .. Len(l) /\ at(i) # k
    BY <2>1, <2>7
  <2>14. \A i, j \in 1 .. Len(r) : at(i) = at(j) => i = j
    BY <2>1, <2>7
  <2>15. \A i, j \in 1 .. Len(r) : i < j => at(i) < at(j)
    BY <2>1, <2>7
  <2>16. DOMAIN r = 1 .. Len(r) /\ DOMAIN l = 1 .. Len(l)
    BY <2>7
  <2> HIDE DEF r
  <2>17. \A i \in DOMAIN r : r[i] = l[at(i)]
    BY <2>8, <2>16
  <2> HIDE DEF at
  <2>9. Distinct(r)
    BY <2>13, <2>14, <2>16, <2>17 DEF Distinct
  <2>10. ASSUME NEW y PROVE Has(r, y) <=> Has(l, y) /\ y # x
    <3>1. ASSUME Has(r, y) PROVE Has(l, y) /\ y # x
      BY <3>1, <2>1, <2>13, <2>16, <2>17 DEF Has, Distinct
    <3>2. ASSUME Has(l, y), y # x PROVE Has(r, y)
      <4>1. PICK i \in 1 .. Len(l) : l[i] = y /\ i # k
        BY <3>2, <2>1 DEF Has
      <4>2. CASE i < k
        BY <4>1, <4>2, <2>1, <2>7, <2>8 DEF Has
      <4>3. CASE k < i
        <5>1. i - 1 \in 1 .. Len(r) /\ r[i - 1] = l[i]
          BY <4>1, <4>3, <2>1, <2>7, <2>8
        <5>2. QED
          BY <5>1, <4>1 DEF Has
      <4>4. QED
        BY <4>1, <4>2, <4>3
    <3>3. QED
      BY <3>1, <3>2
  <2>11. ASSUME D \in SUBSET Int, Ascending(l) PROVE Ascending(r)
    BY <2>13, <2>15, <2>16, <2>17, <2>11 DEF Ascending
  <2>12. QED
    BY <2>4, <2>7, <2>9, <2>10, <2>11
<1>3. QED
  BY <1>1, <1>2

Known == 0 .. MaxSessions
Anyone == Agents \cup {NoAgent}

Rows == [generation : Nat, agent : Agents, candidate : Anyone, lastGood : Agents,
         session : Known, phase : Phases, due : BOOLEAN]

CallKinds == {"none", "reboot", "start", "boot", "back", "switch"}
CallPlaces == {"none", "boot", "release", "prepare", "resume", "check", "turn", "recover",
               "creating", "yield"}
CallRecords == [kind : CallKinds, pc : CallPlaces, agent : Anyone, generation : Nat,
                seen : Nat, previous : Anyone, old : Known, was : Known,
                candidate : Anyone, session : Known, owed : BOOLEAN]

RollPlaces == {"idle", "begin", "pending", "summary", "memory", "asking", "creating", "bind",
               "resume", "verify", "stopping", "stopped", "divide", "done", "left"}
RollRecords == [pc : RollPlaces, key : Known, source : Known, agent : Anyone, base : Known,
                seen : Nat, byStart : BOOLEAN, aborted : BOOLEAN]

\* A call under way is for an agent, and at the places that use a session it has one.
CallOK(call, n) ==
    /\ call \in CallRecords
    /\ call.kind = "none" <=> call.pc = "none"
    /\ call.kind = "reboot" <=> call.pc = "boot"
    /\ call.kind = "switch" => call.pc \in {"prepare", "creating", "yield"}
    /\ call.kind \notin {"none", "reboot"} => call.agent \in Agents /\ call.previous \in Agents
    /\ call.pc \in {"resume", "check", "turn", "recover", "yield"} => call.session # None
    /\ call.owed => call.kind \notin {"none", "reboot"}
    /\ call.session <= n /\ call.old <= n /\ call.was <= n

RuntimeOK ==
    /\ selected \in Agents /\ bound \in Known /\ bound <= Len(made) /\ keyed \in Anyone
    /\ row \in Rows /\ row.session <= Len(made)
    /\ made \in Seq([agent : Agents, source : Known]) /\ Len(made) <= MaxSessions

LiveOK ==
    /\ live \in Seq(1 .. Len(made)) /\ Distinct(live)
    /\ busy \subseteq {live[i] : i \in DOMAIN live}

LeftOK == left \in [Kinds -> Nat] /\ policy \in BOOLEAN

\* A handoff is of a session that was made; its target was made for it, later.
HandoffOK ==
    /\ handoff \in [Sessions -> [state : HandoffStates, target : Known]]
    /\ \A s \in Sessions :
        /\ handoff[s].state # "none" => s <= Len(made)
        /\ handoff[s].target # None <=> handoff[s].state \in {"created", "completed"}
        /\ handoff[s].target # None =>
            /\ s < handoff[s].target /\ handoff[s].target <= Len(made)
            /\ made[handoff[s].target].source = s

\* What the row of the handoff says while its rollover is at a place.
Stands(pc, state) ==
    /\ pc \in {"pending", "summary", "memory"} => state = pc
    /\ pc \in {"asking", "creating"} => state = "creating"
    /\ pc \in {"bind", "resume", "verify", "stopping", "stopped", "divide"} => state = "created"

RollOK ==
    /\ roll \in RollRecords
    /\ roll.key <= Len(made) /\ roll.source <= Len(made)
    /\ ~At("idle") => roll.key # None /\ roll.source # None /\ roll.agent \in Agents
    /\ roll.pc \in {"done", "left"} => roll.byStart
    /\ At("idle") => roll = NoRoll
    /\ Stands(roll.pc, handoff[roll.key].state)

CallsOK == DOMAIN calls = Calls /\ \A c \in Calls : CallOK(calls[c], Len(made))

Types == RuntimeOK /\ LiveOK /\ LeftOK /\ HandoffOK /\ RollOK /\ CallsOK

\* Taking over a running step's row: what begins, what fails and what succeeds.
LEMMA BegunRow ==
    ASSUME NEW r \in Rows, NEW agent \in Agents, NEW good \in Agents
    PROVE  /\ Begun(r, agent, good) \in Rows
           /\ Begun(r, agent, good).generation = r.generation + 1
           /\ Begun(r, agent, good).agent = agent
           /\ Begun(r, agent, good).lastGood = good
           /\ Begun(r, agent, good).session = None
           /\ Begun(r, agent, good).phase = "starting"
           /\ Begun(r, agent, good).candidate = agent
  BY CaptainAssumption DEF Begun, Rows, Known, Anyone, Phases, Over, None

\* A start continues the one that is under way, or begins a generation.
LEMMA StartRow ==
    ASSUME NEW r \in Rows, NEW agent \in Agents
    PROVE  /\ StartBegun(r, agent) \in Rows
           /\ StartBegun(r, agent).agent = agent
           /\ StartBegun(r, agent).lastGood = r.lastGood
           /\ StartBegun(r, agent).phase = "starting"
           /\ StartBegun(r, agent).session \in {None, r.session}
           /\ \/ StartBegun(r, agent).generation = r.generation + 1
              \/ StartBegun(r, agent) = r
<1>1. r.lastGood \in Agents /\ r.lastGood # NoAgent /\ r.generation \in Nat
  BY CaptainAssumption DEF Rows
<1>2. CASE r.agent = agent /\ r.phase = "starting" /\ r.due
  BY <1>2 DEF StartBegun
<1>3. CASE ~(r.agent = agent /\ r.phase = "starting" /\ r.due)
  <2>1. StartBegun(r, agent) = Begun(r, agent, r.lastGood)
    BY <1>1, <1>3 DEF StartBegun
  <2>2. QED
    BY <1>1, <2>1, BegunRow
<1>4. QED
  BY <1>2, <1>3

\* A failure keeps the generation; it rolls back a row of its own, or leaves the row.
LEMMA FailedRow ==
    ASSUME NEW r \in Rows, NEW call \in CallRecords, call.agent \in Agents,
           call.previous \in Agents, NEW phase \in {"failed", "timed_out"}
    PROVE  LET f == AfterFailure(call, r, phase)
           IN /\ f \in Rows /\ f.generation = r.generation
              /\ f = r \/ f.phase \in Over
              /\ call.generation = r.generation \/ call.kind = "back" => f.phase \in Over
              /\ f.session \in {r.session, call.old, call.was}
              /\ f.lastGood \in {r.lastGood, call.previous}
              /\ f.agent \in {r.agent, call.previous}
              /\ call.generation # r.generation => f.lastGood = r.lastGood /\ f.agent = r.agent
<1> DEFINE g == GivenUp(r, call.generation, phase, call.agent, call.previous)
<1>1. call.previous # NoAgent
  BY CaptainAssumption
<1>2. /\ g \in Rows /\ g.generation = r.generation /\ g.session = r.session
      /\ g.lastGood = r.lastGood
      /\ IF call.generation = r.generation THEN g.phase \in Over /\ g.agent = call.previous
                                           ELSE g = r
  BY <1>1 DEF GivenUp, Rows, CallRecords, Phases, Over, Anyone
<1> HIDE DEF g
<1>3. CASE call.kind = "back" \/ (call.kind = "boot" /\ g.generation = call.generation)
  <2>1. AfterFailure(call, r, phase) = [g EXCEPT !.phase = "failed", !.due = FALSE]
    BY <1>3 DEF AfterFailure, g
  <2>2. QED
    BY <1>2, <1>3, <2>1 DEF Rows, Phases, Over
<1>4. CASE ~(call.kind = "back" \/ (call.kind = "boot" /\ g.generation = call.generation))
  <2>1. CASE call.kind = "switch" /\ r.generation = call.generation
    <3> DEFINE was == IF call.old # None THEN call.old ELSE call.was
    <3>1. AfterFailure(call, r, phase) = [g EXCEPT !.lastGood = call.previous, !.session = was]
      BY <1>1, <1>4, <2>1 DEF AfterFailure, g
    <3>2. was \in Known /\ was \in {call.old, call.was}
      BY DEF CallRecords
    <3> HIDE DEF was
    <3>3. QED
      BY <1>2, <1>4, <2>1, <3>1, <3>2 DEF Rows
  <2>2. CASE ~(call.kind = "switch" /\ r.generation = call.generation)
    <3>1. AfterFailure(call, r, phase) = g
      BY <1>1, <1>4, <2>2 DEF AfterFailure, g
    <3>2. QED
      BY <1>2, <1>4, <2>2, <3>1
  <2>3. QED
    BY <2>1, <2>2
<1>5. QED
  BY <1>3, <1>4

\* A success keeps the generation and, unless of a roll-back, the row.
LEMMA SucceededRow ==
    ASSUME NEW r \in Rows, NEW call \in CallRecords, call.agent \in Agents, NEW s \in Known
    PROVE  LET f == AfterSuccess(call, r, s)
           IN /\ f \in Rows /\ f.generation = r.generation
              /\ call.kind # "back" => f = r
              /\ call.kind = "back" => f.phase = "rolled_back" /\ f.agent = call.agent
                                       /\ f.lastGood = call.agent
              /\ f.session \in {r.session, s}
  BY DEF AfterSuccess, Rows, CallRecords, Phases, Over, Anyone

\* What a step leaves alone stays typed.
LEMMA SameParts ==
    ASSUME Types
    PROVE  /\ UNCHANGED <<selected, bound, keyed, row, made>> => RuntimeOK'
           /\ UNCHANGED <<live, busy, made>> => LiveOK'
           /\ UNCHANGED <<left, policy>> => LeftOK'
           /\ UNCHANGED <<handoff, made>> => HandoffOK'
           /\ UNCHANGED <<roll, handoff, made>> => RollOK'
           /\ UNCHANGED <<calls, made>> => CallsOK'
  BY DEF Types, RuntimeOK, LiveOK, LeftOK, HandoffOK, RollOK, CallsOK, CallOK, Distinct, At

\* What the environment has left stays a budget when it is spent.
LEMMA Spent ==
    ASSUME Types, NEW kind \in Kinds, Spend(kind)
    PROVE  /\ UNCHANGED policy => LeftOK'
           /\ \A k \in Kinds \ {kind} : left'[k] = left[k]
           /\ left'[kind] = left[kind] - 1 /\ left[kind] > 0
  BY DEF Types, LeftOK, Spend

\* The sessions of the map after one was taken out, or put in.
LEMMA MapChanges ==
    ASSUME Types, NEW s
    PROVE  /\ Without(s) \in Seq(1 .. Len(made)) /\ Distinct(Without(s))
           /\ \A t : Has(Without(s), t) <=> IsLive(t) /\ t # s
           /\ s \in 1 .. Len(made) =>
                /\ With(s) \in Seq(1 .. Len(made)) /\ Distinct(With(s))
                /\ \A t : Has(With(s), t) <=> IsLive(t) \/ t = s
<1>1. live \in Seq(1 .. Len(made)) /\ Distinct(live)
  BY DEF Types, LiveOK
<1>2. \A t : IsLive(t) <=> Has(live, t)
  BY DEF IsLive, Has
<1>3. /\ Without(s) \in Seq(1 .. Len(made)) /\ Distinct(Without(s))
      /\ \A t : Has(Without(s), t) <=> IsLive(t) /\ t # s
  BY <1>1, <1>2, TakenOut DEF Without
<1>4. ASSUME s \in 1 .. Len(made)
      PROVE  /\ With(s) \in Seq(1 .. Len(made)) /\ Distinct(With(s))
             /\ \A t : Has(With(s), t) <=> IsLive(t) \/ t = s
  <2>1. CASE IsLive(s)
    BY <1>1, <1>2, <2>1 DEF With
  <2>2. CASE ~IsLive(s)
    <3>1. With(s) = Append(live, s)
      BY <2>2 DEF With
    <3>2. Append(live, s) \in Seq(1 .. Len(made)) /\ Len(Append(live, s)) = Len(live) + 1
      BY <1>1, <1>4
    <3>3. /\ \A i \in 1 .. Len(live) : Append(live, s)[i] = live[i]
          /\ Append(live, s)[Len(live) + 1] = s
      BY <1>1, <1>4
    <3> DEFINE l == Append(live, s)
    <3>4. DOMAIN l = 1 .. Len(live) + 1 /\ DOMAIN live = 1 .. Len(live) /\ Len(live) \in Nat
      BY <1>1, <3>2
    <3> HIDE DEF l
    <3>5. Distinct(l)
      BY <1>1, <2>2, <3>3, <3>4 DEF Distinct, IsLive, l
    <3>6. ASSUME NEW t PROVE Has(l, t) <=> IsLive(t) \/ t = s
      BY <3>3, <3>4 DEF Has, IsLive, l
    <3>7. QED
      BY <3>1, <3>2, <3>5, <3>6 DEF l
  <2>3. QED
    BY <2>1, <2>2
<1>5. QED
  BY <1>3, <1>4

\* A session that is taken out leaves a map of distinct sessions.
LEMMA SessionStopped ==
    ASSUME Types, NEW s, UNCHANGED made, live' = Without(s), busy' = busy \ {s}
    PROVE  LiveOK' /\ \A t : IsLive(t)' <=> IsLive(t) /\ t # s
<1>1. \A t : Has(Without(s), t) <=> IsLive(t) /\ t # s
  BY MapChanges
<1>2. \A t : IsLive(t)' <=> IsLive(t) /\ t # s
  BY <1>1 DEF IsLive, Has
<1>3. live' \in Seq(1 .. Len(made)) /\ Distinct(live')
  BY MapChanges
<1>4. busy' \subseteq {live'[i] : i \in DOMAIN live'}
  BY <1>2 DEF Types, LiveOK, IsLive
<1>5. QED
  BY <1>2, <1>3, <1>4 DEF LiveOK, Distinct

\* So does one that is added.
LEMMA SessionAdded ==
    ASSUME Types, NEW s \in 1 .. Len(made), UNCHANGED made, live' = With(s), UNCHANGED busy
    PROVE  LiveOK' /\ \A t : IsLive(t)' <=> IsLive(t) \/ t = s
<1>1. \A t : Has(With(s), t) <=> IsLive(t) \/ t = s
  BY MapChanges
<1>2. \A t : IsLive(t)' <=> IsLive(t) \/ t = s
  BY <1>1 DEF IsLive, Has
<1>3. live' \in Seq(1 .. Len(made)) /\ Distinct(live')
  BY MapChanges
<1>4. busy' \subseteq {live'[i] : i \in DOMAIN live'}
  <2>1. SUFFICES ASSUME NEW t \in busy PROVE \E i \in DOMAIN live' : live'[i] = t
    OBVIOUS
  <2>2. IsLive(t)
    BY <2>1 DEF Types, LiveOK, IsLive
  <2>3. QED
    BY <1>2, <2>2 DEF IsLive
<1>5. QED
  BY <1>2, <1>3, <1>4 DEF LiveOK, Distinct

\* A stop takes the session out, or joins a stop in flight.
LEMMA StopsSession ==
    ASSUME Types, NEW s, UNCHANGED made, Stops(s)
    PROVE  /\ LiveOK'
           /\ ~At("stopping") => \A t : IsLive(t)' <=> IsLive(t) /\ t # s
           /\ At("stopping") => UNCHANGED live
<1>1. CASE At("stopping")
  BY <1>1, SameParts DEF Stops
<1>2. CASE ~At("stopping")
  BY <1>2, SessionStopped DEF Stops
<1>3. QED
  BY <1>1, <1>2

\* A new session, or none, is made by the backend.
LEMMA SessionMade ==
    ASSUME Types, NEW agent \in Agents, NEW source \in Known, Makes(agent, source)
    PROVE  /\ made' \in Seq([agent : Agents, source : Known]) /\ Len(made') = Len(made) + 1
           /\ Len(made') <= MaxSessions /\ Fresh = Len(made') /\ Fresh \in Sessions
           /\ \A i \in DOMAIN made : made'[i] = made[i]
           /\ made'[Fresh] = [agent |-> agent, source |-> source]
           /\ UNCHANGED <<live, busy>> => LiveOK'
           /\ UNCHANGED handoff => HandoffOK'
           /\ UNCHANGED calls => CallsOK'
           /\ UNCHANGED <<roll, handoff>> => RollOK'
           /\ UNCHANGED <<selected, bound, keyed, row>> => RuntimeOK'
<1> DEFINE new == [agent |-> agent, source |-> source]
<1>1. Len(made) \in Nat /\ made \in Seq([agent : Agents, source : Known]) /\ MaxSessions \in Nat
  BY CaptainAssumption DEF Types, RuntimeOK
<1>2. new \in [agent : Agents, source : Known]
  OBVIOUS
<1>3. made' = Append(made, new) /\ Len(made) < MaxSessions
  BY DEF Makes
<1> HIDE DEF new
<1>4. /\ made' \in Seq([agent : Agents, source : Known]) /\ Len(made') = Len(made) + 1
      /\ \A i \in DOMAIN made : made'[i] = made[i]
      /\ made'[Len(made) + 1] = new
  BY <1>1, <1>2, <1>3
<1>5. Len(made') <= MaxSessions /\ Fresh = Len(made') /\ Fresh \in Sessions
  BY <1>1, <1>3, <1>4 DEF Fresh, Sessions
<1>6. UNCHANGED <<live, busy>> => LiveOK'
  BY <1>1, <1>4 DEF Types, LiveOK, Distinct
<1>7. UNCHANGED handoff => HandoffOK'
  <2> SUFFICES ASSUME UNCHANGED handoff PROVE HandoffOK'
    OBVIOUS
  <2>1. ASSUME NEW s \in Sessions, handoff[s].target # None
        PROVE  handoff[s].target \in DOMAIN made /\ made[handoff[s].target].source = s
    BY <1>1, <2>1 DEF Types, HandoffOK, Known, None
  <2>2. ASSUME NEW s \in Sessions, handoff[s].target # None
        PROVE  made'[handoff[s].target].source = s /\ handoff[s].target <= Len(made')
    BY <1>1, <1>4, <2>1, <2>2
  <2>3. ASSUME NEW s \in Sessions, handoff[s].state # "none" PROVE s <= Len(made')
    BY <1>1, <1>4, <2>3 DEF Types, HandoffOK, Sessions
  <2>4. HandoffOK
    BY DEF Types
  <2>5. QED
    BY <2>2, <2>3, <2>4 DEF HandoffOK
<1>8. UNCHANGED calls => CallsOK'
  BY <1>1, <1>4 DEF Types, CallsOK, CallOK, CallRecords, Known
<1>9. UNCHANGED <<roll, handoff>> => RollOK'
  BY <1>1, <1>4 DEF Types, RollOK, RollRecords, Known, At
<1>10. UNCHANGED <<selected, bound, keyed, row>> => RuntimeOK'
  BY <1>1, <1>4, <1>5 DEF Types, RuntimeOK, Rows, Known
<1>11. QED
  BY <1>4, <1>5, <1>6, <1>7, <1>8, <1>9, <1>10 DEF new

\* The handoff in progress, and the pending creation: none, or of a session that was made.
LEMMA HandoffsInProgress ==
    ASSUME Types
    PROVE  /\ Incomplete \in Known /\ PendingCreation \in Known
           /\ Incomplete # None => handoff[Incomplete].state \notin {"none", "completed"}
           /\ Incomplete = None => \A s \in Sessions : handoff[s].state \in {"none", "completed"}
           /\ PendingCreation # None => handoff[PendingCreation].state \in Created
           /\ PendingCreation = None => \A s \in Sessions : handoff[s].state \notin Created
           /\ Incomplete <= Len(made) /\ PendingCreation <= Len(made)
<1> DEFINE I == {s \in Sessions : handoff[s].state \notin {"none", "completed"}}
           P == {s \in Sessions : handoff[s].state \in Created}
<1>1. MaxSessions \in Nat /\ I \in SUBSET (1 .. MaxSessions) /\ P \in SUBSET (1 .. MaxSessions)
  BY CaptainAssumption DEF Sessions
<1>2. /\ \A s \in I : /\ s # None /\ s \in Known /\ s \in Sessions /\ s <= Len(made)
                      /\ handoff[s].state \notin {"none", "completed"}
      /\ \A s \in P : /\ s # None /\ s \in Known /\ s \in Sessions /\ s <= Len(made)
                      /\ handoff[s].state \in Created
  BY <1>1 DEF Types, HandoffOK, Sessions, Known, None, Created
<1>3. Incomplete = Latest(I) /\ PendingCreation = Latest(P)
  BY DEF Incomplete, PendingCreation
<1>6. \A s \in Sessions : /\ s \notin I => handoff[s].state \in {"none", "completed"}
                          /\ s \notin P => handoff[s].state \notin Created
  OBVIOUS
<1>7. 0 <= Len(made) /\ None \in Known /\ None = 0
  BY <1>1 DEF None, Known, Types, RuntimeOK
<1> HIDE DEF I, P
<1>4. /\ Latest(I) \in I \/ (Latest(I) = None /\ I = {})
      /\ Latest(P) \in P \/ (Latest(P) = None /\ P = {})
  BY <1>1, GreatestOf DEF Latest
<1>5. QED
  BY <1>2, <1>3, <1>4, <1>6, <1>7

\* The rollover moves to another place, ends or is cancelled, whatever sessions are made.
LEMMA RollMoves ==
    ASSUME Types, Len(made') \in Nat, Len(made) <= Len(made')
    PROVE  /\ ~At("idle") /\ End("left") => RollOK'
           /\ ~At("idle") /\ End("done") => RollOK'
           /\ roll' = Cancelled /\ UNCHANGED handoff => RollOK'
           /\ roll' = NoRoll => RollOK'
           /\ ~At("idle") => \A pc \in RollPlaces \ {"idle", "done", "left"} :
                Go(pc) /\ Stands(pc, handoff'[roll.key].state) => RollOK'
<1>1. RollOK /\ NoRoll \in RollRecords
  BY CaptainAssumption DEF Types, NoRoll, RollRecords, Known, None, Anyone, RollPlaces
<1>2. roll.key \in Nat /\ roll.source \in Nat /\ Len(made) \in Nat
  BY <1>1 DEF RollOK, RollRecords, Known, Types, RuntimeOK
<1>7. roll.key <= Len(made') /\ roll.source <= Len(made') /\ 0 <= Len(made')
  BY <1>1, <1>2 DEF RollOK
<1>3. roll' = NoRoll => RollOK'
  BY <1>1, <1>7 DEF RollOK, NoRoll, None, At, Stands
<1>4. ASSUME ~At("idle"), NEW pc \in {"left", "done"}, End(pc) PROVE RollOK'
  <2>1. CASE roll.byStart
    BY <1>1, <1>4, <1>7, <2>1 DEF RollOK, RollRecords, RollPlaces, At, End, Stands
  <2>2. CASE ~roll.byStart
    BY <1>3, <1>4, <2>2 DEF End
  <2>3. QED
    BY <2>1, <2>2
<1>5. ASSUME roll' = Cancelled, UNCHANGED handoff PROVE RollOK'
  BY <1>1, <1>5, <1>7 DEF RollOK, RollRecords, Cancelled, At
<1>6. ASSUME ~At("idle"), NEW pc \in RollPlaces \ {"idle", "done", "left"}, Go(pc),
             Stands(pc, handoff'[roll.key].state)
      PROVE  RollOK'
  BY <1>1, <1>6, <1>7 DEF RollOK, RollRecords, At, Go
<1>8. QED
  BY <1>3, <1>4, <1>5, <1>6

\* A handoff that has no session yet is recorded in another state.
LEMMA Recorded ==
    ASSUME Types, UNCHANGED made, ~At("idle"),
           NEW state \in {"pending", "summary", "memory", "creating", "creation_unconfirmed"},
           handoff[roll.key].state \notin {"created", "completed"}, Record(state)
    PROVE  /\ HandoffOK' /\ handoff'[roll.key].state = state
           /\ \A s \in Sessions \ {roll.key} : handoff'[s] = handoff[s]
           /\ handoff'[roll.key].target = handoff[roll.key].target
<1>1. roll.key \in Sessions /\ roll.key <= Len(made)
  BY DEF Types, RollOK, RollRecords, Known, None, Sessions
<1>2. handoff[roll.key].target = None
  BY <1>1 DEF Types, HandoffOK
<1>3. QED
  BY <1>1, <1>2 DEF Types, HandoffOK, Record, HandoffStates, Created

------------------------------------------------------------------------------
(* Types: the steps of a rollover. *)

LEMMA RollFacts ==
    ASSUME Types, ~At("idle")
    PROVE  /\ roll.key \in Sessions /\ roll.source \in Sessions /\ roll.agent \in Agents
           /\ roll.key <= Len(made) /\ roll.source <= Len(made) /\ Len(made) \in Nat
           /\ Stands(roll.pc, handoff[roll.key].state)
           /\ roll.pc \in {"bind", "resume", "verify", "stopping", "stopped", "divide"} =>
                /\ handoff[roll.key].state = "created" /\ Target \in Sessions
                /\ Target <= Len(made) /\ roll.key < Target
  BY DEF Types, RollOK, RollRecords, Known, None, Sessions, HandoffOK, Target, RuntimeOK, At,
         Stands

\* The steps of a rollover keep the types, one by one: it begins, ...
LEMMA BeginHandoffTypes == ASSUME Types, BeginHandoff PROVE Types'
<1>1. ~At("idle") /\ UNCHANGED <<runtimeVars, aside>>
  BY DEF BeginHandoff, At
<1>2. RuntimeOK' /\ LiveOK' /\ LeftOK' /\ CallsOK' /\ UNCHANGED made /\ Len(made) \in Nat
  BY <1>1, SameParts, RollFacts DEF runtimeVars, aside
<1>3. handoff[roll.key].state \in HandoffStates
  BY <1>1, RollFacts DEF Types, HandoffOK
<1>4. CASE End("left") /\ UNCHANGED handoff
  BY <1>1, <1>2, <1>4, RollMoves, SameParts DEF Types
<1>5. CASE handoff[roll.key].state = "creating" /\ End("left") /\ Record("creation_unconfirmed")
  BY <1>1, <1>2, <1>5, RollMoves, Recorded DEF Types
<1>6. CASE /\ handoff[roll.key].state = "created" /\ Go("bind") /\ UNCHANGED handoff
  BY <1>1, <1>2, <1>6, RollMoves, SameParts DEF Types, Stands, RollPlaces
<1>7. CASE /\ handoff[roll.key].state \in {"summary", "memory"} /\ Go(handoff[roll.key].state)
           /\ UNCHANGED handoff
  BY <1>1, <1>2, <1>7, RollMoves, SameParts DEF Types, Stands, RollPlaces
<1>8. CASE handoff[roll.key].state \in {"none", "pending"} /\ Go("pending") /\ Record("pending")
  BY <1>1, <1>2, <1>8, RollMoves, Recorded DEF Types, Stands, RollPlaces
<1>9. QED
  BY <1>3, <1>4, <1>5, <1>6, <1>7, <1>8 DEF BeginHandoff, HandoffStates, Created

\* The steps that move a rollover on, or end it, and record one state on the way.
LEMMA AdvanceTypes ==
    ASSUME Types, SaveSummary \/ WriteMemory \/ AnnounceCreation \/ AskForCreation
    PROVE  Types'
<1>1. ~At("idle") /\ UNCHANGED <<runtimeVars, aside>>
  BY DEF SaveSummary, WriteMemory, AnnounceCreation, AskForCreation, At
<1>2. RuntimeOK' /\ LiveOK' /\ LeftOK' /\ CallsOK' /\ UNCHANGED made /\ Len(made) \in Nat
  BY <1>1, SameParts, RollFacts DEF runtimeVars, aside
<1>3. CASE End("left") /\ UNCHANGED handoff
  BY <1>1, <1>2, <1>3, RollMoves, SameParts DEF Types
<1>4. handoff[roll.key].state \notin {"created", "completed"}
  BY <1>1, RollFacts DEF SaveSummary, WriteMemory, AnnounceCreation, AskForCreation, Stands, At
<1>5. CASE Go("summary") /\ Record("summary")
  BY <1>1, <1>2, <1>4, <1>5, RollMoves, Recorded DEF Types, Stands, RollPlaces
<1>6. CASE Go("memory") /\ Record("memory")
  BY <1>1, <1>2, <1>4, <1>6, RollMoves, Recorded DEF Types, Stands, RollPlaces
<1>7. CASE Go("asking") /\ Record("creating")
  BY <1>1, <1>2, <1>4, <1>7, RollMoves, Recorded DEF Types, Stands, RollPlaces
<1>8. CASE At("asking") /\ Go("creating") /\ UNCHANGED handoff
  BY <1>1, <1>2, <1>8, RollFacts, RollMoves, SameParts DEF Types, Stands, RollPlaces, At
<1>9. CASE End("left") /\ Record("creation_unconfirmed")
  BY <1>1, <1>2, <1>4, <1>9, RollMoves, Recorded DEF Types
<1>10. QED
  BY <1>3, <1>5, <1>6, <1>7, <1>8, <1>9
     DEF SaveSummary, WriteMemory, AnnounceCreation, AskForCreation

\* ... finds nobody to ask, ...
LEMMA NobodyToAskTypes == ASSUME Types, NobodyToAsk PROVE Types'
<1>1. At("asking") /\ ~At("idle") /\ UNCHANGED made /\ End("left") /\ Record("creation_unconfirmed")
  BY DEF NobodyToAsk, At
<1>2. RuntimeOK' /\ LiveOK' /\ CallsOK'
  BY SameParts DEF NobodyToAsk, aside
<1>3. LeftOK'
  BY Spent DEF NobodyToAsk, aside, Kinds
<1>4. handoff[roll.key].state \notin {"created", "completed"}
  BY <1>1, RollFacts DEF Stands, At
<1>5. RollOK' /\ HandoffOK'
  BY <1>1, <1>4, RollFacts, RollMoves, Recorded
<1>6. QED
  BY <1>2, <1>3, <1>5 DEF Types

\* ... gets its session, ...
LEMMA CreationAnsweredTypes == ASSUME Types, CreationAnswered PROVE Types'
<1>1. At("creating") /\ ~At("idle") /\ Makes(roll.agent, roll.key)
  BY DEF CreationAnswered, At
<1>2. roll.agent \in Agents /\ roll.key \in Known /\ roll.key \in Sessions /\ roll.key <= Len(made)
  BY <1>1, RollFacts DEF Known, Sessions
<1>3. RuntimeOK' /\ LiveOK' /\ CallsOK'
  BY <1>1, <1>2, SessionMade DEF CreationAnswered, aside
<1>4. LeftOK'
  BY SameParts DEF CreationAnswered, aside
<1>5. /\ Len(made') = Len(made) + 1 /\ Fresh = Len(made') /\ Fresh \in Sessions /\ Len(made) \in Nat
      /\ \A i \in DOMAIN made : made'[i] = made[i]
      /\ made'[Fresh] = [agent |-> roll.agent, source |-> roll.key]
  BY <1>1, <1>2, SessionMade DEF Types, RuntimeOK
<1> DEFINE new == [handoff EXCEPT ![roll.key] = [state |-> "created", target |-> Fresh]]
<1>7. handoff' = new
  BY DEF CreationAnswered
<1>8. HandoffOK'
  <2>1. handoff' \in [Sessions -> [state : HandoffStates, target : Known]]
    BY <1>2, <1>5, <1>7 DEF Types, HandoffOK, HandoffStates, Created, Sessions, Known
  <2>2. /\ handoff'[roll.key] = [state |-> "created", target |-> Fresh]
        /\ \A s \in Sessions \ {roll.key} : handoff'[s] = handoff[s]
    BY <1>2, <1>7 DEF Types, HandoffOK
  <2>3. \A s \in Sessions \ {roll.key} : handoff[s].target # None =>
            handoff[s].target \in DOMAIN made
    BY <1>5 DEF Types, HandoffOK, Sessions, Known, None, RuntimeOK
  <2>4. ASSUME NEW s \in Sessions \ {roll.key}
        PROVE  /\ handoff[s].state # "none" => s <= Len(made')
               /\ handoff[s].target # None <=> handoff[s].state \in {"created", "completed"}
               /\ handoff[s].target # None =>
                    /\ s < handoff[s].target /\ handoff[s].target <= Len(made')
                    /\ made'[handoff[s].target].source = s
    BY <1>5, <2>3 DEF Types, HandoffOK, Sessions, Known
  <2>5. Fresh # None /\ roll.key < Fresh /\ made'[Fresh].source = roll.key /\ roll.key <= Len(made')
    BY <1>2, <1>5 DEF None, Sessions
  <2>6. QED
    BY <1>2, <1>5, <2>1, <2>2, <2>4, <2>5 DEF HandoffOK
<1>9. handoff'[roll.key].state = "created"
  BY <1>2, <1>7 DEF Types, HandoffOK
<1>10. RollOK'
  BY <1>1, <1>5, <1>9, RollMoves DEF CreationAnswered, RollPlaces, Stands
<1>11. QED
  BY <1>3, <1>4, <1>8, <1>10 DEF Types

\* ... or does not, ...
LEMMA CreationFailedTypes == ASSUME Types, CreationFailed PROVE Types'
<1>1. At("creating") /\ ~At("idle") /\ End("left") /\ Spend("faults") /\ UNCHANGED aside
  BY DEF CreationFailed, At
<1>2. roll.agent \in Agents /\ roll.key \in Known /\ roll.key \in Sessions /\ roll.key <= Len(made)
  BY <1>1, RollFacts DEF Known, Sessions
<1>3. LeftOK'
  BY <1>1, Spent DEF aside, Kinds
<1>4. handoff[roll.key].state = "creating"
  BY <1>1, RollFacts DEF Stands, At
<1>5. handoff' = handoff \/ Record("creation_unconfirmed")
  BY DEF CreationFailed
<1>6. CASE UNCHANGED made
  <2>1. RuntimeOK' /\ LiveOK' /\ CallsOK'
    BY <1>6, SameParts DEF CreationFailed, aside
  <2>2. RollOK' /\ HandoffOK'
    BY <1>1, <1>4, <1>5, <1>6, RollFacts, RollMoves, Recorded, SameParts
  <2>3. QED
    BY <1>3, <2>1, <2>2 DEF Types
<1>7. CASE Makes(roll.agent, roll.key)
  <2>1. RuntimeOK' /\ LiveOK' /\ CallsOK'
    BY <1>2, <1>7, SessionMade DEF CreationFailed, aside
  <2>2. /\ Len(made') = Len(made) + 1 /\ Len(made) \in Nat
        /\ \A i \in DOMAIN made : made'[i] = made[i]
    BY <1>2, <1>7, RollFacts, <1>1, SessionMade
  <2>3. /\ handoff' \in [Sessions -> [state : HandoffStates, target : Known]]
        /\ \A s \in Sessions : /\ handoff'[s].target = handoff[s].target
                               /\ handoff'[s].state = handoff[s].state \/ s = roll.key
        /\ handoff'[roll.key].state \in {"creating", "creation_unconfirmed"}
    BY <1>2, <1>4, <1>5 DEF Record, Types, HandoffOK, HandoffStates, Created
  <2>4. ASSUME NEW s \in Sessions
        PROVE  /\ handoff[s].state # "none" => s <= Len(made')
               /\ handoff[s].target # None =>
                    /\ s < handoff[s].target /\ handoff[s].target <= Len(made')
                    /\ made'[handoff[s].target].source = s
    <3>1. handoff[s].target # None => handoff[s].target \in DOMAIN made
      BY DEF Types, HandoffOK, Sessions, Known, None, RuntimeOK
    <3>2. handoff[s].target \in Nat /\ s \in Nat
      BY DEF Types, HandoffOK, Sessions, Known
    <3>3. QED
      BY <2>2, <3>1, <3>2 DEF Types, HandoffOK
  <2>5. HandoffOK'
    BY <1>2, <1>4, <2>2, <2>3, <2>4 DEF Types, HandoffOK
  <2>6. RollOK'
    BY <1>1, <2>2, RollMoves
  <2>7. QED
    BY <1>3, <2>1, <2>5, <2>6 DEF Types
<1>8. QED
  BY <1>6, <1>7 DEF CreationFailed

\* The row of a start that is verified, not ready or bound to a session.
LEMMA ShownRow ==
    ASSUME Types, NEW s \in Known, s <= Len(made), NEW g
    PROVE  /\ Fenced(g, Verifying(s)) \in Rows /\ Fenced(g, Verifying(s)).session <= Len(made)
           /\ Fenced(g, Unready) \in Rows /\ Fenced(g, Unready).session <= Len(made)
           /\ \A good \in Agents : Fenced(g, Verified(s, good)) \in Rows
                                   /\ Fenced(g, Verified(s, good)).session <= Len(made)
           /\ \A good \in Agents : Verified(s, good) \in Rows
           /\ Verifying(s) \in Rows
  BY CaptainAssumption
     DEF Types, RuntimeOK, Fenced, Verifying, Verified, Unready, Rows, Phases, Over, Anyone

\* ... resumes and verifies it, ...
LEMMA BindingTypes ==
    ASSUME Types, ResumeTarget \/ VerifyTarget \/ TargetNotReady
    PROVE  Types'
<1>1. ~At("idle") /\ UNCHANGED <<selected, bound, keyed, made, live, busy, aside, handoff>>
  BY DEF ResumeTarget, VerifyTarget, TargetNotReady, runtimeVars, At
<1>2. LiveOK' /\ HandoffOK' /\ CallsOK' /\ Len(made) \in Nat /\ Len(made') = Len(made)
  BY <1>1, SameParts, RollFacts DEF aside
<1>3. Target \in Known /\ Target <= Len(made)
  BY <1>1, RollFacts DEF ResumeTarget, VerifyTarget, TargetNotReady, At, Sessions, Known
<1>4. CASE ResumeTarget
  <2>1. RuntimeOK' /\ LeftOK'
    BY <1>1, <1>4, SameParts DEF ResumeTarget, runtimeVars, aside
  <2>2. RollOK'
    BY <1>1, <1>2, <1>4, RollFacts, RollMoves DEF ResumeTarget, RollPlaces, Stands, At
  <2>3. QED
    BY <1>2, <2>1, <2>2 DEF Types
<1>5. CASE VerifyTarget
  <2>1. row' \in Rows /\ row'.session <= Len(made)
    BY <1>3, <1>5, ShownRow DEF VerifyTarget, Types, RuntimeOK
  <2>2. RuntimeOK' /\ LeftOK'
    BY <1>1, <1>5, <2>1, SameParts DEF VerifyTarget, aside, Types, RuntimeOK
  <2>3. CASE End("left")
    BY <1>1, <1>2, <2>2, <2>3, RollMoves DEF Types
  <2>4. CASE roll' = [roll EXCEPT !.pc = "verify", !.seen = row.generation]
    <3>1. row.generation \in Nat
      BY DEF Types, RuntimeOK, Rows
    <3>2. RollOK'
      BY <1>1, <1>5, <2>4, <3>1
         DEF VerifyTarget, Types, RollOK, RollRecords, RollPlaces, At, Stands
    <3>3. QED
      BY <1>2, <2>2, <3>2 DEF Types
  <2>5. QED
    BY <1>5, <2>3, <2>4 DEF VerifyTarget
<1>6. CASE TargetNotReady
  <2>1. row' \in Rows /\ row'.session <= Len(made)
    BY <1>3, <1>6, ShownRow DEF TargetNotReady, Types, RuntimeOK
  <2>2. RuntimeOK' /\ LeftOK'
    BY <1>1, <1>6, <2>1, Spent DEF TargetNotReady, aside, Types, RuntimeOK, Kinds
  <2>3. RollOK'
    BY <1>1, <1>2, <1>6, RollMoves DEF TargetNotReady
  <2>4. QED
    BY <1>2, <2>2, <2>3 DEF Types
<1>7. QED
  BY <1>4, <1>5, <1>6

\* ... stops the session it replaces, ...
LEMMA StopSourceTypes == ASSUME Types, StopSource PROVE Types'
<1>1. /\ ~At("idle") /\ At("verify")
      /\ UNCHANGED <<selected, bound, keyed, made, left, aside, handoff>>
  BY DEF StopSource, At
<1>2. LeftOK' /\ HandoffOK' /\ CallsOK' /\ Len(made) \in Nat /\ Len(made') = Len(made)
  BY <1>1, SameParts, RollFacts DEF aside
<1>3. Target \in Known /\ Target <= Len(made)
  BY <1>1, RollFacts DEF At, Sessions, Known
<1>4. row' \in Rows /\ row'.session <= Len(made)
  BY <1>3, ShownRow DEF StopSource
<1>5. RuntimeOK'
  BY <1>1, <1>4 DEF Types, RuntimeOK
<1>6. LiveOK'
  BY <1>1, SameParts, SessionStopped DEF StopSource
<1>7. RollOK'
  BY <1>1, <1>2, RollFacts, RollMoves DEF StopSource, RollPlaces, Stands, At
<1>8. QED
  BY <1>2, <1>5, <1>6, <1>7 DEF Types

\* ... which may refuse, ...
LEMMA SourceRefusesTypes == ASSUME Types, SourceRefuses PROVE Types'
<1>1. /\ ~At("idle") /\ Spend("faults")
      /\ UNCHANGED <<selected, bound, keyed, row, made, busy, aside, handoff>>
  BY DEF SourceRefuses, At
<1>2. RuntimeOK' /\ HandoffOK' /\ CallsOK' /\ Len(made) \in Nat /\ Len(made') = Len(made)
  BY <1>1, SameParts, RollFacts DEF aside
<1>3. LeftOK'
  BY <1>1, Spent DEF aside, Kinds
<1>4. LiveOK'
  BY <1>1, RollFacts, SessionAdded DEF SourceRefuses, Sessions
<1>5. RollOK'
  BY <1>1, <1>2, RollMoves DEF SourceRefuses
<1>6. QED
  BY <1>2, <1>3, <1>4, <1>5 DEF Types

\* ... binds the replacement, ...
LEMMA BindTargetTypes == ASSUME Types, BindTarget PROVE Types'
<1>1. ~At("idle") /\ UNCHANGED <<selected, made, busy, left, aside, handoff>>
  BY DEF BindTarget, At
<1>2. LeftOK' /\ HandoffOK' /\ CallsOK' /\ Len(made) \in Nat /\ Len(made') = Len(made)
  BY <1>1, SameParts, RollFacts DEF aside
<1>3. Target \in Known /\ Target <= Len(made) /\ Target \in 1 .. Len(made)
  BY <1>1, RollFacts DEF BindTarget, At, Sessions, Known
<1>4. RuntimeOK'
  <2>1. CASE UNCHANGED <<bound, keyed, live, row>>
    BY <1>1, <2>1, SameParts
  <2>2. CASE bound' = Target /\ keyed' = roll.agent /\ row' = Verified(Target, row.agent)
    <3>1. row.agent \in Agents
      BY DEF Types, RuntimeOK, Rows
    <3>2. row' \in Rows /\ row'.session = Target
      BY <1>3, <2>2, <3>1, ShownRow DEF Verified, Types, RuntimeOK, Rows
    <3>3. roll.agent \in Anyone
      BY <1>1, RollFacts DEF Anyone
    <3>4. QED
      BY <1>1, <1>3, <2>2, <3>2, <3>3 DEF Types, RuntimeOK
  <2>3. QED
    BY <2>1, <2>2 DEF BindTarget
<1>5. LiveOK'
  BY <1>1, <1>3, SameParts, SessionAdded DEF BindTarget
<1>6. RollOK'
  BY <1>1, <1>2, RollFacts, RollMoves DEF BindTarget, RollPlaces, Stands
<1>7. QED
  BY <1>2, <1>4, <1>5, <1>6 DEF Types

\* ... is completed, ...
LEMMA CompletionTypes == ASSUME Types, CompleteHandoff \/ DividerLost PROVE Types'
<1>1. /\ ~At("idle") /\ At("divide")
      /\ UNCHANGED <<selected, bound, keyed, row, made, live, busy, aside>>
  BY DEF CompleteHandoff, DividerLost, At, runtimeVars
<1>2. RuntimeOK' /\ LiveOK' /\ CallsOK' /\ Len(made) \in Nat /\ Len(made') = Len(made)
  BY <1>1, SameParts, RollFacts DEF aside
<1>3. LeftOK'
  BY <1>1, SameParts, Spent DEF CompleteHandoff, DividerLost, aside, Kinds, runtimeVars
<1>4. RollOK'
  BY <1>1, <1>2, RollMoves DEF CompleteHandoff, DividerLost
<1>5. HandoffOK'
  <2>1. CASE UNCHANGED handoff
    BY <1>1, <2>1, SameParts
  <2>2. CASE Record("completed")
    <3>1. roll.key \in Sessions /\ handoff[roll.key].state = "created"
      BY <1>1, RollFacts DEF At
    <3>2. /\ handoff' \in [Sessions -> [state : HandoffStates, target : Known]]
          /\ \A s \in Sessions : handoff'[s].target = handoff[s].target
          /\ \A s \in Sessions : s # roll.key => handoff'[s] = handoff[s]
          /\ handoff'[roll.key].state = "completed"
      BY <2>2, <3>1 DEF Types, HandoffOK, Record, HandoffStates
    <3>3. QED
      BY <1>1, <3>1, <3>2 DEF Types, HandoffOK
  <2>3. QED
    BY <2>1, <2>2 DEF CompleteHandoff, DividerLost
<1>6. QED
  BY <1>2, <1>3, <1>4, <1>5 DEF Types

\* ... or is cancelled.
LEMMA CancelRolloverTypes == ASSUME Types, CancelRollover PROVE Types'
<1>1. /\ roll' = Cancelled /\ ~At("idle") /\ Spend("cancels")
      /\ UNCHANGED <<selected, bound, keyed, row, made, live, busy, aside, handoff>>
  BY DEF CancelRollover
<1>2. RuntimeOK' /\ LiveOK' /\ HandoffOK' /\ CallsOK' /\ Len(made) \in Nat
  BY <1>1, SameParts, RollFacts DEF aside
<1>3. LeftOK' /\ RollOK'
  BY <1>1, <1>2, Spent, RollMoves DEF aside, Kinds
<1>4. QED
  BY <1>2, <1>3 DEF Types

\* Every step of a rollover keeps the types.
LEMMA RollStepsTypes == ASSUME Types, RollSteps PROVE Types'
  BY BeginHandoffTypes, AdvanceTypes, NobodyToAskTypes, CreationAnsweredTypes,
     CreationFailedTypes, BindingTypes, StopSourceTypes, SourceRefusesTypes, BindTargetTypes,
     CompletionTypes, CancelRolloverTypes
     DEF RollSteps

------------------------------------------------------------------------------
(* Types: the steps of the starts. *)

LEMMA TypeFacts ==
    ASSUME Types
    PROVE  /\ Len(made) \in Nat /\ bound \in Known /\ bound <= Len(made) /\ selected \in Agents
           /\ row \in Rows /\ row.session <= Len(made)
           /\ row.generation \in Nat /\ row.agent \in Agents /\ row.lastGood \in Agents
           /\ row.session \in Known
           /\ keyed \in Anyone /\ None \in Known /\ None <= Len(made)
           /\ \A c \in Calls : CallOK(calls[c], Len(made))
  BY CaptainAssumption DEF Types, RuntimeOK, CallsOK, Rows, Known, None

\* The sessions that were made stay as they are, ...
LEMMA RuntimeMoves ==
    ASSUME Types, UNCHANGED made, selected' \in Agents, keyed' \in Anyone, bound' \in Known,
           bound' <= Len(made), row' \in Rows, row'.session <= Len(made)
    PROVE  RuntimeOK'
  BY DEF Types, RuntimeOK

\* ... or one is made.
LEMMA RuntimeGrows ==
    ASSUME Types, made' \in Seq([agent : Agents, source : Known]), Len(made') <= MaxSessions,
           Len(made') \in Nat, Len(made) <= Len(made'), selected' \in Agents, keyed' \in Anyone,
           bound' \in Known, bound' <= Len(made'), row' \in Rows, row'.session <= Len(made')
    PROVE  RuntimeOK'
  BY DEF RuntimeOK

\* One call changes, and the others go on.
LEMMA CallChanges ==
    ASSUME Types, NEW c \in Calls, Len(made') \in Nat, Len(made) <= Len(made')
    PROVE  /\ \A call : calls' = [calls EXCEPT ![c] = call] /\ CallOK(call, Len(made'))
                => CallsOK'
           /\ EndCall(c) => CallsOK'
           /\ \A pc : Proceed(c, pc) /\ CallOK([calls[c] EXCEPT !.pc = pc], Len(made'))
                => CallsOK'
<1>1. DOMAIN calls = Calls /\ \A d \in Calls : CallOK(calls[d], Len(made'))
  <2>1. ASSUME NEW d \in Calls PROVE CallOK(calls[d], Len(made'))
    <3>1. CallOK(calls[d], Len(made)) /\ Len(made) \in Nat
      BY TypeFacts
    <3>2. calls[d].session \in Nat /\ calls[d].old \in Nat /\ calls[d].was \in Nat
      BY <3>1 DEF CallOK, CallRecords, Known
    <3>3. QED
      BY <3>1, <3>2 DEF CallOK
  <2>2. QED
    BY <2>1 DEF Types, CallsOK
<1>2. ASSUME NEW call, calls' = [calls EXCEPT ![c] = call], CallOK(call, Len(made'))
      PROVE  CallsOK'
  BY <1>1, <1>2 DEF CallsOK
<1>3. CallOK(NoCall, Len(made'))
  BY CaptainAssumption DEF CallOK, NoCall, CallRecords, CallKinds, CallPlaces, Anyone, Known, None
<1>4. EndCall(c) => CallsOK'
  BY <1>2, <1>3 DEF EndCall
<1>5. ASSUME NEW pc, Proceed(c, pc), CallOK([calls[c] EXCEPT !.pc = pc], Len(made'))
      PROVE  CallsOK'
  BY <1>2, <1>5 DEF Proceed
<1>6. QED
  BY <1>2, <1>4, <1>5

\* A call that fails, at its end or at its deadline.
LEMMA CallFails ==
    ASSUME Types, NEW c \in Calls, ~Idle(c), ~AtPc(c, "boot")
    PROVE  /\ calls[c] \in CallRecords /\ calls[c].agent \in Agents /\ calls[c].previous \in Agents
           /\ \A phase \in {"failed", "timed_out"}, r \in Rows : r.session <= Len(made) =>
                /\ AfterFailure(calls[c], r, phase) \in Rows
                /\ AfterFailure(calls[c], r, phase).session <= Len(made)
           /\ Fails(c) => row' \in Rows /\ row'.session <= Len(made)
           /\ Fails(c) /\ Len(made') \in Nat /\ Len(made) <= Len(made') => CallsOK'
<1>1. /\ calls[c] \in CallRecords /\ calls[c].agent \in Agents /\ calls[c].previous \in Agents
      /\ calls[c].old <= Len(made) /\ calls[c].was <= Len(made)
  BY TypeFacts DEF CallOK, Idle, AtPc
<1>2. ASSUME NEW phase \in {"failed", "timed_out"}, NEW r \in Rows, r.session <= Len(made)
      PROVE  /\ AfterFailure(calls[c], r, phase) \in Rows
             /\ AfterFailure(calls[c], r, phase).session <= Len(made)
  <2>1. AfterFailure(calls[c], r, phase) \in Rows
    BY <1>1, FailedRow
  <2>2. AfterFailure(calls[c], r, phase).session \in {r.session, calls[c].old, calls[c].was}
    BY <1>1, FailedRow
  <2>3. QED
    BY <1>1, <1>2, <2>1, <2>2
<1>3. Fails(c) => row' \in Rows /\ row'.session <= Len(made)
  BY <1>2, TypeFacts DEF Fails
<1>4. QED
  BY <1>1, <1>2, <1>3, CallChanges DEF Fails

\* What the row becomes when a call succeeds.
LEMMA CallSucceeds ==
    ASSUME Types, NEW c \in Calls, ~Idle(c), ~AtPc(c, "boot"), NEW r \in Rows,
           r.session <= Len(made), NEW s \in Known, s <= Len(made)
    PROVE  /\ AfterSuccess(calls[c], r, s) \in Rows
           /\ AfterSuccess(calls[c], r, s).session <= Len(made)
<1>1. calls[c] \in CallRecords /\ calls[c].agent \in Agents
  BY CallFails
<1>2. /\ AfterSuccess(calls[c], r, s) \in Rows
      /\ AfterSuccess(calls[c], r, s).session \in {r.session, s}
  BY <1>1, SucceededRow
<1>3. QED
  BY <1>2

\* A start that may begin, or go on.
Starts(call) ==
    /\ call \in CallRecords /\ call.kind \in {"start", "boot", "back"}
    /\ call.agent \in Agents /\ call.previous \in Agents
    /\ call.session <= Len(made) /\ call.old <= Len(made) /\ call.was <= Len(made)

\* A call that opens a session keeps the types.
LEMMA OpenTypes ==
    ASSUME Types, NEW c \in Calls, NEW call, Starts(call), Open(c, call), row' \in Rows,
           UNCHANGED made
    PROVE  bound' \in {bound, None} /\ CallsOK'
<1>0. Len(made') \in Nat /\ Len(made) <= Len(made')
  BY TypeFacts
<1>1. bound' \in {bound, None}
  BY DEF Open
<1>2. CASE bound # None /\ keyed \in {NoAgent, call.agent}
  <2> DEFINE new == [call EXCEPT !.pc = "resume", !.session = bound, !.seen = row'.generation]
  <2>1. row'.generation \in Nat
    BY DEF Rows
  <2>2. CallOK(new, Len(made'))
    BY <1>2, <2>1, TypeFacts DEF Starts, CallOK, CallRecords, CallPlaces
  <2>3. calls' = [calls EXCEPT ![c] = new]
    BY <1>2 DEF Open
  <2> HIDE DEF new
  <2>4. CallsOK'
    BY <1>0, <2>2, <2>3, CallChanges, Zenon
  <2>5. QED
    BY <1>1, <2>4
<1>3. CASE ~(bound # None /\ keyed \in {NoAgent, call.agent})
  <2> DEFINE new == [call EXCEPT !.pc = "prepare"]
  <2>2. CallOK(new, Len(made'))
    BY TypeFacts DEF Starts, CallOK, CallRecords, CallPlaces
  <2>3. calls' = [calls EXCEPT ![c] = new]
    BY <1>3 DEF Open
  <2> HIDE DEF new
  <2>4. CallsOK'
    BY <1>0, <2>2, <2>3, CallChanges, Zenon
  <2>5. QED
    BY <1>1, <2>4
<1>4. QED
  BY <1>2, <1>3

\* The agents of the sessions that were made are agents.
LEMMA AgentFacts ==
    ASSUME Types
    PROVE  \A s \in 1 .. Len(made) : AgentOf(s) \in Agents /\ s \in Nat \ {None}
<1>1. made \in Seq([agent : Agents, source : Known])
  BY DEF Types, RuntimeOK
<1>2. \A s \in 1 .. Len(made) : made[s] \in [agent : Agents, source : Known]
  BY <1>1, ElementOfSeq
<1>3. QED
  BY <1>2 DEF AgentOf, None

\* The current session, if there is one, is in the map.
LEMMA CurrentFacts ==
    ASSUME Types
    PROVE  /\ Current \in Known /\ Current <= Len(made)
           /\ Current # None => IsLive(Current) /\ AgentOf(Current) \in Agents
           /\ Current = None => bound = None \/ ~IsLive(bound)
           /\ Current = None => live = <<>>
           /\ Current \in {None, bound, Head(live)}
           /\ bound \in busy => Current = bound
<1>1. live \in Seq(1 .. Len(made)) /\ Len(made) \in Nat /\ Len(made) <= MaxSessions
      /\ MaxSessions \in Nat
  BY CaptainAssumption DEF Types, RuntimeOK, LiveOK
<1>2. \A i \in DOMAIN live : live[i] \in 1 .. Len(made)
  BY <1>1
<1>3. ASSUME NEW s, IsLive(s) PROVE s \in 1 .. Len(made) /\ s # None /\ s \in Known
  BY <1>1, <1>2, <1>3 DEF IsLive, None, Known
<1>8. \A s \in 1 .. Len(made) : AgentOf(s) \in Agents
  BY AgentFacts
<1>4. CASE IsLive(bound)
  <2>1. Current = bound
    BY <1>4 DEF Current
  <2>2. Current \in 1 .. Len(made) /\ Current # None /\ Current \in Known /\ IsLive(Current)
    BY <1>3, <1>4, <2>1
  <2>3. QED
    BY <1>1, <1>8, <2>1, <2>2
<1>5. CASE ~IsLive(bound) /\ live = <<>>
  BY <1>1, <1>5 DEF Current, None, Known, Types, LiveOK, IsLive
<1>6. CASE ~IsLive(bound) /\ live # <<>>
  <2>1. Current = Head(live) /\ Head(live) = live[1] /\ 1 \in DOMAIN live
    BY <1>1, <1>6 DEF Current
  <2>2. IsLive(Current)
    BY <2>1 DEF IsLive
  <2>3. bound \notin busy
    BY <1>6 DEF Types, LiveOK, IsLive
  <2>4. Current \in 1 .. Len(made) /\ Current # None /\ Current \in Known
    BY <1>3, <2>2
  <2>5. QED
    BY <1>1, <1>6, <1>8, <2>1, <2>2, <2>3, <2>4
<1>7. QED
  BY <1>4, <1>5, <1>6

\* The first steps of a call, whoever begins it.
LEMMA EnterTypes ==
    ASSUME Types, NEW c \in Calls, NEW call, Starts(call), call.old = None, call.was = None,
           NEW r \in Rows, r.session <= Len(made), Enter(c, call, r)
    PROVE  /\ row' \in Rows /\ row'.session <= Len(made) /\ bound' \in {bound, None}
           /\ UNCHANGED <<made, keyed, policy, handoff>>
           /\ LiveOK' /\ HandoffOK' /\ RollOK' /\ CallsOK'
<1>1. /\ UNCHANGED <<made, keyed, policy, handoff>> /\ HandoffOK' /\ Len(made) \in Nat
      /\ Len(made') \in Nat /\ Len(made) <= Len(made')
  BY SameParts, TypeFacts DEF Enter, rollVars
<1>2. CASE row' = AfterFailure(call, r, "failed") /\ EndCall(c)
           /\ UNCHANGED <<bound, keyed, made, live, busy, rollVars>>
  <2>1. /\ AfterFailure(call, r, "failed") \in Rows
        /\ AfterFailure(call, r, "failed").session \in {r.session, None}
    BY FailedRow DEF Starts
  <2>2. row'.session <= Len(made)
    BY <1>1, <1>2, <2>1 DEF None
  <2>3. LiveOK' /\ RollOK' /\ CallsOK'
    BY <1>1, <1>2, SameParts, CallChanges DEF rollVars
  <2>4. QED
    BY <1>1, <1>2, <2>1, <2>2, <2>3
<1>3. CASE /\ PendingCreation # None /\ row' = r
           /\ calls' = [calls EXCEPT ![c] = [call EXCEPT !.pc = "turn", !.was = bound,
                !.session = IF Current # None THEN Current
                            ELSE IF bound # None THEN bound ELSE PendingCreation]]
           /\ UNCHANGED <<bound, keyed, made, live, busy, rollVars>>
  <2> DEFINE s == IF Current # None THEN Current
                  ELSE IF bound # None THEN bound ELSE PendingCreation
             new == [call EXCEPT !.pc = "turn", !.was = bound, !.session = s]
  <2>1. s # None /\ s \in Known /\ s <= Len(made)
    BY <1>3, HandoffsInProgress, CurrentFacts, TypeFacts
  <2>2. calls' = [calls EXCEPT ![c] = new]
    BY <1>3
  <2> HIDE DEF s
  <2>3. CallOK(new, Len(made'))
    BY <1>1, <2>1, TypeFacts DEF Starts, CallOK, CallRecords, CallPlaces
  <2> HIDE DEF new
  <2>4. CallsOK'
    BY <1>1, <2>2, <2>3, CallChanges, Zenon
  <2>5. LiveOK' /\ RollOK'
    BY <1>1, <1>3, SameParts DEF rollVars
  <2>6. QED
    BY <1>1, <1>3, <2>4, <2>5
<1>4. CASE row' = r /\ Open(c, call) /\ UNCHANGED <<keyed, made, live, busy, rollVars>>
  <2>1. bound' \in {bound, None} /\ CallsOK'
    BY <1>4, OpenTypes
  <2>2. LiveOK' /\ RollOK'
    BY <1>1, <1>4, SameParts DEF rollVars
  <2>3. QED
    BY <1>1, <1>4, <2>1, <2>2
<1>5. CASE /\ Current # None /\ row' = [r EXCEPT !.session = Current]
           /\ calls' = [calls EXCEPT ![c] = [call EXCEPT !.pc = "check",
                           !.session = Current, !.seen = r.generation]]
           /\ UNCHANGED <<bound, keyed, made, live, busy, rollVars>>
  <2> DEFINE new == [call EXCEPT !.pc = "check", !.session = Current, !.seen = r.generation]
  <2>1. row' \in Rows /\ row'.session <= Len(made) /\ r.generation \in Nat
    BY <1>5, CurrentFacts DEF Rows
  <2>2. CallOK(new, Len(made'))
    BY <1>1, <1>5, <2>1, CurrentFacts DEF Starts, CallOK, CallRecords, CallPlaces
  <2>3. calls' = [calls EXCEPT ![c] = new]
    BY <1>5
  <2> HIDE DEF new
  <2>4. CallsOK'
    BY <1>1, <2>2, <2>3, CallChanges, Zenon
  <2>5. LiveOK' /\ RollOK'
    BY <1>1, <1>5, SameParts DEF rollVars
  <2>6. QED
    BY <1>1, <1>5, <2>1, <2>4, <2>5
<1>6. CASE /\ Current # None /\ row' = r /\ Stops(Current) /\ roll' = Cancelled
           /\ calls' = [calls EXCEPT ![c] = [call EXCEPT !.pc = "release"]]
           /\ UNCHANGED <<bound, keyed, made, policy, handoff>>
  <2> DEFINE new == [call EXCEPT !.pc = "release"]
  <2>1. CallOK(new, Len(made'))
    BY <1>1 DEF Starts, CallOK, CallRecords, CallPlaces
  <2>2. calls' = [calls EXCEPT ![c] = new]
    BY <1>6
  <2> HIDE DEF new
  <2>3. CallsOK'
    BY <1>1, <2>1, <2>2, CallChanges, Zenon
  <2>4. LiveOK' /\ RollOK'
    BY <1>1, <1>6, StopsSession, RollMoves
  <2>5. QED
    BY <1>1, <1>6, <2>3, <2>4
<1>7. QED
  BY <1>2, <1>3, <1>4, <1>5, <1>6 DEF Enter

\* A call that begins is typed.
LEMMA BeginsTyped ==
    ASSUME Types, NEW r \in Rows, NEW agent \in Agents, NEW kind \in {"start", "boot", "back"}
    PROVE  Starts(Call(kind, agent, r, r.lastGood))
<1> DEFINE call == Call(kind, agent, r, r.lastGood)
<1>1. r.generation \in Nat /\ r.lastGood \in Agents
  BY DEF Rows
<1>2. NoCall \in CallRecords /\ NoCall.session = None /\ NoCall.old = None /\ NoCall.was = None
  BY TypeFacts DEF NoCall, CallRecords, CallKinds, CallPlaces, Anyone
<1>3. /\ call \in CallRecords /\ call.kind = kind /\ call.agent = agent
      /\ call.previous = r.lastGood
      /\ call.session = None /\ call.old = None /\ call.was = None
  BY <1>1, <1>2 DEF Call, CallRecords, CallKinds, Anyone
<1> HIDE DEF call
<1>4. Starts(call)
  BY <1>1, <1>3, TypeFacts DEF Starts
<1>5. QED
  BY <1>4 DEF call

\* The steps of the starts keep the types, one by one: a call is made, ...
LEMMA AskTypes == ASSUME Types, NEW c \in Calls, Ask(c) PROVE Types'
<1> DEFINE r == StartBegun(row, selected)
           call == Call("start", selected, r, r.lastGood)
<1>1. UNCHANGED selected /\ Spend("starts") /\ Enter(c, call, r)
  BY DEF Ask
<1>2. r \in Rows /\ r.session \in {None, row.session}
  BY TypeFacts, StartRow
<1>3. r.session <= Len(made)
  BY <1>2, TypeFacts DEF None
<1> HIDE DEF r
<1>4. Starts(call) /\ call.old = None /\ call.was = None
  BY <1>2, TypeFacts, BeginsTyped DEF Call, NoCall
<1> HIDE DEF call
<1>5. /\ row' \in Rows /\ row'.session <= Len(made) /\ bound' \in {bound, None}
      /\ UNCHANGED <<made, keyed, policy, handoff>>
      /\ LiveOK' /\ HandoffOK' /\ RollOK' /\ CallsOK'
  BY <1>1, <1>2, <1>3, <1>4, EnterTypes
<1>6. LeftOK'
  BY <1>1, <1>5, Spent DEF Kinds
<1>7. RuntimeOK'
  BY <1>1, <1>5, TypeFacts, RuntimeMoves
<1>8. QED
  BY <1>5, <1>6, <1>7 DEF Types

\* ... is given up at its deadline, ...
LEMMA ExpireTypes == ASSUME Types, NEW c \in Calls, Expire(c) PROVE Types'
<1>1. ~Idle(c) /\ ~AtPc(c, "boot") /\ Len(made') \in Nat /\ Len(made) <= Len(made')
  BY TypeFacts DEF Expire, CallOK, Idle, AtPc
<1>2. row' \in Rows /\ row'.session <= Len(made)
  BY <1>1, CallFails, TypeFacts DEF Expire
<1>3. RuntimeOK' /\ LiveOK' /\ LeftOK' /\ HandoffOK' /\ RollOK'
  BY <1>2, SameParts, Spent, TypeFacts DEF Expire, rollVars, Kinds, RuntimeOK, Types
<1> DEFINE new == [calls[c] EXCEPT !.owed = FALSE]
<1>4. CallOK(new, Len(made'))
  BY TypeFacts DEF Expire, CallOK, CallRecords
<1>5. calls' = [calls EXCEPT ![c] = new]
  BY DEF Expire
<1> HIDE DEF new
<1>6. CallsOK'
  BY <1>1, <1>4, <1>5, CallChanges, Zenon
<1>7. QED
  BY <1>3, <1>6 DEF Types

\* ... has released the session of another agent, ...
LEMMA ReleasedTypes == ASSUME Types, NEW c \in Calls, Released(c) PROVE Types'
<1>1. Starts(calls[c])
  BY TypeFacts DEF Released, AtPc, Starts, CallOK, CallRecords, CallKinds
<1>2. /\ Open(c, calls[c])
      /\ UNCHANGED <<selected, row, keyed, made, live, busy, left, rollVars>>
  BY DEF Released
<1>3. bound' \in {bound, None} /\ CallsOK'
  BY <1>1, <1>2, OpenTypes, TypeFacts
<1>4. LiveOK' /\ LeftOK' /\ HandoffOK' /\ RollOK'
  BY <1>2, SameParts DEF rollVars
<1>5. RuntimeOK'
  BY <1>2, <1>3, TypeFacts, RuntimeMoves
<1>6. QED
  BY <1>3, <1>4, <1>5 DEF Types

\* ... takes a handoff over, ...
LEMMA TakesOverTypes == ASSUME Types, NEW c \in Calls, TakesOver(c) PROVE Types'
<1>1. /\ AtPc(c, "turn") /\ ~Idle(c) /\ ~AtPc(c, "boot")
      /\ UNCHANGED <<selected, bound, keyed, made, live, busy, left, policy, handoff>>
      /\ Len(made') \in Nat /\ Len(made) <= Len(made')
  BY TypeFacts DEF TakesOver, AtPc, CallOK, Idle
<1>2. LiveOK' /\ LeftOK' /\ HandoffOK'
  BY <1>1, SameParts
<1>3. CASE Fails(c) /\ UNCHANGED roll
  <2>1. CallsOK' /\ row' \in Rows /\ row'.session <= Len(made)
    BY <1>1, <1>3, CallFails
  <2>2. RuntimeOK' /\ RollOK'
    BY <1>1, <1>3, <2>1, SameParts DEF RuntimeOK, Types
  <2>3. QED
    BY <1>2, <2>1, <2>2 DEF Types
<1>4. CASE /\ Incomplete # None /\ Proceed(c, "recover") /\ UNCHANGED row
           /\ roll' = [NoRoll EXCEPT
                 !.pc = "begin", !.key = Incomplete, !.byStart = TRUE,
                 !.base = calls[c].was, !.agent = calls[c].agent, !.source = calls[c].session]
  <2>1. CallOK(calls[c], Len(made)) /\ Len(made) = Len(made')
    BY <1>1, TypeFacts
  <2>2. CallOK([calls[c] EXCEPT !.pc = "recover"], Len(made'))
    BY <1>1, <2>1 DEF CallOK, CallRecords, CallPlaces, AtPc
  <2>3. CallsOK'
    BY <1>1, <1>4, <2>2, CallChanges, Zenon
  <2>4. Incomplete \in Known /\ Incomplete <= Len(made)
    BY HandoffsInProgress
  <2>5. RollOK'
    BY <1>1, <1>4, <2>1, <2>4, CaptainAssumption
       DEF RollOK, RollRecords, RollPlaces, NoRoll, CallOK, CallRecords, AtPc, At, Stands,
           None, Known, Anyone
  <2>6. RuntimeOK'
    BY <1>1, <1>4, SameParts
  <2>7. QED
    BY <1>2, <2>3, <2>5, <2>6 DEF Types
<1>5. QED
  BY <1>3, <1>4 DEF TakesOver

\* ... sees it end, ...
LEMMA RecoveredTypes == ASSUME Types, NEW c \in Calls, Recovered(c) PROVE Types'
<1>1. /\ AtPc(c, "recover") /\ ~Idle(c) /\ ~AtPc(c, "boot") /\ roll' = NoRoll
      /\ UNCHANGED <<selected, bound, keyed, made, left, policy, handoff>>
      /\ Len(made') \in Nat /\ Len(made) <= Len(made')
  BY TypeFacts DEF Recovered, AtPc, CallOK, Idle
<1>2. LeftOK' /\ HandoffOK' /\ RollOK'
  BY <1>1, SameParts, RollMoves
<1>3. CallsOK'
  BY <1>1, CallFails, CallChanges DEF Recovered, Fails
<1>4. row' \in Rows /\ row'.session <= Len(made)
  <2>1. Fails(c) => row' \in Rows /\ row'.session <= Len(made)
    BY <1>1, CallFails
  <2>2. /\ AfterSuccess(calls[c], row, bound) \in Rows
        /\ AfterSuccess(calls[c], row, bound).session <= Len(made)
    BY <1>1, TypeFacts, CallSucceeds
  <2>3. QED
    BY <2>1, <2>2, TypeFacts DEF Recovered
<1>5. RuntimeOK'
  BY <1>1, <1>4 DEF RuntimeOK, Types
<1>6. LiveOK'
  BY <1>1, SameParts, StopsSession DEF Recovered
<1>7. QED
  BY <1>2, <1>3, <1>5, <1>6 DEF Types

\* ... has checked the session that is up, ...
LEMMA CheckedTypes == ASSUME Types, NEW c \in Calls, Checked(c) PROVE Types'
<1>1. /\ AtPc(c, "check") /\ ~Idle(c) /\ ~AtPc(c, "boot") /\ EndCall(c)
      /\ UNCHANGED <<selected, bound, keyed, made, live, busy, rollVars>>
      /\ Len(made') \in Nat /\ Len(made) <= Len(made')
  BY TypeFacts DEF Checked, AtPc, CallOK, Idle
<1>2. LiveOK' /\ HandoffOK' /\ RollOK' /\ CallsOK'
  BY <1>1, SameParts, CallChanges DEF rollVars
<1>3. LeftOK'
  BY <1>1, SameParts, Spent DEF Checked, rollVars, Kinds
<1>4. calls[c].session \in Known /\ calls[c].session <= Len(made)
  BY TypeFacts DEF CallOK, CallRecords
<1>5. row' \in Rows /\ row'.session <= Len(made)
  <2> DEFINE good == Fenced(calls[c].seen, Verified(calls[c].session, row.agent))
             bad == Fenced(calls[c].seen, Unready)
  <2>1. good \in Rows /\ good.session <= Len(made) /\ bad \in Rows /\ bad.session <= Len(made)
    BY <1>4, TypeFacts, ShownRow
  <2>2. \/ row' = AfterSuccess(calls[c], good, calls[c].session)
        \/ row' = AfterFailure(calls[c], bad, "failed")
    BY DEF Checked
  <2> HIDE DEF good, bad
  <2>3. QED
    BY <1>1, <1>4, <2>1, <2>2, CallFails, CallSucceeds
<1>6. RuntimeOK'
  BY <1>1, <1>5 DEF RuntimeOK, Types
<1>7. QED
  BY <1>2, <1>3, <1>6 DEF Types

\* ... has resumed the bound one, ...
LEMMA ResumedTypes == ASSUME Types, NEW c \in Calls, Resumed(c) PROVE Types'
<1>1. /\ AtPc(c, "resume") /\ ~Idle(c) /\ ~AtPc(c, "boot") /\ EndCall(c)
      /\ UNCHANGED <<selected, bound, made, left, policy, handoff>>
      /\ Len(made') \in Nat /\ Len(made) <= Len(made')
  BY TypeFacts DEF Resumed, AtPc, CallOK, Idle
<1>2. LeftOK' /\ HandoffOK' /\ CallsOK'
  BY <1>1, SameParts, CallChanges
<1>3. RollOK'
  BY <1>1, SameParts, RollMoves DEF Resumed
<1>4. /\ calls[c].session \in Known /\ calls[c].session \in 1 .. Len(made)
      /\ calls[c].agent \in Anyone /\ calls[c].session <= Len(made)
  BY <1>1, TypeFacts DEF CallOK, CallRecords, AtPc, Known, None
<1>5. row' \in Rows /\ row'.session <= Len(made)
  <2> DEFINE verified == Fenced(calls[c].seen, Verified(calls[c].session, row.agent))
  <2>1. verified \in Rows /\ verified.session <= Len(made)
    BY <1>4, TypeFacts, ShownRow
  <2>2. \/ row' = AfterSuccess(calls[c], verified, calls[c].session)
        \/ row' = AfterFailure(calls[c], verified, "failed")
        \/ row' = verified
    BY DEF Resumed
  <2> HIDE DEF verified
  <2>3. QED
    BY <1>1, <1>4, <2>1, <2>2, CallFails, CallSucceeds
<1>6. keyed' \in Anyone
  BY <1>4, TypeFacts DEF Resumed
<1>7. RuntimeOK'
  BY <1>1, <1>5, <1>6 DEF RuntimeOK, Types
<1>8. LiveOK'
  BY <1>1, <1>4, SameParts, SessionAdded, SessionStopped DEF Resumed
<1>9. QED
  BY <1>2, <1>3, <1>7, <1>8 DEF Types

\* The steps of a start that only end it, or move it on.
LEMMA CallStepsTypes ==
    ASSUME Types, NEW c \in Calls, ResumeLost(c) \/ Prepared(c) \/ NotUp(c)
    PROVE  Types'
<1>1. /\ calls[c].pc \in {"prepare", "creating", "resume"} /\ ~Idle(c) /\ ~AtPc(c, "boot")
      /\ UNCHANGED <<selected, keyed, made, live, busy, rollVars>>
      /\ Len(made') \in Nat /\ Len(made) <= Len(made')
  BY TypeFacts DEF ResumeLost, Prepared, NotUp, AtPc, CallOK, Idle
<1>2. LiveOK' /\ HandoffOK' /\ RollOK' /\ LeftOK'
  BY <1>1, SameParts, Spent DEF ResumeLost, Prepared, NotUp, rollVars, Kinds
<1>3. row' \in Rows /\ row'.session <= Len(made) /\ bound' \in {bound, None}
  BY <1>1, TypeFacts, CallFails DEF ResumeLost, Prepared, NotUp
<1>4. RuntimeOK'
  BY <1>1, <1>3, TypeFacts, RuntimeMoves
<1>5. Fails(c) => CallsOK'
  BY <1>1, CallFails
<1>6. ASSUME calls[c].kind # "switch", Proceed(c, "prepare") PROVE CallsOK'
  <2>1. CallOK([calls[c] EXCEPT !.pc = "prepare"], Len(made'))
    BY <1>1, TypeFacts DEF CallOK, CallRecords, CallPlaces, Idle, AtPc
  <2>2. QED
    BY <1>1, <1>6, <2>1, CallChanges, Zenon
<1>7. ASSUME AtPc(c, "prepare"), Proceed(c, "creating") PROVE CallsOK'
  <2>1. CallOK([calls[c] EXCEPT !.pc = "creating"], Len(made'))
    BY <1>1, <1>7, TypeFacts DEF CallOK, CallRecords, CallPlaces, Idle, AtPc
  <2>2. QED
    BY <1>1, <1>7, <2>1, CallChanges, Zenon
<1>8. AtPc(c, "resume") => calls[c].kind # "switch"
  BY TypeFacts DEF AtPc, CallOK
<1>9. CallsOK'
  BY <1>5, <1>6, <1>7, <1>8 DEF ResumeLost, Prepared, NotUp
<1>10. QED
  BY <1>2, <1>4, <1>9 DEF Types

\* ... or registers a new one.
LEMMA RegisteredTypes == ASSUME Types, NEW c \in Calls, Registered(c) PROVE Types'
<1>1. /\ AtPc(c, "creating") /\ ~Idle(c) /\ ~AtPc(c, "boot") /\ Makes(calls[c].agent, None)
      /\ UNCHANGED <<selected, left, policy, handoff>>
  BY TypeFacts DEF Registered, AtPc, CallOK, Idle
<1>2. /\ calls[c] \in CallRecords /\ calls[c].agent \in Agents /\ None \in Known
      /\ CallOK(calls[c], Len(made))
  BY <1>1, TypeFacts, CallFails
<1>3. /\ Len(made') = Len(made) + 1 /\ Len(made) \in Nat /\ Len(made') \in Nat
      /\ Len(made) <= Len(made') /\ Fresh = Len(made') /\ Fresh \in Sessions
      /\ made' \in Seq([agent : Agents, source : Known]) /\ Len(made') <= MaxSessions
  <2>1. /\ Len(made') = Len(made) + 1 /\ Fresh = Len(made') /\ Fresh \in Sessions
        /\ made' \in Seq([agent : Agents, source : Known]) /\ Len(made') <= MaxSessions
    BY <1>1, <1>2, SessionMade, Zenon
  <2>2. Len(made) \in Nat
    BY TypeFacts
  <2>3. QED
    BY <2>1, <2>2
<1>4. Fresh \in Known /\ Fresh # None /\ Fresh \in 1 .. Len(made') /\ ~IsLive(Fresh)
  <2>1. live \in Seq(1 .. Len(made))
    BY DEF Types, LiveOK
  <2>2. \A i \in DOMAIN live : live[i] \in 1 .. Len(made)
    BY <2>1
  <2>3. QED
    BY <1>3, <2>2 DEF IsLive, Known, Sessions, None
<1>5. LeftOK' /\ HandoffOK'
  BY <1>1, <1>2, SameParts, SessionMade
<1>6. CASE Fails(c) /\ roll' = Cancelled /\ UNCHANGED <<bound, keyed, live, busy>>
  <2>1. CallsOK' /\ row' \in Rows /\ row'.session <= Len(made)
    BY <1>1, <1>3, <1>6, CallFails
  <2>2. LiveOK' /\ RollOK'
    BY <1>1, <1>2, <1>3, <1>6, SessionMade, RollMoves
  <2>3. RuntimeOK'
    <3>1. row'.session \in Nat /\ bound \in Nat
      BY <2>1, TypeFacts DEF Rows, Known
    <3>2. bound' \in Known /\ bound' <= Len(made') /\ row'.session <= Len(made')
      BY <1>3, <1>6, <2>1, <3>1, TypeFacts
    <3>3. QED
      BY <1>1, <1>3, <1>6, <2>1, <3>2, TypeFacts, RuntimeGrows
  <2>4. QED
    BY <1>5, <2>1, <2>2, <2>3 DEF Types
<1>7. CASE /\ UNCHANGED roll /\ live' = Append(live, Fresh) /\ busy' = busy \cup {Fresh}
           /\ calls' = [calls EXCEPT ![c].pc = "yield", ![c].session = Fresh]
           /\ IF calls[c].kind = "switch"
              THEN row' = Verifying(Fresh) /\ UNCHANGED <<bound, keyed>>
              ELSE /\ row' = Verified(Fresh, row.agent)
                   /\ bound' = Fresh /\ keyed' = calls[c].agent
  <2> DEFINE new == [calls[c] EXCEPT !.pc = "yield", !.session = Fresh]
  <2>1. calls' = [calls EXCEPT ![c] = new]
    BY <1>7
  <2>9. /\ new \in CallRecords /\ new.pc = "yield" /\ new.session = Fresh
        /\ new.kind = calls[c].kind /\ new.agent = calls[c].agent
        /\ new.previous = calls[c].previous /\ new.old = calls[c].old /\ new.was = calls[c].was
    BY <1>2, <1>4 DEF CallRecords, CallPlaces
  <2>10. calls[c].old \in Nat /\ calls[c].was \in Nat
    BY <1>2 DEF CallRecords, Known
  <2> HIDE DEF new
  <2>2. CallOK(new, Len(made'))
    BY <1>1, <1>2, <1>3, <1>4, <2>9, <2>10 DEF CallOK, Idle, AtPc
  <2>3. CallsOK'
    BY <1>3, <2>1, <2>2, CallChanges, Zenon
  <2>4. RollOK'
    BY <1>1, <1>2, <1>7, SessionMade
  <2>5. row' \in Rows /\ row'.session <= Len(made')
    <3>1. row \in Rows /\ row.agent \in Agents /\ Fresh <= Len(made')
      BY <1>3, TypeFacts
    <3>2. CASE row' = Verifying(Fresh)
      BY <1>4, <3>1, <3>2 DEF Verifying, Rows, Phases
    <3>3. CASE row' = Verified(Fresh, row.agent)
      BY <1>4, <3>1, <3>3 DEF Verified, Rows, Phases, Anyone
    <3>4. QED
      BY <1>7, <3>2, <3>3
  <2>6. RuntimeOK'
    <3>1. bound' \in Known /\ bound' <= Len(made') /\ keyed' \in Anyone
      BY <1>2, <1>3, <1>4, <1>7, TypeFacts DEF Anyone, Known
    <3>2. QED
      BY <1>1, <1>3, <2>5, <3>1, TypeFacts, RuntimeGrows
  <2>7. LiveOK'
    <3>1. /\ live \in Seq(1 .. Len(made)) /\ Distinct(live)
          /\ busy \subseteq {live[i] : i \in DOMAIN live}
      BY DEF Types, LiveOK
    <3>2. live \in Seq(1 .. Len(made'))
      BY <1>3, <3>1
    <3>3. /\ live' \in Seq(1 .. Len(made')) /\ Len(live') = Len(live) + 1
          /\ \A i \in 1 .. Len(live) : live'[i] = live[i]
          /\ live'[Len(live) + 1] = Fresh
      BY <1>4, <1>7, <3>2
    <3>4. DOMAIN live' = 1 .. Len(live) + 1 /\ DOMAIN live = 1 .. Len(live) /\ Len(live) \in Nat
      BY <3>1, <3>3
    <3>8. \A i \in 1 .. Len(live) : live[i] # Fresh
      BY <1>4, <3>4 DEF IsLive
    <3>5. Distinct(live')
      <4> SUFFICES ASSUME NEW i \in 1 .. Len(live) + 1, NEW j \in 1 .. Len(live) + 1,
                          live'[i] = live'[j]
                   PROVE  i = j
        BY <3>4 DEF Distinct
      <4>1. \A k \in 1 .. Len(live) + 1 : k \in 1 .. Len(live) \/ k = Len(live) + 1
        BY <3>4
      <4>2. QED
        BY <3>1, <3>3, <3>4, <3>8, <4>1 DEF Distinct
    <3>6. busy' \subseteq {live'[i] : i \in DOMAIN live'}
      BY <1>7, <3>1, <3>3, <3>4
    <3>7. QED
      BY <3>3, <3>5, <3>6 DEF LiveOK, Distinct
  <2>8. QED
    BY <1>5, <2>3, <2>4, <2>6, <2>7 DEF Types
<1>8. QED
  BY <1>6, <1>7 DEF Registered

\* The row of a switch that is committed: healthy, or rolled back if the candidate is gone.
LEMMA CommittedRow ==
    ASSUME Types, NEW c \in Calls, CommitSwitch(c)
    PROVE  /\ row' \in Rows /\ row'.session <= Len(made) /\ row'.generation = row.generation
           /\ row'.phase # "starting"
<1> DEFINE committed ==
             [Verified(calls[c].session, calls[c].agent) EXCEPT !.agent = calls[c].agent]
<1>1. /\ ~Idle(c) /\ ~AtPc(c, "boot") /\ calls[c].session \in Known
      /\ calls[c].session <= Len(made) /\ calls[c] \in CallRecords
      /\ calls[c].agent \in Agents /\ calls[c].previous \in Agents
      /\ calls[c].generation = row.generation
  BY TypeFacts DEF CommitSwitch, ItsTurn, Owns, MayStart, AtPc, CallOK, CallRecords, Idle
<1>2. /\ committed \in Rows /\ committed.session <= Len(made)
      /\ committed.generation = row.generation /\ committed.phase = "healthy"
  BY <1>1, TypeFacts, ShownRow DEF Verified, Rows, Phases, Anyone
<1>3. row' = committed \/ row' = AfterFailure(calls[c], committed, "failed")
  BY DEF CommitSwitch
<1> HIDE DEF committed
<1>4. CASE row' = committed
  BY <1>2, <1>4
<1>5. CASE row' = AfterFailure(calls[c], committed, "failed")
  <2>1. row' \in Rows /\ row'.session <= Len(made)
    BY <1>1, <1>2, <1>5, CallFails
  <2>2. row'.generation = committed.generation /\ row'.phase \in Over
    BY <1>1, <1>2, <1>5, FailedRow
  <2>3. QED
    BY <1>2, <2>1, <2>2 DEF Over
<1>6. QED
  BY <1>3, <1>4, <1>5

\* A session that was registered is stopped, shown or selected.
LEMMA YieldStepsTypes ==
    ASSUME Types, NEW c \in Calls, Withdrawn(c) \/ Started(c) \/ CommitSwitch(c)
    PROVE  Types'
<1>1. /\ AtPc(c, "yield") /\ ~Idle(c) /\ ~AtPc(c, "boot")
      /\ UNCHANGED <<made, left, policy, handoff>>
      /\ Len(made') \in Nat /\ Len(made) <= Len(made')
  BY TypeFacts DEF Withdrawn, Started, CommitSwitch, ItsTurn, AtPc, CallOK, Idle, rollVars
<1>2. LeftOK' /\ HandoffOK'
  BY <1>1, SameParts
<1>3. /\ calls[c].session \in Known /\ calls[c].session <= Len(made)
      /\ calls[c].agent \in Agents /\ calls[c].agent \in Anyone
  BY <1>1, TypeFacts, CallFails DEF CallOK, CallRecords
<1>4. CASE Withdrawn(c)
  <2>1. CallsOK' /\ row' \in Rows /\ row'.session <= Len(made)
    BY <1>1, <1>4, CallFails DEF Withdrawn
  <2>2. RuntimeOK'
    BY <1>1, <1>4, <2>1, TypeFacts, RuntimeMoves DEF Withdrawn
  <2>3. LiveOK' /\ RollOK'
    BY <1>1, <1>4, StopsSession, RollMoves DEF Withdrawn
  <2>4. QED
    BY <1>2, <2>1, <2>2, <2>3 DEF Types
<1>5. CASE Started(c)
  <2>1. row' \in Rows /\ row'.session <= Len(made)
    BY <1>1, <1>3, <1>5, TypeFacts, CallSucceeds DEF Started
  <2>2. RuntimeOK'
    BY <1>1, <1>5, <2>1, TypeFacts, RuntimeMoves DEF Started
  <2>3. LiveOK' /\ RollOK' /\ CallsOK'
    BY <1>1, <1>5, SameParts, CallChanges DEF Started, rollVars
  <2>4. QED
    BY <1>2, <2>2, <2>3 DEF Types
<1>6. CASE CommitSwitch(c)
  <2>1. row' \in Rows /\ row'.session <= Len(made)
    BY <1>6, CommittedRow
  <2>2. RuntimeOK'
    BY <1>1, <1>3, <1>6, <2>1, RuntimeMoves DEF CommitSwitch
  <2>3. CallsOK'
    BY <1>1, <1>6, CallChanges DEF CommitSwitch
  <2>4. LiveOK' /\ RollOK'
    BY <1>1, <1>6, StopsSession, RollMoves, SameParts DEF CommitSwitch
  <2>5. QED
    BY <1>2, <2>2, <2>3, <2>4 DEF Types
<1>7. QED
  BY <1>4, <1>5, <1>6

\* The first live session of an agent.
LEMMA FirstFacts ==
    ASSUME Types, NEW agent
    PROVE  /\ FirstOf(agent) \in Known /\ FirstOf(agent) <= Len(made)
           /\ FirstOf(agent) = None => \A i \in DOMAIN live : AgentOf(live[i]) # agent
           /\ FirstOf(agent) # None =>
                \E i \in DOMAIN live :
                    /\ FirstOf(agent) = live[i] /\ AgentOf(live[i]) = agent
                    /\ \A j \in DOMAIN live : AgentOf(live[j]) = agent => i <= j
<1> DEFINE theirs == {i \in DOMAIN live : AgentOf(live[i]) = agent}
<1>1. live \in Seq(1 .. Len(made)) /\ Len(made) \in Nat /\ Len(made) <= MaxSessions
      /\ MaxSessions \in Nat
  BY CaptainAssumption DEF Types, RuntimeOK, LiveOK
<1>2. \A i \in DOMAIN live : live[i] \in 1 .. Len(made)
  BY <1>1
<1>3. theirs \in SUBSET Nat
  BY <1>1
<1>4. FirstOf(agent) = IF theirs = {} THEN None ELSE live[Min(theirs)]
  BY DEF FirstOf
<1>5. CASE theirs = {}
  BY <1>4, <1>5, TypeFacts
<1>6. CASE theirs # {}
  <2>1. Min(theirs) \in theirs /\ \A j \in theirs : Min(theirs) <= j
    <3> HIDE DEF theirs
    <3> QED
      BY <1>3, <1>6, LeastOf
  <2>2. PICK i \in DOMAIN live : i = Min(theirs) /\ AgentOf(live[i]) = agent
    BY <2>1
  <2>3. FirstOf(agent) = live[i]
    BY <1>4, <1>6, <2>2
  <2>4. live[i] \in Known /\ live[i] # None /\ live[i] <= Len(made)
    BY <1>1, <1>2 DEF Known, None
  <2>5. QED
    BY <2>1, <2>2, <2>3, <2>4
<1>7. QED
  BY <1>5, <1>6

\* A switch begins.
LEMMA BeginSwitchTypes ==
    ASSUME Types, NEW c \in Calls, NEW agent \in Agents, BeginSwitch(c, agent)
    PROVE  Types'
<1>1. /\ Spend("switches") /\ row' = Begun(row, agent, selected)
      /\ UNCHANGED <<selected, bound, keyed, made, live, busy, rollVars>>
      /\ Len(made') \in Nat /\ Len(made) <= Len(made')
  BY TypeFacts DEF BeginSwitch
<1>2. LiveOK' /\ HandoffOK' /\ RollOK' /\ LeftOK'
  BY <1>1, SameParts, Spent DEF rollVars, Kinds
<1>3. row' \in Rows /\ row'.session = None /\ row'.generation \in Nat
  BY <1>1, TypeFacts, BegunRow DEF Rows
<1>4. RuntimeOK'
  BY <1>1, <1>3, TypeFacts, RuntimeMoves
<1> DEFINE new == [Call("switch", agent, row', selected) EXCEPT
                     !.pc = "prepare", !.old = FirstOf(selected), !.was = bound]
<1>5. CallOK(new, Len(made'))
  <2>1. FirstOf(selected) \in Known /\ FirstOf(selected) <= Len(made)
    BY FirstFacts
  <2>2. NoCall \in CallRecords
    BY TypeFacts DEF NoCall, CallRecords, CallKinds, CallPlaces, Anyone
  <2>3. /\ new \in CallRecords /\ new.kind = "switch" /\ new.pc = "prepare" /\ new.agent = agent
        /\ new.previous = selected /\ new.session = None /\ new.old = FirstOf(selected)
        /\ new.was = bound /\ new.owed
    <3> DEFINE begun == Call("switch", agent, row', selected)
    <3>1. /\ begun \in CallRecords /\ begun.kind = "switch" /\ begun.agent = agent
          /\ begun.previous = selected /\ begun.session = None /\ begun.owed
      <4>1. begun = [NoCall EXCEPT !.kind = "switch", !.agent = agent, !.owed = TRUE,
                         !.generation = row'.generation, !.previous = selected]
        BY DEF Call
      <4>2. NoCall.session = None /\ selected \in Anyone /\ agent \in Anyone
        BY TypeFacts DEF NoCall, Anyone
      <4> HIDE DEF begun
      <4>3. QED
        BY <1>3, <2>2, <4>1, <4>2 DEF CallRecords, CallKinds
    <3> HIDE DEF begun
    <3>2. new = [begun EXCEPT !.pc = "prepare", !.old = FirstOf(selected), !.was = bound]
      BY DEF begun
    <3>3. bound \in Known
      BY TypeFacts
    <3> HIDE DEF new
    <3>4. QED
      BY <2>1, <3>1, <3>2, <3>3 DEF CallRecords, CallPlaces
  <2> HIDE DEF new
  <2>4. QED
    BY <1>1, <2>1, <2>3, TypeFacts DEF CallOK
<1>6. calls' = [calls EXCEPT ![c] = new]
  BY DEF BeginSwitch
<1> HIDE DEF new
<1>7. CallsOK'
  BY <1>1, <1>5, <1>6, CallChanges, Zenon
<1>8. QED
  BY <1>2, <1>4, <1>7 DEF Types

\* Every step of a start or a switch keeps the types.
LEMMA StartStepsTypes == ASSUME Types, NEW c \in Calls, StartSteps(c) PROVE Types'
  BY AskTypes, ExpireTypes, ReleasedTypes, TakesOverTypes, RecoveredTypes, CheckedTypes,
     ResumedTypes, CallStepsTypes, RegisteredTypes, YieldStepsTypes, BeginSwitchTypes
     DEF StartSteps

------------------------------------------------------------------------------
(* Types: the rest of Next, and the theorem. *)

LEMMA SelectionTypes ==
    ASSUME Types, RollBack \/ \E agent \in Agents : SelectAgent(agent)
    PROVE  Types'
<1>1. CASE RollBack
  <2>1. /\ Spend("rollbacks")
        /\ UNCHANGED <<bound, keyed, made, live, busy, calls, rollVars>>
    BY <1>1 DEF RollBack
  <2>2. LiveOK' /\ HandoffOK' /\ RollOK' /\ LeftOK' /\ CallsOK'
    BY <2>1, SameParts, Spent DEF rollVars, Kinds
  <2>3. row' \in Rows /\ row'.session = bound /\ selected' \in Agents
    <3> DEFINE b == Begun(row, row.lastGood, row.lastGood)
    <3>1. b \in Rows /\ row.candidate \in Anyone
      BY TypeFacts, BegunRow DEF Rows
    <3>2. row' = [b EXCEPT !.phase = "rolled_back", !.due = FALSE, !.session = bound,
                           !.candidate = row.candidate]
      BY <1>1 DEF RollBack
    <3> HIDE DEF b
    <3>3. QED
      BY <1>1, <3>1, <3>2, TypeFacts DEF RollBack, Rows, Phases, Over
  <2>4. RuntimeOK'
    BY <2>1, <2>3, TypeFacts, RuntimeMoves
  <2>5. QED
    BY <2>2, <2>4 DEF Types
<1>2. ASSUME NEW agent \in Agents, SelectAgent(agent) PROVE Types'
  <2>1. /\ Spend("edits") /\ selected' = agent /\ Len(made) \in Nat
        /\ UNCHANGED <<bound, keyed, row, made, calls, policy, handoff>>
    BY <1>2, TypeFacts DEF SelectAgent
  <2>2. HandoffOK' /\ CallsOK' /\ LeftOK'
    BY <2>1, SameParts, Spent DEF Kinds
  <2>3. RuntimeOK'
    BY <2>1, TypeFacts, RuntimeMoves
  <2>4. LiveOK' /\ RollOK'
    BY <1>2, <2>1, SameParts, StopsSession, RollMoves DEF SelectAgent
  <2>5. QED
    BY <2>2, <2>3, <2>4 DEF Types
<1>3. QED
  BY <1>1, <1>2

\* A turn begins or ends.
LEMMA TurnTypes ==
    ASSUME Types, TurnBegins \/ \E s \in Sessions : TurnEnds(s)
    PROVE  Types'
<1>1. UNCHANGED <<selected, bound, keyed, row, made, live, policy, handoff, calls>>
  BY DEF TurnBegins, TurnEnds, rollVars
<1>2. RuntimeOK' /\ HandoffOK' /\ CallsOK' /\ Len(made) \in Nat
  BY <1>1, SameParts, TypeFacts
<1>3. LeftOK'
  BY <1>1, SameParts, Spent DEF TurnBegins, TurnEnds, Kinds
<1>4. LiveOK'
  <2>1. busy \subseteq {live[i] : i \in DOMAIN live}
    BY DEF Types, LiveOK
  <2>2. Current # None => Current \in {live[i] : i \in DOMAIN live}
    BY CurrentFacts DEF IsLive
  <2>3. busy' \subseteq {live[i] : i \in DOMAIN live}
    BY <2>1, <2>2 DEF TurnBegins, TurnEnds
  <2>4. QED
    BY <1>1, <2>3 DEF Types, LiveOK, Distinct
<1>5. RollOK'
  <2>1. CASE UNCHANGED roll
    BY <1>1, <2>1, SameParts
  <2>2. ASSUME NEW s \in Sessions, IsLive(s), MayRollOver(s), roll' = Considered(s)
        PROVE  RollOK'
    <3>1. live \in Seq(1 .. Len(made))
      BY DEF Types, LiveOK
    <3>2. \A i \in DOMAIN live : live[i] \in 1 .. Len(made)
      BY <3>1
    <3>3. /\ s \in Known /\ s # None /\ s <= Len(made) /\ AgentOf(s) \in Agents
          /\ AgentOf(s) \in Anyone
      BY <2>2, <3>2, AgentFacts, TypeFacts
         DEF IsLive, MayRollOver, Anyone, None
    <3> DEFINE key == IF Incomplete # None THEN Incomplete ELSE s
    <3>4. key \in Known /\ key # None /\ key <= Len(made)
      BY <3>3, HandoffsInProgress
    <3>5. NoRoll \in RollRecords
      BY TypeFacts DEF NoRoll, RollRecords, RollPlaces, Anyone
    <3>6. roll' = [NoRoll EXCEPT !.pc = "begin", !.source = s, !.agent = AgentOf(s),
                                 !.base = bound, !.key = key]
      BY <2>2 DEF Considered
    <3> HIDE DEF key
    <3>7. /\ roll' \in RollRecords /\ roll'.key = key /\ roll'.source = s
          /\ roll'.agent = AgentOf(s) /\ roll'.pc = "begin"
      BY <3>3, <3>4, <3>5, <3>6, TypeFacts DEF RollRecords, RollPlaces, NoRoll
    <3>8. QED
      BY <1>1, <3>3, <3>4, <3>7 DEF RollOK, At, Stands
  <2>3. QED
    BY <2>1, <2>2 DEF TurnBegins, TurnEnds, rollVars
<1>6. QED
  BY <1>2, <1>3, <1>4, <1>5 DEF Types

\* The process dies.
LEMMA CrashTypes == ASSUME Types, Crash PROVE Types'
<1>1. /\ Spend("crashes") /\ live' = <<>> /\ busy' = {} /\ roll' = NoRoll
      /\ UNCHANGED <<selected, bound, keyed, row, made, policy, handoff>> /\ Len(made) \in Nat
  BY TypeFacts DEF Crash
<1>2. RuntimeOK' /\ HandoffOK' /\ LeftOK' /\ RollOK'
  BY <1>1, SameParts, Spent, RollMoves DEF Kinds
<1>3. LiveOK'
  BY <1>1 DEF LiveOK, Distinct
<1>4. CallsOK'
  <2>1. /\ CallOK(NoCall, Len(made)) /\ CallOK(Reboot, Len(made))
    <3>1. NoCall \in CallRecords
      BY TypeFacts DEF NoCall, CallRecords, CallKinds, CallPlaces, Anyone
    <3>2. Reboot \in CallRecords /\ Reboot.kind = "reboot" /\ Reboot.pc = "boot"
      BY <3>1 DEF Reboot, CallRecords, CallKinds, CallPlaces, NoCall
    <3>3. QED
      BY <3>1, <3>2, TypeFacts DEF CallOK, NoCall, Reboot
  <2>2. PICK c \in Calls : calls' = [d \in Calls |-> IF d = c THEN Reboot ELSE NoCall]
    BY DEF Crash
  <2>3. QED
    BY <1>1, <2>1, <2>2 DEF CallsOK
<1>5. QED
  BY <1>2, <1>3, <1>4 DEF Types

\* What boot makes of the row before it starts the Captain again.
LEMMA BootRow ==
    ASSUME Types
    PROVE  LET restored == [row EXCEPT !.phase = "rolled_back", !.due = FALSE,
                                       !.agent = row.lastGood]
               recovering == [row EXCEPT !.phase = "starting", !.due = TRUE]
           IN /\ restored \in Rows
              /\ StartBegun(restored, row.lastGood) = Begun(restored, row.lastGood, row.lastGood)
              /\ StartBegun(restored, row.lastGood) \in Rows
              /\ StartBegun(restored, row.lastGood).generation = row.generation + 1
              /\ StartBegun(restored, row.lastGood).lastGood = row.lastGood
              /\ StartBegun(restored, row.lastGood).session = None
              /\ StartBegun(restored, row.lastGood).agent = row.lastGood
              /\ StartBegun(restored, row.lastGood).phase = "starting"
              /\ recovering \in Rows /\ recovering.session = row.session
              /\ recovering.lastGood = row.lastGood
<1> DEFINE restored == [row EXCEPT !.phase = "rolled_back", !.due = FALSE, !.agent = row.lastGood]
           recovering == [row EXCEPT !.phase = "starting", !.due = TRUE]
<1>1. /\ restored \in Rows /\ restored.phase = "rolled_back" /\ restored.lastGood = row.lastGood
      /\ restored.generation = row.generation
  BY TypeFacts DEF Rows, Phases, Over
<1>2. recovering \in Rows /\ recovering.session = row.session
      /\ recovering.lastGood = row.lastGood
  BY TypeFacts DEF Rows, Phases
<1> HIDE DEF restored, recovering
<1>3. StartBegun(restored, row.lastGood) = Begun(restored, row.lastGood, row.lastGood)
  BY <1>1, TypeFacts, CaptainAssumption DEF StartBegun
<1>4. /\ StartBegun(restored, row.lastGood) \in Rows
      /\ StartBegun(restored, row.lastGood).generation = row.generation + 1
      /\ StartBegun(restored, row.lastGood).lastGood = row.lastGood
      /\ StartBegun(restored, row.lastGood).session = None
      /\ StartBegun(restored, row.lastGood).agent = row.lastGood
      /\ StartBegun(restored, row.lastGood).phase = "starting"
  <2> DEFINE b == Begun(restored, row.lastGood, row.lastGood)
  <2>1. row.lastGood \in Agents
    BY TypeFacts
  <2>2. /\ b \in Rows /\ b.generation = restored.generation + 1 /\ b.lastGood = row.lastGood
        /\ b.session = None /\ b.agent = row.lastGood /\ b.phase = "starting"
    BY <1>1, <2>1, BegunRow
  <2> HIDE DEF b
  <2>3. StartBegun(restored, row.lastGood) = b
    BY <1>3 DEF b
  <2>4. QED
    BY <1>1, <2>2, <2>3
<1>5. QED
  BY <1>1, <1>2, <1>3, <1>4 DEF restored, recovering

\* What boot does about the Captain.
LEMMA BootTypes ==
    ASSUME Types, NEW c \in Calls, BootRollsBack(c) \/ BootResumes(c) \/ BootIgnores(c)
    PROVE  Types'
<1>1. CASE BootRollsBack(c)
  <2> DEFINE restored == [row EXCEPT !.phase = "rolled_back", !.due = FALSE,
                                     !.agent = row.lastGood]
             r == StartBegun(restored, row.lastGood)
             begun == Call("back", row.lastGood, r, r.lastGood)
             failed == IF row.candidate # NoAgent THEN row.candidate ELSE row.agent
             call == [begun EXCEPT !.candidate = failed]
  <2>1. Enter(c, call, r) /\ selected' = row.lastGood /\ UNCHANGED left
    BY <1>1 DEF BootRollsBack
  <2>2. r \in Rows /\ r.session = None
    BY BootRow
  <2> HIDE DEF r
  <2>3. Starts(begun) /\ failed \in Anyone
    BY <2>2, TypeFacts, BeginsTyped DEF Rows, Anyone
  <2>4. Starts(call) /\ call.old = None /\ call.was = None
    <3>1. begun.old = None /\ begun.was = None
      BY DEF Call, NoCall
    <3> HIDE DEF begun
    <3>2. QED
      BY <2>3, <3>1 DEF Starts, CallRecords
  <2> HIDE DEF call
  <2>5. /\ row' \in Rows /\ row'.session <= Len(made) /\ bound' \in {bound, None}
        /\ UNCHANGED <<made, keyed, policy, handoff>>
        /\ LiveOK' /\ HandoffOK' /\ RollOK' /\ CallsOK'
    BY <2>1, <2>2, <2>4, TypeFacts, EnterTypes
  <2>6. LeftOK' /\ RuntimeOK'
    BY <2>1, <2>5, TypeFacts, SameParts, RuntimeMoves
  <2>7. QED
    BY <2>5, <2>6 DEF Types
<1>2. CASE BootResumes(c)
  <2> DEFINE r == [row EXCEPT !.phase = "starting", !.due = TRUE]
             call == Call("boot", row.agent, r, row.lastGood)
  <2>1. Enter(c, call, r) /\ UNCHANGED <<selected, left>>
    BY <1>2 DEF BootResumes
  <2>2. r \in Rows /\ r.session = row.session /\ r.lastGood = row.lastGood
    BY BootRow
  <2> HIDE DEF r
  <2>3. Starts(call)
    BY <2>2, TypeFacts, BeginsTyped
  <2>4. call.old = None /\ call.was = None
    BY DEF Call, NoCall
  <2> HIDE DEF call
  <2>5. /\ row' \in Rows /\ row'.session <= Len(made) /\ bound' \in {bound, None}
        /\ UNCHANGED <<made, keyed, policy, handoff>>
        /\ LiveOK' /\ HandoffOK' /\ RollOK' /\ CallsOK'
    BY <2>1, <2>2, <2>3, <2>4, TypeFacts, EnterTypes
  <2>6. LeftOK' /\ RuntimeOK'
    BY <2>1, <2>5, TypeFacts, SameParts, RuntimeMoves
  <2>7. QED
    BY <2>5, <2>6 DEF Types
<1>3. CASE BootIgnores(c)
  <2>1. EndCall(c) /\ UNCHANGED <<runtimeVars, rollVars>>
        /\ Len(made') \in Nat /\ Len(made) <= Len(made')
    BY <1>3, TypeFacts DEF BootIgnores, runtimeVars
  <2>2. QED
    BY <2>1, SameParts, CallChanges DEF runtimeVars, rollVars, Types
<1>4. QED
  BY <1>1, <1>2, <1>3

\* The types hold at first, ...
LEMMA InitTypes == ASSUME Init PROVE Types
<1>1. PICK scenario \in Scenarios, agent \in Agents :
        /\ policy = scenario.policy /\ left = scenario.left
        /\ selected = agent /\ bound = 1 /\ keyed = agent
        /\ made = <<[agent |-> agent, source |-> None]>> /\ live = <<1>> /\ busy = {1}
        /\ row = [generation |-> 1, agent |-> agent, candidate |-> NoAgent,
                  lastGood |-> agent, session |-> 1, phase |-> "healthy", due |-> FALSE]
        /\ handoff = [s \in Sessions |-> Unstarted]
        /\ roll = NoRoll
        /\ calls = [c \in Calls |-> NoCall]
  BY DEF Init
<1>2. MaxSessions \in Nat /\ 1 <= MaxSessions
  BY CaptainAssumption
<1>3. LeftOK
  BY <1>1, ScenariosAssumption DEF LeftOK
<1>4. /\ made \in Seq([agent : Agents, source : Known]) /\ Len(made) = 1
      /\ made[1] = [agent |-> agent, source |-> None]
  BY <1>1, <1>2 DEF Known, None
<1>5. RuntimeOK
  BY <1>1, <1>2, <1>4 DEF RuntimeOK, Rows, Known, Anyone, Phases, Over
<1>6. LiveOK
  BY <1>1, <1>4 DEF LiveOK, Distinct
<1>7. HandoffOK
  BY <1>1, <1>2 DEF HandoffOK, Unstarted, HandoffStates, Created, Known, None
<1>8. RollOK
  BY <1>1, <1>2, <1>4 DEF RollOK, NoRoll, RollRecords, RollPlaces, At, Stands, Anyone, Known, None
<1>9. CallsOK
  <2>1. NoCall \in CallRecords
    BY <1>2 DEF NoCall, CallRecords, CallKinds, CallPlaces, Anyone, Known, None
  <2>2. CallOK(NoCall, Len(made))
    BY <1>4, <2>1 DEF NoCall, CallOK, None
  <2>3. QED
    BY <1>1, <2>2 DEF CallsOK
<1>10. QED
  BY <1>3, <1>5, <1>6, <1>7, <1>8, <1>9 DEF Types

\* ... every step keeps them, ...
LEMMA StepTypes == ASSUME Types, [Next]_vars PROVE Types'
<1>1. CASE UNCHANGED vars
  BY <1>1, SameParts DEF vars, runtimeVars, rollVars, Types
<1>2. CASE Next
  BY <1>2, RollStepsTypes, StartStepsTypes, SelectionTypes, TurnTypes, CrashTypes, BootTypes
     DEF Next
<1>3. QED
  BY <1>1, <1>2

\* ... they are what TypeOK says and more, ...
LEMMA TypesImplyTypeOK == ASSUME Types PROVE TypeOK
<1>1. Known = {None} \cup Sessions
  BY CaptainAssumption DEF Known, None, Sessions
<1>2. QED
  BY <1>1 DEF Types, RuntimeOK, LiveOK, HandoffOK, TypeOK, Rows, Anyone, Distinct

\* ... and so they hold always.
LEMMA AlwaysTypes == Spec => []Types
<1>1. Init => Types
  BY InitTypes
<1>2. Types /\ [Next]_vars => Types'
  BY StepTypes
<1>3. QED
  BY <1>1, <1>2, PTL DEF Spec

\* Every state of every Captain is one the records of the code can hold.
THEOREM Typing == Spec => []TypeOK
<1>1. Types => TypeOK
  BY TypesImplyTypeOK
<1>2. QED
  BY <1>1, AlwaysTypes, PTL

------------------------------------------------------------------------------
(* One native session for a handoff. *)

\* No native session was made for the handoff of s.
Unmade(s) == \A i \in DOMAIN made : made[i].source # s

MadeOnce ==
    /\ HandoffCreatesOnce
    /\ roll.pc \in {"asking", "creating"} => Unmade(roll.key)
    /\ \A s \in Sessions :
         handoff[s].state \in {"none", "pending", "summary", "memory"} => Unmade(s)

\* What the rest of the system may do to the handoffs and to the rollover in progress.
Sideways ==
    /\ UNCHANGED <<policy, handoff>>
    /\ roll' \in {roll, Cancelled, NoRoll} \/ roll'.pc = "begin"
    /\ made' = made \/ \E agent \in Agents : Makes(agent, None)

\* Every step but those of a rollover is sideways to it, ...
LEMMA RestIsSideways ==
    ASSUME Types, Next, ~RollSteps
    PROVE  Sideways
<1>1. ASSUME NEW c \in Calls, NEW call, NEW r, Enter(c, call, r) PROVE Sideways
  BY <1>1 DEF Enter, Sideways, rollVars
<1>2. ASSUME NEW c \in Calls, Registered(c) PROVE Sideways
  <2>1. calls[c].agent \in Agents
    BY <1>2, TypeFacts DEF Registered, CallOK, AtPc
  <2>2. QED
    BY <1>2, <2>1 DEF Registered, Sideways
<1>3. ASSUME NEW c \in Calls, TakesOver(c) PROVE Sideways
  BY <1>3 DEF TakesOver, Sideways, NoRoll
<1>4. ASSUME NEW s \in Sessions, TurnEnds(s) PROVE Sideways
  BY <1>4 DEF TurnEnds, Considered, NoRoll, Sideways
<1>5. ASSUME NEW c \in Calls, Recovered(c) \/ Withdrawn(c) \/ CommitSwitch(c) PROVE Sideways
  BY <1>5 DEF Recovered, Withdrawn, CommitSwitch, Sideways
<1>6. ASSUME NEW c \in Calls,
             Expire(c) \/ Released(c) \/ Checked(c) \/ Resumed(c) \/ ResumeLost(c)
             \/ Prepared(c) \/ NotUp(c) \/ Started(c)
             \/ (\E agent \in Agents : BeginSwitch(c, agent)) \/ BootIgnores(c)
      PROVE  Sideways
  BY <1>6 DEF Expire, Released, Checked, Resumed, ResumeLost, Prepared, NotUp, Started,
              BeginSwitch, BootIgnores, Sideways, rollVars, runtimeVars
<1>7. ASSUME RollBack \/ (\E agent \in Agents : SelectAgent(agent)) \/ TurnBegins \/ Crash
      PROVE  Sideways
  BY <1>7 DEF RollBack, SelectAgent, TurnBegins, Crash, Sideways, rollVars
<1>8. ASSUME NEW c \in Calls, Ask(c) \/ BootRollsBack(c) \/ BootResumes(c) PROVE Sideways
  BY <1>1, <1>8 DEF Ask, BootRollsBack, BootResumes
<1>9. QED
  BY <1>2, <1>3, <1>4, <1>5, <1>6, <1>7, <1>8, Zenon DEF Next, StartSteps

\* A session made for the handoff of s, or for none.
LEMMA MadeForOne ==
    ASSUME Types, HandoffCreatesOnce, NEW agent \in Agents, NEW s \in Known,
           s # None => Unmade(s), Makes(agent, s)
    PROVE  HandoffCreatesOnce' /\ \A t \in Sessions \ {s} : Unmade(t) => Unmade(t)'
<1>1. /\ made' \in Seq([agent : Agents, source : Known]) /\ Len(made') = Len(made) + 1
      /\ Fresh = Len(made') /\ \A i \in DOMAIN made : made'[i] = made[i]
      /\ made'[Fresh] = [agent |-> agent, source |-> s]
  BY SessionMade, Zenon
<1>2. DOMAIN made = 1 .. Len(made) /\ Len(made) \in Nat /\ DOMAIN made' = 1 .. Len(made) + 1
  BY <1>1 DEF Types, RuntimeOK
<1>3. \A i \in DOMAIN made' : i \in DOMAIN made \/ i = Fresh
  BY <1>1, <1>2
<1>4. made'[Fresh].source = s
  BY <1>1
<1>5. HandoffCreatesOnce'
  BY <1>1, <1>3, <1>4 DEF HandoffCreatesOnce, Unmade
<1>6. \A t \in Sessions \ {s} : Unmade(t) => Unmade(t)'
  BY <1>1, <1>3, <1>4 DEF Unmade
<1>7. QED
  BY <1>5, <1>6

\* ... such a step keeps the invariant, ...
LEMMA MadeOnceSideways == ASSUME Types, MadeOnce, Sideways PROVE MadeOnce'
<1>1. HandoffCreatesOnce' /\ \A t \in Sessions : Unmade(t) => Unmade(t)'
  <2>1. CASE made' = made
    BY <2>1 DEF MadeOnce, HandoffCreatesOnce, Unmade
  <2>2. CASE \E agent \in Agents : Makes(agent, None)
    <3>1. None \notin Sessions /\ None \in Known
      BY TypeFacts DEF Sessions, None
    <3>2. QED
      BY <2>2, <3>1, MadeForOne DEF MadeOnce
  <2>3. QED
    BY <2>1, <2>2 DEF Sideways
<1>2. roll'.pc \in {"asking", "creating"} =>
        roll'.pc = roll.pc /\ roll'.key = roll.key /\ roll.key \in Sessions
  <2>1. ~At("idle") => roll.key \in Sessions
    BY RollFacts
  <2>2. roll \in RollRecords
    BY DEF Types, RollOK
  <2>3. QED
    BY <2>1, <2>2 DEF Sideways, Cancelled, NoRoll, At, RollRecords
<1>3. QED
  BY <1>1, <1>2 DEF MadeOnce, Sideways

\* ... and so does every step of a rollover.
LEMMA MadeOnceRolls == ASSUME Types, MadeOnce, RollSteps PROVE MadeOnce'
<1>1. ~At("idle") /\ roll \in RollRecords /\ roll.key \in Sessions /\ roll.key \in Known
      /\ roll.agent \in Agents /\ Stands(roll.pc, handoff[roll.key].state)
      /\ handoff \in [Sessions -> [state : HandoffStates, target : Known]] /\ roll.key # None
  <2>1. ~At("idle")
    BY DEF RollSteps, BeginHandoff, SaveSummary, WriteMemory, AnnounceCreation, AskForCreation,
           NobodyToAsk, CreationAnswered, CreationFailed, ResumeTarget, VerifyTarget,
           TargetNotReady, StopSource, SourceRefuses, BindTarget, CompleteHandoff, DividerLost,
           CancelRollover, At
  <2>2. QED
    BY <2>1, RollFacts DEF Types, RollOK, HandoffOK, At, RollRecords
<1>2. \A outcome \in {"left", "done"} : End(outcome) => roll'.pc \notin {"asking", "creating"}
  BY <1>1 DEF End, NoRoll, RollRecords
<1>3. \A pc : Go(pc) => roll'.pc = pc /\ roll'.key = roll.key
  BY <1>1 DEF Go, RollRecords
<1>4. \A state : Record(state) =>
        /\ handoff'[roll.key].state = state
        /\ \A s \in Sessions \ {roll.key} : handoff'[s] = handoff[s]
  BY <1>1 DEF Record
\* No session is made, and the handoff comes no closer to one that was never made.
<1>5. ASSUME UNCHANGED made,
             roll'.pc \in {"asking", "creating"} => Unmade(roll.key) /\ roll'.key = roll.key,
             \A s \in Sessions : handoff'[s] = handoff[s] \/ s = roll.key,
             handoff'[roll.key].state \in {"none", "pending", "summary", "memory"} =>
                handoff[roll.key].state \in {"none", "pending", "summary", "memory"}
      PROVE  MadeOnce'
  <2>1. HandoffCreatesOnce' /\ \A t : Unmade(t) => Unmade(t)'
    BY <1>5 DEF MadeOnce, HandoffCreatesOnce, Unmade
  <2>2. roll'.pc \in {"asking", "creating"} => Unmade(roll.key)' /\ roll'.key = roll.key
    BY <1>5, <2>1
  <2>3. \A s \in Sessions :
          handoff'[s].state \in {"none", "pending", "summary", "memory"} => Unmade(s)'
    BY <1>1, <1>5, <2>1 DEF MadeOnce
  <2>4. QED
    BY <2>1, <2>2, <2>3 DEF MadeOnce, Unmade
<1>6. CASE BeginHandoff
  <2>1. UNCHANGED made /\ roll'.pc \notin {"asking", "creating"}
    BY <1>2, <1>3, <1>6 DEF BeginHandoff, runtimeVars
  <2>2. /\ \A s \in Sessions : handoff'[s] = handoff[s] \/ s = roll.key
        /\ handoff'[roll.key].state \in {"none", "pending", "summary", "memory"} =>
             handoff[roll.key].state \in {"none", "pending", "summary", "memory"}
    BY <1>1, <1>4, <1>6 DEF BeginHandoff, HandoffStates, Created
  <2>3. QED
    BY <1>5, <2>1, <2>2
<1>7. CASE SaveSummary \/ WriteMemory \/ AnnounceCreation \/ AskForCreation
  <2>1. UNCHANGED made
    BY <1>7 DEF SaveSummary, WriteMemory, AnnounceCreation, AskForCreation, runtimeVars
  <2>2. At("memory") \/ At("asking") => Unmade(roll.key)
    BY <1>1 DEF MadeOnce, Stands, At
  <2>3. roll'.pc \in {"asking", "creating"} => Unmade(roll.key) /\ roll'.key = roll.key
    BY <1>2, <1>3, <1>7, <2>2 DEF SaveSummary, WriteMemory, AnnounceCreation, AskForCreation
  <2>4. /\ \A s \in Sessions : handoff'[s] = handoff[s] \/ s = roll.key
        /\ handoff'[roll.key].state \in {"none", "pending", "summary", "memory"} =>
             handoff[roll.key].state \in {"none", "pending", "summary", "memory"}
    BY <1>1, <1>4, <1>7
       DEF SaveSummary, WriteMemory, AnnounceCreation, AskForCreation, Stands, At
  <2>5. QED
    BY <1>5, <2>1, <2>3, <2>4
<1>8. CASE CreationAnswered \/ CreationFailed
  <2>1. At("creating") /\ Unmade(roll.key) /\ roll'.pc \notin {"asking", "creating"}
    BY <1>2, <1>3, <1>8 DEF CreationAnswered, CreationFailed, MadeOnce, At
  <2>2. handoff[roll.key].state = "creating"
    BY <1>1, <2>1 DEF Stands, At
  <2>3. /\ handoff'[roll.key].state \notin {"none", "pending", "summary", "memory"}
        /\ \A s \in Sessions \ {roll.key} : handoff'[s] = handoff[s]
    BY <1>1, <1>4, <1>8, <2>2 DEF CreationAnswered, CreationFailed
  <2>4. CASE UNCHANGED made
    BY <1>5, <2>1, <2>3, <2>4
  <2>5. CASE Makes(roll.agent, roll.key)
    <3>1. HandoffCreatesOnce' /\ \A t \in Sessions \ {roll.key} : Unmade(t) => Unmade(t)'
      BY <1>1, <2>1, <2>5, MadeForOne DEF MadeOnce
    <3>2. QED
      BY <2>1, <2>3, <3>1 DEF MadeOnce
  <2>6. QED
    BY <1>8, <2>4, <2>5 DEF CreationAnswered, CreationFailed
<1>9. CASE NobodyToAsk \/ CompleteHandoff
  <2>1. UNCHANGED made /\ roll'.pc \notin {"asking", "creating"}
    BY <1>2, <1>9 DEF NobodyToAsk, CompleteHandoff, runtimeVars
  <2>2. /\ \A s \in Sessions : handoff'[s] = handoff[s] \/ s = roll.key
        /\ handoff'[roll.key].state \in {"none", "pending", "summary", "memory"} =>
             handoff[roll.key].state \in {"none", "pending", "summary", "memory"}
    BY <1>1, <1>4, <1>9 DEF NobodyToAsk, CompleteHandoff
  <2>3. QED
    BY <1>5, <2>1, <2>2
<1>10. CASE \/ ResumeTarget \/ VerifyTarget \/ TargetNotReady \/ StopSource \/ SourceRefuses
            \/ BindTarget \/ DividerLost
  <2>1. UNCHANGED <<made, handoff>>
    BY <1>10 DEF ResumeTarget, VerifyTarget, TargetNotReady, StopSource, SourceRefuses,
                 BindTarget, DividerLost, runtimeVars
  <2>2. roll'.pc \notin {"asking", "creating"}
    <3>1. CASE VerifyTarget
      BY <1>1, <1>2, <3>1 DEF VerifyTarget, RollRecords
    <3>2. CASE ResumeTarget \/ StopSource \/ BindTarget
      BY <1>2, <1>3, <3>2 DEF ResumeTarget, StopSource, BindTarget
    <3>3. CASE TargetNotReady \/ SourceRefuses \/ DividerLost
      BY <1>2, <3>3 DEF TargetNotReady, SourceRefuses, DividerLost
    <3>4. QED
      BY <1>10, <3>1, <3>2, <3>3
  <2>3. QED
    BY <1>5, <2>1, <2>2
<1>11. CASE CancelRollover
  <2>1. UNCHANGED <<made, handoff>> /\ roll'.pc = roll.pc /\ roll'.key = roll.key
    BY <1>1, <1>11 DEF CancelRollover, Cancelled, RollRecords
  <2>2. QED
    BY <1>5, <2>1 DEF MadeOnce
<1>12. QED
  BY <1>6, <1>7, <1>8, <1>9, <1>10, <1>11 DEF RollSteps

\* A handoff has at most one native session made for it, whatever is cancelled, fails, times
\* out, is switched or crashes meanwhile.
THEOREM CreatesOnce == Spec => []HandoffCreatesOnce
<1>1. Init => MadeOnce
  <2> SUFFICES ASSUME Init PROVE MadeOnce
    OBVIOUS
  <2>1. DOMAIN made = {1} /\ made[1].source = None /\ roll.pc = "idle"
    BY DEF Init, NoRoll
  <2>2. \A s \in Sessions : s # None
    BY TypeFacts DEF Sessions, None
  <2>3. QED
    BY <2>1, <2>2 DEF MadeOnce, HandoffCreatesOnce, Unmade
<1>2. Types /\ MadeOnce /\ [Next]_vars => MadeOnce'
  <2>1. ASSUME Types, MadeOnce, UNCHANGED vars PROVE MadeOnce'
    BY <2>1 DEF vars, runtimeVars, rollVars, MadeOnce, HandoffCreatesOnce, Unmade
  <2>2. QED
    BY <2>1, RestIsSideways, MadeOnceSideways, MadeOnceRolls
<1>3. MadeOnce => HandoffCreatesOnce
  BY DEF MadeOnce
<1>4. QED
  BY <1>1, <1>2, <1>3, AlwaysTypes, PTL DEF Spec

------------------------------------------------------------------------------
(* The generations of the calls. *)

Active(c) == calls[c].kind \notin {"none", "reboot"}

\* What a step leaves of the other calls.
Alone(c) == DOMAIN calls' = Calls /\ \A d \in Calls \ {c} : calls'[d] = calls[d]

\* What a step makes of one call, and of the generation of the row: it ends, ...
Ends(c) == Alone(c) /\ calls'[c] = NoCall /\ row.generation <= row'.generation

\* ... goes on, perhaps past its deadline, ...
GoesOn(c) ==
    /\ Alone(c) /\ Active(c) /\ row'.generation = row.generation
    /\ calls'[c].kind = calls[c].kind /\ calls'[c].generation = calls[c].generation
    /\ calls'[c].agent = calls[c].agent /\ calls'[c].previous = calls[c].previous
    /\ \/ calls'[c].owed = calls[c].owed
       \/ /\ calls[c].owed /\ Spend("expiries")
          /\ calls[c].generation = row.generation => row'.phase \in Over
    /\ calls'[c].pc \in {"resume", "check"} =>
         \/ calls'[c].seen = row.generation
         \/ calls'[c].pc = calls[c].pc /\ calls'[c].seen = calls[c].seen

\* ... or begins.
Begins(c) ==
    /\ Alone(c) /\ calls'[c].generation = row'.generation /\ calls'[c].owed
    /\ calls'[c].pc \in {"resume", "check"} => calls'[c].seen = row'.generation
    /\ row.generation <= row'.generation
    /\ \/ calls'[c].kind = "start" /\ NoneInFlight
       \/ calls'[c].kind \in {"boot", "back"} /\ calls[c].kind = "reboot"
       \/ /\ calls'[c].kind = "switch" /\ Idle(c) /\ ~Rebooting /\ Spend("switches")
          /\ row'.generation = row.generation + 1

\* A step of one call is of that call alone.
LEMMA OnlyOne ==
    ASSUME Types, NEW c \in Calls
    PROVE  /\ DOMAIN calls = Calls
           /\ EndCall(c) => Alone(c) /\ calls'[c] = NoCall
           /\ \A pc : Proceed(c, pc) => Alone(c) /\ calls'[c] = [calls[c] EXCEPT !.pc = pc]
  BY DEF Types, CallsOK, Alone, EndCall, Proceed

\* What a failure does to the row.
LEMMA FailsRow ==
    ASSUME Types, NEW c \in Calls, ~Idle(c), ~AtPc(c, "boot"), Fails(c)
    PROVE  /\ Ends(c) /\ row'.generation = row.generation
           /\ row' = row \/ row'.phase \in Over
           /\ calls[c].owed /\ calls[c].generation = row.generation => row'.phase \in Over
           /\ ~calls[c].owed => row' = row
           /\ calls[c].generation # row.generation =>
                row'.lastGood = row.lastGood /\ row'.agent = row.agent
           /\ row'.lastGood \in {row.lastGood, calls[c].previous}
           /\ row'.agent \in {row.agent, calls[c].previous}
           /\ row'.session \in {row.session, calls[c].old, calls[c].was}
<1>1. calls[c] \in CallRecords /\ calls[c].agent \in Agents /\ calls[c].previous \in Agents
  BY CallFails
<1>2. row \in Rows
  BY TypeFacts
<1> DEFINE f == AfterFailure(calls[c], row, "failed")
<1>3. /\ f.generation = row.generation
      /\ f = row \/ f.phase \in Over
      /\ calls[c].generation = row.generation => f.phase \in Over
      /\ f.session \in {row.session, calls[c].old, calls[c].was}
      /\ f.lastGood \in {row.lastGood, calls[c].previous}
      /\ f.agent \in {row.agent, calls[c].previous}
      /\ calls[c].generation # row.generation => f.lastGood = row.lastGood /\ f.agent = row.agent
  BY <1>1, <1>2, FailedRow
<1>4. row' = (IF calls[c].owed THEN f ELSE row) /\ EndCall(c)
  BY DEF Fails
<1> HIDE DEF f
<1>5. QED
  BY <1>2, <1>3, <1>4, OnlyOne, TypeFacts DEF Ends

\* Every step of a start is one of the three.
LEMMA EnterBegins ==
    ASSUME Types, NEW c \in Calls, NEW call, Starts(call), call.old = None, call.was = None,
           NEW r \in Rows, r.session <= Len(made), r.generation \in Nat,
           call.generation = r.generation, Enter(c, call, r)
    PROVE  /\ row'.generation = r.generation
           /\ \/ Alone(c) /\ calls'[c] = NoCall /\ row'.phase \in Over
              \/ /\ Alone(c) /\ calls'[c].generation = r.generation
                 /\ calls'[c].kind = call.kind /\ calls'[c].agent = call.agent
                 /\ calls'[c].previous = call.previous /\ calls'[c].owed = call.owed
                 /\ calls'[c].candidate = call.candidate
                 /\ calls'[c].pc \in {"turn", "resume", "prepare", "check", "release"}
                 /\ calls'[c].pc \in {"resume", "check"} => calls'[c].seen = r.generation
                 /\ row' \in {r, [r EXCEPT !.session = Current]}
<1>1. call \in CallRecords
  BY DEF Starts
<1>2. CASE row' = AfterFailure(call, r, "failed") /\ EndCall(c)
  <2>1. /\ AfterFailure(call, r, "failed").generation = r.generation
        /\ AfterFailure(call, r, "failed").phase \in Over
    BY FailedRow DEF Starts
  <2>2. QED
    BY <1>2, <2>1, OnlyOne
<1>3. CASE row' = r /\ \E s :
              calls' = [calls EXCEPT ![c] = [call EXCEPT !.pc = "turn", !.was = bound,
                            !.session = s]]
  BY <1>1, <1>3, OnlyOne DEF CallRecords, Alone
<1>4. CASE row' = r /\ Open(c, call)
  <2>1. CASE bound # None /\ keyed \in {NoAgent, call.agent}
    <3>1. calls' = [calls EXCEPT ![c] =
            [call EXCEPT !.pc = "resume", !.session = bound, !.seen = r.generation]]
      BY <1>4, <2>1 DEF Open
    <3>2. QED
      BY <1>1, <1>4, <3>1, OnlyOne DEF CallRecords, Alone
  <2>2. CASE ~(bound # None /\ keyed \in {NoAgent, call.agent})
    <3>1. calls' = [calls EXCEPT ![c] = [call EXCEPT !.pc = "prepare"]]
      BY <1>4, <2>2 DEF Open
    <3>2. QED
      BY <1>1, <1>4, <3>1, OnlyOne DEF CallRecords, Alone
  <2>3. QED
    BY <2>1, <2>2
<1>5. CASE /\ row' = [r EXCEPT !.session = Current]
           /\ calls' = [calls EXCEPT ![c] = [call EXCEPT !.pc = "check",
                           !.session = Current, !.seen = r.generation]]
  BY <1>1, <1>5, OnlyOne DEF CallRecords, Rows, Alone
<1>6. CASE row' = r /\ calls' = [calls EXCEPT ![c] = [call EXCEPT !.pc = "release"]]
  BY <1>1, <1>6, OnlyOne DEF CallRecords, Alone
<1>7. QED
  BY <1>2, <1>3, <1>4, <1>5, <1>6, Zenon DEF Enter

\* With which call, and which row, a request enters, ...
LEMMA AskEnters ==
    ASSUME Types, NEW c \in Calls, Ask(c)
    PROVE  LET r == StartBegun(row, selected)
               call == Call("start", selected, r, r.lastGood)
           IN /\ Enter(c, call, r) /\ Starts(call) /\ call.old = None /\ call.was = None
              /\ r \in Rows /\ r.session <= Len(made) /\ r.generation \in Nat
              /\ row.generation <= r.generation
              /\ call.kind = "start" /\ call.generation = r.generation /\ call.owed
              /\ call.agent = selected /\ call.previous = row.lastGood
              /\ r.phase = "starting" /\ r.agent = selected /\ r.lastGood = row.lastGood
<1> DEFINE r == StartBegun(row, selected)
           call == Call("start", selected, r, r.lastGood)
<1>1. Enter(c, call, r)
  BY DEF Ask
<1>2. /\ r \in Rows /\ r.session \in {None, row.session} /\ r.phase = "starting"
      /\ r.agent = selected /\ r.lastGood = row.lastGood
      /\ r.generation \in {row.generation, row.generation + 1}
  BY TypeFacts, StartRow
<1>3. r.session <= Len(made) /\ r.generation \in Nat /\ row.generation <= r.generation
  BY <1>2, TypeFacts DEF Rows
<1> HIDE DEF r
<1>4. Starts(call)
  BY <1>2, TypeFacts, BeginsTyped
<1>5. /\ call.old = None /\ call.was = None /\ call.kind = "start"
      /\ call.generation = r.generation /\ call.owed /\ call.agent = selected
      /\ call.previous = r.lastGood
  BY DEF Call, NoCall
<1> HIDE DEF call
<1>6. QED
  BY <1>1, <1>2, <1>3, <1>4, <1>5 DEF r, call

\* ... and boot does.
LEMMA BootEnters ==
    ASSUME Types, NEW c \in Calls, BootRollsBack(c) \/ BootResumes(c)
    PROVE  \E call, r :
              /\ Enter(c, call, r) /\ Starts(call) /\ call.old = None /\ call.was = None
              /\ r \in Rows /\ r.session <= Len(made) /\ r.generation \in Nat
              /\ row.generation <= r.generation
              /\ call.kind \in {"boot", "back"} /\ call.generation = r.generation /\ call.owed
              /\ call.agent = r.agent /\ call.previous = row.lastGood
              /\ r.phase = "starting" /\ r.lastGood = row.lastGood
              /\ r.agent = IF BootRollsBack(c) THEN row.lastGood ELSE row.agent
<1>1. CASE BootRollsBack(c)
  <2> DEFINE restored == [row EXCEPT !.phase = "rolled_back", !.due = FALSE,
                                     !.agent = row.lastGood]
             r == StartBegun(restored, row.lastGood)
             begun == Call("back", row.lastGood, r, r.lastGood)
             failed == IF row.candidate # NoAgent THEN row.candidate ELSE row.agent
             call == [begun EXCEPT !.candidate = failed]
  <2>1. Enter(c, call, r)
    BY <1>1 DEF BootRollsBack
  <2>2. /\ r \in Rows /\ r.session = None /\ r.generation = row.generation + 1
        /\ r.lastGood = row.lastGood /\ r.agent = row.lastGood /\ r.phase = "starting"
    BY BootRow
  <2> HIDE DEF r
  <2>3. Starts(begun) /\ failed \in Anyone /\ row.lastGood \in Agents
    BY <2>2, TypeFacts, BeginsTyped DEF Rows, Anyone
  <2>4. /\ begun.old = None /\ begun.was = None /\ begun.kind = "back" /\ begun.owed
        /\ begun.generation = r.generation /\ begun.agent = row.lastGood
        /\ begun.previous = r.lastGood
    BY DEF Call, NoCall
  <2> HIDE DEF begun
  <2>5. /\ Starts(call) /\ call.old = None /\ call.was = None /\ call.kind = "back" /\ call.owed
        /\ call.generation = r.generation /\ call.agent = row.lastGood
        /\ call.previous = r.lastGood
    BY <2>3, <2>4 DEF Starts, CallRecords
  <2> HIDE DEF call
  <2>6. r.session <= Len(made) /\ r.generation \in Nat /\ row.generation <= r.generation
    BY <2>2, TypeFacts
  <2>7. QED
    BY <1>1, <2>1, <2>2, <2>5, <2>6
<1>2. CASE BootResumes(c) /\ ~BootRollsBack(c)
  <2> DEFINE r == [row EXCEPT !.phase = "starting", !.due = TRUE]
             call == Call("boot", row.agent, r, row.lastGood)
  <2>1. Enter(c, call, r)
    BY <1>2 DEF BootResumes
  <2>2. r \in Rows /\ r.session = row.session /\ r.lastGood = row.lastGood
    BY BootRow
  <2>3. r.generation = row.generation /\ r.agent = row.agent /\ r.phase = "starting"
    BY TypeFacts DEF Rows
  <2> HIDE DEF r
  <2>4. Starts(call)
    BY <2>2, TypeFacts, BeginsTyped
  <2>5. /\ call.old = None /\ call.was = None /\ call.kind = "boot" /\ call.owed
        /\ call.generation = r.generation /\ call.agent = row.agent
        /\ call.previous = row.lastGood
    BY DEF Call, NoCall
  <2> HIDE DEF call
  <2>6. r.session <= Len(made) /\ r.generation \in Nat /\ row.generation <= r.generation
    BY <2>2, <2>3, TypeFacts
  <2>7. QED
    BY <1>2, <2>1, <2>2, <2>3, <2>4, <2>5, <2>6
<1>3. QED
  BY <1>1, <1>2

\* What a session that answers, or does not, makes of the row.
LEMMA AnswerRow ==
    ASSUME Types, NEW c \in Calls, calls[c].pc \in {"check", "resume"},
           LET good == Fenced(calls[c].seen, Verified(calls[c].session, row.agent))
               bad == Fenced(calls[c].seen, Unready)
           IN \/ row' = AfterSuccess(calls[c], good, calls[c].session)
              \/ row' \in {AfterFailure(calls[c], good, "failed"),
                           AfterFailure(calls[c], bad, "failed")}
              \/ row' = good
    PROVE  /\ row'.generation = row.generation
           /\ \/ row' = row
              \/ row'.phase \in Over
              \/ /\ calls[c].seen = row.generation /\ row'.phase \in {"healthy", "unhealthy"}
                 /\ row.phase \notin Over
           /\ row.phase = "starting" /\ calls[c].seen = row.generation => row'.phase # "starting"
<1> DEFINE good == Fenced(calls[c].seen, Verified(calls[c].session, row.agent))
           bad == Fenced(calls[c].seen, Unready)
<1>1. /\ ~Idle(c) /\ ~AtPc(c, "boot") /\ calls[c].session \in Known
      /\ calls[c].session <= Len(made) /\ calls[c] \in CallRecords
      /\ calls[c].agent \in Agents /\ calls[c].previous \in Agents
  BY TypeFacts DEF CallOK, CallRecords, Idle, AtPc
<1>2. /\ good \in Rows /\ good.generation = row.generation
      /\ IF calls[c].seen = row.generation /\ row.phase \notin Over THEN good.phase = "healthy"
                                                                    ELSE good = row
  BY <1>1, TypeFacts, ShownRow DEF Fenced, MayStart, Verified, Rows
<1>3. /\ bad \in Rows /\ bad.generation = row.generation
      /\ IF calls[c].seen = row.generation /\ row.phase \notin Over THEN bad.phase = "unhealthy"
                                                                    ELSE bad = row
  BY <1>1, TypeFacts, ShownRow DEF Fenced, MayStart, Unready, Rows
<1>4. \/ row' = AfterSuccess(calls[c], good, calls[c].session)
      \/ row' \in {AfterFailure(calls[c], good, "failed"), AfterFailure(calls[c], bad, "failed")}
      \/ row' = good
  OBVIOUS
<1>5. row.phase = "starting" => row.phase \notin Over
  BY DEF Over
<1> HIDE DEF good, bad
<1>6. CASE row' = AfterSuccess(calls[c], good, calls[c].session)
  <2>1. row'.generation = good.generation /\ (row' = good \/ row'.phase = "rolled_back")
    BY <1>1, <1>2, <1>6, SucceededRow
  <2>2. QED
    BY <1>2, <1>5, <2>1 DEF Over
<1>7. ASSUME NEW v \in {good, bad}, row' = AfterFailure(calls[c], v, "failed")
      PROVE  /\ row'.generation = row.generation
             /\ \/ row' = row
                \/ row'.phase \in Over
                \/ /\ calls[c].seen = row.generation /\ row'.phase \in {"healthy", "unhealthy"}
                   /\ row.phase \notin Over
             /\ row.phase = "starting" /\ calls[c].seen = row.generation => row'.phase # "starting"
  <2>1. v \in Rows
    BY <1>2, <1>3
  <2>2. row'.generation = v.generation /\ (row' = v \/ row'.phase \in Over)
    BY <1>1, <1>7, <2>1, FailedRow
  <2>3. QED
    BY <1>2, <1>3, <1>5, <2>2 DEF Over
<1>8. QED
  BY <1>2, <1>4, <1>5, <1>6, <1>7

\* Every step of a call ends it, goes on with it or begins it.
LEMMA CallEffects ==
    ASSUME Types, NEW c \in Calls,
           StartSteps(c) \/ BootRollsBack(c) \/ BootResumes(c) \/ BootIgnores(c)
    PROVE  Ends(c) \/ GoesOn(c) \/ Begins(c)
<1> USE TypeFacts
<1>1. CASE Ask(c)
  <2>1. Idle(c) /\ NoneInFlight
    BY <1>1 DEF Ask
  <2>2. QED
    BY <1>1, <2>1, AskEnters, EnterBegins DEF Ends, Begins
<1>2. CASE BootRollsBack(c) \/ BootResumes(c)
  <2>1. calls[c].kind = "reboot"
    BY <1>2 DEF BootRollsBack, BootResumes, AtPc, CallOK
  <2>2. PICK call, r :
          /\ Enter(c, call, r) /\ Starts(call) /\ call.old = None /\ call.was = None
          /\ r \in Rows /\ r.session <= Len(made) /\ r.generation \in Nat
          /\ row.generation <= r.generation
          /\ call.kind \in {"boot", "back"} /\ call.generation = r.generation /\ call.owed
    BY <1>2, BootEnters
  <2>3. QED
    BY <2>1, <2>2, EnterBegins DEF Ends, Begins
<1>3. CASE BootIgnores(c)
  BY <1>3, OnlyOne DEF BootIgnores, Ends, runtimeVars
<1>4. CASE Expire(c)
  <2>1. Active(c) /\ calls[c] \in CallRecords /\ calls[c].agent \in Agents
        /\ calls[c].previous \in Agents
    BY <1>4 DEF Expire, CallOK, Active
  <2>2. /\ row'.generation = row.generation /\ calls[c].owed /\ Spend("expiries")
        /\ calls[c].generation = row.generation => row'.phase \in Over
    BY <1>4, <2>1, FailedRow DEF Expire
  <2>3. calls' = [calls EXCEPT ![c] = [calls[c] EXCEPT !.owed = FALSE]]
    BY <1>4 DEF Expire
  <2>4. QED
    BY <2>1, <2>2, <2>3, OnlyOne DEF GoesOn, Alone, CallRecords
<1>5. CASE Released(c)
  <2>1. Active(c) /\ calls[c] \in CallRecords
    BY <1>5 DEF Released, CallOK, Active, AtPc
  <2>2. UNCHANGED row /\ Open(c, calls[c])
    BY <1>5 DEF Released
  <2>3. CASE bound # None /\ keyed \in {NoAgent, calls[c].agent}
    <3>1. calls' = [calls EXCEPT ![c] =
            [calls[c] EXCEPT !.pc = "resume", !.session = bound, !.seen = row.generation]]
      BY <2>2, <2>3 DEF Open
    <3>2. QED
      BY <2>1, <2>2, <3>1, OnlyOne DEF GoesOn, Alone, CallRecords
  <2>4. CASE ~(bound # None /\ keyed \in {NoAgent, calls[c].agent})
    <3>1. calls' = [calls EXCEPT ![c] = [calls[c] EXCEPT !.pc = "prepare"]]
      BY <2>2, <2>4 DEF Open
    <3>2. QED
      BY <2>1, <2>2, <3>1, OnlyOne DEF GoesOn, Alone, CallRecords
  <2>5. QED
    BY <2>3, <2>4
\* The steps that may fail, or move the call to another place.
<1>6. ASSUME ~Idle(c), ~AtPc(c, "boot"),
             \/ Fails(c)
             \/ /\ UNCHANGED row
                /\ \E pc \in {"recover", "prepare", "creating"} : Proceed(c, pc)
      PROVE  Ends(c) \/ GoesOn(c)
  <2>1. Active(c) /\ calls[c] \in CallRecords
    BY <1>6 DEF CallOK, Active, AtPc, Idle
  <2>2. CASE Fails(c)
    BY <1>6, <2>2, FailsRow
  <2>3. ASSUME NEW pc \in {"recover", "prepare", "creating"}, Proceed(c, pc), UNCHANGED row
        PROVE  GoesOn(c)
    <3>1. Alone(c) /\ calls'[c] = [calls[c] EXCEPT !.pc = pc]
      BY <2>3, OnlyOne
    <3>2. QED
      BY <2>1, <2>3, <3>1 DEF GoesOn, CallRecords
  <2>4. QED
    BY <1>6, <2>2, <2>3
<1>7. CASE TakesOver(c) \/ ResumeLost(c) \/ Prepared(c) \/ NotUp(c) \/ Withdrawn(c)
  <2>1. ~Idle(c) /\ ~AtPc(c, "boot")
    BY <1>7 DEF TakesOver, ResumeLost, Prepared, NotUp, Withdrawn, ItsTurn, AtPc, Idle, CallOK
  <2>2. QED
    BY <1>6, <1>7, <2>1 DEF TakesOver, ResumeLost, Prepared, NotUp, Withdrawn
<1>8. CASE Recovered(c) \/ Started(c)
  <2>1. ~Idle(c) /\ ~AtPc(c, "boot") /\ calls[c] \in CallRecords /\ calls[c].agent \in Agents
        /\ calls[c].session \in Known
    BY <1>8 DEF Recovered, Started, ItsTurn, AtPc, Idle, CallOK, CallRecords
  <2>2. CASE Fails(c)
    BY <1>6, <2>1, <2>2
  <2>3. CASE EndCall(c) /\ \E s \in Known : row' \in {row, AfterSuccess(calls[c], row, s)}
    <3>1. row'.generation = row.generation
      BY <2>1, <2>3, SucceededRow
    <3>2. QED
      BY <2>3, <3>1, OnlyOne DEF Ends
  <2>4. QED
    BY <1>8, <2>1, <2>2, <2>3 DEF Recovered, Started
<1>9. CASE Checked(c) \/ Resumed(c)
  <2>1. row'.generation = row.generation /\ EndCall(c)
    BY <1>9, AnswerRow DEF Checked, Resumed, AtPc
  <2>2. QED
    BY <2>1, OnlyOne DEF Ends
<1>10. CASE Registered(c)
  <2>1. ~Idle(c) /\ ~AtPc(c, "boot") /\ Active(c) /\ calls[c] \in CallRecords
    BY <1>10 DEF Registered, AtPc, Idle, CallOK, Active
  <2>2. CASE Fails(c)
    BY <1>6, <2>1, <2>2
  <2>3. CASE /\ calls' = [calls EXCEPT ![c].pc = "yield", ![c].session = Fresh]
             /\ row' \in {Verifying(Fresh), Verified(Fresh, row.agent)}
    <3>1. row'.generation = row.generation
      BY <2>3 DEF Verifying, Verified, Rows
    <3>2. calls'[c] = [calls[c] EXCEPT !.pc = "yield", !.session = Fresh] /\ Alone(c)
      BY <2>3, OnlyOne DEF Alone
    <3>3. QED
      BY <2>1, <3>1, <3>2 DEF GoesOn, CallRecords
  <2>4. QED
    BY <1>10, <2>2, <2>3 DEF Registered
<1>11. CASE CommitSwitch(c)
  <2>1. row'.generation = row.generation
    BY <1>11, CommittedRow
  <2>2. QED
    BY <1>11, <2>1, OnlyOne DEF CommitSwitch, Ends
<1>12. ASSUME NEW agent \in Agents, BeginSwitch(c, agent) PROVE Begins(c)
  <2>1. row'.generation = row.generation + 1
    <3>1. Begun(row, agent, selected).generation = row.generation + 1
      BY BegunRow
    <3>2. QED
      BY <1>12, <3>1 DEF BeginSwitch
  <2>2. calls' = [calls EXCEPT ![c] = [Call("switch", agent, row', selected) EXCEPT
                    !.pc = "prepare", !.old = FirstOf(selected), !.was = bound]]
    BY <1>12 DEF BeginSwitch
  <2>3. /\ Alone(c) /\ calls'[c].kind = "switch" /\ calls'[c].pc = "prepare"
        /\ calls'[c].generation = row'.generation /\ calls'[c].owed
    BY <2>2, OnlyOne DEF Alone, Call, NoCall
  <2>4. QED
    BY <1>12, <2>1, <2>3 DEF BeginSwitch, Begins
<1>13. QED
  BY <1>1, <1>2, <1>3, <1>4, <1>5, <1>7, <1>8, <1>9, <1>10, <1>11, <1>12 DEF StartSteps

\* No call is younger than the row, and no two are of the same generation; a start, or a
\* call of boot, that is of the row's generation is the only call.
Numbered ==
    /\ \A c \in Calls : Active(c) => calls[c].generation <= row.generation
    /\ \A c \in Calls : calls[c].pc \in {"resume", "check"} =>
         calls[c].generation <= calls[c].seen /\ calls[c].seen <= row.generation
    /\ \A c, d \in Calls : Active(c) /\ Active(d) /\ c # d =>
         calls[c].generation # calls[d].generation
    /\ \A c, d \in Calls :
         Active(c) /\ calls[c].kind # "switch" /\ calls[c].generation = row.generation =>
            c = d \/ Idle(d)

\* All calls but one are switches; after a reboot there is only that of boot.
OneStart ==
    /\ \A c, d \in Calls :
         calls[c].kind \notin {"none", "switch"} /\ calls[d].kind \notin {"none", "switch"} => c = d
    /\ \A c, d \in Calls : calls[c].kind = "reboot" => c = d \/ Idle(d)

Rebooted == Rebooting => live = <<>> /\ At("idle")

Ages == Numbered /\ OneStart /\ Rebooted

\* A rollover leaves the calls alone, and is not idle.
LEMMA RollCalls ==
    ASSUME Types, RollSteps
    PROVE  /\ UNCHANGED <<calls, selected, policy>> /\ row'.generation = row.generation
           /\ ~At("idle")
           /\ row' = row \/ row'.phase \in {"starting", "healthy", "unhealthy"}
<1>1. /\ row.generation \in Nat /\ row \in Rows
  BY TypeFacts
<1>2. CASE \/ BeginHandoff \/ SaveSummary \/ WriteMemory \/ AnnounceCreation \/ AskForCreation
           \/ NobodyToAsk \/ CreationAnswered \/ CreationFailed \/ ResumeTarget \/ SourceRefuses
           \/ CompleteHandoff \/ DividerLost \/ CancelRollover
  BY <1>2 DEF BeginHandoff, SaveSummary, WriteMemory, AnnounceCreation, AskForCreation,
       NobodyToAsk, CreationAnswered, CreationFailed, ResumeTarget, SourceRefuses,
       CompleteHandoff, DividerLost, CancelRollover, runtimeVars, aside, At
<1>3. CASE VerifyTarget \/ TargetNotReady \/ StopSource
  BY <1>1, <1>3 DEF VerifyTarget, TargetNotReady, StopSource, Fenced, Verifying, Unready, aside,
       At, Rows
<1>4. CASE BindTarget
  BY <1>1, <1>4 DEF BindTarget, Verified, aside, At, Rows
<1>5. QED
  BY <1>2, <1>3, <1>4 DEF RollSteps

\* Generations are numbers; a call is of no kind where it has no place.
LEMMA CallNumbers ==
    ASSUME Types
    PROVE  /\ row.generation \in Nat
           /\ \A d \in Calls : calls[d].generation \in Nat /\ calls[d].seen \in Nat
           /\ \A d \in Calls : calls[d].kind = "none" <=> calls[d].pc = "none"
           /\ \A d \in Calls : calls[d].kind = "reboot" <=> calls[d].pc = "boot"
  BY TypeFacts DEF CallOK, CallRecords

\* The generations of the calls stay in order when one ends, ...
LEMMA AgesEnds ==
    ASSUME Types, Types', Numbered, OneStart, NEW c \in Calls, Ends(c)
    PROVE  Numbered' /\ OneStart'
<1>1. /\ calls'[c].kind = "none" /\ calls'[c].pc = "none"
      /\ \A d \in Calls \ {c} : calls'[d] = calls[d]
      /\ row.generation <= row'.generation
  BY DEF Ends, Alone, NoCall
<1>2. /\ row.generation \in Nat /\ row'.generation \in Nat
      /\ \A d \in Calls : calls[d].generation \in Nat /\ calls[d].seen \in Nat
  BY CallNumbers DEF Types, RuntimeOK, Rows
<1>3. Numbered'
  BY <1>1, <1>2 DEF Numbered, Active, Idle
<1>4. OneStart'
  BY <1>1 DEF OneStart, Idle
<1>5. QED
  BY <1>3, <1>4

\* ... goes on ...
LEMMA AgesGoesOn ==
    ASSUME Types, Types', Numbered, OneStart, NEW c \in Calls, GoesOn(c)
    PROVE  Numbered' /\ OneStart'
<1>1. /\ Active(c) /\ row'.generation = row.generation
      /\ \A d \in Calls : /\ calls'[d].kind = calls[d].kind
                         /\ calls'[d].generation = calls[d].generation
      /\ \A d \in Calls \ {c} : calls'[d] = calls[d]
  BY DEF GoesOn, Alone
<1>2. /\ row.generation \in Nat
      /\ \A d \in Calls : calls[d].generation \in Nat /\ calls[d].seen \in Nat
  BY CallNumbers
<1>3. \A d \in Calls : calls'[d].pc \in {"resume", "check"} =>
         calls'[d].generation <= calls'[d].seen /\ calls'[d].seen <= row'.generation
  <2>1. ASSUME NEW d \in Calls \ {c}, calls'[d].pc \in {"resume", "check"}
        PROVE  calls'[d].generation <= calls'[d].seen /\ calls'[d].seen <= row'.generation
    BY <1>1, <2>1 DEF Numbered
  <2>2. ASSUME calls'[c].pc \in {"resume", "check"}
        PROVE  calls'[c].generation <= calls'[c].seen /\ calls'[c].seen <= row'.generation
    BY <1>1, <1>2, <2>2 DEF Numbered, GoesOn
  <2>3. QED
    BY <2>1, <2>2
<1>4. Numbered'
  BY <1>1, <1>3 DEF Numbered, Active, Idle
<1>5. OneStart'
  BY <1>1 DEF OneStart, Idle
<1>6. QED
  BY <1>4, <1>5

\* ... or begins, ...
LEMMA AgesBegins ==
    ASSUME Types, Types', Numbered, OneStart, NEW c \in Calls, Begins(c)
    PROVE  Numbered' /\ OneStart'
<1>1. /\ calls'[c].generation = row'.generation /\ row.generation <= row'.generation
      /\ calls'[c].pc \in {"resume", "check"} => calls'[c].seen = row'.generation
      /\ \A d \in Calls \ {c} : calls'[d] = calls[d]
  BY DEF Begins, Alone
<1>2. /\ row.generation \in Nat /\ row'.generation \in Nat
      /\ \A d \in Calls : calls[d].generation \in Nat /\ calls[d].seen \in Nat
      /\ \A d \in Calls : calls[d].kind = "none" <=> calls[d].pc = "none"
  BY CallNumbers DEF Types, RuntimeOK, Rows
<1>3. CASE calls'[c].kind \in {"start", "boot", "back"} /\ \A d \in Calls \ {c} : Idle(d)
  <2>1. \A d \in Calls \ {c} : calls'[d].kind = "none" /\ calls'[d].pc = "none"
    BY <1>1, <1>2, <1>3 DEF Idle
  <2>2. Numbered'
    BY <1>1, <1>2, <2>1 DEF Numbered, Active, Idle
  <2>3. OneStart'
    BY <1>3, <2>1 DEF OneStart, Idle
  <2>4. QED
    BY <2>2, <2>3
<1>4. CASE calls'[c].kind = "switch" /\ Idle(c) /\ ~Rebooting
           /\ row'.generation = row.generation + 1
  <2>1. \A d \in Calls \ {c} : Active(d) => calls[d].generation < row'.generation
    BY <1>2, <1>4 DEF Numbered
  <2>2. \A d \in Calls : calls[d].kind # "reboot"
    BY <1>4 DEF Rebooting
  <2>3. Numbered'
    <3>1. \A d \in Calls : Active(d)' => calls'[d].generation <= row'.generation
      BY <1>1, <1>2, <2>1 DEF Active
    <3>2. \A d \in Calls : calls'[d].pc \in {"resume", "check"} =>
            calls'[d].generation <= calls'[d].seen /\ calls'[d].seen <= row'.generation
      BY <1>1, <1>2 DEF Numbered
    <3>3. \A d, e \in Calls : Active(d)' /\ Active(e)' /\ d # e =>
            calls'[d].generation # calls'[e].generation
      BY <1>1, <1>2, <2>1 DEF Active, Numbered
    <3>4. \A d \in Calls : ~(Active(d)' /\ calls'[d].kind # "switch"
                                         /\ calls'[d].generation = row'.generation)
      BY <1>1, <1>2, <1>4, <2>1 DEF Active
    <3>5. QED
      BY <3>1, <3>2, <3>3, <3>4 DEF Numbered
  <2>4. OneStart'
    BY <1>1, <1>4, <2>2 DEF OneStart, Idle
  <2>5. QED
    BY <2>3, <2>4
<1>5. QED
  BY <1>3, <1>4 DEF Begins, NoneInFlight, OneStart

\* ... which is all a step does to them.
LEMMA AgesStep ==
    ASSUME Types, Types', Numbered, OneStart, Next
    PROVE  Numbered' /\ OneStart'
<1>1. CASE UNCHANGED calls /\ row'.generation \in {row.generation, row.generation + 1}
  <2>1. /\ row.generation \in Nat
        /\ \A d \in Calls : calls[d].generation \in Nat /\ calls[d].seen \in Nat
    BY CallNumbers
  <2>2. QED
    BY <1>1, <2>1 DEF Numbered, OneStart, Active, Idle
<1>2. CASE RollSteps
  BY <1>1, <1>2, RollCalls
<1>3. CASE RollBack
  <2>1. row'.generation = row.generation + 1
    <3> DEFINE b == Begun(row, row.lastGood, row.lastGood)
    <3>3. row \in Rows /\ row.lastGood \in Agents
      BY TypeFacts
    <3>1. b \in Rows /\ b.generation = row.generation + 1
      BY <3>3, BegunRow
    <3>2. row' = [b EXCEPT !.phase = "rolled_back", !.due = FALSE, !.session = bound,
                           !.candidate = row.candidate]
      BY <1>3 DEF RollBack
    <3> HIDE DEF b
    <3>4. QED
      BY <3>1, <3>2 DEF Rows
  <2>2. QED
    BY <1>1, <1>3, <2>1 DEF RollBack
<1>4. CASE \/ TurnBegins \/ (\E s \in Sessions : TurnEnds(s))
           \/ \E agent \in Agents : SelectAgent(agent)
  BY <1>1, <1>4 DEF TurnBegins, TurnEnds, SelectAgent
<1>5. CASE Crash
  <2>1. PICK c \in Calls : calls' = [d \in Calls |-> IF d = c THEN Reboot ELSE NoCall]
    BY <1>5 DEF Crash
  <2>2. /\ calls'[c].kind = "reboot" /\ calls'[c].pc = "boot"
        /\ \A d \in Calls \ {c} : calls'[d].kind = "none" /\ calls'[d].pc = "none"
    BY <2>1 DEF Reboot, NoCall
  <2>3. QED
    BY <2>2 DEF Numbered, OneStart, Active, Idle
<1>6. ASSUME NEW c \in Calls,
             StartSteps(c) \/ BootRollsBack(c) \/ BootResumes(c) \/ BootIgnores(c)
      PROVE  Numbered' /\ OneStart'
  BY <1>6, CallEffects, AgesEnds, AgesGoesOn, AgesBegins
<1>7. QED
  BY <1>2, <1>3, <1>4, <1>5, <1>6 DEF Next

\* While boot has not started the Captain, nothing but the environment can act.
LEMMA RebootedStep ==
    ASSUME Types, OneStart, Rebooted, Next
    PROVE  Rebooted'
<1>1. CASE ~Rebooting
  <2>1. CASE Crash
    BY <2>1 DEF Crash, Rebooted, At, NoRoll
  <2>2. CASE ~Crash
    <3>1. ~Rebooting'
      <4>1. CASE UNCHANGED calls
        BY <1>1, <4>1 DEF Rebooting
      <4>2. ASSUME NEW c \in Calls, Ends(c) \/ GoesOn(c) \/ Begins(c) PROVE ~Rebooting'
        BY <1>1, <4>2 DEF Rebooting, Ends, GoesOn, Begins, Alone, NoCall
      <4>3. CASE RollSteps
        BY <4>1, <4>3, RollCalls
      <4>4. QED
        BY <2>2, <4>1, <4>2, <4>3, CallEffects
           DEF Next, RollBack, SelectAgent, TurnBegins, TurnEnds
    <3>2. QED
      BY <3>1 DEF Rebooted
  <2>3. QED
    BY <2>1, <2>2
<1>2. CASE Rebooting
  <2>1. live = <<>> /\ At("idle") /\ Current = None /\ \A s : ~IsLive(s)
    BY <1>2 DEF Rebooted, Current, IsLive
  <2>2. PICK c \in Calls : calls[c].kind = "reboot" /\ \A d \in Calls \ {c} : Idle(d)
    BY <1>2 DEF Rebooting, OneStart
  <2>3. calls[c].pc = "boot" /\ \A d \in Calls \ {c} : calls[d].pc = "none"
    BY <2>2, CallNumbers DEF Idle
  <2>4. ~RollSteps
    BY <2>1, RollCalls
  <2>5. ASSUME NEW d \in Calls PROVE ~StartSteps(d)
    <3>1. calls[d].pc \in {"boot", "none"} /\ ~calls[d].owed
      BY <2>2, <2>3, TypeFacts DEF CallOK, Idle
    <3>2. ~NoneInFlight
      BY <2>2 DEF NoneInFlight, Idle
    <3>3. QED
      BY <1>2, <3>1, <3>2
         DEF StartSteps, Ask, Expire, Released, TakesOver, Recovered, Checked, Resumed,
             ResumeLost, Prepared, Registered, NotUp, Withdrawn, Started, CommitSwitch,
             BeginSwitch, AtPc, ItsTurn
  <2>6. CASE RollBack \/ (\E agent \in Agents : SelectAgent(agent)) \/ TurnBegins
             \/ \E s \in Sessions : TurnEnds(s)
    BY <2>1, <2>6 DEF RollBack, SelectAgent, TurnBegins, TurnEnds, Rebooted, rollVars, At
  <2>7. CASE Crash
    BY <2>7 DEF Crash, Rebooted, At, NoRoll
  <2>8. ASSUME NEW d \in Calls, BootRollsBack(d) \/ BootResumes(d) \/ BootIgnores(d)
        PROVE  Rebooted'
    <3>1. d = c
      BY <2>3, <2>8 DEF BootRollsBack, BootResumes, BootIgnores, AtPc
    <3>2. calls'[c].kind # "reboot" /\ \A e \in Calls \ {c} : calls'[e] = calls[e]
      <4>1. Ends(c) \/ GoesOn(c) \/ Begins(c)
        BY <2>8, <3>1, CallEffects
      <4>2. QED
        BY <2>2, <4>1 DEF Ends, GoesOn, Begins, Alone, Active, NoCall
    <3>3. QED
      BY <2>2, <3>2 DEF Rebooted, Rebooting, Idle
  <2>9. QED
    BY <2>4, <2>5, <2>6, <2>7, <2>8 DEF Next
<1>3. QED
  BY <1>1, <1>2

\* There are no calls at first.
LEMMA InitAges == ASSUME Init PROVE Ages
<1>1. \A c \in Calls : calls[c] = NoCall
  BY DEF Init
<1>2. QED
  BY <1>1 DEF Ages, Numbered, OneStart, Rebooted, Rebooting, Active, Idle, NoCall

\* The generations of the calls are in order always.
LEMMA AlwaysAges == Spec => []Ages
<1>1. Types /\ Types' /\ Ages /\ [Next]_vars => Ages'
  <2>1. ASSUME Ages, UNCHANGED vars PROVE Ages'
    BY <2>1 DEF vars, runtimeVars, rollVars, Ages, Numbered, OneStart, Rebooted, Rebooting,
                Active, Idle, At
  <2>2. QED
    BY <2>1, AgesStep, RebootedStep DEF Ages
<1>2. Init => Ages
  BY InitAges
<1>3. QED
  BY <1>1, <1>2, AlwaysTypes, PTL DEF Spec

\* A cancellation leaves a rollover where it is.
LEMMA RollPc ==
    ASSUME Types
    PROVE  /\ Cancelled \in RollRecords /\ Cancelled.pc = roll.pc /\ Cancelled.key = roll.key
           /\ Cancelled.source = roll.source /\ Cancelled.byStart = roll.byStart
           /\ Cancelled.agent = roll.agent /\ Cancelled.base = roll.base
           /\ Cancelled.seen = roll.seen
           /\ ~At("idle") => Cancelled.aborted
  BY DEF Types, RollOK, Cancelled, RollRecords

------------------------------------------------------------------------------
(* A row that says starting is answered for. *)

\* The call will say what became of the row's start while its caller waits: it fails, is
\* given up or goes on, from its last wait only as a switch.
Answers(c) ==
    /\ Active(c) /\ calls[c].generation = row.generation
    /\ calls[c].owed
    /\ AtPc(c, "yield") => calls[c].kind = "switch"
    /\ AtPc(c, "recover") => roll.pc \notin {"divide", "done"}

\* A replacement was verified and may not be bound yet.
Waits == roll.pc \notin {"divide", "done"} /\ \E s \in Sessions : handoff[s].state = "created"

\* A switch whose caller does not wait any more has lost the row.
SwitchesAreOwed == \A c \in Calls : calls[c].kind = "switch" /\ Owns(c) => calls[c].owed

StartsAreAnswered ==
    row.phase = "starting" => (\E c \in Calls : Answers(c)) \/ Rebooting \/ Waits

\* The row stays with the calls that answered for it, all but one perhaps.
LEMMA OthersAnswer ==
    ASSUME Types, StartsAreAnswered, NEW c \in Calls, Alone(c), UNCHANGED row,
           row.phase = "starting" => ~Answers(c) /\ calls[c].kind # "reboot",
           roll'.pc \in {"divide", "done"} => roll'.pc = roll.pc,
           UNCHANGED handoff
    PROVE  StartsAreAnswered'
<1> SUFFICES ASSUME row.phase = "starting"
             PROVE  (\E d \in Calls : Answers(d)') \/ Rebooting' \/ Waits'
  BY DEF StartsAreAnswered
<1>1. \A d \in Calls \ {c} : calls'[d] = calls[d]
  BY DEF Alone
<1>2. ASSUME NEW d \in Calls, Answers(d) PROVE Answers(d)'
  BY <1>1, <1>2 DEF Answers, Active, AtPc
<1>3. Rebooting => Rebooting'
  BY <1>1 DEF Rebooting
<1>4. Waits => Waits'
  BY DEF Waits
<1>5. QED
  BY <1>2, <1>3, <1>4 DEF StartsAreAnswered

\* A call that answered for the row and goes on still does.
LEMMA AnswersOn ==
    ASSUME Types, StartsAreAnswered, NEW c \in Calls, Alone(c), UNCHANGED row,
           Answers(c) => Answers(c)',
           calls[c].kind # "reboot",
           roll'.pc \in {"divide", "done"} => roll'.pc = roll.pc,
           UNCHANGED handoff
    PROVE  StartsAreAnswered'
<1>1. CASE Answers(c)
  BY <1>1 DEF StartsAreAnswered
<1>2. CASE ~Answers(c)
  BY <1>2, OthersAnswer
<1>3. QED
  BY <1>1, <1>2

\* A call fails: if it answered for the row, the row says so.
LEMMA FailsAnswered ==
    ASSUME Types, StartsAreAnswered, NEW c \in Calls, ~Idle(c), ~AtPc(c, "boot"), Fails(c),
           Answers(c) /\ row.phase = "starting" => calls[c].owed,
           roll'.pc \in {"divide", "done"} => roll'.pc = roll.pc, UNCHANGED handoff
    PROVE  StartsAreAnswered'
<1>1. Ends(c) /\ Alone(c) /\ calls[c].kind # "reboot"
  BY FailsRow, CallNumbers DEF Ends, AtPc
<1>2. CASE row'.phase \in Over
  BY <1>2 DEF StartsAreAnswered, Over
<1>3. CASE row' = row /\ row'.phase \notin Over
  <2>1. ~(calls[c].owed /\ calls[c].generation = row.generation)
    BY <1>3, FailsRow
  <2>2. row.phase = "starting" => ~Answers(c)
    BY <2>1 DEF Answers
  <2>3. QED
    BY <1>1, <1>3, <2>2, OthersAnswer
<1>4. QED
  BY <1>2, <1>3, FailsRow

\* Every step of a call keeps it.
LEMMA CallsAnswered ==
    ASSUME Types, Ages, SwitchesAreOwed, StartsAreAnswered, NEW c \in Calls,
           StartSteps(c) \/ BootRollsBack(c) \/ BootResumes(c) \/ BootIgnores(c)
    PROVE  StartsAreAnswered'
<1>1. CASE BootIgnores(c)
  BY <1>1 DEF BootIgnores, StartsAreAnswered, runtimeVars
<1>2. ASSUME NEW call, NEW r, Enter(c, call, r), Starts(call), call.old = None, call.was = None,
             r \in Rows, r.session <= Len(made), r.generation \in Nat,
             call.kind \in {"start", "boot", "back"}, call.owed, call.generation = r.generation
      PROVE  StartsAreAnswered'
  <2>1. CASE row'.phase \in Over
    BY <2>1 DEF StartsAreAnswered, Over
  <2>2. CASE /\ calls'[c].generation = r.generation /\ row'.generation = r.generation
             /\ calls'[c].kind = call.kind /\ calls'[c].owed
             /\ calls'[c].pc \in {"turn", "resume", "prepare", "check", "release"}
    BY <1>2, <2>2 DEF StartsAreAnswered, Answers, Active, AtPc
  <2>3. QED
    BY <1>2, <2>1, <2>2, EnterBegins
<1>3. CASE Ask(c)
  BY <1>2, <1>3, AskEnters
<1>4. CASE BootRollsBack(c) \/ BootResumes(c)
  <2>1. PICK call, r :
          /\ Enter(c, call, r) /\ Starts(call) /\ call.old = None /\ call.was = None
          /\ r \in Rows /\ r.session <= Len(made) /\ r.generation \in Nat
          /\ row.generation <= r.generation
          /\ call.kind \in {"boot", "back"} /\ call.generation = r.generation /\ call.owed
    BY <1>4, BootEnters
  <2>2. QED
    BY <1>2, <2>1
<1> DEFINE Settled == /\ roll'.pc \in {"divide", "done"} => roll'.pc = roll.pc
                      /\ UNCHANGED handoff
<1>5. CASE Expire(c)
  <2>1. /\ calls[c] \in CallRecords /\ calls[c].agent \in Agents /\ calls[c].previous \in Agents
        /\ calls[c].kind # "reboot" /\ row \in Rows
    BY <1>5, TypeFacts DEF Expire, CallOK
  <2>2. row' = AfterFailure(calls[c], row, "timed_out")
    BY <1>5 DEF Expire
  <2>3. row' = row \/ row'.phase \in Over
    BY <2>1, <2>2, FailedRow
  <2>4. calls[c].generation = row.generation => row'.phase \in Over
    BY <2>1, <2>2, FailedRow
  <2>5. CASE row'.phase \in Over
    BY <2>5 DEF StartsAreAnswered, Over
  <2>6. CASE row' = row /\ calls[c].generation # row.generation
    <3>1. Alone(c) /\ Settled
      BY <1>5, OnlyOne DEF Expire, Alone, rollVars
    <3>2. QED
      BY <2>1, <2>6, <3>1, OthersAnswer DEF Answers
  <2>7. QED
    BY <2>3, <2>4, <2>5, <2>6
<1>6. CASE Released(c)
  <2>1. calls[c] \in CallRecords /\ calls[c].kind # "reboot" /\ UNCHANGED row /\ Settled
    BY <1>6, TypeFacts DEF Released, CallOK, AtPc, rollVars
  <2>2. CASE bound # None /\ keyed \in {NoAgent, calls[c].agent}
    <3>1. calls' = [calls EXCEPT ![c] =
            [calls[c] EXCEPT !.pc = "resume", !.session = bound, !.seen = row'.generation]]
      BY <1>6, <2>2 DEF Released, Open
    <3>2. /\ Alone(c) /\ calls'[c].pc = "resume" /\ calls'[c].kind = calls[c].kind
          /\ calls'[c].generation = calls[c].generation /\ calls'[c].owed = calls[c].owed
      BY <2>1, <3>1, OnlyOne DEF Alone, CallRecords
    <3>3. Answers(c) => Answers(c)'
      BY <1>6, <2>1, <3>2 DEF Answers, Active, AtPc, Released
    <3>4. QED
      BY <2>1, <3>2, <3>3, AnswersOn
  <2>3. CASE ~(bound # None /\ keyed \in {NoAgent, calls[c].agent})
    <3>1. calls' = [calls EXCEPT ![c] = [calls[c] EXCEPT !.pc = "prepare"]]
      BY <1>6, <2>3 DEF Released, Open
    <3>2. /\ Alone(c) /\ calls'[c].pc = "prepare" /\ calls'[c].kind = calls[c].kind
          /\ calls'[c].generation = calls[c].generation /\ calls'[c].owed = calls[c].owed
      BY <2>1, <3>1, OnlyOne DEF Alone, CallRecords
    <3>3. Answers(c) => Answers(c)'
      BY <1>6, <2>1, <3>2 DEF Answers, Active, AtPc, Released
    <3>4. QED
      BY <2>1, <3>2, <3>3, AnswersOn
  <2>4. QED
    BY <2>2, <2>3
<1>7. ASSUME ~Idle(c), ~AtPc(c, "boot"), ~AtPc(c, "yield"), Settled,
             \/ Fails(c)
             \/ /\ UNCHANGED row
                /\ \E pc \in {"recover", "prepare", "creating"} : Proceed(c, pc)
                /\ roll'.pc \notin {"divide", "done"} \/ ~Proceed(c, "recover")
      PROVE  StartsAreAnswered'
  <2>1. CASE Fails(c)
    <3>1. Answers(c) => calls[c].owed
      BY <1>7 DEF Answers
    <3>2. QED
      BY <1>7, <2>1, <3>1, FailsAnswered
  <2>2. ASSUME NEW pc \in {"recover", "prepare", "creating"}, Proceed(c, pc), UNCHANGED row,
               roll'.pc \notin {"divide", "done"} \/ pc # "recover"
        PROVE  StartsAreAnswered'
    <3>1. Alone(c) /\ calls'[c] = [calls[c] EXCEPT !.pc = pc] /\ calls[c] \in CallRecords
      BY <2>2, OnlyOne, TypeFacts DEF CallOK
    <3>2. Answers(c) => Answers(c)'
      BY <1>7, <2>2, <3>1 DEF Answers, Active, AtPc, CallRecords
    <3>3. calls[c].kind # "reboot"
      BY <1>7, CallNumbers DEF AtPc
    <3>4. QED
      BY <1>7, <2>2, <3>1, <3>2, <3>3, AnswersOn
  <2>3. QED
    BY <1>7, <2>1, <2>2
<1>8. CASE TakesOver(c) \/ ResumeLost(c) \/ Prepared(c) \/ NotUp(c)
  <2>1. ~Idle(c) /\ ~AtPc(c, "boot") /\ ~AtPc(c, "yield")
    BY <1>8, CallNumbers DEF TakesOver, ResumeLost, Prepared, NotUp, AtPc, Idle
  <2>2. Settled
    BY <1>8 DEF TakesOver, ResumeLost, Prepared, NotUp, rollVars, NoRoll
  <2>3. CASE TakesOver(c)
    <3>1. CASE Fails(c)
      BY <1>7, <2>1, <2>2, <3>1
    <3>2. CASE UNCHANGED row /\ Proceed(c, "recover") /\ roll'.pc = "begin"
      BY <1>7, <2>1, <2>2, <3>2
    <3>3. QED
      BY <2>3, <3>1, <3>2 DEF TakesOver, NoRoll
  <2>4. CASE ResumeLost(c) \/ Prepared(c) \/ NotUp(c)
    <3>1. \/ Fails(c)
          \/ UNCHANGED row /\ \E pc \in {"prepare", "creating"} : Proceed(c, pc)
      BY <2>4 DEF ResumeLost, Prepared, NotUp
    <3>2. \A pc \in {"prepare", "creating"} : Proceed(c, pc) => ~Proceed(c, "recover")
      <4>1. calls[c] \in CallRecords
        BY TypeFacts DEF CallOK
      <4>2. ASSUME NEW pc, Proceed(c, pc) PROVE calls'[c].pc = pc
        <5>1. calls'[c] = [calls[c] EXCEPT !.pc = pc]
          BY <4>2, OnlyOne
        <5>2. QED
          BY <4>1, <5>1 DEF CallRecords
      <4>3. QED
        BY <4>2
    <3>3. QED
      BY <1>7, <2>1, <2>2, <3>1, <3>2
  <2>5. QED
    BY <1>8, <2>3, <2>4
<1>9. CASE Recovered(c)
  <2>1. /\ AtPc(c, "recover") /\ ~Idle(c) /\ ~AtPc(c, "boot") /\ ~AtPc(c, "yield") /\ Settled
        /\ calls[c].kind # "reboot" /\ calls[c] \in CallRecords /\ calls[c].agent \in Agents
    BY <1>9, CallNumbers, TypeFacts DEF Recovered, AtPc, Idle, NoRoll, CallOK
  <2>2. CASE Fails(c)
    BY <1>7, <2>1, <2>2
  <2>3. CASE /\ At("done") /\ EndCall(c)
             /\ row' = IF calls[c].owed THEN AfterSuccess(calls[c], row, bound) ELSE row
    <3>1. AfterSuccess(calls[c], row, bound) = row
            \/ AfterSuccess(calls[c], row, bound).phase = "rolled_back"
      BY <2>1, SucceededRow, TypeFacts
    <3>2. CASE row'.phase = "rolled_back"
      BY <3>2 DEF StartsAreAnswered
    <3>3. CASE row' = row
      BY <2>1, <2>3, <3>3, OnlyOne, OthersAnswer DEF Answers, At
    <3>4. QED
      BY <2>3, <3>1, <3>2, <3>3
  <2>4. QED
    BY <1>9, <2>2, <2>3 DEF Recovered, At
<1>10. CASE Checked(c) \/ Resumed(c)
  <2>1. /\ calls[c].pc \in {"check", "resume"} /\ EndCall(c) /\ Settled
        /\ calls[c].kind # "reboot" /\ calls[c].generation <= calls[c].seen
        /\ calls[c].seen <= row.generation
        /\ calls[c].generation \in Nat /\ calls[c].seen \in Nat /\ row.generation \in Nat
    BY <1>10, CallNumbers, RollPc DEF Checked, Resumed, AtPc, rollVars, Ages, Numbered
  <2>2. /\ \/ row' = row
           \/ row'.phase \in Over
           \/ calls[c].seen = row.generation /\ row'.phase \in {"healthy", "unhealthy"}
        /\ row.phase = "starting" /\ calls[c].seen = row.generation => row'.phase # "starting"
    BY <1>10, <2>1, AnswerRow DEF Checked, Resumed
  <2>3. CASE row' = row /\ row.phase = "starting"
    <3>1. calls[c].generation # row.generation
      BY <2>1, <2>2, <2>3
    <3>2. QED
      BY <2>1, <2>3, <3>1, OnlyOne, OthersAnswer DEF Answers
  <2>4. CASE row'.phase # "starting"
    BY <2>4 DEF StartsAreAnswered
  <2>5. QED
    BY <2>2, <2>3, <2>4 DEF Over
<1>11. CASE Registered(c)
  <2>1. /\ AtPc(c, "creating") /\ ~Idle(c) /\ ~AtPc(c, "boot") /\ ~AtPc(c, "yield")
        /\ calls[c] \in CallRecords /\ Active(c)
    BY <1>11, CallNumbers, TypeFacts DEF Registered, AtPc, Idle, CallOK, Active
  <2>2. CASE Fails(c) /\ roll' = Cancelled
    <3>1. Settled
      BY <1>11, <2>2, RollPc DEF Registered
    <3>2. QED
      BY <1>7, <2>1, <2>2, <3>1
  <2>3. CASE /\ Owns(c) /\ UNCHANGED roll
             /\ calls' = [calls EXCEPT ![c].pc = "yield", ![c].session = Fresh]
             /\ IF calls[c].kind = "switch" THEN row' = Verifying(Fresh)
                                            ELSE row' = Verified(Fresh, row.agent)
    <3>1. calls'[c] = [calls[c] EXCEPT !.pc = "yield", !.session = Fresh]
      BY <2>3, OnlyOne
    <3>2. CASE calls[c].kind = "switch"
      <4>1. row'.generation = row.generation
        BY <2>3, <3>2, TypeFacts DEF Verifying, Rows
      <4>5. calls[c].generation = row.generation /\ calls[c].owed
        BY <2>3, <3>2 DEF Owns, MayStart, SwitchesAreOwed
      <4>6. /\ calls'[c].pc = "yield" /\ calls'[c].kind = calls[c].kind
            /\ calls'[c].generation = calls[c].generation /\ calls'[c].owed = calls[c].owed
        BY <2>1, <3>1 DEF CallRecords
      <4>2. /\ calls'[c].pc = "yield" /\ calls'[c].kind = "switch" /\ calls'[c].owed
            /\ calls'[c].generation = row.generation
        BY <3>2, <4>5, <4>6
      <4>3. Answers(c)'
        BY <4>1, <4>2 DEF Answers, Active, AtPc
      <4>4. QED
        BY <4>3 DEF StartsAreAnswered
    <3>3. CASE calls[c].kind # "switch"
      BY <2>3, <3>3, TypeFacts DEF StartsAreAnswered, Verified, Rows
    <3>4. QED
      BY <3>2, <3>3
  <2>4. QED
    BY <1>11, <2>2, <2>3 DEF Registered
<1>12. CASE Withdrawn(c)
  <2>1. ~Idle(c) /\ ~AtPc(c, "boot") /\ Fails(c) /\ Settled
    BY <1>12, CallNumbers, RollPc DEF Withdrawn, ItsTurn, AtPc, Idle
  <2>2. row.phase = "starting" => ~Answers(c)
    BY <1>12 DEF Withdrawn, Owns, MayStart, Answers, Over
  <2>3. QED
    BY <2>1, <2>2, FailsAnswered
<1>13. CASE Started(c)
  <2>1. /\ EndCall(c) /\ Settled /\ ~Answers(c) /\ calls[c].kind # "reboot"
        /\ calls[c] \in CallRecords /\ calls[c].agent \in Agents /\ calls[c].session \in Known
    BY <1>13, TypeFacts, CallNumbers
       DEF Started, ItsTurn, AtPc, Answers, rollVars, CallOK, CallRecords
  <2>2. row' = row \/ row'.phase = "rolled_back"
    BY <1>13, <2>1, SucceededRow, TypeFacts DEF Started
  <2>3. QED
    BY <2>1, <2>2, OnlyOne, OthersAnswer DEF StartsAreAnswered
<1>14. CASE CommitSwitch(c)
  BY <1>14, CommittedRow DEF StartsAreAnswered
<1>15. ASSUME NEW agent \in Agents, BeginSwitch(c, agent) PROVE StartsAreAnswered'
  <2>1. calls' = [calls EXCEPT ![c] = [Call("switch", agent, row', selected) EXCEPT
                    !.pc = "prepare", !.old = FirstOf(selected), !.was = bound]]
    BY <1>15 DEF BeginSwitch
  <2>2. /\ calls'[c].kind = "switch" /\ calls'[c].pc = "prepare" /\ calls'[c].owed
        /\ calls'[c].generation = row'.generation
    BY <2>1, OnlyOne DEF Call, NoCall
  <2>3. Answers(c)'
    BY <2>2 DEF Answers, Active, AtPc
  <2>4. QED
    BY <2>3 DEF StartsAreAnswered
<1>16. QED
  BY <1>1, <1>3, <1>4, <1>5, <1>6, <1>8, <1>9, <1>10, <1>11, <1>12, <1>13, <1>14, <1>15
     DEF StartSteps

\* The rollover leaves a start that somebody answers for to them, or a replacement to bind.
LEMMA RollAnswered == ASSUME Types, StartsAreAnswered, RollSteps PROVE StartsAreAnswered'
<1>1. /\ UNCHANGED calls /\ row'.generation = row.generation /\ ~At("idle")
      /\ roll \in RollRecords /\ roll.key \in Sessions
      /\ Stands(roll.pc, handoff[roll.key].state)
      /\ handoff \in [Sessions -> [state : HandoffStates, target : Known]]
  BY RollCalls, RollFacts DEF Types, RollOK, HandoffOK
<1>2. ASSUME NEW c \in Calls, Answers(c),
             roll'.pc \notin {"divide", "done"} \/ ~AtPc(c, "recover")
      PROVE  Answers(c)'
  BY <1>1, <1>2 DEF Answers, Active, AtPc
<1>3. \A state : Record(state) =>
        \A s \in Sessions \ {roll.key} : handoff'[s] = handoff[s]
  BY <1>1 DEF Record
<1>4. \A outcome \in {"left", "done"} : End(outcome) => roll'.pc \in {outcome, "idle"}
  BY <1>1 DEF End, NoRoll, RollRecords
<1>5. \A pc : Go(pc) => roll'.pc = pc
  BY <1>1 DEF Go, RollRecords
<1>6. ASSUME UNCHANGED row, roll'.pc \notin {"divide", "done"},
             \A s \in Sessions : handoff[s].state = "created" => handoff'[s].state = "created"
      PROVE  StartsAreAnswered'
  BY <1>1, <1>2, <1>6 DEF StartsAreAnswered, Waits, Rebooting
<1>7. CASE \/ BeginHandoff \/ SaveSummary \/ WriteMemory \/ AnnounceCreation
           \/ AskForCreation \/ NobodyToAsk \/ CreationAnswered \/ CreationFailed
  <2>1. UNCHANGED row
    BY <1>7 DEF BeginHandoff, SaveSummary, WriteMemory, AnnounceCreation, AskForCreation,
                NobodyToAsk, CreationAnswered, CreationFailed, runtimeVars
  <2>2. roll'.pc \notin {"divide", "done"}
    BY <1>4, <1>5, <1>7 DEF BeginHandoff, SaveSummary, WriteMemory, AnnounceCreation,
                AskForCreation, NobodyToAsk, CreationAnswered, CreationFailed
  <2>3. CASE BeginHandoff
    <3>1. handoff[roll.key].state = "created" => UNCHANGED handoff
      BY <2>3 DEF BeginHandoff
    <3>2. UNCHANGED handoff \/ \E state : Record(state)
      BY <2>3 DEF BeginHandoff
    <3>3. \A s \in Sessions : handoff[s].state = "created" => handoff'[s].state = "created"
      BY <1>3, <3>1, <3>2
    <3>4. QED
      BY <1>6, <2>1, <2>2, <3>3
  <2>4. CASE ~BeginHandoff
    <3>1. roll.pc \in {"pending", "summary", "memory", "asking", "creating"}
      BY <1>7, <2>4 DEF SaveSummary, WriteMemory, AnnounceCreation, AskForCreation,
                  NobodyToAsk, CreationAnswered, CreationFailed, At
    <3>2. handoff[roll.key].state # "created"
      BY <1>1, <3>1 DEF Stands
    <3>3. \/ UNCHANGED handoff \/ \E state : Record(state)
          \/ handoff' = [handoff EXCEPT ![roll.key] = [state |-> "created", target |-> Fresh]]
      BY <1>7, <2>4 DEF SaveSummary, WriteMemory, AnnounceCreation, AskForCreation,
                  NobodyToAsk, CreationAnswered, CreationFailed
    <3>4. \A s \in Sessions \ {roll.key} : handoff'[s] = handoff[s]
      BY <1>1, <1>3, <3>3
    <3>5. QED
      BY <1>6, <2>1, <2>2, <3>2, <3>4
  <2>5. QED
    BY <2>3, <2>4
<1>8. CASE \/ ResumeTarget \/ VerifyTarget \/ TargetNotReady \/ StopSource \/ SourceRefuses
           \/ BindTarget
  <2>1. roll.pc \in {"bind", "resume", "verify", "stopping", "stopped"} /\ UNCHANGED handoff
    BY <1>8 DEF ResumeTarget, VerifyTarget, TargetNotReady, StopSource, SourceRefuses,
                BindTarget, At, aside
  <2>2. handoff'[roll.key].state = "created"
    BY <1>1, <2>1 DEF Stands
  <2>3. CASE roll'.pc \notin {"divide", "done"}
    BY <1>1, <2>2, <2>3 DEF StartsAreAnswered, Waits
  <2>4. CASE row' = Verified(Target, row.agent)
    BY <2>4, TypeFacts DEF StartsAreAnswered, Verified, Rows
  <2>5. roll'.pc \notin {"divide", "done"} \/ row' = Verified(Target, row.agent)
    BY <1>1, <1>4, <1>5, <1>8
       DEF ResumeTarget, VerifyTarget, TargetNotReady, StopSource, SourceRefuses, BindTarget,
           RollRecords
  <2>6. QED
    BY <2>3, <2>4, <2>5
<1>9. CASE CompleteHandoff \/ DividerLost
  <2>1. At("divide") /\ UNCHANGED row
    BY <1>9 DEF CompleteHandoff, DividerLost, runtimeVars
  <2>2. \A c \in Calls : Answers(c) => Answers(c)'
    BY <1>1, <2>1 DEF Answers, Active, AtPc, At
  <2>3. ~Waits
    BY <2>1 DEF Waits, At
  <2>4. QED
    BY <1>1, <2>1, <2>2, <2>3 DEF StartsAreAnswered, Rebooting
<1>10. CASE CancelRollover
  <2>1. UNCHANGED <<row, handoff>> /\ roll'.pc = roll.pc
    BY <1>10, RollPc DEF CancelRollover, aside
  <2>2. QED
    BY <1>1, <2>1 DEF StartsAreAnswered, Waits, Rebooting, Answers, Active, AtPc
<1>11. QED
  BY <1>7, <1>8, <1>9, <1>10 DEF RollSteps

\* So does the rest of the environment.
LEMMA OutsideAnswered ==
    ASSUME Types, StartsAreAnswered,
           \/ RollBack \/ (\E agent \in Agents : SelectAgent(agent)) \/ TurnBegins
           \/ (\E s \in Sessions : TurnEnds(s)) \/ Crash
    PROVE  StartsAreAnswered'
<1>1. CASE RollBack
  <2>1. row'.phase = "rolled_back"
    <3>1. Begun(row, row.lastGood, row.lastGood) \in [generation : Nat, agent : Agents,
            candidate : Anyone, lastGood : Agents, session : Known, phase : Phases,
            due : BOOLEAN]
      BY TypeFacts DEF Begun, Rows, Phases, Known, None, Anyone
    <3>2. QED
      BY <1>1, <3>1 DEF RollBack
  <2>2. QED
    BY <2>1 DEF StartsAreAnswered
<1>2. CASE \/ (\E agent \in Agents : SelectAgent(agent)) \/ TurnBegins
           \/ (\E s \in Sessions : TurnEnds(s))
  <2>1. UNCHANGED <<row, calls, handoff>>
    BY <1>2 DEF SelectAgent, TurnBegins, TurnEnds, rollVars
  <2>2. roll'.pc \in {"divide", "done"} => roll'.pc = roll.pc
    <3>1. CASE \E agent \in Agents : SelectAgent(agent)
      BY <3>1, RollPc DEF SelectAgent
    <3>2. CASE TurnBegins \/ \E s \in Sessions : TurnEnds(s)
      BY <3>2 DEF TurnBegins, TurnEnds, rollVars, Considered, NoRoll
    <3>3. QED
      BY <1>2, <3>1, <3>2
  <2>3. QED
    BY <2>1, <2>2 DEF StartsAreAnswered, Waits, Rebooting, Answers, Active, AtPc, At
<1>3. CASE Crash
  <2>1. PICK c \in Calls : calls' = [d \in Calls |-> IF d = c THEN Reboot ELSE NoCall]
    BY <1>3 DEF Crash
  <2>2. calls'[c].kind = "reboot"
    BY <2>1 DEF Reboot, NoCall
  <2>3. QED
    BY <2>2 DEF StartsAreAnswered, Rebooting
<1>4. QED
  BY <1>1, <1>2, <1>3

------------------------------------------------------------------------------
(* Rollovers without switches: one session at most, and it is the bound one. *)

Deserted == \A s \in Sessions : ~IsLive(s)

\* The bound session alone is in the map; a rollover that waits for its stop took it out.
BoundOnly ==
    /\ \A s \in Sessions : IsLive(s) => s = bound
    /\ At("stopping") => roll.source = bound /\ Deserted

\* On its way to a session, or back to one.
Opening == {"release", "prepare", "creating", "resume"}

\* A call that opens a session finds none, and no rollover that would go on.
Fits(call) ==
    /\ call.kind # "switch"
    /\ call.pc \in Opening => Deserted /\ ~At("stopping") /\ (At("idle") \/ roll.aborted)
    /\ call.pc = "resume" => bound = call.session
    /\ call.pc = "recover" => ~At("idle") /\ roll.byStart
    /\ call.pc \in {"turn", "recover"} => call.was \in {None, call.session}

\* Where a rollover needs the session it replaces.
Sourced == {"begin", "pending", "summary", "memory", "asking", "creating", "bind", "resume",
            "verify", "stopped"}

\* A rollover that goes on has its session, unless a start waits for it.
Backed ==
    /\ roll.pc \in Sourced /\ ~roll.byStart /\ ~roll.aborted => IsLive(roll.source)
    /\ At("divide") /\ ~roll.byStart /\ ~roll.aborted => IsLive(Target)
    /\ roll.pc \in {"resume", "verify"} /\ ~roll.aborted =>
         IF roll.byStart THEN bound \in {roll.source, Target, None} ELSE bound = roll.source
    /\ At("stopped") /\ ~roll.aborted => \A s \in Sessions : IsLive(s) => s = Target
    /\ ~At("idle") /\ roll.byStart => roll.base \in {None, roll.source}

Rolling ==
    /\ \A c, d \in Calls : c = d \/ Idle(c) \/ Idle(d)
    /\ \A c \in Calls : Fits(calls[c])
    /\ ~At("idle") /\ roll.byStart => \E c \in Calls : AtPc(c, "recover")
    /\ BoundOnly /\ Backed

\* Without rollover there is none, and no handoff.
Unrolled ==
    /\ At("idle")
    /\ \A s \in Sessions : handoff[s].state = "none"
    /\ \A c \in Calls : calls[c].pc \notin {"turn", "recover"}

Rollovers == IF policy THEN left.switches = 0 /\ Rolling ELSE Unrolled

\* Which sessions a step leaves in the map.
LEMMA LiveMoves ==
    ASSUME Types
    PROVE  /\ \A s : IsLive(s) => s \in Sessions /\ s <= Len(made)
           /\ live = <<>> => \A s : ~IsLive(s)
           /\ live' = live => \A s : IsLive(s)' <=> IsLive(s)
           /\ live' = <<>> => \A s : ~IsLive(s)'
           /\ \A s : live' = Without(s) => \A t : IsLive(t)' <=> IsLive(t) /\ t # s
           /\ \A s : live' = With(s) => \A t : IsLive(t)' <=> IsLive(t) \/ t = s
           /\ \A s : live' = Append(live, s) => \A t : IsLive(t)' <=> IsLive(t) \/ t = s
<1>1. /\ live \in Seq(1 .. Len(made)) /\ Distinct(live) /\ Len(made) \in Nat
      /\ Len(made) <= MaxSessions /\ MaxSessions \in Nat
  BY CaptainAssumption DEF Types, LiveOK, RuntimeOK
<1>2. \A s : IsLive(s) => s \in Sessions /\ s <= Len(made)
  BY <1>1 DEF IsLive, Sessions
<1>3. ASSUME NEW s, live' = Without(s) PROVE \A t : IsLive(t)' <=> IsLive(t) /\ t # s
  <2>1. \A t : Has(RemoveFirst(live, s), t) <=> Has(live, t) /\ t # s
    BY <1>1, TakenOut
  <2>2. QED
    BY <1>3, <2>1 DEF Without, Has, IsLive
<1>4. ASSUME NEW s, live' = Append(live, s) PROVE \A t : IsLive(t)' <=> IsLive(t) \/ t = s
  <2>1. /\ DOMAIN live' = 1 .. Len(live) + 1 /\ DOMAIN live = 1 .. Len(live) /\ Len(live) \in Nat
        /\ live'[Len(live) + 1] = s /\ \A i \in 1 .. Len(live) : live'[i] = live[i]
    BY <1>1, <1>4
  <2>2. QED
    BY <2>1 DEF IsLive
<1>5. ASSUME NEW s, live' = With(s) PROVE \A t : IsLive(t)' <=> IsLive(t) \/ t = s
  <2>1. CASE IsLive(s)
    BY <1>5, <2>1 DEF With, IsLive
  <2>2. CASE ~IsLive(s)
    BY <1>4, <1>5, <2>2 DEF With
  <2>3. QED
    BY <2>1, <2>2
<1>6. QED
  BY <1>2, <1>3, <1>4, <1>5 DEF IsLive

\* A step that adds no session, and takes one only from a rollover it cancels.
LEMMA Loosened ==
    ASSUME Types, Backed, BoundOnly, UNCHANGED <<bound, handoff>>,
           \A s \in Sessions : IsLive(s)' => IsLive(s),
           roll' = NoRoll \/ roll' = Cancelled \/ (roll' = roll /\ live' = live)
    PROVE  Backed' /\ BoundOnly'
<1>1. CASE roll' = NoRoll
  BY <1>1 DEF NoRoll, Backed, BoundOnly, At, Sourced
<1>2. CASE roll' = Cancelled
  <2>1. /\ roll'.pc = roll.pc /\ roll'.source = roll.source /\ roll'.byStart = roll.byStart
        /\ roll'.base = roll.base /\ (At("idle") \/ roll'.aborted)
    BY <1>2, RollPc
  <2>2. BoundOnly'
    BY <2>1 DEF BoundOnly, At, Deserted
  <2>3. Backed'
    BY <2>1 DEF Backed, At, Sourced
  <2>4. QED
    BY <2>2, <2>3
<1>3. CASE roll' = roll /\ live' = live
  BY <1>3 DEF Backed, BoundOnly, At, Deserted, Target, IsLive
<1>4. QED
  BY <1>1, <1>2, <1>3

\* One call is under way; the others are idle and stay so.
LEMMA RollingOf ==
    ASSUME Types, NEW c \in Calls, Alone(c), \A d \in Calls \ {c} : Idle(d),
           Fits(calls[c])', BoundOnly', Backed',
           (~At("idle") /\ roll.byStart)' => AtPc(c, "recover")'
    PROVE  Rolling'
<1>1. \A d \in Calls \ {c} : calls'[d].kind = "none" /\ calls'[d].pc = "none"
  BY CallNumbers DEF Alone, Idle
<1>2. \A d \in Calls : Fits(calls[d])'
  BY <1>1 DEF Fits, Opening
<1>3. QED
  BY <1>1, <1>2 DEF Rolling, Idle

\* The call goes on, or ends, and no session comes.
LEMMA RollingOn ==
    ASSUME Types, Rolling, NEW c \in Calls, ~Idle(c), Alone(c), Fits(calls[c])',
           UNCHANGED <<bound, handoff>>,
           \A s \in Sessions : IsLive(s)' => IsLive(s),
           roll' = NoRoll \/ roll' = Cancelled \/ (roll' = roll /\ live' = live),
           AtPc(c, "recover") => AtPc(c, "recover")' \/ roll' = NoRoll
    PROVE  Rolling'
<1>1. \A d \in Calls \ {c} : Idle(d)
  BY DEF Rolling
<1>2. Backed' /\ BoundOnly'
  BY Loosened DEF Rolling
<1>3. ~At("idle") /\ roll.byStart => AtPc(c, "recover")
  BY <1>1, CallNumbers DEF Rolling, AtPc, Idle
<1>4. (~At("idle") /\ roll.byStart)' => AtPc(c, "recover")'
  BY <1>3, RollPc DEF NoRoll, At
<1>5. QED
  BY <1>1, <1>2, <1>4, RollingOf

\* A call that ended fits.
LEMMA NoneFits == ASSUME NEW c, calls'[c] = NoCall PROVE Fits(calls[c])'
  BY DEF Fits, Opening, NoCall

\* A call ends.
LEMMA RollingEnds ==
    ASSUME Types, Rolling, NEW c \in Calls, ~Idle(c), EndCall(c), UNCHANGED <<bound, handoff>>,
           \A s \in Sessions : IsLive(s)' => IsLive(s),
           roll' = NoRoll \/ roll' = Cancelled \/ (roll' = roll /\ live' = live),
           AtPc(c, "recover") => roll' = NoRoll
    PROVE  Rolling'
<1>1. Alone(c) /\ calls'[c] = NoCall
  BY OnlyOne
<1>2. QED
  BY <1>1, NoneFits, RollingOn

\* A rollover that goes on has a session, if no start waits for it.
LEMMA DesertedRolls ==
    ASSUME Types, Rolling, Deserted, ~At("stopping"), ~At("idle") => ~roll.byStart
    PROVE  At("idle") \/ roll.aborted
<1> SUFFICES ASSUME ~At("idle"), ~roll.aborted PROVE FALSE
  OBVIOUS
<1>1. /\ roll.pc \in RollPlaces /\ roll.source \in Sessions /\ ~roll.byStart
      /\ roll.pc \notin {"done", "left"}
  BY RollFacts DEF Types, RollOK, RollRecords
<1>2. CASE roll.pc \in Sourced
  BY <1>1, <1>2 DEF Rolling, Backed, Deserted
<1>3. CASE At("divide")
  <2>1. Target \in Sessions
    BY <1>3, RollFacts DEF At
  <2>2. QED
    BY <1>1, <1>3, <2>1 DEF Rolling, Backed, Deserted
<1>4. QED
  BY <1>1, <1>2, <1>3 DEF RollPlaces, Sourced, At

\* The rollover goes on or ends, and leaves the sessions alone.
LEMMA RollingWalks ==
    ASSUME Types, Rolling, ~At("idle"), UNCHANGED <<calls, live, bound>>,
           roll' \in RollRecords, roll'.source = roll.source, roll'.byStart = roll.byStart,
           roll'.base = roll.base, roll.aborted => roll'.aborted,
           ~roll'.aborted => roll'.pc \in Sourced /\ roll.pc \in Sourced,
           ~roll'.aborted => roll'.pc # "stopped",
           roll'.pc \notin {"idle", "stopping"},
           roll'.pc \in {"resume", "verify"} /\ ~roll'.aborted =>
             IF roll.byStart THEN bound \in {roll.source, Target', None} ELSE bound = roll.source
    PROVE  Rolling'
<1>1. \A s : IsLive(s)' <=> IsLive(s)
  BY LiveMoves
<1>2. \A c \in Calls : Fits(calls[c])'
  BY <1>1 DEF Rolling, Fits, Deserted, At
<1>3. BoundOnly'
  BY <1>1 DEF Rolling, BoundOnly, At, Deserted
<1>4. Backed'
  <2>1. roll'.aborted \/ (roll'.pc \in Sourced /\ roll.pc \in Sourced /\ ~roll.aborted)
    OBVIOUS
  <2>2. roll' \in RollRecords /\ roll'.aborted \in BOOLEAN
    BY DEF RollRecords
  <2>3. QED
    BY <1>1, <2>1, <2>2 DEF Rolling, Backed, At, Sourced
<1>5. QED
  BY <1>2, <1>3, <1>4 DEF Rolling, Idle, AtPc, At

\* The rollover ends.
LEMMA RollingStops ==
    ASSUME Types, Rolling, ~At("idle"), NEW outcome \in {"left", "done"}, End(outcome),
           UNCHANGED <<calls, bound>>, BoundOnly',
           Deserted => Deserted'
    PROVE  Rolling'
<1>1. \/ roll' = NoRoll /\ ~roll.byStart
      \/ roll' = [roll EXCEPT !.pc = outcome] /\ roll.byStart
  BY DEF End, Types, RollOK, RollRecords
<1>2. roll \in RollRecords
  BY DEF Types, RollOK
<1>3. CASE roll' = NoRoll /\ ~roll.byStart
  <2>1. At("idle")' /\ roll'.byStart = FALSE /\ ~At("stopping")'
    BY <1>3 DEF NoRoll, At
  <2>2. \A c \in Calls : Fits(calls[c])'
    BY <1>3, <2>1 DEF Rolling, Fits
  <2>3. Backed'
    BY <2>1 DEF Backed, At, Sourced
  <2>4. QED
    BY <2>1, <2>2, <2>3 DEF Rolling, Idle
<1>4. CASE roll' = [roll EXCEPT !.pc = outcome] /\ roll.byStart
  <2>1. /\ roll'.pc = outcome /\ roll'.byStart /\ roll'.aborted = roll.aborted
        /\ roll'.base = roll.base /\ roll'.source = roll.source /\ roll.byStart
    BY <1>2, <1>4 DEF RollRecords
  <2>2. \A c \in Calls : Fits(calls[c])'
    BY <2>1 DEF Rolling, Fits, At
  <2>3. Backed'
    BY <2>1 DEF Rolling, Backed, At, Sourced
  <2>4. QED
    BY <2>1, <2>2, <2>3 DEF Rolling, Idle, AtPc, At
<1>5. QED
  BY <1>1, <1>3, <1>4

\* The same when it leaves the sessions alone.
LEMMA RollingLeaves ==
    ASSUME Types, Rolling, ~At("idle"), NEW outcome \in {"left", "done"}, End(outcome),
           UNCHANGED <<calls, bound, live>>
    PROVE  Rolling'
<1>1. \A s : IsLive(s)' <=> IsLive(s)
  BY LiveMoves
<1>2. ~At("stopping")'
  BY DEF End, At, NoRoll, Types, RollOK, RollRecords
<1>3. BoundOnly' /\ (Deserted => Deserted')
  BY <1>1, <1>2 DEF Rolling, BoundOnly, Deserted
<1>4. QED
  BY <1>3, RollingStops

\* Every step of a rollover keeps the invariant.
LEMMA RollingRolls == ASSUME Types, Rolling, RollSteps PROVE Rolling'
<1>1. UNCHANGED calls /\ ~At("idle")
  BY RollCalls
<1>2. /\ roll \in RollRecords /\ roll.source \in Sessions /\ roll.key \in Sessions
      /\ Stands(roll.pc, handoff[roll.key].state) /\ roll.pc \in RollPlaces
  BY <1>1, RollFacts DEF Types, RollOK, RollRecords
<1>3. \A pc : Go(pc) =>
        /\ roll'.pc = pc /\ roll'.source = roll.source /\ roll'.byStart = roll.byStart
        /\ roll'.base = roll.base /\ roll'.aborted = roll.aborted
        /\ roll'.key = roll.key
        /\ pc \in RollPlaces => roll' \in RollRecords
  BY <1>2 DEF Go, RollRecords
\* From one of its first places to the next.
<1>4. ASSUME NEW pc \in {"pending", "summary", "memory", "asking", "creating", "bind"}, Go(pc),
             roll.pc \in Sourced, UNCHANGED <<bound, live>>
      PROVE  Rolling'
  <2>1. roll' \in RollRecords /\ roll'.pc = pc
    BY <1>3, <1>4 DEF RollPlaces
  <2>2. QED
    BY <1>1, <1>3, <1>4, <2>1, RollingWalks DEF Sourced
<1>5. CASE \/ BeginHandoff \/ SaveSummary \/ WriteMemory \/ AnnounceCreation \/ AskForCreation
           \/ NobodyToAsk \/ CreationAnswered \/ CreationFailed
  <2>1. UNCHANGED <<bound, live>>
    BY <1>5 DEF BeginHandoff, SaveSummary, WriteMemory, AnnounceCreation, AskForCreation,
                NobodyToAsk, CreationAnswered, CreationFailed, runtimeVars
  <2>2. roll.pc \in Sourced
    BY <1>5 DEF BeginHandoff, SaveSummary, WriteMemory, AnnounceCreation, AskForCreation,
                NobodyToAsk, CreationAnswered, CreationFailed, Sourced, At
  <2>3. \/ End("left")
        \/ \E pc \in {"pending", "summary", "memory", "asking", "creating", "bind"} : Go(pc)
    BY <1>5 DEF BeginHandoff, SaveSummary, WriteMemory, AnnounceCreation, AskForCreation,
                NobodyToAsk, CreationAnswered, CreationFailed
  <2>4. QED
    BY <1>1, <1>4, <2>1, <2>2, <2>3, RollingLeaves
<1>6. CASE ResumeTarget
  <2>1. UNCHANGED <<bound, live, handoff>> /\ roll.pc = "bind" /\ roll.pc \in Sourced
    BY <1>6 DEF ResumeTarget, runtimeVars, At, Sourced
  <2>2. CASE End("left")
    BY <1>1, <2>1, <2>2, RollingLeaves
  <2>3. CASE Holds /\ Go("resume")
    <3>1. IF roll.byStart THEN bound \in {roll.source, Target, None} ELSE bound = roll.source
      BY <1>1, <2>3 DEF Holds, Safe, Rolling, Backed, Target
    <3>2. roll' \in RollRecords /\ Target' = Target
      BY <1>3, <2>1, <2>3 DEF RollPlaces, Target
    <3>3. QED
      BY <1>1, <1>3, <2>1, <2>3, <3>1, <3>2, RollingWalks DEF Sourced
  <2>4. QED
    BY <1>6, <2>2, <2>3 DEF ResumeTarget
<1>7. CASE VerifyTarget
  <2>1. UNCHANGED <<bound, live, handoff>> /\ roll.pc = "resume" /\ roll.pc \in Sourced
    BY <1>7 DEF VerifyTarget, At, Sourced
  <2>2. CASE End("left")
    BY <1>1, <2>1, <2>2, RollingLeaves
  <2>3. CASE ~roll.aborted /\ roll' = [roll EXCEPT !.pc = "verify", !.seen = row.generation]
    <3>1. /\ roll' \in RollRecords /\ roll'.pc = "verify" /\ roll'.source = roll.source
          /\ roll'.byStart = roll.byStart /\ roll'.base = roll.base
          /\ roll'.aborted = roll.aborted /\ Target' = Target
      BY <1>2, <2>1, <2>3, TypeFacts DEF RollRecords, RollPlaces, Target
    <3>2. IF roll.byStart THEN bound \in {roll.source, Target, None} ELSE bound = roll.source
      BY <2>1, <2>3 DEF Rolling, Backed
    <3>3. QED
      BY <1>1, <2>1, <3>1, <3>2, RollingWalks DEF Sourced
  <2>4. QED
    BY <1>7, <2>2, <2>3 DEF VerifyTarget
<1>8. CASE TargetNotReady
  BY <1>1, <1>8, RollingLeaves DEF TargetNotReady
<1>9. CASE StopSource
  <2>1. roll.pc = "verify" /\ UNCHANGED <<bound, handoff>>
    BY <1>9 DEF StopSource, At
  <2>2. CASE End("left") /\ UNCHANGED live
    BY <1>1, <2>1, <2>2, RollingLeaves
  <2>3. CASE ~roll.aborted /\ Go("stopped") /\ UNCHANGED live
             /\ (roll.source = Target \/ ~IsLive(roll.source))
    <3>1. /\ \A s : IsLive(s)' <=> IsLive(s)
          /\ Target' = Target
      BY <1>3, <2>1, <2>3, LiveMoves DEF Target
    <3>2. \A s \in Sessions : IsLive(s) => s = Target
      <4>1. \A s \in Sessions : IsLive(s) => s = bound /\ s # None
        BY DEF Rolling, BoundOnly, Sessions, None
      <4>2. roll.byStart \in BOOLEAN
        BY <1>2 DEF RollRecords
      <4>3. CASE roll.byStart
        <5>1. bound \in {roll.source, Target, None}
          BY <2>1, <2>3, <4>3 DEF Rolling, Backed
        <5>2. QED
          BY <2>3, <4>1, <5>1
      <4>4. CASE ~roll.byStart
        <5>1. bound = roll.source /\ IsLive(roll.source)
          BY <2>1, <2>3, <4>4 DEF Rolling, Backed, Sourced
        <5>2. QED
          BY <2>3, <4>1, <5>1
      <4>5. QED
        BY <4>2, <4>3, <4>4
    <3>3. \A c \in Calls : Fits(calls[c])'
      BY <1>1, <1>3, <2>1, <2>3, <3>1 DEF Rolling, Fits, Deserted, At
    <3>4. BoundOnly'
      BY <1>3, <2>1, <2>3, <3>1 DEF Rolling, BoundOnly, At
    <3>5. Backed'
      BY <1>3, <2>1, <2>3, <3>1, <3>2 DEF Rolling, Backed, At, Sourced
    <3>6. QED
      BY <1>1, <1>3, <2>1, <2>3, <3>3, <3>4, <3>5 DEF Rolling, Idle, AtPc, At
  <2>4. CASE /\ ~roll.aborted /\ Go("stopping") /\ live' = Without(roll.source)
             /\ IsLive(roll.source)
    <3>1. \A s : IsLive(s)' <=> IsLive(s) /\ s # roll.source
      BY <2>4, LiveMoves
    <3>2. roll.source = bound /\ Deserted' /\ ~Deserted
      BY <1>2, <2>4, <3>1 DEF Rolling, BoundOnly, Deserted
    <3>3. \A c \in Calls : Fits(calls[c])'
      BY <1>1, <1>3, <2>1, <2>4, <3>2 DEF Rolling, Fits, At
    <3>4. BoundOnly' /\ Backed'
      BY <1>3, <2>1, <2>4, <3>2 DEF Rolling, BoundOnly, Backed, At, Sourced, Deserted
    <3>5. QED
      BY <1>1, <1>3, <2>1, <2>4, <3>3, <3>4 DEF Rolling, Idle, AtPc, At
  <2>5. QED
    BY <1>9, <2>2, <2>3, <2>4 DEF StopSource
<1>10. CASE SourceRefuses
  <2>1. /\ roll.pc = "stopping" /\ live' = With(roll.source) /\ End("left") /\ UNCHANGED bound
    BY <1>10 DEF SourceRefuses, At
  <2>2. /\ \A s : IsLive(s)' <=> IsLive(s) \/ s = roll.source
        /\ roll.source = bound /\ Deserted
    BY <2>1, LiveMoves DEF Rolling, BoundOnly, At
  <2>3. \A c \in Calls : calls[c].pc \notin Opening
    BY <2>1 DEF Rolling, Fits, At
  <2>4. roll'.pc \in {"idle", "left"}
    BY <1>2, <2>1 DEF End, NoRoll, RollRecords
  <2>5. BoundOnly'
    BY <2>1, <2>2, <2>4 DEF BoundOnly, Deserted, At
  <2>6. Backed'
    <3>1. roll'.byStart => roll.byStart /\ roll'.base = roll.base /\ roll'.source = roll.source
      BY <1>2, <2>1 DEF End, NoRoll, RollRecords
    <3>2. QED
      BY <1>1, <2>4, <3>1 DEF Rolling, Backed, At, Sourced
  <2>7. \/ roll'.pc = "idle" /\ ~roll'.byStart /\ ~roll.byStart
        \/ roll'.pc = "left" /\ roll'.byStart /\ roll.byStart
    BY <1>2, <2>1 DEF End, NoRoll, RollRecords
  <2>8. QED
    BY <1>1, <2>1, <2>3, <2>5, <2>6, <2>7 DEF Rolling, Fits, Idle, AtPc, At
<1>11. CASE BindTarget
  <2>1. roll.pc \in {"stopping", "stopped"} /\ UNCHANGED handoff
    BY <1>11 DEF BindTarget, aside
  <2>2. CASE End("left") /\ UNCHANGED <<bound, live>>
    BY <1>1, <2>2, RollingLeaves
  <2>3. CASE ~roll.aborted /\ bound' = Target /\ live' = With(Target) /\ Go("divide")
    <3>1. /\ \A s : IsLive(s)' <=> IsLive(s) \/ s = Target
          /\ Target \in Sessions /\ Target' = Target
      BY <1>1, <1>3, <2>1, <2>3, LiveMoves, RollFacts DEF Target
    <3>2. \A s \in Sessions : IsLive(s) => s = Target
      BY <2>1, <2>3 DEF Rolling, BoundOnly, Backed, Deserted, At
    <3>3. \A c \in Calls : calls[c].pc \notin Opening
      BY <1>1, <2>3 DEF Rolling, Fits
    <3>4. BoundOnly' /\ Backed'
      BY <1>1, <1>3, <2>3, <3>1, <3>2 DEF Rolling, BoundOnly, Backed, At, Sourced
    <3>5. \A c \in Calls : Fits(calls[c])'
      BY <1>1, <1>3, <2>3, <3>3 DEF Rolling, Fits, Opening, At
    <3>6. QED
      BY <1>1, <1>3, <2>3, <3>4, <3>5 DEF Rolling, Idle, AtPc, At
  <2>4. QED
    BY <1>11, <2>2, <2>3 DEF BindTarget
<1>12. CASE CompleteHandoff \/ DividerLost
  <2>1. UNCHANGED <<bound, live>> /\ (End("left") \/ End("done"))
    BY <1>12 DEF CompleteHandoff, DividerLost, runtimeVars
  <2>2. QED
    BY <1>1, <2>1, RollingLeaves
<1>13. CASE CancelRollover
  <2>1. /\ roll' = Cancelled /\ UNCHANGED <<bound, live, handoff>>
        /\ roll'.pc = roll.pc /\ roll'.byStart = roll.byStart /\ roll'.aborted
    BY <1>1, <1>13, RollPc DEF CancelRollover, aside
  <2>2. Backed' /\ BoundOnly'
    BY <2>1, Loosened, LiveMoves DEF Rolling
  <2>3. \A c \in Calls : Fits(calls[c])'
    BY <1>1, <2>1, LiveMoves DEF Rolling, Fits, Deserted, At
  <2>4. QED
    BY <1>1, <2>1, <2>2, <2>3 DEF Rolling, Idle, AtPc, At
<1>14. QED
  BY <1>5, <1>6, <1>7, <1>8, <1>9, <1>10, <1>11, <1>12, <1>13 DEF RollSteps

\* A call opens a session.
LEMMA RollingOpens ==
    ASSUME Types, NEW c \in Calls, NEW call \in CallRecords, call.kind # "switch",
           Open(c, call), \A d \in Calls \ {c} : Idle(d), UNCHANGED <<live, roll, handoff>>,
           Deserted, ~At("stopping"), At("idle") \/ roll.aborted, ~At("idle") => ~roll.byStart
    PROVE  Rolling'
<1>1. CASE bound # None /\ keyed \in {NoAgent, call.agent}
  <2>1. /\ calls' = [calls EXCEPT ![c] =
                       [call EXCEPT !.pc = "resume", !.session = bound, !.seen = row'.generation]]
        /\ bound' = bound
    BY <1>1 DEF Open
  <2>2. /\ Alone(c) /\ calls'[c].pc = "resume" /\ calls'[c].session = bound
        /\ calls'[c].kind = call.kind
    BY <2>1, OnlyOne DEF Alone, CallRecords
  <2>3. Deserted'
    BY LiveMoves DEF Deserted
  <2>4. Fits(calls[c])' /\ BoundOnly' /\ Backed'
    BY <2>1, <2>2, <2>3 DEF Fits, BoundOnly, Backed, Deserted, At, Sourced
  <2>5. QED
    BY <2>2, <2>4, RollingOf DEF At
<1>2. CASE ~(bound # None /\ keyed \in {NoAgent, call.agent})
  <2>1. calls' = [calls EXCEPT ![c] = [call EXCEPT !.pc = "prepare"]]
    BY <1>2 DEF Open
  <2>2. Alone(c) /\ calls'[c].pc = "prepare" /\ calls'[c].kind = call.kind
    BY <2>1, OnlyOne DEF Alone, CallRecords
  <2>3. Deserted'
    BY LiveMoves DEF Deserted
  <2>4. Fits(calls[c])' /\ BoundOnly' /\ Backed'
    BY <2>2, <2>3 DEF Fits, BoundOnly, Backed, Deserted, At, Sourced
  <2>5. QED
    BY <2>2, <2>4, RollingOf DEF At
<1>3. QED
  BY <1>1, <1>2

\* A call begins, with nothing else under way.
LEMMA RollingEnters ==
    ASSUME Types, Rolling, NEW c \in Calls, NEW call, NEW r, Starts(call), Enter(c, call, r),
           \A d \in Calls \ {c} : Idle(d), ~AtPc(c, "recover"), ~At("stopping")
    PROVE  Rolling'
<1>1. call \in CallRecords /\ call.kind # "switch"
  BY DEF Starts
<1>2. ~At("idle") => ~roll.byStart
  <2>1. \A d \in Calls : ~AtPc(d, "recover")
    BY CallNumbers DEF Idle, AtPc
  <2>2. QED
    BY <2>1 DEF Rolling
<1>3. Current # None => Current = bound /\ IsLive(Current)
  BY CurrentFacts, LiveMoves DEF Rolling, BoundOnly
<1>4. CASE EndCall(c) /\ UNCHANGED <<bound, live, roll, handoff>>
  <2>1. Alone(c) /\ calls'[c] = NoCall
    BY <1>4, OnlyOne
  <2>2. Backed' /\ BoundOnly'
    BY <1>4, Loosened, LiveMoves DEF Rolling
  <2>3. QED
    BY <1>2, <1>4, <2>1, <2>2, NoneFits, RollingOf DEF At
<1>5. ASSUME NEW s,
             calls' = [calls EXCEPT ![c] = [call EXCEPT !.pc = "turn", !.was = bound,
                                                        !.session = s]],
             bound \in {None, s}, UNCHANGED <<bound, live, roll, handoff>>
      PROVE  Rolling'
  <2>1. /\ Alone(c) /\ calls'[c].pc = "turn" /\ calls'[c].was = bound
        /\ calls'[c].session = s /\ calls'[c].kind = call.kind
    BY <1>1, <1>5, OnlyOne DEF Alone, CallRecords
  <2>2. Backed' /\ BoundOnly'
    BY <1>5, Loosened, LiveMoves DEF Rolling
  <2>3. Fits(calls[c])'
    BY <1>1, <1>5, <2>1 DEF Fits, Opening
  <2>4. QED
    BY <1>2, <1>5, <2>1, <2>2, <2>3, RollingOf DEF At
<1>6. CASE Current = None /\ Open(c, call) /\ UNCHANGED <<live, roll, handoff>>
  <2>1. Deserted
    BY <1>6, CurrentFacts, LiveMoves DEF Deserted
  <2>2. At("idle") \/ roll.aborted
    BY <1>2, <2>1, DesertedRolls
  <2>3. QED
    BY <1>1, <1>2, <1>6, <2>1, <2>2, RollingOpens
<1>7. CASE /\ UNCHANGED <<bound, live, roll, handoff>>
           /\ calls' = [calls EXCEPT ![c] = [call EXCEPT !.pc = "check",
                           !.session = Current, !.seen = r.generation]]
  <2>1. Alone(c) /\ calls'[c].pc = "check" /\ calls'[c].kind = call.kind
    BY <1>1, <1>7, OnlyOne DEF Alone, CallRecords
  <2>2. Backed' /\ BoundOnly'
    BY <1>7, Loosened, LiveMoves DEF Rolling
  <2>3. Fits(calls[c])'
    BY <1>1, <2>1 DEF Fits, Opening
  <2>4. QED
    BY <1>2, <1>7, <2>1, <2>2, <2>3, RollingOf DEF At
<1>8. CASE /\ Current # None /\ Stops(Current) /\ roll' = Cancelled /\ UNCHANGED <<bound, handoff>>
           /\ calls' = [calls EXCEPT ![c] = [call EXCEPT !.pc = "release"]]
  <2>1. Alone(c) /\ calls'[c].pc = "release" /\ calls'[c].kind = call.kind
    BY <1>1, <1>8, OnlyOne DEF Alone, CallRecords
  <2>2. \A s : IsLive(s)' <=> IsLive(s) /\ s # Current
    BY <1>8, LiveMoves DEF Stops
  <2>3. Backed' /\ BoundOnly'
    BY <1>8, <2>2, Loosened DEF Rolling
  <2>4. /\ ~At("stopping")' /\ (At("idle")' \/ roll'.aborted)
        /\ (~At("idle"))' => ~roll'.byStart
    BY <1>2, <1>8, RollPc DEF At
  <2>5. Deserted'
    BY <1>3, <1>8, <2>2 DEF Deserted, Rolling, BoundOnly
  <2>6. Fits(calls[c])'
    BY <1>1, <2>1, <2>4, <2>5 DEF Fits
  <2>7. QED
    BY <2>1, <2>3, <2>4, <2>6, RollingOf
<1>9. QED
  <2>1. CASE Current # None
    BY <1>3, <1>4, <1>5, <1>7, <1>8, <2>1 DEF Enter, rollVars
  <2>2. CASE Current = None
    BY <1>4, <1>5, <1>6, <2>2 DEF Enter, rollVars
  <2>3. QED
    BY <2>1, <2>2

\* Every step of a call that is under way keeps it.
LEMMA RollingCalls ==
    ASSUME Types, Ages, Rolling, left.switches = 0, NEW c \in Calls,
           StartSteps(c) \/ BootRollsBack(c) \/ BootResumes(c) \/ BootIgnores(c)
    PROVE  Rolling'
<1> USE LiveMoves
<1>1. /\ calls[c] \in CallRecords /\ calls[c].kind # "switch" /\ DOMAIN calls = Calls
      /\ ~Idle(c) => \A d \in Calls \ {c} : Idle(d)
      /\ ~Idle(c) => ((~At("idle") /\ roll.byStart) => AtPc(c, "recover"))
  BY TypeFacts, CallNumbers DEF CallOK, Rolling, Fits, Idle, AtPc, Types, CallsOK
<1>2. CASE Ask(c)
  <2>1. \A d \in Calls : Idle(d) /\ ~AtPc(d, "recover")
    BY <1>2, CallNumbers DEF Ask, NoneInFlight, Idle, AtPc
  <2>2. ~At("stopping")
    BY <1>2 DEF Ask, NoStop
  <2>3. QED
    BY <1>2, <2>1, <2>2, AskEnters, RollingEnters
<1>3. CASE BootRollsBack(c) \/ BootResumes(c)
  <2>1. AtPc(c, "boot") /\ ~Idle(c) /\ calls[c].kind = "reboot"
    BY <1>3, CallNumbers DEF BootRollsBack, BootResumes, AtPc, Idle
  <2>2. At("idle")
    BY <2>1 DEF Ages, Rebooted, Rebooting
  <2>3. PICK call, r : Enter(c, call, r) /\ Starts(call)
    BY <1>3, BootEnters
  <2>4. QED
    BY <1>1, <2>1, <2>2, <2>3, RollingEnters DEF AtPc, At
<1>4. CASE BootIgnores(c)
  BY <1>4, CallNumbers, RollingEnds DEF BootIgnores, runtimeVars, rollVars, AtPc, Idle
<1>5. CASE Expire(c)
  <2>1. calls' = [calls EXCEPT ![c].owed = FALSE] /\ UNCHANGED <<bound, live, roll, handoff>>
    BY <1>5 DEF Expire, rollVars
  <2>2. /\ Alone(c) /\ calls'[c].kind = calls[c].kind /\ calls'[c].pc = calls[c].pc
        /\ calls'[c].was = calls[c].was /\ calls'[c].session = calls[c].session
    BY <1>1, <2>1 DEF Alone, CallRecords
  <2>3. ~Idle(c)
    BY <1>1, <1>5, TypeFacts DEF Expire, CallOK, Idle
  <2>4. Fits(calls[c])'
    <3>1. Fits(calls[c])
      BY DEF Rolling
    <3>2. QED
      BY <2>1, <2>2, <3>1 DEF Fits, Deserted, At
  <2>5. QED
    BY <2>1, <2>2, <2>3, <2>4, RollingOn DEF AtPc
<1>6. CASE Released(c)
  <2>1. ~Idle(c) /\ ~AtPc(c, "recover") /\ AtPc(c, "release")
    BY <1>6, CallNumbers DEF Released, AtPc, Idle
  <2>2. Deserted /\ ~At("stopping") /\ (At("idle") \/ roll.aborted)
    BY <2>1 DEF Rolling, Fits, Opening, AtPc
  <2>3. QED
    BY <1>1, <1>6, <2>1, <2>2, RollingOpens DEF Released, rollVars
<1>7. CASE TakesOver(c)
  <2>1. /\ ~Idle(c) /\ AtPc(c, "turn") /\ At("idle") /\ ~AtPc(c, "recover")
        /\ calls[c].was \in {None, calls[c].session}
    BY <1>7, CallNumbers DEF TakesOver, AtPc, Idle, Rolling, Fits
  <2>2. CASE Fails(c) /\ UNCHANGED roll
    BY <1>7, <2>1, <2>2, RollingEnds DEF Fails, TakesOver
  <2>3. CASE /\ roll' = [NoRoll EXCEPT
                 !.pc = "begin", !.key = Incomplete, !.byStart = TRUE,
                 !.base = calls[c].was, !.agent = calls[c].agent, !.source = calls[c].session]
             /\ Proceed(c, "recover") /\ UNCHANGED row
    <3>1. /\ Alone(c) /\ calls'[c].pc = "recover" /\ calls'[c].kind = calls[c].kind
          /\ calls'[c].was = calls[c].was /\ calls'[c].session = calls[c].session
      BY <1>1, <2>3 DEF Proceed, Alone, CallRecords
    <3>2. /\ roll'.pc = "begin" /\ roll'.byStart /\ roll'.base = calls[c].was
          /\ roll'.source = calls[c].session /\ UNCHANGED <<bound, live>>
      BY <1>7, <2>3 DEF NoRoll, TakesOver
    <3>3. Fits(calls[c])'
      BY <1>1, <2>1, <3>1, <3>2 DEF Fits, Opening, At
    <3>4. BoundOnly' /\ Backed'
      BY <2>1, <3>2 DEF Rolling, BoundOnly, Backed, At
    <3>5. QED
      BY <1>1, <2>1, <3>1, <3>3, <3>4, RollingOf DEF AtPc
  <2>4. QED
    BY <1>7, <2>2, <2>3 DEF TakesOver
<1>8. CASE Recovered(c)
  <2>1. ~Idle(c) /\ UNCHANGED <<bound, handoff>> /\ roll' = NoRoll /\ EndCall(c)
    BY <1>8, CallNumbers DEF Recovered, AtPc, Idle, Fails
  <2>2. \A s : IsLive(s)' => IsLive(s)
    BY <1>8 DEF Recovered, Stops
  <2>3. QED
    BY <2>1, <2>2, RollingEnds
<1>9. CASE Checked(c)
  BY <1>9, CallNumbers, RollingEnds DEF Checked, rollVars, AtPc, Idle
<1>10. CASE Resumed(c)
  <2>1. /\ ~Idle(c) /\ AtPc(c, "resume") /\ ~AtPc(c, "recover")
        /\ UNCHANGED <<bound, handoff>> /\ EndCall(c)
    BY <1>10, CallNumbers DEF Resumed, AtPc, Idle
  <2>2. CASE \/ UNCHANGED <<live, roll>>
             \/ live' = Without(calls[c].session) /\ roll' = Cancelled
    BY <2>1, <2>2, RollingEnds
  <2>3. CASE live' = With(calls[c].session) /\ bound = calls[c].session /\ UNCHANGED roll
    <3>1. /\ Deserted /\ ~At("stopping") /\ (At("idle") \/ roll.aborted)
          /\ ~(~At("idle") /\ roll.byStart)
      BY <1>1, <2>1 DEF Rolling, Fits, Opening, AtPc
    <3>2. \A s \in Sessions : IsLive(s)' => s = bound
      BY <2>3, <3>1 DEF Deserted
    <3>3. BoundOnly' /\ Backed'
      BY <2>1, <2>3, <3>1, <3>2 DEF BoundOnly, Backed, At, Sourced
    <3>4. Alone(c) /\ calls'[c] = NoCall
      BY <2>1, OnlyOne
    <3>5. QED
      BY <1>1, <2>1, <2>3, <3>1, <3>3, <3>4, NoneFits, RollingOf DEF At
  <2>4. ~At("stopping")
    BY <2>1 DEF Rolling, Fits, Opening, AtPc
  <2>5. QED
    BY <1>10, <2>2, <2>3, <2>4 DEF Resumed
<1>11. CASE ResumeLost(c)
  <2>1. /\ ~Idle(c) /\ AtPc(c, "resume") /\ ~AtPc(c, "recover") /\ UNCHANGED <<live, roll, handoff>>
    BY <1>11, CallNumbers DEF ResumeLost, AtPc, Idle, rollVars
  <2>2. CASE Fails(c) /\ UNCHANGED bound
    BY <2>1, <2>2, RollingEnds DEF Fails
  <2>3. CASE bound' = None /\ Proceed(c, "prepare")
    <3>1. /\ Deserted /\ ~At("stopping") /\ (At("idle") \/ roll.aborted)
          /\ ~(~At("idle") /\ roll.byStart)
      BY <1>1, <2>1 DEF Rolling, Fits, Opening, AtPc
    <3>2. Alone(c) /\ calls'[c].pc = "prepare" /\ calls'[c].kind = calls[c].kind
      BY <1>1, <2>3 DEF Proceed, Alone, CallRecords
    <3>3. Deserted'
      BY <2>1, <3>1 DEF Deserted
    <3>4. Fits(calls[c])' /\ BoundOnly' /\ Backed'
      BY <1>1, <2>1, <3>1, <3>2, <3>3 DEF Fits, BoundOnly, Backed, Deserted, At, Sourced
    <3>5. QED
      BY <1>1, <2>1, <3>1, <3>2, <3>4, RollingOf DEF At
  <2>4. QED
    BY <1>11, <2>2, <2>3 DEF ResumeLost
<1>12. CASE Prepared(c)
  <2>1. /\ ~Idle(c) /\ AtPc(c, "prepare") /\ ~AtPc(c, "recover")
        /\ UNCHANGED <<bound, live, roll, handoff>>
    BY <1>12, CallNumbers DEF Prepared, AtPc, Idle, rollVars
  <2>2. CASE Fails(c)
    BY <2>1, <2>2, RollingEnds DEF Fails
  <2>3. CASE Proceed(c, "creating")
    <3>1. Alone(c) /\ calls'[c].pc = "creating" /\ calls'[c].kind = calls[c].kind
      BY <1>1, <2>3 DEF Proceed, Alone, CallRecords
    <3>2. Deserted /\ ~At("stopping") /\ (At("idle") \/ roll.aborted)
      BY <2>1 DEF Rolling, Fits, Opening, AtPc
    <3>3. Fits(calls[c])'
      BY <1>1, <2>1, <3>1, <3>2 DEF Fits, Deserted, At
    <3>4. QED
      BY <2>1, <3>1, <3>3, RollingOn
  <2>4. QED
    BY <1>12, <2>2, <2>3 DEF Prepared
<1>13. CASE Registered(c)
  <2>1. /\ ~Idle(c) /\ AtPc(c, "creating") /\ ~AtPc(c, "recover") /\ UNCHANGED handoff
    BY <1>13, CallNumbers DEF Registered, AtPc, Idle
  <2>2. CASE Fails(c) /\ roll' = Cancelled /\ UNCHANGED <<bound, live>>
    BY <2>1, <2>2, RollingEnds DEF Fails
  <2>3. CASE /\ UNCHANGED roll /\ live' = Append(live, Fresh) /\ bound' = Fresh
             /\ calls' = [calls EXCEPT ![c].pc = "yield", ![c].session = Fresh]
    <3>1. /\ Deserted /\ ~At("stopping") /\ (At("idle") \/ roll.aborted)
          /\ ~(~At("idle") /\ roll.byStart)
      BY <1>1, <2>1 DEF Rolling, Fits, Opening, AtPc
    <3>2. calls'[c] = [calls[c] EXCEPT !.pc = "yield", !.session = Fresh] /\ Alone(c)
      BY <1>1, <2>3 DEF Alone
    <3>3. calls'[c].pc = "yield" /\ calls'[c].kind = calls[c].kind
      BY <1>1, <3>2 DEF CallRecords
    <3>4. \A s \in Sessions : IsLive(s)' => s = bound'
      BY <2>3, <3>1 DEF Deserted
    <3>5. Fits(calls[c])' /\ BoundOnly' /\ Backed'
      BY <1>1, <2>3, <3>1, <3>3, <3>4 DEF Fits, BoundOnly, Backed, At, Sourced, Opening
    <3>6. QED
      BY <1>1, <2>1, <2>3, <3>1, <3>2, <3>5, RollingOf DEF At
  <2>4. QED
    BY <1>1, <1>13, <2>2, <2>3 DEF Registered
<1>14. CASE NotUp(c)
  BY <1>14, CallNumbers, RollingEnds DEF NotUp, rollVars, AtPc, Idle, Fails
<1>15. CASE Withdrawn(c)
  <2>1. /\ ~Idle(c) /\ AtPc(c, "yield") /\ ~AtPc(c, "recover") /\ UNCHANGED <<bound, handoff>>
        /\ EndCall(c) /\ roll' = Cancelled
    BY <1>15, CallNumbers DEF Withdrawn, ItsTurn, AtPc, Idle, Fails
  <2>2. \A s : IsLive(s)' => IsLive(s)
    BY <1>15 DEF Withdrawn, Stops
  <2>3. QED
    BY <2>1, <2>2, RollingEnds
<1>16. CASE Started(c)
  BY <1>16, CallNumbers, RollingEnds DEF Started, ItsTurn, rollVars, AtPc, Idle
<1>17. ~CommitSwitch(c)
  BY <1>1 DEF CommitSwitch
<1>18. \A agent \in Agents : ~BeginSwitch(c, agent)
  BY DEF BeginSwitch, Spend
<1>19. QED
  BY <1>2, <1>3, <1>4, <1>5, <1>6, <1>7, <1>8, <1>9, <1>10, <1>11, <1>12, <1>13, <1>14, <1>15,
     <1>16, <1>17, <1>18 DEF StartSteps

\* The environment: a roll-back, a choice by hand, a turn, a crash.
LEMMA RollingOutside ==
    ASSUME Types, Rolling,
           \/ RollBack \/ (\E agent \in Agents : SelectAgent(agent)) \/ TurnBegins
           \/ (\E s \in Sessions : TurnEnds(s)) \/ Crash
    PROVE  Rolling'
<1> USE LiveMoves
<1>1. ASSUME UNCHANGED <<calls, bound, handoff>>, \A s : IsLive(s)' => IsLive(s),
             roll' = Cancelled \/ (roll' = roll /\ live' = live)
      PROVE  Rolling'
  <2>1. Backed' /\ BoundOnly'
    BY <1>1, Loosened DEF Rolling
  <2>2. /\ roll'.pc = roll.pc /\ roll'.byStart = roll.byStart
        /\ roll' = roll \/ At("idle") \/ roll'.aborted
    BY <1>1, RollPc
  <2>3. \A c \in Calls : Fits(calls[c])'
    BY <1>1, <2>2 DEF Rolling, Fits, Deserted, At
  <2>4. QED
    BY <1>1, <2>1, <2>2, <2>3 DEF Rolling, Idle, AtPc, At
<1>2. CASE RollBack \/ TurnBegins
  BY <1>1, <1>2 DEF RollBack, TurnBegins, rollVars
<1>3. CASE \E agent \in Agents : SelectAgent(agent)
  <2>1. UNCHANGED <<calls, bound, handoff>>
    BY <1>3 DEF SelectAgent
  <2>2. CASE Stops(Current) /\ roll' = Cancelled
    BY <1>1, <2>1, <2>2 DEF Stops
  <2>3. CASE UNCHANGED <<live, roll>>
    BY <1>1, <2>1, <2>3
  <2>4. QED
    BY <1>3, <2>2, <2>3 DEF SelectAgent
<1>4. ASSUME NEW s \in Sessions, TurnEnds(s) PROVE Rolling'
  <2>1. UNCHANGED <<calls, bound, handoff, live>> /\ IsLive(s)
    BY <1>4 DEF TurnEnds
  <2>2. CASE UNCHANGED roll
    BY <1>1, <2>1, <2>2
  <2>3. CASE MayRollOver(s) /\ roll' = Considered(s)
    <3>1. /\ roll'.pc = "begin" /\ roll'.source = s /\ ~roll'.byStart /\ At("idle") /\ bound = s
      BY <2>3 DEF Considered, NoRoll, MayRollOver
    <3>2. \A c \in Calls : Fits(calls[c])'
      BY <1>4, <2>1, <3>1 DEF Rolling, Fits, Deserted, At
    <3>3. BoundOnly' /\ Backed'
      BY <2>1, <3>1 DEF Rolling, BoundOnly, Backed, At
    <3>4. QED
      BY <2>1, <3>1, <3>2, <3>3 DEF Rolling, Idle
  <2>4. QED
    BY <1>4, <2>2, <2>3 DEF TurnEnds
<1>5. CASE Crash
  <2>1. PICK c \in Calls : calls' = [d \in Calls |-> IF d = c THEN Reboot ELSE NoCall]
    BY <1>5 DEF Crash
  <2>2. /\ calls'[c].kind = "reboot" /\ calls'[c].pc = "boot"
        /\ \A d \in Calls \ {c} : calls'[d].kind = "none" /\ calls'[d].pc = "none"
    BY <2>1 DEF Reboot, NoCall
  <2>3. roll'.pc = "idle" /\ ~roll'.byStart
    BY <1>5 DEF Crash, NoRoll
  <2>4. \A s : ~IsLive(s)'
    BY <1>5 DEF Crash
  <2>5. \A d \in Calls : Fits(calls[d])'
    BY <2>2 DEF Fits, Opening
  <2>6. BoundOnly' /\ Backed'
    BY <2>3, <2>4 DEF BoundOnly, Backed, At, Sourced
  <2>7. QED
    BY <2>2, <2>3, <2>5, <2>6 DEF Rolling, Idle
<1>6. QED
  BY <1>2, <1>3, <1>4, <1>5

\* So every step keeps it.
LEMMA RollingStep ==
    ASSUME Types, Ages, Rolling, left.switches = 0, [Next]_vars
    PROVE  Rolling'
<1>1. CASE UNCHANGED vars
  BY <1>1 DEF vars, runtimeVars, rollVars, Rolling, Idle, Fits, Deserted, BoundOnly, Backed, At,
              AtPc, Target, IsLive
<1>2. QED
  BY <1>1, RollingRolls, RollingCalls, RollingOutside DEF Next

\* Nothing but a switch spends what is left of them, and nobody turns rollover on or off.
LEMMA Budgets ==
    ASSUME Types, [Next]_vars
    PROVE  /\ UNCHANGED policy
           /\ \A kind \in Kinds : left[kind] = 0 => left'[kind] = 0
           /\ \A kind \in Kinds : left'[kind] <= left[kind]
<1>1. left \in [Kinds -> Nat]
  BY DEF Types, LeftOK
<1>2. UNCHANGED left \/ (\E kind : Spend(kind)) =>
        \A kind \in Kinds : left'[kind] <= left[kind] /\ (left[kind] = 0 => left'[kind] = 0)
  BY <1>1 DEF Spend
<1>3. ASSUME NEW c \in Calls, NEW call, NEW r, Enter(c, call, r)
      PROVE  UNCHANGED policy
  BY <1>3 DEF Enter, rollVars
<1>4. ASSUME NEW c \in Calls, StartSteps(c)
      PROVE  UNCHANGED policy /\ (UNCHANGED left \/ \E kind : Spend(kind))
  <2>1. CASE Ask(c)
    BY <1>3, <2>1 DEF Ask
  <2>2. CASE \/ Expire(c) \/ Released(c) \/ TakesOver(c) \/ Recovered(c) \/ Checked(c)
             \/ Resumed(c) \/ ResumeLost(c) \/ Prepared(c) \/ Registered(c) \/ NotUp(c)
             \/ Withdrawn(c) \/ Started(c) \/ CommitSwitch(c)
             \/ \E agent \in Agents : BeginSwitch(c, agent)
    BY <2>2 DEF Expire, Released, TakesOver, Recovered, Checked, Resumed, ResumeLost, Prepared,
                Registered, NotUp, Withdrawn, Started, CommitSwitch, BeginSwitch, rollVars
  <2>3. QED
    BY <1>4, <2>1, <2>2 DEF StartSteps
<1>5. ASSUME RollSteps PROVE UNCHANGED policy /\ (UNCHANGED left \/ \E kind : Spend(kind))
  BY <1>5, RollCalls DEF RollSteps, BeginHandoff, SaveSummary, WriteMemory, AnnounceCreation,
     AskForCreation, NobodyToAsk, CreationAnswered, CreationFailed, ResumeTarget, VerifyTarget,
     TargetNotReady, StopSource, SourceRefuses, BindTarget, CompleteHandoff, DividerLost,
     CancelRollover, runtimeVars
<1>6. ASSUME \/ RollBack \/ (\E agent \in Agents : SelectAgent(agent)) \/ TurnBegins
             \/ (\E s \in Sessions : TurnEnds(s)) \/ Crash
             \/ \E c \in Calls : BootRollsBack(c) \/ BootResumes(c) \/ BootIgnores(c)
      PROVE  UNCHANGED policy /\ (UNCHANGED left \/ \E kind : Spend(kind))
  BY <1>3, <1>6 DEF RollBack, SelectAgent, TurnBegins, TurnEnds, Crash, BootRollsBack,
     BootResumes, BootIgnores, rollVars, runtimeVars
<1>7. UNCHANGED vars => UNCHANGED <<policy, left>>
  BY DEF vars, rollVars, runtimeVars
<1>8. QED
  BY <1>2, <1>4, <1>5, <1>6, <1>7 DEF Next

\* No handoff, none to complete.
LEMMA NothingPending == ASSUME \A s \in Sessions : handoff[s].state = "none"
                        PROVE  Incomplete = None /\ PendingCreation = None
<1>1. {s \in Sessions : handoff[s].state \notin {"none", "completed"}} = {}
  OBVIOUS
<1>2. {s \in Sessions : handoff[s].state \in Created} = {}
  BY DEF Created
<1>3. QED
  BY <1>1, <1>2 DEF Incomplete, PendingCreation, Latest

\* Without rollover there is never one.
LEMMA UnrolledStep ==
    ASSUME Types, Unrolled, ~policy, [Next]_vars
    PROVE  Unrolled'
<1>1. UNCHANGED vars => Unrolled'
  BY DEF vars, rollVars, Unrolled, At
<1>2. ~RollSteps /\ roll = NoRoll /\ Cancelled = roll
  BY RollCalls DEF Unrolled, Types, RollOK, Cancelled
<1>3. PendingCreation = None
  BY NothingPending DEF Unrolled
\* A call that changes alone, to a place of no rollover.
<1>4. ASSUME NEW c \in Calls, Alone(c), calls'[c].pc \notin {"turn", "recover"},
             roll' \in {roll, Cancelled, NoRoll}, UNCHANGED handoff
      PROVE  Unrolled'
  <2>1. roll' = roll
    BY <1>2, <1>4
  <2>2. QED
    BY <1>4, <2>1 DEF Alone, Unrolled, At
<1>5. ASSUME NEW c \in Calls, NEW call \in CallRecords, Open(c, call)
      PROVE  Alone(c) /\ calls'[c].pc \in {"resume", "prepare"}
  <2>1. \/ calls' = [calls EXCEPT ![c] =
              [call EXCEPT !.pc = "resume", !.session = bound, !.seen = row'.generation]]
        \/ calls' = [calls EXCEPT ![c] = [call EXCEPT !.pc = "prepare"]]
    BY <1>5, Zenon DEF Open
  <2>2. CASE calls' = [calls EXCEPT ![c] =
              [call EXCEPT !.pc = "resume", !.session = bound, !.seen = row'.generation]]
    BY <1>5, <2>2, OnlyOne DEF Alone, CallRecords
  <2>3. CASE calls' = [calls EXCEPT ![c] = [call EXCEPT !.pc = "prepare"]]
    BY <1>5, <2>3, OnlyOne DEF Alone, CallRecords
  <2>4. QED
    BY <2>1, <2>2, <2>3
<1>6. ASSUME NEW c \in Calls, NEW call, NEW r, Enter(c, call, r), Starts(call) PROVE Unrolled'
  <2>1. call \in CallRecords
    BY <1>6 DEF Starts
  <2>2. CASE EndCall(c) /\ UNCHANGED rollVars
    BY <1>4, <2>2, OnlyOne DEF rollVars, NoCall
  <2>3. CASE Open(c, call) /\ UNCHANGED rollVars
    BY <1>4, <1>5, <2>1, <2>3 DEF rollVars
  <2>4. CASE calls' = [calls EXCEPT ![c] = [call EXCEPT !.pc = "check",
                           !.session = Current, !.seen = r.generation]] /\ UNCHANGED rollVars
    BY <1>4, <2>1, <2>4, OnlyOne DEF rollVars, CallRecords, Alone
  <2>5. CASE /\ calls' = [calls EXCEPT ![c] = [call EXCEPT !.pc = "release"]]
             /\ roll' = Cancelled /\ UNCHANGED handoff
    BY <1>4, <2>1, <2>5, OnlyOne DEF CallRecords, Alone
  <2>6. QED
    BY <1>3, <1>6, <2>2, <2>3, <2>4, <2>5 DEF Enter
<1>7. ASSUME NEW c \in Calls, StartSteps(c) PROVE Unrolled'
  <2>1. calls[c] \in CallRecords /\ DOMAIN calls = Calls /\ ~AtPc(c, "turn") /\ ~AtPc(c, "recover")
    BY TypeFacts DEF CallOK, Types, CallsOK, Unrolled, AtPc
  <2>2. CASE Ask(c)
    BY <1>6, <2>2, AskEnters
  <2>3. CASE Expire(c)
    <3>1. calls' = [calls EXCEPT ![c].owed = FALSE] /\ UNCHANGED <<roll, handoff>>
      BY <2>3 DEF Expire, rollVars
    <3>2. Alone(c) /\ calls'[c].pc = calls[c].pc
      BY <2>1, <3>1 DEF Alone, CallRecords
    <3>3. QED
      BY <1>4, <2>1, <3>1, <3>2 DEF AtPc
  <2>4. CASE Released(c)
    BY <1>4, <1>5, <2>1, <2>4 DEF Released, rollVars
  <2>5. CASE TakesOver(c) \/ Recovered(c)
    BY <2>1, <2>5 DEF TakesOver, Recovered
  <2>6. CASE /\ EndCall(c) /\ UNCHANGED handoff /\ roll' \in {roll, Cancelled}
    BY <1>4, <2>6, OnlyOne DEF NoCall
  <2>7. CASE /\ \E pc \in {"prepare", "creating"} : Proceed(c, pc)
             /\ UNCHANGED <<roll, handoff>>
    <3>1. PICK pc \in {"prepare", "creating"} : Proceed(c, pc)
      BY <2>7
    <3>2. Alone(c) /\ calls'[c] = [calls[c] EXCEPT !.pc = pc]
      BY <3>1, OnlyOne
    <3>3. calls'[c].pc = pc
      BY <2>1, <3>2 DEF CallRecords
    <3>4. QED
      BY <1>4, <2>7, <3>2, <3>3
  <2>8. CASE Registered(c)
    <3>1. CASE EndCall(c)
      BY <2>6, <2>8, <3>1 DEF Registered
    <3>2. CASE calls' = [calls EXCEPT ![c].pc = "yield", ![c].session = Fresh] /\ UNCHANGED roll
      <4>1. Alone(c) /\ calls'[c] = [calls[c] EXCEPT !.pc = "yield", !.session = Fresh]
        BY <2>1, <3>2 DEF Alone
      <4>2. calls'[c].pc = "yield"
        BY <2>1, <4>1 DEF CallRecords
      <4>3. QED
        BY <1>4, <2>8, <3>2, <4>1, <4>2 DEF Registered
    <3>3. QED
      BY <2>8, <3>1, <3>2 DEF Registered, Fails
  <2>9. ASSUME NEW agent \in Agents, BeginSwitch(c, agent) PROVE Unrolled'
    <3>1. calls' = [calls EXCEPT ![c] = [Call("switch", agent, row', selected) EXCEPT
                    !.pc = "prepare", !.old = FirstOf(selected), !.was = bound]]
      BY <2>9 DEF BeginSwitch
    <3>2. calls'[c].pc = "prepare" /\ Alone(c)
      BY <2>1, <3>1 DEF Call, NoCall, Alone
    <3>3. QED
      BY <1>4, <2>9, <3>2 DEF BeginSwitch, rollVars
  <2>10. CASE \/ Checked(c) \/ Resumed(c) \/ ResumeLost(c) \/ Prepared(c) \/ NotUp(c)
              \/ Withdrawn(c) \/ Started(c) \/ CommitSwitch(c)
    BY <2>6, <2>7, <2>10 DEF Checked, Resumed, ResumeLost, Prepared, NotUp, Withdrawn, Started,
       CommitSwitch, Fails, rollVars
  <2>11. QED
    BY <1>7, <2>2, <2>3, <2>4, <2>5, <2>8, <2>9, <2>10 DEF StartSteps
<1>8. ASSUME NEW c \in Calls, BootRollsBack(c) \/ BootResumes(c) \/ BootIgnores(c) PROVE Unrolled'
  <2>1. CASE BootIgnores(c)
    BY <1>4, <2>1, OnlyOne DEF BootIgnores, rollVars, NoCall
  <2>2. CASE BootRollsBack(c) \/ BootResumes(c)
    BY <1>6, <2>2, BootEnters
  <2>3. QED
    BY <1>8, <2>1, <2>2
<1>9. CASE RollBack \/ (\E agent \in Agents : SelectAgent(agent)) \/ TurnBegins
           \/ \E s \in Sessions : TurnEnds(s)
  <2>1. UNCHANGED <<calls, handoff, roll>>
    BY <1>2, <1>9 DEF RollBack, SelectAgent, TurnBegins, TurnEnds, MayRollOver, rollVars
  <2>2. QED
    BY <2>1 DEF Unrolled, At
<1>10. CASE Crash
  <2>1. \A c \in Calls : calls'[c].pc \in {"boot", "none"}
    BY <1>10 DEF Crash, Reboot, NoCall
  <2>2. roll'.pc = "idle" /\ UNCHANGED handoff
    BY <1>10 DEF Crash, NoRoll
  <2>3. QED
    BY <2>1, <2>2 DEF Unrolled, At
<1>11. QED
  BY <1>1, <1>2, <1>7, <1>8, <1>9, <1>10 DEF Next

\* Rollovers and switches are not made at once.
Apart == \A scenario \in Scenarios : scenario.policy => scenario.left.switches = 0

\* The one or the other holds always.
LEMMA AlwaysRollovers == ASSUME Apart PROVE Spec => []Rollovers
<1>1. Init => Rollovers
  <2> SUFFICES ASSUME Init PROVE Rollovers
    OBVIOUS
  <2>1. /\ policy => left.switches = 0
        /\ roll = NoRoll /\ bound = 1 /\ live = <<1>> /\ calls = [c \in Calls |-> NoCall]
        /\ handoff = [s \in Sessions |-> Unstarted]
    BY DEF Init, Apart
  <2>2. \A s : IsLive(s) => s = bound
    BY <2>1 DEF IsLive
  <2>3. \A c \in Calls : calls[c].kind = "none" /\ calls[c].pc = "none"
    BY <2>1 DEF NoCall
  <2>4. roll.pc = "idle" /\ ~roll.byStart
    BY <2>1 DEF NoRoll
  <2>5. Rolling
    BY <2>2, <2>3, <2>4 DEF Rolling, Idle, Fits, Opening, BoundOnly, Backed, At, Sourced
  <2>6. Unrolled
    BY <2>1, <2>3, <2>4 DEF Unrolled, At, Unstarted
  <2>7. QED
    BY <2>1, <2>5, <2>6 DEF Rollovers
<1>2. Types /\ Ages /\ Rollovers /\ [Next]_vars => Rollovers'
  <2> SUFFICES ASSUME Types, Ages, Rollovers, [Next]_vars PROVE Rollovers'
    OBVIOUS
  <2>1. UNCHANGED policy /\ (left.switches = 0 => left'.switches = 0)
    BY Budgets DEF Kinds
  <2>2. QED
    BY <2>1, RollingStep, UnrolledStep DEF Rollovers
<1>3. QED
  BY <1>1, <1>2, AlwaysTypes, AlwaysAges, PTL DEF Spec

------------------------------------------------------------------------------
(* The deadlines of the calls. *)

\* A row that is over stays so until a generation begins.
LEMMA OverStays ==
    ASSUME Types, NEW c \in Calls, row.phase \in Over, row'.generation = row.generation,
           StartSteps(c) \/ BootRollsBack(c) \/ BootResumes(c) \/ BootIgnores(c)
    PROVE  row'.phase \in Over
<1>1. ~BootRollsBack(c) /\ ~BootResumes(c) /\ ~Started(c) /\ ~CommitSwitch(c) /\ ~Owns(c)
  BY DEF BootRollsBack, BootResumes, Started, CommitSwitch, Owns, MayStart, Over
<1>2. ~Ask(c)
  <2> SUFFICES ASSUME Ask(c) PROVE FALSE
    OBVIOUS
  <2> DEFINE r == StartBegun(row, selected)
             call == Call("start", selected, r, r.lastGood)
  <2>1. r.generation = row.generation + 1
    BY StartRow, TypeFacts DEF Over
  <2>2. row'.generation = r.generation
    BY AskEnters, EnterBegins
  <2>3. QED
    BY <2>1, <2>2, TypeFacts
<1>3. ASSUME NEW agent \in Agents PROVE ~BeginSwitch(c, agent)
  <2>1. row \in Rows /\ selected \in Agents /\ row.generation \in Nat
    BY TypeFacts
  <2>2. Begun(row, agent, selected).generation = row.generation + 1
    BY <2>1, BegunRow
  <2>3. QED
    BY <2>1, <2>2 DEF BeginSwitch
<1>4. CASE Fails(c) /\ ~Idle(c) /\ ~AtPc(c, "boot")
  BY <1>4, FailsRow
<1>5. CASE UNCHANGED row
  BY <1>5
<1>6. CASE Expire(c)
  BY <1>6, FailedRow, TypeFacts DEF Expire, CallOK
<1>7. CASE Recovered(c)
  <2>1. /\ ~Idle(c) /\ ~AtPc(c, "boot") /\ calls[c] \in CallRecords
        /\ calls[c].agent \in Agents /\ bound \in Known /\ row \in Rows
    BY <1>7, CallNumbers, TypeFacts DEF Recovered, AtPc, Idle, CallOK
  <2>2. LET f == AfterSuccess(calls[c], row, bound) IN f = row \/ f.phase = "rolled_back"
    BY <2>1, SucceededRow
  <2>3. QED
    BY <1>4, <1>5, <1>7, <2>1, <2>2 DEF Recovered, Over
<1>8. CASE Checked(c) \/ Resumed(c)
  BY <1>8, AnswerRow DEF Checked, Resumed, AtPc
<1>9. CASE \/ TakesOver(c) \/ ResumeLost(c) \/ Prepared(c) \/ Registered(c) \/ NotUp(c)
           \/ Withdrawn(c)
  <2>1. ~Idle(c) /\ ~AtPc(c, "boot")
    BY <1>9, CallNumbers DEF TakesOver, ResumeLost, Prepared, Registered, NotUp, Withdrawn,
       ItsTurn, AtPc, Idle
  <2>2. QED
    BY <1>1, <1>4, <1>5, <1>9, <2>1
       DEF TakesOver, ResumeLost, Prepared, Registered, NotUp, Withdrawn
<1>10. QED
  BY <1>1, <1>2, <1>3, <1>5, <1>6, <1>7, <1>8, <1>9
     DEF StartSteps, Released, BootIgnores, runtimeVars

\* A call whose caller does not wait any more has lost the row.
OwnersAreOwed == \A c \in Calls : Active(c) /\ Owns(c) => calls[c].owed

\* Without rollover this is kept: nothing brings a row back that is over.
LEMMA OwnersStayOwed ==
    ASSUME Types, Ages, Unrolled, OwnersAreOwed, [Next]_vars
    PROVE  OwnersAreOwed'
<1>1. ASSUME UNCHANGED <<row, calls>> PROVE OwnersAreOwed'
  BY <1>1 DEF OwnersAreOwed, Active, Owns, MayStart
<1>2. ~RollSteps
  BY RollCalls DEF Unrolled
<1>3. ASSUME NEW c \in Calls,
             StartSteps(c) \/ BootRollsBack(c) \/ BootResumes(c) \/ BootIgnores(c)
      PROVE  OwnersAreOwed'
  <2>1. Ends(c) \/ GoesOn(c) \/ Begins(c)
    BY <1>3, CallEffects
  <2>2. row'.generation = row.generation /\ row'.phase \notin Over => row.phase \notin Over
    BY <1>3, OverStays
  <2>3. Alone(c) /\ row.generation <= row'.generation
    BY <2>1, CallNumbers DEF Ends, GoesOn, Begins
  <2>4. ASSUME NEW d \in Calls \ {c}, Active(d)', Owns(d)' PROVE calls'[d].owed
    <3>1. calls'[d] = calls[d] /\ Active(d) /\ calls[d].generation = row'.generation
      BY <2>3, <2>4 DEF Alone, Active, Owns, MayStart
    <3>2. calls[d].generation <= row.generation /\ row'.generation \in Nat
      BY <1>3, <3>1, CallNumbers DEF Ages, Numbered
    <3>3. row'.generation = row.generation
      BY <2>3, <3>1, <3>2, CallNumbers
    <3>4. Owns(d)
      BY <2>2, <2>4, <3>1, <3>3 DEF Owns, MayStart
    <3>5. QED
      BY <3>1, <3>4 DEF OwnersAreOwed
  <2>5. ASSUME Active(c)', Owns(c)' PROVE calls'[c].owed
    <3>1. CASE Ends(c)
      BY <2>5, <3>1 DEF Ends, NoCall, Active
    <3>2. CASE GoesOn(c)
      BY <2>2, <2>5, <3>2 DEF GoesOn, Owns, MayStart, OwnersAreOwed
    <3>3. CASE Begins(c)
      BY <3>3 DEF Begins
    <3>4. QED
      BY <2>1, <3>1, <3>2, <3>3
  <2>6. QED
    BY <2>4, <2>5 DEF OwnersAreOwed
<1>4. CASE RollBack
  <2>1. UNCHANGED calls /\ row'.generation = row.generation + 1
    <3>1. row \in Rows /\ row.lastGood \in Agents
      BY TypeFacts
    <3>2. Begun(row, row.lastGood, row.lastGood) \in Rows
          /\ Begun(row, row.lastGood, row.lastGood).generation = row.generation + 1
      BY <3>1, BegunRow
    <3>3. QED
      BY <1>4, <3>2 DEF RollBack, Rows
  <2>2. ASSUME NEW c \in Calls PROVE ~(Active(c)' /\ Owns(c)')
    BY <2>1, CallNumbers DEF Active, Owns, MayStart, Ages, Numbered
  <2>3. QED
    BY <2>2 DEF OwnersAreOwed
<1>5. CASE \/ (\E agent \in Agents : SelectAgent(agent)) \/ TurnBegins
           \/ (\E s \in Sessions : TurnEnds(s)) \/ UNCHANGED vars
  BY <1>1, <1>5 DEF SelectAgent, TurnBegins, TurnEnds, vars, runtimeVars
<1>6. CASE Crash
  BY <1>6 DEF Crash, Reboot, NoCall, OwnersAreOwed, Active
<1>7. QED
  BY <1>2, <1>3, <1>4, <1>5, <1>6 DEF Next

\* Nobody switches, ...
NoSwitch == left.switches = 0 /\ \A c \in Calls : calls[c].kind # "switch"

\* ... or no deadline passes.
NoneGivenUp == left.expiries = 0 /\ \A c \in Calls : Active(c) => calls[c].owed

\* Both are kept.
LEMMA BudgetsKeep ==
    ASSUME Types, [Next]_vars
    PROVE  (NoSwitch => NoSwitch') /\ (NoneGivenUp => NoneGivenUp')
<1>1. /\ left.switches = 0 => left'.switches = 0 /\ ~Spend("switches")
      /\ left.expiries = 0 => left'.expiries = 0 /\ ~Spend("expiries")
  BY Budgets DEF Kinds, Spend
<1>2. ASSUME NEW c \in Calls,
             StartSteps(c) \/ BootRollsBack(c) \/ BootResumes(c) \/ BootIgnores(c)
      PROVE  (NoSwitch => NoSwitch') /\ (NoneGivenUp => NoneGivenUp')
  <2>1. Ends(c) \/ GoesOn(c) \/ Begins(c)
    BY <1>2, CallEffects
  <2>2. \A d \in Calls \ {c} : calls'[d] = calls[d]
    BY <2>1 DEF Ends, GoesOn, Begins, Alone
  <2>3. NoSwitch => calls'[c].kind # "switch"
    BY <1>1, <2>1 DEF Ends, GoesOn, Begins, NoCall, NoSwitch
  <2>4. NoneGivenUp => (Active(c)' => calls'[c].owed)
    BY <1>1, <2>1 DEF Ends, GoesOn, Begins, NoCall, Active, NoneGivenUp
  <2>5. QED
    BY <1>1, <2>2, <2>3, <2>4 DEF NoSwitch, NoneGivenUp, Active
<1>3. CASE Crash
  BY <1>1, <1>3 DEF Crash, Reboot, NoCall, NoSwitch, NoneGivenUp, Active
<1>4. CASE UNCHANGED calls
  BY <1>1, <1>4 DEF NoSwitch, NoneGivenUp, Active
<1>5. QED
  BY <1>2, <1>3, <1>4, RollCalls
     DEF Next, RollBack, SelectAgent, TurnBegins, TurnEnds, vars

\* Beside rollovers, no deadline passes or nobody switches.
Unhurried ==
    \A scenario \in Scenarios :
        scenario.policy => scenario.left.switches = 0 \/ scenario.left.expiries = 0

InTime == IF policy THEN NoSwitch \/ NoneGivenUp ELSE Unrolled /\ OwnersAreOwed

\* Then this holds always.
LEMMA AlwaysInTime == ASSUME Unhurried PROVE Spec => []InTime
<1>1. Init => InTime
  <2> SUFFICES ASSUME Init PROVE InTime
    OBVIOUS
  <2>1. /\ policy => left.switches = 0 \/ left.expiries = 0
        /\ roll = NoRoll /\ calls = [c \in Calls |-> NoCall]
        /\ handoff = [s \in Sessions |-> Unstarted]
    BY DEF Init, Unhurried
  <2>2. \A c \in Calls : calls[c].kind = "none" /\ calls[c].pc = "none"
    BY <2>1 DEF NoCall
  <2>3. Unrolled
    BY <2>1, <2>2 DEF Unrolled, At, NoRoll, Unstarted
  <2>4. QED
    BY <2>1, <2>2, <2>3 DEF InTime, NoSwitch, NoneGivenUp, OwnersAreOwed, Active
<1>2. Types /\ Ages /\ InTime /\ [Next]_vars => InTime'
  <2> SUFFICES ASSUME Types, Ages, InTime, [Next]_vars PROVE InTime'
    OBVIOUS
  <2>1. UNCHANGED policy
    BY Budgets
  <2>2. QED
    BY <2>1, BudgetsKeep, UnrolledStep, OwnersStayOwed DEF InTime
<1>3. QED
  BY <1>1, <1>2, AlwaysTypes, AlwaysAges, PTL DEF Spec

\* With nothing in progress the row does not say that a start is, except after a replacement
\* that was verified and not bound, as long as no deadline passes where rollovers and
\* switches are made at once (boundedSessionStart of a switch, bindCaptainRollover).
THEOREM StartsEnd == ASSUME Unhurried PROVE Spec => []NothingStartsForever
<1>1. Init => StartsAreAnswered
  BY DEF Init, StartsAreAnswered
<1>2. Types /\ Ages /\ InTime /\ StartsAreAnswered /\ [Next]_vars => StartsAreAnswered'
  <2>1. ASSUME StartsAreAnswered, UNCHANGED vars PROVE StartsAreAnswered'
    BY <2>1 DEF vars, runtimeVars, rollVars, StartsAreAnswered, Waits, Rebooting, Answers,
                Active, AtPc
  <2>2. InTime => SwitchesAreOwed
    BY DEF InTime, NoSwitch, NoneGivenUp, OwnersAreOwed, SwitchesAreOwed, Active
  <2>3. QED
    BY <2>1, <2>2, RollAnswered, OutsideAnswered, CallsAnswered DEF Next
<1>3. StartsAreAnswered => NothingStartsForever
  BY DEF StartsAreAnswered, NothingStartsForever, Quiet, NoneInFlight, Idle, Answers, Active,
         Rebooting, Waits
<1>4. QED
  BY <1>1, <1>2, <1>3, AlwaysTypes, AlwaysAges, AlwaysInTime, PTL DEF Spec

\* While the Captain is bound to the replacement, the session it replaced does not run, as long
\* as no switch begins beside a rollover.
THEOREM SourceStops == ASSUME Apart PROVE Spec => []SourceStopsFirst
<1>1. Types /\ Rollovers => SourceStopsFirst
  <2> SUFFICES ASSUME Types, Rollovers, NEW s \in Sessions, handoff[s].target # None,
                      bound = handoff[s].target, IsLive(s)
               PROVE  FALSE
    BY DEF SourceStopsFirst
  <2>1. s < bound /\ handoff[s].state # "none"
    BY DEF Types, HandoffOK
  <2>2. ~(s = bound)
    BY <2>1, TypeFacts DEF Sessions, Known
  <2>3. QED
    BY <2>1, <2>2 DEF Rollovers, Rolling, BoundOnly, Unrolled
<1>2. QED
  BY <1>1, AlwaysRollovers, AlwaysTypes, PTL

------------------------------------------------------------------------------
(* Switches without rollover: the bound session, and those of switches about to end. *)

\* The row is of the call's start.
Mine(call) == call.kind \notin {"none", "reboot"} /\ call.generation = row.generation

\* What the call that owns the row may rely on.
Relies(call) ==
    /\ call.previous = selected
    /\ call.kind = "switch" => /\ row.phase \notin Over => row.agent = call.agent
                               /\ IsLive(bound) => call.old = bound
    /\ call.kind # "switch" => /\ row.agent = selected /\ call.agent = selected
                               /\ call.pc \in {"resume", "prepare", "creating"} => live = <<>>
                               /\ call.pc \in {"resume", "check"} => bound = call.session

\* Where a call may stand; the session of a switch at its last wait is not older than the
\* bound one.
Placed(call) ==
    /\ Mine(call) => Relies(call)
    /\ call.pc = "yield" => /\ bound <= call.session /\ AgentOf(call.session) = call.agent
                            /\ call.kind = "switch" <=> call.session # bound
    /\ call.pc = "check" => call.kind = "start"
    /\ call.pc # "release"
    /\ call.pc \in {"resume", "check"} => call.seen = call.generation
    /\ call.pc = "resume" => /\ ~IsLive(call.session)
                             /\ row.phase = "healthy" => bound # call.session

\* The agent selected is the one known to be good, of the bound session, and of a healthy row.
Trusted ==
    /\ row.lastGood = selected
    /\ bound # None => keyed = selected /\ AgentOf(bound) = selected
    /\ row.phase = "healthy" => /\ row.agent = selected /\ AgentOf(row.session) = selected
                                /\ row.session # None /\ bound # None

Mapped ==
    /\ \A s \in Sessions : IsLive(s) =>
         s = bound \/ \E c \in Calls : AtPc(c, "yield") /\ calls[c].session = s
    /\ Ascending(live)

\* Calls at their last wait have sessions of their own.
OwnSessions ==
    \A c, d \in Calls :
        AtPc(c, "yield") /\ calls[d].pc \in {"yield", "resume"} /\ c # d =>
            calls[c].session # calls[d].session

Switches == Trusted /\ Mapped /\ OwnSessions /\ \A c \in Calls : Placed(calls[c])

\* The session a switch selects is up until then, and later than the one it stops.
Candidates ==
    \A d \in Calls : AtPc(d, "yield") /\ calls[d].kind = "switch" =>
        IsLive(calls[d].session) /\ calls[d].old < calls[d].session

\* What was made stays made.
Grown == /\ Len(made') \in Nat /\ Len(made) <= Len(made')
         /\ \A s \in 1 .. Len(made) : AgentOf(s)' = AgentOf(s)

\* A step makes one session at most, and changes none that was made.
LEMMA MadeGrows ==
    ASSUME Types, made' = made \/ \E agent \in Agents : Makes(agent, None)
    PROVE  Grown
<1>1. CASE made' = made
  BY <1>1, TypeFacts DEF Grown, AgentOf
<1>2. ASSUME NEW agent \in Agents, Makes(agent, None) PROVE Grown
  <2>1. /\ Len(made') = Len(made) + 1 /\ \A i \in DOMAIN made : made'[i] = made[i]
    BY <1>2, SessionMade, TypeFacts, Zenon
  <2>2. DOMAIN made = 1 .. Len(made) /\ Len(made) \in Nat
    BY DEF Types, RuntimeOK
  <2>3. QED
    BY <2>1, <2>2 DEF Grown, AgentOf
<1>3. QED
  BY <1>1, <1>2

\* The row belongs to one call, and to a start when nothing else is under way.
LEMMA OneOwner ==
    ASSUME Ages, NEW c \in Calls, Mine(calls[c])
    PROVE  \A d \in Calls \ {c} : ~Mine(calls[d]) /\ (calls[c].kind # "switch" => Idle(d))
  BY DEF Ages, Numbered, Mine, Active

\* What a failed start leaves of the row is trusted still.
LEMMA LapseTrusts ==
    ASSUME Types, Trusted, NEW c \in Calls, Active(c), Placed(calls[c]), Grown,
           UNCHANGED <<selected, bound, keyed>>,
           \/ row' = row
           \/ \E phase \in {"failed", "timed_out"} : row' = AfterFailure(calls[c], row, phase)
    PROVE  /\ Trusted' /\ row'.generation = row.generation
           /\ row' = row \/ row'.phase \in Over
           /\ ~Mine(calls[c]) => row'.agent = row.agent
           /\ Mine(calls[c]) => row'.agent \in {row.agent, selected}
           /\ Mine(calls[c]) => row' = row \/ row'.agent = selected
<1>1. /\ calls[c] \in CallRecords /\ calls[c].agent \in Agents /\ calls[c].previous \in Agents
      /\ row \in Rows /\ bound \in Nat /\ bound <= Len(made)
      /\ row.session \in Nat /\ row.session <= Len(made) /\ Len(made) \in Nat
  BY TypeFacts DEF Active, CallOK, Known
<1>2. CASE row' = row
  BY <1>1, <1>2 DEF Trusted, Grown, None
<1>3. ASSUME NEW phase \in {"failed", "timed_out"}, row' = AfterFailure(calls[c], row, phase)
      PROVE  /\ Trusted' /\ row'.generation = row.generation
             /\ row' = row \/ row'.phase \in Over
             /\ ~Mine(calls[c]) => row'.agent = row.agent
             /\ Mine(calls[c]) => row'.agent = selected
  <2>1. /\ row'.generation = row.generation
        /\ row' = row \/ row'.phase \in Over
        /\ calls[c].generation = row.generation => row'.phase \in Over
        /\ row'.lastGood \in {row.lastGood, calls[c].previous}
        /\ row'.agent \in {row.agent, calls[c].previous}
        /\ calls[c].generation # row.generation =>
             row'.lastGood = row.lastGood /\ row'.agent = row.agent
    BY <1>1, <1>3, FailedRow, Zenon
  <2>2. Mine(calls[c]) => calls[c].previous = selected
    BY DEF Placed, Relies
  <2>3. row'.lastGood = selected
    BY <2>1, <2>2 DEF Trusted, Mine, Active
  <2>4. Mine(calls[c]) => row'.agent = selected
    <3>1. SUFFICES ASSUME Mine(calls[c]) PROVE row'.agent = calls[c].previous
      BY <2>2
    <3>2. calls[c].generation = row.generation /\ calls[c].previous # NoAgent
      BY <1>1, <3>1, CaptainAssumption DEF Mine
    <3>3. QED
      BY <1>1, <1>3, <3>2 DEF AfterFailure, GivenUp, Rows
  <2>5. CASE row' = row
    BY <1>2, <2>1, <2>4, <2>5
  <2>6. CASE row'.phase \in Over
    <3>1. Trusted'
      BY <1>1, <2>3, <2>6 DEF Trusted, Grown, None, Over
    <3>2. QED
      BY <2>1, <2>4, <3>1 DEF Mine, Active
  <2>7. QED
    BY <2>1, <2>5, <2>6
<1>4. QED
  BY <1>2, <1>3

\* A call that is left alone stays where it may.
LEMMA StaysPlaced ==
    ASSUME Types, NEW d \in Calls, Placed(calls[d]), calls'[d] = calls[d], Grown,
           UNCHANGED <<selected, bound>>, row'.generation = row.generation,
           \A s \in 0 .. Len(made) : IsLive(s)' => IsLive(s),
           row'.phase = "healthy" => row.phase = "healthy",
           Mine(calls[d]) => /\ row'.agent = row.agent /\ (live = <<>> => live' = <<>>)
                             /\ row'.phase \notin Over => row.phase \notin Over
    PROVE  Placed(calls[d])'
<1>1. /\ calls[d] \in CallRecords /\ calls[d].session \in Nat /\ calls[d].session <= Len(made)
      /\ calls[d].pc \in {"yield", "resume"} => calls[d].session # None
      /\ bound \in Nat /\ bound <= Len(made) /\ Len(made) \in Nat
  BY TypeFacts DEF CallOK, CallRecords, Known
<1>2. Mine(calls[d])' <=> Mine(calls[d])
  BY DEF Mine
<1>3. IsLive(bound)' => IsLive(bound)
  BY <1>1
<1>4. Mine(calls[d])' => Relies(calls[d])'
  BY <1>2, <1>3 DEF Placed, Relies
<1>5. calls[d].pc \in {"yield", "resume"} => calls[d].session \in 1 .. Len(made)
  BY <1>1 DEF None
<1>6. QED
  BY <1>1, <1>4, <1>5 DEF Placed, Grown

\* A call that ended is where it may.
LEMMA NonePlaced == ASSUME NEW c, calls'[c] = NoCall PROVE Placed(calls[c])'
  BY DEF Placed, Mine, NoCall

\* One call changes, the others stay.
LEMMA SwitchesKeep ==
    ASSUME Types, Switches, NEW c \in Calls, Alone(c), Trusted', Mapped', Placed(calls[c])',
           UNCHANGED <<selected, bound>>, Grown, row'.generation = row.generation,
           \A s \in 0 .. Len(made) : IsLive(s)' => IsLive(s),
           row'.phase = "healthy" => row.phase = "healthy",
           \A d \in Calls \ {c} : Mine(calls[d]) =>
              /\ row'.agent = row.agent /\ (live = <<>> => live' = <<>>)
              /\ row'.phase \notin Over => row.phase \notin Over,
           calls'[c].pc \in {"yield", "resume"} =>
              \/ calls'[c].pc = calls[c].pc /\ calls'[c].session = calls[c].session
              \/ calls'[c].session > Len(made)
    PROVE  Switches'
<1>1. \A d \in Calls \ {c} : calls'[d] = calls[d]
  BY DEF Alone
<1>2. \A d \in Calls : Placed(calls[d])'
  BY <1>1, StaysPlaced DEF Switches
<1>3. \A d \in Calls : calls[d].session \in Nat /\ calls[d].session <= Len(made)
  BY TypeFacts DEF CallOK, CallRecords, Known
<1>4. OwnSessions'
  <2> SUFFICES ASSUME NEW d \in Calls, NEW e \in Calls, d # e, calls'[d].pc = "yield",
                      calls'[e].pc \in {"yield", "resume"}
               PROVE  calls'[d].session # calls'[e].session
    BY DEF OwnSessions, AtPc
  <2>1. CASE d # c /\ e # c
    BY <1>1, <2>1 DEF Switches, OwnSessions, AtPc
  <2>2. CASE d = c
    BY <1>1, <1>3, <2>2, TypeFacts DEF Switches, OwnSessions, AtPc
  <2>3. CASE e = c
    BY <1>1, <1>3, <2>3, TypeFacts DEF Switches, OwnSessions, AtPc
  <2>4. QED
    BY <2>1, <2>2, <2>3
<1>5. QED
  BY <1>2, <1>4 DEF Switches

\* One call changes, and there is no other.
LEMMA SwitchesAlone ==
    ASSUME Types, NEW c \in Calls, Alone(c), \A d \in Calls \ {c} : Idle(d),
           Trusted', Mapped', Placed(calls[c])'
    PROVE  Switches'
<1>1. \A d \in Calls \ {c} : calls'[d].kind = "none" /\ calls'[d].pc = "none"
  BY CallNumbers DEF Alone, Idle
<1>2. \A d \in Calls : Placed(calls[d])'
  BY <1>1 DEF Placed, Mine
<1>3. OwnSessions'
  BY <1>1 DEF OwnSessions, AtPc
<1>4. QED
  BY <1>2, <1>3 DEF Switches

\* The sessions of the map are as they were, and that of the call is not needed.
LEMMA MappedStays ==
    ASSUME Types, Mapped, NEW c \in Calls, Alone(c), UNCHANGED <<bound, live>>,
           AtPc(c, "yield") =>
              \/ calls[c].session = bound
              \/ calls'[c].pc = "yield" /\ calls'[c].session = calls[c].session,
           Len(made) <= Len(made'), Len(made') \in Nat
    PROVE  Mapped'
<1>1. \A s : IsLive(s)' <=> IsLive(s)
  BY LiveMoves
<1>2. \A d \in Calls \ {c} : calls'[d] = calls[d]
  BY DEF Alone
<1>3. \A s \in Sessions : IsLive(s)' =>
        s = bound' \/ \E d \in Calls : calls'[d].pc = "yield" /\ calls'[d].session = s
  BY <1>1, <1>2 DEF Mapped, AtPc
<1>4. QED
  BY <1>3 DEF Mapped, AtPc, Ascending

\* One session is taken out of the map.
LEMMA MappedWithout ==
    ASSUME Types, Mapped, NEW s, live' = Without(s)
    PROVE  /\ Ascending(live') /\ \A t : IsLive(t)' <=> IsLive(t) /\ t # s
<1>1. live \in Seq(1 .. Len(made)) /\ Distinct(live) /\ 1 .. Len(made) \in SUBSET Int
  BY TypeFacts DEF Types, LiveOK
<1>2. Ascending(RemoveFirst(live, s))
  BY <1>1, TakenOut DEF Mapped
<1>3. QED
  BY <1>2, LiveMoves DEF Without

\* A call fails before its last wait.
LEMMA SwitchesFail ==
    ASSUME Types, Ages, Switches, NEW c \in Calls, Active(c), Grown,
           UNCHANGED <<selected, bound, keyed>>, EndCall(c),
           \/ live' = live /\ (AtPc(c, "yield") => calls[c].session = bound)
           \/ live' = Without(calls[c].session),
           \/ row' = row
           \/ \E phase \in {"failed", "timed_out"} : row' = AfterFailure(calls[c], row, phase)
    PROVE  Switches'
<1>1. Alone(c) /\ calls'[c] = NoCall
  BY OnlyOne
<1>2. /\ Trusted' /\ row'.generation = row.generation
      /\ row' = row \/ row'.phase \in Over
      /\ ~Mine(calls[c]) => row'.agent = row.agent
  BY LapseTrusts DEF Switches
<1>3. \A s : IsLive(s)' => IsLive(s)
  BY LiveMoves
<1>4. Mapped'
  <2>1. CASE live' = live /\ (AtPc(c, "yield") => calls[c].session = bound)
    BY <1>1, <2>1, MappedStays DEF Switches, Grown
  <2>2. CASE live' = Without(calls[c].session)
    <3>1. Ascending(live') /\ \A t : IsLive(t)' <=> IsLive(t) /\ t # calls[c].session
      BY <2>2, MappedWithout DEF Switches
    <3>2. \A d \in Calls \ {c} : calls'[d] = calls[d]
      BY <1>1 DEF Alone
    <3>3. \A s \in Sessions : IsLive(s)' =>
            s = bound' \/ \E d \in Calls : calls'[d].pc = "yield" /\ calls'[d].session = s
      BY <3>1, <3>2 DEF Switches, Mapped, AtPc
    <3>4. QED
      BY <3>1, <3>3 DEF Mapped, AtPc
  <2>3. QED
    BY <2>1, <2>2
<1>5. \A d \in Calls \ {c} : Mine(calls[d]) => row'.agent = row.agent
  BY <1>2, OneOwner
<1>6. live = <<>> => live' = <<>>
  <2>1. SUFFICES ASSUME live = <<>>, live' = Without(calls[c].session) PROVE live' = <<>>
    OBVIOUS
  <2>2. ~(\E i \in DOMAIN live : live[i] = calls[c].session)
    BY <2>1
  <2>3. QED
    BY <2>1, <2>2 DEF Without, RemoveFirst
<1>7. row'.phase \in Over => row'.phase # "healthy"
  BY DEF Over
<1>8. /\ row'.phase = "healthy" => row.phase = "healthy"
      /\ row'.phase \notin Over => row.phase \notin Over
  BY <1>2, <1>7
<1>9. calls'[c].pc \notin {"yield", "resume"}
  BY <1>1 DEF NoCall
<1>10. QED
  BY <1>1, <1>2, <1>3, <1>4, <1>5, <1>6, <1>8, <1>9, NonePlaced, SwitchesKeep

\* A call begins, with nothing else under way.
LEMMA SwitchesEnter ==
    ASSUME Types, Unrolled, Switches, NEW c \in Calls, NEW call, NEW r \in Rows, Starts(call),
           Enter(c, call, r), \A d \in Calls \ {c} : Idle(d), ~AtPc(c, "yield"),
           selected' = selected, live = <<>> \/ call.kind = "start",
           r.lastGood = selected, r.agent = selected, r.phase = "starting",
           call.generation = r.generation, call.agent = selected, call.previous = selected
    PROVE  Switches'
<1>1. call \in CallRecords /\ call.kind \notin {"none", "switch", "reboot"} /\ bound \in Nat
  BY TypeFacts DEF Starts, Known
<1>2. PendingCreation = None
  BY NothingPending DEF Unrolled
<1>3. UNCHANGED made
  BY DEF Enter
<1>4. Current # None => Current = bound /\ IsLive(Current)
  <2>1. \A d \in Calls : ~AtPc(d, "yield")
    BY CallNumbers DEF Idle, AtPc
  <2>2. QED
    BY <2>1, CurrentFacts, LiveMoves DEF Switches, Mapped
<1>5. bound # None => keyed = selected /\ AgentOf(bound) = selected
  BY DEF Switches, Trusted
\* No session leaves the map, nor comes.
<1>6. ASSUME Alone(c), UNCHANGED <<live, bound, keyed>>, row'.lastGood = selected,
             row'.phase = "starting"
      PROVE  Trusted' /\ Mapped'
  <2>1. Trusted'
    BY <1>3, <1>5, <1>6 DEF Trusted, AgentOf
  <2>2. Mapped'
    BY <1>3, <1>6, MappedStays, TypeFacts DEF Switches
  <2>3. QED
    BY <2>1, <2>2
<1>7. CASE Current = None /\ row' = r /\ Open(c, call) /\ UNCHANGED <<keyed, live>>
  <2>1. live = <<>> /\ \A s : ~IsLive(s)'
    BY <1>7, CurrentFacts, LiveMoves
  <2>2. CASE bound # None /\ keyed \in {NoAgent, call.agent}
    <3>1. /\ bound' = bound
          /\ calls' = [calls EXCEPT ![c] =
                [call EXCEPT !.pc = "resume", !.session = bound, !.seen = r.generation]]
      BY <1>7, <2>2 DEF Open
    <3>2. /\ Alone(c) /\ calls'[c].pc = "resume" /\ calls'[c].session = bound
          /\ calls'[c].seen = r.generation /\ calls'[c].kind = call.kind
          /\ calls'[c].agent = call.agent /\ calls'[c].previous = call.previous
          /\ calls'[c].generation = call.generation
      BY <1>1, <3>1, OnlyOne DEF Alone, CallRecords
    <3>3. Placed(calls[c])'
      BY <1>1, <1>7, <2>1, <3>1, <3>2 DEF Placed, Relies, Mine
    <3>4. QED
      BY <1>6, <1>7, <3>1, <3>2, <3>3, SwitchesAlone
  <2>3. CASE ~(bound # None /\ keyed \in {NoAgent, call.agent})
    <3>1. /\ bound' = bound
          /\ calls' = [calls EXCEPT ![c] = [call EXCEPT !.pc = "prepare"]]
      BY <1>5, <1>7, <2>3 DEF Open
    <3>2. /\ Alone(c) /\ calls'[c].pc = "prepare" /\ calls'[c].kind = call.kind
          /\ calls'[c].agent = call.agent /\ calls'[c].previous = call.previous
          /\ calls'[c].generation = call.generation
      BY <1>1, <3>1, OnlyOne DEF Alone, CallRecords
    <3>3. Placed(calls[c])'
      BY <1>1, <1>7, <2>1, <3>1, <3>2 DEF Placed, Relies, Mine
    <3>4. QED
      BY <1>6, <1>7, <3>1, <3>2, <3>3, SwitchesAlone
  <2>4. QED
    BY <2>2, <2>3
<1>8. CASE /\ Current # None /\ row' = [r EXCEPT !.session = Current]
           /\ calls' = [calls EXCEPT ![c] = [call EXCEPT !.pc = "check",
                           !.session = Current, !.seen = r.generation]]
           /\ UNCHANGED <<bound, keyed, live>>
  <2>1. /\ Alone(c) /\ calls'[c].pc = "check" /\ calls'[c].session = Current
        /\ calls'[c].seen = r.generation /\ calls'[c].kind = call.kind
        /\ calls'[c].agent = call.agent /\ calls'[c].previous = call.previous
        /\ calls'[c].generation = call.generation
    BY <1>1, <1>8, OnlyOne DEF Alone, CallRecords
  <2>2. /\ row'.lastGood = selected /\ row'.agent = selected /\ row'.phase = "starting"
        /\ row'.generation = r.generation
    BY <1>8 DEF Rows
  <2>3. call.kind = "start"
    BY <1>8, CurrentFacts, LiveMoves
  <2>4. Placed(calls[c])'
    BY <1>1, <1>4, <1>8, <2>1, <2>2, <2>3 DEF Placed, Relies, Mine
  <2>5. QED
    BY <1>6, <1>8, <2>1, <2>2, <2>4, SwitchesAlone
<1>9. ~(Current # None /\ AgentOf(Current) # call.agent)
  BY <1>4, <1>5
<1>10. QED
  BY <1>2, <1>7, <1>8, <1>9 DEF Enter

\* A session enters the map.
LEMMA MappedWith ==
    ASSUME Types, Mapped, live' = Append(live, Fresh)
    PROVE  Ascending(live') /\ \A t : IsLive(t)' <=> IsLive(t) \/ t = Fresh
<1>1. live \in Seq(1 .. Len(made)) /\ Len(made) \in Nat /\ Fresh = Len(made) + 1
  BY TypeFacts DEF Types, LiveOK, Fresh
<1>2. Ascending(live) /\ \A i \in DOMAIN live : live[i] \in 1 .. Len(made)
  BY <1>1, ElementOfSeq DEF Mapped
<1>3. /\ DOMAIN live' = 1 .. Len(live) + 1 /\ DOMAIN live = 1 .. Len(live) /\ Len(live) \in Nat
      /\ live'[Len(live) + 1] = Fresh /\ \A i \in 1 .. Len(live) : live'[i] = live[i]
  BY <1>1
<1>4. ASSUME NEW i \in DOMAIN live', NEW j \in DOMAIN live', i < j PROVE live'[i] < live'[j]
  <2>1. i \in 1 .. Len(live)
    BY <1>3, <1>4
  <2>2. CASE j = Len(live) + 1
    BY <1>1, <1>2, <1>3, <2>1, <2>2
  <2>3. CASE j \in 1 .. Len(live)
    BY <1>2, <1>3, <1>4, <2>1, <2>3 DEF Ascending
  <2>4. QED
    BY <1>3, <2>2, <2>3
<1>5. QED
  BY <1>4, LiveMoves DEF Ascending

\* The call that resumed the bound session puts it in the map, with nothing else in it.
LEMMA MappedBack ==
    ASSUME Types, live = <<>>, live' = With(bound')
    PROVE  Mapped'
<1>1. live' = <<bound'>>
  BY LiveMoves DEF With
<1>2. QED
  BY <1>1 DEF Mapped, IsLive, Ascending

\* What a row made healthy, or rolled back by boot, leaves to trust.
LEMMA SucceedTrusts ==
    ASSUME Types, Trusted, NEW c \in Calls, Active(c), Mine(calls[c]), calls[c].kind # "switch",
           Relies(calls[c]), UNCHANGED <<selected, made>>, bound' = calls[c].session,
           calls[c].session # None, bound' = bound, keyed' \in {keyed, calls[c].agent},
           LET r == Verified(calls[c].session, row.agent)
           IN row' \in {row, r, AfterSuccess(calls[c], row, calls[c].session),
                        AfterSuccess(calls[c], r, calls[c].session)}
    PROVE  Trusted'
<1> DEFINE r == Verified(calls[c].session, row.agent)
<1>1. /\ calls[c] \in CallRecords /\ calls[c].agent \in Agents /\ calls[c].session \in Known
      /\ row \in Rows /\ row.agent \in Agents
  BY TypeFacts DEF Active, CallOK, CallRecords
<1>2. /\ r \in Rows /\ r.lastGood = row.agent /\ r.agent = row.agent
      /\ r.session = calls[c].session /\ r.generation = row.generation
  BY <1>1 DEF Verified, Rows, Phases, Anyone
<1> HIDE DEF r
<1>3. /\ row.agent = selected /\ calls[c].agent = selected
      /\ bound # None /\ keyed = selected /\ AgentOf(bound) = selected /\ row.lastGood = selected
  BY DEF Relies, Trusted
<1>4. ASSUME NEW q \in {row, r} PROVE
        /\ q \in Rows /\ q.lastGood = selected /\ q.agent = selected
        /\ q.phase = "healthy" => q.session # None /\ AgentOf(q.session) = selected
  BY <1>1, <1>2, <1>3 DEF Trusted
<1>5. ASSUME NEW q \in {row, r}, row' = AfterSuccess(calls[c], q, calls[c].session)
      PROVE  /\ row'.lastGood = selected
             /\ row'.phase = "healthy" => /\ row'.agent = selected /\ row'.session # None
                                          /\ AgentOf(row'.session) = selected
  <2>1. \/ row' = q
        \/ /\ row'.phase = "rolled_back" /\ row'.agent = calls[c].agent
           /\ row'.lastGood = calls[c].agent
    BY <1>1, <1>4, <1>5, SucceededRow
  <2>2. QED
    BY <1>3, <1>4, <2>1
<1>6. /\ row'.lastGood = selected
      /\ row'.phase = "healthy" => /\ row'.agent = selected /\ row'.session # None
                                   /\ AgentOf(row'.session) = selected
  BY <1>4, <1>5 DEF r
<1>7. QED
  BY <1>3, <1>6 DEF Trusted, AgentOf

\* The steps of the starts keep the invariant, one by one: the session that is up answers, ...
LEMMA SwitchesCheck ==
    ASSUME Types, Ages, Unrolled, Switches, NEW c \in Calls, Checked(c)
    PROVE  Switches'
<1>1. /\ Active(c) /\ calls[c].kind = "start" /\ calls[c].seen = calls[c].generation
      /\ ~AtPc(c, "yield") /\ calls[c] \in CallRecords /\ calls[c].agent \in Agents
      /\ calls[c].previous \in Agents /\ calls[c].session \in Known /\ calls[c].session # None
      /\ row \in Rows /\ calls[c].pc = "check"
  BY CallNumbers, TypeFacts
     DEF Checked, AtPc, Active, Switches, Placed, CallOK, CallRecords
<1>2. EndCall(c) /\ UNCHANGED <<selected, bound, keyed, made, live>>
  BY DEF Checked
<1>3. Alone(c) /\ calls'[c] = NoCall /\ Grown
  BY <1>2, OnlyOne, MadeGrows
<1>4. CASE ~MayStart(calls[c].seen)
  <2>1. \/ row' = AfterSuccess(calls[c], row, calls[c].session)
        \/ row' = AfterFailure(calls[c], row, "failed")
    BY <1>4 DEF Checked, Fenced
  <2>2. AfterSuccess(calls[c], row, calls[c].session) = row
    BY <1>1 DEF AfterSuccess
  <2>3. QED
    BY <1>1, <1>2, <1>3, <2>1, <2>2, SwitchesFail
<1>5. CASE MayStart(calls[c].seen)
  <2>1. Mine(calls[c]) /\ Relies(calls[c]) /\ \A d \in Calls \ {c} : Idle(d)
    BY <1>1, <1>5, OneOwner DEF MayStart, Mine, Active, Switches, Placed
  <2>2. bound = calls[c].session
    BY <1>1, <2>1 DEF Relies
  <2>3. Mapped'
    BY <1>1, <1>2, <1>3, MappedStays, TypeFacts DEF Switches
  <2>4. CASE row' = AfterSuccess(calls[c], Verified(calls[c].session, row.agent),
                                 calls[c].session)
    <3>1. Trusted'
      BY <1>1, <1>2, <2>1, <2>2, <2>4, SucceedTrusts DEF Switches
    <3>2. QED
      BY <1>3, <2>1, <2>3, <3>1, NonePlaced, SwitchesAlone
  <2>5. CASE row' = AfterFailure(calls[c], Unready, "failed")
    <3>1. /\ Unready \in Rows /\ Unready.lastGood = row.lastGood
          /\ Unready.generation = row.generation
      BY <1>1 DEF Unready, Rows, Phases
    <3>2. row'.phase \in Over /\ row'.lastGood \in {row.lastGood, calls[c].previous}
      <4>1. calls[c].generation = Unready.generation
        BY <2>1, <3>1 DEF Mine
      <4>2. /\ AfterFailure(calls[c], Unready, "failed").phase \in Over
            /\ AfterFailure(calls[c], Unready, "failed").lastGood
                 \in {Unready.lastGood, calls[c].previous}
        BY <1>1, <3>1, <4>1, FailedRow
      <4>3. QED
        BY <2>5, <3>1, <4>2
    <3>3. Trusted'
      BY <1>2, <2>1, <3>2 DEF Switches, Trusted, Relies, Over, AgentOf
    <3>4. QED
      BY <1>3, <2>1, <2>3, <3>3, NonePlaced, SwitchesAlone
  <2>6. QED
    BY <1>5, <2>4, <2>5 DEF Checked, Fenced
<1>6. QED
  BY <1>4, <1>5

\* ... the bound one is resumed ...
LEMMA SwitchesResume ==
    ASSUME Types, Ages, OwnersAreOwed, Switches, NEW c \in Calls, Resumed(c)
    PROVE  Switches'
<1>1. /\ Active(c) /\ calls[c].kind # "switch" /\ calls[c].seen = calls[c].generation
      /\ ~AtPc(c, "yield") /\ calls[c].pc = "resume" /\ calls[c].session # None
      /\ row.generation \in Nat
  BY CallNumbers, TypeFacts
     DEF Resumed, AtPc, Active, Switches, Placed, CallOK
<1>2. EndCall(c) /\ UNCHANGED <<selected, bound, made>>
  BY DEF Resumed
<1>3. Alone(c) /\ calls'[c] = NoCall /\ Grown
  BY <1>2, OnlyOne, MadeGrows
<1>4. CASE ~MayStart(calls[c].seen)
  <2>1. row.generation # calls[c].seen \/ row.phase \in Over
    BY <1>4 DEF MayStart
  <2>2. /\ UNCHANGED <<keyed, live>>
        /\ row' = row \/ row' = AfterFailure(calls[c], row, "failed")
    BY <1>4, <2>1 DEF Resumed, Fenced
  <2>3. QED
    BY <1>1, <1>2, <1>3, <2>2, SwitchesFail
<1>5. CASE MayStart(calls[c].seen)
  <2>1. Mine(calls[c]) /\ Relies(calls[c]) /\ \A d \in Calls \ {c} : Idle(d)
    BY <1>1, <1>5, OneOwner DEF MayStart, Mine, Active, Switches, Placed
  <2>2. bound = calls[c].session /\ live = <<>>
    BY <1>1, <2>1 DEF Relies
  <2>3. calls[c].owed
    BY <1>1, <1>5 DEF OwnersAreOwed, Owns
  <2>4. /\ row' = AfterSuccess(calls[c], Verified(calls[c].session, row.agent),
                               calls[c].session)
        /\ live' = With(calls[c].session) /\ keyed' = calls[c].agent
    BY <1>5, <2>2, <2>3 DEF Resumed, MayStart, Fenced
  <2>5. Mapped'
    BY <1>2, <2>2, <2>4, MappedBack
  <2>6. Trusted'
    BY <1>1, <1>2, <2>1, <2>2, <2>4, SucceedTrusts DEF Switches
  <2>7. QED
    BY <1>3, <2>1, <2>5, <2>6, NonePlaced, SwitchesAlone
<1>6. QED
  BY <1>4, <1>5

\* ... or lost, ...
LEMMA SwitchesLose ==
    ASSUME Types, Ages, Switches, NEW c \in Calls, ResumeLost(c)
    PROVE  Switches'
<1>1. /\ Active(c) /\ calls[c].kind # "switch" /\ ~AtPc(c, "yield") /\ calls[c].pc = "resume"
      /\ calls[c] \in CallRecords /\ Placed(calls[c])
  BY CallNumbers, TypeFacts DEF ResumeLost, AtPc, Active, Switches, CallOK
<1>2. UNCHANGED <<selected, keyed, made, live>> /\ Grown
  BY MadeGrows DEF ResumeLost
<1>3. CASE Fails(c) /\ UNCHANGED bound
  BY <1>1, <1>2, <1>3, SwitchesFail DEF Fails
<1>4. CASE /\ bound = calls[c].session /\ bound' = None /\ Proceed(c, "prepare")
           /\ UNCHANGED row
  <2>1. Alone(c) /\ calls'[c] = [calls[c] EXCEPT !.pc = "prepare"]
    BY <1>4, OnlyOne
  <2>2. /\ calls'[c].pc = "prepare" /\ calls'[c].kind = calls[c].kind
        /\ calls'[c].generation = calls[c].generation /\ calls'[c].agent = calls[c].agent
        /\ calls'[c].previous = calls[c].previous
    BY <1>1, <2>1 DEF CallRecords
  <2>3. \A d \in Calls \ {c} :
          /\ calls'[d] = calls[d] /\ calls[d].kind \in {"none", "switch"}
          /\ calls[d].pc \in {"none", "prepare", "creating", "yield"}
          /\ calls[d].session \in Nat /\ calls[d].session <= Len(made)
          /\ calls[d].pc = "yield" => calls[d].session # None /\ calls[d].kind = "switch"
    <3> SUFFICES ASSUME NEW d \in Calls \ {c}
                 PROVE  /\ calls'[d] = calls[d] /\ calls[d].kind \in {"none", "switch"}
                        /\ calls[d].pc \in {"none", "prepare", "creating", "yield"}
                        /\ calls[d].session \in Nat /\ calls[d].session <= Len(made)
                        /\ calls[d].pc = "yield" =>
                             calls[d].session # None /\ calls[d].kind = "switch"
      OBVIOUS
    <3>1. calls'[d] = calls[d] /\ CallOK(calls[d], Len(made))
      BY <2>1, TypeFacts DEF Alone
    <3>2. calls[d].kind \in {"none", "switch"}
      BY <1>1 DEF Ages, OneStart, Active
    <3>3. calls[d].session \in Nat /\ calls[d].session <= Len(made)
      BY <3>1 DEF CallOK, CallRecords, Known
    <3>4. QED
      BY <3>1, <3>2, <3>3 DEF CallOK
  <2>4. ~IsLive(bound) /\ row.phase # "healthy" /\ ~IsLive(None)' /\ \A s : IsLive(s)' <=> IsLive(s)
    BY <1>1, <1>2, <1>4, LiveMoves DEF Placed, Sessions, None
  <2>5. Trusted'
    BY <1>2, <1>4, <2>4 DEF Switches, Trusted
  <2>6. Mapped'
    <3>1. \A s \in Sessions : IsLive(s)' => \E d \in Calls : calls'[d].pc = "yield"
                                                           /\ calls'[d].session = s
      BY <1>1, <2>3, <2>4 DEF Switches, Mapped, AtPc
    <3>2. QED
      BY <1>2, <3>1 DEF Switches, Mapped, AtPc, Ascending
  <2>7. OwnSessions'
    BY <2>2, <2>3 DEF Switches, OwnSessions, AtPc
  <2>8. Placed(calls[c])'
    <3>1. Mine(calls[c])' => Mine(calls[c])
      BY <1>4, <2>2 DEF Mine
    <3>2. QED
      BY <1>1, <1>2, <1>4, <2>2, <3>1 DEF Placed, Relies
  <2>9. ASSUME NEW d \in Calls \ {c} PROVE Placed(calls[d])'
    <3>1. Placed(calls[d]) /\ (Mine(calls[d])' => Mine(calls[d]))
      BY <1>4, <2>3 DEF Switches, Mine
    <3>2. Mine(calls[d])' => Relies(calls[d])'
      BY <1>2, <1>4, <2>3, <2>4, <3>1 DEF Placed, Relies, Mine
    <3>3. QED
      BY <1>2, <1>4, <2>3, <2>4, <3>1, <3>2 DEF Placed, AgentOf, None
  <2>10. QED
    BY <2>5, <2>6, <2>7, <2>8, <2>9 DEF Switches
<1>5. QED
  BY <1>3, <1>4 DEF ResumeLost

\* The deadline passes.
LEMMA SwitchesExpire ==
    ASSUME Types, Ages, Switches, NEW c \in Calls, Expire(c)
    PROVE  Switches'
<1>1. /\ Active(c) /\ calls[c] \in CallRecords /\ Placed(calls[c]) /\ calls[c].agent \in Agents
      /\ calls[c].previous \in Agents /\ row \in Rows /\ DOMAIN calls = Calls
      /\ calls[c].session \in Nat /\ calls[c].session <= Len(made) /\ bound \in Nat
  BY TypeFacts DEF Expire, Active, Switches, CallOK, CallRecords, Known, Types, CallsOK
<1>2. /\ UNCHANGED <<selected, bound, keyed, made, live>>
      /\ row' = AfterFailure(calls[c], row, "timed_out")
      /\ calls' = [calls EXCEPT ![c].owed = FALSE] /\ Grown
  BY MadeGrows DEF Expire
<1>3. /\ Alone(c) /\ calls'[c].kind = calls[c].kind /\ calls'[c].pc = calls[c].pc
      /\ calls'[c].generation = calls[c].generation /\ calls'[c].agent = calls[c].agent
      /\ calls'[c].previous = calls[c].previous /\ calls'[c].old = calls[c].old
      /\ calls'[c].session = calls[c].session /\ calls'[c].seen = calls[c].seen
  BY <1>1, <1>2 DEF Alone, CallRecords
<1>4. /\ Trusted' /\ row'.generation = row.generation
      /\ row' = row \/ row'.phase \in Over
      /\ ~Mine(calls[c]) => row'.agent = row.agent
      /\ Mine(calls[c]) => row' = row \/ row'.agent = selected
  BY <1>1, <1>2, LapseTrusts DEF Switches
<1>5. \A s : IsLive(s)' <=> IsLive(s)
  BY <1>2, LiveMoves
<1>6. /\ row'.phase = "healthy" => row.phase = "healthy"
      /\ row'.phase \notin Over => row' = row
  BY <1>4 DEF Over
<1>7. Mapped'
  BY <1>2, <1>3, MappedStays DEF Switches, Grown, AtPc
<1>8. Placed(calls[c])'
  <2>1. Mine(calls[c])' <=> Mine(calls[c])
    BY <1>3, <1>4 DEF Mine
  <2>2. Mine(calls[c])' => Relies(calls[c])'
    <3>1. SUFFICES ASSUME Mine(calls[c]), Relies(calls[c]) PROVE Relies(calls[c])'
      BY <1>1, <2>1 DEF Placed
    <3>2. calls[c].kind # "switch" => row'.agent = selected
      BY <1>4, <3>1 DEF Relies
    <3>3. QED
      BY <1>2, <1>3, <1>5, <1>6, <3>1, <3>2 DEF Relies
  <2>3. QED
    BY <1>1, <1>2, <1>3, <1>5, <1>6, <2>2 DEF Placed, AgentOf
<1>9. \A d \in Calls \ {c} : Mine(calls[d]) => row'.agent = row.agent
  BY <1>4, OneOwner
<1>10. QED
  BY <1>2, <1>3, <1>4, <1>5, <1>6, <1>7, <1>8, <1>9, SwitchesKeep

\* The server comes up, or nothing does.
LEMMA SwitchesPrepare ==
    ASSUME Types, Ages, Switches, NEW c \in Calls, Prepared(c) \/ NotUp(c)
    PROVE  Switches'
<1>1. /\ Active(c) /\ ~AtPc(c, "yield") /\ calls[c] \in CallRecords /\ Placed(calls[c])
  BY CallNumbers, TypeFacts DEF Prepared, NotUp, AtPc, Active, Switches, CallOK
<1>2. UNCHANGED <<selected, bound, keyed, made, live>> /\ Grown
  BY MadeGrows DEF Prepared, NotUp
<1>3. CASE Fails(c)
  BY <1>1, <1>2, <1>3, SwitchesFail DEF Fails
<1>4. CASE Proceed(c, "creating") /\ UNCHANGED row /\ AtPc(c, "prepare")
  <2>1. Alone(c) /\ calls'[c] = [calls[c] EXCEPT !.pc = "creating"]
    BY <1>4, OnlyOne
  <2>2. /\ calls'[c].pc = "creating" /\ calls'[c].kind = calls[c].kind
        /\ calls'[c].generation = calls[c].generation /\ calls'[c].agent = calls[c].agent
        /\ calls'[c].previous = calls[c].previous /\ calls'[c].old = calls[c].old
    BY <1>1, <2>1 DEF CallRecords
  <2>3. \A s : IsLive(s)' <=> IsLive(s)
    BY <1>2, LiveMoves
  <2>4. Placed(calls[c])'
    <3>1. Mine(calls[c])' => Mine(calls[c])
      BY <1>4, <2>2 DEF Mine
    <3>2. Mine(calls[c]) => Relies(calls[c])'
      BY <1>1, <1>2, <1>4, <2>2, <2>3 DEF Placed, Relies, AtPc
    <3>3. QED
      BY <2>2, <3>1, <3>2 DEF Placed
  <2>5. Trusted'
    BY <1>2, <1>4 DEF Switches, Trusted, AgentOf
  <2>6. Mapped'
    BY <1>1, <1>2, <2>1, MappedStays, TypeFacts DEF Switches
  <2>7. QED
    BY <1>2, <1>4, <2>1, <2>2, <2>3, <2>4, <2>5, <2>6, SwitchesKeep
<1>5. QED
  BY <1>3, <1>4 DEF Prepared, NotUp

\* A session is registered.
LEMMA SwitchesRegister ==
    ASSUME Types, Ages, Switches, NEW c \in Calls, Registered(c)
    PROVE  Switches'
<1>1. /\ Active(c) /\ ~AtPc(c, "yield") /\ calls[c] \in CallRecords /\ Placed(calls[c])
      /\ calls[c].pc = "creating" /\ calls[c].agent \in Agents
  BY CallNumbers, TypeFacts DEF Registered, AtPc, Active, Switches, CallOK
<1>2. UNCHANGED <<selected>> /\ Makes(calls[c].agent, None)
  BY DEF Registered
<1>3. Grown /\ Fresh = Len(made) + 1 /\ Fresh # None /\ Fresh \in Nat
      /\ made'[Fresh].agent = calls[c].agent
  <2>1. made'[Fresh] = [agent |-> calls[c].agent, source |-> None]
    BY <1>1, <1>2, SessionMade, TypeFacts, Zenon
  <2>2. Fresh = Len(made) + 1 /\ Fresh # None /\ Fresh \in Nat
    BY TypeFacts DEF Fresh, None
  <2>3. made'[Fresh].agent = calls[c].agent
    BY <2>1
  <2>4. Grown
    BY <1>1, <1>2, MadeGrows
  <2>5. QED
    BY <2>2, <2>3, <2>4
<1>4. CASE Fails(c) /\ UNCHANGED <<bound, keyed, live>>
  BY <1>1, <1>2, <1>3, <1>4, SwitchesFail DEF Fails
<1>5. CASE /\ Owns(c) /\ live' = Append(live, Fresh)
           /\ calls' = [calls EXCEPT ![c].pc = "yield", ![c].session = Fresh]
           /\ IF calls[c].kind = "switch"
              THEN row' = Verifying(Fresh) /\ UNCHANGED <<bound, keyed>>
              ELSE /\ row' = Verified(Fresh, row.agent)
                   /\ bound' = Fresh /\ keyed' = calls[c].agent
  <2>1. Alone(c) /\ calls'[c] = [calls[c] EXCEPT !.pc = "yield", !.session = Fresh]
    BY <1>5, OnlyOne DEF Alone
  <2>2. /\ calls'[c].pc = "yield" /\ calls'[c].session = Fresh /\ calls'[c].kind = calls[c].kind
        /\ calls'[c].generation = calls[c].generation /\ calls'[c].agent = calls[c].agent
        /\ calls'[c].previous = calls[c].previous /\ calls'[c].old = calls[c].old
    BY <1>1, <2>1 DEF CallRecords
  <2>3. /\ Mine(calls[c]) /\ Relies(calls[c]) /\ row.phase \notin Over
        /\ \A d \in Calls \ {c} : ~Mine(calls[d]) /\ (calls[c].kind # "switch" => Idle(d))
    BY <1>1, <1>5, OneOwner DEF Owns, MayStart, Mine, Active, Placed
  <2>4. /\ Ascending(live') /\ \A t : IsLive(t)' <=> IsLive(t) \/ t = Fresh
    BY <1>5, MappedWith DEF Switches
  <2>5. /\ bound \in Nat /\ bound <= Len(made) /\ Len(made) \in Nat /\ row \in Rows
        /\ row.agent \in Agents
    BY TypeFacts DEF Known
  <2>6. CASE calls[c].kind = "switch"
    <3>1. /\ row'.phase = "starting" /\ row'.agent = row.agent /\ row'.lastGood = row.lastGood
          /\ row'.generation = row.generation /\ UNCHANGED <<bound, keyed>>
      <4>1. row' = [row EXCEPT !.phase = "starting", !.session = Fresh]
        BY <1>5, <2>6 DEF Verifying
      <4>2. QED
        BY <1>5, <2>5, <2>6, <4>1 DEF Rows
    <3>2. Trusted'
      BY <1>2, <1>3, <2>5, <3>1 DEF Switches, Trusted, Grown, None
    <3>3. Mapped'
      <4>1. \A s \in Sessions : IsLive(s)' =>
              s = bound' \/ \E d \in Calls : calls'[d].pc = "yield" /\ calls'[d].session = s
        <5>1. \A d \in Calls \ {c} : calls'[d] = calls[d]
          BY <2>1 DEF Alone
        <5>2. \A s \in Sessions : IsLive(s) => s = bound \/
                \E d \in Calls \ {c} : calls[d].pc = "yield" /\ calls[d].session = s
          BY <1>1 DEF Switches, Mapped, AtPc
        <5>3. QED
          BY <2>2, <2>4, <3>1, <5>1, <5>2
      <4>2. QED
        BY <2>4, <4>1 DEF Mapped, AtPc
    <3>4. Placed(calls[c])'
      <4>1. IsLive(bound)' => IsLive(bound)
        BY <1>3, <2>4, <2>5, <3>1
      <4>2. Relies(calls[c])'
        BY <1>2, <2>2, <2>3, <2>6, <3>1, <4>1 DEF Relies
      <4>3. QED
        BY <1>3, <2>2, <2>5, <2>6, <3>1, <4>2 DEF Placed, AgentOf
    <3>5. \A s \in 0 .. Len(made) : IsLive(s)' => IsLive(s)
      BY <1>3, <2>4, <2>5
    <3>6. calls'[c].session > Len(made)
      BY <1>3, <2>2, <2>5
    <3>7. row'.phase # "healthy" /\ \A d \in Calls \ {c} : ~Mine(calls[d])
      BY <2>3, <3>1
    <3>8. QED
      BY <1>2, <1>3, <2>1, <3>1, <3>2, <3>3, <3>4, <3>5, <3>6, <3>7, SwitchesKeep
  <2>7. CASE calls[c].kind # "switch"
    <3>1. /\ row'.phase = "healthy" /\ row'.agent = row.agent /\ row'.lastGood = row.agent
          /\ row'.session = Fresh /\ row'.generation = row.generation
          /\ bound' = Fresh /\ keyed' = calls[c].agent
      <4>1. row' = [row EXCEPT !.phase = "healthy", !.session = Fresh, !.due = FALSE,
                               !.candidate = NoAgent, !.lastGood = row.agent]
        BY <1>5, <2>7 DEF Verified
      <4>2. QED
        BY <1>5, <2>5, <2>7, <4>1 DEF Rows
    <3>2. /\ row.agent = selected /\ calls[c].agent = selected /\ live = <<>>
          /\ calls[c].previous = selected
      BY <1>1, <2>3, <2>7 DEF Relies
    <3>3. Trusted'
      BY <1>2, <1>3, <3>1, <3>2 DEF Trusted, AgentOf
    <3>4. Mapped'
      BY <2>4, <3>1, <3>2, LiveMoves DEF Mapped
    <3>5. Placed(calls[c])'
      BY <1>2, <1>3, <2>2, <2>5, <2>7, <3>1, <3>2 DEF Placed, Relies, AgentOf
    <3>6. QED
      BY <2>1, <2>3, <2>7, <3>3, <3>4, <3>5, SwitchesAlone
  <2>8. QED
    BY <2>6, <2>7
<1>6. QED
  BY <1>4, <1>5 DEF Registered

\* It is withdrawn, or the start is over.
LEMMA SwitchesStart ==
    ASSUME Types, Ages, Unrolled, Switches, NEW c \in Calls, Withdrawn(c) \/ Started(c)
    PROVE  Switches'
<1>1. /\ Active(c) /\ calls[c] \in CallRecords /\ Placed(calls[c]) /\ calls[c].pc = "yield"
      /\ calls[c].session # None
  BY CallNumbers, TypeFacts DEF Withdrawn, Started, ItsTurn, AtPc, Active, Switches, CallOK
<1>2. UNCHANGED <<selected, bound, keyed, made>> /\ Grown /\ EndCall(c)
  BY MadeGrows DEF Withdrawn, Started, Fails
<1>3. CASE Withdrawn(c)
  <2>1. live' = Without(calls[c].session) /\ Fails(c)
    BY <1>3 DEF Withdrawn, Stops, Unrolled, At
  <2>2. QED
    BY <1>1, <1>2, <2>1, SwitchesFail DEF Fails
<1>4. CASE Started(c)
  <2>1. /\ Mine(calls[c]) /\ Relies(calls[c]) /\ calls[c].kind # "switch"
        /\ \A d \in Calls \ {c} : Idle(d)
    BY <1>1, <1>4, OneOwner DEF Started, Owns, MayStart, Mine, Active, Placed
  <2>2. bound = calls[c].session
    BY <1>1, <2>1 DEF Placed
  <2>3. Alone(c) /\ calls'[c] = NoCall /\ live' = live
    BY <1>2, <1>4, OnlyOne DEF Started
  <2>4. Mapped'
    BY <1>2, <2>2, <2>3, MappedStays, TypeFacts DEF Switches
  <2>5. Trusted'
    BY <1>1, <1>2, <1>4, <2>1, <2>2, SucceedTrusts DEF Started, Switches
  <2>6. QED
    BY <2>1, <2>3, <2>4, <2>5, NonePlaced, SwitchesAlone
<1>5. QED
  BY <1>3, <1>4

\* The candidate is selected, and the session of the agent before is stopped.
LEMMA SwitchesCommit ==
    ASSUME Types, Ages, Unrolled, Switches, Candidates, NEW c \in Calls, CommitSwitch(c)
    PROVE  Switches'
<1>1. /\ Active(c) /\ calls[c] \in CallRecords /\ Placed(calls[c]) /\ calls[c].pc = "yield"
      /\ calls[c].session # None /\ calls[c].kind = "switch" /\ calls[c].session \in Nat
      /\ calls[c].agent \in Agents /\ row \in Rows /\ calls[c].session \in Known
      /\ bound \in Nat /\ bound <= calls[c].session
      /\ AgentOf(calls[c].session) = calls[c].agent
  BY CallNumbers, TypeFacts
     DEF CommitSwitch, ItsTurn, AtPc, Active, Switches, CallOK, CallRecords, Known, Placed
<1>2. /\ selected' = calls[c].agent /\ bound' = calls[c].session /\ keyed' = calls[c].agent
      /\ row' = [Verified(calls[c].session, calls[c].agent) EXCEPT !.agent = calls[c].agent]
      /\ live' = Without(calls[c].old) /\ EndCall(c) /\ UNCHANGED made
  BY <1>1 DEF CommitSwitch, Stops, Unrolled, At, Candidates, AtPc
<1>3. /\ Mine(calls[c]) /\ Relies(calls[c]) /\ \A d \in Calls \ {c} : ~Mine(calls[d])
  BY <1>1, OneOwner DEF CommitSwitch, Owns, MayStart, Mine, Active, Placed
<1>4. /\ row'.agent = calls[c].agent /\ row'.lastGood = calls[c].agent
      /\ row'.session = calls[c].session /\ row'.generation = row.generation
  BY <1>1, <1>2 DEF Verified, Rows, Anyone
<1>5. Trusted'
  BY <1>1, <1>2, <1>4 DEF Trusted, AgentOf
<1>6. /\ Alone(c) /\ calls'[c] = NoCall /\ \A d \in Calls \ {c} : calls'[d] = calls[d]
  BY <1>2, OnlyOne DEF Alone
<1>7. Ascending(live') /\ \A t : IsLive(t)' <=> IsLive(t) /\ t # calls[c].old
  BY <1>2, MappedWithout DEF Switches
<1>8. IsLive(bound) => calls[c].old = bound
  BY <1>1, <1>3 DEF Relies
<1>9. Mapped'
  <2>1. \A s \in Sessions : IsLive(s)' =>
          s = bound' \/ \E d \in Calls : calls'[d].pc = "yield" /\ calls'[d].session = s
    BY <1>2, <1>6, <1>7, <1>8 DEF Switches, Mapped, AtPc
  <2>2. QED
    BY <1>7, <2>1 DEF Mapped, AtPc
<1>10. OwnSessions'
  BY <1>6 DEF Switches, OwnSessions, AtPc, NoCall
\* The others that wait for their turn came later.
<1>11. \A d \in Calls \ {c} : AtPc(d, "yield") =>
          /\ calls[c].session <= calls[d].session /\ calls[d].session # calls[c].session
          /\ calls[d].kind = "switch"
  <2>1. SUFFICES ASSUME NEW d \in Calls \ {c}, AtPc(d, "yield")
                 PROVE  /\ calls[c].session <= calls[d].session
                        /\ calls[d].session # calls[c].session /\ calls[d].kind = "switch"
    OBVIOUS
  <2>2. calls[c].session <= calls[d].session
    BY <2>1 DEF CommitSwitch, ItsTurn
  <2>3. calls[d].session # calls[c].session
    BY <1>1, <2>1 DEF Switches, OwnSessions, AtPc
  <2>4. Placed(calls[d]) /\ calls[d].session \in Nat
    BY TypeFacts DEF Switches, CallOK, CallRecords, Known
  <2>5. QED
    BY <1>1, <2>1, <2>2, <2>3, <2>4 DEF Placed, AtPc
<1>12. ASSUME NEW d \in Calls \ {c} PROVE Placed(calls[d])'
  <2>1. ~Mine(calls[d])' /\ Placed(calls[d])
    BY <1>3, <1>4, <1>6 DEF Mine, Switches
  <2>2. calls[d].pc = "resume" => calls[d].session # bound'
    BY <1>1, <1>2 DEF Switches, OwnSessions, AtPc
  <2>3. QED
    BY <1>2, <1>6, <1>7, <1>11, <2>1, <2>2 DEF Placed, AgentOf, AtPc
<1>13. QED
  BY <1>5, <1>6, <1>9, <1>10, <1>12, NonePlaced DEF Switches

\* A call of an older start stays where it may when the next one begins.
LEMMA OlderPlaced ==
    ASSUME Types, Ages, NEW d \in Calls, Placed(calls[d]), calls'[d] = calls[d],
           row'.generation = row.generation + 1, row'.phase # "healthy",
           UNCHANGED <<bound, live, made>>
    PROVE  Placed(calls[d])'
<1>1. row.generation \in Nat /\ calls[d].generation \in Nat
  BY CallNumbers
<1>2. ~Mine(calls[d])'
  BY <1>1 DEF Ages, Numbered, Active, Mine
<1>3. \A s : IsLive(s)' <=> IsLive(s)
  BY LiveMoves
<1>4. QED
  BY <1>2, <1>3 DEF Placed, AgentOf

\* The first session of the selected agent is the bound one, if that is in the map.
LEMMA BoundIsFirst ==
    ASSUME Types, Switches, IsLive(bound)
    PROVE  FirstOf(selected) = bound
<1>1. bound \in Sessions /\ bound # None
  BY LiveMoves DEF Sessions, None
<1>2. PICK k \in DOMAIN live : live[k] = bound
  BY DEF IsLive
<1>3. AgentOf(bound) = selected
  BY <1>1 DEF Switches, Trusted
<1>4. FirstOf(selected) # None
  BY <1>2, <1>3, FirstFacts
<1>5. PICK i \in DOMAIN live : FirstOf(selected) = live[i] /\ i <= k
  BY <1>2, <1>3, <1>4, FirstFacts
<1>6. live[i] \in Sessions
  BY LiveMoves DEF IsLive
<1>7. live[i] = bound \/ bound <= live[i]
  BY <1>6 DEF Switches, Mapped, IsLive, AtPc, Placed
<1>8. i < k => live[i] < live[k]
  BY DEF Switches, Mapped, Ascending
<1>9. i \in Nat /\ k \in Nat
  <2>1. DOMAIN live = 1 .. Len(live)
    BY DEF Types, LiveOK
  <2>2. QED
    BY <2>1
<1>10. i = k
  BY <1>1, <1>2, <1>5, <1>6, <1>7, <1>8, <1>9 DEF Sessions
<1>11. QED
  BY <1>2, <1>5, <1>10

\* A switch begins with the session it will stop.
LEMMA SwitchesBegin ==
    ASSUME Types, Ages, Switches, NEW c \in Calls, NEW agent \in Agents, BeginSwitch(c, agent)
    PROVE  Switches'
<1>1. /\ row' = Begun(row, agent, selected) /\ UNCHANGED <<selected, bound, keyed, made, live>>
      /\ calls' = [calls EXCEPT ![c] =
             [Call("switch", agent, row', selected) EXCEPT
                !.pc = "prepare", !.old = FirstOf(selected), !.was = bound]]
  BY DEF BeginSwitch, rollVars
<1>2. /\ row'.generation = row.generation + 1 /\ row'.agent = agent /\ row'.lastGood = selected
      /\ row'.phase = "starting"
  <2>1. row \in Rows /\ selected \in Agents
    BY TypeFacts
  <2>2. /\ Begun(row, agent, selected).generation = row.generation + 1
        /\ Begun(row, agent, selected).agent = agent
        /\ Begun(row, agent, selected).lastGood = selected
        /\ Begun(row, agent, selected).phase = "starting"
    BY <2>1, BegunRow
  <2>3. row' = Begun(row, agent, selected)
    BY <1>1
  <2>4. QED
    BY <2>2, <2>3
<1>3. /\ calls'[c].kind = "switch" /\ calls'[c].pc = "prepare" /\ calls'[c].agent = agent
      /\ calls'[c].previous = selected /\ calls'[c].old = FirstOf(selected)
  BY <1>1, OnlyOne DEF Call, NoCall
<1>4. Alone(c) /\ \A d \in Calls \ {c} : calls'[d] = calls[d]
  BY <1>1, OnlyOne DEF Alone
<1>5. IsLive(bound)' => calls'[c].old = bound'
  BY <1>1, <1>3, LiveMoves, BoundIsFirst
<1>6. Placed(calls[c])'
  BY <1>1, <1>2, <1>3, <1>5 DEF Placed, Relies
<1>7. \A d \in Calls \ {c} : Placed(calls[d])'
  BY <1>1, <1>2, <1>4, OlderPlaced DEF Switches
<1>8. Trusted'
  BY <1>1, <1>2 DEF Switches, Trusted, AgentOf
<1>9. Mapped'
  <2>1. ~AtPc(c, "yield")
    BY CallNumbers DEF BeginSwitch, Idle, AtPc
  <2>2. QED
    BY <1>1, <1>4, <2>1, MappedStays, TypeFacts DEF Switches
<1>10. OwnSessions'
  BY <1>3, <1>4 DEF Switches, OwnSessions, AtPc
<1>11. QED
  BY <1>6, <1>7, <1>8, <1>9, <1>10 DEF Switches

\* The roll-back selects the agent that is selected still.
LEMMA SwitchesBack ==
    ASSUME Types, Ages, Switches, RollBack
    PROVE  Switches'
<1>1. /\ selected' = row.lastGood /\ UNCHANGED <<bound, keyed, made, live, calls>>
      /\ row' = [Begun(row, row.lastGood, row.lastGood) EXCEPT
                   !.phase = "rolled_back", !.due = FALSE, !.session = bound,
                   !.candidate = row.candidate]
  BY DEF RollBack, rollVars
<1>2. selected' = selected
  BY <1>1 DEF Switches, Trusted
<1>3. /\ row'.generation = row.generation + 1 /\ row'.lastGood = selected
      /\ row'.phase = "rolled_back"
  <2> DEFINE r == Begun(row, row.lastGood, row.lastGood)
  <2>0. row \in Rows /\ row.lastGood \in Agents
    BY TypeFacts
  <2>1. r \in Rows /\ r.generation = row.generation + 1 /\ r.lastGood = row.lastGood
    BY <2>0, BegunRow
  <2>2. row' = [r EXCEPT !.phase = "rolled_back", !.due = FALSE, !.session = bound,
                         !.candidate = row.candidate]
    BY <1>1
  <2> HIDE DEF r
  <2>3. QED
    BY <1>1, <1>2, <2>1, <2>2 DEF Rows
<1>4. Trusted'
  BY <1>1, <1>2, <1>3 DEF Switches, Trusted, AgentOf
<1>5. Mapped' /\ OwnSessions'
  BY <1>1, LiveMoves DEF Switches, Mapped, OwnSessions, AtPc, Ascending
<1>6. \A d \in Calls : Placed(calls[d])'
  BY <1>1, <1>3, OlderPlaced DEF Switches
<1>7. QED
  BY <1>4, <1>5, <1>6 DEF Switches

\* A step that is not of a start: nothing changes for the switches, or the process dies.
LEMMA SwitchesOutside ==
    ASSUME Types, Switches,
           \/ UNCHANGED <<selected, bound, keyed, row, made, live, calls>>
           \/ Crash
    PROVE  Switches'
<1>1. CASE UNCHANGED <<selected, bound, keyed, row, made, live, calls>>
  <2>1. \A s : IsLive(s)' <=> IsLive(s)
    BY <1>1, LiveMoves
  <2>2. QED
    BY <1>1, <2>1 DEF Switches, Trusted, Mapped, OwnSessions, AtPc, Placed, Relies, Mine,
                      AgentOf, Ascending
<1>2. CASE Crash
  <2>1. UNCHANGED <<selected, bound, keyed, row, made>> /\ live' = <<>>
    BY <1>2 DEF Crash
  <2>2. \A d \in Calls : calls'[d].kind \in {"none", "reboot"} /\ calls'[d].pc \in {"none", "boot"}
    BY <1>2 DEF Crash, Reboot, NoCall
  <2>3. Trusted'
    BY <2>1 DEF Switches, Trusted, AgentOf
  <2>4. Mapped' /\ OwnSessions'
    BY <2>1, <2>2, LiveMoves DEF Mapped, OwnSessions, AtPc, Ascending
  <2>5. \A d \in Calls : Placed(calls[d])'
    BY <2>2 DEF Placed, Mine
  <2>6. QED
    BY <2>3, <2>4, <2>5 DEF Switches
<1>3. QED
  BY <1>1, <1>2

\* A request begins a start of the selected agent, ...
LEMMA SwitchesAsk ==
    ASSUME Types, Ages, Unrolled, Switches, NEW c \in Calls, Ask(c)
    PROVE  Switches'
<1> DEFINE r == StartBegun(row, selected)
           call == Call("start", selected, r, r.lastGood)
<1>1. /\ Enter(c, call, r) /\ Starts(call) /\ r \in Rows
      /\ call.kind = "start" /\ call.generation = r.generation
      /\ call.agent = selected /\ call.previous = row.lastGood
      /\ r.phase = "starting" /\ r.agent = selected /\ r.lastGood = row.lastGood
  BY AskEnters, Zenon
<1> HIDE DEF call, r
<1>2. /\ selected' = selected /\ row.lastGood = selected
      /\ \A d \in Calls : Idle(d)
  BY DEF Ask, NoneInFlight, Switches, Trusted
<1>3. ~AtPc(c, "yield")
  BY <1>2, CallNumbers DEF Idle, AtPc
<1>4. QED
  BY <1>1, <1>2, <1>3, SwitchesEnter

\* ... and so does boot.
LEMMA SwitchesBoot ==
    ASSUME Types, Ages, Unrolled, Switches, NEW c \in Calls,
           BootRollsBack(c) \/ BootResumes(c) \/ BootIgnores(c)
    PROVE  Switches'
<1>1. /\ AtPc(c, "boot") /\ calls[c].kind = "reboot" /\ ~AtPc(c, "yield")
      /\ \A d \in Calls \ {c} : Idle(d)
  BY CallNumbers DEF BootRollsBack, BootResumes, BootIgnores, AtPc, Ages, OneStart
<1>2. live = <<>> /\ row.lastGood = selected
  BY <1>1 DEF Ages, Rebooted, Rebooting, Switches, Trusted
<1>3. CASE BootRollsBack(c) \/ BootResumes(c)
  <2>1. PICK call, r :
          /\ Enter(c, call, r) /\ Starts(call) /\ r \in Rows
          /\ call.generation = r.generation /\ call.agent = r.agent
          /\ call.previous = row.lastGood /\ r.phase = "starting" /\ r.lastGood = row.lastGood
          /\ r.agent = IF BootRollsBack(c) THEN row.lastGood ELSE row.agent
    BY <1>3, BootEnters, Zenon
  <2>2. ~BootRollsBack(c) => row.agent = selected
    BY <1>3 DEF BootResumes, Switches, Trusted
  <2>3. selected' = selected
    BY <1>2, <1>3 DEF BootRollsBack, BootResumes
  <2>4. QED
    BY <1>1, <1>2, <2>1, <2>2, <2>3, SwitchesEnter
<1>4. CASE BootIgnores(c)
  <2>1. EndCall(c) /\ UNCHANGED <<selected, bound, keyed, row, made, live>>
    BY <1>4 DEF BootIgnores, runtimeVars
  <2>2. Alone(c) /\ calls'[c] = NoCall
    BY <2>1, OnlyOne
  <2>3. Trusted'
    BY <2>1 DEF Switches, Trusted, AgentOf
  <2>4. Mapped'
    BY <1>1, <2>1, <2>2, MappedStays, TypeFacts DEF Switches
  <2>5. QED
    BY <1>1, <2>2, <2>3, <2>4, NonePlaced, SwitchesAlone
<1>5. QED
  BY <1>3, <1>4

\* In the map after the step.
Kept(s) == \E i \in DOMAIN live' : live'[i] = s

\* This is what the map of the next state says.
LEMMA KeptIsLive == \A s : Kept(s) <=> IsLive(s)'
  BY DEF Kept, IsLive

\* One call changes; no session leaves the map that a call at its last wait has.
LEMMA CandidatesKeep ==
    ASSUME Candidates, NEW c \in Calls, Alone(c),
           calls'[c].pc = "yield" =>
             /\ calls[c].pc = "yield" /\ calls'[c].kind = calls[c].kind
             /\ calls'[c].session = calls[c].session /\ calls'[c].old = calls[c].old,
           \A d \in Calls : calls'[d].pc = "yield" /\ calls'[d].kind = "switch"
                            /\ IsLive(calls[d].session) => Kept(calls'[d].session)
    PROVE  Candidates'
<1>1. SUFFICES ASSUME NEW d \in Calls, calls'[d].pc = "yield", calls'[d].kind = "switch"
               PROVE  Kept(calls'[d].session) /\ calls'[d].old < calls'[d].session
  BY DEF Candidates, AtPc, IsLive, Kept
<1>2. /\ calls[d].pc = "yield" /\ calls'[d].kind = calls[d].kind
      /\ calls'[d].session = calls[d].session /\ calls'[d].old = calls[d].old
  BY <1>1 DEF Alone
<1>3. IsLive(calls[d].session) /\ calls[d].old < calls[d].session
  BY <1>1, <1>2 DEF Candidates, AtPc
<1>4. QED
  BY <1>1, <1>2, <1>3

\* A candidate is in the map from when it is registered, later than the session to be stopped, ...
LEMMA CandidatesRegister ==
    ASSUME Types, Candidates, NEW c \in Calls, Registered(c)
    PROVE  Candidates'
<1>1. /\ calls[c] \in CallRecords /\ calls[c].old <= Len(made) /\ Fresh = Len(made) + 1
      /\ Len(made) \in Nat /\ calls[c].old \in Nat
  BY TypeFacts DEF CallOK, CallRecords, Known, Fresh
<1>2. CASE Fails(c) /\ UNCHANGED live
  <2>1. Alone(c) /\ calls'[c].pc = "none"
    BY <1>2, OnlyOne DEF Fails, NoCall
  <2>2. \A s : Kept(s) <=> IsLive(s)
    BY <1>2, LiveMoves, KeptIsLive
  <2>3. \A d \in Calls : calls'[d].pc = "yield" => calls'[d] = calls[d]
    BY <2>1 DEF Alone
  <2>4. QED
    BY <2>1, <2>2, <2>3, CandidatesKeep
<1>3. CASE /\ live' = Append(live, Fresh)
           /\ calls' = [calls EXCEPT ![c].pc = "yield", ![c].session = Fresh]
  <2>1. Alone(c) /\ calls'[c] = [calls[c] EXCEPT !.pc = "yield", !.session = Fresh]
    BY <1>3, OnlyOne DEF Alone
  <2>2. calls'[c].session = Len(made) + 1 /\ calls'[c].old = calls[c].old
    BY <1>1, <2>1 DEF CallRecords
  <2>3. \A s : Kept(s) <=> IsLive(s) \/ s = Len(made) + 1
    BY <1>1, <1>3, LiveMoves, KeptIsLive
  <2>4. Kept(calls'[c].session) /\ calls'[c].old < calls'[c].session
    BY <1>1, <2>2, <2>3
  <2>5. ASSUME NEW d \in Calls \ {c}, calls'[d].pc = "yield", calls'[d].kind = "switch"
        PROVE  Kept(calls'[d].session) /\ calls'[d].old < calls'[d].session
    <3>1. calls'[d] = calls[d]
      BY <2>1 DEF Alone
    <3>2. IsLive(calls[d].session) /\ calls[d].old < calls[d].session
      BY <2>5, <3>1 DEF Candidates, AtPc
    <3>3. QED
      BY <2>3, <3>1, <3>2
  <2>6. QED
    BY <2>4, <2>5 DEF Candidates, AtPc, IsLive, Kept
<1>4. QED
  BY <1>2, <1>3 DEF Registered

\* ... and is what the switch selects, when it stops that session, ...
LEMMA CandidatesCommit ==
    ASSUME Types, Unrolled, Switches, Candidates, NEW c \in Calls, CommitSwitch(c)
    PROVE  /\ Candidates' /\ bound' = calls[c].session /\ Kept(calls[c].session)
           /\ selected' = calls[c].agent /\ row'.phase = "healthy" /\ row'.agent = selected'
           /\ row'.session = bound' /\ made'[bound'].agent = selected'
<1>1. /\ calls[c] \in CallRecords /\ calls[c].pc = "yield" /\ calls[c].kind = "switch"
      /\ calls[c].agent \in Agents /\ row \in Rows /\ calls[c].old \in Nat
      /\ calls[c].session \in Nat /\ calls[c].session \in Known
      /\ AgentOf(calls[c].session) = calls[c].agent
  BY TypeFacts DEF CommitSwitch, ItsTurn, AtPc, Switches, CallOK, CallRecords, Known, Placed
<1>2. /\ selected' = calls[c].agent /\ bound' = calls[c].session
      /\ row' = [Verified(calls[c].session, calls[c].agent) EXCEPT !.agent = calls[c].agent]
      /\ live' = Without(calls[c].old) /\ EndCall(c) /\ UNCHANGED made
  BY <1>1 DEF CommitSwitch, Stops, Unrolled, At, Candidates, AtPc
<1>3. \A t : Kept(t) <=> IsLive(t) /\ t # calls[c].old
  BY <1>2, LiveMoves, KeptIsLive
<1>4. IsLive(calls[c].session) /\ calls[c].old < calls[c].session
  BY <1>1 DEF Candidates, AtPc
<1>5. Kept(calls[c].session)
  <2>1. calls[c].session # calls[c].old
    BY <1>1, <1>4
  <2>2. QED
    BY <1>3, <1>4, <2>1
<1>6. Alone(c) /\ calls'[c].pc = "none"
  BY <1>2, OnlyOne DEF NoCall
\* The others that wait for their turn have later sessions.
<1>7. ASSUME NEW d \in Calls, calls'[d].pc = "yield", IsLive(calls[d].session)
      PROVE  Kept(calls'[d].session)
  <2>1. calls'[d] = calls[d] /\ calls[d].session \in Nat
    BY <1>6, <1>7, TypeFacts DEF Alone, CallOK, CallRecords, Known
  <2>2. calls[c].session <= calls[d].session
    BY <1>7, <2>1 DEF CommitSwitch, ItsTurn, AtPc
  <2>3. calls[d].session # calls[c].old
    BY <1>1, <1>4, <2>1, <2>2
  <2>4. QED
    BY <1>3, <1>7, <2>1, <2>3
<1>8. Candidates'
  BY <1>6, <1>7, CandidatesKeep
<1>9. row'.phase = "healthy" /\ row'.agent = calls[c].agent /\ row'.session = calls[c].session
  BY <1>1, <1>2 DEF Verified, Rows, Anyone
<1>10. QED
  BY <1>1, <1>2, <1>5, <1>8, <1>9 DEF AgentOf

\* ... and no other start stops it.
LEMMA CandidatesStart ==
    ASSUME Types, Unrolled, OwnersAreOwed, Switches, Candidates, NEW c \in Calls, StartSteps(c),
           ~Ask(c), ~Registered(c), ~CommitSwitch(c)
    PROVE  Candidates'
<1>1. ~Released(c) /\ ~TakesOver(c) /\ ~Recovered(c)
  BY DEF Released, TakesOver, Recovered, AtPc, Unrolled, Switches, Placed
\* The steps that leave the sessions, or add one.
<1>2. ASSUME \A s : IsLive(s) => Kept(s), Alone(c), calls'[c].pc # "yield" PROVE Candidates'
  <2>1. \A d \in Calls : IsLive(calls[d].session) /\ calls'[d].pc = "yield" =>
          Kept(calls'[d].session)
    BY <1>2 DEF Alone
  <2>2. QED
    BY <1>2, <2>1, CandidatesKeep
<1>3. CASE Expire(c)
  <2>1. calls' = [calls EXCEPT ![c].owed = FALSE] /\ live' = live
    BY <1>3 DEF Expire
  <2>2. Alone(c) /\ calls'[c] = [calls[c] EXCEPT !.owed = FALSE] /\ calls[c] \in CallRecords
    BY <2>1, OnlyOne, TypeFacts DEF Alone, CallOK
  <2>3. /\ calls'[c].pc = calls[c].pc /\ calls'[c].kind = calls[c].kind
        /\ calls'[c].session = calls[c].session /\ calls'[c].old = calls[c].old
    BY <2>2 DEF CallRecords
  <2>4. \A d \in Calls : IsLive(calls[d].session) => Kept(calls'[d].session)
    BY <2>1, <2>2, <2>3 DEF Alone, IsLive, Kept
  <2>5. QED
    BY <2>2, <2>3, <2>4, CandidatesKeep
<1>4. Resumed(c) => calls[c].owed \/ UNCHANGED live
  BY CallNumbers DEF Resumed, OwnersAreOwed, Owns, MayStart, Switches, Placed, AtPc, Active
<1>5. CASE Checked(c) \/ Resumed(c) \/ Started(c)
  <2>1. EndCall(c) /\ (live' = live \/ live' = With(calls[c].session))
    BY <1>5, <1>4 DEF Checked, Resumed, Started
  <2>2. Alone(c) /\ calls'[c].pc = "none"
    BY <2>1, OnlyOne DEF NoCall
  <2>3. \A s : IsLive(s) => Kept(s)
    BY <2>1, LiveMoves, KeptIsLive
  <2>4. QED
    BY <1>2, <2>2, <2>3
<1>6. CASE ResumeLost(c) \/ Prepared(c) \/ NotUp(c)
  <2>1. live' = live /\ (EndCall(c) \/ \E pc \in {"prepare", "creating"} : Proceed(c, pc))
    BY <1>6 DEF ResumeLost, Prepared, NotUp, Fails
  <2>2. \A s : IsLive(s) => Kept(s)
    BY <2>1, LiveMoves, KeptIsLive
  <2>3. CASE EndCall(c)
    BY <1>2, <2>2, <2>3, OnlyOne DEF NoCall
  <2>4. ASSUME NEW pc \in {"prepare", "creating"}, Proceed(c, pc) PROVE Candidates'
    <3>1. Alone(c) /\ calls'[c] = [calls[c] EXCEPT !.pc = pc] /\ calls[c] \in CallRecords
      BY <2>4, OnlyOne, TypeFacts DEF CallOK
    <3>2. calls'[c].pc = pc
      BY <3>1 DEF CallRecords
    <3>3. QED
      BY <1>2, <2>2, <3>1, <3>2
  <2>5. QED
    BY <2>1, <2>3, <2>4
<1>7. CASE Withdrawn(c)
  <2>1. live' = Without(calls[c].session) /\ EndCall(c) /\ AtPc(c, "yield")
    BY <1>7 DEF Withdrawn, ItsTurn, Stops, Fails, Unrolled, At
  <2>2. Alone(c) /\ calls'[c].pc = "none"
    BY <2>1, OnlyOne DEF NoCall
  <2>3. \A t : Kept(t) <=> IsLive(t) /\ t # calls[c].session
    BY <2>1, LiveMoves, KeptIsLive
  <2>4. ASSUME NEW d \in Calls, calls'[d].pc = "yield", IsLive(calls[d].session)
        PROVE  Kept(calls'[d].session)
    <3>1. d # c /\ calls'[d] = calls[d]
      BY <2>2, <2>4 DEF Alone
    <3>2. calls[d].session # calls[c].session
      BY <2>1, <2>4, <3>1 DEF Switches, OwnSessions, AtPc
    <3>3. QED
      BY <2>3, <2>4, <3>1, <3>2
  <2>5. QED
    BY <2>2, <2>4, CandidatesKeep
<1>8. CASE \E agent \in Agents : BeginSwitch(c, agent)
  <2>1. PICK agent \in Agents : BeginSwitch(c, agent)
    BY <1>8
  <2>2. /\ live' = live
        /\ calls' = [calls EXCEPT ![c] =
             [Call("switch", agent, row', selected) EXCEPT
                !.pc = "prepare", !.old = FirstOf(selected), !.was = bound]]
    BY <2>1 DEF BeginSwitch
  <2>3. Alone(c) /\ calls'[c].pc = "prepare"
    BY <2>2, OnlyOne DEF Alone, Call, NoCall
  <2>4. QED
    BY <1>2, <2>2, <2>3, LiveMoves, KeptIsLive
<1>9. QED
  BY <1>1, <1>3, <1>5, <1>6, <1>7, <1>8 DEF StartSteps

\* With nothing else under way, a start begins or there is none.
LEMMA CandidatesBegin ==
    ASSUME Types, Ages, NEW c \in Calls,
           Ask(c) \/ BootRollsBack(c) \/ BootResumes(c) \/ BootIgnores(c)
    PROVE  Candidates'
<1>1. \A d \in Calls \ {c} : Idle(d) /\ calls[d].pc = "none"
  BY CallNumbers
     DEF Ask, NoneInFlight, Idle, BootRollsBack, BootResumes, BootIgnores, AtPc, Ages, OneStart
<1>2. Alone(c) /\ calls'[c].pc # "yield"
  <2>1. CASE Ask(c)
    <3>1. PICK call, r :
            /\ Enter(c, call, r) /\ Starts(call) /\ call.old = None /\ call.was = None
            /\ r \in Rows /\ r.session <= Len(made) /\ r.generation \in Nat
            /\ call.generation = r.generation
      BY <2>1, AskEnters
    <3>2. QED
      BY <3>1, EnterBegins DEF NoCall
  <2>2. CASE BootRollsBack(c) \/ BootResumes(c)
    <3>1. PICK call, r :
            /\ Enter(c, call, r) /\ Starts(call) /\ call.old = None /\ call.was = None
            /\ r \in Rows /\ r.session <= Len(made) /\ r.generation \in Nat
            /\ call.generation = r.generation
      BY <2>2, BootEnters
    <3>2. QED
      BY <3>1, EnterBegins DEF NoCall
  <2>3. CASE BootIgnores(c)
    BY <2>3, OnlyOne DEF BootIgnores, NoCall
  <2>4. QED
    BY <2>1, <2>2, <2>3
<1>3. \A d \in Calls : calls'[d].pc # "yield"
  BY <1>1, <1>2 DEF Alone
<1>4. QED
  BY <1>3 DEF Candidates, AtPc

\* So every step keeps the invariant, except that a choice by hand need not.
LEMMA CandidatesStep ==
    ASSUME Types, Ages, Unrolled, OwnersAreOwed, Switches, Candidates, [Next]_vars,
           ~(\E agent \in Agents : SelectAgent(agent))
    PROVE  Candidates'
<1>1. ASSUME UNCHANGED <<live, calls>> PROVE Candidates'
  BY <1>1 DEF Candidates, AtPc, IsLive
<1>2. ~RollSteps
  BY RollCalls DEF Unrolled
<1>3. ASSUME NEW c \in Calls, StartSteps(c) PROVE Candidates'
  BY <1>3, CandidatesStart, CandidatesBegin, CandidatesRegister, CandidatesCommit
<1>4. CASE Crash
  <2>1. \A d \in Calls : calls'[d].pc \in {"none", "boot"}
    BY <1>4 DEF Crash, Reboot, NoCall
  <2>2. QED
    BY <2>1 DEF Candidates, AtPc
<1>5. CASE RollBack \/ TurnBegins \/ (\E s \in Sessions : TurnEnds(s)) \/ UNCHANGED vars
  BY <1>1, <1>5 DEF RollBack, TurnBegins, TurnEnds, vars, runtimeVars
<1>6. QED
  BY <1>2, <1>3, <1>4, <1>5, CandidatesBegin DEF Next

\* ... and so does the invariant of the switches.
LEMMA SwitchesStep ==
    ASSUME Types, Ages, Unrolled, OwnersAreOwed, Switches, Candidates, [Next]_vars,
           ~(\E agent \in Agents : SelectAgent(agent))
    PROVE  Switches'
<1>1. CASE UNCHANGED vars
  BY <1>1, SwitchesOutside DEF vars, runtimeVars, rollVars
<1>2. ~RollSteps
  BY RollCalls DEF Unrolled
<1>3. ASSUME NEW c \in Calls, StartSteps(c) PROVE Switches'
  <2>1. ~Released(c) /\ ~TakesOver(c) /\ ~Recovered(c)
    BY DEF Released, TakesOver, Recovered, AtPc, Unrolled, Switches, Placed
  <2>2. CASE Ask(c) \/ Expire(c) \/ Checked(c) \/ Resumed(c) \/ ResumeLost(c)
    BY <2>2, SwitchesAsk, SwitchesExpire, SwitchesCheck, SwitchesResume, SwitchesLose
  <2>3. CASE Prepared(c) \/ NotUp(c) \/ Registered(c) \/ Withdrawn(c) \/ Started(c)
    BY <2>3, SwitchesPrepare, SwitchesRegister, SwitchesStart
  <2>4. CASE CommitSwitch(c) \/ \E agent \in Agents : BeginSwitch(c, agent)
    BY <2>4, SwitchesCommit, SwitchesBegin
  <2>5. QED
    BY <1>3, <2>1, <2>2, <2>3, <2>4 DEF StartSteps
<1>4. CASE TurnBegins \/ \E s \in Sessions : TurnEnds(s)
  BY <1>4, SwitchesOutside DEF TurnBegins, TurnEnds, rollVars
<1>5. CASE Crash
  BY <1>5, SwitchesOutside
<1>6. QED
  BY <1>1, <1>2, <1>3, <1>4, <1>5, SwitchesBack, SwitchesBoot DEF Next

\* The agent is chosen by hand once at most: `Edited` says that it was.
OneEdit == \A scenario \in Scenarios : scenario.left.edits <= 1

\* Before that, and without rollover.
Unedited == left.edits <= 1 /\ (~policy /\ ~Edited => Switches /\ Candidates)

\* The invariant holds always.
LEMMA AlwaysUnedited == ASSUME Apart, OneEdit PROVE Spec => []Unedited
<1>1. Init => Unedited
  <2> SUFFICES ASSUME Init PROVE Unedited
    OBVIOUS
  <2>1. left.edits <= 1
    BY DEF Init, OneEdit
  <2>2. PICK agent \in Agents :
          /\ selected = agent /\ bound = 1 /\ keyed = agent
          /\ made = <<[agent |-> agent, source |-> None]>> /\ live = <<1>>
          /\ row = [generation |-> 1, agent |-> agent, candidate |-> NoAgent,
                    lastGood |-> agent, session |-> 1, phase |-> "healthy", due |-> FALSE]
          /\ calls = [c \in Calls |-> NoCall]
    BY DEF Init
  <2>3. AgentOf(1) = agent
    BY <2>2 DEF AgentOf
  <2>4. Trusted
    BY <2>2, <2>3 DEF Trusted, None
  <2>5. Mapped
    BY <2>2 DEF Mapped, Ascending, IsLive
  <2>6. \A c \in Calls : calls[c].kind = "none" /\ calls[c].pc = "none"
    BY <2>2 DEF NoCall
  <2>7. OwnSessions /\ \A c \in Calls : Placed(calls[c])
    BY <2>6 DEF OwnSessions, AtPc, Placed, Mine
  <2>8. QED
    BY <2>1, <2>4, <2>5, <2>6, <2>7 DEF Unedited, Switches, Candidates, AtPc
<1>2. Types /\ Ages /\ InTime /\ Unedited /\ [Next]_vars => Unedited'
  <2> SUFFICES ASSUME Types, Ages, InTime, Unedited, [Next]_vars PROVE Unedited'
    OBVIOUS
  <2>1. /\ UNCHANGED policy /\ left'.edits <= left.edits
        /\ left.edits = 0 => left'.edits = 0
    BY Budgets DEF Kinds
  <2>2. left.edits \in Nat /\ left \in [Kinds -> Nat]
    BY DEF Types, LeftOK, Kinds
  <2>3. left'.edits <= 1 /\ left'.edits \in Nat
    <3>1. left'.edits \in Nat
      BY StepTypes DEF Types, LeftOK, Kinds
    <3>2. QED
      BY <2>1, <2>2, <3>1 DEF Unedited
  <2>4. ASSUME NEW agent \in Agents, SelectAgent(agent) PROVE left'.edits = 0
    BY <2>2, <2>4 DEF SelectAgent, Spend, Unedited, Kinds
  <2>5. ASSUME ~policy', ~Edited' PROVE Switches' /\ Candidates'
    <3>1. ~policy /\ ~Edited /\ ~(\E agent \in Agents : SelectAgent(agent))
      BY <2>1, <2>4, <2>5 DEF Edited
    <3>2. QED
      BY <3>1, SwitchesStep, CandidatesStep DEF Unedited, InTime
  <2>6. QED
    BY <2>3, <2>5 DEF Unedited
<1>3. Apart => Unhurried
  BY DEF Apart, Unhurried
<1>4. QED
  BY <1>1, <1>2, <1>3, AlwaysTypes, AlwaysAges, AlwaysInTime, PTL DEF Spec

\* With nothing in progress at most one session of the Captain runs.
THEOREM RunsOnce == ASSUME Apart, OneEdit PROVE Spec => []OneRuntime
<1>1. Types /\ Rollovers /\ Unedited => OneRuntime
  <2> SUFFICES ASSUME Types, Rollovers, Unedited, Quiet, ~Edited PROVE Len(live) <= 1
    BY DEF OneRuntime
  <2>1. \A s \in Sessions : IsLive(s) => s = bound
    <3>1. CASE policy
      BY <3>1 DEF Rollovers, Rolling, BoundOnly
    <3>2. CASE ~policy
      BY <3>2, CallNumbers DEF Unedited, Switches, Mapped, Quiet, NoneInFlight, Idle, AtPc
    <3>3. QED
      BY <3>1, <3>2
  <2>2. \A i \in DOMAIN live : live[i] = bound
    BY <2>1, LiveMoves DEF IsLive
  <2>3. live \in Seq(1 .. Len(made)) /\ Distinct(live)
    BY DEF Types, LiveOK
  <2>4. \A i, j \in 1 .. Len(live) : i = j
    BY <2>2, <2>3 DEF Distinct
  <2>5. Len(live) \in Nat
    BY <2>3
  <2>6. QED
    BY <2>4, <2>5
<1>2. QED
  BY <1>1, AlwaysTypes, AlwaysRollovers, AlwaysUnedited, PTL

------------------------------------------------------------------------------
(* Rollovers without switches: one agent, whose sessions are bound. *)

SameAgent ==
    /\ row.agent = selected /\ row.lastGood = selected /\ keyed = selected
    /\ \A s \in 1 .. Len(made) : AgentOf(s) = selected
    /\ \A c \in Calls : Active(c) => calls[c].agent = selected /\ calls[c].previous = selected
    /\ ~At("idle") => roll.agent = selected

\* A healthy row has its sessions, and none is being opened.
Attached ==
    /\ row.phase = "healthy" => bound # None /\ row.session # None
    /\ \A c \in Calls : /\ calls[c].pc \in Opening => row.phase # "healthy"
                        /\ calls[c].pc = "check" => bound # None

\* The row stays with its agent however a call ends.
LEMMA SameRow ==
    ASSUME NEW agent \in Agents, NEW r \in Rows, r.agent = agent, r.lastGood = agent,
           NEW call \in CallRecords, call.agent = agent, call.previous = agent,
           NEW phase \in {"failed", "timed_out"}
    PROVE  /\ AfterFailure(call, r, phase).agent = agent
           /\ AfterFailure(call, r, phase).lastGood = agent
           /\ \A s \in Known : /\ AfterSuccess(call, r, s).agent = agent
                               /\ AfterSuccess(call, r, s).lastGood = agent
<1>1. \A s \in Known : /\ AfterSuccess(call, r, s).agent = agent
                       /\ AfterSuccess(call, r, s).lastGood = agent
  BY DEF AfterSuccess, Rows
<1> DEFINE g == GivenUp(r, call.generation, phase, call.agent, call.previous)
<1>2. g \in Rows /\ g.agent = agent /\ g.lastGood = agent
  BY DEF GivenUp, Rows, Phases, Over, Anyone
<1> HIDE DEF g
<1>3. AfterFailure(call, r, phase).agent = agent /\ AfterFailure(call, r, phase).lastGood = agent
  <2> DEFINE old == IF call.old # None THEN call.old ELSE call.was
             h == [g EXCEPT !.lastGood = call.previous, !.session = old]
  <2>1. h.agent = agent /\ h.lastGood = agent
    BY <1>2 DEF Rows
  <2>2. [g EXCEPT !.phase = "failed", !.due = FALSE].agent = agent
        /\ [g EXCEPT !.phase = "failed", !.due = FALSE].lastGood = agent
    BY <1>2 DEF Rows
  <2>3. AfterFailure(call, r, phase) \in {g, h, [g EXCEPT !.phase = "failed", !.due = FALSE]}
    BY DEF AfterFailure, g
  <2>4. QED
    BY <1>2, <2>1, <2>2, <2>3
<1>4. QED
  BY <1>1, <1>3

\* What the start of another generation leaves of it.
LEMMA ShownSame ==
    ASSUME Types, SameAgent, NEW g, NEW s \in Known
    PROVE  \A r \in {row, Unready, Verified(s, row.agent), Verifying(s), Fenced(g, Unready),
                     Fenced(g, Verified(s, row.agent)), Fenced(g, Verifying(s))} :
               r \in Rows /\ r.agent = selected /\ r.lastGood = selected
<1>1. row \in Rows /\ row.agent = selected /\ row.lastGood = selected /\ selected \in Agents
  BY TypeFacts DEF SameAgent
<1>2. Unready \in Rows /\ Unready.agent = selected /\ Unready.lastGood = selected
  BY <1>1 DEF Unready, Rows, Phases
<1>3. /\ Verified(s, row.agent) \in Rows /\ Verified(s, row.agent).agent = selected
      /\ Verified(s, row.agent).lastGood = selected
  BY <1>1 DEF Verified, Rows, Phases, Anyone
<1>4. Verifying(s) \in Rows /\ Verifying(s).agent = selected /\ Verifying(s).lastGood = selected
  BY <1>1 DEF Verifying, Rows, Phases
<1>5. QED
  BY <1>1, <1>2, <1>3, <1>4 DEF Fenced

\* What the sessions made are for.
LEMMA MadeSame ==
    ASSUME Types, SameAgent,
           made' = made \/ \E source \in Known : Makes(selected, source)
    PROVE  Len(made') \in Nat /\ \A s \in 1 .. Len(made') : made'[s].agent = selected
<1>1. CASE made' = made
  BY <1>1, TypeFacts DEF SameAgent, AgentOf
<1>2. ASSUME NEW source \in Known, Makes(selected, source)
      PROVE  Len(made') \in Nat /\ \A s \in 1 .. Len(made') : made'[s].agent = selected
  <2>1. selected \in Agents /\ Len(made) \in Nat /\ DOMAIN made = 1 .. Len(made)
    BY TypeFacts DEF Types, RuntimeOK
  <2>2. /\ Len(made') = Len(made) + 1 /\ Fresh = Len(made')
        /\ made'[Fresh] = [agent |-> selected, source |-> source]
        /\ \A i \in DOMAIN made : made'[i] = made[i]
    BY <1>2, <2>1, SessionMade, Zenon
  <2>3. \A s \in 1 .. Len(made) : made'[s].agent = selected
    BY <2>1, <2>2 DEF SameAgent, AgentOf
  <2>4. made'[Len(made')].agent = selected
    BY <2>2
  <2>5. QED
    BY <2>1, <2>2, <2>3, <2>4
<1>3. QED
  BY <1>1, <1>2

\* A step of the rollover.
LEMMA SameRolls ==
    ASSUME Types, SameAgent, RollSteps
    PROVE  SameAgent'
<1>1. /\ UNCHANGED <<calls, selected>> /\ ~At("idle") /\ roll.agent = selected
      /\ roll.key \in Known /\ roll \in RollRecords
  BY RollCalls, RollFacts DEF SameAgent, Types, RollOK, RollRecords
<1>2. /\ keyed' \in {keyed, roll.agent}
      /\ made' = made \/ Makes(roll.agent, roll.key)
      /\ \/ roll' = NoRoll \/ roll' = Cancelled
         \/ \E pc, seen :
               roll' \in {roll, [roll EXCEPT !.pc = pc], [roll EXCEPT !.pc = pc, !.seen = seen]}
  BY DEF RollSteps, BeginHandoff, SaveSummary, WriteMemory, AnnounceCreation,
     AskForCreation, NobodyToAsk, CreationAnswered, CreationFailed, ResumeTarget, VerifyTarget,
     TargetNotReady, StopSource, SourceRefuses, BindTarget, CompleteHandoff, DividerLost,
     CancelRollover, runtimeVars, aside, End, Go
<1>3. roll'.pc = "idle" \/ roll'.agent = roll.agent
  <2>2. NoRoll.pc = "idle" /\ Cancelled.agent = roll.agent
    BY RollPc DEF NoRoll
  <2>3. CASE roll' = NoRoll \/ roll' = Cancelled
    BY <2>2, <2>3
  <2>4. CASE \E pc, seen :
               roll' \in {roll, [roll EXCEPT !.pc = pc], [roll EXCEPT !.pc = pc, !.seen = seen]}
    <3>1. PICK pc, seen :
            roll' \in {roll, [roll EXCEPT !.pc = pc], [roll EXCEPT !.pc = pc, !.seen = seen]}
      BY <2>4
    <3>2. roll' = roll => roll'.agent = roll.agent
      OBVIOUS
    <3>3. roll' = [roll EXCEPT !.pc = pc] => roll'.agent = roll.agent
      BY <1>1 DEF RollRecords
    <3>4. roll' = [roll EXCEPT !.pc = pc, !.seen = seen] => roll'.agent = roll.agent
      BY <1>1 DEF RollRecords
    <3>5. QED
      BY <3>1, <3>2, <3>3, <3>4
  <2>5. QED
    BY <1>2, <2>3, <2>4
<1>4. \/ row' = row
      \/ \E s \in Known : \E g :
            row' \in {Verified(s, row.agent), Fenced(g, Unready), Fenced(g, Verifying(s))}
  <2>1. CASE VerifyTarget \/ TargetNotReady \/ StopSource \/ BindTarget
    <3>1. Target \in Known
      BY <2>1, RollFacts DEF VerifyTarget, TargetNotReady, StopSource, BindTarget, At, Known,
                             Sessions
    <3>2. QED
      BY <2>1, <3>1 DEF VerifyTarget, TargetNotReady, StopSource, BindTarget
  <2>2. CASE ~(VerifyTarget \/ TargetNotReady \/ StopSource \/ BindTarget)
    BY <2>2 DEF RollSteps, BeginHandoff, SaveSummary, WriteMemory, AnnounceCreation,
       AskForCreation, NobodyToAsk, CreationAnswered, CreationFailed, ResumeTarget,
       SourceRefuses, CompleteHandoff, DividerLost, CancelRollover, runtimeVars
  <2>3. QED
    BY <2>1, <2>2
<1>5. row'.agent = selected /\ row'.lastGood = selected
  BY <1>4, ShownSame DEF SameAgent
<1>6. \A s \in 1 .. Len(made') : made'[s].agent = selected
  BY <1>1, <1>2, MadeSame
<1>7. QED
  <2>1. keyed' = selected /\ (~At("idle")' => roll'.agent = selected)
    BY <1>1, <1>2, <1>3 DEF SameAgent, At
  <2>2. \A c \in Calls :
          Active(c)' => calls'[c].agent = selected' /\ calls'[c].previous = selected'
    BY <1>1 DEF SameAgent, Active
  <2>3. QED
    BY <1>1, <1>5, <1>6, <2>1, <2>2 DEF SameAgent, AgentOf

\* A call changes, and no agent does.
LEMMA SameOf ==
    ASSUME Types, SameAgent, NEW c \in Calls, Alone(c), selected' = selected, keyed' = selected,
           row'.agent = selected, row'.lastGood = selected,
           made' = made \/ Makes(selected, None),
           roll' \in {roll, Cancelled, NoRoll} \/ roll'.agent = selected,
           calls'[c] = NoCall \/ (calls'[c].agent = selected /\ calls'[c].previous = selected)
    PROVE  SameAgent'
<1>1. \A s \in 1 .. Len(made') : made'[s].agent = selected
  BY MadeSame, TypeFacts
<1>2. ~At("idle")' => roll'.agent = selected
  <2>1. NoRoll.pc = "idle" /\ Cancelled.agent = roll.agent /\ Cancelled.pc = roll.pc
    BY RollPc DEF NoRoll
  <2>2. CASE roll' \in {roll, Cancelled}
    BY <2>1, <2>2 DEF SameAgent, At
  <2>3. CASE roll' = NoRoll
    BY <2>1, <2>3 DEF At
  <2>4. QED
    BY <2>2, <2>3
<1>3. \A d \in Calls : Active(d)' => calls'[d].agent = selected /\ calls'[d].previous = selected
  BY DEF SameAgent, Alone, Active, NoCall
<1>4. QED
  BY <1>1, <1>2, <1>3 DEF SameAgent, AgentOf

\* A call begins.
LEMMA SameEnters ==
    ASSUME Types, SameAgent, NEW c \in Calls, NEW call, Starts(call), call.old = None,
           call.was = None, NEW r \in Rows, r.session <= Len(made), r.generation \in Nat,
           call.generation = r.generation, Enter(c, call, r), selected' = selected,
           r.agent = selected, r.lastGood = selected,
           call.agent = selected, call.previous = selected
    PROVE  SameAgent'
<1>1. /\ UNCHANGED <<keyed, made>> /\ roll' \in {roll, Cancelled}
      /\ row' \in {r, [r EXCEPT !.session = Current], AfterFailure(call, r, "failed")}
  BY DEF Enter, rollVars
<1>2. /\ Alone(c)
      /\ calls'[c] = NoCall \/ (calls'[c].agent = selected /\ calls'[c].previous = selected)
  BY EnterBegins, Zenon
<1>3. row'.agent = selected /\ row'.lastGood = selected
  <2>1. call \in CallRecords /\ None \in Known
    BY TypeFacts DEF Starts
  <2>2. \A phase \in {"failed", "timed_out"} :
          /\ AfterFailure(call, r, phase).agent = selected
          /\ AfterFailure(call, r, phase).lastGood = selected
    <3>1. /\ r \in Rows /\ r.agent = selected /\ r.lastGood = selected
          /\ call \in CallRecords /\ call.agent = selected /\ call.previous = selected
      BY <2>1
    <3>2. QED
      BY ONLY <3>1, SameRow DEF Rows, CallRecords
  <2>3. [r EXCEPT !.session = Current].agent = selected
        /\ [r EXCEPT !.session = Current].lastGood = selected
    BY DEF Rows
  <2>4. QED
    BY <1>1, <2>2, <2>3
<1>4. QED
  BY <1>1, <1>2, <1>3, SameOf DEF SameAgent

\* A call goes on, or ends.
LEMMA SameGoesOn ==
    ASSUME Types, Rolling, SameAgent, NEW c \in Calls,
           \/ Expire(c) \/ Released(c) \/ TakesOver(c) \/ Recovered(c) \/ Checked(c)
           \/ Resumed(c) \/ ResumeLost(c) \/ Prepared(c) \/ Registered(c) \/ NotUp(c)
           \/ Withdrawn(c) \/ Started(c)
    PROVE  SameAgent'
<1>1. /\ calls[c] \in CallRecords /\ calls[c].session \in Known /\ calls[c].kind # "switch"
      /\ Active(c)
  <2>1. /\ calls[c] \in CallRecords /\ calls[c].session \in Known /\ calls[c].kind # "switch"
    BY TypeFacts DEF CallOK, CallRecords, Rolling, Fits
  <2>2. calls[c].pc \in {"release", "turn", "recover", "check", "resume", "prepare", "creating",
                         "yield"} \/ calls[c].owed
    BY DEF Expire, Released, TakesOver, Recovered, Checked, Resumed, ResumeLost, Prepared,
           Registered, NotUp, Withdrawn, Started, ItsTurn, AtPc
  <2>3. QED
    BY <2>1, <2>2, TypeFacts DEF Active, CallOK
<1>2. /\ calls[c].agent = selected /\ calls[c].previous = selected /\ selected' = selected
      /\ row.agent = selected /\ row.lastGood = selected /\ keyed = selected
  BY <1>1 DEF SameAgent, Expire, Released, TakesOver, Recovered, Checked, Resumed, ResumeLost,
     Prepared, Registered, NotUp, Withdrawn, Started
<1>3. keyed' = selected
  BY <1>2 DEF Expire, Released, TakesOver, Recovered, Checked, Resumed, ResumeLost,
     Prepared, Registered, NotUp, Withdrawn, Started
<1>4. made' = made \/ Makes(selected, None)
  BY <1>2 DEF Expire, Released, TakesOver, Recovered, Checked, Resumed, ResumeLost,
     Prepared, Registered, NotUp, Withdrawn, Started
<1>5. roll' \in {roll, Cancelled, NoRoll} \/ roll'.agent = selected
  <2>1. CASE TakesOver(c)
    BY <1>2, <2>1 DEF TakesOver, NoRoll
  <2>2. CASE ~TakesOver(c)
    BY <2>2 DEF Expire, Released, Recovered, Checked, Resumed, ResumeLost, Prepared, Registered,
       NotUp, Withdrawn, Started, rollVars
  <2>3. QED
    BY <2>1, <2>2
<1>6. /\ Alone(c)
      /\ calls'[c] = NoCall \/ (calls'[c].agent = selected /\ calls'[c].previous = selected)
  <2>1. Ends(c) \/ GoesOn(c) \/ Begins(c)
    BY CallEffects DEF StartSteps
  <2>2. ~Begins(c)
    BY <1>1, TypeFacts DEF Begins, Active, NoneInFlight, Idle
  <2>3. QED
    BY <1>2, <2>1, <2>2 DEF Ends, GoesOn
<1>7. \E q \in {row, Fenced(calls[c].seen, Unready), Verified(bound', row.agent),
                Verified(calls'[c].session, row.agent),
                Fenced(calls[c].seen, Verified(calls[c].session, row.agent))} :
        \/ row' = q
        \/ \E phase \in {"failed", "timed_out"} : row' = AfterFailure(calls[c], q, phase)
        \/ \E s \in Known : row' = AfterSuccess(calls[c], q, s)
  <2>0. bound \in Known
    BY TypeFacts
  <2>1. CASE Fails(c) \/ UNCHANGED row
    BY <2>1 DEF Fails
  <2>2. CASE Expire(c)
    BY <2>2 DEF Expire
  <2>3. CASE Recovered(c) \/ Checked(c) \/ Resumed(c) \/ Started(c)
    BY <1>1, <2>0, <2>3 DEF Recovered, Checked, Resumed, Started, Fails
  <2>4. CASE Registered(c)
    BY <1>1, <2>1, <2>4 DEF Registered
  <2>5. CASE Released(c) \/ TakesOver(c) \/ ResumeLost(c) \/ Prepared(c) \/ NotUp(c) \/ Withdrawn(c)
    BY <2>1, <2>5 DEF Released, TakesOver, ResumeLost, Prepared, NotUp, Withdrawn
  <2>6. QED
    BY <2>2, <2>3, <2>4, <2>5
<1>8. row'.agent = selected /\ row'.lastGood = selected
  <2>1. PICK q \in {row, Fenced(calls[c].seen, Unready), Verified(bound', row.agent),
                    Verified(calls'[c].session, row.agent),
                    Fenced(calls[c].seen, Verified(calls[c].session, row.agent))} :
          \/ row' = q
          \/ \E phase \in {"failed", "timed_out"} : row' = AfterFailure(calls[c], q, phase)
          \/ \E s \in Known : row' = AfterSuccess(calls[c], q, s)
    BY <1>7
  <2>2. bound' \in Known /\ calls'[c].session \in Known
    <3>1. Next
      BY DEF Next, StartSteps
    <3>2. Types'
      BY <3>1, StepTypes
    <3>3. QED
      BY <3>2 DEF Types, RuntimeOK, CallsOK, CallOK, CallRecords
  <2>3. q \in Rows /\ q.agent = selected /\ q.lastGood = selected
    BY <1>1, <2>2, ShownSame
  <2>4. QED
    BY <1>1, <1>2, <2>1, <2>3, TypeFacts, SameRow
<1>9. QED
  BY <1>2, <1>3, <1>4, <1>5, <1>6, <1>8, SameOf

\* One call is under way, and changes.
LEMMA AttachedOf ==
    ASSUME Types, NEW c \in Calls, Alone(c), \A d \in Calls \ {c} : Idle(d),
           row'.phase = "healthy" => bound' # None /\ row'.session # None,
           calls'[c].pc \in Opening => row'.phase # "healthy",
           calls'[c].pc = "check" => bound' # None
    PROVE  Attached'
<1>1. \A d \in Calls \ {c} : calls'[d].pc = "none"
  BY CallNumbers DEF Alone, Idle
<1>2. QED
  BY <1>1 DEF Attached, Opening

\* Every step of a rollover keeps the Captain attached to a session.
LEMMA AttachedRolls ==
    ASSUME Types, Rolling, Attached, RollSteps
    PROVE  Attached'
<1>1. UNCHANGED calls /\ row \in Rows /\ ~At("idle") /\ roll.aborted \in BOOLEAN
  BY RollCalls, TypeFacts DEF Types, RollOK, RollRecords
<1>2. CASE BindTarget
  <2>1. CASE roll.aborted
    BY <1>1, <1>2, <2>1 DEF BindTarget, Attached
  <2>2. CASE ~roll.aborted
    <3>1. Target # None
      BY <1>2, RollFacts DEF BindTarget, At, Sessions, None
    <3>2. row'.session = Target /\ bound' = Target
      BY <1>1, <1>2, <2>2 DEF BindTarget, Verified, Rows
    <3>3. \A c \in Calls : calls[c].pc \notin Opening
      BY <1>1, <2>2 DEF Rolling, Fits
    <3>4. QED
      BY <1>1, <3>1, <3>2, <3>3 DEF Attached
  <2>3. QED
    BY <2>1, <2>2
<1>3. CASE ~BindTarget
  <2>1. UNCHANGED bound /\ (row' = row \/ row'.phase # "healthy")
    <3>1. CASE VerifyTarget \/ TargetNotReady \/ StopSource
      BY <1>1, <3>1 DEF VerifyTarget, TargetNotReady, StopSource, Fenced, Verifying, Unready, Rows
    <3>2. CASE ~(VerifyTarget \/ TargetNotReady \/ StopSource)
      BY <1>3, <3>2 DEF RollSteps, BeginHandoff, SaveSummary, WriteMemory, AnnounceCreation,
         AskForCreation, NobodyToAsk, CreationAnswered, CreationFailed, ResumeTarget,
         SourceRefuses, CompleteHandoff, DividerLost, CancelRollover, runtimeVars
    <3>3. QED
      BY <3>1, <3>2 DEF VerifyTarget, TargetNotReady, StopSource
  <2>2. QED
    BY <1>1, <2>1 DEF Attached
<1>4. QED
  BY <1>2, <1>3

\* A call begins.
LEMMA AttachedEnters ==
    ASSUME Types, Rolling, SameAgent, NEW c \in Calls, NEW call, Starts(call), call.old = None,
           call.was = None, NEW r \in Rows, r.session <= Len(made), r.generation \in Nat,
           call.generation = r.generation, Enter(c, call, r), r.phase = "starting",
           \A d \in Calls \ {c} : Idle(d)
    PROVE  Attached'
<1>1. /\ Alone(c)
      /\ \/ calls'[c] = NoCall /\ row'.phase \in Over
         \/ row' \in {r, [r EXCEPT !.session = Current]}
  BY EnterBegins, Zenon
<1>2. row'.phase # "healthy"
  <2>1. [r EXCEPT !.session = Current].phase = "starting"
    BY DEF Rows
  <2>2. QED
    BY <1>1, <2>1 DEF Over
<1>3. calls'[c].pc = "check" => bound' # None
  <2>0. call \in CallRecords
    BY DEF Starts
  <2>1. Current # None => bound # None
    BY CurrentFacts, LiveMoves DEF Rolling, BoundOnly
  <2>2. CASE Open(c, call)
    <3>1. \/ calls' = [calls EXCEPT ![c] =
                [call EXCEPT !.pc = "resume", !.session = bound, !.seen = row'.generation]]
          \/ calls' = [calls EXCEPT ![c] = [call EXCEPT !.pc = "prepare"]]
      BY <2>2, Zenon DEF Open
    <3>2. calls'[c].pc # "check"
      BY <2>0, <3>1, OnlyOne DEF CallRecords
    <3>3. QED
      BY <3>2
  <2>3. CASE Current # None /\ UNCHANGED bound
    BY <2>1, <2>3
  <2>4. CASE EndCall(c)
    BY <2>4, OnlyOne DEF NoCall
  <2>5. CASE \E s : calls' = [calls EXCEPT ![c] =
                               [call EXCEPT !.pc = "turn", !.was = bound, !.session = s]]
    BY <2>0, <2>5, OnlyOne DEF CallRecords
  <2>6. QED
    BY <2>2, <2>3, <2>4, <2>5 DEF Enter
<1>4. QED
  BY <1>1, <1>2, <1>3, AttachedOf

\* A call goes on, or ends.
LEMMA AttachedGoesOn ==
    ASSUME Types, Rolling, SameAgent, Attached, NEW c \in Calls,
           \/ Expire(c) \/ Released(c) \/ TakesOver(c) \/ Recovered(c) \/ Checked(c)
           \/ Resumed(c) \/ ResumeLost(c) \/ Prepared(c) \/ Registered(c) \/ NotUp(c)
           \/ Withdrawn(c) \/ Started(c)
    PROVE  Attached'
<1>1. /\ calls[c] \in CallRecords /\ row \in Rows /\ calls[c].kind # "switch"
      /\ calls[c].kind \notin {"none", "reboot"} /\ calls[c].session \in Known
      /\ calls[c].agent \in Agents /\ calls[c].previous \in Agents
      /\ calls[c].pc \in {"resume", "check", "turn", "recover", "yield"} => calls[c].session # None
  <2>1. /\ calls[c] \in CallRecords /\ calls[c].session \in Known /\ calls[c].kind # "switch"
        /\ row \in Rows
    BY TypeFacts DEF CallOK, CallRecords, Rolling, Fits
  <2>2. calls[c].pc \in {"release", "turn", "recover", "check", "resume", "prepare", "creating",
                         "yield"} \/ calls[c].owed
    BY DEF Expire, Released, TakesOver, Recovered, Checked, Resumed, ResumeLost, Prepared,
           Registered, NotUp, Withdrawn, Started, ItsTurn, AtPc
  <2>3. QED
    BY <2>1, <2>2, TypeFacts DEF CallOK
<1>2. ~Idle(c) /\ \A d \in Calls \ {c} : Idle(d)
  BY <1>1 DEF Rolling, Idle
<1>3. ASSUME NEW r \in Rows, NEW phase \in {"failed", "timed_out"},
             r = row \/ r.phase # "healthy"
      PROVE  LET f == AfterFailure(calls[c], r, phase)
             IN f = row \/ f.phase # "healthy"
  <2> DEFINE f == AfterFailure(calls[c], r, phase)
  <2>1. f = r \/ f.phase \in Over
    BY <1>1, <1>3, FailedRow, Zenon
  <2>2. QED
    BY <1>3, <2>1 DEF Over
<1>4. ASSUME NEW r \in Rows, NEW s \in Known
      PROVE  LET f == AfterSuccess(calls[c], r, s)
             IN f = r \/ f.phase # "healthy"
  BY <1>1, <1>4, SucceededRow
<1>5. Fails(c) => row' = row \/ row'.phase # "healthy"
  BY <1>1, <1>3 DEF Fails
\* It ends, and the row is as it was, or not healthy.
<1>6. ASSUME EndCall(c), UNCHANGED bound, row' = row \/ row'.phase # "healthy" PROVE Attached'
  BY <1>2, <1>6, OnlyOne, AttachedOf DEF Attached, NoCall, Opening
<1>7. CASE Fails(c) /\ UNCHANGED bound
  BY <1>5, <1>6, <1>7 DEF Fails
<1>8. CASE Expire(c)
  <2>1. /\ row' = AfterFailure(calls[c], row, "timed_out") /\ UNCHANGED bound
        /\ calls' = [calls EXCEPT ![c].owed = FALSE]
    BY <1>8 DEF Expire
  <2>2. Alone(c) /\ calls'[c].pc = calls[c].pc
    BY <1>1, <2>1, OnlyOne DEF Alone, CallRecords
  <2>3. row' = row \/ row'.phase # "healthy"
    BY <1>1, <1>3, <2>1
  <2>4. QED
    BY <1>2, <2>1, <2>2, <2>3, AttachedOf DEF Attached
<1>9. CASE Released(c)
  <2>1. UNCHANGED row /\ Open(c, calls[c]) /\ row.phase # "healthy"
    BY <1>9 DEF Released, AtPc, Attached, Opening
  <2>2. \/ calls' = [calls EXCEPT ![c] =
              [calls[c] EXCEPT !.pc = "resume", !.session = bound, !.seen = row'.generation]]
        \/ calls' = [calls EXCEPT ![c] = [calls[c] EXCEPT !.pc = "prepare"]]
    BY <2>1, Zenon DEF Open
  <2>3. CASE calls' = [calls EXCEPT ![c] =
               [calls[c] EXCEPT !.pc = "resume", !.session = bound, !.seen = row'.generation]]
    <3>1. Alone(c) /\ calls'[c].pc = "resume"
      BY <1>1, <2>3, OnlyOne DEF Alone, CallRecords
    <3>2. QED
      BY <1>2, <2>1, <3>1, AttachedOf
  <2>4. CASE calls' = [calls EXCEPT ![c] = [calls[c] EXCEPT !.pc = "prepare"]]
    <3>1. Alone(c) /\ calls'[c].pc = "prepare"
      BY <1>1, <2>4, OnlyOne DEF Alone, CallRecords
    <3>2. QED
      BY <1>2, <2>1, <3>1, AttachedOf
  <2>5. QED
    BY <2>2, <2>3, <2>4
<1>10. CASE \E pc \in {"recover", "creating"} :
              Proceed(c, pc) /\ UNCHANGED <<row, bound>>
              /\ (pc = "creating" => AtPc(c, "prepare"))
  <2>1. PICK pc \in {"recover", "creating"} :
              Proceed(c, pc) /\ UNCHANGED <<row, bound>>
              /\ (pc = "creating" => AtPc(c, "prepare"))
    BY <1>10
  <2>2. Alone(c) /\ calls'[c] = [calls[c] EXCEPT !.pc = pc]
    BY <2>1, OnlyOne
  <2>3. calls'[c].pc = pc
    BY <1>1, <2>2 DEF CallRecords
  <2>4. QED
    BY <1>2, <2>1, <2>2, <2>3, AttachedOf DEF Attached, Opening, AtPc
<1>11. CASE Recovered(c) \/ Started(c)
  <2>1. UNCHANGED bound /\ bound \in Known
    BY <1>11, TypeFacts DEF Recovered, Started
  <2>2. /\ Fails(c) \/ EndCall(c)
        /\ Fails(c) \/ row' = row \/ \E s \in Known : row' = AfterSuccess(calls[c], row, s)
    BY <1>1, <1>11, <2>1 DEF Recovered, Started
  <2>3. QED
    BY <1>1, <1>4, <1>6, <1>7, <2>1, <2>2
<1>12. CASE Checked(c)
  <2>1. /\ UNCHANGED bound /\ EndCall(c) /\ bound # None /\ calls[c].session # None
    BY <1>1, <1>12 DEF Checked, Attached, AtPc
  <2>2. ASSUME row' = AfterFailure(calls[c], Fenced(calls[c].seen, Unready), "failed")
        PROVE  row' = row \/ row'.phase # "healthy"
    <3>1. Unready \in Rows /\ Unready.phase = "unhealthy"
      BY <1>1 DEF Unready, Rows, Phases
    <3>2. QED
      BY <1>1, <1>3, <2>2, <3>1 DEF Fenced
  <2>3. ASSUME row' = AfterSuccess(calls[c],
                         Fenced(calls[c].seen, Verified(calls[c].session, row.agent)),
                         calls[c].session)
        PROVE  row' = row \/ row'.phase # "healthy" \/ row'.session = calls[c].session
    <3>1. /\ Verified(calls[c].session, row.agent) \in Rows
          /\ Verified(calls[c].session, row.agent).session = calls[c].session
      BY <1>1 DEF Verified, Rows, Phases, Anyone
    <3>2. QED
      BY <1>1, <1>4, <2>3, <3>1 DEF Fenced
  <2>4. Alone(c) /\ calls'[c].pc = "none"
    BY <2>1, OnlyOne DEF NoCall
  <2>5. row'.phase = "healthy" => row'.session # None
    BY <1>12, <2>1, <2>2, <2>3 DEF Checked, Attached
  <2>6. QED
    BY <1>2, <2>1, <2>4, <2>5, AttachedOf DEF Opening
<1>13. CASE Resumed(c)
  <2>1. /\ UNCHANGED bound /\ EndCall(c) /\ bound = calls[c].session /\ calls[c].session # None
    BY <1>1, <1>13 DEF Resumed, AtPc, Rolling, Fits
  <2>2. CASE MayStart(calls[c].seen)
    <3>1. LET verified == Verified(calls[c].session, row.agent)
          IN row' = verified \/ row' = AfterSuccess(calls[c], verified, calls[c].session)
      BY <1>13, <2>1, <2>2 DEF Resumed, MayStart, Fenced
    <3>2. /\ Verified(calls[c].session, row.agent) \in Rows
          /\ Verified(calls[c].session, row.agent).session = calls[c].session
      BY <1>1 DEF Verified, Rows, Phases, Anyone
    <3>3. row'.phase = "healthy" => row'.session # None
      BY <1>1, <1>4, <2>1, <3>1, <3>2
    <3>4. Alone(c) /\ calls'[c].pc = "none"
      BY <2>1, OnlyOne DEF NoCall
    <3>5. QED
      BY <1>2, <2>1, <3>3, <3>4, AttachedOf DEF Opening
  <2>3. CASE ~MayStart(calls[c].seen)
    <3>1. row' = row \/ row' = AfterFailure(calls[c], row, "failed")
      BY <1>13, <2>3 DEF Resumed, MayStart, Fenced
    <3>2. QED
      BY <1>1, <1>3, <1>6, <2>1, <3>1
  <2>4. QED
    BY <2>2, <2>3
<1>14. CASE AtPc(c, "resume") /\ Proceed(c, "prepare") /\ UNCHANGED row
  <2>1. row.phase # "healthy"
    BY <1>14 DEF Attached, Opening, AtPc
  <2>2. Alone(c) /\ calls'[c] = [calls[c] EXCEPT !.pc = "prepare"]
    BY <1>14, OnlyOne
  <2>4. calls'[c].pc = "prepare"
    BY <1>1, <2>2 DEF CallRecords
  <2>3. QED
    BY <1>2, <1>14, <2>1, <2>2, <2>4, AttachedOf
<1>15. CASE /\ calls' = [calls EXCEPT ![c].pc = "yield", ![c].session = Fresh]
            /\ row' = Verified(Fresh, row.agent) /\ bound' = Fresh
  <2>2. Alone(c) /\ calls'[c].pc = "yield"
    BY <1>1, <1>15, OnlyOne DEF Alone, CallRecords
  <2>3. Fresh # None
    BY TypeFacts DEF Fresh, None
  <2>4. row'.session = Fresh
    BY <1>1, <1>15 DEF Verified, Rows
  <2>5. QED
    BY <1>2, <1>15, <2>2, <2>3, <2>4, AttachedOf DEF Opening
<1>16. CASE Registered(c)
  BY <1>1, <1>7, <1>15, <1>16 DEF Registered
<1>17. CASE ResumeLost(c)
  BY <1>7, <1>14, <1>17 DEF ResumeLost
<1>18. CASE TakesOver(c) \/ Prepared(c) \/ NotUp(c) \/ Withdrawn(c)
  BY <1>7, <1>10, <1>18 DEF TakesOver, Prepared, NotUp, Withdrawn
<1>19. QED
  BY <1>8, <1>9, <1>11, <1>12, <1>13, <1>16, <1>17, <1>18

\* What is not a step of a start or of a rollover changes no agent.
LEMMA SameOutside ==
    ASSUME Types, SameAgent, Attached,
           RollBack \/ TurnBegins \/ (\E s \in Sessions : TurnEnds(s)) \/ Crash
    PROVE  SameAgent' /\ Attached'
<1>1. CASE RollBack
  <2> DEFINE r == Begun(row, row.lastGood, row.lastGood)
  <2>1. /\ selected' = row.lastGood /\ UNCHANGED <<bound, keyed, made, calls, roll>>
        /\ row' = [r EXCEPT !.phase = "rolled_back", !.due = FALSE, !.session = bound,
                            !.candidate = row.candidate]
    BY <1>1 DEF RollBack, rollVars
  <2>2. row \in Rows /\ row.lastGood \in Agents
    BY TypeFacts
  <2>3. r \in Rows /\ r.agent = row.lastGood /\ r.lastGood = row.lastGood
    BY <2>2, BegunRow
  <2> HIDE DEF r
  <2>4. row'.agent = row.lastGood /\ row'.lastGood = row.lastGood /\ row'.phase = "rolled_back"
    BY <2>1, <2>3 DEF Rows
  <2>5. SameAgent'
    BY <2>1, <2>4 DEF SameAgent, AgentOf, Active, At
  <2>6. Attached'
    BY <2>1, <2>4 DEF Attached
  <2>7. QED
    BY <2>5, <2>6
<1>2. CASE TurnBegins
  BY <1>2 DEF TurnBegins, rollVars, SameAgent, Attached, AgentOf, Active, At
<1>3. ASSUME NEW s \in Sessions, TurnEnds(s) PROVE SameAgent' /\ Attached'
  <2>1. UNCHANGED <<selected, bound, keyed, row, made, calls>>
    BY <1>3 DEF TurnEnds
  <2>2. ~At("idle")' => roll'.agent = selected
    <3>1. CASE UNCHANGED roll
      BY <3>1 DEF SameAgent, At
    <3>2. CASE roll' = Considered(s)
      <4>1. roll'.agent = AgentOf(s)
        BY <3>2 DEF Considered, NoRoll
      <4>2. s \in 1 .. Len(made)
        BY <1>3, LiveMoves, TypeFacts DEF TurnEnds, Sessions
      <4>3. QED
        BY <4>1, <4>2 DEF SameAgent
    <3>3. QED
      BY <1>3, <3>1, <3>2 DEF TurnEnds
  <2>3. QED
    BY <2>1, <2>2 DEF SameAgent, Attached, AgentOf, Active, At
<1>4. CASE Crash
  <2>1. UNCHANGED <<selected, bound, keyed, row, made>> /\ roll' = NoRoll
    BY <1>4 DEF Crash
  <2>2. \A d \in Calls : calls'[d].kind \in {"none", "reboot"} /\ calls'[d].pc \in {"none", "boot"}
    BY <1>4 DEF Crash, Reboot, NoCall
  <2>3. SameAgent'
    BY <2>1, <2>2 DEF SameAgent, AgentOf, Active, At, NoRoll
  <2>4. Attached'
    BY <2>1, <2>2 DEF Attached, Opening
  <2>5. QED
    BY <2>3, <2>4
<1>5. QED
  BY <1>1, <1>2, <1>3, <1>4

\* A start that begins is of the one agent.
LEMMA SameBegins ==
    ASSUME Types, Ages, Rolling, SameAgent, Attached, NEW c \in Calls,
           Ask(c) \/ BootRollsBack(c) \/ BootResumes(c) \/ BootIgnores(c)
    PROVE  SameAgent' /\ Attached'
<1>1. \A d \in Calls \ {c} : Idle(d)
  BY CallNumbers
     DEF Ask, NoneInFlight, BootRollsBack, BootResumes, BootIgnores, AtPc, Ages, OneStart
<1>2. CASE Ask(c)
  <2> DEFINE r == StartBegun(row, selected)
             call == Call("start", selected, r, r.lastGood)
  <2>1. /\ Enter(c, call, r) /\ Starts(call) /\ call.old = None /\ call.was = None
        /\ r \in Rows /\ r.session <= Len(made) /\ r.generation \in Nat
        /\ call.generation = r.generation
        /\ call.agent = selected /\ call.previous = row.lastGood
        /\ r.phase = "starting" /\ r.agent = selected /\ r.lastGood = row.lastGood
    BY <1>2, AskEnters, Zenon
  <2> HIDE DEF call, r
  <2>2. selected' = selected /\ row.lastGood = selected
    BY <1>2 DEF Ask, SameAgent
  <2>3. QED
    BY <1>1, <2>1, <2>2, SameEnters, AttachedEnters
<1>3. CASE BootRollsBack(c) \/ BootResumes(c)
  <2>1. PICK call, r :
          /\ Enter(c, call, r) /\ Starts(call) /\ call.old = None /\ call.was = None
          /\ r \in Rows /\ r.session <= Len(made) /\ r.generation \in Nat
          /\ call.generation = r.generation /\ call.agent = r.agent
          /\ call.previous = row.lastGood /\ r.phase = "starting" /\ r.lastGood = row.lastGood
          /\ r.agent = IF BootRollsBack(c) THEN row.lastGood ELSE row.agent
    BY <1>3, BootEnters, Zenon
  <2>2. selected' = selected /\ row.lastGood = selected /\ r.agent = selected
    BY <1>3, <2>1 DEF BootRollsBack, BootResumes, SameAgent
  <2>3. QED
    BY <1>1, <2>1, <2>2, SameEnters, AttachedEnters
<1>4. CASE BootIgnores(c)
  <2>1. EndCall(c) /\ UNCHANGED <<selected, bound, keyed, row, made, roll>>
    BY <1>4 DEF BootIgnores, runtimeVars, rollVars
  <2>2. Alone(c) /\ calls'[c] = NoCall
    BY <2>1, OnlyOne
  <2>3. SameAgent'
    BY <2>1, <2>2, SameOf DEF SameAgent
  <2>4. Attached'
    <3>1. calls'[c].pc = "none"
      BY <2>2 DEF NoCall
    <3>2. QED
      BY <1>1, <2>1, <2>2, <3>1, AttachedOf DEF Attached, Opening
  <2>5. QED
    BY <2>3, <2>4
<1>5. QED
  BY <1>2, <1>3, <1>4

\* So every step keeps the two invariants, except that a choice by hand need not.
LEMMA SameStep ==
    ASSUME Types, Ages, Rolling, left.switches = 0, SameAgent, Attached, [Next]_vars,
           ~(\E agent \in Agents : SelectAgent(agent))
    PROVE  SameAgent' /\ Attached'
<1>1. CASE UNCHANGED vars
  BY <1>1 DEF vars, runtimeVars, rollVars, SameAgent, Attached, AgentOf, Active, At
<1>2. ASSUME NEW c \in Calls, StartSteps(c) PROVE SameAgent' /\ Attached'
  <2>1. ~CommitSwitch(c) /\ ~(\E agent \in Agents : BeginSwitch(c, agent))
    <3>1. ~CommitSwitch(c)
      BY DEF CommitSwitch, Rolling, Fits
    <3>2. ~(0 > 0)
      OBVIOUS
    <3>3. ~(\E agent \in Agents : BeginSwitch(c, agent))
      BY <3>2 DEF BeginSwitch, Spend
    <3>4. QED
      BY <3>1, <3>3
  <2>2. CASE Ask(c)
    BY <2>2, SameBegins
  <2>3. CASE ~Ask(c)
    BY <1>2, <2>1, <2>3, SameGoesOn, AttachedGoesOn DEF StartSteps
  <2>4. QED
    BY <2>2, <2>3
<1>3. QED
  BY <1>1, <1>2, SameRolls, AttachedRolls, SameBegins, SameOutside DEF Next

\* Before the agent is chosen by hand, and with rollover.
Alike == policy /\ ~Edited => SameAgent /\ Attached

\* They hold always.
LEMMA AlwaysAlike == ASSUME Apart, OneEdit PROVE Spec => []Alike
<1>1. Init => Alike
  <2> SUFFICES ASSUME Init PROVE SameAgent /\ Attached
    BY DEF Alike
  <2>1. PICK agent \in Agents :
          /\ selected = agent /\ bound = 1 /\ keyed = agent
          /\ made = <<[agent |-> agent, source |-> None]>> /\ roll = NoRoll
          /\ row = [generation |-> 1, agent |-> agent, candidate |-> NoAgent,
                    lastGood |-> agent, session |-> 1, phase |-> "healthy", due |-> FALSE]
          /\ calls = [c \in Calls |-> NoCall]
    BY DEF Init
  <2>2. Len(made) = 1 /\ AgentOf(1) = agent
    BY <2>1 DEF AgentOf
  <2>3. \A c \in Calls : calls[c].kind = "none" /\ calls[c].pc = "none"
    BY <2>1 DEF NoCall
  <2>4. roll.pc = "idle"
    BY <2>1 DEF NoRoll
  <2>5. SameAgent
    BY <2>1, <2>2, <2>3, <2>4 DEF SameAgent, Active, At
  <2>6. Attached
    BY <2>1, <2>3 DEF Attached, Opening, None
  <2>7. QED
    BY <2>5, <2>6
<1>2. Types /\ Ages /\ Rollovers /\ Unedited /\ Alike /\ [Next]_vars => Alike'
  <2> SUFFICES ASSUME Types, Ages, Rollovers, Unedited, Alike, [Next]_vars, policy', ~Edited'
               PROVE  SameAgent' /\ Attached'
    BY DEF Alike
  <2>1. /\ policy /\ left'.edits <= left.edits
        /\ left.edits = 0 => left'.edits = 0
    BY Budgets DEF Kinds
  <2>2. left.edits \in Nat /\ left \in [Kinds -> Nat]
    BY DEF Types, LeftOK, Kinds
  <2>3. ASSUME NEW agent \in Agents, SelectAgent(agent) PROVE left'.edits = 0
    BY <2>2, <2>3 DEF SelectAgent, Spend, Unedited, Kinds
  <2>4. ~Edited /\ ~(\E agent \in Agents : SelectAgent(agent))
    BY <2>1, <2>3 DEF Edited
  <2>5. QED
    BY <2>1, <2>4, SameStep DEF Alike, Rollovers
<1>3. QED
  BY <1>1, <1>2, AlwaysTypes, AlwaysAges, AlwaysRollovers, AlwaysUnedited, PTL DEF Spec

\* With nothing in progress a Captain said to be healthy is: its row, its session and the bound
\* session are of the selected agent, while that was not chosen by hand.
THEOREM Healthy == ASSUME Apart, OneEdit PROVE Spec => []HealthyIsTrue
<1>1. Types /\ Unedited /\ Alike => HealthyIsTrue
  <2> SUFFICES ASSUME Types, Unedited, Alike, ~Edited, row.phase = "healthy"
               PROVE  /\ row.agent = selected /\ AgentOf(row.session) = selected
                      /\ bound # None /\ AgentOf(bound) = selected
    BY DEF HealthyIsTrue
  <2>1. CASE policy
    <3>1. bound \in 1 .. Len(made) /\ row.session \in 1 .. Len(made)
      BY <2>1, TypeFacts DEF Alike, Attached, Known, None
    <3>2. QED
      BY <2>1, <3>1 DEF Alike, SameAgent, None
  <2>2. CASE ~policy
    BY <2>2 DEF Unedited, Switches, Trusted
  <2>3. QED
    BY <2>1, <2>2
<1>2. QED
  BY <1>1, AlwaysTypes, AlwaysUnedited, AlwaysAlike, PTL

\* A session is bound only for the agent that is selected, while that was not chosen by hand.
THEOREM BindsSelected == ASSUME Apart, OneEdit PROVE Spec => BoundForSelected
<1>1. Types /\ Ages /\ Rollovers /\ InTime /\ Unedited /\ Alike /\ [Next]_vars =>
        (bound' # bound /\ bound' # None /\ ~Edited => made'[bound'].agent = selected')
  <2> SUFFICES ASSUME Types, Ages, Rollovers, InTime, Unedited, Alike, [Next]_vars,
                      bound' # bound, bound' # None, ~Edited
               PROVE  made'[bound'].agent = selected'
    OBVIOUS
  <2>1. ~(\E agent \in Agents : SelectAgent(agent))
    BY DEF SelectAgent
  <2>2. CASE policy
    <3>1. SameAgent'
      BY <2>1, <2>2, SameStep DEF Alike, Rollovers
    <3>2. Types'
      BY StepTypes
    <3>3. bound' \in 1 .. Len(made')
      BY <3>2, CaptainAssumption DEF Types, RuntimeOK, Known, None
    <3>4. QED
      BY <3>1, <3>3 DEF SameAgent, AgentOf
  <2>3. CASE ~policy
    <3>1. Switches'
      BY <2>1, <2>3, SwitchesStep DEF Unedited, InTime
    <3>2. QED
      BY <3>1 DEF Switches, Trusted, AgentOf
  <2>4. QED
    BY <2>2, <2>3
<1>2. Apart => Unhurried
  BY DEF Apart, Unhurried
<1>3. QED
  BY <1>1, <1>2, AlwaysTypes, AlwaysAges, AlwaysRollovers, AlwaysInTime, AlwaysUnedited,
     AlwaysAlike, PTL
     DEF Spec, BoundForSelected

------------------------------------------------------------------------------
(* What is selected *)

\* Only these steps select an agent.
LEMMA WhoSelects ==
    ASSUME Types, [Next]_vars, selected' # selected
    PROVE  \/ \E agent \in Agents : SelectAgent(agent)
           \/ selected' = row.lastGood
           \/ \E c \in Calls : CommitSwitch(c)
<1>1. ASSUME RollSteps PROVE FALSE
  BY <1>1, RollCalls
<1>2. ASSUME NEW c \in Calls, StartSteps(c) PROVE CommitSwitch(c)
  BY <1>2 DEF StartSteps, Ask, Expire, Released, TakesOver, Recovered, Checked, Resumed,
              ResumeLost, Prepared, Registered, NotUp, Withdrawn, Started, BeginSwitch
<1>3. ~TurnBegins /\ ~Crash /\ ~UNCHANGED vars /\ \A s \in Sessions : ~TurnEnds(s)
  BY DEF TurnBegins, Crash, TurnEnds, vars, runtimeVars
<1>4. ASSUME NEW c \in Calls, BootRollsBack(c) \/ BootResumes(c) \/ BootIgnores(c)
      PROVE  selected' = row.lastGood
  BY <1>4 DEF BootRollsBack, BootResumes, BootIgnores, runtimeVars
<1>5. RollBack => selected' = row.lastGood
  BY DEF RollBack
<1>6. QED
  BY <1>1, <1>2, <1>3, <1>4, <1>5 DEF Next

\* The selected agent changes to one whose session is verified, up and bound in the same step,
\* or back to the last one known to be good, while it was not chosen by hand.
THEOREM SelectionEarned == ASSUME Apart, OneEdit PROVE Spec => SelectionIsEarned
<1>1. Types /\ Rollovers /\ Unedited /\ [Next]_vars =>
        (selected' # selected /\ ~Edited =>
           \/ left'.edits < left.edits
           \/ selected' = row.lastGood
           \/ row'.phase = "healthy" /\ row'.agent = selected' /\ row'.session = bound'
              /\ IsLive(bound)' /\ made'[bound'].agent = selected')
  <2> SUFFICES ASSUME Types, Rollovers, Unedited, [Next]_vars, selected' # selected,
                      ~Edited, selected' # row.lastGood
               PROVE  \/ left'.edits < left.edits
                      \/ row'.phase = "healthy" /\ row'.agent = selected' /\ row'.session = bound'
                         /\ IsLive(bound)' /\ made'[bound'].agent = selected'
    OBVIOUS
  <2>1. ASSUME NEW agent \in Agents, SelectAgent(agent) PROVE left'.edits < left.edits
    <3>1. left.edits \in Nat /\ left \in [Kinds -> Nat]
      BY DEF Types, LeftOK, Kinds
    <3>2. left'.edits = left.edits - 1
      BY <2>1, <3>1 DEF SelectAgent, Spend, Kinds
    <3>3. QED
      BY <3>1, <3>2
  <2>2. ASSUME NEW c \in Calls, CommitSwitch(c)
        PROVE  row'.phase = "healthy" /\ row'.agent = selected' /\ row'.session = bound'
               /\ IsLive(bound)' /\ made'[bound'].agent = selected'
    <3>1. ~policy
      BY <2>2 DEF CommitSwitch, Rollovers, Rolling, Fits
    <3>2. Unrolled /\ Switches /\ Candidates
      BY <3>1 DEF Rollovers, Unedited
    <3>3. /\ bound' = calls[c].session /\ Kept(calls[c].session) /\ row'.phase = "healthy"
          /\ row'.agent = selected' /\ row'.session = bound' /\ made'[bound'].agent = selected'
      BY <2>2, <3>2, CandidatesCommit
    <3>4. QED
      BY <3>3 DEF Kept, IsLive
  <2>3. QED
    BY <2>1, <2>2, WhoSelects
<1>2. QED
  BY <1>1, AlwaysTypes, AlwaysRollovers, AlwaysUnedited, PTL
     DEF Spec, SelectionIsEarned

=============================================================================
