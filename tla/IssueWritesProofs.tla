-------------------------- MODULE IssueWritesProofs --------------------------
(***************************************************************************)
(* What the ledger of delegated issue writes promises, proved for any      *)
(* calls, reconciliations, keys, Captains and crashes.                     *)
(*                                                                         *)
(* The types come first, then what a row says of the requests that were    *)
(* made under its key: a row nobody holds has none at GitHub, and the      *)
(* epoch of a reserved row names the only call that may have one.  From    *)
(* that follow the authorization of a dispatch, the one write under a key, *)
(* and that the ledger implements WriteOnce.                               *)
(***************************************************************************)
EXTENDS IssueWrites, FiniteSetTheorems, TLAPS

(* The transactions over one row. *)

\* Every transaction leaves a row of the declared shape.
LEMMA RowTransactions ==
    ASSUME TypeOK, NEW r \in Rows
    PROVE  /\ Unresolved(r) \in Rows
           /\ \A c \in Calls : Reserved(r, c) \in Rows
           /\ \A status \in {"succeeded", "failed", "unresolved"} : SettledAs(r, status) \in Rows
           /\ \A applied : WithEffects(r, applied) \in Rows
           /\ [r EXCEPT !.leased = FALSE] \in Rows
  <1> USE DEF Rows, Jobs, Open, TypeOK
  <1>1. r.epoch + 1 \in Nat /\ r.effects + 1 \in Nat
    OBVIOUS
  <1>2. Unresolved(r) \in Rows
    BY <1>1 DEF Unresolved
  <1>3. ASSUME NEW c \in Calls PROVE Reserved(r, c) \in Rows
    <2>1. job[c].text \in Texts \cup {"plain"} /\ captain \in Captains \cup {Nobody}
      OBVIOUS
    <2>2. QED
      BY <1>1, <2>1 DEF Reserved
  <1>4. \A status \in {"succeeded", "failed", "unresolved"} : SettledAs(r, status) \in Rows
    BY <1>2 DEF SettledAs
  <1>5. \A applied : WithEffects(r, applied) \in Rows
    BY <1>1 DEF WithEffects
  <1>6. [r EXCEPT !.leased = FALSE] \in Rows
    OBVIOUS
  <1>7. QED
    BY <1>2, <1>3, <1>4, <1>5, <1>6

\* Settling and listing rows leaves a table of them.
LEMMA Tables ==
    ASSUME TypeOK
    PROVE  /\ \A done \in SUBSET Keys : Listed(row, done) \in [Keys -> Rows]
           /\ \A k \in Keys, status \in {"succeeded", "failed", "unresolved"} : \A epoch, applied :
                    Settle(k, epoch, status, applied) => row' \in [Keys -> Rows]
  <1>1. \A k \in Keys : row[k] \in Rows
    BY DEF TypeOK
  <1>2. ASSUME NEW done \in SUBSET Keys PROVE Listed(row, done) \in [Keys -> Rows]
    <2>1. \A k \in Keys : Unresolved(row[k]) \in Rows /\ WithEffects(row[k], k \in done) \in Rows
      BY <1>1, RowTransactions
    <2>2. QED
      BY <2>1 DEF Listed
  <1>3. ASSUME NEW k \in Keys, NEW status \in {"succeeded", "failed", "unresolved"},
               NEW epoch, NEW applied, Settle(k, epoch, status, applied)
        PROVE  row' \in [Keys -> Rows]
    <2>1. WithEffects(SettledAs(row[k], status), applied) \in Rows
      BY <1>1, RowTransactions
    <2>2. QED
      BY <1>3, <2>1 DEF Settle, TypeOK
  <1>4. QED
    BY <1>2, <1>3

------------------------------------------------------------------------------

\* Every variable keeps its type, whatever is asked, answered, replaced or lost.
THEOREM Typing == Spec => []TypeOK
  <1>1. Init => TypeOK
    BY WritesAssumption DEF Init, TypeOK, Rows, Jobs, Open, NoRow, NoJob
  <1>2. TypeOK /\ [Next]_vars => TypeOK'
    <2> SUFFICES ASSUME TypeOK, [Next]_vars PROVE TypeOK'
      OBVIOUS
    <2> DEFINE Places == {"idle", "preflight", "claiming", "claimed", "wire", "searching", "done"}
    <2> USE DEF TypeOK
    <2>1. \A a \in Agents : \A where \in Places : Goto(a, where) => pc' \in [Agents -> Places]
      BY DEF Goto
    <2>2. Calls \subseteq Agents /\ Sweeps \subseteq Agents
      BY DEF Agents
    <2>3. ASSUME NEW a \in Agents, NEW done \in SUBSET Keys, Reconcile(a, row, done)
          PROVE  /\ row' \in [Keys -> Rows] /\ pc' \in [Agents -> Places]
                 /\ todo' \in [Agents -> SUBSET [key : Keys, epoch : Nat]]
      <3>1. row' \in [Keys -> Rows] /\ pc' \in [Agents -> Places]
        BY <2>1, <2>3, Tables DEF Reconcile
      <3>2. \A k \in Keys : row'[k].epoch \in Nat
        BY <3>1 DEF Rows
      <3>3. Questions(row') \in SUBSET [key : Keys, epoch : Nat]
        BY <3>2 DEF Questions
      <3>4. QED
        BY <2>3, <3>1, <3>3 DEF Reconcile
    <2>4. ASSUME NEW c \in Calls, NEW k \in Keys, NEW x \in Texts, Ask(c, k, x) PROVE TypeOK'
      BY <2>1, <2>2, <2>4 DEF Ask, Jobs
    <2>5. ASSUME NEW c \in Calls, Preflight(c) PROVE TypeOK'
      BY <2>1, <2>2, <2>5 DEF Preflight
    <2>6. ASSUME NEW c \in Calls, Begin(c) PROVE TypeOK'
      <3> DEFINE k == job[c].key
      <3>1. k \in Keys /\ row[k] \in Rows /\ row[k].epoch + 1 \in Nat
        BY DEF Jobs, Rows
      <3>2. UNCHANGED <<req, shown, captain, spent>>
        BY <2>6 DEF Begin
      <3>3. CASE Claim(c) /\ UNCHANGED todo
        <4>1. row' \in [Keys -> Rows]
          BY <3>1, <3>3, RowTransactions DEF Claim, Put
        <4>2. job' \in [Calls -> Jobs]
          BY <3>1, <3>3 DEF Claim, Jobs
        <4>3. QED
          BY <2>1, <2>2, <3>2, <3>3, <4>1, <4>2 DEF Claim
      <3>4. CASE UNCHANGED <<row, job, todo>> /\ Goto(c, "done")
        BY <2>1, <2>2, <3>2, <3>4
      <3>5. CASE /\ \E applied \in BOOLEAN : Put(k, WithEffects(row[k], applied))
                 /\ Goto(c, "done") /\ UNCHANGED <<job, todo>>
        <4>1. row' \in [Keys -> Rows]
          <5>1. PICK applied \in BOOLEAN : Put(k, WithEffects(row[k], applied))
            BY <3>5
          <5>2. WithEffects(row[k], applied) \in Rows
            BY <3>1, RowTransactions
          <5>3. QED
            BY <5>1, <5>2 DEF Put
        <4>2. Goto(c, "done") /\ UNCHANGED <<job, todo>>
          BY <3>5
        <4>3. QED
          BY <2>1, <2>2, <3>2, <4>1, <4>2
      <3>6. CASE (\E done \in SUBSET Keys : Reconcile(c, row, done)) /\ UNCHANGED job
        BY <2>2, <2>3, <3>2, <3>6
      <3>7. QED
        BY <2>6, <3>3, <3>4, <3>5, <3>6 DEF Begin
    <2>7. ASSUME NEW c \in Calls, Dispatch(c) PROVE TypeOK'
      <3>1. job[c].key \in Keys
        BY DEF Jobs
      <3>2. row' \in [Keys -> Rows]
        <4>1. \/ \E status \in {"succeeded", "failed"}, applied \in BOOLEAN :
                    Settle(job[c].key, job[c].epoch, status, applied)
              \/ UNCHANGED row
          BY <2>7 DEF Dispatch
        <4>2. QED
          BY <3>1, <4>1, Tables
      <3>3. req' \in [Calls -> {"none", "unsent", "sent", "written", "refused"}]
        BY <2>7 DEF Dispatch
      <3>4. pc' \in [Agents -> Places]
        BY <2>1, <2>2, <2>7 DEF Dispatch
      <3>5. QED
        BY <2>7, <3>2, <3>3, <3>4 DEF Dispatch
    <2>8. ASSUME NEW c \in Calls, Answer(c) PROVE TypeOK'
      <3>1. job[c].key \in Keys
        BY DEF Jobs
      <3>2. row' \in [Keys -> Rows]
        <4>1. \E status \in {"succeeded", "failed", "unresolved"}, applied \in BOOLEAN :
                    Settle(job[c].key, job[c].epoch, status, applied)
          BY <2>8 DEF Answer
        <4>2. QED
          BY <3>1, <4>1, Tables
      <3>3. QED
        BY <2>1, <2>2, <2>8, <3>2 DEF Answer
    <2>9. ASSUME NEW c \in Calls, Execute(c) PROVE TypeOK'
      BY <2>9 DEF Execute
    <2>10. ASSUME NEW c \in Calls, Refuse(c) PROVE TypeOK'
      BY <2>10 DEF Refuse
    <2>11. ASSUME NEW s \in Sweeps, Sweep(s) PROVE TypeOK'
      BY <2>2, <2>3, <2>11 DEF Sweep
    <2>12. ASSUME NEW a \in Agents, Search(a) PROVE TypeOK'
      <3>1. PICK q \in todo[a] :
              /\ todo' = [todo EXCEPT ![a] = @ \ {q}]
              /\ \/ \E applied \in BOOLEAN : Settle(q.key, q.epoch, "succeeded", applied)
                 \/ UNCHANGED row
        BY <2>12 DEF Search
      <3>2. q.key \in Keys /\ q.epoch \in Nat
        OBVIOUS
      <3>3. row' \in [Keys -> Rows]
        BY <3>1, <3>2, Tables
      <3>4. QED
        BY <2>12, <3>1, <3>3 DEF Search
    <2>13. ASSUME NEW a \in Agents, Searched(a) PROVE TypeOK'
      BY <2>1, <2>13 DEF Searched
    <2>14. ASSUME NEW k \in Keys, SameEdit(k) PROVE TypeOK'
      BY <2>14 DEF SameEdit
    <2>15. ASSUME NEW k \in Keys, Lapse(k) PROVE TypeOK'
      BY <2>15, RowTransactions DEF Lapse, Put
    <2>16. ASSUME NEW w \in Captains \cup {Nobody}, ChangeCaptain(w) PROVE TypeOK'
      BY <2>16 DEF ChangeCaptain
    <2>17. CASE Crash
      BY <2>17 DEF Crash
    <2>18. CASE UNCHANGED vars
      BY <2>18 DEF vars
    <2>19. QED
      BY <2>4, <2>5, <2>6, <2>7, <2>8, <2>9, <2>10, <2>11, <2>12, <2>13, <2>14, <2>15, <2>16,
         <2>17, <2>18 DEF Next
  <1>3. QED
    BY <1>1, <1>2, PTL DEF Spec
------------------------------------------------------------------------------
(* Turns and claims. *)

\* One JavaScript turn runs at a time, and a call that has claimed its key in its turn
\* finds its row as it left it: reserved at its epoch, for the Captain there is, with
\* nothing sent by anybody whose claim the row still follows.
TurnsFence ==
    /\ \A a, b \in Agents : pc[a] \in MidTurn /\ pc[b] \in MidTurn => a = b
    /\ \A c \in Calls : pc[c] \in {"idle", "preflight", "claiming", "claimed"} => req[c] = "none"
    /\ \A c \in Calls : pc[c] = "wire" => req[c] # "none"
    /\ \A c \in Calls : pc[c] = "claimed" =>
            LET r == row[job[c].key] IN
            /\ r.status = "reserved" /\ r.epoch = job[c].epoch
            /\ r.by = captain

\* What the transactions do to the status and the epoch of a row.
LEMMA RowFates ==
    ASSUME NEW r \in Rows, NEW c, NEW applied
    PROVE  /\ Reserved(r, c).status = "reserved" /\ Reserved(r, c).epoch = r.epoch + 1
           /\ Reserved(r, c).by = captain /\ Reserved(r, c).effects = r.effects
           /\ Unresolved(r).status = "unresolved" /\ Unresolved(r).epoch = r.epoch + 1
           /\ Unresolved(r).effects = r.effects
           /\ WithEffects(r, applied).status = r.status
           /\ WithEffects(r, applied).epoch = r.epoch
           /\ WithEffects(r, applied).by = r.by
           /\ \A status \in {"succeeded", "failed"} :
                /\ SettledAs(r, status).status = status /\ SettledAs(r, status).epoch = r.epoch
                /\ SettledAs(r, status).effects = r.effects
           /\ SettledAs(r, "unresolved") = Unresolved(r)
  BY DEF Rows, Reserved, Unresolved, WithEffects, SettledAs

\* What settling a row does to the table: nothing, or its own row leaves the open ones
\* at the epoch that settles it.
LEMMA SettleFates ==
    ASSUME TypeOK, NEW k \in Keys, NEW epoch, NEW applied,
           NEW status \in {"succeeded", "failed", "unresolved"},
           Settle(k, epoch, status, applied)
    PROVE  /\ \A j \in Keys \ {k} : row'[j] = row[j]
           /\ \/ row'[k] = row[k]
              \/ /\ row[k].epoch = epoch /\ row[k].status \in Open
                 /\ row'[k].status = status
                 /\ row'[k].epoch = IF status = "unresolved" THEN epoch + 1 ELSE epoch
                 /\ \/ row'[k].effects = row[k].effects
                    \/ /\ status = "succeeded" /\ row[k].effects = 0
                       /\ row'[k].effects = 1
  <1>1. row[k] \in Rows /\ row \in [Keys -> Rows]
    BY DEF TypeOK
  <1> DEFINE settled == SettledAs(row[k], status)
  <1>2. CASE ~MaySettle(row[k], epoch)
    BY <1>2 DEF Settle
  <1>3. CASE MaySettle(row[k], epoch)
    <2>1. row' = [row EXCEPT ![k] = WithEffects(settled, applied)]
      BY <1>1, <1>3 DEF Settle
    <2>2. settled \in Rows
      BY <1>1, RowTransactions
    <2>3. /\ settled.status = status /\ settled.effects = row[k].effects
          /\ settled.epoch = IF status = "unresolved" THEN epoch + 1 ELSE epoch
      BY <1>1, <1>3, RowFates DEF MaySettle
    <2> HIDE DEF settled
    <2>4. /\ WithEffects(settled, applied).status = settled.status
          /\ WithEffects(settled, applied).epoch = settled.epoch
          /\ \/ WithEffects(settled, applied).effects = settled.effects
             \/ /\ settled.status = "succeeded" /\ settled.effects = 0
                /\ WithEffects(settled, applied).effects = 1
      BY <2>2 DEF WithEffects, MayApply, Rows
    <2>5. row'[k] = WithEffects(settled, applied) /\ \A j \in Keys \ {k} : row'[j] = row[j]
      BY <1>1, <2>1
    <2>6. row[k].epoch = epoch /\ row[k].status \in Open
      BY <1>3 DEF MaySettle
    <2>7. QED
      BY <2>3, <2>4, <2>5, <2>6
  <1>4. QED
    BY <1>2, <1>3

\* What the listing of a reconciliation does to the table: a lapsed reservation becomes
\* unresolved, and of the others only the effects change.
LEMMA ListedFates ==
    ASSUME TypeOK, NEW done \in SUBSET Keys, row' = Listed(row, done), NEW k \in Keys
    PROVE  \/ /\ row[k].status = "reserved"
              /\ row'[k].status = "unresolved" /\ row'[k].epoch = row[k].epoch + 1
              /\ row'[k].effects = row[k].effects
           \/ /\ row'[k].status = row[k].status /\ row'[k].epoch = row[k].epoch
              /\ \/ row'[k].effects = row[k].effects
                 \/ row[k].status = "succeeded" /\ row[k].effects = 0 /\ row'[k].effects = 1
  <1>1. row[k] \in Rows
    BY DEF TypeOK
  <1>2. CASE Lapsed(row[k])
    BY <1>1, <1>2, RowFates DEF Listed, Lapsed
  <1>3. CASE ~Lapsed(row[k])
    <2>1. row'[k] = WithEffects(row[k], k \in done)
      BY <1>3 DEF Listed
    <2>2. QED
      BY <1>1, <2>1 DEF WithEffects, MayApply, Rows
  <1>4. QED
    BY <1>2, <1>3

\* A call between two steps of its turn is alone in it, and finds its claim as it made it.
LEMMA Turns == Spec => []TurnsFence
  <1>1. Init => TurnsFence
    BY DEF Init, TurnsFence, MidTurn, Agents
  <1>2. TypeOK /\ TurnsFence /\ [Next]_vars => TurnsFence'
    <2> SUFFICES ASSUME TypeOK, TurnsFence, [Next]_vars PROVE TurnsFence'
      OBVIOUS
    <2>1. Calls \subseteq Agents /\ Sweeps \subseteq Agents /\ pc = [a \in Agents |-> pc[a]]
      BY DEF Agents, TypeOK
    <2>2. \A a \in Agents : Turn(a) /\ pc[a] \notin MidTurn => \A b \in Agents : pc[b] \notin MidTurn
      BY DEF Turn
    <2>3. \A a, b \in Agents : pc[a] \in MidTurn /\ b # a => pc[b] \notin MidTurn
      BY DEF TurnsFence
    \* The agent a, alone in its turn, goes on to a step outside of it.
    <2>4. ASSUME NEW a \in Agents, NEW where \in {"wire", "searching", "done"},
                 Goto(a, where), UNCHANGED req, a \in Calls /\ where = "wire" => req[a] # "none",
                 \A b \in Agents \ {a} : pc[b] \notin MidTurn
          PROVE  TurnsFence'
      <3>1. pc'[a] = where /\ \A b \in Agents \ {a} : pc'[b] = pc[b]
        BY <2>1, <2>4 DEF Goto
      <3>2. \A b \in Agents : pc'[b] \notin MidTurn
        BY <2>4, <3>1 DEF MidTurn
      <3>3. QED
        BY <2>1, <2>4, <3>1, <3>2 DEF TurnsFence, MidTurn
    \* Nobody moves, and no claim changes under a call in its turn.
    <2>5. ASSUME UNCHANGED <<pc, job, captain>>,
                 \A c \in Calls : req'[c] # req[c] => req[c] = "sent" /\ req'[c] # "none",
                 \A c \in Calls : pc[c] = "claimed" =>
                    /\ row'[job[c].key].status = row[job[c].key].status
                    /\ row'[job[c].key].epoch = row[job[c].key].epoch
                    /\ row'[job[c].key].by = row[job[c].key].by
          PROVE  TurnsFence'
      BY <2>5 DEF TurnsFence
    <2>6. ASSUME NEW c \in Calls, NEW k \in Keys, NEW x \in Texts, Ask(c, k, x) PROVE TurnsFence'
      <3>1. \A b \in Agents : pc[b] \notin MidTurn
        BY <2>1, <2>2, <2>6 DEF Ask, MidTurn
      <3>2. /\ pc'[c] \in {"preflight", "claiming"} /\ \A b \in Agents \ {c} : pc'[b] = pc[b]
            /\ \A d \in Calls \ {c} : job'[d] = job[d]
            /\ UNCHANGED <<row, req, captain>> /\ req[c] = "none"
        BY <2>1, <2>6 DEF Ask, Goto, TurnsFence, TypeOK
      <3>3. QED
        BY <2>1, <3>1, <3>2 DEF TurnsFence, MidTurn
    <2>7. ASSUME NEW c \in Calls, Preflight(c) PROVE TurnsFence'
      <3>1. \A b \in Agents : pc[b] \notin MidTurn
        BY <2>1, <2>2, <2>7 DEF Preflight, MidTurn
      <3>2. /\ pc'[c] \in {"claiming", "done"} /\ \A b \in Agents \ {c} : pc'[b] = pc[b]
            /\ UNCHANGED <<row, req, job, captain>> /\ req[c] = "none"
        BY <2>1, <2>7 DEF Preflight, Goto, TurnsFence
      <3>3. QED
        BY <2>1, <3>1, <3>2 DEF TurnsFence, MidTurn
    <2>8. ASSUME NEW c \in Calls, Begin(c) PROVE TurnsFence'
      <3>1. pc[c] = "claiming" /\ UNCHANGED <<req, captain>> /\ c \in Agents
        BY <2>1, <2>8 DEF Begin
      <3>2. \A b \in Agents \ {c} : pc[b] \notin MidTurn
        BY <2>3, <3>1 DEF MidTurn
      <3>3. CASE Goto(c, "done") \/ Goto(c, "searching")
        BY <2>4, <3>1, <3>2, <3>3
      <3>4. CASE Claim(c)
        <4>1. job[c].key \in Keys /\ row[job[c].key] \in Rows
          BY DEF TypeOK, Jobs
        <4>2. /\ pc'[c] = "claimed" /\ \A b \in Agents \ {c} : pc'[b] = pc[b]
              /\ row'[job[c].key] = Reserved(row[job[c].key], c)
              /\ job'[c].key = job[c].key /\ job'[c].epoch = row[job[c].key].epoch + 1
          BY <2>1, <3>1, <3>4, <4>1 DEF Claim, Goto, Put, TypeOK, Jobs
        <4>3. /\ row'[job'[c].key].status = "reserved" /\ row'[job'[c].key].epoch = job'[c].epoch
              /\ row'[job'[c].key].by = captain
          BY <4>1, <4>2, RowFates
        <4>4. req[c] = "none" /\ captain' = captain /\ req' = req
          BY <3>1 DEF TurnsFence
        <4>5. QED
          BY <2>1, <3>2, <4>2, <4>3, <4>4 DEF TurnsFence, MidTurn
      <3>5. QED
        BY <2>8, <3>3, <3>4 DEF Begin, Reconcile
    <2>9. ASSUME NEW c \in Calls, Dispatch(c) PROVE TurnsFence'
      <3>1. pc[c] = "claimed" /\ c \in Agents
        BY <2>1, <2>9 DEF Dispatch
      <3>2. \A b \in Agents \ {c} : pc[b] \notin MidTurn
        BY <2>3, <3>1 DEF MidTurn
      <3>3. CASE Goto(c, "done") /\ UNCHANGED req
        BY <2>4, <3>1, <3>2, <3>3
      <3>4. CASE /\ \E sent \in {"sent", "unsent"} : req' = [req EXCEPT ![c] = sent]
                 /\ Goto(c, "wire")
        <4>1. /\ pc'[c] = "wire" /\ \A b \in Agents \ {c} : pc'[b] = pc[b]
              /\ req'[c] # "none" /\ \A d \in Calls \ {c} : req'[d] = req[d]
          BY <2>1, <3>1, <3>4 DEF Goto, TypeOK
        <4>2. \A b \in Agents : pc'[b] \notin MidTurn
          BY <3>2, <4>1 DEF MidTurn
        <4>3. QED
          BY <2>1, <4>1, <4>2 DEF TurnsFence, MidTurn
      <3>5. QED
        BY <2>9, <3>3, <3>4 DEF Dispatch
    <2>10. ASSUME NEW c \in Calls, Answer(c) PROVE TurnsFence'
      <3>1. \A b \in Agents : pc[b] \notin MidTurn
        BY <2>1, <2>2, <2>10 DEF Answer, MidTurn
      <3>2. QED
        BY <2>1, <2>4, <2>10, <3>1 DEF Answer
    <2>11. ASSUME NEW c \in Calls, Execute(c) \/ Refuse(c) PROVE TurnsFence'
      <3>1. /\ UNCHANGED <<pc, job, captain, row>> /\ req[c] = "sent"
            /\ req' \in {[req EXCEPT ![c] = "written"], [req EXCEPT ![c] = "refused"]}
        BY <2>11 DEF Execute, Refuse
      <3>2. req'[c] # "none" /\ \A d \in Calls \ {c} : req'[d] = req[d]
        BY <3>1 DEF TypeOK
      <3>3. \A d \in Calls : req'[d] # req[d] => req[d] = "sent" /\ req'[d] # "none"
        BY <3>1, <3>2
      <3>4. QED
        BY <2>5, <3>1, <3>3
    <2>12. ASSUME NEW s \in Sweeps, Sweep(s) PROVE TurnsFence'
      <3>1. \A b \in Agents : pc[b] \notin MidTurn
        BY <2>1, <2>2, <2>12 DEF Sweep, MidTurn
      <3>2. Goto(s, "searching") /\ UNCHANGED req
        BY <2>12 DEF Sweep, Reconcile
      <3>3. QED
        BY <2>1, <2>4, <3>1, <3>2
    <2>13. ASSUME NEW a \in Agents, Search(a) PROVE TurnsFence'
      <3>1. \A b \in Agents : pc[b] \notin MidTurn
        BY <2>1, <2>2, <2>13 DEF Search, MidTurn
      <3>2. UNCHANGED <<pc, job, req, captain>>
        BY <2>13 DEF Search
      <3>3. \A c \in Calls : pc[c] # "claimed"
        BY <2>1, <3>1 DEF MidTurn
      <3>4. QED
        BY <2>5, <3>2, <3>3
    <2>14. ASSUME NEW a \in Agents, Searched(a) PROVE TurnsFence'
      <3>1. \A b \in Agents : pc[b] \notin MidTurn
        BY <2>1, <2>2, <2>14 DEF Searched, MidTurn
      <3>2. QED
        BY <2>4, <2>14, <3>1 DEF Searched
    <2>15. ASSUME NEW k \in Keys, SameEdit(k) PROVE TurnsFence'
      BY <2>5, <2>15 DEF SameEdit
    <2>16. ASSUME NEW k \in Keys, Lapse(k) PROVE TurnsFence'
      <3>1. row'[k] = [row[k] EXCEPT !.leased = FALSE] /\ \A j \in Keys \ {k} : row'[j] = row[j]
        BY <2>16 DEF Lapse, Put, TypeOK
      <3>2. row[k] \in Rows /\ \A c \in Calls : job[c].key \in Keys
        BY DEF TypeOK, Jobs
      <3>3. \A j \in Keys : /\ row'[j].status = row[j].status /\ row'[j].epoch = row[j].epoch
                            /\ row'[j].by = row[j].by
        BY <3>1, <3>2 DEF Rows
      <3>4. UNCHANGED <<pc, job, req, captain>>
        BY <2>16 DEF Lapse
      <3>5. QED
        BY <2>5, <3>2, <3>3, <3>4
    <2>17. ASSUME NEW w \in Captains \cup {Nobody}, ChangeCaptain(w) PROVE TurnsFence'
      BY <2>1, <2>17 DEF ChangeCaptain, TurnsFence, MidTurn
    <2>18. CASE Crash
      <3>1. \A a \in Agents : pc'[a] = IF pc[a] = "idle" THEN "idle" ELSE "done"
        BY <2>18 DEF Crash
      <3>2. UNCHANGED req
        BY <2>18 DEF Crash
      <3>3. QED
        BY <2>1, <3>1, <3>2 DEF TurnsFence, MidTurn
    <2>19. CASE UNCHANGED vars
      BY <2>5, <2>19 DEF vars
    <2>20. QED
      BY <2>6, <2>7, <2>8, <2>9, <2>10, <2>11, <2>12, <2>13, <2>14, <2>15, <2>16, <2>17, <2>18,
         <2>19 DEF Next
  <1>3. QED
    BY <1>1, <1>2, Typing, PTL DEF Spec

\* Dispatch is the only step that makes a request.
LEMMA OnlyDispatchSends ==
    ASSUME TypeOK, [Next]_vars, NEW c \in Calls, req[c] = "none", req'[c] = "sent"
    PROVE  Dispatch(c)
  <1> USE DEF TypeOK
  <1>1. ASSUME NEW d \in Calls, Dispatch(d) PROVE d = c
    BY <1>1 DEF Dispatch
  <1>2. ~UNCHANGED req
    OBVIOUS
  <1>3. ~ \E d \in Calls : \/ \E k \in Keys, x \in Texts : Ask(d, k, x)
                           \/ Preflight(d) \/ Begin(d) \/ Answer(d)
    BY <1>2 DEF Ask, Preflight, Begin, Answer
  <1>4. ~ \E d \in Calls : Execute(d) \/ Refuse(d)
    BY DEF Execute, Refuse
  <1>5. /\ ~ \E s \in Sweeps : Sweep(s)
        /\ ~ \E a \in Agents : Search(a) \/ Searched(a)
        /\ ~ \E k \in Keys : SameEdit(k) \/ Lapse(k)
        /\ ~ \E w \in Captains \cup {Nobody} : ChangeCaptain(w)
        /\ ~Crash /\ ~UNCHANGED vars
    BY <1>2 DEF Sweep, Search, Searched, SameEdit, Lapse, ChangeCaptain, Crash, vars
  <1>6. QED
    BY <1>1, <1>3, <1>4, <1>5 DEF Next

\* A request leaves for GitHub only on behalf of the Captain there is, under a row that
\* names it, although the authorization that let the call in was given before its awaits.
THEOREM AuthorizedDispatches == Spec => DispatchIsAuthorized
  <1>1. TypeOK /\ TurnsFence /\ [Next]_vars =>
          [\A c \in Calls : req[c] = "none" /\ req'[c] = "sent" =>
             /\ job[c].who = captain /\ captain # Nobody
             /\ row[job[c].key].by = captain]_vars
    <2> SUFFICES ASSUME TypeOK, TurnsFence, [Next]_vars, NEW c \in Calls,
                        req[c] = "none", req'[c] = "sent"
                 PROVE  /\ job[c].who = captain /\ captain # Nobody
                        /\ row[job[c].key].by = captain
      OBVIOUS
    <2>1. Dispatch(c)
      BY OnlyDispatchSends
    <2>2. pc[c] = "claimed"
      BY <2>1 DEF Dispatch
    <2>3. Authorized(c)
      BY <2>1 DEF Dispatch
    <2>4. QED
      BY <2>2, <2>3 DEF TurnsFence, Authorized
  <1>2. QED
    BY <1>1, Typing, Turns, PTL DEF Spec, DispatchIsAuthorized

------------------------------------------------------------------------------
(* Epochs. *)

Issued(c) == req[c] \in {"sent", "written"}

\* An epoch of a row was given to one call at most; a row without an answer is past every
\* epoch that was given; and whoever holds or made a request was given one.
EpochsFence ==
    /\ \A c \in Calls : job[c].epoch <= row[job[c].key].epoch
    /\ \A c, d \in Calls : /\ job[c].key = job[d].key
                           /\ job[c].epoch = job[d].epoch /\ job[c].epoch # 0
                           => c = d
    /\ \A c \in Calls : row[job[c].key].status = "unresolved" =>
                           job[c].epoch < row[job[c].key].epoch
    /\ \A k \in Keys : row[k].status = "unresolved" => 0 < row[k].epoch
    /\ \A c \in Calls : pc[c] = "claimed" \/ req[c] # "none" => job[c].epoch # 0

\* The claims of a key never share an epoch, and an abandoned attempt loses its own.
LEMMA Epochs == Spec => []EpochsFence
  <1>1. Init => EpochsFence
    <2> SUFFICES ASSUME Init PROVE EpochsFence
      OBVIOUS
    <2>1. \A c \in Calls : /\ job[c].epoch = 0 /\ job[c].key \in Keys
                            /\ pc[c] = "idle" /\ req[c] = "none"
      BY WritesAssumption DEF Init, NoJob, Agents
    <2>2. \A k \in Keys : row[k].epoch = 0 /\ row[k].status = "none"
      BY DEF Init, NoRow
    <2>3. QED
      BY <2>1, <2>2 DEF EpochsFence
  <1>2. TypeOK /\ TurnsFence /\ EpochsFence /\ [Next]_vars => EpochsFence'
    <2> SUFFICES ASSUME TypeOK, TurnsFence, EpochsFence, [Next]_vars PROVE EpochsFence'
      OBVIOUS
    <2>1. /\ \A c \in Calls : job[c].key \in Keys /\ job[c].epoch \in Nat
          /\ \A k \in Keys : row[k] \in Rows /\ row[k].epoch \in Nat
          /\ Calls \subseteq Agents
      BY DEF TypeOK, Jobs, Rows, Agents
    \* Rows keep their epoch, or move on as unresolved; claims and requests stay.
    <2>2. ASSUME UNCHANGED job,
                 \A k \in Keys : \/ /\ row'[k].epoch = row[k].epoch
                                    /\ row'[k].status = "unresolved" => row[k].status = "unresolved"
                                 \/ row'[k].epoch = row[k].epoch + 1,
                 \A c \in Calls : pc'[c] = "claimed" => pc[c] = "claimed",
                 \A c \in Calls : req'[c] # "none" => req[c] # "none" \/ pc[c] = "claimed"
          PROVE  EpochsFence'
      <3>1. \A c \in Calls : /\ job'[c].epoch <= row'[job'[c].key].epoch
                             /\ row'[job'[c].key].status = "unresolved" =>
                                    job'[c].epoch < row'[job'[c].key].epoch
        BY <2>1, <2>2 DEF EpochsFence
      <3>2. \A c \in Calls : pc'[c] = "claimed" \/ req'[c] # "none" => job'[c].epoch # 0
        BY <2>2 DEF EpochsFence
      <3>3. \A k \in Keys : row'[k].status = "unresolved" => 0 < row'[k].epoch
        BY <2>1, <2>2 DEF EpochsFence
      <3>4. QED
        BY <2>2, <3>1, <3>2, <3>3 DEF EpochsFence
    \* What a transaction over rows does to the epochs.
    <2>3. ASSUME NEW k \in Keys, NEW epoch, NEW applied,
                 NEW status \in {"succeeded", "failed", "unresolved"},
                 Settle(k, epoch, status, applied)
          PROVE  \A j \in Keys : \/ /\ row'[j].epoch = row[j].epoch
                                    /\ row'[j].status = "unresolved" => row[j].status = "unresolved"
                                 \/ row'[j].epoch = row[j].epoch + 1
      BY <2>3, SettleFates
    <2>4. ASSUME NEW done \in SUBSET Keys, row' = Listed(row, done)
          PROVE  \A j \in Keys : \/ /\ row'[j].epoch = row[j].epoch
                                    /\ row'[j].status = "unresolved" => row[j].status = "unresolved"
                                 \/ row'[j].epoch = row[j].epoch + 1
      BY <2>4, ListedFates
    <2>5. ASSUME NEW a \in Agents, NEW where \in {"preflight", "claiming", "wire", "searching", "done"},
                 Goto(a, where)
          PROVE  \A c \in Calls : pc'[c] = "claimed" => pc[c] = "claimed"
      BY <2>1, <2>5 DEF Goto, TypeOK
    <2>6. ASSUME NEW c \in Calls, NEW k \in Keys, NEW x \in Texts, Ask(c, k, x) PROVE EpochsFence'
      <3>1. /\ job'[c].epoch = 0 /\ job'[c].key = k /\ \A d \in Calls \ {c} : job'[d] = job[d]
            /\ UNCHANGED <<row, req>>
        BY <2>6 DEF Ask, TypeOK
      <3>2. req[c] = "none" /\ pc'[c] # "claimed" /\ \A d \in Calls : pc'[d] = "claimed" => pc[d] = "claimed"
        <4>1. req[c] = "none" /\ pc'[c] # "claimed"
          BY <2>1, <2>6 DEF Ask, TurnsFence, Goto, TypeOK
        <4>2. QED
          BY <2>1, <2>5, <2>6, <4>1 DEF Ask
      <3>3. QED
        BY <2>1, <3>1, <3>2 DEF EpochsFence
    <2>7. ASSUME NEW c \in Calls, Preflight(c) PROVE EpochsFence'
      <3>1. UNCHANGED <<row, job, req>>
        BY <2>7 DEF Preflight
      <3>2. \A d \in Calls : pc'[d] = "claimed" => pc[d] = "claimed"
        BY <2>1, <2>5, <2>7 DEF Preflight
      <3>3. QED
        BY <2>2, <3>1, <3>2
    <2>8. ASSUME NEW c \in Calls, Begin(c) PROVE EpochsFence'
      <3> DEFINE k == job[c].key
      <3>1. k \in Keys /\ row[k] \in Rows /\ UNCHANGED req /\ c \in Agents
        BY <2>1, <2>8 DEF Begin
      <3>2. CASE Claim(c)
        <4>1. /\ job'[c].key = k /\ job'[c].epoch = row[k].epoch + 1
              /\ \A d \in Calls \ {c} : job'[d] = job[d]
              /\ row'[k] = Reserved(row[k], c) /\ \A j \in Keys \ {k} : row'[j] = row[j]
              /\ \A d \in Agents \ {c} : pc'[d] = pc[d]
          BY <3>1, <3>2 DEF Claim, Put, Goto, TypeOK, Jobs
        <4>2. row'[k].epoch = row[k].epoch + 1 /\ row'[k].status = "reserved"
          BY <3>1, <4>1, RowFates
        <4> HIDE DEF k
        <4>3. \A d \in Calls \ {c} : /\ job'[d].epoch <= row'[job'[d].key].epoch
                                     /\ job'[d].key = k => job'[d].epoch < job'[c].epoch
                                     /\ row'[job'[d].key].status = "unresolved" =>
                                           job'[d].epoch < row'[job'[d].key].epoch
          BY <2>1, <3>1, <4>1, <4>2 DEF EpochsFence
        <4>4. \A j \in Keys : row'[j].status = "unresolved" => 0 < row'[j].epoch
          BY <4>1, <4>2 DEF EpochsFence
        <4>5. \A d \in Calls : pc'[d] = "claimed" \/ req'[d] # "none" => job'[d].epoch # 0
          BY <2>1, <3>1, <4>1 DEF EpochsFence
        <4>6. QED
          BY <2>1, <3>1, <4>1, <4>2, <4>3, <4>4, <4>5 DEF EpochsFence
      <3>3. CASE ~Claim(c)
        <4>1. UNCHANGED job /\ (Goto(c, "done") \/ Goto(c, "searching"))
          BY <2>8, <3>3 DEF Begin, Reconcile
        <4>2. \/ UNCHANGED row
              \/ \E applied \in BOOLEAN : Put(k, WithEffects(row[k], applied))
              \/ \E done \in SUBSET Keys : row' = Listed(row, done)
          BY <2>8, <3>3 DEF Begin, Reconcile
        <4>3. CASE \E applied \in BOOLEAN : Put(k, WithEffects(row[k], applied))
          <5>1. PICK applied \in BOOLEAN : Put(k, WithEffects(row[k], applied))
            BY <4>3
          <5>2. row'[k] = WithEffects(row[k], applied) /\ \A j \in Keys \ {k} : row'[j] = row[j]
            BY <3>1, <5>1 DEF Put, TypeOK
          <5>3. row'[k].epoch = row[k].epoch /\ row'[k].status = row[k].status
            BY <3>1, <5>2, RowFates
          <5>4. QED
            BY <2>2, <2>5, <3>1, <4>1, <5>2, <5>3
        <4>4. CASE \E done \in SUBSET Keys : row' = Listed(row, done)
          BY <2>2, <2>4, <2>5, <3>1, <4>1, <4>4
        <4>5. CASE UNCHANGED row
          BY <2>2, <2>5, <3>1, <4>1, <4>5
        <4>6. QED
          BY <4>2, <4>3, <4>4, <4>5
      <3>4. QED
        BY <3>2, <3>3
    <2>9. ASSUME NEW c \in Calls, Dispatch(c) PROVE EpochsFence'
      <3>1. \/ \E status \in {"succeeded", "failed"}, applied \in BOOLEAN :
                    Settle(job[c].key, job[c].epoch, status, applied)
            \/ UNCHANGED row
        BY <2>9 DEF Dispatch
      <3>2. \A j \in Keys : \/ /\ row'[j].epoch = row[j].epoch
                               /\ row'[j].status = "unresolved" => row[j].status = "unresolved"
                            \/ row'[j].epoch = row[j].epoch + 1
        BY <2>1, <2>3, <3>1
      <3>3. /\ pc[c] = "claimed" /\ UNCHANGED job /\ (Goto(c, "done") \/ Goto(c, "wire"))
            /\ \A d \in Calls \ {c} : req'[d] = req[d]
        BY <2>9 DEF Dispatch, TypeOK
      <3>4. \A d \in Calls : req'[d] # "none" => req[d] # "none" \/ pc[d] = "claimed"
        BY <3>3
      <3>5. \A d \in Calls : pc'[d] = "claimed" => pc[d] = "claimed"
        BY <2>1, <2>5, <3>3
      <3>6. QED
        BY <2>2, <3>2, <3>3, <3>4, <3>5
    <2>10. ASSUME NEW c \in Calls, Answer(c) PROVE EpochsFence'
      <3>1. \E status \in {"succeeded", "failed", "unresolved"}, applied \in BOOLEAN :
                    Settle(job[c].key, job[c].epoch, status, applied)
        BY <2>10 DEF Answer
      <3>2. \A j \in Keys : \/ /\ row'[j].epoch = row[j].epoch
                               /\ row'[j].status = "unresolved" => row[j].status = "unresolved"
                            \/ row'[j].epoch = row[j].epoch + 1
        BY <2>1, <2>3, <3>1
      <3>3. UNCHANGED <<job, req>> /\ \A d \in Calls : pc'[d] = "claimed" => pc[d] = "claimed"
        BY <2>1, <2>5, <2>10 DEF Answer
      <3>4. QED
        BY <2>2, <3>2, <3>3
    <2>11. ASSUME NEW c \in Calls, Execute(c) \/ Refuse(c) PROVE EpochsFence'
      <3>1. /\ UNCHANGED <<row, pc, job>> /\ req[c] # "none"
            /\ \A d \in Calls \ {c} : req'[d] = req[d]
        BY <2>11 DEF Execute, Refuse, TypeOK
      <3>2. QED
        BY <2>2, <3>1
    <2>12. ASSUME NEW s \in Sweeps, Sweep(s) PROVE EpochsFence'
      <3>1. PICK done \in SUBSET Keys : Reconcile(s, row, done)
        BY <2>12 DEF Sweep
      <3>2. row' = Listed(row, done) /\ Goto(s, "searching") /\ UNCHANGED <<job, req>>
        BY <2>12, <3>1 DEF Sweep, Reconcile
      <3>3. s \in Agents
        BY DEF Agents
      <3>4. QED
        BY <2>2, <2>4, <2>5, <3>2, <3>3
    <2>13. ASSUME NEW a \in Agents, Search(a) PROVE EpochsFence'
      <3>1. /\ UNCHANGED <<pc, job, req>>
            /\ \/ UNCHANGED row
               \/ \E q \in todo[a], applied \in BOOLEAN : Settle(q.key, q.epoch, "succeeded", applied)
        BY <2>13 DEF Search
      <3>2. \A q \in todo[a] : q.key \in Keys
        BY DEF TypeOK
      <3>3. \A j \in Keys : \/ /\ row'[j].epoch = row[j].epoch
                               /\ row'[j].status = "unresolved" => row[j].status = "unresolved"
                            \/ row'[j].epoch = row[j].epoch + 1
        BY <2>3, <3>1, <3>2
      <3>4. QED
        BY <2>2, <3>1, <3>3
    <2>14. ASSUME NEW a \in Agents, Searched(a) PROVE EpochsFence'
      BY <2>2, <2>5, <2>14 DEF Searched
    <2>15. ASSUME NEW k \in Keys, SameEdit(k) PROVE EpochsFence'
      BY <2>2, <2>15 DEF SameEdit
    <2>16. ASSUME NEW k \in Keys, Lapse(k) PROVE EpochsFence'
      <3>1. row'[k] = [row[k] EXCEPT !.leased = FALSE] /\ \A j \in Keys \ {k} : row'[j] = row[j]
        BY <2>16 DEF Lapse, Put, TypeOK
      <3>2. \A j \in Keys : row'[j].status = row[j].status /\ row'[j].epoch = row[j].epoch
        BY <2>1, <3>1 DEF Rows
      <3>3. UNCHANGED <<pc, job, req>>
        BY <2>16 DEF Lapse
      <3>4. QED
        BY <2>2, <3>2, <3>3
    <2>17. ASSUME NEW w \in Captains \cup {Nobody}, ChangeCaptain(w) PROVE EpochsFence'
      BY <2>2, <2>17 DEF ChangeCaptain
    <2>18. CASE Crash
      <3>1. \A c \in Calls : pc'[c] # "claimed"
        BY <2>1, <2>18 DEF Crash
      <3>2. QED
        BY <2>2, <2>18, <3>1 DEF Crash
    <2>19. CASE UNCHANGED vars
      BY <2>2, <2>19 DEF vars
    <2>20. QED
      BY <2>6, <2>7, <2>8, <2>9, <2>10, <2>11, <2>12, <2>13, <2>14, <2>15, <2>16, <2>17, <2>18,
         <2>19 DEF Next
  <1>3. QED
    BY <1>1, <1>2, Typing, Turns, PTL DEF Spec

------------------------------------------------------------------------------
(* The one write under a key. *)

\* The words of no payload are taken for a refusal of GitHub.  Without this the code does
\* file an issue twice: confirmedIssueWriteFailure finds them in the message of a timeout.
Discreet == "speaks of a refusal" \notin Texts

\* A request that GitHub carried out or may carry out keeps its key: nobody claims the row
\* before the outcome is known, and only its own call or a search settles it.
WritesFence ==
    /\ \A c \in Calls : Issued(c) =>
            LET r == row[job[c].key] IN
            \/ r.status \in {"unresolved", "succeeded"}
            \/ r.status = "reserved" /\ r.epoch = job[c].epoch
    /\ \A c, d \in Calls : Issued(c) /\ Issued(d) /\ job[c].key = job[d].key => c = d
    /\ \A c \in Calls : req[c] = "written" => shown[job[c].key]
    /\ \A k \in Keys : Action[k] = "link" => shown[k]

\* A row is recorded as failed only by the call whose attempt it is, which has made no
\* request or was refused.
LEMMA FailuresAreConfirmed ==
    ASSUME TypeOK, TurnsFence, EpochsFence, WritesFence,
           NEW c \in Calls, NEW d \in Calls, Issued(d), job[d].key = job[c].key,
           req[c] # "none" \/ pc[c] = "claimed", ~Issued(c),
           row[job[c].key].epoch = job[c].epoch, row[job[c].key].status \in Open
    PROVE  FALSE
  <1>1. job[c].epoch # 0
    BY DEF EpochsFence
  <1>2. job[c].epoch \in Nat
    BY DEF TypeOK, Jobs
  <1>3. row[job[c].key].status # "unresolved"
    BY <1>2 DEF EpochsFence
  <1>4. row[job[d].key].epoch = job[d].epoch
    BY <1>3 DEF WritesFence, Open
  <1>5. c = d
    BY <1>1, <1>4 DEF EpochsFence
  <1>6. QED
    BY <1>5

\* Whatever is retried, cut off or lost, a key has one request at most that GitHub carried
\* out or may carry out.
LEMMA Writings ==
    ASSUME Discreet
    PROVE  Spec => []WritesFence
  <1>1. Init => WritesFence
    BY WritesAssumption DEF Init, WritesFence, Issued
  <1>2. TypeOK /\ TurnsFence /\ EpochsFence /\ WritesFence /\ [Next]_vars => WritesFence'
    <2> SUFFICES ASSUME TypeOK, TurnsFence, EpochsFence, WritesFence, [Next]_vars
                 PROVE  WritesFence'
      OBVIOUS
    <2>1. /\ \A c \in Calls : job[c].key \in Keys
          /\ \A k \in Keys : row[k] \in Rows
          /\ Calls \subseteq Agents
      BY DEF TypeOK, Jobs, Agents
    \* No new request, and a row with one keeps its state or passes to one for good.
    <2>2. ASSUME \A c \in Calls : req'[c] \in {"sent", "written"} =>
                    Issued(c) /\ job'[c] = job[c],
                 \A c \in Calls : req'[c] = "written" => req[c] = "written" \/ shown'[job[c].key],
                 \A k \in Keys : shown[k] => shown'[k],
                 \A c \in Calls : Issued(c) =>
                    \/ row'[job[c].key].status \in {"unresolved", "succeeded"}
                    \/ /\ row'[job[c].key].status = row[job[c].key].status
                       /\ row'[job[c].key].epoch = row[job[c].key].epoch
          PROVE  WritesFence'
      <3>1. \A c \in Calls : Issued(c)' => Issued(c) /\ job'[c] = job[c]
        BY <2>2 DEF Issued
      <3>2. \A c \in Calls : req'[c] = "written" => shown'[job'[c].key]
        BY <2>1, <2>2 DEF WritesFence, Issued
      <3>3. \A k \in Keys : Action[k] = "link" => shown'[k]
        BY <2>2 DEF WritesFence
      <3>4. \A c \in Calls : Issued(c)' =>
                \/ row'[job'[c].key].status \in {"unresolved", "succeeded"}
                \/ row'[job'[c].key].status = "reserved" /\ row'[job'[c].key].epoch = job'[c].epoch
        BY <2>2, <3>1 DEF WritesFence
      <3>5. \A c, d \in Calls : Issued(c)' /\ Issued(d)' /\ job'[c].key = job'[d].key => c = d
        BY <3>1 DEF WritesFence
      <3>6. QED
        BY <3>2, <3>3, <3>4, <3>5 DEF WritesFence
    \* ... which is so of every step that makes no request and settles or lists rows.
    <2>3. ASSUME NEW c \in Calls, NEW applied, NEW status \in {"succeeded", "failed", "unresolved"},
                 Settle(job[c].key, job[c].epoch, status, applied),
                 status = "failed" => ~Issued(c) /\ (req[c] # "none" \/ pc[c] = "claimed"),
                 UNCHANGED <<job, req, shown>>
          PROVE  WritesFence'
      <3>1. ASSUME NEW d \in Calls, Issued(d)
            PROVE  \/ row'[job[d].key].status \in {"unresolved", "succeeded"}
                   \/ /\ row'[job[d].key].status = row[job[d].key].status
                      /\ row'[job[d].key].epoch = row[job[d].key].epoch
        <4>1. CASE job[d].key # job[c].key \/ row'[job[c].key] = row[job[c].key]
          BY <2>1, <2>3, <4>1, SettleFates
        <4>2. CASE job[d].key = job[c].key /\ row'[job[c].key] # row[job[c].key]
          <5>1. /\ row[job[c].key].epoch = job[c].epoch /\ row[job[c].key].status \in Open
                /\ row'[job[c].key].status = status
            BY <2>1, <2>3, <4>2, SettleFates
          <5>2. status # "failed"
            BY <2>3, <3>1, <4>2, <5>1, FailuresAreConfirmed
          <5>3. QED
            BY <4>2, <5>1, <5>2
        <4>3. QED
          BY <4>1, <4>2
      <3>2. QED
        BY <2>2, <2>3, <3>1 DEF Issued
    <2>4. ASSUME NEW done \in SUBSET Keys, row' = Listed(row, done), UNCHANGED <<job, req, shown>>
          PROVE  WritesFence'
      <3>1. ASSUME NEW d \in Calls
            PROVE  \/ row'[job[d].key].status \in {"unresolved", "succeeded"}
                   \/ /\ row'[job[d].key].status = row[job[d].key].status
                      /\ row'[job[d].key].epoch = row[job[d].key].epoch
        BY <2>1, <2>4, ListedFates
      <3>2. QED
        BY <2>2, <2>4, <3>1 DEF Issued
    <2>5. ASSUME UNCHANGED <<row, job, req>>, \A k \in Keys : shown[k] => shown'[k]
          PROVE  WritesFence'
      BY <2>2, <2>5 DEF Issued
    <2>6. ASSUME NEW c \in Calls, NEW k \in Keys, NEW x \in Texts, Ask(c, k, x) PROVE WritesFence'
      <3>1. /\ req[c] = "none" /\ UNCHANGED <<row, req, shown>>
            /\ \A d \in Calls \ {c} : job'[d] = job[d]
        BY <2>6 DEF Ask, TurnsFence, TypeOK
      <3>2. QED
        BY <2>2, <3>1 DEF Issued
    <2>7. ASSUME NEW c \in Calls, Preflight(c) PROVE WritesFence'
      BY <2>5, <2>7 DEF Preflight
    <2>8. ASSUME NEW c \in Calls, Begin(c) PROVE WritesFence'
      <3> DEFINE k == job[c].key
      <3>1. k \in Keys /\ row[k] \in Rows /\ UNCHANGED <<req, shown>> /\ req[c] = "none"
        BY <2>1, <2>8 DEF Begin, TurnsFence
      <3>2. CASE Claim(c)
        <4>1. /\ row[k].status \in {"none", "failed"}
              /\ \A d \in Calls \ {c} : job'[d] = job[d]
              /\ \A j \in Keys \ {k} : row'[j] = row[j]
          BY <3>1, <3>2 DEF Claim, MayClaim, Put, TypeOK
        <4>2. \A d \in Calls : Issued(d) => job[d].key # k /\ d # c
          BY <3>1, <4>1 DEF WritesFence, Issued
        <4>3. QED
          BY <2>1, <2>2, <3>1, <4>1, <4>2 DEF Issued
      <3>3. CASE UNCHANGED <<row, job>>
        BY <2>5, <3>1, <3>3
      <3>4. CASE (\E applied \in BOOLEAN : Put(k, WithEffects(row[k], applied))) /\ UNCHANGED job
        <4>1. PICK applied \in BOOLEAN : Put(k, WithEffects(row[k], applied))
          BY <3>4
        <4>2. row'[k] = WithEffects(row[k], applied) /\ \A j \in Keys \ {k} : row'[j] = row[j]
          BY <3>1, <4>1 DEF Put, TypeOK
        <4>3. \A j \in Keys : row'[j].epoch = row[j].epoch /\ row'[j].status = row[j].status
          BY <3>1, <4>2, RowFates
        <4>4. QED
          BY <2>1, <2>2, <3>1, <3>4, <4>3 DEF Issued
      <3>5. CASE (\E done \in SUBSET Keys : Reconcile(c, row, done)) /\ UNCHANGED job
        BY <2>4, <3>1, <3>5 DEF Reconcile
      <3>6. QED
        BY <2>8, <3>2, <3>3, <3>4, <3>5 DEF Begin
    <2>9. ASSUME NEW c \in Calls, Dispatch(c) PROVE WritesFence'
      <3>1. pc[c] = "claimed" /\ req[c] = "none" /\ UNCHANGED <<job, shown>>
        BY <2>9 DEF Dispatch, TurnsFence
      <3>2. CASE UNCHANGED req
        <4>1. \E status \in {"succeeded", "failed"}, applied \in BOOLEAN :
                 Settle(job[c].key, job[c].epoch, status, applied)
          BY <2>9, <3>1, <3>2 DEF Dispatch, TypeOK
        <4>2. QED
          BY <2>3, <3>1, <3>2, <4>1 DEF Issued
      <3>3. CASE UNCHANGED row /\ \E sent \in {"sent", "unsent"} : req' = [req EXCEPT ![c] = sent]
        <4>1. /\ row[job[c].key].status = "reserved" /\ row[job[c].key].epoch = job[c].epoch
          BY <3>1 DEF TurnsFence
        <4>2. \A d \in Calls : Issued(d) => job[d].key # job[c].key
          BY <3>1, <4>1, FailuresAreConfirmed DEF Issued, Open
        <4>3. req'[c] \in {"sent", "unsent"} /\ \A d \in Calls \ {c} : req'[d] = req[d]
          BY <3>3 DEF TypeOK
        <4>4. \A d \in Calls : Issued(d)' => Issued(d) \/ d = c
          BY <4>3 DEF Issued
        <4>5. /\ \A d \in Calls : Issued(d)' =>
                    \/ row'[job'[d].key].status \in {"unresolved", "succeeded"}
                    \/ row'[job'[d].key].status = "reserved" /\ row'[job'[d].key].epoch = job'[d].epoch
              /\ \A d, e \in Calls : Issued(d)' /\ Issued(e)' /\ job'[d].key = job'[e].key => d = e
          BY <3>1, <3>3, <4>1, <4>2, <4>4 DEF WritesFence
        <4>6. /\ \A d \in Calls : req'[d] = "written" => shown'[job'[d].key]
              /\ \A k \in Keys : Action[k] = "link" => shown'[k]
          BY <3>1, <4>3 DEF WritesFence
        <4>7. QED
          BY <4>5, <4>6 DEF WritesFence
      <3>4. QED
        BY <2>9, <3>2, <3>3 DEF Dispatch
    <2>10. ASSUME NEW c \in Calls, Answer(c) PROVE WritesFence'
      <3>1. pc[c] = "wire" /\ req[c] # "none" /\ UNCHANGED <<job, req, shown>>
        BY <2>10 DEF Answer, TurnsFence
      <3>2. PICK answer \in IF req[c] = "unsent" THEN {"unsent"} ELSE Answers(c) :
              IF answer = "written"
              THEN \/ \E applied \in BOOLEAN : Settle(job[c].key, job[c].epoch, "succeeded", applied)
                   \/ Settle(job[c].key, job[c].epoch, "unresolved", FALSE)
              ELSE Settle(job[c].key, job[c].epoch,
                          IF Confirmed(answer, job[c].text) THEN "failed" ELSE "unresolved", FALSE)
        BY <2>10, Zenon DEF Answer
      <3>3. job[c].text # "speaks of a refusal"
        <4>1. job[c].text \in Texts \cup {"plain"}
          BY DEF TypeOK, Jobs
        <4>2. QED
          BY <4>1 DEF Discreet
      <3>4. CASE answer = "written"
        <4>1. \E status \in {"succeeded", "unresolved"}, applied \in BOOLEAN :
                 Settle(job[c].key, job[c].epoch, status, applied)
          BY <3>2, <3>4
        <4>2. QED
          BY <2>3, <3>1, <4>1
      <3>5. CASE answer # "written" /\ ~Confirmed(answer, job[c].text)
        <4>1. Settle(job[c].key, job[c].epoch, "unresolved", FALSE)
          BY <3>2, <3>5
        <4>2. QED
          BY <2>3, <3>1, <4>1
      <3>6. CASE answer # "written" /\ Confirmed(answer, job[c].text)
        <4>1. Settle(job[c].key, job[c].epoch, "failed", FALSE)
          BY <3>2, <3>6
        <4>2. req[c] \in {"none", "unsent", "sent", "written", "refused"}
          BY DEF TypeOK
        <4>3. answer \in {"unsent", "cut", "reset", "refused"}
          BY <3>1, <3>6, <4>2 DEF Answers
        <4>4. answer \notin {"cut", "reset"}
          BY <3>3, <3>6 DEF Confirmed
        <4>5. answer = req[c]
          BY <4>3, <4>4 DEF Answers
        <4>6. ~Issued(c)
          BY <4>3, <4>4, <4>5 DEF Issued
        <4>7. QED
          BY <2>3, <3>1, <4>1, <4>6
      <3>7. QED
        BY <3>4, <3>5, <3>6
    <2>11. ASSUME NEW c \in Calls, Execute(c) \/ Refuse(c) PROVE WritesFence'
      <3>1. /\ UNCHANGED <<row, job>> /\ req[c] = "sent" /\ \A d \in Calls \ {c} : req'[d] = req[d]
            /\ req'[c] = "written" => shown'[job[c].key]
            /\ \A k \in Keys : shown[k] => shown'[k]
        BY <2>1, <2>11 DEF Execute, Refuse, TypeOK
      <3>2. QED
        BY <2>2, <3>1 DEF Issued
    <2>12. ASSUME NEW s \in Sweeps, Sweep(s) PROVE WritesFence'
      BY <2>4, <2>12 DEF Sweep, Reconcile
    <2>13. ASSUME NEW a \in Agents, Search(a) PROVE WritesFence'
      <3>1. UNCHANGED <<job, req, shown>>
        BY <2>13 DEF Search
      <3>2. CASE UNCHANGED row
        BY <2>5, <3>1, <3>2
      <3>3. CASE \E q \in todo[a], applied \in BOOLEAN : Settle(q.key, q.epoch, "succeeded", applied)
        <4>1. PICK q \in todo[a], applied \in BOOLEAN : Settle(q.key, q.epoch, "succeeded", applied)
          BY <3>3
        <4>2. q.key \in Keys
          BY DEF TypeOK
        <4>3. \A d \in Calls : \/ row'[job[d].key].status = "succeeded"
                               \/ row'[job[d].key] = row[job[d].key]
          BY <2>1, <4>1, <4>2, SettleFates
        <4>4. QED
          BY <2>2, <3>1, <4>3 DEF Issued
      <3>4. QED
        BY <2>13, <3>2, <3>3 DEF Search
    <2>14. ASSUME NEW a \in Agents, Searched(a) PROVE WritesFence'
      BY <2>5, <2>14 DEF Searched
    <2>15. ASSUME NEW k \in Keys, SameEdit(k) PROVE WritesFence'
      <3>1. \A j \in Keys : shown[j] => shown'[j]
        BY <2>15 DEF SameEdit, TypeOK
      <3>2. QED
        BY <2>5, <2>15, <3>1 DEF SameEdit
    <2>16. ASSUME NEW k \in Keys, Lapse(k) PROVE WritesFence'
      <3>1. row'[k] = [row[k] EXCEPT !.leased = FALSE] /\ \A j \in Keys \ {k} : row'[j] = row[j]
        BY <2>16 DEF Lapse, Put, TypeOK
      <3>2. \A j \in Keys : row'[j].status = row[j].status /\ row'[j].epoch = row[j].epoch
        BY <2>1, <3>1 DEF Rows
      <3>3. UNCHANGED <<job, req, shown>>
        BY <2>16 DEF Lapse
      <3>4. QED
        BY <2>1, <2>2, <3>2, <3>3 DEF Issued
    <2>17. ASSUME NEW w \in Captains \cup {Nobody}, ChangeCaptain(w) PROVE WritesFence'
      BY <2>5, <2>17 DEF ChangeCaptain
    <2>18. CASE Crash
      BY <2>5, <2>18 DEF Crash
    <2>19. CASE UNCHANGED vars
      BY <2>5, <2>19 DEF vars
    <2>20. QED
      BY <2>6, <2>7, <2>8, <2>9, <2>10, <2>11, <2>12, <2>13, <2>14, <2>15, <2>16, <2>17, <2>18,
         <2>19 DEF Next
  <1>3. QED
    BY <1>1, <1>2, Typing, Turns, Epochs, PTL DEF Spec

\* At most one member: nothing to count beyond whether there is one.
LEMMA OneAtMost ==
    ASSUME NEW W, \A c, d \in W : c = d
    PROVE  Cardinality(W) = IF W = {} THEN 0 ELSE 1
  <1>1. CASE W = {}
    BY <1>1, FS_EmptySet
  <1>2. CASE W # {}
    <2>1. PICK c \in W : W = {c}
      BY <1>2
    <2>2. QED
      BY <1>2, <2>1, FS_Singleton
  <1>3. QED
    BY <1>1, <1>2

\* GitHub carries out one write at most under a key (unless the words of a payload are
\* taken for a refusal).
THEOREM OneWrite ==
    ASSUME Discreet
    PROVE  Spec => []WrittenOnce
  <1>1. WritesFence => WrittenOnce
    <2> SUFFICES ASSUME WritesFence, NEW k \in Keys PROVE Cardinality(Writes(k)) <= 1
      BY DEF WrittenOnce
    <2>1. \A c, d \in Writes(k) : c = d
      BY DEF WritesFence, Writes, Issued
    <2>2. QED
      BY <2>1, OneAtMost
  <1>2. QED
    BY <1>1, Writings, PTL

------------------------------------------------------------------------------
(* The implementation of WriteOnce. *)

\* The ledger takes keys as done, and applies effects: an Account of WriteOnce.
LEMMA Accounts ==
    ASSUME TypeOK, UNCHANGED shown, \A k \in Keys : Writes(k)' = Writes(k),
           \A k \in Keys :
              /\ row[k].status = "succeeded" => row'[k].status = "succeeded"
              /\ row'[k].status = "succeeded" => row[k].status = "succeeded" \/ shown[k]
              /\ \/ row'[k].effects = row[k].effects
                 \/ /\ row[k].effects = 0 /\ row'[k].effects = 1
                    /\ row'[k].status = "succeeded"
    PROVE  Promise!Next
  <1> DEFINE new == {k \in Keys : row'[k].status = "succeeded" /\ row[k].status # "succeeded"}
             done == {k \in Keys : row'[k].effects # row[k].effects}
             Recorded == [k \in Keys |-> row[k].status = "succeeded"]
             Applied == [k \in Keys |-> row[k].effects]
  <1>1. \A k \in new : shown[k]
    OBVIOUS
  <1>2. \A k \in done : (Recorded[k] \/ k \in new) /\ Applied[k] = 0
    OBVIOUS
  <1>3. Recorded' = [k \in Keys |-> Recorded[k] \/ k \in new]
    <2>1. \A k \in Keys : (row'[k].status = "succeeded") = (Recorded[k] \/ k \in new)
      OBVIOUS
    <2>2. QED
      BY <2>1, Zenon
  <1>4. Applied' = [k \in Keys |-> Applied[k] + (IF k \in done THEN 1 ELSE 0)]
    <2>1. \A k \in Keys : row[k].effects \in Nat
      BY DEF TypeOK, Rows
    <2>2. \A k \in Keys : row'[k].effects = row[k].effects + (IF k \in done THEN 1 ELSE 0)
      BY <2>1
    <2>3. QED
      BY <2>2
  <1>5. [k \in Keys |-> Cardinality(Writes(k))]' = [k \in Keys |-> Cardinality(Writes(k))]
    OBVIOUS
  <1>6. new \in SUBSET Keys /\ done \in SUBSET Keys
    OBVIOUS
  <1> HIDE DEF new, done
  <1> HIDE DEF Recorded, Applied
  <1>7. \E n, d \in SUBSET Keys :
          /\ \A k \in n : shown[k]
          /\ \A k \in d : (Recorded[k] \/ k \in n) /\ Applied[k] = 0
          /\ Recorded' = [k \in Keys |-> Recorded[k] \/ k \in n]
          /\ Applied' = [k \in Keys |-> Applied[k] + (IF k \in d THEN 1 ELSE 0)]
    BY <1>1, <1>2, <1>3, <1>4, <1>6
  <1> USE DEF Recorded, Applied
  <1>8. QED
    BY <1>5, <1>7 DEF Promise!Next, Promise!Account

\* A request that is carried out is the one write of its key: a Make of WriteOnce.
LEMMA Makes ==
    ASSUME TypeOK, WritesFence, NEW c \in Calls, Execute(c)
    PROVE  Promise!Next
  <1> DEFINE k == job[c].key
  <1>1. k \in Keys /\ req[c] = "sent" /\ UNCHANGED <<row, job>>
    BY DEF Execute, TypeOK, Jobs
  <1>2. req'[c] = "written" /\ \A d \in Calls \ {c} : req'[d] = req[d]
    BY DEF Execute, TypeOK
  <1>3. Writes(k) = {}
    BY <1>1 DEF WritesFence, Issued, Writes
  <1>4. Writes(k)' = {c}
    BY <1>1, <1>2, <1>3 DEF Writes
  <1>5. \A j \in Keys \ {k} : Writes(j)' = Writes(j)
    BY <1>1, <1>2 DEF Writes
  <1>6. Cardinality({}) = 0 /\ Cardinality({c}) = 1
    BY FS_EmptySet, FS_Singleton
  <1>7. /\ [j \in Keys |-> Cardinality(Writes(j))][k] = 0
        /\ [j \in Keys |-> Cardinality(Writes(j))]'
             = [[j \in Keys |-> Cardinality(Writes(j))] EXCEPT ![k] = 1]
    BY <1>1, <1>3, <1>4, <1>5, <1>6
  <1>8. shown' = [shown EXCEPT ![k] = TRUE]
    BY DEF Execute
  <1>9. /\ [j \in Keys |-> row[j].status = "succeeded"]' = [j \in Keys |-> row[j].status = "succeeded"]
        /\ [j \in Keys |-> row[j].effects]' = [j \in Keys |-> row[j].effects]
    BY <1>1
  <1> HIDE DEF k
  <1>10. QED
    BY <1>1, <1>7, <1>8, <1>9 DEF Promise!Next, Promise!Make

\* The same requests are carried out as before.
LEMMA SameWrites ==
    ASSUME \A c \in Calls : req'[c] = "written" <=> req[c] = "written",
           \A c \in Calls : req[c] = "written" => job'[c] = job[c],
           NEW k \in Keys
    PROVE  Writes(k)' = Writes(k)
  BY DEF Writes

\* Every step of the ledger is one of WriteOnce.
LEMMA Steps ==
    ASSUME TypeOK, TurnsFence, WritesFence, [Next]_vars
    PROVE  Promise!Next
  <1>1. /\ \A c \in Calls : job[c].key \in Keys
        /\ \A k \in Keys : row[k] \in Rows /\ row[k].effects \in Nat
        /\ Calls \subseteq Agents
    BY DEF TypeOK, Jobs, Agents, Rows
  <1> DEFINE Outcome(k) == \/ row'[k].status = row[k].status
                           \/ /\ row[k].status # "succeeded"
                              /\ row'[k].status = "succeeded" => shown[k]
             Effects(k) == \/ row'[k].effects = row[k].effects
                           \/ /\ row[k].effects = 0 /\ row'[k].effects = 1
                              /\ row'[k].status = "succeeded"
  \* No request is carried out, and rows succeed where GitHub shows it.
  <1>2. ASSUME UNCHANGED shown, \A k \in Keys : Outcome(k) /\ Effects(k),
               \A c \in Calls : req'[c] = "written" <=> req[c] = "written",
               \A c \in Calls : req[c] = "written" => job'[c] = job[c]
        PROVE  Promise!Next
    <2>1. \A k \in Keys : Writes(k)' = Writes(k)
      BY <1>2, SameWrites
    <2>2. QED
      BY <1>2, <2>1, Accounts
  <1>3. ASSUME NEW k \in Keys, NEW epoch, NEW applied,
               NEW status \in {"succeeded", "failed", "unresolved"},
               Settle(k, epoch, status, applied), status = "succeeded" => shown[k],
               NEW j \in Keys
        PROVE  Outcome(j) /\ Effects(j)
    BY <1>3, SettleFates DEF Open
  <1>4. ASSUME NEW done \in SUBSET Keys, row' = Listed(row, done), NEW j \in Keys
        PROVE  Outcome(j) /\ Effects(j)
    BY <1>4, ListedFates
  <1>5. ASSUME UNCHANGED <<row, job, req, shown>> PROVE Promise!Next
    BY <1>2, <1>5
  <1>6. ASSUME NEW c \in Calls, NEW k \in Keys, NEW x \in Texts, Ask(c, k, x) PROVE Promise!Next
    <2>1. /\ req[c] = "none" /\ UNCHANGED <<row, req, shown>>
          /\ \A d \in Calls \ {c} : job'[d] = job[d]
      BY <1>6 DEF Ask, TurnsFence, TypeOK
    <2>2. QED
      BY <1>2, <2>1
  <1>7. ASSUME NEW c \in Calls, Begin(c) PROVE Promise!Next
    <2> DEFINE k == job[c].key
    <2>1. k \in Keys /\ row[k] \in Rows /\ UNCHANGED <<req, shown>> /\ req[c] = "none"
      BY <1>1, <1>7 DEF Begin, TurnsFence
    <2>2. CASE Claim(c)
      <3>1. /\ row[k].status \in {"none", "failed"} /\ row'[k] = Reserved(row[k], c)
            /\ \A d \in Calls \ {c} : job'[d] = job[d]
            /\ \A j \in Keys \ {k} : row'[j] = row[j]
        BY <2>1, <2>2 DEF Claim, MayClaim, Put, TypeOK
      <3>2. row'[k].status = "reserved" /\ row'[k].effects = row[k].effects
        BY <2>1, <3>1, RowFates
      <3>3. \A j \in Keys : Outcome(j) /\ Effects(j)
        BY <3>1, <3>2
      <3>4. QED
        BY <1>2, <2>1, <3>1, <3>3
    <2>3. CASE UNCHANGED <<row, job>>
      BY <1>5, <2>1, <2>3
    <2>4. CASE (\E applied \in BOOLEAN : Put(k, WithEffects(row[k], applied))) /\ UNCHANGED job
      <3>1. PICK applied \in BOOLEAN : Put(k, WithEffects(row[k], applied))
        BY <2>4
      <3>2. row'[k] = WithEffects(row[k], applied) /\ \A j \in Keys \ {k} : row'[j] = row[j]
        BY <2>1, <3>1 DEF Put, TypeOK
      <3>3. \A j \in Keys : Outcome(j) /\ Effects(j)
        BY <2>1, <3>2 DEF WithEffects, MayApply, Rows
      <3>4. QED
        BY <1>2, <2>1, <2>4, <3>3
    <2>5. CASE (\E done \in SUBSET Keys : Reconcile(c, row, done)) /\ UNCHANGED job
      <3>1. PICK done \in SUBSET Keys : Reconcile(c, row, done)
        BY <2>5
      <3>2. \A j \in Keys : Outcome(j) /\ Effects(j)
        BY <1>4, <3>1 DEF Reconcile
      <3>3. QED
        BY <1>2, <2>1, <2>5, <3>2
    <2>6. QED
      BY <1>7, <2>2, <2>3, <2>4, <2>5 DEF Begin
  <1>8. ASSUME NEW c \in Calls, Dispatch(c) PROVE Promise!Next
    <2>1. req[c] = "none" /\ UNCHANGED <<job, shown>>
      BY <1>8 DEF Dispatch, TurnsFence
    <2>2. \A d \in Calls : req'[d] = "written" <=> req[d] = "written"
      BY <1>8, <2>1 DEF Dispatch, TypeOK
    <2>3. CASE UNCHANGED row
      BY <1>2, <2>1, <2>2, <2>3
    <2>4. CASE Settle(job[c].key, job[c].epoch, "failed", FALSE)
      <3>1. \A j \in Keys : Outcome(j) /\ Effects(j)
        BY <1>1, <1>3, <2>4
      <3>2. QED
        BY <1>2, <2>1, <2>2, <3>1
    <2>5. CASE /\ Action[job[c].key] = "link"
               /\ \E applied \in BOOLEAN : Settle(job[c].key, job[c].epoch, "succeeded", applied)
      <3>1. shown[job[c].key]
        BY <1>1, <2>5 DEF WritesFence
      <3>2. \A j \in Keys : Outcome(j) /\ Effects(j)
        BY <1>1, <1>3, <2>5, <3>1
      <3>3. QED
        BY <1>2, <2>1, <2>2, <3>2
    <2>6. QED
      BY <1>8, <2>3, <2>4, <2>5 DEF Dispatch
  <1>9. ASSUME NEW c \in Calls, Answer(c) PROVE Promise!Next
    <2>1. UNCHANGED <<job, req, shown>>
      BY <1>9 DEF Answer
    <2>2. PICK answer \in IF req[c] = "unsent" THEN {"unsent"} ELSE Answers(c) :
            IF answer = "written"
            THEN \/ \E applied \in BOOLEAN : Settle(job[c].key, job[c].epoch, "succeeded", applied)
                 \/ Settle(job[c].key, job[c].epoch, "unresolved", FALSE)
            ELSE Settle(job[c].key, job[c].epoch,
                        IF Confirmed(answer, job[c].text) THEN "failed" ELSE "unresolved", FALSE)
      BY <1>9, Zenon DEF Answer
    <2>3. CASE answer = "written"
      <3>1. shown[job[c].key]
        BY <2>2, <2>3 DEF Answers, WritesFence
      <3>2. \E status \in {"succeeded", "unresolved"}, applied \in BOOLEAN :
               Settle(job[c].key, job[c].epoch, status, applied)
        BY <2>2, <2>3
      <3>3. \A j \in Keys : Outcome(j) /\ Effects(j)
        BY <1>1, <1>3, <3>1, <3>2
      <3>4. QED
        BY <1>2, <2>1, <3>3
    <2>4. CASE answer # "written"
      <3>1. \E status \in {"failed", "unresolved"} : Settle(job[c].key, job[c].epoch, status, FALSE)
        BY <2>2, <2>4
      <3>2. \A j \in Keys : Outcome(j) /\ Effects(j)
        BY <1>1, <1>3, <3>1
      <3>3. QED
        BY <1>2, <2>1, <3>2
    <2>5. QED
      BY <2>3, <2>4
  <1>10. ASSUME NEW c \in Calls, Execute(c) PROVE Promise!Next
    BY <1>10, Makes
  <1>11. ASSUME NEW c \in Calls, Refuse(c) PROVE Promise!Next
    <2>1. /\ UNCHANGED <<row, job, shown>> /\ req[c] = "sent" /\ req'[c] = "refused"
          /\ \A d \in Calls \ {c} : req'[d] = req[d]
      BY <1>11 DEF Refuse, TypeOK
    <2>2. QED
      BY <1>2, <2>1
  <1>12. ASSUME NEW s \in Sweeps, Sweep(s) PROVE Promise!Next
    <2>1. PICK done \in SUBSET Keys : Reconcile(s, row, done)
      BY <1>12 DEF Sweep
    <2>2. \A j \in Keys : Outcome(j) /\ Effects(j)
      BY <1>4, <2>1 DEF Reconcile
    <2>3. UNCHANGED <<job, req, shown>>
      BY <1>12 DEF Sweep
    <2>4. QED
      BY <1>2, <2>2, <2>3
  <1>13. ASSUME NEW a \in Agents, Search(a) PROVE Promise!Next
    <2>1. UNCHANGED <<job, req, shown>>
      BY <1>13 DEF Search
    <2>2. CASE UNCHANGED row
      BY <1>5, <2>1, <2>2
    <2>3. CASE \E q \in todo[a], applied \in BOOLEAN :
                  shown[q.key] /\ Settle(q.key, q.epoch, "succeeded", applied)
      <3>1. \A q \in todo[a] : q.key \in Keys
        BY DEF TypeOK
      <3>2. \A j \in Keys : Outcome(j) /\ Effects(j)
        BY <1>3, <2>3, <3>1
      <3>3. QED
        BY <1>2, <2>1, <3>2
    <2>4. QED
      BY <1>13, <2>2, <2>3 DEF Search
  <1>14. ASSUME NEW k \in Keys, SameEdit(k) PROVE Promise!Next
    <2>1. UNCHANGED <<row, job, req>> /\ Action[k] = "update" /\ shown' = [shown EXCEPT ![k] = TRUE]
      BY <1>14 DEF SameEdit
    <2>2. /\ [j \in Keys |-> Cardinality(Writes(j))]' = [j \in Keys |-> Cardinality(Writes(j))]
          /\ [j \in Keys |-> row[j].status = "succeeded"]' = [j \in Keys |-> row[j].status = "succeeded"]
          /\ [j \in Keys |-> row[j].effects]' = [j \in Keys |-> row[j].effects]
      BY <2>1 DEF Writes
    <2>3. QED
      BY <2>1, <2>2 DEF Promise!Next, Promise!Anticipate
  <1>15. ASSUME NEW k \in Keys, Lapse(k) PROVE Promise!Next
    <2>1. row'[k] = [row[k] EXCEPT !.leased = FALSE] /\ \A j \in Keys \ {k} : row'[j] = row[j]
      BY <1>15 DEF Lapse, Put, TypeOK
    <2>2. \A j \in Keys : Outcome(j) /\ Effects(j)
      BY <1>1, <2>1 DEF Rows
    <2>3. UNCHANGED <<job, req, shown>>
      BY <1>15 DEF Lapse
    <2>4. QED
      BY <1>2, <2>2, <2>3
  <1>16. ASSUME \/ \E c \in Calls : Preflight(c)
                \/ \E a \in Agents : Searched(a)
                \/ \E w \in Captains \cup {Nobody} : ChangeCaptain(w)
                \/ Crash \/ UNCHANGED vars
         PROVE  Promise!Next
    BY <1>5, <1>16 DEF Preflight, Searched, ChangeCaptain, Crash, vars
  <1>17. QED
    BY <1>6, <1>7, <1>8, <1>9, <1>10, <1>11, <1>12, <1>13, <1>14, <1>15, <1>16 DEF Next

\* The ledger keeps the promise of WriteOnce, across calls, reconciliations, crashes and
\* late answers (unless the words of a payload are taken for a refusal).
THEOREM PromiseKept ==
    ASSUME Discreet
    PROVE  Spec => KeepsThePromise
  <1>1. Init => Promise!Init
    <2> SUFFICES ASSUME Init PROVE Promise!Init
      OBVIOUS
    <2>1. \A k \in Keys : Writes(k) = {}
      BY DEF Init, Writes
    <2>2. Cardinality({}) = 0
      BY FS_EmptySet
    <2>3. [k \in Keys |-> Cardinality(Writes(k))] = [k \in Keys |-> 0]
      BY <2>1, <2>2
    <2>4. [k \in Keys |-> row[k].status = "succeeded"] = [k \in Keys |-> FALSE]
      BY DEF Init, NoRow
    <2>5. [k \in Keys |-> row[k].effects] = [k \in Keys |-> 0]
      BY DEF Init, NoRow
    <2>6. shown = [k \in Keys |-> Action[k] = "link"]
      BY DEF Init
    <2>7. QED
      BY <2>3, <2>4, <2>5, <2>6 DEF Promise!Init
  <1>2. TypeOK /\ TurnsFence /\ WritesFence /\ [Next]_vars =>
          [Promise!Next]_<<[k \in Keys |-> Cardinality(Writes(k))], shown,
                           [k \in Keys |-> row[k].status = "succeeded"],
                           [k \in Keys |-> row[k].effects]>>
    BY Steps
  <1>3. QED
    BY <1>1, <1>2, Typing, Turns, Writings, PTL DEF Spec, KeepsThePromise, Promise!Spec
=============================================================================
