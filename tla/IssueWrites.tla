----------------------------- MODULE IssueWrites -----------------------------
(***************************************************************************)
(* Delegated GitHub issue writes (src/main/issue-writes.ts over the ledger *)
(* issue_writes of src/main/database/manager.ts): calls of a Captain's     *)
(* tools that share idempotency keys, the reconciliations, the search and  *)
(* the requests at GitHub, the lease of a claim, a Captain that is         *)
(* replaced, and a process that dies.                                      *)
(*                                                                         *)
(* JavaScript runs a call without a pause between two awaits: while one is *)
(* between two steps of its turn (MidTurn) no other moves, but   *)
(* the process may die, the lease may lapse and GitHub goes on.            *)
(***************************************************************************)
EXTENDS Integers, FiniteSets

CONSTANTS
    Calls,        \* calls of performIssueWrite
    Sweeps,       \* calls of reconcileIssueWrites: start-up, the list tool
    Keys,         \* idempotency keys
    Action,       \* key -> "create", "update" or "link"
    Captains,     \* identities of the Captain: its task and its session
    Nobody,       \* no Captain, or a project that may not be written
    Texts,        \* what a payload's own words look like: see Confirmed
    MaxChanges,   \* bound: how often the Captain changes
    MaxCrashes    \* bound: how often the process dies

\* Each agent runs one thing, and a project without a Captain is nobody's.
ASSUME WritesAssumption ==
    /\ Keys # {} /\ Action \in [Keys -> {"create", "update", "link"}]
    /\ Calls \cap Sweeps = {}
    /\ Nobody \notin Captains

VARIABLES
    row,          \* issue_writes: key -> its row
    pc,           \* where each call and each sweep stands
    job,          \* call -> what it was asked, and the epoch it was given
    todo,         \* call or sweep -> the rows its reconciliation still asks about
    req,          \* call -> its request at GitHub
    shown,        \* key -> GitHub shows what the key asks for
    captain,      \* who is the Captain now
    spent         \* the changes and crashes so far

vars == <<row, pc, job, todo, req, shown, captain, spent>>

Agents == Calls \cup Sweeps
Open == {"reserved", "unresolved"}
NoRow == [status |-> "none", epoch |-> 0, leased |-> FALSE, by |-> Nobody,
          text |-> "plain", effects |-> 0]
NoJob == [key |-> CHOOSE k \in Keys : TRUE, text |-> "plain", who |-> Nobody, epoch |-> 0]

Rows == [status : {"none", "succeeded", "failed"} \cup Open, epoch : Nat,
         leased : BOOLEAN, by : Captains \cup {Nobody},
         text : Texts \cup {"plain"}, effects : Nat]
Jobs == [key : Keys, text : Texts \cup {"plain"}, who : Captains \cup {Nobody}, epoch : Nat]

TypeOK ==
    /\ row \in [Keys -> Rows]
    /\ pc \in [Agents -> {"idle", "preflight", "claiming", "claimed", "wire",
                          "searching", "done"}]
    /\ job \in [Calls -> Jobs]
    /\ todo \in [Agents -> SUBSET [key : Keys, epoch : Nat]]
    /\ req \in [Calls -> {"none", "unsent", "sent", "written", "refused"}]
    /\ shown \in [Keys -> BOOLEAN]
    /\ captain \in Captains \cup {Nobody}
    /\ spent \in [changes : Nat, crashes : Nat]

Init ==
    /\ row = [k \in Keys |-> NoRow]
    /\ pc = [a \in Agents |-> "idle"]
    /\ job = [c \in Calls |-> NoJob]
    /\ todo = [a \in Agents |-> {}]
    /\ req = [c \in Calls |-> "none"]
    /\ shown = [k \in Keys |-> Action[k] = "link"]
    /\ captain \in Captains
    /\ spent = [changes |-> 0, crashes |-> 0]

MidTurn == {"claiming", "claimed"}
Turn(a) == pc[a] \in MidTurn \/ \A b \in Agents : pc[b] \notin MidTurn

Goto(a, where) == pc' = [pc EXCEPT ![a] = where]
Put(k, r) == row' = [row EXCEPT ![k] = r]

-----------------------------------------------------------------------------
(* The ledger: transactions over one row.                                  *)

Reserved(r, c) == [r EXCEPT !.status = "reserved", !.epoch = @ + 1, !.leased = TRUE,
                            !.by = captain, !.text = job[c].text]
Unresolved(r) == [r EXCEPT !.status = "unresolved", !.epoch = @ + 1, !.leased = FALSE]
Lapsed(r) == r.status = "reserved" /\ ~r.leased
SameBinding(r, c) == r.by = captain /\ r.text = job[c].text

\* settleIssueWrite: only the epoch that holds an open row settles it.
MaySettle(r, epoch) == r.epoch = epoch /\ r.status \in Open
SettledAs(r, status) ==
    IF status = "unresolved" THEN Unresolved(r)
    ELSE [r EXCEPT !.status = status, !.leased = FALSE]

\* applyIssueWriteEffects: the link, the journal and the marker are one
\* transaction, which fails whole when the task is gone or a write throws.
MayApplyAgain(r) == r.status = "succeeded"                                   \* slip
MayApply(r) == r.status = "succeeded" /\ r.effects = 0
WithEffects(r, applied) == IF applied /\ MayApply(r) THEN [r EXCEPT !.effects = @ + 1] ELSE r

Settle(k, epoch, status, applied) ==
    row' = IF MaySettle(row[k], epoch)
           THEN [row EXCEPT ![k] = WithEffects(SettledAs(@, status), applied)] ELSE row

-----------------------------------------------------------------------------
(* A call: performIssueWrite and runClaimedWrite.                          *)

AuthorizedForAnyone(c) == captain # Nobody                                  \* slip

\* authorizeIssueWriteNow, against the snapshot the call began with.
Authorized(c) == captain # Nobody /\ captain = job[c].who

\* A call that is refused at once touches nothing: only the others are here.
Ask(c, k, x) ==
    /\ pc[c] = "idle" /\ Turn(c)
    /\ captain # Nobody
    /\ job' = [job EXCEPT ![c] = [key |-> k, text |-> x, who |-> captain, epoch |-> 0]]
    /\ Goto(c, IF Action[k] = "create" THEN "claiming" ELSE "preflight")
    /\ UNCHANGED <<row, todo, req, shown, captain, spent>>

\* rejectPullRequestTarget answers: GitHub says it is an issue, or it does not.
Preflight(c) ==
    /\ pc[c] = "preflight" /\ Turn(c)
    /\ \/ Authorized(c) /\ Goto(c, "claiming")
       \/ Goto(c, "done")
    /\ UNCHANGED <<row, job, todo, req, shown, captain, spent>>

\* reconcileIssueWrites up to its first await: the effects still due (those of
\* done are applied, the others fail again), then the rows without an answer.
Listed(table, done) ==
    [k \in Keys |-> IF Lapsed(table[k]) THEN Unresolved(table[k])
                    ELSE WithEffects(table[k], k \in done)]
Questions(table) ==
    {[key |-> k, epoch |-> table[k].epoch] : k \in {j \in Keys : table[j].status = "unresolved"}}
Reconcile(a, table, done) ==
    /\ row' = Listed(table, done)
    /\ todo' = [todo EXCEPT ![a] = Questions(row')]
    /\ Goto(a, "searching")

\* beginIssueWrite gives the key to the call: a first attempt, or one after a refusal.
MayClaim(r, c) == r.status = "none" \/ (r.status = "failed" /\ SameBinding(r, c))
Claim(c) ==
    LET k == job[c].key IN
    /\ MayClaim(row[k], c)
    /\ Put(k, Reserved(row[k], c))
    /\ job' = [job EXCEPT ![c].epoch = row[k].epoch + 1]
    /\ Goto(c, "claimed")

\* beginIssueWrite, and what the call does with its answer.
Begin(c) ==
    LET k == job[c].key  r == row[k] IN
    /\ pc[c] = "claiming"
    /\ \/ Claim(c) /\ UNCHANGED todo
       \/ /\ r.status # "none" /\ ~SameBinding(r, c)
          /\ Goto(c, "done")
          /\ UNCHANGED <<row, job, todo>>
       \/ /\ r.status = "succeeded" /\ SameBinding(r, c)
          /\ \E applied \in BOOLEAN : Put(k, WithEffects(r, applied))
          /\ Goto(c, "done")
          /\ UNCHANGED <<job, todo>>
       \/ /\ r.status = "reserved" /\ r.leased /\ SameBinding(r, c)
          /\ Goto(c, "done")
          /\ UNCHANGED <<row, job, todo>>
       \/ /\ r.status = "unresolved" \/ Lapsed(r)
          /\ SameBinding(r, c)
          /\ \E done \in SUBSET Keys : Reconcile(c, row, done)
          /\ UNCHANGED job
    /\ UNCHANGED <<req, shown, captain, spent>>

\* The claim is used in the same turn.  A link writes nothing to GitHub; gh may
\* not start at all.
Dispatch(c) ==
    LET k == job[c].key  e == job[c].epoch IN
    /\ pc[c] = "claimed"
    /\ IF ~Authorized(c)
       THEN Settle(k, e, "failed", FALSE) /\ Goto(c, "done") /\ UNCHANGED req
       ELSE IF Action[k] = "link"
       THEN /\ \E applied \in BOOLEAN : Settle(k, e, "succeeded", applied)
            /\ Goto(c, "done") /\ UNCHANGED req
       ELSE /\ \E sent \in {"sent", "unsent"} : req' = [req EXCEPT ![c] = sent]
            /\ Goto(c, "wire") /\ UNCHANGED row
    /\ UNCHANGED <<job, todo, shown, captain, spent>>

\* confirmedIssueWriteFailure reads the message of the error: of a gh that ran
\* it holds the command line, so the words of the payload, then what gh said.
\* Words of a timeout or a reset there mean an unknown outcome whatever gh said;
\* failing that, an ENOENT or an "(HTTP 4xx)" there means a refusal.
Confirmed(answer, x) ==
    CASE answer = "unsent" -> TRUE
      [] answer = "refused" -> x # "speaks of a timeout"
      [] answer = "cut" -> x = "speaks of a refusal"
      [] answer = "reset" -> FALSE

\* The answer of gh: what GitHub did, or (killed after 30 s, a gateway, a reset)
\* nothing that says what it did.
Answers(c) == {"cut", "reset"} \cup (IF req[c] = "sent" THEN {} ELSE {req[c]})
Answer(c) ==
    LET k == job[c].key  e == job[c].epoch IN
    /\ pc[c] = "wire" /\ Turn(c)
    /\ \E answer \in IF req[c] = "unsent" THEN {"unsent"} ELSE Answers(c) :
         IF answer = "written"
         THEN \/ \E applied \in BOOLEAN : Settle(k, e, "succeeded", applied)
              \/ Settle(k, e, "unresolved", FALSE)            \* no issue identity
         ELSE Settle(k, e, IF Confirmed(answer, job[c].text) THEN "failed" ELSE "unresolved",
                     FALSE)
    /\ Goto(c, "done")
    /\ UNCHANGED <<job, todo, req, shown, captain, spent>>

-----------------------------------------------------------------------------
(* Reconciliation.                                                         *)

Sweep(s) ==
    /\ pc[s] = "idle" /\ Turn(s)
    /\ \E done \in SUBSET Keys : Reconcile(s, row, done)
    /\ UNCHANGED <<job, req, shown, captain, spent>>

Writes(k) == {c \in Calls : job[c].key = k /\ req[c] = "written"}

\* One row of the list: the search for the marker, or the read of the issue.  The
\* index lags, and two issues with the marker are no answer; a link is not asked
\* about.  The epoch is that of the list.
Search(a) ==
    /\ pc[a] = "searching" /\ todo[a] # {} /\ Turn(a)
    /\ \E q \in todo[a] :
         /\ todo' = [todo EXCEPT ![a] = @ \ {q}]
         /\ \/ /\ shown[q.key] /\ Action[q.key] # "link"
               /\ Action[q.key] = "create" => Cardinality(Writes(q.key)) = 1
               /\ \E applied \in BOOLEAN : Settle(q.key, q.epoch, "succeeded", applied)
            \/ UNCHANGED row
    /\ UNCHANGED <<pc, job, req, shown, captain, spent>>

\* The list is through.  The row of a call has succeeded or is unresolved still: nothing
\* settles an unresolved row as failed, so the claim for a retry is never reached.
Searched(a) ==
    /\ pc[a] = "searching" /\ todo[a] = {} /\ Turn(a)
    /\ Goto(a, "done")
    /\ UNCHANGED <<row, job, todo, req, shown, captain, spent>>

-----------------------------------------------------------------------------
(* GitHub, the clock, the user and the process.                            *)

\* A request may be carried out after its caller gave up on it, or died.
Execute(c) ==
    /\ req[c] = "sent"
    /\ req' = [req EXCEPT ![c] = "written"]
    /\ shown' = [shown EXCEPT ![job[c].key] = TRUE]
    /\ UNCHANGED <<row, pc, job, todo, captain, spent>>

Refuse(c) ==
    /\ req[c] = "sent"
    /\ req' = [req EXCEPT ![c] = "refused"]
    /\ UNCHANGED <<row, pc, job, todo, shown, captain, spent>>

SameEdit(k) ==
    /\ Action[k] = "update" /\ ~shown[k]
    /\ shown' = [shown EXCEPT ![k] = TRUE]
    /\ UNCHANGED <<row, pc, job, todo, req, captain, spent>>

Lapse(k) ==
    /\ row[k].leased
    /\ Put(k, [row[k] EXCEPT !.leased = FALSE])
    /\ UNCHANGED <<pc, job, todo, req, shown, captain, spent>>

\* The Captain gets another session, is removed, or the project is archived.
ChangeCaptain(w) ==
    /\ \A a \in Agents : pc[a] \notin MidTurn
    /\ w # captain /\ spent.changes < MaxChanges
    /\ captain' = w
    /\ spent' = [spent EXCEPT !.changes = @ + 1]
    /\ UNCHANGED <<row, pc, job, todo, req, shown>>

Crash ==
    /\ spent.crashes < MaxCrashes
    /\ pc' = [a \in Agents |-> IF pc[a] = "idle" THEN "idle" ELSE "done"]
    /\ todo' = [a \in Agents |-> {}]
    /\ spent' = [spent EXCEPT !.crashes = @ + 1]
    /\ UNCHANGED <<row, job, req, shown, captain>>

Next ==
    \/ \E c \in Calls : \/ \E k \in Keys, x \in Texts : Ask(c, k, x)
                        \/ Preflight(c) \/ Begin(c) \/ Dispatch(c) \/ Answer(c)
                        \/ Execute(c) \/ Refuse(c)
    \/ \E s \in Sweeps : Sweep(s)
    \/ \E a \in Agents : Search(a) \/ Searched(a)
    \/ \E k \in Keys : SameEdit(k) \/ Lapse(k)
    \/ \E w \in Captains \cup {Nobody} : ChangeCaptain(w)
    \/ Crash

Spec == Init /\ [][Next]_vars

-----------------------------------------------------------------------------
(* Properties.                                                             *)

\* However often a write is asked for, retried after a refusal, cut off by a
\* timeout, a lapsed lease or a crash, GitHub carries it out once at most under
\* one key: an attempt without an answer is never followed by another.
WrittenOnce == \A k \in Keys : Cardinality(Writes(k)) <= 1

\* A request leaves only while the Captain that asked is still the Captain, and
\* the ledger names it: what was authorized before an await does not outlive it.
DispatchIsAuthorized ==
    [][\A c \in Calls : req[c] = "none" /\ req'[c] = "sent" =>
         /\ job[c].who = captain /\ captain # Nobody
         /\ row[job[c].key].by = captain]_vars

Promise == INSTANCE WriteOnce WITH
    made <- [k \in Keys |-> Cardinality(Writes(k))],
    recorded <- [k \in Keys |-> row[k].status = "succeeded"],
    applied <- [k \in Keys |-> row[k].effects]

\* The ledger keeps the promise of WriteOnce: a write is recorded as done only
\* when GitHub shows it, its effects are applied only then and once, across the
\* calls, the reconciliations, the crashes between two of their steps and
\* answers that come late.
KeepsThePromise == Promise!Spec
=============================================================================
