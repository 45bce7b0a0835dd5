------------------------------- MODULE Captain -------------------------------
(***************************************************************************)
(* One project's Captain: its starts and switches (CaptainStarts), its     *)
(* planned rollovers (CaptainHandoff), the turns of its sessions, and the  *)
(* crash of the process with the Captains' share of reconcileStartup.      *)
(***************************************************************************)
EXTENDS CaptainStarts

CONSTANT Scenarios   \* each: whether rollover is on, and what the environment may do

Kinds == {"starts", "switches", "rollbacks", "turns", "cancels", "faults", "expiries",
          "crashes", "edits"}

ASSUME ScenariosAssumption ==
    \A scenario \in Scenarios : scenario.policy \in BOOLEAN /\ scenario.left \in [Kinds -> Nat]

vars == <<runtimeVars, rollVars, calls>>

\* A Captain that is up and working on the first session of its agent.
Init ==
    \E scenario \in Scenarios, agent \in Agents :
        /\ policy = scenario.policy
        /\ left = scenario.left
        /\ selected = agent /\ bound = 1 /\ keyed = agent
        /\ made = <<[agent |-> agent, source |-> None]>>
        /\ live = <<1>> /\ busy = {1}
        /\ row = [generation |-> 1, agent |-> agent, candidate |-> NoAgent,
                  lastGood |-> agent, session |-> 1, phase |-> "healthy", due |-> FALSE]
        /\ handoff = [s \in Sessions |-> Unstarted]
        /\ roll = NoRoll
        /\ calls = [c \in Calls |-> NoCall]

\* A turn begins; it waits for a rollover in progress.
TurnBegins ==
    /\ Current \notin busy \cup {None} /\ At("idle") /\ Spend("turns")
    /\ busy' = busy \cup {Current}
    /\ UNCHANGED <<selected, bound, keyed, row, made, live, rollVars, calls>>

\* A turn ends (transitionToIdle, maybeRolloverCaptain).
TurnEnds(s) ==
    /\ IsLive(s) /\ s \in busy
    /\ busy' = busy \ {s}
    /\ \/ MayRollOver(s) /\ roll' = Considered(s)
       \/ (MayRollOver(s) => Incomplete = None) /\ UNCHANGED roll
    /\ UNCHANGED <<selected, bound, keyed, row, made, live, left, policy, handoff, calls>>

Reboot == [NoCall EXCEPT !.kind = "reboot", !.pc = "boot"]

\* The process dies: what is left is in the database and with the backends.
Crash ==
    /\ Spend("crashes")
    /\ live' = <<>> /\ busy' = {}
    /\ \E c \in Calls : calls' = [d \in Calls |-> IF d = c THEN Reboot ELSE NoCall]
    /\ roll' = NoRoll
    /\ UNCHANGED <<selected, bound, keyed, row, made, policy, handoff>>

\* A start the last process did not finish is rolled back: the agent known to be good is
\* selected and started.
BootRollsBack(c) ==
    LET good == row.lastGood
        failed == IF row.candidate # NoAgent THEN row.candidate ELSE row.agent
        restored == [row EXCEPT !.phase = "rolled_back", !.due = FALSE, !.agent = good]
        r == StartBegun(restored, good)
    IN /\ AtPc(c, "boot") /\ row.phase = "starting" /\ good # NoAgent
       /\ selected' = good
       /\ Enter(c, [Call("back", good, r, r.lastGood) EXCEPT !.candidate = failed], r)
    /\ UNCHANGED left

\* A healthy Captain is started again on the agent of its row.
BootResumes(c) ==
    LET recovering == [row EXCEPT !.phase = "starting", !.due = TRUE]
    IN /\ AtPc(c, "boot") /\ row.phase = "healthy"
       /\ Enter(c, Call("boot", row.agent, recovering, row.lastGood), recovering)
    /\ UNCHANGED <<selected, left>>

\* A Captain whose start had failed waits for someone to ask.
BootIgnores(c) ==
    /\ AtPc(c, "boot") /\ row.phase \notin {"starting", "healthy"}
    /\ EndCall(c)
    /\ UNCHANGED <<runtimeVars, rollVars>>

Next ==
    \/ RollSteps
    \/ \E c \in Calls : StartSteps(c)
    \/ RollBack
    \/ \E agent \in Agents : SelectAgent(agent)
    \/ TurnBegins
    \/ \E s \in Sessions : TurnEnds(s)
    \/ Crash
    \/ \E c \in Calls : BootRollsBack(c) \/ BootResumes(c) \/ BootIgnores(c)

Spec == Init /\ [][Next]_vars

----
(* Properties *)

TypeOK ==
    /\ selected \in Agents /\ bound \in {None} \cup Sessions /\ keyed \in Agents \cup {NoAgent}
    /\ row.phase \in Phases /\ row.agent \in Agents /\ row.session \in {None} \cup Sessions
    /\ Len(made) <= MaxSessions
    /\ busy \subseteq {live[i] : i \in DOMAIN live}
    /\ \A i, j \in DOMAIN live : live[i] = live[j] => i = j
    /\ \A s \in Sessions : handoff[s].state \in HandoffStates

Edited == left.edits = 0
Quiet == NoneInFlight /\ At("idle")

\* At most one native session is ever made for a handoff, over cancellations, failures and
\* crashes (handoff.ts: createGeneration is "called at most once").
HandoffCreatesOnce ==
    \A i, j \in DOMAIN made : made[i].source # None /\ made[i].source = made[j].source => i = j

\* While the Captain is bound to the replacement, the session it replaced does not run.
SourceStopsFirst ==
    \A s \in Sessions : handoff[s].target # None /\ bound = handoff[s].target => ~IsLive(s)

\* The selected agent changes to one whose session is verified and bound in the same step,
\* or back to the last one known to be good (unless it is or was changed by hand).
SelectionIsEarned ==
    [][selected' # selected /\ ~Edited =>
        \/ left'.edits < left.edits
        \/ selected' = row.lastGood
        \/ row'.phase = "healthy" /\ row'.agent = selected' /\ row'.session = bound'
           /\ IsLive(bound)' /\ made'[bound'].agent = selected']_vars

\* A session is bound only for the agent that is selected (unless that was changed by hand).
BoundForSelected ==
    [][bound' # bound /\ bound' # None /\ ~Edited => made'[bound'].agent = selected']_vars

\* With nothing in progress a Captain said to be healthy is: the agent of the row, of its
\* session and of the bound session is the selected one (unless that was changed by hand).
HealthyIsTrue ==
    Quiet /\ ~Edited /\ row.phase = "healthy" =>
        /\ row.agent = selected /\ AgentOf(row.session) = selected
        /\ bound # None /\ AgentOf(bound) = selected

\* With nothing in progress at most one session of the Captain runs.
OneRuntime == Quiet /\ ~Edited => Len(live) <= 1

\* With nothing in progress the row does not say that a start is, except after a
\* replacement that was verified and not bound.
NothingStartsForever ==
    Quiet /\ row.phase = "starting" => \E s \in Sessions : handoff[s].state = "created"

=============================================================================
