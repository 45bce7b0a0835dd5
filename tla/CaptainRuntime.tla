---------------------------- MODULE CaptainRuntime ----------------------------
(***************************************************************************)
(* What is remembered of one project's Captain, and the operations on it   *)
(* that its starts, its switches and its rollovers share: the row of       *)
(* managed_agent_runtimes (src/main/sessions/runtime-store.ts), the agent  *)
(* the project selects, the session its task is bound to, the sessions in  *)
(* the process's map and the native sessions the backends ever made.       *)
(*                                                                         *)
(* The five phases of a start under way are one here, "starting"; `due`    *)
(* says whether the row carries a deadline.                                *)
(***************************************************************************)
EXTENDS SequencesExt

CONSTANTS Agents,       \* the agents a Captain may run on
          NoAgent,
          MaxSessions   \* bound: native sessions made altogether

ASSUME CaptainAssumption == NoAgent \notin Agents /\ MaxSessions \in Nat \ {0}

VARIABLES selected,   \* projects.captain_agent_id
          bound,      \* tasks.session_id of the Captain's task, 0 for none
          keyed,      \* the agent the binding was recorded with
          row,        \* the row of managed_agent_runtimes
          made,       \* the native sessions made: their agent, the handoff made for
          live,       \* AgentManager.sessions, in the order of the map
          busy,       \* the sessions of the map that are working
          left        \* what the environment may still do, by kind

runtimeVars == <<selected, bound, keyed, row, made, live, busy, left>>

None == 0
Sessions == 1 .. MaxSessions
AgentOf(s) == made[s].agent

Spend(kind) == left[kind] > 0 /\ left' = [left EXCEPT ![kind] = @ - 1]

----
(* runtime-store.ts *)

Over == {"failed", "timed_out", "rolled_back"}
Phases == {"starting", "healthy", "unhealthy"} \cup Over

Begun(r, agent, lastGood) ==
    [generation |-> r.generation + 1, agent |-> agent, candidate |-> agent,
     lastGood |-> IF lastGood # NoAgent THEN lastGood ELSE r.lastGood,
     session |-> None, phase |-> "starting", due |-> TRUE]

\* A start of the agent that is starting already, and is in time, continues it.
StartBegun(r, agent) ==
    IF r.agent = agent /\ r.phase = "starting" /\ r.due THEN r
    ELSE Begun(r, agent, IF r.lastGood # NoAgent THEN r.lastGood ELSE selected)

StartsOfAnyAge(g) == row.phase \notin Over                                   \* slip

\* A start of generation g still owns the row.
MayStart(g) == row.generation = g /\ row.phase \notin Over

UnfencedTransition(g, r) == r                                               \* slip

\* The transition of a start of generation g; nothing once g has lost the row.
Fenced(g, r) == IF MayStart(g) THEN r ELSE row

Verifying(s) == [row EXCEPT !.phase = "starting", !.session = s]

Verified(s, lastGood) ==
    [row EXCEPT !.phase = "healthy", !.session = s, !.due = FALSE,
                !.candidate = NoAgent, !.lastGood = lastGood]

Unready == [row EXCEPT !.phase = "unhealthy"]

\* A start of generation g ended badly: the row goes back to the agent before.
GivenUp(r, g, phase, agent, previous) ==
    IF r.generation # g THEN r
    ELSE IF previous = NoAgent THEN [r EXCEPT !.phase = phase, !.due = FALSE]
    ELSE [r EXCEPT !.phase = "rolled_back", !.due = FALSE, !.agent = previous,
                   !.candidate = agent]

----
(* The sessions of the process *)

IsLive(s) == \E i \in DOMAIN live : live[i] = s
Without(s) == RemoveFirst(live, s)
With(s) == IF IsLive(s) THEN live ELSE Append(live, s)

\* findSessionByTaskId: the bound session of a Captain, else the first of the map.
Current == IF IsLive(bound) THEN bound ELSE IF live = <<>> THEN None ELSE Head(live)

FirstOf(agent) ==
    LET theirs == {i \in DOMAIN live : AgentOf(live[i]) = agent}
    IN IF theirs = {} THEN None ELSE live[Min(theirs)]

\* A backend makes a native session, for a handoff or for a start.
Makes(agent, source) ==
    Len(made) < MaxSessions /\ made' = Append(made, [agent |-> agent, source |-> source])
Fresh == Len(made) + 1

=============================================================================
