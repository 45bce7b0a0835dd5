------------------------------ MODULE Admission ------------------------------
(***************************************************************************)
(* checkAdmission (src/main/agent-manager/admission.ts): whether one more  *)
(* session of a task may start under the limits, and if not, the first     *)
(* reason it may not.  Pure: the running sessions and the pauses are       *)
(* arguments.  A slot belongs to a task, so the counted sessions are a set *)
(* of tasks, as the code's map keyed by task id makes them.                *)
(***************************************************************************)
EXTENDS Naturals, Sequences, FiniteSets

CONSTANTS
    Tasks,
    AgentOf,          \* the agent each task is assigned to
    ProjectOf,        \* the project each task belongs to
    GlobalLimit,      \* max_concurrent_agent_sessions; 0 is unlimited
    HardCap,          \* agent -> its hard cap
    Level,            \* project -> the working level its Captain or a pin set
    ProjectLimit,     \* project -> max_concurrent_agents; 0 is unlimited
    DailyCap,         \* project -> daily_session_cap; 0 is unlimited
    Overlaps          \* pairs of tasks of one project that touch the same files

Projects == {ProjectOf[t] : t \in Tasks}
Agents == {AgentOf[t] : t \in Tasks}

ASSUME AdmissionAssumption ==
    /\ IsFiniteSet(Tasks)
    /\ GlobalLimit \in Nat
    /\ \A a \in Agents : HardCap[a] \in Nat \ {0}
    /\ \A p \in Projects : /\ Level[p] \in Nat
                           /\ ProjectLimit[p] \in Nat
                           /\ DailyCap[p] \in Nat
    /\ \A t, u \in Tasks : <<t, u>> \in Overlaps => <<u, t>> \in Overlaps

AtMost(m, n) == IF m <= n THEN m ELSE n
AtLeast(m, n) == IF m >= n THEN m ELSE n

\* No room for one more beside these.
FullLate(holders, limit) == Cardinality(holders) > limit     \* slip: one too many
Full(holders, limit) == Cardinality(holders) >= limit

\* What holds a slot beside the task that asks for one.
OthersAndSelf(t, running) == running \cup {t}                \* slip: counted against itself
Others(t, running) == running \ {t}
SameAgent(t, running) == {u \in Others(t, running) : AgentOf[u] = AgentOf[t]}
SameProject(t, running) == {u \in Others(t, running) : ProjectOf[u] = ProjectOf[t]}

\* The working level, held within [1, hard cap].
EffectiveLevel(t) == AtLeast(1, AtMost(Level[ProjectOf[t]], HardCap[AgentOf[t]]))

\* The state a decision reads: the tasks holding a slot, whether every project is
\* paused, the paused projects, and each project's session starts since midnight.
Contexts == [running : SUBSET Tasks, allPaused : BOOLEAN, paused : SUBSET Projects,
             startedToday : [Projects -> Nat]]

\* The checks, in the order checkAdmission makes them: pauses and the daily cap
\* first, since they say "do not start" and not "no slot right now".
Checks == <<"global_pause", "project_paused", "project_daily_cap", "global_limit",
            "agent_limit", "concurrency_level", "file_overlap", "project_limit">>

Refuses(check, t, c) ==
    LET project == ProjectOf[t]
    IN \/ check = "global_pause" /\ c.allPaused
       \/ check = "project_paused" /\ project \in c.paused
       \/ /\ check = "project_daily_cap"
          /\ DailyCap[project] # 0
          /\ c.startedToday[project] >= DailyCap[project]
       \/ /\ check = "global_limit"
          /\ GlobalLimit # 0
          /\ Full(Others(t, c.running), GlobalLimit)
       \/ /\ check = "agent_limit"
          /\ Full(SameAgent(t, c.running), HardCap[AgentOf[t]])
       \/ /\ check = "concurrency_level"
          /\ Full(SameAgent(t, c.running) \cap SameProject(t, c.running), EffectiveLevel(t))
       \/ /\ check = "file_overlap"
          /\ \E u \in SameProject(t, c.running) : <<t, u>> \in Overlaps
       \/ /\ check = "project_limit"
          /\ ProjectLimit[project] # 0
          /\ Full(SameProject(t, c.running), ProjectLimit[project])

\* checkAdmission: the first check that refuses, or "admitted".
AdmissionReason(t, c) ==
    LET refusing == {i \in DOMAIN Checks : Refuses(Checks[i], t, c)}
    IN IF refusing = {} THEN "admitted"
       ELSE Checks[CHOOSE i \in refusing : \A j \in refusing : i <= j]

Admitted(t, c) == AdmissionReason(t, c) = "admitted"

\* isGlobalAdmissionReason: the reasons at which a drain stops looking.
GlobalReasonsWithAgent == {"global_limit", "global_pause", "agent_limit"}  \* slip
GlobalReasons == {"global_limit", "global_pause"}

\* What the limits promise of a set of running tasks.
WithinLimits(running) ==
    /\ GlobalLimit # 0 => Cardinality(running) <= GlobalLimit
    /\ \A a \in Agents : Cardinality({u \in running : AgentOf[u] = a}) <= HardCap[a]
    /\ \A t \in running :
        /\ Cardinality({u \in running : AgentOf[u] = AgentOf[t] /\ ProjectOf[u] = ProjectOf[t]})
                <= EffectiveLevel(t)
        /\ ProjectLimit[ProjectOf[t]] # 0 =>
                Cardinality({u \in running : ProjectOf[u] = ProjectOf[t]}) <= ProjectLimit[ProjectOf[t]]
        /\ \A u \in running \ {t} : ProjectOf[u] = ProjectOf[t] => <<t, u>> \notin Overlaps
==============================================================================
