--------------------------- MODULE MCAgentLifecycle ---------------------------
(* Tasks of one project, two of an agent and one of another, each agent with a  *)
(* hard cap of one, and what the environment may do in each scenario of a run.  *)
EXTENDS AgentLifecycle

CONSTANTS t1, t2, t3, a1, a2, p1

MCTwoTasks == {t1, t2}
MCThreeTasks == {t1, t2, t3}
MCAgentOf == [t \in Tasks |-> IF t = t3 THEN a2 ELSE a1]
MCProjectOf == [t \in Tasks |-> p1]
MCHardCap == [a \in {a1, a2} |-> 1]
MCLevel == [p \in {p1} |-> 2]
MCUnlimited == [p \in {p1} |-> 0]
MCNoPredecessors == [t \in Tasks |-> {}]
MCChain == [t \in Tasks |-> IF t = t2 THEN {t1} ELSE {}]

Spending(some) == [k \in Kinds |-> IF k \in DOMAIN some THEN some[k] ELSE 0]

\* One task: everything that can cross the path of a start.
MCRecovery == [tasks |-> {t1}, most |->
    Spending([start |-> 1, explicit |-> 1, stop |-> 2, end |-> 1, label |-> 1,
              message |-> 1, timeout |-> 1, crash |-> 1])]

\* Two tasks of one agent: what they share is a slot and the drain.
MCSlots == [tasks |-> {t1, t2}, most |->
    Spending([start |-> 2, stop |-> 1, timeout |-> 1, pause |-> 1])]

\* Two tasks of two agents, both at work when the process dies: what they share is boot,
\* where the one that is back may stop or start the other.
MCBoot == {[tasks |-> {t1, t3}, most |-> Spending([start |-> 2, stop |-> 1, crash |-> 1])],
           [tasks |-> {t1, t3}, most |-> Spending([start |-> 3, crash |-> 1])]}

MCSafety == {MCRecovery, MCSlots} \cup MCBoot

\* Two tasks in a chain.
MCLiveness == {[tasks |-> Tasks, most |->
    Spending([start |-> 2, stop |-> 1, timeout |-> 1, refuse |-> 1, complete |-> 1,
              sweep |-> 1, crash |-> 1])]}
==============================================================================
