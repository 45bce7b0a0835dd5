------------------------- MODULE AdmissionGateProofs -------------------------
(***************************************************************************)
(* What the admission gate promises, proved for any tasks, agents,         *)
(* projects and limits.                                                    *)
(*                                                                         *)
(* The decision comes first: "admitted" means that none of the eight       *)
(* checks refuses, and a refusal names one that does.  Then what one more  *)
(* task does to the counts, which turns "no check refuses" into "the       *)
(* limits still hold", and only then the invariants of the gate.           *)
(***************************************************************************)
EXTENDS AdmissionGate, FiniteSetTheorems, TLAPS

(* The decision. *)

\* Some refusing check comes first (the order of the checks in checkAdmission).
LEMMA FirstRefusal ==
    ASSUME NEW S \in SUBSET (1..8), S # {}
    PROVE  \E i \in S : \A j \in S : i <= j
  <1> SUFFICES ASSUME \A i \in S : \E j \in S : j < i PROVE FALSE
    OBVIOUS
  <1>1. 1 \notin S
    OBVIOUS
  <1>2. 2 \notin S
    BY <1>1
  <1>3. 3 \notin S
    BY <1>1, <1>2
  <1>4. 4 \notin S
    BY <1>1, <1>2, <1>3
  <1>5. 5 \notin S
    BY <1>1, <1>2, <1>3, <1>4
  <1>6. 6 \notin S
    BY <1>1, <1>2, <1>3, <1>4, <1>5
  <1>7. 7 \notin S
    BY <1>1, <1>2, <1>3, <1>4, <1>5, <1>6
  <1>8. 8 \notin S
    BY <1>1, <1>2, <1>3, <1>4, <1>5, <1>6, <1>7
  <1>9. PICK k \in S : TRUE
    OBVIOUS
  <1>10. k \in 1..8 /\ k \in S
    OBVIOUS
  <1>11. k = 1 \/ k = 2 \/ k = 3 \/ k = 4 \/ k = 5 \/ k = 6 \/ k = 7 \/ k = 8
    BY <1>10
  <1>12. QED
    BY <1>1, <1>2, <1>3, <1>4, <1>5, <1>6, <1>7, <1>8, <1>10, <1>11

\* checkAdmission answers "admitted" when no check refuses, and otherwise names a
\* check that does.
LEMMA Decision ==
    ASSUME NEW t, NEW c
    PROVE  /\ Admitted(t, c) <=> \A i \in 1..8 : ~Refuses(Checks[i], t, c)
           /\ ~Admitted(t, c) => \E i \in 1..8 : /\ AdmissionReason(t, c) = Checks[i]
                                                 /\ Refuses(Checks[i], t, c)
  <1> DEFINE refusing == {i \in 1..8 : Refuses(Checks[i], t, c)}
  <1>1. DOMAIN Checks = 1..8
    BY DEF Checks
  <1>2. AdmissionReason(t, c) =
          IF refusing = {} THEN "admitted"
          ELSE Checks[CHOOSE i \in refusing : \A j \in refusing : i <= j]
    BY <1>1 DEF AdmissionReason
  <1>3. \A i \in 1..8 : Checks[i] # "admitted"
    BY DEF Checks
  <1>4. CASE refusing = {}
    BY <1>2, <1>4 DEF Admitted
  <1>5. CASE refusing # {}
    <2>1. \E i \in refusing : \A j \in refusing : i <= j
      BY <1>5, FirstRefusal
    <2>2. PICK i \in refusing : AdmissionReason(t, c) = Checks[i]
      BY <1>2, <1>5, <2>1
    <2>3. i \in 1..8 /\ Refuses(Checks[i], t, c)
      OBVIOUS
    <2>4. QED
      BY <1>3, <2>2, <2>3 DEF Admitted
  <1>6. QED
    BY <1>4, <1>5

\* The eight checks by name, each with its question.
LEMMA NoCheckRefuses ==
    ASSUME NEW t, NEW c
    PROVE  Admitted(t, c) <=>
             /\ ~c.allPaused
             /\ ProjectOf[t] \notin c.paused
             /\ ~(DailyCap[ProjectOf[t]] # 0 /\ c.startedToday[ProjectOf[t]] >= DailyCap[ProjectOf[t]])
             /\ ~(GlobalLimit # 0 /\ Full(Others(t, c.running), GlobalLimit))
             /\ ~Full(SameAgent(t, c.running), HardCap[AgentOf[t]])
             /\ ~Full(SameAgent(t, c.running) \cap SameProject(t, c.running), EffectiveLevel(t))
             /\ ~(\E u \in SameProject(t, c.running) : <<t, u>> \in Overlaps)
             /\ ~(ProjectLimit[ProjectOf[t]] # 0
                    /\ Full(SameProject(t, c.running), ProjectLimit[ProjectOf[t]]))
  <1>1. /\ Checks[1] = "global_pause" /\ Checks[2] = "project_paused"
        /\ Checks[3] = "project_daily_cap" /\ Checks[4] = "global_limit"
        /\ Checks[5] = "agent_limit" /\ Checks[6] = "concurrency_level"
        /\ Checks[7] = "file_overlap" /\ Checks[8] = "project_limit"
    BY DEF Checks
  <1>2. (\A i \in 1..8 : ~Refuses(Checks[i], t, c)) <=>
          /\ ~Refuses("global_pause", t, c) /\ ~Refuses("project_paused", t, c)
          /\ ~Refuses("project_daily_cap", t, c) /\ ~Refuses("global_limit", t, c)
          /\ ~Refuses("agent_limit", t, c) /\ ~Refuses("concurrency_level", t, c)
          /\ ~Refuses("file_overlap", t, c) /\ ~Refuses("project_limit", t, c)
    <2>1. \A i \in 1..8 : \/ i = 1 \/ i = 2 \/ i = 3 \/ i = 4
                          \/ i = 5 \/ i = 6 \/ i = 7 \/ i = 8
      OBVIOUS
    <2>2. /\ 1 \in 1..8 /\ 2 \in 1..8 /\ 3 \in 1..8 /\ 4 \in 1..8
          /\ 5 \in 1..8 /\ 6 \in 1..8 /\ 7 \in 1..8 /\ 8 \in 1..8
      OBVIOUS
    <2>3. QED
      BY <1>1, <2>1, <2>2, Zenon
  <1>3. QED
    BY <1>2, Decision DEF Refuses

------------------------------------------------------------------------------
(* The counts. *)

\* A set of tasks is finite, and one more member adds one to its count.
LEMMA OneMore ==
    ASSUME NEW S \in SUBSET Tasks, NEW t \in Tasks, t \notin S
    PROVE  /\ IsFiniteSet(S) /\ Cardinality(S) \in Nat
           /\ Cardinality(S \cup {t}) = Cardinality(S) + 1
  BY AdmissionAssumption, FS_Subset, FS_CardinalityType, FS_AddElement

\* Fewer tasks, no higher count.
LEMMA Fewer ==
    ASSUME NEW S \in SUBSET Tasks, NEW R \in SUBSET S
    PROVE  Cardinality(R) \in Nat /\ Cardinality(S) \in Nat /\ Cardinality(R) <= Cardinality(S)
  BY AdmissionAssumption, FS_Subset, FS_CardinalityType

\* The working level of a task is a number, and the same for every task of its agent
\* and project.
LEMMA Levels ==
    ASSUME NEW t \in Tasks
    PROVE  /\ EffectiveLevel(t) \in Nat
           /\ HardCap[AgentOf[t]] \in Nat
           /\ ProjectLimit[ProjectOf[t]] \in Nat
           /\ \A u \in Tasks : AgentOf[u] = AgentOf[t] /\ ProjectOf[u] = ProjectOf[t]
                                 => EffectiveLevel(u) = EffectiveLevel(t)
  <1>1. AgentOf[t] \in Agents /\ ProjectOf[t] \in Projects
    BY DEF Agents, Projects
  <1>2. HardCap[AgentOf[t]] \in Nat /\ Level[ProjectOf[t]] \in Nat /\ ProjectLimit[ProjectOf[t]] \in Nat
    BY <1>1, AdmissionAssumption
  <1>3. QED
    BY <1>2 DEF EffectiveLevel, AtLeast, AtMost

\* The five checks that count or compare running tasks say no exactly when one more
\* task would break a limit (checkAdmission, after its pauses and the daily cap).
LEMMA RoomForOneMore ==
    ASSUME NEW R \in SUBSET Tasks, NEW t \in Tasks, t \notin R, WithinLimits(R)
    PROVE  WithinLimits(R \cup {t}) <=>
             /\ ~(GlobalLimit # 0 /\ Full(Others(t, R), GlobalLimit))
             /\ ~Full(SameAgent(t, R), HardCap[AgentOf[t]])
             /\ ~Full(SameAgent(t, R) \cap SameProject(t, R), EffectiveLevel(t))
             /\ ~(\E u \in SameProject(t, R) : <<t, u>> \in Overlaps)
             /\ ~(ProjectLimit[ProjectOf[t]] # 0
                    /\ Full(SameProject(t, R), ProjectLimit[ProjectOf[t]]))
  <1> DEFINE OfAgent(S, a) == {u \in S : AgentOf[u] = a}
             OfProject(S, p) == {u \in S : ProjectOf[u] = p}
             OfBoth(S, u) == {v \in S : AgentOf[v] = AgentOf[u] /\ ProjectOf[v] = ProjectOf[u]}
             New == R \cup {t}
  <1>1. /\ Others(t, R) = R
        /\ SameAgent(t, R) = OfAgent(R, AgentOf[t])
        /\ SameProject(t, R) = OfProject(R, ProjectOf[t])
        /\ SameAgent(t, R) \cap SameProject(t, R) = OfBoth(R, t)
    BY DEF Others, SameAgent, SameProject
  <1>2. /\ OfAgent(New, AgentOf[t]) = OfAgent(R, AgentOf[t]) \cup {t}
        /\ OfProject(New, ProjectOf[t]) = OfProject(R, ProjectOf[t]) \cup {t}
        /\ OfBoth(New, t) = OfBoth(R, t) \cup {t}
    OBVIOUS
  <1>3. /\ Cardinality(R) \in Nat /\ Cardinality(New) = Cardinality(R) + 1
        /\ Cardinality(OfAgent(R, AgentOf[t])) \in Nat
        /\ Cardinality(OfAgent(New, AgentOf[t])) = Cardinality(OfAgent(R, AgentOf[t])) + 1
        /\ Cardinality(OfProject(R, ProjectOf[t])) \in Nat
        /\ Cardinality(OfProject(New, ProjectOf[t])) = Cardinality(OfProject(R, ProjectOf[t])) + 1
        /\ Cardinality(OfBoth(R, t)) \in Nat
        /\ Cardinality(OfBoth(New, t)) = Cardinality(OfBoth(R, t)) + 1
    <2>1. /\ OfAgent(R, AgentOf[t]) \in SUBSET Tasks /\ t \notin OfAgent(R, AgentOf[t])
          /\ OfProject(R, ProjectOf[t]) \in SUBSET Tasks /\ t \notin OfProject(R, ProjectOf[t])
          /\ OfBoth(R, t) \in SUBSET Tasks /\ t \notin OfBoth(R, t)
      OBVIOUS
    <2>2. QED
      BY <1>2, <2>1, OneMore
  <1>4. /\ \A a \in Agents : a # AgentOf[t] => OfAgent(New, a) = OfAgent(R, a)
        /\ \A u \in R : ProjectOf[u] # ProjectOf[t] =>
                OfProject(New, ProjectOf[u]) = OfProject(R, ProjectOf[u])
        /\ \A u \in R : AgentOf[u] # AgentOf[t] \/ ProjectOf[u] # ProjectOf[t] =>
                OfBoth(New, u) = OfBoth(R, u)
        /\ \A u \in R : AgentOf[u] = AgentOf[t] /\ ProjectOf[u] = ProjectOf[t] =>
                OfBoth(New, u) = OfBoth(New, t)
    OBVIOUS
  <1>5. /\ GlobalLimit \in Nat /\ EffectiveLevel(t) \in Nat
        /\ HardCap[AgentOf[t]] \in Nat /\ ProjectLimit[ProjectOf[t]] \in Nat
        /\ AgentOf[t] \in Agents
    BY AdmissionAssumption, Levels DEF Agents
  <1>6. ASSUME WithinLimits(New)
        PROVE  /\ ~(GlobalLimit # 0 /\ Cardinality(R) >= GlobalLimit)
               /\ ~(Cardinality(OfAgent(R, AgentOf[t])) >= HardCap[AgentOf[t]])
               /\ ~(Cardinality(OfBoth(R, t)) >= EffectiveLevel(t))
               /\ ~(\E u \in OfProject(R, ProjectOf[t]) : <<t, u>> \in Overlaps)
               /\ ~(ProjectLimit[ProjectOf[t]] # 0
                      /\ Cardinality(OfProject(R, ProjectOf[t])) >= ProjectLimit[ProjectOf[t]])
    <2>1. /\ GlobalLimit # 0 => Cardinality(New) <= GlobalLimit
          /\ Cardinality(OfAgent(New, AgentOf[t])) <= HardCap[AgentOf[t]]
          /\ Cardinality(OfBoth(New, t)) <= EffectiveLevel(t)
          /\ ProjectLimit[ProjectOf[t]] # 0 =>
                Cardinality(OfProject(New, ProjectOf[t])) <= ProjectLimit[ProjectOf[t]]
          /\ \A u \in New \ {t} : ProjectOf[u] = ProjectOf[t] => <<t, u>> \notin Overlaps
      BY <1>5, <1>6, t \in New DEF WithinLimits
    <2>2. ~(\E u \in OfProject(R, ProjectOf[t]) : <<t, u>> \in Overlaps)
      BY <2>1
    <2> HIDE DEF OfAgent, OfProject, OfBoth, New
    <2>3. /\ GlobalLimit # 0 => ~(Cardinality(R) >= GlobalLimit)
          /\ ~(Cardinality(OfAgent(R, AgentOf[t])) >= HardCap[AgentOf[t]])
          /\ ~(Cardinality(OfBoth(R, t)) >= EffectiveLevel(t))
      BY <1>3, <1>5, <2>1
    <2>4. ProjectLimit[ProjectOf[t]] # 0 =>
                ~(Cardinality(OfProject(R, ProjectOf[t])) >= ProjectLimit[ProjectOf[t]])
      BY <1>3, <1>5, <2>1
    <2>5. QED
      BY <2>2, <2>3, <2>4
  <1>7. ASSUME ~(GlobalLimit # 0 /\ Cardinality(R) >= GlobalLimit),
               ~(Cardinality(OfAgent(R, AgentOf[t])) >= HardCap[AgentOf[t]]),
               ~(Cardinality(OfBoth(R, t)) >= EffectiveLevel(t)),
               ~(\E u \in OfProject(R, ProjectOf[t]) : <<t, u>> \in Overlaps),
               ~(ProjectLimit[ProjectOf[t]] # 0
                      /\ Cardinality(OfProject(R, ProjectOf[t])) >= ProjectLimit[ProjectOf[t]])
        PROVE  WithinLimits(New)
    <2>1. GlobalLimit # 0 => Cardinality(New) <= GlobalLimit
      BY <1>3, <1>5, <1>7
    <2>2. \A a \in Agents : Cardinality(OfAgent(New, a)) <= HardCap[a]
      <3>1. Cardinality(OfAgent(New, AgentOf[t])) <= HardCap[AgentOf[t]]
        BY <1>3, <1>5, <1>7
      <3>2. ASSUME NEW a \in Agents, a # AgentOf[t]
            PROVE  Cardinality(OfAgent(New, a)) <= HardCap[a]
        BY <1>4, <3>2 DEF WithinLimits
      <3>3. QED
        BY <3>1, <3>2
    <2>3. \A u \in New : Cardinality(OfBoth(New, u)) <= EffectiveLevel(u)
      <3>1. Cardinality(OfBoth(New, t)) <= EffectiveLevel(t)
        BY <1>3, <1>5, <1>7
      <3>2. ASSUME NEW u \in R, AgentOf[u] = AgentOf[t], ProjectOf[u] = ProjectOf[t]
            PROVE  Cardinality(OfBoth(New, u)) <= EffectiveLevel(u)
        <4>1. OfBoth(New, u) = OfBoth(New, t) /\ EffectiveLevel(u) = EffectiveLevel(t)
          BY <1>4, <3>2, Levels
        <4>2. QED
          BY <3>1, <4>1
      <3>3. ASSUME NEW u \in R, AgentOf[u] # AgentOf[t] \/ ProjectOf[u] # ProjectOf[t]
            PROVE  Cardinality(OfBoth(New, u)) <= EffectiveLevel(u)
        BY <1>4, <3>3 DEF WithinLimits
      <3>4. QED
        BY <3>1, <3>2, <3>3
    <2>4. \A u \in New : ProjectLimit[ProjectOf[u]] # 0 =>
                Cardinality(OfProject(New, ProjectOf[u])) <= ProjectLimit[ProjectOf[u]]
      <3>1. ASSUME NEW u \in New, ProjectOf[u] = ProjectOf[t], ProjectLimit[ProjectOf[u]] # 0
            PROVE  Cardinality(OfProject(New, ProjectOf[u])) <= ProjectLimit[ProjectOf[u]]
        BY <1>3, <1>5, <1>7, <3>1
      <3>2. ASSUME NEW u \in R, ProjectOf[u] # ProjectOf[t], ProjectLimit[ProjectOf[u]] # 0
            PROVE  Cardinality(OfProject(New, ProjectOf[u])) <= ProjectLimit[ProjectOf[u]]
        BY <1>4, <3>2 DEF WithinLimits
      <3>3. QED
        BY <3>1, <3>2
    <2>5. \A u \in New : \A v \in New \ {u} : ProjectOf[v] = ProjectOf[u] => <<u, v>> \notin Overlaps
      <3>1. \A v \in R : ProjectOf[v] = ProjectOf[t] => <<t, v>> \notin Overlaps
        BY <1>7
      <3>2. \A u \in R : ProjectOf[u] = ProjectOf[t] => <<u, t>> \notin Overlaps
        BY <3>1, AdmissionAssumption
      <3>3. \A u \in R : \A v \in R \ {u} : ProjectOf[v] = ProjectOf[u] => <<u, v>> \notin Overlaps
        BY DEF WithinLimits
      <3>4. QED
        BY <3>1, <3>2, <3>3
    <2>6. QED
      BY <2>1, <2>2, <2>3, <2>4, <2>5 DEF WithinLimits
  <1>8. QED
    BY <1>1, <1>6, <1>7 DEF Full

------------------------------------------------------------------------------
(* The gate. *)

\* Every variable keeps its type, whatever starts, ends, pauses and days come.
THEOREM Typing == Spec => []TypeOK
  <1> USE DEF TypeOK
  <1>1. ASSUME Init PROVE TypeOK
    <2>1. 0 \in 0..MaxDay
      BY BoundsAssumption
    <2>2. startedOn \in [Projects -> [0..MaxDay -> Nat]]
      BY <1>1 DEF Init
    <2>3. usage \in [Projects -> [date : Nat, sessions : Nat]]
      BY <1>1 DEF Init
    <2>4. QED
      BY <1>1, <2>1, <2>2, <2>3 DEF Init
  <1>2. TypeOK /\ [Next]_vars => TypeOK'
    <2> SUFFICES ASSUME TypeOK, [Next]_vars PROVE TypeOK'
      OBVIOUS
    <2>1. ASSUME NEW t \in Tasks, Start(t) PROVE TypeOK'
      <3>1. ProjectOf[t] \in Projects /\ SessionsToday(ProjectOf[t]) + 1 \in Nat
        BY DEF Projects, SessionsToday
      <3>2. usage' \in [Projects -> [date : Nat, sessions : Nat]]
        BY <2>1, <3>1 DEF Start
      <3>3. startedOn' \in [Projects -> [0..MaxDay -> Nat]]
        <4>1. startedOn[ProjectOf[t]] \in [0..MaxDay -> Nat] /\ today \in 0..MaxDay
          BY <3>1
        <4>2. [startedOn[ProjectOf[t]] EXCEPT ![today] = @ + 1] \in [0..MaxDay -> Nat]
          <5> DEFINE f == startedOn[ProjectOf[t]]
          <5>1. f \in [0..MaxDay -> Nat] /\ today \in 0..MaxDay
            BY <4>1
          <5> HIDE DEF f
          <5>2. f[today] \in Nat
            BY <5>1
          <5>3. [f EXCEPT ![today] = f[today] + 1] \in [0..MaxDay -> Nat]
            BY <5>1, <5>2
          <5>4. QED
            BY <5>3 DEF f
        <4>3. startedOn' = [startedOn EXCEPT ![ProjectOf[t]] =
                                [startedOn[ProjectOf[t]] EXCEPT ![today] = @ + 1]]
          BY <2>1 DEF Start
        <4>4. QED
          BY <4>2, <4>3
      <3>4. QED
        BY <2>1, <3>2, <3>3 DEF Start
    <2>2. ASSUME NEW t \in Tasks, Finish(t) PROVE TypeOK'
      BY <2>2 DEF Finish
    <2>3. ASSUME NEW on \in BOOLEAN, PauseAll(on) PROVE TypeOK'
      BY <2>3 DEF PauseAll
    <2>4. ASSUME NEW on \in BOOLEAN, NEW p \in Projects, PauseProject(p, on) PROVE TypeOK'
      BY <2>4 DEF PauseProject
    <2>5. CASE Midnight
      BY <2>5, BoundsAssumption DEF Midnight
    <2>6. CASE UNCHANGED vars
      BY <2>6 DEF vars
    <2>7. QED
      BY <2>1, <2>2, <2>3, <2>4, <2>5, <2>6 DEF Next
  <1>3. QED
    BY <1>1, <1>2, PTL DEF Spec

\* A set within the limits stays within them when tasks leave it.
LEMMA LimitsOfFewer ==
    ASSUME NEW S \in SUBSET Tasks, NEW R \in SUBSET S, WithinLimits(S)
    PROVE  WithinLimits(R)
  <1>1. GlobalLimit # 0 => Cardinality(R) <= GlobalLimit
    BY Fewer, AdmissionAssumption DEF WithinLimits
  <1>2. ASSUME NEW a \in Agents
        PROVE  Cardinality({u \in R : AgentOf[u] = a}) <= HardCap[a]
    <2> DEFINE Before == {u \in S : AgentOf[u] = a}
               After == {u \in R : AgentOf[u] = a}
    <2>1. Before \in SUBSET Tasks /\ After \in SUBSET Before /\ Cardinality(Before) <= HardCap[a]
      BY DEF WithinLimits
    <2>2. HardCap[a] \in Nat
      BY AdmissionAssumption
    <2> HIDE DEF Before, After
    <2>3. Cardinality(After) <= HardCap[a]
      BY <2>1, <2>2, Fewer
    <2>4. QED
      BY <2>3 DEF After
  <1>3. ASSUME NEW t \in R
        PROVE  Cardinality({u \in R : AgentOf[u] = AgentOf[t] /\ ProjectOf[u] = ProjectOf[t]})
                 <= EffectiveLevel(t)
    <2> DEFINE Before == {u \in S : AgentOf[u] = AgentOf[t] /\ ProjectOf[u] = ProjectOf[t]}
               After == {u \in R : AgentOf[u] = AgentOf[t] /\ ProjectOf[u] = ProjectOf[t]}
    <2>1. /\ Before \in SUBSET Tasks /\ After \in SUBSET Before
          /\ Cardinality(Before) <= EffectiveLevel(t)
      BY DEF WithinLimits
    <2>2. EffectiveLevel(t) \in Nat
      BY Levels
    <2> HIDE DEF Before, After
    <2>3. Cardinality(After) <= EffectiveLevel(t)
      BY <2>1, <2>2, Fewer
    <2>4. QED
      BY <2>3 DEF After
  <1>4. ASSUME NEW t \in R, ProjectLimit[ProjectOf[t]] # 0
        PROVE  Cardinality({u \in R : ProjectOf[u] = ProjectOf[t]}) <= ProjectLimit[ProjectOf[t]]
    <2> DEFINE Before == {u \in S : ProjectOf[u] = ProjectOf[t]}
               After == {u \in R : ProjectOf[u] = ProjectOf[t]}
    <2>1. /\ Before \in SUBSET Tasks /\ After \in SUBSET Before
          /\ Cardinality(Before) <= ProjectLimit[ProjectOf[t]]
      BY <1>4 DEF WithinLimits
    <2>2. ProjectLimit[ProjectOf[t]] \in Nat
      BY Levels
    <2> HIDE DEF Before, After
    <2>3. Cardinality(After) <= ProjectLimit[ProjectOf[t]]
      BY <2>1, <2>2, Fewer
    <2>4. QED
      BY <2>3 DEF After
  <1>5. \A t \in R : \A u \in R \ {t} : ProjectOf[u] = ProjectOf[t] => <<t, u>> \notin Overlaps
    BY DEF WithinLimits
  <1>6. QED
    BY <1>1, <1>2, <1>3, <1>4, <1>5 DEF WithinLimits

\* No limit is ever broken by the tasks that run together.
THEOREM LimitsHold == Spec => []RunningWithinLimits
  <1>1. Init => RunningWithinLimits
    <2>1. \A S : (\A x : x \notin S) => Cardinality(S) = 0
      BY FS_EmptySet
    <2>2. ASSUME Init PROVE RunningWithinLimits
      <3>1. running = {}
        BY <2>2 DEF Init
      <3>2. \A a \in Agents : Cardinality({u \in {} : AgentOf[u] = a}) = 0
        BY <2>1
      <3>3. Cardinality({}) = 0
        BY <2>1
      <3>4. QED
        BY <3>1, <3>2, <3>3, AdmissionAssumption DEF RunningWithinLimits, WithinLimits
    <2>3. QED
      BY <2>2
  <1>2. TypeOK /\ RunningWithinLimits /\ [Next]_vars => RunningWithinLimits'
    <2> SUFFICES ASSUME TypeOK, RunningWithinLimits, [Next]_vars PROVE RunningWithinLimits'
      OBVIOUS
    <2> USE DEF RunningWithinLimits
    <2>1. running \in SUBSET Tasks
      BY DEF TypeOK
    <2>2. ASSUME NEW t \in Tasks, Start(t) PROVE RunningWithinLimits'
      <3>1. t \notin running /\ Admitted(t, Context) /\ running' = running \cup {t}
        BY <2>2 DEF Start
      <3>2. Context.running = running
        BY DEF Context
      <3>3. WithinLimits(running \cup {t})
        BY <2>1, <3>1, <3>2, NoCheckRefuses, RoomForOneMore
      <3>4. QED
        BY <3>1, <3>3 DEF WithinLimits
    <2>3. ASSUME running' \in SUBSET running PROVE RunningWithinLimits'
      <3>1. WithinLimits(running')
        BY <2>1, <2>3, LimitsOfFewer
      <3>2. QED
        BY <3>1 DEF WithinLimits
    <2>4. ASSUME NEW t \in Tasks, Finish(t) PROVE RunningWithinLimits'
      BY <2>3, <2>4 DEF Finish
    <2>5. ASSUME NEW on \in BOOLEAN, PauseAll(on) PROVE RunningWithinLimits'
      BY <2>3, <2>5 DEF PauseAll
    <2>6. ASSUME NEW on \in BOOLEAN, NEW p \in Projects, PauseProject(p, on)
          PROVE  RunningWithinLimits'
      BY <2>3, <2>6 DEF PauseProject
    <2>7. CASE Midnight
      BY <2>3, <2>7 DEF Midnight
    <2>8. CASE UNCHANGED vars
      BY <2>3, <2>8 DEF vars
    <2>9. QED
      BY <2>2, <2>4, <2>5, <2>6, <2>7, <2>8 DEF Next
  <1>3. QED
    BY <1>1, <1>2, Typing, PTL DEF Spec

\* Admission asks for no more than the limits: a start is refused only for a pause, for
\* its day, or because a limit would break with it running.
THEOREM AdmissionIsExact == Spec => []AdmitsExactlyWhatFits
  <1>1. TypeOK /\ RunningWithinLimits => AdmitsExactlyWhatFits
    <2> SUFFICES ASSUME TypeOK, RunningWithinLimits, NEW t \in Tasks \ running
                 PROVE  Admitted(t, Context) <=>
                          /\ ~allPaused /\ ProjectOf[t] \notin paused
                          /\ \/ DailyCap[ProjectOf[t]] = 0
                             \/ SessionsToday(ProjectOf[t]) < DailyCap[ProjectOf[t]]
                          /\ WithinLimits(running \cup {t})
      BY DEF AdmitsExactlyWhatFits
    <2>1. ProjectOf[t] \in Projects
      BY DEF Projects
    <2>2. /\ Context.running = running /\ Context.allPaused = allPaused /\ Context.paused = paused
          /\ Context.startedToday[ProjectOf[t]] = SessionsToday(ProjectOf[t])
      BY <2>1 DEF Context
    <2>3. SessionsToday(ProjectOf[t]) \in Nat /\ DailyCap[ProjectOf[t]] \in Nat
      BY <2>1, AdmissionAssumption DEF TypeOK, SessionsToday
    <2>4. ~(/\ DailyCap[ProjectOf[t]] # 0
            /\ Context.startedToday[ProjectOf[t]] >= DailyCap[ProjectOf[t]])
          <=> \/ DailyCap[ProjectOf[t]] = 0
              \/ SessionsToday(ProjectOf[t]) < DailyCap[ProjectOf[t]]
      BY <2>2, <2>3
    <2>5. running \in SUBSET Tasks /\ t \in Tasks /\ t \notin running /\ WithinLimits(running)
      BY DEF TypeOK, RunningWithinLimits
    <2>6. QED
      BY <2>2, <2>4, <2>5, NoCheckRefuses, RoomForOneMore
  <1>2. QED
    BY <1>1, Typing, LimitsHold, PTL

\* A refusal for a global reason is a refusal of every start that waits, so that a drain
\* which stops at it strands nobody who could have gone.
THEOREM GlobalRefusals == Spec => []GlobalRefusalBlocksEveryStart
  <1>1. GlobalRefusalBlocksEveryStart
    <2> SUFFICES ASSUME NEW t \in Tasks \ running, NEW u \in Tasks \ running,
                        AdmissionReason(t, Context) \in GlobalReasons
                 PROVE  ~Admitted(u, Context)
      BY DEF GlobalRefusalBlocksEveryStart
    <2>1. AdmissionReason(t, Context) # "admitted"
      BY DEF GlobalReasons
    <2>2. PICK i \in 1..8 : /\ AdmissionReason(t, Context) = Checks[i]
                            /\ Refuses(Checks[i], t, Context)
      BY <2>1, Decision DEF Admitted
    <2>3. Context.running = running /\ Others(t, running) = running /\ Others(u, running) = running
      BY DEF Context, Others
    <2>4. CASE AdmissionReason(t, Context) = "global_pause"
      BY <2>2, <2>4, NoCheckRefuses DEF Refuses
    <2>5. CASE AdmissionReason(t, Context) = "global_limit"
      BY <2>2, <2>3, <2>5, NoCheckRefuses DEF Refuses
    <2>6. QED
      BY <2>4, <2>5 DEF GlobalReasons
  <1>2. QED
    BY <1>1, PTL

------------------------------------------------------------------------------
(* The day. *)

\* What the dated row of a project says of the days: no day to come has a start, the
\* row is not dated ahead, it counts the starts of its own day, and no day has passed
\* its cap.
DaysFence ==
    \A p \in Projects :
        /\ usage[p].date <= today
        /\ usage[p].sessions = startedOn[p][usage[p].date]
        /\ \A d \in 0..MaxDay : d > usage[p].date => startedOn[p][d] = 0
        /\ \A d \in 0..MaxDay : DailyCap[p] # 0 => startedOn[p][d] <= DailyCap[p]

\* A project never starts more on one day than its cap, with nothing run at midnight to
\* reset the counter.
THEOREM DailyCaps == Spec => []DailyCapHolds
  <1>1. Init => DaysFence
    BY AdmissionAssumption, BoundsAssumption DEF Init, DaysFence
  <1>2. TypeOK /\ DaysFence /\ [Next]_vars => DaysFence'
    <2> SUFFICES ASSUME TypeOK, DaysFence, [Next]_vars PROVE DaysFence'
      OBVIOUS
    <2>1. \A p \in Projects : /\ usage[p] \in [date : Nat, sessions : Nat]
                               /\ startedOn[p] \in [0..MaxDay -> Nat]
                               /\ DailyCap[p] \in Nat
      BY AdmissionAssumption DEF TypeOK
    <2>2. today \in 0..MaxDay /\ today \in Nat
      BY BoundsAssumption DEF TypeOK
    <2>3. ASSUME NEW t \in Tasks, Start(t) PROVE DaysFence'
      <3> DEFINE q == ProjectOf[t]
      <3>1. q \in Projects
        BY DEF Projects
      <3>2. startedOn[q][today] = SessionsToday(q)
        BY <2>1, <2>2, <3>1 DEF DaysFence, SessionsToday
      <3>3. Context.startedToday[q] = SessionsToday(q)
        BY <3>1 DEF Context
      <3>4. DailyCap[q] # 0 => SessionsToday(q) + 1 <= DailyCap[q]
        <4>1. ~(DailyCap[q] # 0 /\ SessionsToday(q) >= DailyCap[q])
          BY <2>3, <3>3, NoCheckRefuses DEF Start
        <4>2. SessionsToday(q) \in Nat
          BY <2>1, <3>1 DEF SessionsToday
        <4>3. QED
          BY <2>1, <3>1, <4>1, <4>2
      <3>5. /\ usage'[q].date = today /\ usage'[q].sessions = SessionsToday(q) + 1
            /\ startedOn'[q][today] = SessionsToday(q) + 1
            /\ \A d \in 0..MaxDay : d # today => startedOn'[q][d] = startedOn[q][d]
        BY <2>1, <2>2, <2>3, <3>1, <3>2 DEF Start, TypeOK
      <3>6. \A p \in Projects : p # q => usage'[p] = usage[p] /\ startedOn'[p] = startedOn[p]
        BY <2>3 DEF Start, TypeOK
      <3>7. today' = today
        BY <2>3 DEF Start
      <3> HIDE DEF q
      <3>8. ASSUME NEW p \in Projects, p # q
            PROVE  /\ usage'[p].date <= today'
                   /\ usage'[p].sessions = startedOn'[p][usage'[p].date]
                   /\ \A d \in 0..MaxDay : d > usage'[p].date => startedOn'[p][d] = 0
                   /\ \A d \in 0..MaxDay : DailyCap[p] # 0 => startedOn'[p][d] <= DailyCap[p]
        BY <3>6, <3>7, <3>8 DEF DaysFence
      <3>9. /\ usage'[q].date <= today'
            /\ usage'[q].sessions = startedOn'[q][usage'[q].date]
            /\ \A d \in 0..MaxDay : d > usage'[q].date => startedOn'[q][d] = 0
            /\ \A d \in 0..MaxDay : DailyCap[q] # 0 => startedOn'[q][d] <= DailyCap[q]
        <4>1. \A d \in 0..MaxDay : d > today => startedOn'[q][d] = 0
          BY <2>1, <2>2, <3>1, <3>5 DEF DaysFence
        <4>2. \A d \in 0..MaxDay : DailyCap[q] # 0 => startedOn'[q][d] <= DailyCap[q]
          BY <3>1, <3>4, <3>5 DEF DaysFence
        <4>3. QED
          BY <2>2, <3>5, <3>7, <4>1, <4>2
      <3>10. QED
        BY <3>8, <3>9 DEF DaysFence
    <2>4. ASSUME UNCHANGED <<usage, startedOn>>, today' \in Nat, today' >= today PROVE DaysFence'
      BY <2>1, <2>2, <2>4 DEF DaysFence
    <2>5. ASSUME NEW t \in Tasks, Finish(t) PROVE DaysFence'
      BY <2>2, <2>4, <2>5 DEF Finish
    <2>6. ASSUME NEW on \in BOOLEAN, PauseAll(on) PROVE DaysFence'
      BY <2>2, <2>4, <2>6 DEF PauseAll
    <2>7. ASSUME NEW on \in BOOLEAN, NEW p \in Projects, PauseProject(p, on) PROVE DaysFence'
      BY <2>2, <2>4, <2>7 DEF PauseProject
    <2>8. CASE Midnight
      BY <2>2, <2>4, <2>8 DEF Midnight
    <2>9. CASE UNCHANGED vars
      BY <2>2, <2>4, <2>9 DEF vars
    <2>10. QED
      BY <2>3, <2>5, <2>6, <2>7, <2>8, <2>9 DEF Next
  <1>3. DaysFence => DailyCapHolds
    BY DEF DaysFence, DailyCapHolds
  <1>4. QED
    BY <1>1, <1>2, <1>3, Typing, PTL DEF Spec
==============================================================================
