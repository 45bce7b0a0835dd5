---------------------------- MODULE AdmissionGate ----------------------------
(***************************************************************************)
(* The admission gate by itself: starts pass checkAdmission one at a time, *)
(* sessions end, projects are paused, days change.  It is what the start   *)
(* paths (AgentStarts) promise of slots, with everything that can go wrong *)
(* between the decision and the running session left out, and the home of  *)
(* the daily counter (src/main/project-limits.ts), whose row is dated and  *)
(* read as zero on any other day: nothing runs at midnight.                *)
(***************************************************************************)
EXTENDS Admission

CONSTANTS MaxDay, MaxStartsPerDay    \* bounds of the checked instances

ASSUME BoundsAssumption == MaxDay \in Nat /\ MaxStartsPerDay \in Nat

VARIABLES
    running,      \* the tasks that hold a slot
    allPaused,    \* all_projects_paused
    paused,       \* the projects whose settings say paused
    usage,        \* project_daily_usage: project -> [date, sessions]
    today,        \* the local calendar day
    startedOn     \* history: project -> day -> the starts admitted that day

vars == <<running, allPaused, paused, usage, today, startedOn>>

\* getProjectDailyUsage: a row of another day reads as no session.
SessionsFromTomorrow(p) == IF usage[p].date < today THEN usage[p].sessions ELSE 0  \* slip
SessionsToday(p) == IF usage[p].date = today THEN usage[p].sessions ELSE 0

Context == [running |-> running, allPaused |-> allPaused, paused |-> paused,
            startedToday |-> [p \in Projects |-> SessionsToday(p)]]

TypeOK ==
    /\ running \subseteq Tasks
    /\ allPaused \in BOOLEAN
    /\ paused \subseteq Projects
    /\ usage \in [Projects -> [date : Nat, sessions : Nat]]
    /\ today \in 0..MaxDay
    /\ startedOn \in [Projects -> [0..MaxDay -> Nat]]

Init ==
    /\ running = {}
    /\ allPaused = FALSE
    /\ paused = {}
    /\ usage = [p \in Projects |-> [date |-> 0, sessions |-> 0]]
    /\ today = 0
    /\ startedOn = [p \in Projects |-> [d \in 0..MaxDay |-> 0]]

\* A start is admitted, counted against its project's day (recordCountedStart)
\* and given its slot, with no yield in between.
Start(t) ==
    LET p == ProjectOf[t]
    IN /\ t \notin running
       /\ SessionsToday(p) < MaxStartsPerDay
       /\ Admitted(t, Context)
       /\ running' = running \cup {t}
       /\ usage' = [usage EXCEPT ![p] = [date |-> today, sessions |-> SessionsToday(p) + 1]]
       /\ startedOn' = [startedOn EXCEPT ![p][today] = @ + 1]
       /\ UNCHANGED <<allPaused, paused, today>>

\* A turn ends or its session is stopped.
FinishGivesBack(t) ==                                                            \* slip
    /\ t \in running
    /\ running' = running \ {t}
    /\ usage' = [usage EXCEPT ![ProjectOf[t]].sessions = @ - 1]
    /\ UNCHANGED <<allPaused, paused, today, startedOn>>
Finish(t) ==
    /\ t \in running
    /\ running' = running \ {t}
    /\ UNCHANGED <<allPaused, paused, usage, today, startedOn>>

\* pauseAllProjects: running sessions are left alone.
PauseAll(on) ==
    /\ allPaused # on
    /\ allPaused' = on
    /\ UNCHANGED <<running, paused, usage, today, startedOn>>

\* A project's settings are saved with paused on or off.
PauseProject(p, on) ==
    /\ (p \in paused) # on
    /\ paused' = IF on THEN paused \cup {p} ELSE paused \ {p}
    /\ UNCHANGED <<running, allPaused, usage, today, startedOn>>

Midnight ==
    /\ today < MaxDay
    /\ today' = today + 1
    /\ UNCHANGED <<running, allPaused, paused, usage, startedOn>>

Next ==
    \/ \E t \in Tasks : Start(t) \/ Finish(t)
    \/ \E on \in BOOLEAN : PauseAll(on) \/ \E p \in Projects : PauseProject(p, on)
    \/ Midnight

Spec == Init /\ [][Next]_vars

------------------------------------------------------------------------------
(* What the gate promises. *)

\* The limits hold of the running tasks together, although each start is only
\* compared with the tasks running when it asks (checkAdmission).
RunningWithinLimits == WithinLimits(running)

\* The eight checks admit exactly the starts that fit: neither one that would
\* break a limit, nor a refusal of one that breaks none (checkAdmission).
AdmitsExactlyWhatFits ==
    \A t \in Tasks \ running :
        Admitted(t, Context) <=>
            /\ ~allPaused /\ ProjectOf[t] \notin paused
            /\ DailyCap[ProjectOf[t]] = 0 \/ SessionsToday(ProjectOf[t]) < DailyCap[ProjectOf[t]]
            /\ WithinLimits(running \cup {t})

\* A drain stops at the first start refused for a global reason
\* (isGlobalAdmissionReason): no other waiting start could have been admitted.
GlobalRefusalBlocksEveryStart ==
    \A t, u \in Tasks \ running :
        AdmissionReason(t, Context) \in GlobalReasons => ~Admitted(u, Context)

\* A project starts at most its daily cap of sessions on any day, whatever ends,
\* pauses or day changes happen between them (recordProjectSessionStart).
DailyCapHolds ==
    \A p \in Projects, d \in 0..MaxDay : DailyCap[p] # 0 => startedOn[p][d] <= DailyCap[p]

==============================================================================
