---------------------------- MODULE CaptainHandoff ----------------------------
(***************************************************************************)
(* The planned rollover of a Captain's session to a new native one: the    *)
(* durable state machine of src/main/sessions/handoff.ts, the conditions   *)
(* of src/main/sessions/captain-rollover.ts, and the creation and binding  *)
(* of the replacement in agent-manager-core.ts.  Each action runs from one *)
(* await of the code to the next.                                          *)
(*                                                                         *)
(* A handoff is known by the session it replaces.  What the summary says,  *)
(* the memory it is written to and the seed are left out.                  *)
(***************************************************************************)
EXTENDS CaptainRuntime

VARIABLES policy,    \* sessions.rollover is on
          handoff,   \* session_handoffs, by the session replaced
          roll,      \* the rollover in progress
          calls      \* the starts in progress: CaptainStarts

rollVars == <<policy, handoff, roll>>
aside == <<policy, calls>>

Unstarted == [state |-> "none", target |-> None]
NoRoll == [pc |-> "idle", key |-> None, source |-> None, agent |-> NoAgent, base |-> None,
           seen |-> 0, byStart |-> FALSE, aborted |-> FALSE]

Created == {"creating", "created", "creation_unconfirmed"}
HandoffStates == {"none", "pending", "summary", "memory", "completed"} \cup Created

Latest(S) == IF S = {} THEN None ELSE Max(S)
Incomplete == Latest({s \in Sessions : handoff[s].state \notin {"none", "completed"}})
PendingCreation == Latest({s \in Sessions : handoff[s].state \in Created})

At(pc) == roll.pc = pc
Go(pc) == roll' = [roll EXCEPT !.pc = pc]
Record(state) == handoff' = [handoff EXCEPT ![roll.key].state = state]

\* stopSession of another session joins the stop of the task in flight, if there is one.
Stops(s) ==
    IF At("stopping") THEN UNCHANGED <<live, busy>>
    ELSE live' = Without(s) /\ busy' = busy \ {s}

\* mayContinue: of the idle session being replaced, or of a start that found the handoff.
Safe ==
    IF roll.byStart THEN bound \in {roll.base, handoff[roll.key].target}
    ELSE /\ IsLive(roll.source) /\ roll.source \notin busy
         /\ bound = roll.source /\ selected = roll.agent

\* The rollover goes on past its next guard.
Holds == ~roll.aborted /\ Safe

\* It ends: the start that waits for it reads the outcome, nobody else does.
End(outcome) == roll' = IF roll.byStart THEN [roll EXCEPT !.pc = outcome] ELSE NoRoll

----
(* HandoffEngine.run *)

\* A limit is reached, or a handoff was left behind, as the turn of a session ends.
MayRollOver(s) == policy /\ At("idle") /\ bound = s /\ selected = AgentOf(s)

Considered(s) ==
    [NoRoll EXCEPT !.pc = "begin", !.source = s, !.agent = AgentOf(s), !.base = bound,
                   !.key = IF Incomplete # None THEN Incomplete ELSE s]

\* The backend was asked whether the session is idle; then the row is read or made.
BeginHandoff ==
    /\ At("begin")
    /\ IF ~Holds THEN End("left") /\ UNCHANGED handoff
       ELSE LET state == handoff[roll.key].state IN
            CASE state \in {"completed", "creation_unconfirmed"} ->
                    End("left") /\ UNCHANGED handoff
              [] state = "creating" -> End("left") /\ Record("creation_unconfirmed")
              [] state = "created" -> Go("bind") /\ UNCHANGED handoff
              [] state \in {"summary", "memory"} -> Go(state) /\ UNCHANGED handoff
              [] OTHER -> Go("pending") /\ Record("pending")
    /\ UNCHANGED <<runtimeVars, aside>>

\* The model answered, or the fallback was taken.
SaveSummary ==
    /\ At("pending")
    /\ IF Holds THEN Go("summary") /\ Record("summary") ELSE End("left") /\ UNCHANGED handoff
    /\ UNCHANGED <<runtimeVars, aside>>

WriteMemory ==
    /\ At("summary")
    /\ IF Holds THEN Go("memory") /\ Record("memory") ELSE End("left") /\ UNCHANGED handoff
    /\ UNCHANGED <<runtimeVars, aside>>

AnnouncedTooLate ==                                                         \* slip
    /\ At("memory")
    /\ IF Holds THEN Go("asking") ELSE End("left")
    /\ UNCHANGED <<runtimeVars, aside, handoff>>

\* The row says that a session is about to be created before the backend is asked.
AnnounceCreation ==
    /\ At("memory")
    /\ IF Holds THEN Go("asking") /\ Record("creating") ELSE End("left") /\ UNCHANGED handoff
    /\ UNCHANGED <<runtimeVars, aside>>

\* The backend is asked to create it, unless the session turns out to be at work.  A start
\* may only go on with what is created already: it throws, which counts as unconfirmed.
AskForCreation ==
    /\ At("asking")
    /\ IF roll.byStart /\ ~roll.aborted
       THEN End("left") /\ Record("creation_unconfirmed")
       ELSE ((Holds /\ Go("creating")) \/ End("left")) /\ UNCHANGED handoff
    /\ UNCHANGED <<runtimeVars, aside>>

\* The backend cannot say whether it is: the creation, never asked for, is unconfirmed.
NobodyToAsk ==
    /\ At("asking") /\ ~roll.aborted /\ Spend("faults")
    /\ End("left") /\ Record("creation_unconfirmed")
    /\ UNCHANGED <<selected, bound, keyed, row, made, live, busy, aside>>

\* The backend answers: its session is saved even when the rollover was cancelled.
CreationAnswered ==
    /\ At("creating")
    /\ Makes(roll.agent, roll.key)
    /\ handoff' = [handoff EXCEPT ![roll.key] = [state |-> "created", target |-> Fresh]]
    /\ IF Holds THEN Go("bind") ELSE End("left")
    /\ UNCHANGED <<selected, bound, keyed, row, live, busy, left, aside>>

\* The call failed, before or after the backend made a session.
CreationFailed ==
    /\ At("creating") /\ Spend("faults")
    /\ Makes(roll.agent, roll.key) \/ UNCHANGED made
    /\ IF roll.aborted THEN UNCHANGED handoff ELSE Record("creation_unconfirmed")
    /\ End("left")
    /\ UNCHANGED <<selected, bound, keyed, row, live, busy, aside>>

----
(* bindCaptainRollover *)

Target == handoff[roll.key].target

\* The last look at mayContinue; from here on only a cancellation is looked at.
ResumeTarget ==
    /\ At("bind")
    /\ IF Holds /\ (IsLive(Target) => AgentOf(Target) = roll.agent) THEN Go("resume")
       ELSE End("left")
    /\ UNCHANGED <<runtimeVars, aside, handoff>>

\* The replacement came back and is asked for its status.
VerifyTarget ==
    /\ At("resume")
    /\ IF roll.aborted THEN End("left") /\ UNCHANGED row
       ELSE /\ row' = Fenced(row.generation, Verifying(Target))
            /\ roll' = [roll EXCEPT !.pc = "verify", !.seen = row.generation]
    /\ UNCHANGED <<selected, bound, keyed, made, live, busy, left, aside, handoff>>

\* It cannot be resumed, or is not idle; the handoff keeps its session.
TargetNotReady ==
    /\ At("verify") /\ Spend("faults")
    /\ row' \in {row, Fenced(roll.seen, Unready)}
    /\ End("left")
    /\ UNCHANGED <<selected, bound, keyed, made, live, busy, aside, handoff>>

\* It is idle: the session it replaces is taken out of the map and stopped.
StopSource ==
    /\ At("verify")
    /\ row' = Fenced(roll.seen, Verifying(Target))
    /\ IF roll.aborted THEN End("left") /\ UNCHANGED <<live, busy>>
       ELSE IF roll.source = Target \/ ~IsLive(roll.source)
            THEN Go("stopped") /\ UNCHANGED <<live, busy>>
            ELSE /\ Go("stopping")
                 /\ live' = Without(roll.source) /\ busy' = busy \ {roll.source}
    /\ UNCHANGED <<selected, bound, keyed, made, left, aside, handoff>>

RefusalIgnored ==                                                           \* slip
    /\ At("stopping") /\ Spend("faults")
    /\ live' = With(roll.source) /\ Go("stopped")
    /\ UNCHANGED <<selected, bound, keyed, row, made, busy, aside, handoff>>

\* The backend does not acknowledge the stop: the session is back in the map.
SourceRefuses ==
    /\ At("stopping") /\ Spend("faults")
    /\ live' = With(roll.source)
    /\ End("left")
    /\ UNCHANGED <<selected, bound, keyed, row, made, busy, aside, handoff>>

\* The replacement is bound in one transaction and goes live; whatever start the row is
\* of, it says healthy.
BindTarget ==
    /\ roll.pc \in {"stopping", "stopped"}
    /\ IF roll.aborted THEN End("left") /\ UNCHANGED <<bound, keyed, live, row>>
       ELSE /\ bound' = Target /\ keyed' = roll.agent
            /\ live' = With(Target)
            /\ row' = Verified(Target, row.agent)
            /\ Go("divide")
    /\ UNCHANGED <<selected, made, busy, left, aside, handoff>>

\* The divider is in the transcript.
CompleteHandoff ==
    /\ At("divide")
    /\ IF roll.aborted THEN End("left") /\ UNCHANGED handoff
       ELSE End("done") /\ Record("completed")
    /\ UNCHANGED <<runtimeVars, aside>>

DividerLost ==
    /\ At("divide") /\ Spend("faults")
    /\ End("left")
    /\ UNCHANGED <<selected, bound, keyed, row, made, live, busy, aside, handoff>>

\* A stop, an interruption or a message of the Captain's task cancels its rollover.
Cancelled == IF At("idle") THEN roll ELSE [roll EXCEPT !.aborted = TRUE]

CancelRollover ==
    /\ ~At("idle") /\ ~roll.aborted
    /\ Spend("cancels")
    /\ roll' = Cancelled
    /\ UNCHANGED <<selected, bound, keyed, row, made, live, busy, aside, handoff>>

RollSteps ==
    \/ BeginHandoff \/ SaveSummary \/ WriteMemory \/ AnnounceCreation
    \/ AskForCreation \/ NobodyToAsk \/ CreationAnswered \/ CreationFailed
    \/ ResumeTarget \/ VerifyTarget \/ TargetNotReady \/ StopSource \/ SourceRefuses
    \/ BindTarget \/ CompleteHandoff \/ DividerLost \/ CancelRollover

=============================================================================
