---------------------------- MODULE CaptainStarts ----------------------------
(***************************************************************************)
(* The starts of a Captain and the switches of its agent                   *)
(* (src/main/agent-manager-core.ts): requestSession and startSessionNow    *)
(* for a coordinator task, switchCaptainAgent and rollbackCaptainSwitch,   *)
(* with their deadlines.                                                   *)
(*                                                                         *)
(* A call is one such start in progress.  Its promise may be given up at   *)
(* the deadline (`owed` is then FALSE) while the backend still works on it.*)
(***************************************************************************)
EXTENDS CaptainHandoff

CONSTANT Calls   \* the starts that may be in progress at once

NoCall == [kind |-> "none", pc |-> "none", agent |-> NoAgent, generation |-> 0,
           seen |-> 0, previous |-> NoAgent, old |-> None, was |-> None,
           candidate |-> NoAgent, session |-> None, owed |-> FALSE]

Idle(c) == calls[c].kind = "none"
NoneInFlight == \A c \in Calls : Idle(c)
Rebooting == \E c \in Calls : calls[c].kind = "reboot"
Switching == \E c \in Calls : calls[c].kind = "switch" /\ calls[c].owed
AtPc(c, pc) == calls[c].pc = pc
Proceed(c, pc) == calls' = [calls EXCEPT ![c].pc = pc]
EndCall(c) == calls' = [calls EXCEPT ![c] = NoCall]

\* requestSession waits for a stop of the task in flight, then throws.
NoStop == ~At("stopping")

----
(* How a call ends *)

\* The row after the catch of the call; boot adds its own verdict.
AfterFailure(call, r, phase) ==
    LET g == GivenUp(r, call.generation, phase, call.agent, call.previous)
        reverted == IF call.kind = "switch" /\ r.generation = call.generation
                       /\ call.previous # NoAgent
                    THEN [g EXCEPT !.lastGood = call.previous,
                                   !.session = IF call.old # None THEN call.old ELSE call.was]
                    ELSE g
    IN IF call.kind = "back" \/ (call.kind = "boot" /\ g.generation = call.generation)
       THEN [g EXCEPT !.phase = "failed", !.due = FALSE]
       ELSE reverted

\* The Captain of boot's roll-back is up, and still shown as rolled back.
AfterSuccess(call, r, s) ==
    IF call.kind = "back"
    THEN [r EXCEPT !.phase = "rolled_back", !.due = FALSE, !.session = s,
                   !.agent = call.agent, !.lastGood = call.agent,
                   !.candidate = call.candidate]
    ELSE r

\* A failure nobody waits for any more leaves the row alone.
Fails(c) ==
    /\ EndCall(c)
    /\ row' = IF calls[c].owed THEN AfterFailure(calls[c], row, "failed") ELSE row

ExpireSilently(c) ==                                                        \* slip
    /\ calls[c].owed /\ ~AtPc(c, "check") /\ Spend("expiries")
    /\ calls' = [calls EXCEPT ![c].owed = FALSE]
    /\ UNCHANGED <<selected, bound, keyed, row, made, live, busy, rollVars>>

\* The deadline of the call: its caller is told, the backend goes on.
Expire(c) ==
    /\ calls[c].owed /\ ~AtPc(c, "check") /\ Spend("expiries")
    /\ row' = AfterFailure(calls[c], row, "timed_out")
    /\ calls' = [calls EXCEPT ![c].owed = FALSE]
    /\ UNCHANGED <<selected, bound, keyed, made, live, busy, rollVars>>

----
(* startSessionNow *)

\* dropForeignCoordinatorSession, then the bound session is resumed or a new one made.
Open(c, call) ==
    LET own == keyed \in {NoAgent, call.agent}
    IN /\ bound' = IF own THEN bound ELSE None
       /\ calls' = [calls EXCEPT ![c] =
            IF bound # None /\ own
            THEN [call EXCEPT !.pc = "resume", !.session = bound, !.seen = row'.generation]
            ELSE [call EXCEPT !.pc = "prepare"]]

\* recoverCreatedCaptainHandoff refuses while a creation is unconfirmed.
Recoverable(agent) ==
    handoff[PendingCreation].state = "created" /\ AgentOf(PendingCreation) = agent /\ policy

\* The call's first steps, up to its first wait; r is the row it began with.
Enter(c, call, r) ==
    \/ /\ PendingCreation # None /\ ~Recoverable(call.agent)
       /\ row' = AfterFailure(call, r, "failed")
       /\ EndCall(c)
       /\ UNCHANGED <<bound, keyed, made, live, busy, rollVars>>
    \/ /\ PendingCreation # None /\ Recoverable(call.agent) /\ Current \notin busy
       /\ row' = r
       /\ calls' = [calls EXCEPT ![c] = [call EXCEPT !.pc = "turn", !.was = bound,
            !.session = IF Current # None THEN Current
                        ELSE IF bound # None THEN bound ELSE PendingCreation]]
       /\ UNCHANGED <<bound, keyed, made, live, busy, rollVars>>
    \/ /\ PendingCreation # None => Recoverable(call.agent) /\ Current \in busy
       /\ IF Current = None
          THEN /\ row' = r /\ Open(c, call)
               /\ UNCHANGED <<keyed, made, live, busy, rollVars>>
          ELSE IF AgentOf(Current) = call.agent
          THEN /\ row' = [r EXCEPT !.session = Current]
               /\ calls' = [calls EXCEPT ![c] = [call EXCEPT !.pc = "check",
                               !.session = Current, !.seen = r.generation]]
               /\ UNCHANGED <<bound, keyed, made, live, busy, rollVars>>
          ELSE /\ row' = r
               /\ Stops(Current)
               /\ roll' = Cancelled
               /\ calls' = [calls EXCEPT ![c] = [call EXCEPT !.pc = "release"]]
               /\ UNCHANGED <<bound, keyed, made, policy, handoff>>

Call(kind, agent, r, previous) ==
    [NoCall EXCEPT !.kind = kind, !.agent = agent, !.generation = r.generation,
                   !.previous = previous, !.owed = TRUE]

\* requestSession: someone opens the Captain, messages it or wakes it.
Ask(c) ==
    /\ Idle(c) /\ NoneInFlight /\ NoStop
    /\ ~(Current # None /\ AgentOf(Current) = selected /\ Current \in busy)
    /\ Spend("starts")
    /\ LET r == StartBegun(row, selected)
       IN Enter(c, Call("start", selected, r, r.lastGood), r)
    /\ UNCHANGED selected

\* The foreign session was released.
Released(c) ==
    /\ AtPc(c, "release")
    /\ UNCHANGED row /\ Open(c, calls[c])
    /\ UNCHANGED <<selected, keyed, made, live, busy, left, rollVars>>

\* It is the call's turn to send: it goes on with the handoff, if that is still there.
TakesOver(c) ==
    /\ AtPc(c, "turn") /\ At("idle")
    /\ IF Incomplete = None \/ bound \notin {calls[c].was, handoff[Incomplete].target}
       THEN Fails(c) /\ UNCHANGED roll
       ELSE /\ roll' = [NoRoll EXCEPT
                 !.pc = "begin", !.key = Incomplete, !.byStart = TRUE,
                 !.base = calls[c].was, !.agent = calls[c].agent, !.source = calls[c].session]
            /\ Proceed(c, "recover") /\ UNCHANGED row
    /\ UNCHANGED <<selected, bound, keyed, made, live, busy, left, policy, handoff>>

\* The rollover the call waited for has ended.
Recovered(c) ==
    /\ AtPc(c, "recover") /\ roll.pc \in {"done", "left"}
    /\ roll' = NoRoll
    /\ IF At("left") THEN Fails(c) /\ UNCHANGED <<live, busy>>
       ELSE /\ EndCall(c)
            /\ row' = IF calls[c].owed THEN AfterSuccess(calls[c], row, bound) ELSE row
            /\ IF calls[c].owed THEN UNCHANGED <<live, busy>> ELSE Stops(bound)
    /\ UNCHANGED <<selected, bound, keyed, made, left, policy, handoff>>

\* The live session answers for its status.
Checked(c) ==
    /\ AtPc(c, "check")
    /\ \/ /\ row' = AfterSuccess(calls[c],
                        Fenced(calls[c].seen, Verified(calls[c].session, row.agent)),
                        calls[c].session)
          /\ EndCall(c)
          /\ UNCHANGED left
       \/ /\ Spend("faults")
          /\ row' = AfterFailure(calls[c], Fenced(calls[c].seen, Unready), "failed")
          /\ EndCall(c)
    /\ UNCHANGED <<selected, bound, keyed, made, live, busy, rollVars>>

----
(* resumeAdapterSession *)

\* The backend took the bound session up again and it is ready; if the row or the binding
\* changed meanwhile it is destroyed, and after the deadline it is stopped.
Resumed(c) ==
    /\ AtPc(c, "resume")
    /\ LET call == calls[c]
           verified == Fenced(call.seen, Verified(call.session, row.agent))
           stale == row.generation # call.seen \/ row.phase \in Over \/ bound # call.session
       IN /\ IF stale
             THEN /\ row' = IF call.owed THEN AfterFailure(call, verified, "failed") ELSE verified
                  /\ UNCHANGED <<keyed, live, busy, roll>>
             ELSE /\ keyed' = call.agent
                  /\ IF call.owed
                     THEN /\ row' = AfterSuccess(call, verified, call.session)
                          /\ live' = With(call.session)
                          /\ UNCHANGED <<busy, roll>>
                     ELSE /\ row' = verified
                          /\ live' = IF At("stopping") THEN With(call.session)
                                                      ELSE Without(call.session)
                          /\ busy' = IF At("stopping") THEN busy ELSE busy \ {call.session}
                          /\ roll' = Cancelled
          /\ EndCall(c)
    /\ UNCHANGED <<selected, bound, made, left, policy, handoff>>

\* The backend has lost it: the call makes a new one.
ResumeLost(c) ==
    /\ AtPc(c, "resume") /\ Spend("faults")
    /\ IF bound = calls[c].session
       THEN bound' = None /\ Proceed(c, "prepare") /\ UNCHANGED row
       ELSE Fails(c) /\ UNCHANGED bound
    /\ UNCHANGED <<selected, keyed, made, live, busy, rollVars>>

----
(* startAdapterSession, of a start and of a switch *)

Owns(c) == MayStart(calls[c].generation)

\* The agent's server is up and healthy; the session is created if the call still may.
Prepared(c) ==
    /\ AtPc(c, "prepare")
    /\ IF Owns(c) THEN Proceed(c, "creating") /\ UNCHANGED row ELSE Fails(c)
    /\ UNCHANGED <<selected, bound, keyed, made, live, busy, left, rollVars>>

\* The session is made and verified, and enters the map; if the call may still start, a
\* start is bound to it, and a switch is not yet.
Registered(c) ==
    /\ AtPc(c, "creating")
    /\ LET call == calls[c] IN
       /\ Makes(call.agent, None)
       /\ IF ~Owns(c)
          THEN Fails(c) /\ roll' = Cancelled /\ UNCHANGED <<bound, keyed, live, busy>>
          ELSE /\ UNCHANGED roll
               /\ live' = Append(live, Fresh) /\ busy' = busy \cup {Fresh}
               /\ calls' = [calls EXCEPT ![c].pc = "yield", ![c].session = Fresh]
               /\ IF call.kind = "switch"
                  THEN row' = Verifying(Fresh) /\ UNCHANGED <<bound, keyed>>
                  ELSE /\ row' = Verified(Fresh, row.agent)
                       /\ bound' = Fresh /\ keyed' = call.agent
    /\ UNCHANGED <<selected, left, policy, handoff>>

\* The server or the session does not come up, or is not ready and is destroyed.
NotUp(c) ==
    /\ calls[c].pc \in {"prepare", "creating", "resume"} /\ Spend("faults")
    /\ Fails(c)
    /\ UNCHANGED <<selected, bound, keyed, made, live, busy, rollVars>>

\* The yield is one setImmediate: the session that was registered first goes on first.
ItsTurn(c) ==
    AtPc(c, "yield") /\ \A d \in Calls : AtPc(d, "yield") => calls[c].session <= calls[d].session

WithdrawnAlive(c) ==                                                        \* slip
    /\ ItsTurn(c) /\ ~(Owns(c) /\ calls[c].owed)
    /\ Fails(c)
    /\ UNCHANGED <<selected, bound, keyed, made, live, busy, left, rollVars>>

\* Ownership was lost during the last wait, or the start came up after its deadline: the
\* session is stopped.
Withdrawn(c) ==
    /\ ItsTurn(c) /\ ~(Owns(c) /\ calls[c].owed)
    /\ Stops(calls[c].session)
    /\ roll' = Cancelled
    /\ Fails(c)
    /\ UNCHANGED <<selected, bound, keyed, made, left, policy, handoff>>

Started(c) ==
    /\ ItsTurn(c) /\ Owns(c) /\ calls[c].owed /\ calls[c].kind # "switch"
    /\ row' = AfterSuccess(calls[c], row, calls[c].session)
    /\ EndCall(c)
    /\ UNCHANGED <<selected, bound, keyed, made, live, busy, left, rollVars>>

----
(* Switching the agent *)

\* switchCaptainAgent, retryCaptainSwitch: the session of the selected agent goes on.
BeginSwitch(c, agent) ==
    /\ Idle(c) /\ ~Switching /\ ~Rebooting
    /\ agent # selected \/ row.candidate = agent
    /\ Spend("switches")
    /\ row' = Begun(row, agent, selected)
    /\ calls' = [calls EXCEPT ![c] =
         [Call("switch", agent, row', selected) EXCEPT
            !.pc = "prepare", !.old = FirstOf(selected), !.was = bound]]
    /\ UNCHANGED <<selected, bound, keyed, made, live, busy, rollVars>>

\* One transaction selects and binds the candidate; then the old session is stopped,
\* which cancels a rollover, if the session is in the map.  If the candidate was stopped
\* by hand during its last wait, what follows the transaction throws instead.
CommitSwitch(c) ==
    /\ ItsTurn(c) /\ Owns(c) /\ calls[c].owed /\ calls[c].kind = "switch"
    /\ LET call == calls[c]
           committed == [Verified(call.session, call.agent) EXCEPT !.agent = call.agent]
       IN /\ selected' = call.agent
          /\ bound' = call.session /\ keyed' = call.agent
          /\ IF IsLive(call.session)
             THEN /\ row' = committed
                  /\ Stops(call.old)
                  /\ roll' = IF IsLive(call.old) THEN Cancelled ELSE roll
             ELSE /\ row' = AfterFailure(call, committed, "failed")
                  /\ UNCHANGED <<live, busy, roll>>
    /\ EndCall(c)
    /\ UNCHANGED <<made, left, policy, handoff>>

RollBackToRow ==                                                            \* slip
    /\ row.lastGood # NoAgent /\ ~Rebooting /\ Spend("rollbacks")
    /\ selected' = row.agent
    /\ row' = [Begun(row, row.agent, row.lastGood) EXCEPT !.phase = "rolled_back"]
    /\ UNCHANGED <<bound, keyed, made, live, busy, calls, rollVars>>

\* rollbackCaptainSwitch
RollBack ==
    /\ row.lastGood # NoAgent /\ ~Rebooting /\ Spend("rollbacks")
    /\ selected' = row.lastGood
    /\ row' = [Begun(row, row.lastGood, row.lastGood) EXCEPT
                 !.phase = "rolled_back", !.due = FALSE, !.session = bound,
                 !.candidate = row.candidate]
    /\ UNCHANGED <<bound, keyed, made, live, busy, calls, rollVars>>

\* The agent is selected by hand; releaseCaptainIfAgentChanged stops a session of another.
SelectAgent(agent) ==
    /\ agent # selected /\ Spend("edits")
    /\ selected' = agent
    /\ IF Current # None /\ AgentOf(Current) # agent
       THEN Stops(Current) /\ roll' = Cancelled
       ELSE UNCHANGED <<live, busy, roll>>
    /\ UNCHANGED <<bound, keyed, row, made, calls, policy, handoff>>

StartSteps(c) ==
    \/ Ask(c) \/ Expire(c) \/ Released(c) \/ TakesOver(c) \/ Recovered(c)
    \/ Checked(c)
    \/ Resumed(c) \/ ResumeLost(c) \/ Prepared(c) \/ Registered(c) \/ NotUp(c)
    \/ Withdrawn(c) \/ Started(c) \/ CommitSwitch(c)
    \/ \E agent \in Agents : BeginSwitch(c, agent)

=============================================================================
