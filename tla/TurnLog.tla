------------------------------- MODULE TurnLog -------------------------------
(***************************************************************************)
(* What the managed-session ledger promises (docs/managed-sessions.md): a   *)
(* turn is started once and ends once, with the end it was reported to have *)
(* or as interrupted when its process died without reporting one; what was  *)
(* received counts from the moment it was received, whatever dies after.    *)
(***************************************************************************)
CONSTANTS Turns, Ends              \* Ends: the ways a turn is reported to end

VARIABLE turn                      \* turn -> "none", "running", an end, or "crashed"

Init == turn = [t \in Turns |-> "none"]

\* From one log to the next: a turn starts, or a running one ends as it is reported to ...
Others(was, is, t) == \A u \in Turns \ {t} : is[u] = was[u]
Start(was, is, t) == was[t] = "none" /\ is[t] = "running" /\ Others(was, is, t)
Finish(was, is, t) == was[t] = "running" /\ is[t] \in Ends /\ Others(was, is, t)

\* ... or several of a process end with it.
FinishAll(was, is, how) ==
    \A t \in Turns : \/ is[t] = was[t]
                     \/ was[t] = "running" /\ is[t] = how

Next ==
    \E was \in {turn}, is \in {turn'} :
        /\ DOMAIN is = Turns
        /\ \/ \E t \in Turns : Start(was, is, t) \/ Finish(was, is, t)
           \/ \E how \in {"interrupted", "crashed"} : FinishAll(was, is, how)

Spec == Init /\ [][Next]_turn
==============================================================================
