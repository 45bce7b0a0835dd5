------------------------------ MODULE MCCaptain ------------------------------
(* Small instances of Captain: scenarios with and without planned rollover. *)
EXTENDS Captain, TLC

CONSTANTS a1, a2, c1, c2

MCAgents == {a1, a2}
MCCalls == {c1, c2}
MCSymmetry == Permutations({a1, a2}) \cup Permutations({c1, c2})

Budget(starts, switches, rollbacks, turns, cancels, faults, expiries, crashes) ==
    [starts |-> starts, switches |-> switches, rollbacks |-> rollbacks, turns |-> turns,
     cancels |-> cancels, faults |-> faults, expiries |-> expiries, crashes |-> crashes, edits |-> 1]

\* Rollover off, as shipped: switches, starts, roll-backs, deadlines and a crash.
OfSwitches == [policy |-> FALSE, left |-> Budget(1, 2, 1, 1, 0, 1, 1, 1)]

\* Rollover on, no switch: handoffs, starts, cancellations, faults and crashes.
OfRollovers == [policy |-> TRUE, left |-> Budget(1, 0, 0, 1, 1, 1, 1, 2)]

\* Both at once, and nothing goes wrong.
OfBoth == [policy |-> TRUE, left |-> Budget(0, 1, 0, 0, 0, 0, 0, 0)]

\* Both at once, and the switch may pass its deadline.
OfLate == [policy |-> TRUE, left |-> Budget(0, 1, 0, 0, 0, 0, 1, 0)]

MCApart == {OfSwitches, OfRollovers}
MCTogether == {OfBoth}
MCLate == {OfLate}

=============================================================================
