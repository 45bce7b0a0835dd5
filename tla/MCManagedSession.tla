-------------------------- MODULE MCManagedSession ---------------------------
(* Small instances of ManagedSession. *)
EXTENDS ManagedSession, TLC

CONSTANTS b1, b2, i1, i2

TwoBackends == {b1, b2}
OneBackend == {b1}
TwoIntents == {i1, i2}
OneIntent == {i1}
MCSymmetry == Permutations({b1, b2}) \cup Permutations({i1, i2})

=============================================================================
