----------------------------- MODULE MCJournal -----------------------------
(* Instances of Journal for TLC: one cfg has a writer beside a reader, the *)
(* claim's cfg one process.                                                *)
EXTENDS Journal, TLC

CONSTANTS p1, p2, f1, f2

OneProcess == {p1}
TwoProcesses == {p1, p2}
TwoFacts == {f1, f2}

FactSymmetry == Permutations(TwoFacts)

=============================================================================
