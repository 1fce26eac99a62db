--------------------------- MODULE MCMemoryStore ---------------------------
(* Instance of MemoryStore for TLC: see MCMemoryStore.cfg for the bounds.  *)
EXTENDS MemoryStore, TLC

CONSTANTS t1, t2, k1

MCTexts == {t1, t2}
MCKeys == {k1}
MCTimes == 1 .. 3
MCObserved == {2}

\* Texts are compared for equality only.
TextSymmetry == Permutations(MCTexts)

=============================================================================
