------------------------------ MODULE MCReload ------------------------------
(* Instance of Reload for TLC: see MCReload.cfg for the bounds.            *)
EXTENDS Reload, TLC

CONSTANTS t1, t2, k1, e1

MCTexts == {t1, t2}
MCKeys == {k1}
MCEntities == {e1}
MCTimes == 1 .. 2
MCObserved == {2}

TextSymmetry == Permutations(MCTexts)

=============================================================================
