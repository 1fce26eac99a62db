------------------------------ MODULE MCRecall ------------------------------
(* Instance of Recall for TLC: see MCRecall.cfg for the bounds.         *)
EXTENDS Recall, TLC

CONSTANTS t1, t2, k1

MCTexts == {t1, t2}
MCKeys == {k1}
MCTimes == 1 .. 2

TextSymmetry == Permutations(MCTexts)

=============================================================================
