------------------------------- MODULE MCTui -------------------------------
(* Instances of Tui for TLC.  No symmetry: liveness is checked.            *)
EXTENDS Tui

CONSTANTS a, b, f, m

MCTags == {a, b}
MCFacts == {f}
MCModels == {m}

=============================================================================
