------------------------------ MODULE MCServer ------------------------------
(* Instances of Server for TLC.  No symmetry: liveness is checked.         *)
EXTENDS Server

CONSTANTS c1, c2, a, b, x, y

MCCallers == {c1, c2}
MCTags == {a, b}
MCFileOf == [tag \in MCTags |-> "file"]
MCTexts == {x, y}
MCNamed == [p \in Procs |-> IF p = "http" THEN {a} ELSE {b}]
MCSays == [p \in Procs |-> IF p = "http" THEN {x} ELSE {y}]

=============================================================================
