------------------------------- MODULE MCJobs -------------------------------
(* Instances of Jobs for TLC.  No symmetry: liveness is checked.           *)
EXTENDS Jobs

CONSTANTS c1, c2, s1, m1, m2, t1, t2

MCCallers == {c1, c2}
MCSpaces == {s1}
MCSessions == {m1, m2}
MCSpaceOf == [m \in MCSessions |-> s1]
MCTurns == [m \in MCSessions |-> IF m = m1 THEN <<t1, t2>> ELSE <<t2>>]

=============================================================================
