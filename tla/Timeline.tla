------------------------------ MODULE Timeline ------------------------------
(***************************************************************************)
(* What the store promises about the facts of one container: for every     *)
(* key, an append-only history of versions in which the newest version     *)
(* never starts before an older one.  The current truth of a key is its    *)
(* newest version, the truth as of t the newest version that had started   *)
(* by t.  (production-hardening.md, "Invariants", 3: projections point at  *)
(* newest-known truth and never rewind.)                                   *)
(***************************************************************************)
EXTENDS Integers

CONSTANT Keys

VARIABLE versions   \* for each key, a set of [ver, value, from] records

Init == versions = [k \in Keys |-> {}]

\* A version is appended to the history of k: it gets a later number than
\* the versions before it, and starts no earlier than they do.
Assert(k) ==
  \E new \in versions'[k] \ versions[k] :
    /\ \A old \in versions[k] : old.ver < new.ver /\ old.from <= new.from
    /\ versions' = [versions EXCEPT ![k] = versions[k] \cup {new}]

Next == \E k \in Keys : Assert(k)

Spec == Init /\ [][Next]_versions

\* The version that was true at t (a singleton, or empty before the first).
AsOf(k, t) ==
  { v \in versions[k] :
      /\ v.from <= t
      /\ \A w \in versions[k] : w.from <= t => w.ver <= v.ver }

=============================================================================
