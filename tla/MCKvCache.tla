------------------------------ MODULE MCKvCache ------------------------------
(* Instances of KvCache: three checkpoints, of which one is twice as large     *)
(* and long as the others, and two servers with different contexts.            *)
EXTENDS KvCache, TLC

CONSTANTS k1, k2, k3, s1, s2

TwoKeys == {k1, k2}
ThreeKeys == {k1, k2, k3}

\* The two keys differ in nothing
KeySymmetry == Permutations(TwoKeys)

Pids == {s1, s2}

KeyLength == [k \in Keys |-> IF k = k3 THEN 2 ELSE 1]
Contexts == [p \in Servers |-> IF p = s1 THEN 2 ELSE 3]
=============================================================================
