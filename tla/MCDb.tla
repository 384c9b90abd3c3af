-------------------------------- MODULE MCDb --------------------------------
(* Two processes; two keys on one chain, so that a record has a predecessor,  *)
(* a third on another, so that two stores and deletes run side by side; data  *)
(* of two lengths, so that a replacement moves its record.                    *)
EXTENDS Db, TLC

CONSTANTS p1, p2, k1, k2, k3, d1, d2, c1, c2

MCProc == {p1, p2}
MCKey == {k1, k2, k3}
MCData == {d1, d2}
MCChain == {c1, c2}
MCHash == [k \in MCKey |-> IF k = k3 THEN c2 ELSE c1]
MCKeyLen == [k \in MCKey |-> IF k = k3 THEN 2 ELSE 1]
MCDatLen == [d \in MCData |-> IF d = d1 THEN 1 ELSE 2]
Symmetry == Permutations(MCProc) \cup Permutations({k1, k2})
=============================================================================
