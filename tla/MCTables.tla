------------------------------ MODULE MCTables ------------------------------
(* Instances of Tables for TLC.                                               *)
EXTENDS Tables, TLC

\* Host 1 and host 12: two statements have the key 123, and two the id 23.
Stmts == {<<<<1>>, <<2, 3>>>>, <<<<1, 2>>, <<3>>>>, <<<<1, 2>>, <<2, 3>>>>}
BadIds == [l \in {1, 3} |-> IF l = 1 THEN {<<3>>} ELSE {<<3>>, <<2, 3>>}]
MatchedIds == {<<3>>}

Symmetry == Permutations(Thread) \cup Permutations(Obj)
=============================================================================
