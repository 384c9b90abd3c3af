---------------------------- MODULE MCRuleCache -----------------------------
(* Host 1 and host 12: two statements have the key 123, and two the id 23.    *)
EXTENDS RuleCache

MCStmt == {<<<<1>>, <<2, 3>>>>, <<<<1, 2>>, <<3>>>>, <<<<1, 2>>, <<2, 3>>>>, <<<<1>>, <<4>>>>}
MCBad == [l \in {1, 3} |-> IF l = 1 THEN {<<3>>} ELSE {<<3>>, <<2, 3>>}]
MCMatched == {<<4>>}
=============================================================================
