----------------------------- MODULE MCServices -----------------------------
(* Instances of Services for TLC: two clients of the spooler, one crash of it; *)
(* two days of a log of two pieces, and an agent with every fault there is.    *)
EXTENDS Services

AllFaults == {"connect", "recv", "open", "kill", "fwrite"}
=============================================================================
