------------------------------ MODULE MCServers -----------------------------
(* An instance of Servers: the IDS server with one agent's host and the        *)
(* console, the server sample with one client after the other, and three       *)
(* clients with a table for two: a slot is used again, and a client is one     *)
(* too many.                                                                  *)
EXTENDS Servers, MCIdsServer
=============================================================================
