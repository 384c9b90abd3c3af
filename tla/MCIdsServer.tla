---------------------------- MODULE MCIdsServer -----------------------------
(* Instances of IdsServer: one agent's host and the console.                  *)
EXTENDS IdsServer

local == <<"127.0.0.1">>
hostA == <<"10.0.0.1", "0">>

OneHost  == <<hostA>>
FromA == {hostA}
FromAAndConsole == {hostA, local}

\* The last record of a log is never completed: the one before it is.
LogTwoRecords == <<"head", "head", "head">>
LogEveryKind  == <<"hdr", "cont", "head", "cont", "syntax", "head", "cont", "head">>
LogOneRecord  == <<"head", "head">>

NoFaults == {}
ReadFaults == {"fgets", "ebadf"}
OtherFaults == {"pthread_create", "fopen", "fwrite", "ml_connect"}
=============================================================================
