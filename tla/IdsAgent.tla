------------------------------ MODULE IdsAgent ------------------------------
(***************************************************************************)
(* midwares/socket_server/agent.c: the agent beside a davinci server, with *)
(* the talk thread of the IDS server that serves it.                       *)
(*                                                                         *)
(* The agent reads the log of the day the server names, from its first     *)
(* byte on, polls it for more at its end, and reconnects when a send       *)
(* fails.  At midnight it exits, and a supervisor starts it again.  The    *)
(* server is IdsServer with one slot, reduced to what the agent sees of    *)
(* it; it takes a connection at once, and refuses it by never answering.   *)
(*                                                                         *)
(* A log is the number of buffers in it, a buffer the day and its place.   *)
(* g_reconnect_flag is not a variable: the agent is one thread, SIGPIPE    *)
(* comes from its own send, and the flag is cleared after it (359-363).    *)
(***************************************************************************)
EXTENDS Integers, Sequences

CONSTANTS
  LastDay, MaxLen,    \* bounds on the days, and on the buffers of a log
  MAX_RETRY_COUNT,
  MAX_WAITING_COUNT,  \* ends of file before the agent reconnects all the same
  CHECK_COUNT,        \* ends of file between two looks at the date: 6 in the code
  MaxFaults,          \* bound on what goes wrong
  Prompt,             \* TRUE: the server receives what is sent while the agent sleeps 10 s
  Faults              \* what may go wrong

ConstantsAssumption ==
  /\ LastDay \in Nat \ {0} /\ MaxLen \in Nat /\ MaxFaults \in Nat
  /\ Prompt \in BOOLEAN
  /\ MAX_RETRY_COUNT \in Nat /\ MAX_WAITING_COUNT \in Nat /\ CHECK_COUNT \in Nat \ {0}
  /\ Faults \subseteq {"connect", "recv", "open", "kill", "fwrite"}

Day == 1 .. LastDay
NULL == 0
Buffer == Day \X (1 .. MaxLen)

VARIABLES
  today, log,         \* the date, and the davinci log of each day
  nfault,
  pc, g_date, g_retry_count, file_name, errno,
  a,                  \* the position in the open file
  t, nsl,
  buf,                \* what has been read and not sent
  client_socket,      \* refused: the server does not answer; dead: it has closed its end;
                      \* broken: the agent's host knows
  g_file_name,        \* of the server
  talk,               \* the server's thread: the day it was to download, NULL if there is none
  peer,               \* how the agent's end looks to it: a reset is reported once, as errno 104
  wire, file          \* what it will receive, what it has written

envVars   == <<today, log>>
fileVars  == <<file_name, a, t, nsl, buf>>
agentVars == <<pc, g_date, g_retry_count, errno>>
netVars   == <<client_socket, g_file_name, talk, peer, wire, file>>
vars == <<envVars, nfault, agentVars, fileVars, netVars>>

TypeOK ==
  /\ today \in Day
  /\ log \in [Day -> 0 .. MaxLen]
  /\ nfault \in 0 .. MaxFaults
  /\ pc \in {"down", "connect", "recv", "open", "read", "eof", "reopen", "send", "close"}
  /\ g_date \in Day
  /\ g_retry_count \in 0 .. MAX_RETRY_COUNT
  /\ errno \in BOOLEAN
  /\ file_name \in Day \cup {NULL}
  /\ a \in 0 .. MaxLen /\ t \in 0 .. MaxLen
  /\ nsl \in 0 .. MAX_WAITING_COUNT
  /\ buf \in Buffer \cup {<<>>}
  /\ client_socket \in {"none", "refused", "open", "dead", "broken"}
  /\ g_file_name \in Day
  /\ talk \in Day \cup {NULL}
  /\ peer \in {"open", "reset", "eof"}
  /\ wire \in Seq(Buffer) /\ file \in Seq(Buffer)

Init ==
  /\ today = 1 /\ log = [d \in Day |-> 0]
  /\ nfault = 0
  /\ pc = "down" /\ g_date = 1 /\ g_retry_count = 0 /\ errno = FALSE
  /\ file_name = NULL /\ a = 0 /\ t = 0 /\ nsl = 0 /\ buf = <<>>
  /\ client_socket = "none"
  /\ g_file_name = 1 /\ talk = NULL /\ peer = "open" /\ wire = <<>> /\ file = <<>>

Goes(from, to) == pc = from /\ pc' = to
Fault(f) == f \in Faults /\ nfault < MaxFaults /\ nfault' = nfault + 1
Exists(d) == d # NULL /\ log[d] > 0
-----------------------------------------------------------------------------
(* The davinci server, whose log of a day comes into being with its first    *)
(* buffer, and the date.                                                     *)

Grow ==
  /\ log[today] < MaxLen
  /\ log' = [log EXCEPT ![today] = @ + 1]
  /\ UNCHANGED <<today, nfault, agentVars, fileVars, netVars>>

Midnight ==
  /\ today < LastDay
  /\ today' = today + 1
  /\ UNCHANGED <<log, nfault, agentVars, fileVars, netVars>>
-----------------------------------------------------------------------------
(* The socket: the agent reads 1 KB of the 16 KB the server sends it with    *)
(* the name, so its close is a reset, which takes what is not sent with it;  *)
(* before the name has come it may be an orderly close.                      *)

Prefixes(s) == {SubSeq(s, 1, n) : n \in 0 .. Len(s)}

Hangup ==
  /\ client_socket' = "none"
  /\ \/ client_socket = "open" /\ peer' = "reset" /\ wire' \in Prefixes(wire)
     \/ client_socket = "open" /\ file_name = NULL /\ peer' = "eof" /\ UNCHANGED wire
     \/ client_socket # "open" /\ UNCHANGED <<peer, wire>>
  /\ UNCHANGED <<g_file_name, talk, file>>

\* The variables of one run of the agent's loop.
NoFile == file_name' = NULL /\ a' = 0 /\ t' = 0 /\ nsl' = 0 /\ buf' = <<>>
-----------------------------------------------------------------------------
(* The agent                                                                 *)

\* What errno is by then is up to the libraries.
Start ==
  /\ Goes("down", "connect")
  /\ g_date' = today
  /\ g_retry_count' = 0
  /\ errno' \in BOOLEAN
  /\ UNCHANGED <<envVars, nfault, fileVars, netVars>>

Killed ==
  /\ Fault("kill")
  /\ pc # "down" /\ pc' = "down"
  /\ Hangup /\ NoFile
  /\ UNCHANGED <<envVars, g_date, g_retry_count, errno>>

MayRetry == g_retry_count < MAX_RETRY_COUNT

\* No server: try again, or give up.
ConnectFails ==
  /\ Fault("connect")
  /\ \/ MayRetry /\ Goes("connect", "connect") /\ g_retry_count' = g_retry_count + 1
     \/ ~MayRetry /\ Goes("connect", "down") /\ UNCHANGED g_retry_count
  /\ errno' = TRUE
  /\ UNCHANGED <<envVars, g_date, fileVars, netVars>>

\* The server starts to download, or ignores the connection while the slot is taken.
Connect ==
  /\ Goes("connect", "recv")
  /\ g_retry_count' = 0
  /\ \/ /\ talk = NULL
        /\ client_socket' = "open"
        /\ talk' = g_file_name /\ peer' = "open" /\ wire' = <<>> /\ file' = <<>>
     \/ /\ talk # NULL
        /\ client_socket' = "refused"
        /\ UNCHANGED <<talk, peer, wire, file>>
  /\ UNCHANGED <<envVars, nfault, g_date, errno, fileVars, g_file_name>>

RecvName ==
  /\ Goes("recv", "open")
  /\ client_socket = "open"
  /\ file_name' = talk
  /\ UNCHANGED <<envVars, nfault, g_date, g_retry_count, errno, a, t, nsl, buf, netVars>>

\* recv times out; its result is unsigned, so the agent goes on with an empty name.
RecvFails ==
  /\ Goes("recv", "open")
  /\ \/ client_socket = "refused" /\ UNCHANGED nfault
     \/ client_socket = "open" /\ Fault("recv")
  /\ errno' = TRUE
  /\ UNCHANGED <<envVars, g_date, g_retry_count, fileVars, netVars>>

\* There is no such file; an errno nobody has cleared has the same effect.
OpenFails ==
  /\ Goes("open", "connect")
  /\ ~Exists(file_name) \/ errno
  /\ errno' = FALSE
  /\ Hangup /\ NoFile
  /\ UNCHANGED <<envVars, nfault, g_date, g_retry_count>>

Open ==
  /\ Goes("open", "read")
  /\ Exists(file_name) /\ ~errno
  /\ a' = 0 /\ t' = 0 /\ nsl' = 0
  /\ UNCHANGED <<envVars, nfault, g_date, g_retry_count, errno, file_name, buf, netVars>>

Read ==
  /\ Goes("read", "send")
  /\ a < log[file_name]
  /\ buf' = <<file_name, a + 1>>
  /\ a' = a + 1
  /\ t' = t + 1
  /\ UNCHANGED <<envVars, nfault, g_date, g_retry_count, errno, file_name, nsl, netVars>>

\* The end of the file, so far ...
ReadEof ==
  /\ Goes("read", "eof")
  /\ a = log[file_name]
  /\ UNCHANGED <<envVars, nfault, g_date, g_retry_count, errno, fileVars, netVars>>

WaitedTooLong == nsl + 1 > MAX_WAITING_COUNT

NewDay == (nsl + 1) % CHECK_COUNT = 0 /\ g_date # today

\* ... is counted: too many times, or the day is over, or wait for more.
TooLong ==
  /\ Goes("eof", "close")
  /\ WaitedTooLong
  /\ UNCHANGED <<envVars, nfault, g_date, g_retry_count, errno, fileVars, netVars>>

EndOfDay ==
  /\ Goes("eof", "down")
  /\ ~WaitedTooLong /\ NewDay
  /\ g_date' = today
  /\ Hangup /\ NoFile
  /\ UNCHANGED <<envVars, nfault, g_retry_count, errno>>

Wait ==
  /\ Goes("eof", "reopen")
  /\ ~WaitedTooLong /\ ~NewDay
  /\ nsl' = nsl + 1
  /\ UNCHANGED <<envVars, nfault, g_date, g_retry_count, errno, file_name, a, t, buf, netVars>>

\* Mutant of Resumed: the file is read from its first byte again.
ResumedAtStart == 0

Resumed == t

Reopen ==
  /\ Goes("reopen", "read")
  /\ ~errno
  /\ Prompt => wire = <<>>
  /\ a' = Resumed
  /\ UNCHANGED <<envVars, nfault, g_date, g_retry_count, errno, file_name, t, nsl, buf, netVars>>

ReopenFails ==
  /\ Goes("reopen", "close")
  /\ \/ errno /\ UNCHANGED nfault
     \/ Fault("open")
  /\ errno' = TRUE
  /\ UNCHANGED <<envVars, g_date, g_retry_count, fileVars, netVars>>

\* What is sent to a server that has closed is lost, and is answered by a reset.
Send ==
  /\ Goes("send", "read")
  /\ \/ client_socket = "open" /\ wire' = Append(wire, buf) /\ UNCHANGED client_socket
     \/ client_socket = "dead" /\ client_socket' = "broken" /\ UNCHANGED wire
  /\ buf' = <<>>
  /\ errno' = FALSE
  /\ UNCHANGED <<envVars, nfault, g_date, g_retry_count, file_name, a, t, nsl,
                 g_file_name, talk, peer, file>>

SendFails ==
  /\ Goes("send", "close")
  /\ client_socket = "broken"
  /\ errno' = FALSE
  /\ UNCHANGED <<envVars, nfault, g_date, g_retry_count, fileVars, netVars>>

Close ==
  /\ Goes("close", "connect")
  /\ Hangup /\ NoFile
  /\ UNCHANGED <<envVars, nfault, g_date, g_retry_count, errno>>

AgentNext == \/ Start \/ Connect \/ RecvName \/ RecvFails \/ Open \/ OpenFails
             \/ Read \/ ReadEof \/ TooLong \/ EndOfDay \/ Wait
             \/ Reopen \/ ReopenFails \/ Send \/ SendFails \/ Close
-----------------------------------------------------------------------------
(* talk_to_client of the server                                              *)

TalkReceives ==
  /\ talk # NULL /\ wire # <<>>
  /\ file' = Append(file, Head(wire))
  /\ wire' = Tail(wire)
  /\ UNCHANGED <<envVars, nfault, agentVars, fileVars, client_socket, g_file_name, talk, peer>>

\* The server closes its end; what it has not read makes that a reset.
TalkWriteFails ==
  /\ talk # NULL /\ wire # <<>>
  /\ Fault("fwrite")
  /\ talk' = NULL
  /\ wire' = <<>>
  /\ client_socket' \in IF client_socket = "open" THEN {"dead", "broken"} ELSE {client_socket}
  /\ UNCHANGED <<envVars, agentVars, fileVars, g_file_name, peer, file>>

\* Mutant of Rotated: the server asks for the same log again.
NotRotated == g_file_name

Rotated == today

\* Errno 104 makes the server look at the date; if it is the same day, the next
\* recv returns 0, and that is the end too.
TalkReset ==
  /\ talk # NULL /\ wire = <<>> /\ peer = "reset"
  /\ \/ /\ talk # today
        /\ g_file_name' = Rotated
        /\ talk' = NULL
        /\ UNCHANGED peer
     \/ /\ talk = today
        /\ peer' = "eof"
        /\ UNCHANGED <<g_file_name, talk>>
  /\ UNCHANGED <<envVars, nfault, agentVars, fileVars, client_socket, wire, file>>

TalkEof ==
  /\ talk # NULL /\ wire = <<>> /\ peer = "eof"
  /\ talk' = NULL
  /\ UNCHANGED <<envVars, nfault, agentVars, fileVars, client_socket, g_file_name, peer,
                 wire, file>>

TalkNext == TalkReceives \/ TalkReset \/ TalkEof
-----------------------------------------------------------------------------
Next == Grow \/ Midnight \/ Killed \/ ConnectFails \/ AgentNext \/ TalkNext \/ TalkWriteFails

Spec == Init /\ [][Next]_vars

\* The agent runs, is started again by its supervisor, and so does the server.
FairSpec == Spec /\ WF_vars(AgentNext) /\ WF_vars(TalkNext)
-----------------------------------------------------------------------------
(* While a connection is served, what the server has written and what is under *)
(* way to it is the log it asked for, from the first byte on: nothing is       *)
(* skipped or sent twice when the file is closed and opened again              *)
(* (agent.c:260-269, 318-332).                                                 *)
DownloadIsPrefix ==
  talk # NULL => /\ Len(file \o wire) <= log[talk]
                 /\ \A i \in 1 .. Len(file \o wire) : (file \o wire)[i] = <<talk, i>>

(* What the davinci server has logged reaches the IDS server in the end, though *)
(* connections are refused or lost, the agent is restarted, and the server may  *)
(* close its end, which the agent does not see until it sends twice: then it    *)
(* is MAX_WAITING_COUNT that makes it ask again (agent.c:178-187, 215-230,      *)
(* 272-276, 350-377).                                                           *)
TodayIsDownloaded ==
  \A d \in Day, i \in 1 .. MaxLen :
    (today = d /\ log[d] >= i)
      ~> (today # d \/ \E j \in 1 .. Len(file) : file[j] = <<d, i>>)
=============================================================================
