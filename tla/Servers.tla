------------------------------ MODULE Servers -------------------------------
(* Servers that owe every client an answer, side by side: the IDS server      *)
(* (extended), the server sample with two files (PingPong), and the servers    *)
(* with select, poll and epoll (Multiplex).                                    *)
(* They share nothing: the server that runs is chosen at the start, the       *)
(* others stay as they are.                                                   *)
EXTENDS IdsServer

CONSTANTS PING_PONG_LINE_COUNT, MaxClients, FileLines, MaxQueued, OneAtATime, SampleFaults, \* PingPong
          Client, OPEN_MAX                                                               \* Multiplex

VARIABLES server,
          alive, exists, g_flag_ping, g_enqueue_done, g_writing_done, g_writing_count,
          g_socket_is_active, queue_node_count, came, talkers, reader, \* PingPong
          api, backlog, end, unread, broken, fd, client, maxi, maxfd, allset,
          ready, nready, place, pc                                     \* Multiplex

Ping == INSTANCE PingPong WITH MaxConn <- MaxClients, Faults <- SampleFaults,
                               up <- alive, nconn <- came, talk <- talkers, enq <- reader

Echo == INSTANCE Multiplex WITH i <- place

ASSUME ServersAssumption == Ping!ConstantsAssumption /\ Echo!MultiplexAssumption

idsVars == vars
pingVars == <<alive, exists, g_flag_ping, g_enqueue_done, g_writing_done, g_writing_count,
              g_socket_is_active, queue_node_count, came, talkers, reader>>
echoVars == <<api, backlog, end, unread, broken, fd, client, maxi, maxfd, allset,
              ready, nready, place, pc>>
allVars == <<server, idsVars, pingVars, echoVars>>

ServersInit == /\ server \in {"ids", "ping", "echo"}
               /\ Init /\ Ping!Init /\ Echo!Init
               /\ server # "ping" => exists = {}
               /\ server # "echo" => api = "select"

IdsRuns == server = "ids" /\ UNCHANGED <<server, pingVars, echoVars>>
PingRuns == server = "ping" /\ UNCHANGED <<server, idsVars, echoVars>>
EchoRuns == server = "echo" /\ UNCHANGED <<server, idsVars, pingVars>>

ServersNext == \/ IdsRuns /\ Next
               \/ PingRuns /\ Ping!Next
               \/ EchoRuns /\ Echo!Next

(* The fairness of each server: a premise of what that server promises, so    *)
(* that no promise rests on the fairness of another.                          *)
IdsFair ==
  /\ WF_allVars(IdsRuns /\ MainNext)
  /\ \A c \in Conn : WF_allVars(IdsRuns /\ TalkNext(c)) /\ WF_allVars(IdsRuns /\ EnqNext(c))
  /\ WF_allVars(IdsRuns /\ DispNext)

PingFair ==
  /\ \A c \in Ping!Conn : WF_allVars(PingRuns /\ (Ping!TalkStart(c) \/ Ping!TalkOpen(c)))
  /\ WF_allVars(PingRuns /\ Ping!EnqNext) /\ WF_allVars(PingRuns /\ Ping!DispNext)

EchoFair == WF_allVars(EchoRuns /\ Echo!Server)

ServersSpec == ServersInit /\ [][ServersNext]_allVars
-----------------------------------------------------------------------------
(* The dispatch thread empties the queue again and again (server.c:568-676).  *)
QueueIsDrained == server = "ids" /\ IdsFair => QueueDrains

(* A slot whose peer has gone is given back (server.c:286, 830).               *)
SlotIsReleased == server = "ids" /\ IdsFair => SlotReleased

(* A client that comes after the others have gone gets a file to write, and   *)
(* the last file is read though nobody swaps the files any more               *)
(* (multi_thread_server.c:69-102, 297-307, 328-338).                           *)
ClientsAreServed == server = "ping" /\ PingFair => Ping!ClientServed /\ Ping!LastFileRead

(* The table of the servers with select, poll and epoll agrees with what they  *)
(* wait for, and what they have been told is ready is there to be read         *)
(* (select/server.c:55-104, poll/server.c:50-104, epoll/server.c:60-113).      *)
EchoSound == Echo!TableMatches /\ Echo!ScanFinds

(* Every line is answered, though other clients are silent or disappear        *)
(* (select/server.c:88-103, poll/server.c:80-103, epoll/server.c:92-113).      *)
LinesAreAnswered == server = "echo" /\ EchoFair => Echo!LineAnswered
=============================================================================
