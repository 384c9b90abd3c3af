------------------------------ MODULE Multiplex ------------------------------
(***************************************************************************)
(* 12.high_concurrency_server/select, poll and epoll: three servers of one *)
(* thread that answer every line of their clients (client.c), whichever of *)
(* them has something to read.  A table has a slot for every client.       *)
(*                                                                         *)
(* A step is one system call of the server or of a client.  A descriptor   *)
(* is a number, 0 that of the listening socket; a client waits for the     *)
(* answer to a line before it sends the next, unless it is killed.         *)
(***************************************************************************)
EXTENDS Integers, Sequences, FiniteSets

CONSTANTS Client,
          OPEN_MAX \* the size of the table, FD_SETSIZE in the server with select

MultiplexAssumption == IsFiniteSet(Client) /\ OPEN_MAX \in Nat

VARIABLES
  api,     \* the server: "select", "poll" or "epoll"
  backlog, \* connections that are not accepted yet, the oldest first
  end,     \* the client's end: "away", "idle", "waiting" for an answer, or "closed"
  unread,  \* the clients that have sent a line the server has not read
  broken,  \* those that were answered after their end: a reset is under way
  fd,      \* the server's descriptor of the connection, or -1
  client,  \* the table: the descriptor in a slot, or -1
  maxi, maxfd,
  allset,  \* what select or epoll is asked about
  ready,   \* the descriptors the last call has found; for poll, the slots with POLLRDNORM
  nready, i, pc

ends == <<api, backlog, end, unread, broken>>
table == <<fd, client, maxi, maxfd, allset>>
loop == <<ready, nready, i, pc>>
vars == <<ends, table, loop>>

Slot == 1 .. OPEN_MAX
Fd == 1 .. Cardinality(Client)
Least(S) == CHOOSE n \in S : \A m \in S : n <= m
AtLeast(m, n) == IF n > m THEN n ELSE m

\* Only client[0].revents and those of the slots poll looks at are ever initialized.
Init == /\ api \in {"select", "poll", "epoll"}
        /\ backlog = <<>>
        /\ end = [c \in Client |-> "away"]
        /\ unread = {} /\ broken = {}
        /\ fd = [c \in Client |-> -1]
        /\ client = [s \in Slot |-> -1]
        /\ maxi = 0 /\ maxfd = 0
        /\ allset = {0}
        /\ IF api = "poll" THEN ready \in SUBSET Slot ELSE ready = {}
        /\ nready = 0 /\ i = 1 /\ pc = "wait"
-----------------------------------------------------------------------------
(* The clients                                                               *)

\* Bound: a client comes back only when the server has closed its last connection.
Connect(c) ==
  /\ pc # "exited" /\ end[c] = "away"
  /\ end' = [end EXCEPT ![c] = "idle"]
  /\ backlog' = Append(backlog, c)
  /\ UNCHANGED <<api, unread, broken, table, loop>>

SendLine(c) ==
  /\ pc # "exited" /\ end[c] = "idle"
  /\ end' = [end EXCEPT ![c] = "waiting"]
  /\ unread' = unread \cup {c}
  /\ UNCHANGED <<api, backlog, broken, table, loop>>

\* The end of its input, or of its process.
Leave(c) ==
  /\ pc # "exited" /\ end[c] \in {"idle", "waiting"}
  /\ end' = [end EXCEPT ![c] = "closed"]
  /\ UNCHANGED <<api, backlog, unread, broken, table, loop>>
-----------------------------------------------------------------------------
(* select, poll, epoll_wait and accept                                       *)

\* The descriptors on which accept or read does not block.
Readable == {fd[c] : c \in {d \in Client : fd[d] # -1 /\ (d \in unread \/ end[d] = "closed")}}
              \cup {n \in {0} : backlog # <<>>}

\* The call returns when it has found something.
Returns(found) == /\ pc = "wait"
                  /\ found # {}
                  /\ nready' = Cardinality(found)
                  /\ i' = 1
                  /\ UNCHANGED <<ends, table>>

\* The servers with select and poll look at the listening socket first.
Select == LET found == {f \in allset \cap Readable : f <= maxfd} IN
          /\ api = "select"
          /\ Returns(found)
          /\ ready' = found
          /\ pc' = IF 0 \in found THEN "accept" ELSE "scan"

\* The revents of the slots beyond maxi stay what they are.
Poll == LET found == {s \in 1 .. maxi : client[s] \in Readable} \cup (Readable \cap {0}) IN
        /\ api = "poll"
        /\ Returns(found)
        /\ ready' = found \cup {s \in ready : s > maxi}
        /\ pc' = IF 0 \in found THEN "accept" ELSE "scan"

EpollWait == /\ api = "epoll"
             /\ Returns(allset \cap Readable)
             /\ ready' = allset \cap Readable
             /\ pc' = "scan"

\* "if (--nready == 0)": on to the next call, or to what else has been found.
Counted == /\ nready' = nready - 1
           /\ pc' = IF nready = 1 THEN "wait" ELSE "scan"

\* epoll_wait's events are taken one by one.
Taken(f) == ready' = IF api = "epoll" THEN ready \ {f} ELSE ready

Accepting == pc = "accept" \/ (api = "epoll" /\ pc = "scan" /\ 0 \in ready)
Free == {s \in Slot : client[s] = -1}

\* Mutant of Highest: a slot below the highest one lowers it.
Latest(m, n) == n

Highest(m, n) == AtLeast(m, n)

Accept ==
  LET s == Least(Free)
      f == Least(Fd \ {fd[c] : c \in Client})
  IN /\ Accepting
     /\ Free # {}
     /\ backlog' = Tail(backlog)
     /\ fd' = [fd EXCEPT ![Head(backlog)] = f]
     /\ client' = [client EXCEPT ![s] = f]
     /\ maxi' = Highest(maxi, s)
     /\ maxfd' = AtLeast(maxfd, f)
     /\ allset' = IF api = "poll" THEN allset ELSE allset \cup {f}
     /\ Counted /\ Taken(0)
     /\ UNCHANGED <<api, end, unread, broken, i>>

\* "too many clients"
TooMany ==
  /\ Accepting
  /\ Free = {}
  /\ pc' = "exited"
  /\ UNCHANGED <<ends, table, ready, nready, i>>
-----------------------------------------------------------------------------
(* The loop over what has been found                                         *)

IsSet(s) == client[s] # -1 /\ (IF api = "poll" THEN s ELSE client[s]) \in ready

\* The slot the server reads from next: the first from i on, or that of any event.
Turn(s) == /\ pc = "scan"
           /\ IsSet(s)
           /\ api # "epoll" => /\ s \in i .. maxi
                               /\ \A r \in i .. s - 1 : ~IsSet(r)

Owner(s) == CHOOSE c \in Client : fd[c] = client[s]

\* Read returns the line, Write answers it.
ReadLine(s) ==
  LET c == Owner(s) IN
  /\ Turn(s)
  /\ c \in unread
  /\ unread' = unread \ {c}
  /\ end' = [end EXCEPT ![c] = IF @ = "waiting" THEN "idle" ELSE @]
  /\ broken' = IF end[c] = "closed" THEN broken \cup {c} ELSE broken
  /\ i' = s + 1
  /\ Counted /\ Taken(client[s])
  /\ UNCHANGED <<api, backlog, table>>

\* With FD_CLR or EPOLL_CTL_DEL.
Close(s) ==
  LET c == Owner(s) IN
  /\ fd' = [fd EXCEPT ![c] = -1]
  /\ client' = [client EXCEPT ![s] = -1]
  /\ allset' = allset \ {client[s]}
  /\ end' = [end EXCEPT ![c] = "away"]
  /\ UNCHANGED <<maxi, maxfd>>

\* Read returns 0.
ReadEof(s) ==
  LET c == Owner(s) IN
  /\ Turn(s)
  /\ c \notin unread /\ end[c] = "closed"
  /\ Close(s)
  /\ broken' = broken \ {c}
  /\ i' = s + 1
  /\ Counted /\ Taken(client[s])
  /\ UNCHANGED <<api, backlog, unread>>

\* Read returns -1 once.  The server with poll closes the connection; the others
\* pass the -1 to Write, which fails, and get the 0 at the next call.
ReadReset(s) ==
  LET c == Owner(s) IN
  /\ Turn(s)
  /\ c \notin unread /\ c \in broken
  /\ IF api = "poll" THEN Close(s) ELSE UNCHANGED <<table, end>>
  /\ broken' = broken \ {c}
  /\ i' = s + 1
  /\ Counted /\ Taken(client[s])
  /\ UNCHANGED <<api, backlog, unread>>
-----------------------------------------------------------------------------
Server == \/ Select \/ Poll \/ EpollWait
          \/ Accept \/ TooMany
          \/ \E s \in Slot : ReadLine(s) \/ ReadEof(s) \/ ReadReset(s)

Next == Server \/ \E c \in Client : Connect(c) \/ SendLine(c) \/ Leave(c)

Spec == Init /\ [][Next]_vars

\* The server's process runs; no client has to do anything.
FairSpec == Spec /\ WF_vars(Server)
-----------------------------------------------------------------------------
TypeOK ==
  /\ backlog \in Seq(Client)
  /\ end \in [Client -> {"away", "idle", "waiting", "closed"}]
  /\ unread \subseteq Client /\ broken \subseteq Client
  /\ fd \in [Client -> Fd \cup {-1}]
  /\ client \in [Slot -> Fd \cup {-1}]
  /\ maxi \in 0 .. OPEN_MAX /\ maxfd \in 0 .. Cardinality(Client)
  /\ allset \subseteq Fd \cup {0}
  /\ nready \in 0 .. Cardinality(Client) + 1
  /\ pc \in {"wait", "accept", "scan", "exited"}

\* The server waits in read for a client that has nothing to say.
Blocked == \E s \in Slot : Turn(s) /\ client[s] \notin Readable

(* Every connection has one slot, the next call will look at it, and a        *)
(* descriptor that has been closed is not asked about.                        *)
TableMatches ==
  /\ \A c \in Client : fd[c] # -1 => \E s \in 1 .. maxi : client[s] = fd[c]
  /\ \A s \in Slot : client[s] # -1 =>
       /\ \E c \in Client : fd[c] = client[s]
       /\ \A r \in Slot \ {s} : client[r] # client[s]
  /\ api # "poll" => allset = {0} \cup {fd[c] : c \in {d \in Client : fd[d] # -1}}
  /\ api = "select" => \A f \in allset : f <= maxfd

(* While nready is not used up there is a client it stands for, and only the  *)
(* server with poll, with a slot that poll has not looked at, reads where     *)
(* there may be nothing.                                                      *)
ScanFinds == pc = "scan" => /\ nready > 0
                            /\ (\E s \in Slot : Turn(s)) \/ (api = "epoll" /\ 0 \in ready)
                            /\ Blocked => api = "poll"

(* Every line is answered, though other clients are silent or disappear.      *)
LineAnswered ==
  []<>~Blocked => \A c \in Client : end[c] = "waiting" ~> (end[c] # "waiting" \/ pc = "exited")
=============================================================================
