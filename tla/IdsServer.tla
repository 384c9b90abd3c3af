----------------------------- MODULE IdsServer ------------------------------
(***************************************************************************)
(* midwares/socket_server/server.c: the IDS server.                        *)
(*                                                                         *)
(* main accepts a connection from the agent of a davinci host and starts   *)
(* two threads for it: talk_to_client downloads the host's log into a      *)
(* local file, enqueue_func reads that file, assembles its lines into SQL  *)
(* records and queues them.  One dispatch_func thread hands the records to *)
(* the rule engine.  s_queue_mutex protects the queue, its count, the name *)
(* of today's log and the file; the array of active sockets is read and    *)
(* written without it.                                                     *)
(*                                                                         *)
(* A log is a sequence of lines, a line is two units, and the second unit  *)
(* holds the newline: a reader can see half a line.  A larger read or      *)
(* write is several small ones.  The log of a day is the same whenever the *)
(* agent sends it, always from its first byte (agent.c:209, 233).          *)
(***************************************************************************)
EXTENDS Integers, Sequences, FiniteSets

SeqExt == INSTANCE SequencesExt

CONSTANTS
  THREAD_MAX,        \* slots: the agents', and the last one for the console
  MAX_QUEUE_SIZE,
  MAX_WAITING_COUNT, \* polls at end of file before enqueue_func gives up
  HEADER_LINES,      \* the "line_count <= 3" lines at the top of a log
  Table,             \* g_davinci_servers: the addresses of the agents' hosts
  Ips,               \* the addresses connections come from
  Localhost,
  LineKind,          \* the log: "hdr", "head", "cont" or "syntax", line by line
  LastDay,           \* bound on midnights
  MaxConn,           \* bound on accepted connections
  FdLimit,           \* sockets the process may hold before accept fails
  SlowReconnect,     \* TRUE: a host connects again only after its last connection
                     \* is closed and the thread of that connection has started
                     \* (agent.c:377 sleeps 30 seconds before it reconnects)
  Faults             \* the library calls that may fail

Conn  == 1 .. MaxConn
Slots == 0 .. THREAD_MAX - 1
Console == THREAD_MAX - 1
Name  == 0 .. LastDay \* the day in g_file_name; 0 is the empty string

ASSUME ConstantsAssumption ==
  /\ THREAD_MAX \in Nat \ {0}
  /\ MAX_QUEUE_SIZE \in Nat \ {0}
  /\ MAX_WAITING_COUNT \in Nat
  /\ HEADER_LINES \in Nat
  /\ LastDay \in Nat \ {0}
  /\ MaxConn \in Nat
  /\ FdLimit \in Nat
  /\ SlowReconnect \in BOOLEAN
  /\ LineKind \in Seq({"hdr", "head", "cont", "syntax"})
  /\ Table \in Seq(Ips)
  /\ Faults \subseteq {"pthread_create", "fopen", "fwrite", "fgets", "ebadf", "ml_connect"}

VARIABLES
  up,                      \* FALSE once the process has exited
  today,
  s_queue_mutex,           \* the thread that holds it, or Free
  g_file_name,
  g_socket_active_array,
  g_wa_array,              \* per slot, the connection in new_socket (0: none yet)
  g_connected_agent_count,
  g_sql_queue,             \* [by |-> enqueuing thread, rec |-> the units of the record]
  g_queue_node_count,
  main,                    \* where main is in its accept loop
  nconn,                   \* connections accepted so far; the newest is main's
  conn,                    \* the TCP connections
  fds,                     \* the sockets the process has not closed
  dir,                     \* the directory: name and slot to a file, 0 if absent
  data,                    \* the files' contents; a file is named by its creator
  talk, enq, disp,         \* the threads
  checked                  \* the records sql_check_sql was called with, in order

vars == <<up, today, s_queue_mutex, g_file_name, g_socket_active_array, g_wa_array,
          g_connected_agent_count, g_sql_queue, g_queue_node_count, main, nconn, conn,
          fds, dir, data, talk, enq, disp, checked>>

netVars  == <<nconn, conn, fds>>
fileVars == <<dir, data>>
slotVars == <<g_socket_active_array, g_wa_array, g_connected_agent_count, main>>
sqlVars  == <<g_sql_queue, g_queue_node_count, disp, checked>>
dayVars  == <<today, g_file_name>>
-----------------------------------------------------------------------------
NUnits == 2 * Len(LineKind)
Unit   == (1 .. LastDay) \X (1 .. NUnits)
Hole   == <<0, 0>> \* what a write beyond the end of a file leaves before it
Text   == Seq(Unit \cup {Hole})

Free     == <<"free", 0>>
Talker(c) == <<"talk", c>>
Enqueuer(c) == <<"enqueue", c>>
Dispatcher == <<"dispatch", 0>>
Threads  == {Free, Dispatcher} \cup ({"talk", "enqueue"} \X Conn)

TalkPc == {"none", "start", "cmd", "send", "open", "recv", "write", "timeout", "rename",
           "exit", "uncount", "done"}
EnqPc  == {"none", "sleep", "fopen", "retry", "read", "eof", "reopen", "room", "put",
           "count", "done"}

Record    == [by : Conn, rec : Text]
ConnState == [ip : Ips \cup {<<>>}, slot : Slots \cup {-1}, name : Name, pos : 0 .. NUnits,
              st : {"none", "open", "reset", "eof"}]
TalkState == [pc : TalkPc, sock : 0 .. MaxConn, name : Name, ino : 0 .. MaxConn, pos : Nat,
              buf : Unit \cup {Hole}]
EnqState  == [pc : EnqPc, name : Name, ino : 0 .. MaxConn, off : Nat,
              line : 0 .. HEADER_LINES + 1, nsl : 0 .. MAX_WAITING_COUNT,
              cur : Text, buf : Text]
DispState == [pc : {"poll", "lock", "uncount", "check"}, sql : [by : 0 .. MaxConn, rec : Text]]

TypeOK ==
  /\ up \in BOOLEAN
  /\ today \in 1 .. LastDay
  /\ s_queue_mutex \in Threads
  /\ g_file_name \in Name
  /\ g_socket_active_array \in [Slots -> {0, 1}]
  /\ g_wa_array \in [Slots -> 0 .. MaxConn]
  /\ g_connected_agent_count \in Nat
  /\ g_sql_queue \in Seq(Record)
  /\ g_queue_node_count \in Int
  /\ main \in {"accept", "count", "spawn"}
  /\ nconn \in 0 .. MaxConn
  /\ conn \in [Conn -> ConnState]
  /\ fds \subseteq Conn
  /\ dir \in [Name \X Slots -> 0 .. MaxConn]
  /\ data \in [Conn -> Text]
  /\ talk \in [Conn -> TalkState]
  /\ enq \in [Conn -> EnqState]
  /\ disp \in DispState
  /\ checked \in Seq(Record)

NoSql == [by |-> 0, rec |-> <<>>]

Init ==
  /\ up = TRUE
  /\ today = 1
  /\ s_queue_mutex = Free
  /\ g_file_name = today
  /\ g_socket_active_array = [i \in Slots |-> 0]
  /\ g_wa_array = [i \in Slots |-> 0]
  /\ g_connected_agent_count = 0
  /\ g_sql_queue = <<>>
  /\ g_queue_node_count = 0
  /\ main = "accept"
  /\ nconn = 0
  /\ conn = [c \in Conn |-> [ip |-> <<>>, slot |-> -1, st |-> "none", name |-> 0, pos |-> 0]]
  /\ fds = {}
  /\ dir = [f \in Name \X Slots |-> 0]
  /\ data = [c \in Conn |-> <<>>]
  /\ talk = [c \in Conn |-> [pc |-> "none", sock |-> 0, name |-> 0, ino |-> 0, pos |-> 0,
                             buf |-> Hole]]
  /\ enq = [c \in Conn |-> [pc |-> "none", name |-> 0, ino |-> 0, off |-> 0, line |-> 0,
                            nsl |-> 0, cur |-> <<>>, buf |-> <<>>]]
  /\ disp = [pc |-> "poll", sql |-> NoSql]
  /\ checked = <<>>

Slot(c) == conn[c].slot
FileOf(name, c) == <<name, Slot(c)>>

\* Mutant of Lock: nobody waits.
Grab(thread) == s_queue_mutex' = thread

\* pthread_mutex_lock and pthread_mutex_unlock around more than one step; a critical
\* section that is one step waits for s_queue_mutex = Free.
Lock(thread) == s_queue_mutex = Free /\ s_queue_mutex' = thread
Unlock == s_queue_mutex' = Free
-----------------------------------------------------------------------------
(* main: the accept loop.                                                    *)

\* strncmp(table[i], ip, strlen(ip)) == 0, at the first i that has it.
Matches(ip, i) == i < Len(Table) /\ SeqExt!IsPrefix(ip, Table[i + 1])
FirstMatch(ip, i) == Matches(ip, i) /\ \A j \in 0 .. i - 1 : ~Matches(ip, j)
IsLocalhost(ip) == SeqExt!IsPrefix(ip, Localhost)

\* The host of an agent runs one agent, which reconnects after a pause.
MayConnect(ip) ==
  SlowReconnect => \A c \in 1 .. nconn :
                     conn[c].ip = ip => conn[c].st # "open" /\ talk[c].pc # "start"

\* Mutant of SlotFree: the test is missing.
AnySlot(i) == TRUE

SlotFree(i) == g_socket_active_array[i] = 0

\* accept returns a connection from ip, which gets the next number.
Accepts(ip, slot) ==
  /\ up /\ main = "accept"
  /\ nconn < MaxConn
  /\ Cardinality(fds) < FdLimit
  /\ MayConnect(ip)
  /\ nconn' = nconn + 1
  /\ fds' = fds \cup {nconn'}
  /\ conn' = [conn EXCEPT ![nconn'] = [conn[nconn'] EXCEPT !.ip = ip, !.slot = slot, !.st = "open"]]
  /\ UNCHANGED <<up, s_queue_mutex, dayVars, sqlVars, fileVars, enq,
                 g_socket_active_array, g_connected_agent_count>>

\* A local connection is the console's: it gets the last slot and a talk thread.
AcceptConsole(ip) ==
  /\ IsLocalhost(ip)
  /\ SlotFree(Console)
  /\ Accepts(ip, Console)
  /\ g_wa_array' = [g_wa_array EXCEPT ![Console] = nconn']
  /\ \/ talk' = [talk EXCEPT ![nconn'].pc = "start"]
     \/ "pthread_create" \in Faults /\ UNCHANGED talk
  /\ UNCHANGED main

\* The connection of an agent in the table whose slot is free.
AcceptAgent(ip) ==
  /\ ~IsLocalhost(ip)
  /\ \E i \in Slots : /\ FirstMatch(ip, i)
                      /\ SlotFree(i)
                      /\ Accepts(ip, i)
  /\ main' = "count"
  /\ UNCHANGED <<g_wa_array, talk>>

\* The three "refuse the connection" paths: continue, without a close.
Refuse(ip) ==
  /\ \/ IsLocalhost(ip) /\ ~SlotFree(Console)
     \/ ~IsLocalhost(ip) /\ \A i \in Slots : FirstMatch(ip, i) => ~SlotFree(i)
  /\ Accepts(ip, -1)
  /\ UNCHANGED <<main, g_wa_array, talk>>

\* accept fails once the process is out of descriptors: main returns.
AcceptFails ==
  /\ up /\ main = "accept"
  /\ Cardinality(fds) >= FdLimit
  /\ up' = FALSE
  /\ UNCHANGED <<s_queue_mutex, dayVars, sqlVars, fileVars, netVars, slotVars, talk, enq>>

\* g_connected_agent_count++, under the mutex.
CountAgent ==
  /\ up /\ main = "count"
  /\ s_queue_mutex = Free
  /\ g_connected_agent_count' = g_connected_agent_count + 1
  /\ main' = "spawn"
  /\ UNCHANGED <<up, s_queue_mutex, dayVars, sqlVars, fileVars, netVars, talk, enq,
                 g_socket_active_array, g_wa_array>>

\* The slot gets the new socket, then the two threads are created in turn;
\* pthread_create never returns a negative value, so a failure goes unnoticed.
Spawn ==
  /\ up /\ main = "spawn"
  /\ g_wa_array' = [g_wa_array EXCEPT ![Slot(nconn)] = nconn]
  /\ \/ /\ talk' = [talk EXCEPT ![nconn].pc = "start"]
        /\ enq' = [enq EXCEPT ![nconn].pc = "sleep"]
     \/ /\ "pthread_create" \in Faults
        /\ \/ talk' = [talk EXCEPT ![nconn].pc = "start"] /\ UNCHANGED enq
           \/ enq' = [enq EXCEPT ![nconn].pc = "sleep"] /\ UNCHANGED talk
           \/ UNCHANGED <<talk, enq>>
  /\ main' = "accept"
  /\ UNCHANGED <<up, s_queue_mutex, dayVars, sqlVars, fileVars, netVars,
                 g_socket_active_array, g_connected_agent_count>>
-----------------------------------------------------------------------------
(* The peers and the clock.                                                  *)

Midnight ==
  /\ up /\ today < LastDay
  /\ today' = today + 1
  /\ UNCHANGED <<up, s_queue_mutex, g_file_name, sqlVars, fileVars, netVars, slotVars,
                 talk, enq>>

\* The agent closes, exits or is cut off.  It has read 1 KB of the 16 KB it was sent,
\* so its close resets the connection; a close before that is an orderly one.
PeerCloses(k) ==
  /\ up /\ conn[k].st = "open"
  /\ \E st \in {"reset", "eof"} : conn' = [conn EXCEPT ![k].st = st]
  /\ UNCHANGED <<up, s_queue_mutex, dayVars, sqlVars, fileVars, slotVars, nconn, fds,
                 talk, enq>>
-----------------------------------------------------------------------------
(* talk_to_client, the thread main started for connection c.                 *)

TalkGoes(c, from, to) == talk[c].pc = from /\ talk' = [talk EXCEPT ![c].pc = to]

\* It takes its socket from the slot main left it in, and marks the slot.
TalkStart(c) ==
  /\ up /\ talk[c].pc = "start"
  /\ talk' = [talk EXCEPT ![c] = [talk[c] EXCEPT !.sock = g_wa_array[Slot(c)],
                                  !.pc = IF Slot(c) = Console THEN "cmd" ELSE "send"]]
  /\ g_socket_active_array' = [g_socket_active_array EXCEPT ![Slot(c)] = 1]
  /\ UNCHANGED <<up, s_queue_mutex, dayVars, sqlVars, fileVars, netVars, enq,
                 g_wa_array, g_connected_agent_count, main>>

\* process_cmd returns when the console closes or sends what is no command; the
\* socket stays open.  The commands themselves only touch the rule engine.
CmdReturns(c) ==
  /\ up /\ TalkGoes(c, "cmd", "done")
  /\ g_socket_active_array' = [g_socket_active_array EXCEPT ![Slot(c)] = 0]
  /\ UNCHANGED <<up, s_queue_mutex, dayVars, sqlVars, fileVars, netVars, enq,
                 g_wa_array, g_connected_agent_count, main>>

ConsoleEnds(c)  == CmdReturns(c) /\ conn[talk[c].sock].st # "open"
WrongCommand(c) == CmdReturns(c) /\ conn[talk[c].sock].st = "open"

\* Send g_file_name, read without the mutex.  A send to a peer that has reset
\* sets errno, which the check after the fopen that follows takes for its own
\* failure: exit(1).
TalkSend(c) ==
  LET k == talk[c].sock IN
    /\ up /\ TalkGoes(c, "send", "open")
    /\ up' = (conn[k].st # "reset")
    /\ conn' = [conn EXCEPT ![k].name = g_file_name]
    /\ UNCHANGED <<s_queue_mutex, dayVars, sqlVars, fileVars, slotVars, nconn, fds, enq>>

\* g_file_name is read again, still without the mutex, and the file truncated.
TalkOpen(c) ==
  LET file == FileOf(g_file_name, c)
      ino  == IF dir[file] = 0 THEN c ELSE dir[file]
  IN /\ up /\ talk[c].pc = "open"
     /\ \/ /\ dir' = [dir EXCEPT ![file] = ino]
           /\ data' = [data EXCEPT ![ino] = <<>>]
           /\ talk' = [talk EXCEPT ![c] = [talk[c] EXCEPT !.pc = "recv", !.name = g_file_name,
                                                    !.ino = ino, !.pos = 0]]
           /\ UNCHANGED up
        \/ /\ "fopen" \in Faults
           /\ up' = FALSE
           /\ UNCHANGED <<dir, data, talk>>
     /\ UNCHANGED <<s_queue_mutex, dayVars, sqlVars, netVars, slotVars, enq>>

\* recv returns what comes next in the log the agent was asked for.
TalkRecv(c) ==
  LET k == talk[c].sock IN
    /\ up /\ talk[c].pc = "recv"
    /\ conn[k].st = "open" /\ conn[k].name # 0 /\ conn[k].pos < NUnits
    /\ talk' = [talk EXCEPT ![c] = [talk[c] EXCEPT
                                    !.buf = <<conn[k].name, conn[k].pos + 1>>, !.pc = "write"]]
    /\ conn' = [conn EXCEPT ![k].pos = @ + 1]
    /\ UNCHANGED <<up, s_queue_mutex, dayVars, sqlVars, fileVars, slotVars, nconn, fds, enq>>

\* Mutant of Closed: a recv that returns 0 is taken for no data yet.
NeverClosed(k) == FALSE

Closed(k) == conn[k].st = "eof"

\* recv returns 0, or fails with ECONNRESET once and returns 0 from then on.
TalkRecvEnds(c) ==
  LET k == talk[c].sock IN
    /\ up
    /\ \/ TalkGoes(c, "recv", "exit") /\ Closed(k)
       \/ TalkGoes(c, "recv", "timeout") /\ conn[k].st = "reset"
    /\ conn' = [conn EXCEPT ![k].st = "eof"]
    /\ UNCHANGED <<up, s_queue_mutex, dayVars, sqlVars, fileVars, slotVars, nconn, fds, enq>>

\* Contents of a file after u is written behind its first p units.
Written(old, p, u) ==
  [i \in 1 .. (IF Len(old) > p THEN Len(old) ELSE p + 1) |->
     IF i = p + 1 THEN u ELSE IF i <= Len(old) THEN old[i] ELSE Hole]

TalkWrite(c) ==
  LET ino == talk[c].ino IN
    /\ up /\ talk[c].pc = "write"
    /\ s_queue_mutex = Free
    /\ \/ /\ data' = [data EXCEPT ![ino] = Written(@, talk[c].pos, talk[c].buf)]
          /\ talk' = [talk EXCEPT ![c] = [talk[c] EXCEPT !.pc = "recv", !.pos = @ + 1,
                                                   !.buf = Hole]]
       \/ /\ "fwrite" \in Faults
          /\ TalkGoes(c, "write", "exit")
          /\ UNCHANGED data
    /\ UNCHANGED <<up, s_queue_mutex, dayVars, sqlVars, netVars, slotVars, dir, enq>>

\* After a reset: has the day ended?  Then g_file_name is cleared here and
\* filled in by TalkRename, both with the mutex held.
TalkTimeout(c) ==
  /\ up
  /\ \/ /\ talk[c].name = today
        /\ TalkGoes(c, "timeout", "recv")
        /\ s_queue_mutex = Free /\ UNCHANGED <<s_queue_mutex, g_file_name>>
     \/ /\ talk[c].name # today /\ g_file_name = today
        /\ TalkGoes(c, "timeout", "exit")
        /\ s_queue_mutex = Free /\ UNCHANGED <<s_queue_mutex, g_file_name>>
     \/ /\ talk[c].name # today /\ g_file_name # today
        /\ talk[c].pc = "timeout"
        /\ talk' = [talk EXCEPT ![c] = [talk[c] EXCEPT !.pc = "rename", !.name = today]]
        /\ g_file_name' = 0
        /\ Lock(Talker(c))
  /\ UNCHANGED <<up, today, sqlVars, fileVars, netVars, slotVars, enq>>

\* Mutant of TalkRename: the loop is not left, the old log goes into the new file.
TalkRenameStays(c) ==
  /\ up /\ TalkGoes(c, "rename", "recv")
  /\ g_file_name' = talk[c].name
  /\ Unlock
  /\ UNCHANGED <<up, today, sqlVars, fileVars, netVars, slotVars, enq>>

TalkRename(c) ==
  /\ up /\ TalkGoes(c, "rename", "exit")
  /\ g_file_name' = talk[c].name
  /\ Unlock
  /\ UNCHANGED <<up, today, sqlVars, fileVars, netVars, slotVars, enq>>

\* fclose, close, and the slot is free: before the count is adjusted.
TalkExit(c) ==
  LET k == talk[c].sock IN
    /\ up /\ TalkGoes(c, "exit", "uncount")
    /\ fds' = fds \ {k}
    /\ conn' = [conn EXCEPT ![k].st = "eof"]
    /\ g_socket_active_array' = [g_socket_active_array EXCEPT ![Slot(c)] = 0]
    /\ UNCHANGED <<up, s_queue_mutex, dayVars, sqlVars, fileVars, nconn, g_wa_array,
                   g_connected_agent_count, main, enq>>

\* Mutant of OneLess: the last agent is never uncounted.
OneLessButOne(n) == IF n > 1 THEN n - 1 ELSE n

OneLess(n) == IF n > 0 THEN n - 1 ELSE 0

TalkUncount(c) ==
  /\ up /\ s_queue_mutex = Free
  /\ TalkGoes(c, "uncount", "done")
  /\ g_connected_agent_count' = OneLess(g_connected_agent_count)
  /\ UNCHANGED <<up, s_queue_mutex, dayVars, sqlVars, fileVars, netVars, enq,
                 g_socket_active_array, g_wa_array, main>>

TalkNext(c) == \/ TalkStart(c) \/ ConsoleEnds(c) \/ TalkSend(c) \/ TalkOpen(c)
               \/ TalkRecv(c) \/ TalkRecvEnds(c) \/ TalkWrite(c) \/ TalkTimeout(c)
               \/ TalkRename(c) \/ TalkExit(c) \/ TalkUncount(c)
-----------------------------------------------------------------------------
(* enqueue_func, the second thread main started for connection c.            *)

EnqGoes(c, from, to) == enq[c].pc = from /\ enq' = [enq EXCEPT ![c].pc = to]
EnqOnly == UNCHANGED <<up, dayVars, netVars, slotVars, talk>>

\* After 10 seconds, and again after each failure to open, take the name of the log.
EnqName(c) ==
  /\ up /\ s_queue_mutex = Free
  /\ enq[c].pc \in {"sleep", "retry"}
  /\ enq' = [enq EXCEPT ![c] = [enq[c] EXCEPT !.name = g_file_name, !.pc = "fopen"]]
  /\ EnqOnly /\ UNCHANGED <<s_queue_mutex, sqlVars, fileVars>>

EnqFopen(c) ==
  LET ino == dir[FileOf(enq[c].name, c)] IN
    /\ up
    /\ \/ EnqGoes(c, "fopen", "retry") /\ (ino = 0 \/ "fopen" \in Faults)
       \/ /\ enq[c].pc = "fopen" /\ ino # 0
          /\ enq' = [enq EXCEPT ![c] = [enq[c] EXCEPT !.ino = ino, !.pc = "read"]]
    /\ EnqOnly /\ UNCHANGED <<s_queue_mutex, sqlVars, fileVars>>

IsNewline(u) == u[2] > 0 /\ u[2] % 2 = 0

\* The line after offset off ends with the newline at n.
LineEnds(text, off, n) == /\ n \in off + 1 .. Len(text)
                          /\ IsNewline(text[n])
                          /\ \A m \in off + 1 .. n - 1 : ~IsNewline(text[m])
\* strlen sees text[off+1 .. h] of it: a hole is read as zero bytes.
SeenTo(text, off, n, h) == /\ h \in off .. n
                           /\ \A m \in off + 1 .. h : text[m] # Hole
                           /\ h < n => text[h + 1] = Hole

CountLine(n) == IF n <= HEADER_LINES THEN n + 1 ELSE n \* saturating: compared once

\* fgets returns a line; a line that starts with a hole has length 0, which is
\* taken for the end of the file.
EnqGetLine(c) ==
  LET e == enq[c] IN
    /\ up /\ s_queue_mutex = Free
    /\ e.pc = "read"
    /\ \E n \in 1 .. Len(data[e.ino]), h \in 0 .. Len(data[e.ino]) :
         /\ LineEnds(data[e.ino], e.off, n)
         /\ SeenTo(data[e.ino], e.off, n, h)
         /\ enq' = [enq EXCEPT ![c] = [enq[c] EXCEPT !.line = CountLine(@), !.off = h,
                                          !.buf = SubSeq(data[e.ino], e.off + 1, h),
                                          !.pc = IF h = e.off THEN "reopen" ELSE "room"]]
    /\ EnqOnly /\ UNCHANGED <<s_queue_mutex, sqlVars, fileVars>>

\* fgets reaches the end of the file, perhaps after half a line, which is
\* dropped and read again later; a file that has no line yet ends the thread.
EnqGetEof(c) ==
  LET e == enq[c] IN
    /\ up /\ s_queue_mutex = Free
    /\ e.pc = "read"
    /\ \A n \in 1 .. Len(data[e.ino]) : ~LineEnds(data[e.ino], e.off, n)
    /\ enq' = [enq EXCEPT ![c] = [enq[c] EXCEPT !.line = CountLine(@),
                                           !.pc = IF e.off = 0 THEN "done" ELSE "eof"]]
    /\ EnqOnly /\ UNCHANGED <<s_queue_mutex, sqlVars, fileVars>>

\* Mutant of Resumed: the fseek to the offset is missing.
ResumedAtStart(e, ino) == [e EXCEPT !.pc = "read", !.ino = ino, !.nsl = @ + 1, !.off = 0]

\* The file is open again at the same offset.
Resumed(e, ino) == [e EXCEPT !.pc = "read", !.ino = ino, !.nsl = @ + 1]

\* Mutant of MayWait: one poll too many.
MayWaitOnceMore(e) == e.nsl <= MAX_WAITING_COUNT

MayWait(e) == e.nsl < MAX_WAITING_COUNT

\* Any errno but 9 after fgets.
EnqFgetsFails(c) ==
  /\ "fgets" \in Faults
  /\ up /\ s_queue_mutex = Free
  /\ EnqGoes(c, "read", "done")
  /\ EnqOnly /\ UNCHANGED <<s_queue_mutex, sqlVars, fileVars>>

\* errno 9 after fgets.  The file is reopened with the mutex held, and three
\* of the four ways out leave it held for ever.
EnqEbadf(c) ==
  LET e   == enq[c]
      ino == dir[FileOf(e.name, c)]
  IN /\ "ebadf" \in Faults
     /\ up /\ e.pc = "read"
     /\ \/ /\ MayWait(e) /\ ino # 0
           /\ enq' = [enq EXCEPT ![c] = Resumed(enq[c], ino)]
           /\ s_queue_mutex = Free /\ UNCHANGED s_queue_mutex
        \/ EnqGoes(c, "read", "done") /\ Lock(Enqueuer(c))
     /\ EnqOnly /\ UNCHANGED <<sqlVars, fileVars>>

\* Mutant of Rotated: the names are not compared.
AlwaysRotated(c) == TRUE

Rotated(c) == enq[c].name # g_file_name

\* At the end of the file: if the log has been rotated remove it and stop.
EnqEof(c) ==
  /\ up /\ s_queue_mutex = Free
  /\ \/ /\ Rotated(c)
        /\ EnqGoes(c, "eof", "done")
        /\ dir' = [dir EXCEPT ![FileOf(enq[c].name, c)] = 0]
     \/ ~Rotated(c) /\ EnqGoes(c, "eof", "reopen") /\ UNCHANGED dir
  /\ EnqOnly /\ UNCHANGED <<s_queue_mutex, sqlVars, data>>

\* Close, wait, open again at the same offset; give up after too many polls
\* or when another thread has removed the file.
EnqReopen(c) ==
  LET ino == dir[FileOf(enq[c].name, c)] IN
    /\ up
    /\ \/ /\ EnqGoes(c, "reopen", "done")
          /\ ~MayWait(enq[c]) \/ ino = 0 \/ "fopen" \in Faults
       \/ /\ enq[c].pc = "reopen" /\ MayWait(enq[c]) /\ ino # 0
          /\ enq' = [enq EXCEPT ![c] = Resumed(enq[c], ino)]
    /\ EnqOnly /\ UNCHANGED <<s_queue_mutex, sqlVars, fileVars>>

\* strstr(buf, "/*##"): the marker is in the first unit of a head line.
StartsRecord(u) == u # Hole /\ u[2] % 2 = 1 /\ LineKind[(u[2] + 1) \div 2] \in {"head", "syntax"}
HasMarker(text) == \E i \in DOMAIN text : StartsRecord(text[i])

\* Mutant of HasRoom: off by one.
HasRoomOrFull == g_queue_node_count <= MAX_QUEUE_SIZE

\* while (g_queue_node_count >= MAX_QUEUE_SIZE), read without the mutex.
HasRoom == g_queue_node_count < MAX_QUEUE_SIZE

\* Wait for room in the queue (without the mutex), then assemble: a line with
\* a marker completes the record before it and starts the next one.
EnqAssemble(c) ==
  LET e == enq[c] IN
    /\ up /\ e.pc = "room"
    /\ HasRoom
    /\ enq' = [enq EXCEPT ![c] =
         IF e.line <= HEADER_LINES THEN [e EXCEPT !.pc = "read", !.buf = <<>>]
         ELSE IF ~HasMarker(e.buf) \/ e.cur = <<>>
              THEN [e EXCEPT !.pc = "read", !.cur = e.cur \o e.buf, !.buf = <<>>]
         ELSE [e EXCEPT !.pc = "put"]]
    /\ EnqOnly /\ UNCHANGED <<s_queue_mutex, sqlVars, fileVars>>

\* Mutants of Enqueued and Started: last in, first out; the record is not reset.
Stacked(r) == <<r>> \o g_sql_queue
Grown(e) == e.cur \o e.buf

Enqueued(r) == Append(g_sql_queue, r)
Started(e) == e.buf

\* Queue the completed record (lock, enqueue) and start the next one with its head ...
EnqPut(c) ==
  /\ up /\ enq[c].pc = "put"
  /\ Lock(Enqueuer(c))
  /\ g_sql_queue' = Enqueued([by |-> c, rec |-> enq[c].cur])
  /\ enq' = [enq EXCEPT ![c] = [enq[c] EXCEPT !.pc = "count", !.cur = Started(enq[c]),
                                           !.buf = <<>>]]
  /\ EnqOnly /\ UNCHANGED <<g_queue_node_count, disp, checked, fileVars>>

\* ... and count it (g_queue_node_count++, unlock).
EnqCount(c) ==
  /\ up /\ EnqGoes(c, "count", "read")
  /\ g_queue_node_count' = g_queue_node_count + 1
  /\ Unlock
  /\ EnqOnly /\ UNCHANGED <<g_sql_queue, disp, checked, fileVars>>

EnqNext(c) == \/ EnqName(c) \/ EnqFopen(c) \/ EnqGetLine(c) \/ EnqGetEof(c) \/ EnqFgetsFails(c)
              \/ EnqEbadf(c) \/ EnqEof(c) \/ EnqReopen(c) \/ EnqAssemble(c) \/ EnqPut(c) \/ EnqCount(c)
-----------------------------------------------------------------------------
(* dispatch_func                                                             *)

DispOnly == UNCHANGED <<dayVars, netVars, slotVars, fileVars, talk, enq>>

\* Mutant of SomeQueued: the last record stays.
ManyQueued == g_queue_node_count > 1

\* while (g_queue_node_count > 0), read without the mutex.
SomeQueued == g_queue_node_count > 0

DispPoll ==
  /\ up /\ disp.pc = "poll"
  /\ SomeQueued
  /\ disp' = [disp EXCEPT !.pc = "lock"]
  /\ DispOnly /\ UNCHANGED <<up, s_queue_mutex, g_sql_queue, g_queue_node_count, checked>>

\* lock; if (!is_empty(g_sql_queue)) front_and_dequeue
DispPop ==
  /\ up /\ disp.pc = "lock"
  /\ \/ /\ g_sql_queue = <<>>
        /\ disp' = [disp EXCEPT !.pc = "poll"]
        /\ s_queue_mutex = Free /\ UNCHANGED <<s_queue_mutex, g_sql_queue>>
     \/ /\ g_sql_queue # <<>>
        /\ Lock(Dispatcher)
        /\ disp' = [pc |-> "uncount", sql |-> Head(g_sql_queue)]
        /\ g_sql_queue' = Tail(g_sql_queue)
  /\ DispOnly /\ UNCHANGED <<up, g_queue_node_count, checked>>

\* Mutant of Finished: the unlock is missing.
FinishedLocked == disp' = [pc |-> "poll", sql |-> NoSql] /\ UNCHANGED s_queue_mutex

\* The record is freed and the mutex unlocked.
Finished == disp' = [pc |-> "poll", sql |-> NoSql] /\ Unlock

\* "##*/" is in the second unit of a head line.
EndsHeader(u) == IsNewline(u) /\ LineKind[u[2] \div 2] \in {"head", "syntax"}
IsSyntaxError(text) ==
  \E i \in DOMAIN text : StartsRecord(text[i]) /\ LineKind[(text[i][2] + 1) \div 2] = "syntax"
ForRuleEngine(text) == /\ \E i \in DOMAIN text : EndsHeader(text[i])
                       /\ HasMarker(text)
                       /\ ~IsSyntaxError(text)

\* g_queue_node_count--; a record without its markers, or not worth checking, is freed.
DispUncount ==
  /\ up /\ disp.pc = "uncount"
  /\ g_queue_node_count' = g_queue_node_count - 1
  /\ \/ /\ ForRuleEngine(disp.sql.rec)
        /\ disp' = [disp EXCEPT !.pc = "check"]
        /\ UNCHANGED s_queue_mutex
     \/ ~ForRuleEngine(disp.sql.rec) /\ Finished
  /\ DispOnly /\ UNCHANGED <<up, g_sql_queue, checked>>

\* sql_check_sql, with the mutex held; it exits the process when the machine
\* learning server cannot be reached.
DispCheck ==
  /\ up /\ disp.pc = "check"
  /\ \/ checked' = Append(checked, disp.sql) /\ Finished /\ UNCHANGED up
     \/ /\ "ml_connect" \in Faults
        /\ up' = FALSE
        /\ UNCHANGED <<checked, disp, s_queue_mutex>>
  /\ DispOnly /\ UNCHANGED <<g_sql_queue, g_queue_node_count>>

DispNext == DispPoll \/ DispPop \/ DispUncount \/ DispCheck
-----------------------------------------------------------------------------
MainNext == CountAgent \/ Spawn

Environment == \/ \E ip \in Ips : AcceptConsole(ip) \/ AcceptAgent(ip) \/ Refuse(ip)
               \/ AcceptFails
               \/ Midnight
               \/ \E k \in Conn : PeerCloses(k)

Next == \/ Environment
        \/ MainNext
        \/ \E c \in Conn : TalkNext(c) \/ WrongCommand(c) \/ EnqNext(c)
        \/ DispNext

Spec == Init /\ [][Next]_vars

\* Every thread that can run eventually does; nothing is assumed of the peers.
Fairness == /\ WF_vars(MainNext)
            /\ \A c \in Conn : WF_vars(TalkNext(c)) /\ WF_vars(EnqNext(c))
            /\ WF_vars(DispNext)

FairSpec == Spec /\ Fairness
-----------------------------------------------------------------------------
(* The queue and its count.                                                  *)

\* Threads that have seen room in the queue and have not queued their record yet.
Committed == {c \in Conn : enq[c].pc = "put"}

(* Whenever no thread is inside a critical section, g_queue_node_count, which  *)
(* the dispatch and enqueue threads poll without the mutex, is the length of   *)
(* the list (server.c:483, 538-544, 569-575).                                  *)
CountIsLength == s_queue_mutex = Free => g_queue_node_count = Len(g_sql_queue)

(* The test for room (server.c:483) and the enqueue (538) are not atomic: each *)
(* enqueue thread can overshoot by one record, and no more, however the        *)
(* threads interleave and however stale the count is that they read.           *)
QueueBounded == Len(g_sql_queue) <= MAX_QUEUE_SIZE - 1 + MaxConn

(* s_queue_mutex is held only by a thread that still runs and will release it. *)
\* enqueue_func breaks out of its loop with the mutex held (server.c:368, 385,
\* 393) only when fgets reports a bad descriptor.
OwnerRuns == /\ \A c \in Conn : s_queue_mutex = Talker(c) => talk[c].pc = "rename"
             /\ \A c \in Conn : s_queue_mutex = Enqueuer(c) => enq[c].pc = "count"
             /\ s_queue_mutex = Dispatcher => disp.pc \in {"uncount", "check"}

Handoff == INSTANCE SqlHandoff
             WITH Records <- Record, Idle <- NoSql,
                  Capacity <- MAX_QUEUE_SIZE - 1 + MaxConn,
                  queue <- g_sql_queue, inHand <- disp.sql

(* The queue is a bounded first-in first-out handoff: the dispatch thread has  *)
(* one record in hand at a time, and every record is taken exactly once, in    *)
(* the order it was queued (server.c:537-545, 571-676).                        *)
IsHandoff == Handoff!HandoffSpec
-----------------------------------------------------------------------------
(* The records.                                                              *)

FirstLine(rec) == (rec[1][2] + 1) \div 2
LastLine(rec)  == rec[Len(rec)][2] \div 2
IsHead(line) == LineKind[line] \in {"head", "syntax"}

\* rec is the lines of one day's log from FirstLine(rec) to right before the next head.
WholeRecord(rec) ==
  /\ rec # <<>>
  /\ rec[1] # Hole /\ rec[1][2] % 2 = 1 /\ rec[Len(rec)][2] % 2 = 0
  /\ \A i \in 1 .. Len(rec) : rec[i] = <<rec[1][1], rec[1][2] + i - 1>>
  /\ LastLine(rec) < Len(LineKind) /\ IsHead(LastLine(rec) + 1)
  /\ \A l \in FirstLine(rec) + 1 .. LastLine(rec) : ~IsHead(l)

(* Every record the rule engine is called with is one whole record of a log,   *)
(* header first, although the log arrives in pieces, its file is read while    *)
(* it is written, is truncated and downloaded again after each reconnection,   *)
(* and is read by the enqueue threads of every connection (server.c:446-545).  *)
CheckedAreWhole == \A i \in 1 .. Len(checked) :
                      WholeRecord(checked[i].rec) /\ IsHead(FirstLine(checked[i].rec))

(* The records of one enqueue thread reach the rule engine in the order of the *)
(* log and none of them twice, also when the file is truncated under the       *)
(* thread's offset and downloaded again (server.c:200, 466-479).               *)
CheckedInOrder ==
  \A i, j \in 1 .. Len(checked) :
     (i < j /\ checked[i].by = checked[j].by)
        => \/ checked[i].rec[1][1] < checked[j].rec[1][1]
           \/ /\ checked[i].rec[1][1] = checked[j].rec[1][1]
              /\ LastLine(checked[i].rec) < FirstLine(checked[j].rec)
-----------------------------------------------------------------------------
(* The connections.                                                          *)

Serves(c) == talk[c].pc \in TalkPc \ {"none", "start", "uncount", "done"}

(* "there is already a socket from this ip. refuse the connection"            *)
(* (server.c:804, 832): one thread at a time serves a slot and writes its file. *)
OneTalkerPerSlot == \A c, d \in Conn : (Serves(c) /\ Serves(d) /\ Slot(c) = Slot(d)) => c = d

(* g_connected_agent_count is the number of agents whose connection was        *)
(* accepted and whose thread has not yet ended (server.c:836, 288-291).        *)
ConnectedIsCounted ==
  g_connected_agent_count =
     Cardinality({c \in Conn : \/ Slot(c) # Console /\ talk[c].pc \notin {"none", "done"}
                               \/ main = "spawn" /\ c = nconn})

(* The log the agent is asked for is the log the local file is named after      *)
(* ("add mutex for g_file_name", server.c:187: both reads of the name are       *)
(* outside the mutex).                                                          *)
AskedIsOpened ==
  \A c \in Conn : talk[c].pc \in {"recv", "write"} => conn[talk[c].sock].name = talk[c].name

(* "remove the old davinci log" (server.c:429): a log that is removed is old,   *)
(* no thread is still downloading into it.                                      *)
RemovedIsOld ==
  [][\A f \in Name \X Slots :
        (dir[f] # 0 /\ dir'[f] = 0)
           => \A c \in Conn : talk[c].pc \in {"recv", "write"} => talk[c].ino # dir[f]]_vars
-----------------------------------------------------------------------------
(* Liveness.                                                                 *)

(* Every queued record is taken by the dispatch thread, whatever the enqueue    *)
(* threads and the agents do, as long as the process runs.                      *)
QueueDrains == []<>(g_sql_queue = <<>> \/ ~up)

(* A slot whose peer has gone is given back, so that the agent can connect      *)
(* again (server.c:286, 830).                                                   *)
SlotReleased ==
  \A c \in Conn : (talk[c].pc # "none" /\ conn[c].st \in {"reset", "eof"})
                     ~> (talk[c].pc \in {"uncount", "done"} \/ ~up)
=============================================================================
