------------------------------ MODULE PingPong ------------------------------
(***************************************************************************)
(* APUE/11.threads/sample/multi_thread_server.c: the sample the IDS server *)
(* grew from.                                                              *)
(*                                                                         *)
(* A talk_to_client thread per client writes what it receives to ping.txt  *)
(* or pong.txt, while the one enqueue_func thread reads the other file and *)
(* queues its lines for the one dispatch_func thread.  Five flags, under   *)
(* flag_ping_mutex, tell whose turn each file is.  Nothing else is shared  *)
(* under that mutex, so each of its critical sections is one step, and so  *)
(* is each critical section of queue_mutex: the one variable polled        *)
(* without it, queue_node_count, changes once in each.                     *)
(*                                                                         *)
(* What the lines say is left out: the number of lines the enqueue thread  *)
(* finds in a file is arbitrary, since it may read it while it is written. *)
(***************************************************************************)
EXTENDS Integers

CONSTANTS
  PING_PONG_LINE_COUNT, \* buffers received before the files are swapped
  MaxConn,              \* bound on accepted connections
  FileLines,            \* bound on the lines of a file
  MaxQueued,            \* bound on queue_node_count
  OneAtATime,           \* TRUE: a client connects when the thread of the last one is done
  Faults                \* the library calls that may fail

Conn == 1 .. MaxConn
File == {"ping", "pong"}
NULL == "null"

ASSUME ConstantsAssumption ==
  /\ PING_PONG_LINE_COUNT \in Nat
  /\ MaxConn \in Nat
  /\ FileLines \in Nat
  /\ MaxQueued \in Nat
  /\ OneAtATime \in BOOLEAN
  /\ Faults \subseteq {"accept", "fopen"}

VARIABLES
  up,                 \* FALSE once the process has exited or crashed
  exists,             \* the files that exist
  g_flag_ping,        \* the file the socket is writing: "ping" for 1, "pong" for 0
  g_enqueue_done,     \* per file: g_enqueue_done_ping, g_enqueue_done_pong
  g_writing_done,
  g_writing_count,    \* only compared with PING_PONG_LINE_COUNT: saturates above it
  g_socket_is_active,
  queue_node_count,   \* also the length of g_sql_queue
  nconn,
  talk, enq           \* the threads, with the file they have open

vars == <<up, exists, g_flag_ping, g_enqueue_done, g_writing_done, g_writing_count,
          g_socket_is_active, queue_node_count, nconn, talk, enq>>

Other(f) == IF f = "ping" THEN "pong" ELSE "ping"

TalkState == [pc : {"none", "start", "retry", "check", "swap", "recv", "exit", "fclose", "done"},
              fp : File \cup {NULL}]
EnqState  == [pc : {"poll", "read"}, fp : File \cup {NULL}, left : 0 .. FileLines]

TypeOK ==
  /\ up \in BOOLEAN
  /\ exists \subseteq File
  /\ g_flag_ping \in File
  /\ g_enqueue_done \in [File -> BOOLEAN]
  /\ g_writing_done \in [File -> BOOLEAN]
  /\ g_writing_count \in 0 .. PING_PONG_LINE_COUNT + 1
  /\ g_socket_is_active \in BOOLEAN
  /\ queue_node_count \in 0 .. MaxQueued
  /\ nconn \in 0 .. MaxConn
  /\ talk \in [Conn -> TalkState]
  /\ enq \in EnqState

\* The files are those of an earlier run, if there was one.
Init ==
  /\ up = TRUE
  /\ exists \in SUBSET File
  /\ g_flag_ping = "ping"
  /\ g_enqueue_done = [f \in File |-> f = "ping"]
  /\ g_writing_done = [f \in File |-> f = "pong"]
  /\ g_writing_count = 0
  /\ g_socket_is_active = FALSE
  /\ queue_node_count = 0
  /\ nconn = 0
  /\ talk = [c \in Conn |-> [pc |-> "none", fp |-> NULL]]
  /\ enq = [pc |-> "poll", fp |-> NULL, left |-> 0]

\* A flag of file f after it is set, or cleared.
Set(flags, f)   == [flags EXCEPT ![f] = TRUE]
Clear(flags, f) == [flags EXCEPT ![f] = FALSE]
-----------------------------------------------------------------------------
(* main                                                                      *)

Accept ==
  /\ up /\ nconn < MaxConn
  /\ OneAtATime => \A c \in 1 .. nconn : talk[c].pc = "done"
  /\ nconn' = nconn + 1
  /\ talk' = [talk EXCEPT ![nconn'].pc = "start"]
  /\ UNCHANGED <<up, exists, g_flag_ping, g_enqueue_done, g_writing_done, g_writing_count,
                 g_socket_is_active, queue_node_count, enq>>

\* main leaves its loop and returns, which ends the process.
AcceptFails ==
  /\ up /\ "accept" \in Faults
  /\ up' = FALSE
  /\ UNCHANGED <<exists, g_flag_ping, g_enqueue_done, g_writing_done, g_writing_count,
                 g_socket_is_active, queue_node_count, nconn, talk, enq>>
-----------------------------------------------------------------------------
(* talk_to_client                                                            *)

TalkGoes(c, from, to) == talk[c].pc = from /\ talk' = [talk EXCEPT ![c].pc = to]

TalkStart(c) ==
  /\ up /\ TalkGoes(c, "start", "retry")
  /\ g_socket_is_active' = TRUE
  /\ UNCHANGED <<up, exists, g_flag_ping, g_enqueue_done, g_writing_done, g_writing_count,
                 queue_node_count, nconn, enq>>

\* The file to write is free once the enqueue thread is done with the other one;
\* until then, and when the file cannot be opened, try again.
TalkOpen(c) ==
  /\ up /\ talk[c].pc = "retry"
  /\ g_enqueue_done[Other(g_flag_ping)]
  /\ talk' = [talk EXCEPT ![c] = [pc |-> "check", fp |-> g_flag_ping]]
  /\ exists' = exists \cup {g_flag_ping}
  /\ UNCHANGED <<up, g_flag_ping, g_enqueue_done, g_writing_done, g_writing_count,
                 g_socket_is_active, queue_node_count, nconn, enq>>

\* c assigns n to g_writing_count.  All clients have one counter and no mutex for
\* it: with another one running what is left there may be anything.
Counts(c, n) ==
  \/ g_writing_count' = n
  \/ /\ \E d \in Conn \ {c} : talk[d].pc \notin {"none", "done"}
     /\ g_writing_count' \in 0 .. PING_PONG_LINE_COUNT + 1

Enough == g_writing_count > PING_PONG_LINE_COUNT

TalkCheck(c) ==
  /\ up /\ TalkGoes(c, "check", IF Enough THEN "swap" ELSE "recv")
  /\ UNCHANGED <<up, exists, g_flag_ping, g_enqueue_done, g_writing_done, g_writing_count,
                 g_socket_is_active, queue_node_count, nconn, enq>>

\* Mutant of Handed: the enqueue thread is not told.
NotHanded(f) == g_writing_done

\* The enqueue thread may read file f.
Handed(f) == Set(g_writing_done, f)

\* The enqueue thread is done with the other file: the files are swapped.
TalkSwap(c) ==
  /\ up /\ talk[c].pc = "swap"
  /\ g_enqueue_done[Other(g_flag_ping)]
  /\ g_flag_ping' = Other(g_flag_ping)
  /\ g_writing_done' = Handed(g_flag_ping)
  /\ g_enqueue_done' = Clear(g_enqueue_done, Other(g_flag_ping))
  /\ \/ /\ talk' = [talk EXCEPT ![c] = [pc |-> "recv", fp |-> Other(g_flag_ping)]]
        /\ exists' = exists \cup {Other(g_flag_ping)}
     \/ /\ "fopen" \in Faults
        /\ talk' = [talk EXCEPT ![c] = [pc |-> "recv", fp |-> NULL]]
        /\ UNCHANGED exists
  /\ Counts(c, 0)
  /\ UNCHANGED <<up, g_socket_is_active, queue_node_count, nconn, enq>>

\* The other file is not free: go on with this one.
TalkNoSwap(c) ==
  /\ up /\ TalkGoes(c, "swap", "recv")
  /\ ~g_enqueue_done[Other(g_flag_ping)]
  /\ Counts(c, 0)
  /\ UNCHANGED <<up, exists, g_flag_ping, g_enqueue_done, g_writing_done, g_socket_is_active,
                 queue_node_count, nconn, enq>>

\* recv: a full buffer, a part of one (or EAGAIN, or a failing write), the end.
\* What is received is written; to a file that could not be opened is a crash.
TalkRecv(c) ==
  /\ up
  /\ \/ TalkGoes(c, "recv", "recv") /\ up' = (talk[c].fp # NULL)
     \/ TalkGoes(c, "recv", "check") /\ up' \in {TRUE, talk[c].fp # NULL}
     \/ TalkGoes(c, "recv", "exit") /\ UNCHANGED up
  /\ Counts(c, IF Enough THEN g_writing_count ELSE g_writing_count + 1)
  /\ UNCHANGED <<exists, g_flag_ping, g_enqueue_done, g_writing_done, g_socket_is_active,
                 queue_node_count, nconn, enq>>

\* The flags say that the file is complete ...
TalkExit(c) ==
  /\ up /\ TalkGoes(c, "exit", "fclose")
  /\ Counts(c, 0)
  /\ g_socket_is_active' = FALSE
  /\ g_writing_done' = Handed(g_flag_ping)
  /\ UNCHANGED <<up, exists, g_flag_ping, g_enqueue_done, queue_node_count, nconn, enq>>

\* ... before it is closed.
TalkFclose(c) ==
  /\ up
  /\ talk[c].pc = "fclose"
  /\ talk' = [talk EXCEPT ![c] = [pc |-> "done", fp |-> NULL]]
  /\ up' = (talk[c].fp # NULL)
  /\ UNCHANGED <<exists, g_flag_ping, g_enqueue_done, g_writing_done, g_writing_count,
                 g_socket_is_active, queue_node_count, nconn, enq>>

TalkNext(c) == \/ TalkStart(c) \/ TalkOpen(c) \/ TalkCheck(c) \/ TalkSwap(c) \/ TalkNoSwap(c)
               \/ TalkRecv(c) \/ TalkExit(c) \/ TalkFclose(c)
-----------------------------------------------------------------------------
(* enqueue_func                                                              *)

\* File f is opened for reading; a file that does not exist gives NULL.
Reads(f) ==
  /\ \E n \in 0 .. FileLines :
       enq' = [pc |-> "read", fp |-> IF f \in exists THEN f ELSE NULL, left |-> n]
  /\ g_writing_done' = Clear(g_writing_done, f)

\* The file that is not being written has been completed.
EnqOther ==
  /\ up /\ enq.pc = "poll"
  /\ g_writing_done[Other(g_flag_ping)]
  /\ Reads(Other(g_flag_ping))
  /\ UNCHANGED <<up, exists, g_flag_ping, g_enqueue_done, g_writing_count,
                 g_socket_is_active, queue_node_count, nconn, talk>>

\* There is no client, and the last one has completed the file it wrote.
LastFile == ~g_socket_is_active /\ g_writing_done[g_flag_ping]

\* Then the enqueue thread swaps the files itself.
EnqLast ==
  /\ up /\ enq.pc = "poll"
  /\ ~g_writing_done[Other(g_flag_ping)]
  /\ LastFile
  /\ Reads(g_flag_ping)
  /\ g_flag_ping' = Other(g_flag_ping)
  /\ UNCHANGED <<up, exists, g_enqueue_done, g_writing_count, g_socket_is_active,
                 queue_node_count, nconn, talk>>

\* getline from NULL is a crash.
EnqNoFile ==
  /\ up /\ enq.pc = "read" /\ enq.fp = NULL
  /\ up' = FALSE
  /\ UNCHANGED <<exists, g_flag_ping, g_enqueue_done, g_writing_done, g_writing_count,
                 g_socket_is_active, queue_node_count, nconn, talk, enq>>

EnqLine ==
  /\ up /\ enq.pc = "read" /\ enq.fp # NULL
  /\ enq.left > 0 /\ queue_node_count < MaxQueued
  /\ enq' = [enq EXCEPT !.left = @ - 1]
  /\ queue_node_count' = queue_node_count + 1
  /\ UNCHANGED <<up, exists, g_flag_ping, g_enqueue_done, g_writing_done, g_writing_count,
                 g_socket_is_active, nconn, talk>>

\* Mutant of Done: the test of the flag the other way round.
DoneWithWritten == Set(g_enqueue_done, g_flag_ping)

\* What the enqueue thread is done with is what is not being written by now.
Done == Set(g_enqueue_done, Other(g_flag_ping))

EnqEof ==
  /\ up /\ enq.pc = "read" /\ enq.fp # NULL
  /\ enq.left = 0
  /\ enq' = [enq EXCEPT !.pc = "poll", !.fp = NULL]
  /\ g_enqueue_done' = Done
  /\ UNCHANGED <<up, exists, g_flag_ping, g_writing_done, g_writing_count,
                 g_socket_is_active, queue_node_count, nconn, talk>>

EnqNext == EnqOther \/ EnqLast \/ EnqNoFile \/ EnqLine \/ EnqEof
-----------------------------------------------------------------------------
(* dispatch_func                                                             *)

SomeQueued == queue_node_count > 0

DispNext ==
  /\ up /\ SomeQueued
  /\ queue_node_count' = queue_node_count - 1
  /\ UNCHANGED <<up, exists, g_flag_ping, g_enqueue_done, g_writing_done, g_writing_count,
                 g_socket_is_active, nconn, talk, enq>>
-----------------------------------------------------------------------------
Next == \/ Accept \/ AcceptFails
        \/ \E c \in Conn : TalkNext(c)
        \/ EnqNext
        \/ DispNext

Spec == Init /\ [][Next]_vars

\* The threads run; a client need not send anything, nor close.
Fairness == /\ \A c \in Conn : WF_vars(TalkStart(c) \/ TalkOpen(c))
            /\ WF_vars(EnqNext)
            /\ WF_vars(DispNext)

FairSpec == Spec /\ Fairness
-----------------------------------------------------------------------------
(* The talk threads wait for g_enqueue_done of the file that is not written,   *)
(* and the enqueue thread for g_writing_done: never all of them at once, with  *)
(* any number of clients coming, going and swapping the files                  *)
(* (multi_thread_server.c:71-102, 112-151, 285-346, 378-381).                  *)
NoStandoff == \/ g_enqueue_done[Other(g_flag_ping)]
              \/ g_writing_done[Other(g_flag_ping)]
              \/ enq.pc = "read"

(* A client that comes after the others have gone gets a file to write         *)
(* (multi_thread_server.c:69-102).                                             *)
ClientServed == \A c \in Conn : (talk[c].pc = "retry") ~> (talk[c].pc # "retry" \/ ~up)

(* What the last client has left behind is read although nobody swaps the      *)
(* files any more (multi_thread_server.c:297-307, 328-338).                    *)
LastFileRead ==
  \A f \in File : (g_writing_done[f] /\ ~g_socket_is_active)
                     ~> (~g_writing_done[f] \/ g_socket_is_active \/ ~up)

(* The files are swapped "if (g_writing_done && g_enqueue_done)"               *)
(* (multi_thread_server.c:111): the file that is truncated is not being read.  *)
SwappedIsRead ==
  [][\A c \in Conn : TalkSwap(c) => ~(enq.pc = "read" /\ enq.fp = Other(g_flag_ping))]_vars
=============================================================================
