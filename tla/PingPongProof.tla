--------------------------- MODULE PingPongProof ----------------------------
(* The threads of the ping-pong server never wait for each other, whatever   *)
(* the number of clients, of lines and of buffers between two swaps.         *)
EXTENDS PingPong, TLAPS

LEMMA OtherFile == \A f \in File : Other(f) \in File /\ Other(f) # f /\ Other(Other(f)) = f
  BY DEF File, Other

LEMMA InitType == Init => TypeOK
  <1> SUFFICES ASSUME Init PROVE TypeOK
    OBVIOUS
  <1>1. /\ g_enqueue_done \in [File -> BOOLEAN] /\ g_writing_done \in [File -> BOOLEAN]
        /\ g_flag_ping \in File /\ exists \subseteq File
    BY DEF Init, File
  <1>2. talk \in [Conn -> TalkState] /\ enq \in EnqState
    BY ConstantsAssumption DEF Init, TalkState, EnqState
  <1>3. g_writing_count \in 0 .. PING_PONG_LINE_COUNT + 1 /\ queue_node_count \in 0 .. MaxQueued
    BY ConstantsAssumption DEF Init
  <1>4. nconn \in 0 .. MaxConn
    BY ConstantsAssumption DEF Init
  <1>5. up \in BOOLEAN /\ g_socket_is_active \in BOOLEAN
    BY Zenon DEF Init
  <1> QED BY <1>1, <1>2, <1>3, <1>4, <1>5, Zenon DEF TypeOK

LEMMA TalkType ==
  ASSUME TypeOK, NEW c \in Conn, TalkNext(c)
  PROVE  TypeOK'
  <1> USE OtherFile, ConstantsAssumption
  <1>1. talk[c] \in TalkState /\ g_flag_ping \in File
    BY DEF TypeOK
  <1>2. ASSUME NEW r \in TalkState, talk' = [talk EXCEPT ![c] = r] PROVE talk' \in [Conn -> TalkState]
    BY <1>2 DEF TypeOK
  <1>3. ASSUME NEW from, NEW to \in {"retry", "check", "recv", "swap", "exit", "fclose"}, TalkGoes(c, from, to)
        PROVE  talk' \in [Conn -> TalkState]
    <2> DEFINE r == [talk[c] EXCEPT !.pc = to]
    <2>1. r \in TalkState
      BY <1>1 DEF TalkState
    <2>2. talk' = [talk EXCEPT ![c] = r]
      BY <1>3 DEF TalkGoes
    <2> HIDE DEF r
    <2> QED BY <1>2, <2>1, <2>2
  <1>4. CASE TalkStart(c)
    BY <1>3, <1>4 DEF TalkStart, TypeOK
  <1>12. ASSUME NEW n \in 0 .. PING_PONG_LINE_COUNT + 1, Counts(c, n)
         PROVE  g_writing_count' \in 0 .. PING_PONG_LINE_COUNT + 1
    BY <1>12 DEF Counts
  <1>13. 0 \in 0 .. PING_PONG_LINE_COUNT + 1
    OBVIOUS
  <1>5. CASE TalkOpen(c)
    <2>1. [pc |-> "check", fp |-> g_flag_ping] \in TalkState
      BY <1>1 DEF TalkState
    <2> QED BY <1>1, <1>2, <1>5, <2>1 DEF TalkOpen, TypeOK
  <1>6. CASE TalkSwap(c)
    <2>1. \A f \in File \cup {NULL} : [pc |-> "recv", fp |-> f] \in TalkState
      BY DEF TalkState
    <2>2. talk' \in [Conn -> TalkState]
      BY <1>1, <1>2, <1>6, <2>1 DEF TalkSwap
    <2>3. /\ exists' \subseteq File /\ g_flag_ping' \in File
          /\ g_enqueue_done' \in [File -> BOOLEAN] /\ g_writing_done' \in [File -> BOOLEAN]
      BY <1>1, <1>6 DEF TalkSwap, TypeOK, Handed, Set, Clear
    <2>4. g_writing_count' \in 0 .. PING_PONG_LINE_COUNT + 1
      BY <1>6, <1>12, <1>13 DEF TalkSwap
    <2> QED BY <1>6, <2>2, <2>3, <2>4 DEF TalkSwap, TypeOK
  <1>7. CASE TalkNoSwap(c)
    <2>1. g_writing_count' \in 0 .. PING_PONG_LINE_COUNT + 1
      BY <1>7, <1>12, <1>13 DEF TalkNoSwap
    <2> QED BY <1>3, <1>7, <2>1 DEF TalkNoSwap, TypeOK
  <1>14. CASE TalkCheck(c)
    <2>1. talk' \in [Conn -> TalkState]
      <3> DEFINE to == IF Enough THEN "swap" ELSE "recv"
      <3>1. TalkGoes(c, "check", to) /\ to \in {"swap", "recv"}
        BY <1>14 DEF TalkCheck
      <3> HIDE DEF to
      <3> QED BY <1>3, <3>1
    <2> QED BY <1>14, <2>1 DEF TalkCheck, TypeOK
  <1>8. CASE TalkRecv(c)
    <2>1. talk' \in [Conn -> TalkState] /\ up' \in BOOLEAN
      BY <1>3, <1>8 DEF TalkRecv, TypeOK
    <2>2. g_writing_count' \in 0 .. PING_PONG_LINE_COUNT + 1
      <3> DEFINE n == IF Enough THEN g_writing_count ELSE g_writing_count + 1
      <3>1. Counts(c, n)
        BY <1>8 DEF TalkRecv
      <3>2. n \in 0 .. PING_PONG_LINE_COUNT + 1
        BY DEF TypeOK, Enough
      <3> HIDE DEF n
      <3> QED BY <1>12, <3>1, <3>2
    <2> QED BY <1>8, <2>1, <2>2 DEF TalkRecv, TypeOK
  <1>9. CASE TalkExit(c)
    <2>1. talk' \in [Conn -> TalkState]
      BY <1>3, <1>9 DEF TalkExit
    <2>2. g_writing_done' \in [File -> BOOLEAN]
      BY <1>1, <1>9 DEF TalkExit, TypeOK, Handed, Set
    <2>3. g_writing_count' \in 0 .. PING_PONG_LINE_COUNT + 1
      BY <1>9, <1>12, <1>13 DEF TalkExit
    <2>4. g_socket_is_active' \in BOOLEAN
      BY <1>9, Zenon DEF TalkExit
    <2>5. UNCHANGED <<up, exists, g_flag_ping, g_enqueue_done, queue_node_count, nconn, enq>>
      BY <1>9 DEF TalkExit
    <2> QED BY <2>1, <2>2, <2>3, <2>4, <2>5, Zenon DEF TypeOK
  <1>10. CASE TalkFclose(c)
    <2>1. [pc |-> "done", fp |-> NULL] \in TalkState
      BY DEF TalkState
    <2> QED BY <1>2, <1>10, <2>1 DEF TalkFclose, TypeOK
  <1> QED BY <1>4, <1>5, <1>6, <1>7, <1>8, <1>9, <1>10, <1>14 DEF TalkNext

LEMMA EnqType == ASSUME TypeOK, EnqNext PROVE TypeOK'
  <1> USE OtherFile, ConstantsAssumption
  <1>1. enq \in EnqState /\ g_flag_ping \in File /\ g_writing_done \in [File -> BOOLEAN]
    BY DEF TypeOK
  <1>2. ASSUME NEW f \in File, Reads(f)
        PROVE  enq' \in EnqState /\ g_writing_done' \in [File -> BOOLEAN]
    BY <1>1, <1>2 DEF Reads, EnqState, Clear
  <1>3. CASE EnqOther
    BY <1>1, <1>2, <1>3 DEF EnqOther, TypeOK
  <1>4. CASE EnqLast
    BY <1>1, <1>2, <1>4 DEF EnqLast, TypeOK
  <1>5. CASE EnqNoFile
    BY <1>5 DEF EnqNoFile, TypeOK
  <1>6. CASE EnqLine
    <2>1. enq' \in EnqState
      BY <1>1, <1>6 DEF EnqLine, EnqState
    <2> QED BY <1>6, <2>1 DEF EnqLine, TypeOK
  <1>7. CASE EnqEof
    <2>1. enq' \in EnqState
      BY <1>1, <1>7 DEF EnqEof, EnqState
    <2> QED BY <1>1, <1>7, <2>1 DEF EnqEof, TypeOK, Done, Set
  <1> QED BY <1>3, <1>4, <1>5, <1>6, <1>7 DEF EnqNext

LEMMA NextType == ASSUME TypeOK, [Next]_vars PROVE TypeOK'
  <1>1. CASE Accept
    <2>1. nconn' \in 0 .. MaxConn /\ nconn' \in Conn
      BY <1>1, ConstantsAssumption DEF Accept, TypeOK, Conn
    <2>2. [talk[nconn'] EXCEPT !.pc = "start"] \in TalkState
      BY <2>1 DEF TypeOK, TalkState
    <2> QED BY <1>1, <2>1, <2>2 DEF Accept, TypeOK
  <1>2. CASE AcceptFails
    BY <1>2 DEF AcceptFails, TypeOK
  <1>3. CASE DispNext
    BY <1>3, ConstantsAssumption DEF DispNext, SomeQueued, TypeOK
  <1>4. CASE UNCHANGED vars
    BY <1>4 DEF vars, TypeOK
  <1> QED BY <1>1, <1>2, <1>3, <1>4, TalkType, EnqType DEF Next

(* Every variable of the ping-pong server keeps its type: the queue is never   *)
(* counted below zero (multi_thread_server.c:399-405).                         *)
THEOREM TypeCorrect == Spec => []TypeOK
  <1>1. TypeOK /\ [Next]_vars => TypeOK'
    BY NextType
  <1> QED BY InitType, <1>1, PTL DEF Spec
-----------------------------------------------------------------------------
(* NoStandoff with TypeOK is inductive: a talk thread takes g_enqueue_done of  *)
(* a file only when it gives the other one away, and the enqueue thread takes  *)
(* g_writing_done only to start reading, after which it gives g_enqueue_done.  *)

LEMMA TalkNoStandoff ==
  ASSUME TypeOK, NoStandoff, NEW c \in Conn, TalkNext(c)
  PROVE  NoStandoff'
  <1>1. CASE TalkSwap(c)
    <2>1. Other(g_flag_ping') = g_flag_ping /\ g_flag_ping \in File
      BY <1>1, OtherFile DEF TalkSwap, TypeOK
    <2>2. g_writing_done'[g_flag_ping]
      BY <1>1, <2>1 DEF TalkSwap, TypeOK, Handed, Set
    <2> QED BY <2>1, <2>2 DEF NoStandoff
  <1>2. CASE TalkExit(c)
    <2>1. \A f \in File : g_writing_done[f] => g_writing_done'[f]
      BY <1>2 DEF TalkExit, TypeOK, Handed, Set
    <2>2. UNCHANGED <<g_flag_ping, g_enqueue_done, enq>> /\ Other(g_flag_ping) \in File
      BY <1>2, OtherFile DEF TalkExit, TypeOK
    <2> QED BY <2>1, <2>2 DEF NoStandoff
  <1>3. CASE UNCHANGED <<g_flag_ping, g_enqueue_done, g_writing_done, enq>>
    BY <1>3 DEF NoStandoff
  <1> QED
    BY <1>1, <1>2, <1>3 DEF TalkNext, TalkStart, TalkOpen, TalkCheck, TalkNoSwap, TalkRecv, TalkFclose

LEMMA EnqNoStandoff ==
  ASSUME TypeOK, NoStandoff, EnqNext
  PROVE  NoStandoff'
  <1>1. CASE EnqOther \/ EnqLast
    BY <1>1 DEF EnqOther, EnqLast, Reads, NoStandoff
  <1>2. CASE EnqNoFile
    BY <1>2 DEF EnqNoFile, NoStandoff
  <1>3. CASE EnqLine
    <2>1. enq'.pc = "read"
      BY <1>3 DEF EnqLine, TypeOK, EnqState
    <2> QED BY <2>1 DEF NoStandoff
  <1>4. CASE EnqEof
    <2>1. g_enqueue_done'[Other(g_flag_ping)] /\ g_flag_ping' = g_flag_ping
      BY <1>4, OtherFile DEF EnqEof, Done, Set, TypeOK
    <2> QED BY <2>1 DEF NoStandoff
  <1> QED BY <1>1, <1>2, <1>3, <1>4 DEF EnqNext

(* Some thread of the ping-pong server can always move the files on: the talk  *)
(* threads and the enqueue thread never wait for each other's flags at once    *)
(* (multi_thread_server.c:71-102, 112-151, 285-346, 378-381).                  *)
THEOREM NeverStandoff == Spec => []NoStandoff
  <1>1. Init => NoStandoff
    BY DEF Init, NoStandoff, Other, File
  <1>2. TypeOK /\ NoStandoff /\ [Next]_vars => NoStandoff'
    <2> SUFFICES ASSUME TypeOK, NoStandoff, [Next]_vars PROVE NoStandoff'
      OBVIOUS
    <2>1. CASE Accept \/ AcceptFails \/ DispNext \/ UNCHANGED vars
      BY <2>1 DEF Accept, AcceptFails, DispNext, vars, NoStandoff
    <2> QED BY <2>1, TalkNoStandoff, EnqNoStandoff DEF Next
  <1> QED BY TypeCorrect, <1>1, <1>2, PTL DEF Spec
=============================================================================
