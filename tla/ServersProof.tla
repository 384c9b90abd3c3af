---------------------------- MODULE ServersProof ----------------------------
(***************************************************************************)
(* Proofs about the servers of Servers.  Of IdsServer, for any number of   *)
(* connections, hosts and days: the types of its variables, the queue of   *)
(* records and, from the first line below on, a download from the accept   *)
(* to the call of the rule engine.  Of Multiplex, for any number of        *)
(* clients and a table of any size: what select, poll and epoll have found *)
(* is there to be read.  At the end, the same of the servers side by side. *)
(***************************************************************************)
EXTENDS Servers, FiniteSetTheorems, SequenceTheorems, WellFoundedInduction, TLAPS

\* Where an enqueue thread has its file open.
Reading == {"read", "room", "put", "count"}

\* What a thread's program counter says about the values it works with.
Shape ==
  /\ \A c \in Conn : talk[c].pc # "none" => /\ c <= nconn
                                            /\ Slot(c) \in Slots
                                            /\ g_wa_array[Slot(c)] \in Conn
  /\ \A c \in Conn : talk[c].pc \notin {"none", "start"} => talk[c].sock \in Conn
  /\ \A c \in Conn : enq[c].pc # "none" => c <= nconn /\ Slot(c) \in Slots
  /\ \A c \in Conn : enq[c].pc \in Reading => enq[c].ino \in Conn
  /\ main \in {"count", "spawn"} => /\ nconn \in Conn /\ Slot(nconn) \in Slots
                                    /\ talk[nconn].pc = "none" /\ enq[nconn].pc = "none"
  /\ IF disp.pc \in {"uncount", "check"} THEN disp.sql.by \in Conn ELSE disp.sql = NoSql

TypeInv == TypeOK /\ Shape

LEMMA Units == NUnits \in Nat /\ Hole \in Unit \cup {Hole} /\ <<>> \in Text
  BY ConstantsAssumption DEF NUnits, Text

LEMMA InitType == Init => TypeInv
  <1> SUFFICES ASSUME Init PROVE TypeInv
    OBVIOUS
  <1>1. TypeOK
    BY ConstantsAssumption, Units
    DEF Init, TypeOK, Threads, Name, Conn, Slots, TalkPc, EnqPc, NoSql,
        ConnState, TalkState, EnqState, DispState, Record
  <1>2. Shape
    BY <1>1 DEF Init, TypeOK, Shape, NoSql, Reading
  <1> QED BY <1>1, <1>2 DEF TypeInv

\* What the threads' steps make of their state has its type.
LEMMA ConnMoves ==
  ASSUME NEW r \in ConnState
  PROVE  /\ \A s \in {"none", "open", "reset", "eof"} :
               [r EXCEPT !.st = s] \in ConnState /\ [r EXCEPT !.st = s].slot = r.slot
         /\ \A n \in Name :
               [r EXCEPT !.name = n] \in ConnState /\ [r EXCEPT !.name = n].slot = r.slot
         /\ \A p \in 0 .. NUnits :
               [r EXCEPT !.pos = p] \in ConnState /\ [r EXCEPT !.pos = p].slot = r.slot
         /\ \A a \in Ips, i \in Slots \cup {-1} :
               LET q == [r EXCEPT !.ip = a, !.slot = i, !.st = "open"]
               IN  q \in ConnState /\ q.slot = i
  BY ZenonT(60) DEF ConnState

LEMMA TalkMoves ==
  ASSUME NEW t \in TalkState, NEW p \in TalkPc
  PROVE  /\ LET u == [t EXCEPT !.pc = p]
            IN  u \in TalkState /\ u.pc = p /\ u.sock = t.sock
         /\ \A w \in 0 .. MaxConn :
              LET u == [t EXCEPT !.sock = w, !.pc = p]
              IN  u \in TalkState /\ u.pc = p /\ u.sock = w
         /\ \A n \in Name, i \in 0 .. MaxConn :
              LET u == [t EXCEPT !.pc = p, !.name = n, !.ino = i, !.pos = 0]
              IN  u \in TalkState /\ u.pc = p /\ u.sock = t.sock
         /\ \A b \in Unit \cup {Hole} :
              LET u == [t EXCEPT !.buf = b, !.pc = p]
              IN  u \in TalkState /\ u.pc = p /\ u.sock = t.sock
         /\ LET u == [t EXCEPT !.pc = p, !.pos = @ + 1, !.buf = Hole]
            IN  u \in TalkState /\ u.pc = p /\ u.sock = t.sock
         /\ \A n \in Name :
              LET u == [t EXCEPT !.pc = p, !.name = n]
              IN  u \in TalkState /\ u.pc = p /\ u.sock = t.sock
  <1>1. LET u == [t EXCEPT !.pc = p]
        IN  u \in TalkState /\ u.pc = p /\ u.sock = t.sock
    BY DEF TalkState
  <1>2. \A w \in 0 .. MaxConn :
          LET u == [t EXCEPT !.sock = w, !.pc = p]
          IN  u \in TalkState /\ u.pc = p /\ u.sock = w
    BY DEF TalkState
  <1>3. \A n \in Name, i \in 0 .. MaxConn :
          LET u == [t EXCEPT !.pc = p, !.name = n, !.ino = i, !.pos = 0]
          IN  u \in TalkState /\ u.pc = p /\ u.sock = t.sock
    BY DEF TalkState
  <1>4. \A b \in Unit \cup {Hole} :
          LET u == [t EXCEPT !.buf = b, !.pc = p]
          IN  u \in TalkState /\ u.pc = p /\ u.sock = t.sock
    BY DEF TalkState
  <1>5. LET u == [t EXCEPT !.pc = p, !.pos = @ + 1, !.buf = Hole]
        IN  u \in TalkState /\ u.pc = p /\ u.sock = t.sock
    <2> DEFINE q == t.pos + 1
               u == [t EXCEPT !.pc = p, !.pos = q, !.buf = Hole]
    <2>1. q \in Nat /\ Hole \in Unit \cup {Hole}
      BY DEF TalkState
    <2>2. u \in TalkState /\ u.pc = p /\ u.sock = t.sock
      <3> HIDE DEF q
      <3> QED BY <2>1 DEF TalkState
    <2> QED BY <2>2
  <1>6. \A n \in Name :
          LET u == [t EXCEPT !.pc = p, !.name = n]
          IN  u \in TalkState /\ u.pc = p /\ u.sock = t.sock
    BY DEF TalkState
  <1> QED BY <1>1, <1>2, <1>3, <1>4, <1>5, <1>6

LEMMA EnqMoves ==
  ASSUME NEW e \in EnqState, NEW p \in EnqPc
  PROVE  /\ LET f == [e EXCEPT !.pc = p]
            IN  f \in EnqState /\ f.pc = p /\ f.ino = e.ino
         /\ \A n \in Name :
              LET f == [e EXCEPT !.name = n, !.pc = p]
              IN  f \in EnqState /\ f.pc = p /\ f.ino = e.ino
         /\ \A i \in 0 .. MaxConn :
              LET f == [e EXCEPT !.ino = i, !.pc = p]
              IN  f \in EnqState /\ f.pc = p /\ f.ino = i
         /\ \A i \in 0 .. MaxConn, n \in 0 .. MAX_WAITING_COUNT :
              LET f == [e EXCEPT !.pc = p, !.ino = i, !.nsl = n]
              IN  f \in EnqState /\ f.pc = p /\ f.ino = i
  <1>1. LET f == [e EXCEPT !.pc = p]
        IN  f \in EnqState /\ f.pc = p /\ f.ino = e.ino
    BY DEF EnqState
  <1>2. \A n \in Name :
          LET f == [e EXCEPT !.name = n, !.pc = p]
          IN  f \in EnqState /\ f.pc = p /\ f.ino = e.ino
    BY DEF EnqState
  <1>3. \A i \in 0 .. MaxConn :
          LET f == [e EXCEPT !.ino = i, !.pc = p]
          IN  f \in EnqState /\ f.pc = p /\ f.ino = i
    BY DEF EnqState
  <1>4. \A i \in 0 .. MaxConn, n \in 0 .. MAX_WAITING_COUNT :
          LET f == [e EXCEPT !.pc = p, !.ino = i, !.nsl = n]
          IN  f \in EnqState /\ f.pc = p /\ f.ino = i
    BY DEF EnqState
  <1> QED BY <1>1, <1>2, <1>3, <1>4

LEMMA EnqReads ==
  ASSUME NEW e \in EnqState, NEW p \in EnqPc, NEW l \in 0 .. HEADER_LINES + 1
  PROVE  /\ LET f == [e EXCEPT !.line = l, !.pc = p]
            IN  f \in EnqState /\ f.pc = p /\ f.ino = e.ino
         /\ \A h \in Nat, b \in Text :
              LET f == [e EXCEPT !.line = l, !.off = h, !.buf = b, !.pc = p]
              IN  f \in EnqState /\ f.pc = p /\ f.ino = e.ino
  BY DEF EnqState

LEMMA EnqAssembles ==
  ASSUME NEW e \in EnqState, NEW p \in EnqPc, NEW x \in Text, NEW y \in Text
  PROVE  /\ LET f == [e EXCEPT !.pc = p, !.buf = y]
            IN  f \in EnqState /\ f.pc = p /\ f.ino = e.ino
         /\ LET f == [e EXCEPT !.pc = p, !.cur = x, !.buf = y]
            IN  f \in EnqState /\ f.pc = p /\ f.ino = e.ino
  BY DEF EnqState

\* A step of talk_to_client that only moves its own thread keeps Shape.
LEMMA TalkStep ==
  ASSUME TypeInv, NEW c \in Conn, NEW t \in TalkState,
         talk[c].pc # "none", t.pc \notin {"none", "start"}, t.sock \in Conn,
         talk' = [talk EXCEPT ![c] = t],
         UNCHANGED <<enq, disp, main, nconn, g_wa_array>>,
         \A d \in Conn : conn'[d].slot = conn[d].slot
  PROVE  talk' \in [Conn -> TalkState] /\ Shape'
  <1>1. talk \in [Conn -> TalkState]
    BY DEF TypeInv, TypeOK
  <1>2. \A d \in Conn : talk'[d] = IF d = c THEN t ELSE talk[d]
    BY <1>1
  <1>3. Shape'
    BY <1>2 DEF TypeInv, Shape, Slot
  <1> QED BY <1>1, <1>3

\* A step of enqueue_func that only moves its own thread keeps Shape.
LEMMA EnqStep ==
  ASSUME TypeInv, NEW c \in Conn, NEW e \in EnqState,
         enq[c].pc # "none", e.pc # "none", e.pc \in Reading => e.ino \in Conn,
         enq' = [enq EXCEPT ![c] = e],
         UNCHANGED <<talk, conn, disp, main, nconn, g_wa_array>>
  PROVE  enq' \in [Conn -> EnqState] /\ Shape'
  <1>1. enq \in [Conn -> EnqState]
    BY DEF TypeInv, TypeOK
  <1>2. \A d \in Conn : enq'[d] = IF d = c THEN e ELSE enq[d]
    BY <1>1
  <1>3. Shape'
    BY <1>2 DEF TypeInv, Shape, Slot
  <1> QED BY <1>1, <1>3

\* A write keeps a file a sequence of units and holes.
LEMMA WrittenType ==
  ASSUME NEW old \in Text, NEW p \in Nat, NEW u \in Unit \cup {Hole}
  PROVE  Written(old, p, u) \in Text
  <1> DEFINE n == IF Len(old) > p THEN Len(old) ELSE p + 1
  <1>1. n \in Nat /\ Len(old) \in Nat
    BY DEF Text
  <1>2. \A i \in 1 .. n : (IF i = p + 1 THEN u ELSE IF i <= Len(old) THEN old[i] ELSE Hole)
                           \in Unit \cup {Hole}
    BY <1>1 DEF Text
  <1> HIDE DEF n
  <1>3. Written(old, p, u) \in [1 .. n -> Unit \cup {Hole}]
    BY <1>2 DEF Written, n
  <1> QED BY <1>1, <1>3 DEF Text

\* A step that changes one connection and leaves its slot alone.
LEMMA ConnStep ==
  ASSUME conn \in [Conn -> ConnState], NEW k \in Conn, NEW r \in ConnState,
         r.slot = conn[k].slot, conn' = [conn EXCEPT ![k] = r]
  PROVE  conn' \in [Conn -> ConnState] /\ \A d \in Conn : conn'[d].slot = conn[d].slot
  OBVIOUS

\* What TypeInv says of the talk thread of connection c, and of its step.
LEMMA TalkFacts ==
  ASSUME TypeInv, NEW c \in Conn
  PROVE  /\ talk \in [Conn -> TalkState] /\ talk[c] \in TalkState
         /\ talk[c].sock \in 0 .. MaxConn /\ talk[c].pc \in TalkPc
         /\ conn \in [Conn -> ConnState]
         /\ talk[c].pc # "none" => Slot(c) \in Slots /\ g_wa_array[Slot(c)] \in Conn
         /\ talk[c].pc \notin {"none", "start"} =>
               talk[c].sock \in Conn /\ conn[talk[c].sock] \in ConnState
  BY DEF TypeInv, TypeOK, Shape, TalkState

\* TalkGoes moves the thread's program counter and nothing else.
LEMMA TalkGoesStep ==
  ASSUME TypeInv, NEW c \in Conn, NEW from \in TalkPc \ {"none", "start"},
         NEW to \in TalkPc \ {"none", "start"}, TalkGoes(c, from, to),
         UNCHANGED <<enq, disp, main, nconn, g_wa_array>>,
         \A d \in Conn : conn'[d].slot = conn[d].slot
  PROVE  talk' \in [Conn -> TalkState] /\ Shape'
  <1> DEFINE u == [talk[c] EXCEPT !.pc = to]
  <1>1. talk' = [talk EXCEPT ![c] = u] /\ talk[c].pc = from
    BY DEF TalkGoes
  <1>2. talk[c] \in TalkState /\ talk[c].sock \in Conn
    BY <1>1, TalkFacts, SMTT(60)
  <1>3. u \in TalkState /\ u.pc = to /\ u.sock = talk[c].sock
    BY <1>2, TalkMoves, ZenonT(60)
  <1> HIDE DEF u
  <1> QED BY <1>1, <1>2, <1>3, TalkStep

LEMMA TalkStartType == ASSUME TypeInv, NEW c \in Conn, TalkStart(c) PROVE TypeInv'
  <1> USE ConstantsAssumption DEF netVars, fileVars, slotVars, sqlVars, dayVars,
                              Lock, Unlock
  <1> DEFINE w == g_wa_array[Slot(c)]
             p == IF Slot(c) = Console THEN "cmd" ELSE "send"
             u == [talk[c] EXCEPT !.sock = w, !.pc = p]
  <1>1. talk' = [talk EXCEPT ![c] = u] /\ talk[c].pc = "start"
    BY DEF TalkStart
  <1>2. w \in Conn /\ w \in 0 .. MaxConn /\ Slot(c) \in Slots /\ talk[c] \in TalkState
    BY <1>1, TalkFacts DEF Conn
  <1>3. p \in TalkPc /\ p \notin {"none", "start"}
    BY DEF TalkPc
  <1> HIDE DEF w, p
  <1>4. u \in TalkState /\ u.pc = p /\ u.sock = w
    BY <1>2, <1>3 DEF TalkState
  <1> HIDE DEF u
  <1>5. talk' \in [Conn -> TalkState] /\ Shape'
    BY <1>1, <1>2, <1>3, <1>4, TalkStep DEF TalkStart
  <1>6. g_socket_active_array' \in [Slots -> {0, 1}]
    BY <1>2 DEF TalkStart, TypeInv, TypeOK
  <1>7. TypeOK'
    BY <1>5, <1>6 DEF TalkStart, TypeInv, TypeOK
  <1> QED BY <1>5, <1>7 DEF TypeInv

LEMMA CmdReturnsType == ASSUME TypeInv, NEW c \in Conn, CmdReturns(c) PROVE TypeInv'
  <1> USE ConstantsAssumption DEF netVars, fileVars, slotVars, sqlVars, dayVars,
                              Lock, Unlock
  <1>1. talk' \in [Conn -> TalkState] /\ Shape'
    BY TalkGoesStep DEF CmdReturns, TalkPc
  <1>2. g_socket_active_array' \in [Slots -> {0, 1}]
    <2>1. Slot(c) \in Slots
      BY TalkFacts DEF CmdReturns, TalkGoes
    <2> QED BY <2>1 DEF CmdReturns, TypeInv, TypeOK
  <1>3. TypeOK'
    BY <1>1, <1>2 DEF CmdReturns, TypeInv, TypeOK
  <1> QED BY <1>1, <1>3 DEF TypeInv

LEMMA TalkSendType == ASSUME TypeInv, NEW c \in Conn, TalkSend(c) PROVE TypeInv'
  <1> USE ConstantsAssumption DEF netVars, fileVars, slotVars, sqlVars, dayVars,
                              Lock, Unlock
  <1> DEFINE k == talk[c].sock
             r == [conn[k] EXCEPT !.name = g_file_name]
  <1>1. talk[c].pc = "send" /\ conn' = [conn EXCEPT ![k] = r] /\ k \in Conn
    BY TalkFacts DEF TalkSend, TalkGoes
  <1>2. g_file_name \in Name /\ conn \in [Conn -> ConnState]
    BY DEF TypeInv, TypeOK
  <1>3. r \in ConnState /\ r.slot = conn[k].slot
    <2>1. conn[k] \in ConnState
      BY <1>1, <1>2
    <2> QED BY <1>2, <2>1, ConnMoves
  <1> HIDE DEF r
  <1>4. conn' \in [Conn -> ConnState] /\ \A d \in Conn : conn'[d].slot = conn[d].slot
    BY <1>1, <1>2, <1>3, ConnStep
  <1>5. talk' \in [Conn -> TalkState] /\ Shape'
    BY <1>4, TalkGoesStep DEF TalkSend, TalkPc
  <1>6. up' \in BOOLEAN
    BY DEF TalkSend
  <1>7. TypeOK'
    BY <1>4, <1>5, <1>6 DEF TalkSend, TypeInv, TypeOK
  <1> QED BY <1>5, <1>7 DEF TypeInv

\* The unit of a log that recv returns next.
LEMMA NextUnit ==
  ASSUME NEW n \in 0 .. LastDay, NEW p \in 0 .. NUnits, n # 0, p < NUnits
  PROVE  <<n, p + 1>> \in Unit /\ p + 1 \in 0 .. NUnits
  <1>1. LastDay \in Nat /\ NUnits \in Nat
    BY ConstantsAssumption, Units
  <1>2. n \in 1 .. LastDay /\ p + 1 \in 1 .. NUnits
    BY <1>1
  <1> QED BY <1>1, <1>2 DEF Unit

LEMMA TalkOpenType == ASSUME TypeInv, NEW c \in Conn, TalkOpen(c) PROVE TypeInv'
  <1> USE ConstantsAssumption DEF netVars, fileVars, slotVars, sqlVars, dayVars,
                              Lock, Unlock
  <1> DEFINE file == FileOf(g_file_name, c)
             ino == IF dir[file] = 0 THEN c ELSE dir[file]
             u == [talk[c] EXCEPT !.pc = "recv", !.name = g_file_name, !.ino = ino, !.pos = 0]
  <1>1. /\ talk[c].pc = "open"
        /\ g_file_name \in Name
        /\ dir \in [Name \X Slots -> 0 .. MaxConn] /\ data \in [Conn -> Text]
    BY DEF TalkOpen, TypeInv, TypeOK
  <1>2. talk[c] \in TalkState /\ talk[c].sock \in Conn /\ Slot(c) \in Slots
    BY <1>1, TalkFacts
  <1>3. ino \in Conn /\ ino \in 0 .. MaxConn /\ file \in Name \X Slots
    BY <1>1, <1>2 DEF FileOf, Conn
  <1>4. \/ /\ dir' = [dir EXCEPT ![file] = ino]
           /\ data' = [data EXCEPT ![ino] = <<>>]
           /\ talk' = [talk EXCEPT ![c] = u]
           /\ up' = up
        \/ up' = FALSE /\ UNCHANGED <<dir, data, talk>>
    BY DEF TalkOpen
  <1> HIDE DEF ino, file
  <1>5. u \in TalkState /\ u.pc = "recv" /\ u.sock = talk[c].sock
    BY <1>1, <1>2, <1>3 DEF TalkState, TalkPc
  <1> HIDE DEF u
  <1>6. dir' \in [Name \X Slots -> 0 .. MaxConn] /\ data' \in [Conn -> Text] /\ up' \in BOOLEAN
    <2>1. dir' \in [Name \X Slots -> 0 .. MaxConn]
      BY <1>1, <1>3, <1>4
    <2>2. data' \in [Conn -> Text]
      BY <1>1, <1>3, <1>4, Units
    <2>3. up \in BOOLEAN
      BY DEF TypeInv, TypeOK
    <2> QED BY <1>4, <2>1, <2>2, <2>3
  <1>7. talk' \in [Conn -> TalkState] /\ Shape'
    <2>1. CASE talk' = [talk EXCEPT ![c] = u]
      BY <1>1, <1>2, <1>5, <2>1, TalkStep DEF TalkOpen
    <2>2. CASE talk' = talk
      BY <2>2 DEF TalkOpen, TypeInv, TypeOK, Shape, Slot
    <2> QED BY <1>4, <2>1, <2>2
  <1>8. TypeOK'
    BY <1>6, <1>7 DEF TalkOpen, TypeInv, TypeOK
  <1> QED BY <1>7, <1>8 DEF TypeInv

LEMMA TalkRecvType == ASSUME TypeInv, NEW c \in Conn, TalkRecv(c) PROVE TypeInv'
  <1> USE ConstantsAssumption DEF netVars, fileVars, slotVars, sqlVars, dayVars,
                              Lock, Unlock
  <1> DEFINE k == talk[c].sock
             b == <<conn[k].name, conn[k].pos + 1>>
             q == conn[k].pos + 1
             u == [talk[c] EXCEPT !.buf = b, !.pc = "write"]
             r == [conn[k] EXCEPT !.pos = q]
  <1>1. /\ talk[c].pc = "recv" /\ conn[k].name # 0 /\ conn[k].pos < NUnits
        /\ talk' = [talk EXCEPT ![c] = u] /\ conn' = [conn EXCEPT ![k] = r]
    BY DEF TalkRecv
  <1>2. /\ talk[c] \in TalkState /\ k \in Conn /\ conn[k] \in ConnState
        /\ conn \in [Conn -> ConnState]
    BY <1>1, TalkFacts
  <1>3. q \in 0 .. NUnits /\ b \in Unit \cup {Hole}
    <2>1. /\ conn[k].name \in 0 .. LastDay /\ conn[k].pos \in 0 .. NUnits
          /\ conn[k].name # 0 /\ conn[k].pos < NUnits
      BY <1>1, <1>2 DEF ConnState, Name
    <2>2. b \in Unit /\ q \in 0 .. NUnits
      BY <2>1, NextUnit
    <2> QED BY <2>2
  <1> HIDE DEF q, b
  <1>4. u \in TalkState /\ u.pc = "write" /\ u.sock = k
    BY <1>2, <1>3 DEF TalkState, TalkPc
  <1>5. r \in ConnState /\ r.slot = conn[k].slot
    BY <1>2, <1>3, ConnMoves
  <1> HIDE DEF u, r
  <1>6. conn' \in [Conn -> ConnState] /\ \A d \in Conn : conn'[d].slot = conn[d].slot
    BY <1>1, <1>2, <1>5, ConnStep
  <1>7. talk' \in [Conn -> TalkState] /\ Shape'
    BY <1>1, <1>2, <1>4, <1>6, TalkStep DEF TalkRecv
  <1>8. TypeOK'
    BY <1>6, <1>7 DEF TalkRecv, TypeInv, TypeOK
  <1> QED BY <1>7, <1>8 DEF TypeInv

LEMMA TalkRecvEndsType == ASSUME TypeInv, NEW c \in Conn, TalkRecvEnds(c) PROVE TypeInv'
  <1> USE ConstantsAssumption DEF netVars, fileVars, slotVars, sqlVars, dayVars,
                              Lock, Unlock
  <1> DEFINE k == talk[c].sock
             r == [conn[k] EXCEPT !.st = "eof"]
  <1>1. talk[c].pc = "recv" /\ conn' = [conn EXCEPT ![k] = r]
    BY DEF TalkRecvEnds, TalkGoes
  <1>2. k \in Conn /\ conn[k] \in ConnState /\ conn \in [Conn -> ConnState]
    BY <1>1, TalkFacts
  <1>3. r \in ConnState /\ r.slot = conn[k].slot
    BY <1>2, ConnMoves
  <1> HIDE DEF r
  <1>4. conn' \in [Conn -> ConnState] /\ \A d \in Conn : conn'[d].slot = conn[d].slot
    BY <1>1, <1>2, <1>3, ConnStep
  <1>5. talk' \in [Conn -> TalkState] /\ Shape'
    <2>1. UNCHANGED <<enq, disp, main, nconn, g_wa_array>>
      BY DEF TalkRecvEnds
    <2>2. TalkGoes(c, "recv", "exit") \/ TalkGoes(c, "recv", "timeout")
      BY DEF TalkRecvEnds
    <2> QED BY <1>4, <2>1, <2>2, TalkGoesStep DEF TalkPc
  <1>6. TypeOK'
    BY <1>4, <1>5 DEF TalkRecvEnds, TypeInv, TypeOK
  <1> QED BY <1>5, <1>6 DEF TypeInv

LEMMA TalkWriteType == ASSUME TypeInv, NEW c \in Conn, TalkWrite(c) PROVE TypeInv'
  <1> USE ConstantsAssumption DEF netVars, fileVars, slotVars, sqlVars, dayVars,
                              Lock, Unlock
  <1> DEFINE q == talk[c].pos + 1
             u == [talk[c] EXCEPT !.pc = "recv", !.pos = q, !.buf = Hole]
             text == Written(data[talk[c].ino], talk[c].pos, talk[c].buf)
  <1>1. talk[c].pc = "write" /\ UNCHANGED <<enq, disp, main, nconn, g_wa_array, conn>>
    BY DEF TalkWrite, TalkGoes
  <1>2. /\ talk[c] \in TalkState /\ talk[c].sock \in Conn
        /\ talk[c].pos \in Nat /\ talk[c].buf \in Unit \cup {Hole}
        /\ data \in [Conn -> Text]
    BY <1>1, TalkFacts DEF TalkState, TypeInv, TypeOK
  <1>3. \/ /\ data' = [data EXCEPT ![talk[c].ino] = text]
           /\ talk' = [talk EXCEPT ![c] = u]
        \/ TalkGoes(c, "write", "exit") /\ data' = data
    BY DEF TalkWrite
  <1>4. data' \in [Conn -> Text]
    <2>1. talk[c].ino \in Conn => text \in Text
      BY <1>2, WrittenType
    <2> HIDE DEF text
    <2> QED BY <1>2, <1>3, <2>1
  <1>5. q \in Nat /\ Hole \in Unit \cup {Hole}
    BY <1>2
  <1> HIDE DEF q, text
  <1>6. u \in TalkState /\ u.pc = "recv" /\ u.sock = talk[c].sock
    BY <1>2, <1>5 DEF TalkState, TalkPc
  <1> HIDE DEF u
  <1>7. talk' \in [Conn -> TalkState] /\ Shape'
    <2>1. CASE talk' = [talk EXCEPT ![c] = u]
      BY <1>1, <1>2, <1>6, <2>1, TalkStep
    <2>2. CASE TalkGoes(c, "write", "exit")
      BY <1>1, <2>2, TalkGoesStep DEF TalkPc
    <2> QED BY <1>3, <2>1, <2>2
  <1>8. TypeOK'
    BY <1>4, <1>7 DEF TalkWrite, TypeInv, TypeOK
  <1> QED BY <1>7, <1>8 DEF TypeInv

LEMMA TalkTimeoutType == ASSUME TypeInv, NEW c \in Conn, TalkTimeout(c) PROVE TypeInv'
  <1> USE ConstantsAssumption DEF netVars, fileVars, slotVars, sqlVars, dayVars,
                              Lock, Unlock
  <1> DEFINE u == [talk[c] EXCEPT !.pc = "rename", !.name = today]
  <1>1. talk[c].pc = "timeout" /\ UNCHANGED <<enq, disp, main, nconn, g_wa_array, conn>>
    BY DEF TalkTimeout, TalkGoes
  <1>2. /\ talk[c] \in TalkState /\ talk[c].sock \in Conn
    BY <1>1, TalkFacts
  <1>3. /\ today \in Name /\ 0 \in Name /\ g_file_name \in Name
        /\ s_queue_mutex \in Threads /\ Talker(c) \in Threads
    BY DEF TypeInv, TypeOK, Name, Threads, Talker
  <1>4. \/ /\ TalkGoes(c, "timeout", "recv") \/ TalkGoes(c, "timeout", "exit")
           /\ UNCHANGED <<s_queue_mutex, g_file_name>>
        \/ /\ talk' = [talk EXCEPT ![c] = u]
           /\ g_file_name' = 0
           /\ s_queue_mutex' = Talker(c)
    BY DEF TalkTimeout
  <1>5. u \in TalkState /\ u.pc = "rename" /\ u.sock = talk[c].sock
    BY <1>2, <1>3 DEF TalkState, TalkPc
  <1> HIDE DEF u
  <1>6. talk' \in [Conn -> TalkState] /\ Shape'
    <2>1. CASE talk' = [talk EXCEPT ![c] = u]
      BY <1>1, <1>2, <1>5, <2>1, TalkStep
    <2>2. CASE TalkGoes(c, "timeout", "recv") \/ TalkGoes(c, "timeout", "exit")
      BY <1>1, <2>2, TalkGoesStep DEF TalkPc
    <2> QED BY <1>4, <2>1, <2>2
  <1>7. g_file_name' \in Name /\ s_queue_mutex' \in Threads
    BY <1>4, <1>3
  <1>8. TypeOK'
    BY <1>6, <1>7 DEF TalkTimeout, TypeInv, TypeOK
  <1> QED BY <1>6, <1>8 DEF TypeInv

LEMMA TalkRenameType == ASSUME TypeInv, NEW c \in Conn, TalkRename(c) PROVE TypeInv'
  <1> USE ConstantsAssumption DEF netVars, fileVars, slotVars, sqlVars, dayVars,
                              Lock, Unlock
  <1>1. talk' \in [Conn -> TalkState] /\ Shape'
    BY TalkGoesStep DEF TalkRename, TalkPc
  <1>2. talk[c] \in TalkState
    BY TalkFacts
  <1>3. g_file_name' \in Name /\ s_queue_mutex' \in Threads
    BY <1>2 DEF TalkRename, TalkState, Threads
  <1>4. TypeOK'
    BY <1>1, <1>3 DEF TalkRename, TypeInv, TypeOK
  <1> QED BY <1>1, <1>4 DEF TypeInv

LEMMA TalkExitType == ASSUME TypeInv, NEW c \in Conn, TalkExit(c) PROVE TypeInv'
  <1> USE ConstantsAssumption DEF netVars, fileVars, slotVars, sqlVars, dayVars,
                              Lock, Unlock
  <1> DEFINE k == talk[c].sock
             r == [conn[k] EXCEPT !.st = "eof"]
  <1>1. talk[c].pc = "exit" /\ conn' = [conn EXCEPT ![k] = r]
    BY DEF TalkExit, TalkGoes
  <1>2. /\ k \in Conn /\ conn[k] \in ConnState /\ conn \in [Conn -> ConnState]
        /\ Slot(c) \in Slots
    BY <1>1, TalkFacts
  <1>3. r \in ConnState /\ r.slot = conn[k].slot
    BY <1>2, ConnMoves
  <1> HIDE DEF r
  <1>4. conn' \in [Conn -> ConnState] /\ \A d \in Conn : conn'[d].slot = conn[d].slot
    BY <1>1, <1>2, <1>3, ConnStep
  <1>5. talk' \in [Conn -> TalkState] /\ Shape'
    BY <1>4, TalkGoesStep DEF TalkExit, TalkPc
  <1>6. fds' \subseteq Conn /\ g_socket_active_array' \in [Slots -> {0, 1}]
    BY <1>2 DEF TalkExit, TypeInv, TypeOK
  <1>7. TypeOK'
    BY <1>4, <1>5, <1>6 DEF TalkExit, TypeInv, TypeOK
  <1> QED BY <1>5, <1>7 DEF TypeInv

LEMMA TalkUncountType == ASSUME TypeInv, NEW c \in Conn, TalkUncount(c) PROVE TypeInv'
  <1> USE ConstantsAssumption DEF netVars, fileVars, slotVars, sqlVars, dayVars,
                              Lock, Unlock
  <1>1. talk' \in [Conn -> TalkState] /\ Shape'
    BY TalkGoesStep DEF TalkUncount, TalkPc
  <1>2. g_connected_agent_count \in Nat
    BY DEF TypeInv, TypeOK
  <1>3. g_connected_agent_count' \in Nat
    BY <1>2 DEF TalkUncount, OneLess
  <1>4. TypeOK'
    BY <1>1, <1>3 DEF TalkUncount, TypeInv, TypeOK
  <1> QED BY <1>1, <1>4 DEF TypeInv

LEMMA TalkType ==
  ASSUME TypeInv, NEW c \in Conn, TalkNext(c) \/ WrongCommand(c)
  PROVE  TypeInv'
  BY TalkStartType, CmdReturnsType, TalkSendType, TalkOpenType, TalkRecvType,
     TalkRecvEndsType, TalkWriteType, TalkTimeoutType, TalkRenameType, TalkExitType,
     TalkUncountType
  DEF TalkNext, ConsoleEnds, WrongCommand

\* What TypeInv says of the enqueue thread of connection c.
LEMMA EnqFacts ==
  ASSUME TypeInv, NEW c \in Conn
  PROVE  /\ enq \in [Conn -> EnqState] /\ enq[c] \in EnqState
         /\ enq[c].ino \in 0 .. MaxConn /\ enq[c].pc \in EnqPc /\ enq[c].name \in Name
         /\ enq[c].pc # "none" => Slot(c) \in Slots
         /\ enq[c].pc \in Reading => enq[c].ino \in Conn
         /\ s_queue_mutex \in Threads /\ Enqueuer(c) \in Threads /\ Free \in Threads
         /\ dir \in [Name \X Slots -> 0 .. MaxConn]
         /\ data \in [Conn -> Text]
  BY DEF TypeInv, TypeOK, Shape, EnqState, Threads, Enqueuer, Free

\* EnqGoes moves the thread's program counter and nothing else.
LEMMA EnqGoesStep ==
  ASSUME TypeInv, NEW c \in Conn, NEW from \in EnqPc \ {"none"},
         NEW to \in EnqPc \ {"none"}, EnqGoes(c, from, to),
         to \in Reading => from \in Reading,
         UNCHANGED <<talk, conn, disp, main, nconn, g_wa_array>>
  PROVE  enq' \in [Conn -> EnqState] /\ Shape'
  <1> DEFINE e == [enq[c] EXCEPT !.pc = to]
  <1>1. enq' = [enq EXCEPT ![c] = e] /\ enq[c].pc = from
    BY DEF EnqGoes
  <1>2. enq[c] \in EnqState /\ (to \in Reading => enq[c].ino \in Conn)
    BY <1>1, EnqFacts
  <1>3. e \in EnqState /\ e.pc = to /\ e.ino = enq[c].ino
    BY <1>2 DEF EnqState
  <1> HIDE DEF e
  <1> QED BY <1>1, <1>2, <1>3, EnqStep

LEMMA EnqNameType == ASSUME TypeInv, NEW c \in Conn, EnqName(c) PROVE TypeInv'
  <1> USE ConstantsAssumption DEF netVars, fileVars, slotVars, sqlVars, dayVars,
                              Lock, Unlock
  <1> DEFINE e == [enq[c] EXCEPT !.name = g_file_name, !.pc = "fopen"]
  <1>1. enq[c].pc \in {"sleep", "retry"} /\ enq' = [enq EXCEPT ![c] = e]
    BY DEF EnqName
  <1>2. enq[c] \in EnqState /\ g_file_name \in Name
    BY EnqFacts DEF TypeInv, TypeOK
  <1>3. e \in EnqState /\ e.pc = "fopen"
    BY <1>2 DEF EnqState, EnqPc
  <1> HIDE DEF e
  <1>4. enq' \in [Conn -> EnqState] /\ Shape'
    BY <1>1, <1>3, EnqStep DEF EnqName, EnqOnly, Reading
  <1>5. TypeOK'
    BY <1>4 DEF EnqName, EnqOnly, TypeInv, TypeOK
  <1> QED BY <1>4, <1>5 DEF TypeInv

LEMMA EnqFopenType == ASSUME TypeInv, NEW c \in Conn, EnqFopen(c) PROVE TypeInv'
  <1> USE ConstantsAssumption DEF netVars, fileVars, slotVars, sqlVars, dayVars,
                              Lock, Unlock
  <1> DEFINE ino == dir[FileOf(enq[c].name, c)]
             e == [enq[c] EXCEPT !.ino = ino, !.pc = "read"]
  <1>1. /\ \/ EnqGoes(c, "fopen", "retry")
           \/ enq[c].pc = "fopen" /\ ino # 0 /\ enq' = [enq EXCEPT ![c] = e]
        /\ UNCHANGED <<talk, conn, disp, main, nconn, g_wa_array>>
    BY DEF EnqFopen, EnqOnly
  <1>2. enq' \in [Conn -> EnqState] /\ Shape'
    <2>1. CASE EnqGoes(c, "fopen", "retry")
      BY <1>1, <2>1, EnqGoesStep DEF EnqPc, Reading
    <2>2. CASE enq[c].pc = "fopen" /\ ino # 0 /\ enq' = [enq EXCEPT ![c] = e]
      <3>1. enq[c] \in EnqState /\ ino \in 0 .. MaxConn /\ ino \in Conn
        BY <2>2, EnqFacts DEF FileOf, Conn
      <3> HIDE DEF ino
      <3>2. e \in EnqState /\ e.pc = "read" /\ e.ino = ino
        BY <3>1 DEF EnqState, EnqPc
      <3> HIDE DEF e
      <3> QED BY <1>1, <2>2, <3>1, <3>2, EnqStep
    <2> QED BY <1>1, <2>1, <2>2
  <1>3. TypeOK'
    BY <1>2 DEF EnqFopen, EnqOnly, TypeInv, TypeOK
  <1> QED BY <1>2, <1>3 DEF TypeInv

\* A line number that is too large to matter stays so.
LEMMA CountLineType == \A n \in 0 .. HEADER_LINES + 1 : CountLine(n) \in 0 .. HEADER_LINES + 1
  BY ConstantsAssumption DEF CountLine

LEMMA EnqGetLineType == ASSUME TypeInv, NEW c \in Conn, EnqGetLine(c) PROVE TypeInv'
  <1> USE ConstantsAssumption DEF netVars, fileVars, slotVars, sqlVars, dayVars,
                              Lock, Unlock
  <1> DEFINE text == data[enq[c].ino]
             off == enq[c].off
             l == CountLine(enq[c].line)
  <1>1. enq[c].pc = "read"
    BY DEF EnqGetLine
  <1>2. /\ enq[c] \in EnqState /\ enq[c].ino \in Conn /\ text \in Text
        /\ off \in Nat /\ l \in 0 .. HEADER_LINES + 1
    BY <1>1, EnqFacts, CountLineType DEF Reading, EnqState
  <1>3. PICK n \in 1 .. Len(text), h \in 0 .. Len(text) :
          /\ SeenTo(text, off, n, h)
          /\ enq' = [enq EXCEPT ![c] = [enq[c] EXCEPT !.line = l, !.off = h,
                       !.buf = SubSeq(text, off + 1, h),
                       !.pc = IF h = off THEN "reopen" ELSE "room"]]
    BY DEF EnqGetLine
  <1> DEFINE b == SubSeq(text, off + 1, h)
             p == IF h = off THEN "reopen" ELSE "room"
             e == [enq[c] EXCEPT !.line = l, !.off = h, !.buf = b, !.pc = p]
  <1>4. p \in EnqPc /\ p # "none"
    BY DEF EnqPc
  <1>5. b \in Text /\ h \in Nat
    BY <1>2, SMTT(60) DEF Text
  <1>6. enq' = [enq EXCEPT ![c] = e]
    BY <1>3
  <1> HIDE DEF b, p, l
  <1>7. e \in EnqState /\ e.pc = p /\ e.ino = enq[c].ino
    BY <1>2, <1>4, <1>5 DEF EnqState
  <1> HIDE DEF e
  <1>8. enq' \in [Conn -> EnqState] /\ Shape'
    BY <1>1, <1>2, <1>4, <1>6, <1>7, EnqStep DEF EnqGetLine, EnqOnly
  <1>9. TypeOK'
    BY <1>8 DEF EnqGetLine, EnqOnly, TypeInv, TypeOK
  <1> QED BY <1>8, <1>9 DEF TypeInv

LEMMA EnqGetEofType == ASSUME TypeInv, NEW c \in Conn, EnqGetEof(c) PROVE TypeInv'
  <1> USE ConstantsAssumption DEF netVars, fileVars, slotVars, sqlVars, dayVars,
                              Lock, Unlock
  <1> DEFINE l == CountLine(enq[c].line)
             p == IF enq[c].off = 0 THEN "done" ELSE "eof"
             e == [enq[c] EXCEPT !.line = l, !.pc = p]
  <1>1. enq[c].pc = "read" /\ enq' = [enq EXCEPT ![c] = e]
    BY DEF EnqGetEof
  <1>2. enq[c] \in EnqState /\ l \in 0 .. HEADER_LINES + 1
    BY EnqFacts, CountLineType DEF EnqState
  <1>3. p \in EnqPc /\ p # "none" /\ p \notin Reading
    BY DEF EnqPc, Reading
  <1> HIDE DEF l, p
  <1>4. e \in EnqState /\ e.pc = p
    BY <1>2, <1>3 DEF EnqState
  <1> HIDE DEF e
  <1>5. enq' \in [Conn -> EnqState] /\ Shape'
    BY <1>1, <1>3, <1>4, EnqStep DEF EnqGetEof, EnqOnly
  <1>6. TypeOK'
    BY <1>5 DEF EnqGetEof, EnqOnly, TypeInv, TypeOK
  <1> QED BY <1>5, <1>6 DEF TypeInv

\* The step back to the open file, as EnqEbadf and EnqReopen take it.
LEMMA EnqReopenStep ==
  ASSUME TypeInv, NEW c \in Conn, enq[c].pc # "none",
         enq[c].nsl < MAX_WAITING_COUNT, dir[FileOf(enq[c].name, c)] # 0,
         enq' = [enq EXCEPT ![c] = [enq[c] EXCEPT !.pc = "read",
                   !.ino = dir[FileOf(enq[c].name, c)], !.nsl = enq[c].nsl + 1]],
         UNCHANGED <<talk, conn, disp, main, nconn, g_wa_array>>
  PROVE  enq' \in [Conn -> EnqState] /\ Shape'
  <1> DEFINE ino == dir[FileOf(enq[c].name, c)]
             n == enq[c].nsl + 1
             e == [enq[c] EXCEPT !.pc = "read", !.ino = ino, !.nsl = n]
  <1>1. enq[c] \in EnqState /\ ino \in 0 .. MaxConn /\ ino \in Conn
    BY EnqFacts DEF FileOf, Conn
  <1>2. n \in 0 .. MAX_WAITING_COUNT
    <2>1. enq[c].nsl \in 0 .. MAX_WAITING_COUNT
      BY <1>1 DEF EnqState
    <2>2. MAX_WAITING_COUNT \in Nat
      BY ConstantsAssumption
    <2> QED BY <2>1, <2>2
  <1> HIDE DEF ino, n
  <1>3. e \in EnqState /\ e.pc = "read" /\ e.ino = ino
    BY <1>1, <1>2 DEF EnqState, EnqPc
  <1>4. enq' = [enq EXCEPT ![c] = e]
    BY DEF ino, n
  <1> HIDE DEF e
  <1> QED BY <1>1, <1>3, <1>4, EnqStep

LEMMA EnqFgetsFailsType == ASSUME TypeInv, NEW c \in Conn, EnqFgetsFails(c) PROVE TypeInv'
  <1> USE ConstantsAssumption DEF netVars, fileVars, slotVars, sqlVars, dayVars
  <1>1. enq' \in [Conn -> EnqState] /\ Shape'
    BY EnqGoesStep DEF EnqFgetsFails, EnqOnly, EnqPc, Reading
  <1>2. TypeOK'
    BY <1>1 DEF EnqFgetsFails, EnqOnly, TypeInv, TypeOK
  <1> QED BY <1>1, <1>2 DEF TypeInv

LEMMA EnqEbadfType == ASSUME TypeInv, NEW c \in Conn, EnqEbadf(c) PROVE TypeInv'
  <1> USE ConstantsAssumption DEF netVars, fileVars, slotVars, sqlVars, dayVars,
                              Lock, Unlock
  <1>1. enq[c].pc = "read" /\ UNCHANGED <<talk, conn, disp, main, nconn, g_wa_array>>
    BY DEF EnqEbadf, EnqOnly
  <1>2. enq' \in [Conn -> EnqState] /\ Shape'
    <2>1. CASE EnqGoes(c, "read", "done")
      BY <1>1, <2>1, EnqGoesStep DEF EnqPc, Reading
    <2>2. CASE ~EnqGoes(c, "read", "done")
      BY <1>1, <2>2, EnqReopenStep DEF EnqEbadf, MayWait, Resumed
    <2> QED BY <2>1, <2>2
  <1>3. s_queue_mutex' \in Threads
    BY EnqFacts DEF EnqEbadf
  <1>4. TypeOK'
    BY <1>2, <1>3 DEF EnqEbadf, EnqOnly, TypeInv, TypeOK
  <1> QED BY <1>2, <1>4 DEF TypeInv

LEMMA EnqEofType == ASSUME TypeInv, NEW c \in Conn, EnqEof(c) PROVE TypeInv'
  <1> USE ConstantsAssumption DEF netVars, fileVars, slotVars, sqlVars, dayVars,
                              Lock, Unlock
  <1>1. /\ EnqGoes(c, "eof", "done") \/ EnqGoes(c, "eof", "reopen")
        /\ UNCHANGED <<talk, conn, disp, main, nconn, g_wa_array>>
    BY DEF EnqEof, EnqOnly
  <1>2. enq' \in [Conn -> EnqState] /\ Shape'
    BY <1>1, EnqGoesStep DEF EnqPc, Reading
  <1>3. dir' \in [Name \X Slots -> 0 .. MaxConn]
    <2>1. PICK f : dir' = [dir EXCEPT ![f] = 0] \/ dir' = dir
      BY DEF EnqEof
    <2>2. dir \in [Name \X Slots -> 0 .. MaxConn] /\ 0 \in 0 .. MaxConn
      BY DEF TypeInv, TypeOK
    <2> QED BY <2>1, <2>2
  <1>4. TypeOK'
    BY <1>2, <1>3 DEF EnqEof, EnqOnly, TypeInv, TypeOK
  <1> QED BY <1>2, <1>4 DEF TypeInv

LEMMA EnqReopenType == ASSUME TypeInv, NEW c \in Conn, EnqReopen(c) PROVE TypeInv'
  <1> USE ConstantsAssumption DEF netVars, fileVars, slotVars, sqlVars, dayVars,
                              Lock, Unlock
  <1>1. enq[c].pc = "reopen" /\ UNCHANGED <<talk, conn, disp, main, nconn, g_wa_array>>
    BY DEF EnqReopen, EnqGoes, EnqOnly
  <1>2. enq' \in [Conn -> EnqState] /\ Shape'
    <2>1. CASE EnqGoes(c, "reopen", "done")
      BY <1>1, <2>1, EnqGoesStep DEF EnqPc, Reading
    <2>2. CASE ~EnqGoes(c, "reopen", "done")
      BY <1>1, <2>2, EnqReopenStep DEF EnqReopen, MayWait, Resumed
    <2> QED BY <2>1, <2>2
  <1>3. TypeOK'
    BY <1>2 DEF EnqReopen, EnqOnly, TypeInv, TypeOK
  <1> QED BY <1>2, <1>3 DEF TypeInv

LEMMA EnqAssembleType == ASSUME TypeInv, NEW c \in Conn, EnqAssemble(c) PROVE TypeInv'
  <1> USE ConstantsAssumption DEF netVars, fileVars, slotVars, sqlVars, dayVars,
                              Lock, Unlock
  <1> DEFINE e == enq[c]
             grown == e.cur \o e.buf
             e1 == [e EXCEPT !.pc = "read", !.buf = <<>>]
             e2 == [e EXCEPT !.pc = "read", !.cur = grown, !.buf = <<>>]
             e3 == [e EXCEPT !.pc = "put"]
  <1>1. /\ e.pc = "room"
        /\ \/ enq' = [enq EXCEPT ![c] = e1]
           \/ enq' = [enq EXCEPT ![c] = e2]
           \/ enq' = [enq EXCEPT ![c] = e3]
        /\ UNCHANGED <<talk, conn, disp, main, nconn, g_wa_array>>
    BY DEF EnqAssemble, EnqOnly
  <1>2. e \in EnqState /\ e.ino \in Conn
    BY <1>1, EnqFacts DEF Reading
  <1>3. grown \in Text /\ <<>> \in Text
    <2>1. e.cur \in Text /\ e.buf \in Text
      BY <1>2 DEF EnqState
    <2> QED BY <2>1 DEF Text
  <1> HIDE DEF grown
  <1>4. e1 \in EnqState /\ e1.pc = "read" /\ e1.ino = e.ino
    BY <1>2, <1>3 DEF EnqState, EnqPc
  <1>5. e2 \in EnqState /\ e2.pc = "read" /\ e2.ino = e.ino
    BY <1>2, <1>3 DEF EnqState, EnqPc
  <1>6. e3 \in EnqState /\ e3.pc = "put" /\ e3.ino = e.ino
    BY <1>2 DEF EnqState, EnqPc
  <1> HIDE DEF e1, e2, e3
  <1>7. enq' \in [Conn -> EnqState] /\ Shape'
    BY <1>1, <1>2, <1>4, <1>5, <1>6, EnqStep
  <1>8. TypeOK'
    BY <1>7 DEF EnqAssemble, EnqOnly, TypeInv, TypeOK
  <1> QED BY <1>7, <1>8 DEF TypeInv

LEMMA EnqPutType == ASSUME TypeInv, NEW c \in Conn, EnqPut(c) PROVE TypeInv'
  <1> USE ConstantsAssumption DEF netVars, fileVars, slotVars, sqlVars, dayVars,
                              Lock, Unlock
  <1> DEFINE b == enq[c].buf
             e == [enq[c] EXCEPT !.pc = "count", !.cur = b, !.buf = <<>>]
             r == [by |-> c, rec |-> enq[c].cur]
  <1>1. /\ enq[c].pc = "put" /\ enq' = [enq EXCEPT ![c] = e]
        /\ g_sql_queue' = Append(g_sql_queue, r)
        /\ s_queue_mutex' = Enqueuer(c)
    BY DEF EnqPut, Enqueued, Started
  <1>2. enq[c] \in EnqState /\ enq[c].ino \in Conn /\ Enqueuer(c) \in Threads
    BY <1>1, EnqFacts DEF Reading
  <1>3. b \in Text /\ <<>> \in Text /\ r \in Record
    BY <1>2, SMTT(60) DEF EnqState, Text, Record
  <1> HIDE DEF b, r
  <1>4. e \in EnqState /\ e.pc = "count" /\ e.ino = enq[c].ino
    BY <1>2, <1>3 DEF EnqState, EnqPc
  <1> HIDE DEF e
  <1>5. enq' \in [Conn -> EnqState] /\ Shape'
    BY <1>1, <1>2, <1>4, EnqStep DEF EnqPut, EnqOnly
  <1>6. g_sql_queue \in Seq(Record)
    BY DEF TypeInv, TypeOK
  <1>7. g_sql_queue' \in Seq(Record)
    BY <1>1, <1>3, <1>6
  <1>8. TypeOK'
    BY <1>1, <1>2, <1>5, <1>7 DEF EnqPut, EnqOnly, TypeInv, TypeOK
  <1> QED BY <1>5, <1>8 DEF TypeInv

LEMMA EnqCountType == ASSUME TypeInv, NEW c \in Conn, EnqCount(c) PROVE TypeInv'
  <1> USE ConstantsAssumption DEF netVars, fileVars, slotVars, sqlVars, dayVars,
                              Lock, Unlock
  <1>1. enq' \in [Conn -> EnqState] /\ Shape'
    BY EnqGoesStep DEF EnqCount, EnqOnly, EnqPc, Reading
  <1>2. s_queue_mutex' \in Threads /\ g_queue_node_count' \in Int
    BY EnqFacts DEF EnqCount, TypeInv, TypeOK
  <1>3. TypeOK'
    BY <1>1, <1>2 DEF EnqCount, EnqOnly, TypeInv, TypeOK
  <1> QED BY <1>1, <1>3 DEF TypeInv

LEMMA EnqType == ASSUME TypeInv, NEW c \in Conn, EnqNext(c) PROVE TypeInv'
  BY EnqNameType, EnqFopenType, EnqGetLineType, EnqGetEofType, EnqFgetsFailsType, EnqEbadfType, EnqEofType,
     EnqReopenType, EnqAssembleType, EnqPutType, EnqCountType
  DEF EnqNext

LEMMA DispType == ASSUME TypeInv, DispNext PROVE TypeInv'
  <1> USE ConstantsAssumption DEF netVars, fileVars, slotVars, sqlVars, dayVars,
                              Lock, Unlock
  <1>1. /\ disp \in DispState /\ g_sql_queue \in Seq(Record) /\ checked \in Seq(Record)
        /\ g_queue_node_count \in Int /\ s_queue_mutex \in Threads
        /\ up \in BOOLEAN
        /\ Free \in Threads /\ Dispatcher \in Threads
        /\ IF disp.pc \in {"uncount", "check"} THEN disp.sql.by \in Conn ELSE disp.sql = NoSql
    BY DEF TypeInv, TypeOK, Shape, Threads
  <1>2. [pc |-> "poll", sql |-> NoSql] \in DispState
    BY DEF DispState, NoSql, Text
  <1>3. \A p \in {"poll", "lock", "uncount", "check"} :
           LET d == [disp EXCEPT !.pc = p]
           IN  d \in DispState /\ d.pc = p /\ d.sql = disp.sql
    BY <1>1 DEF DispState
  <1>4. DispOnly
    BY DEF DispNext, DispPoll, DispPop, DispUncount, DispCheck
  <1>5. ASSUME disp' \in DispState, g_sql_queue' \in Seq(Record), checked' \in Seq(Record),
               g_queue_node_count' \in Int, s_queue_mutex' \in Threads, up' \in BOOLEAN,
               IF disp'.pc \in {"uncount", "check"}
               THEN disp'.sql.by \in Conn ELSE disp'.sql = NoSql
        PROVE  TypeInv'
    <2>1. Shape'
      BY <1>4, <1>5 DEF DispOnly, TypeInv, Shape, Slot
    <2>2. TypeOK'
      BY <1>4, <1>5 DEF DispOnly, TypeInv, TypeOK
    <2> QED BY <2>1, <2>2 DEF TypeInv
  <1>6. CASE DispPoll
    BY <1>1, <1>3, <1>5, <1>6 DEF DispPoll
  <1>7. CASE DispPop
    <2>1. CASE g_sql_queue = <<>>
      BY <1>1, <1>3, <1>5, <1>7, <2>1 DEF DispPop
    <2>2. CASE g_sql_queue # <<>>
      <3> DEFINE h == Head(g_sql_queue)
      <3>1. h \in Record /\ Tail(g_sql_queue) \in Seq(Record)
        BY <1>1, <2>2
      <3>2. h.by \in Conn /\ [pc |-> "uncount", sql |-> h] \in DispState
        BY <3>1 DEF Record, DispState, Conn
      <3>3. /\ disp' = [pc |-> "uncount", sql |-> h]
            /\ g_sql_queue' = Tail(g_sql_queue) /\ s_queue_mutex' = Dispatcher
            /\ UNCHANGED <<up, g_queue_node_count, checked>>
        BY <1>7, <2>2 DEF DispPop
      <3>4. disp'.pc = "uncount" /\ disp'.sql.by \in Conn
        BY <3>2, <3>3
      <3> HIDE DEF h
      <3> QED BY <1>1, <1>5, <3>1, <3>2, <3>3, <3>4
    <2> QED BY <2>1, <2>2
  <1>8. CASE DispUncount
    <2>1. /\ disp.pc = "uncount" /\ UNCHANGED <<up, g_sql_queue, checked>>
          /\ g_queue_node_count' = g_queue_node_count - 1
          /\ \/ disp' = [disp EXCEPT !.pc = "check"] /\ s_queue_mutex' = s_queue_mutex
             \/ disp' = [pc |-> "poll", sql |-> NoSql] /\ s_queue_mutex' = Free
      BY <1>8 DEF DispUncount, Finished
    <2>2. g_queue_node_count' \in Int
      BY <1>1, <2>1
    <2>3. CASE disp' = [disp EXCEPT !.pc = "check"] /\ s_queue_mutex' = s_queue_mutex
      BY <1>1, <1>3, <1>5, <2>1, <2>2, <2>3
    <2>4. CASE disp' = [pc |-> "poll", sql |-> NoSql] /\ s_queue_mutex' = Free
      BY <1>1, <1>2, <1>5, <2>1, <2>2, <2>4
    <2> QED BY <2>1, <2>3, <2>4
  <1>9. CASE DispCheck
    <2>1. disp.sql \in Record
      BY <1>1, <1>9 DEF DispCheck, DispState, Record
    <2>2. Append(checked, disp.sql) \in Seq(Record)
      BY <1>1, <2>1
    <2>3. /\ disp.pc = "check" /\ UNCHANGED <<g_sql_queue, g_queue_node_count>>
          /\ \/ /\ checked' = Append(checked, disp.sql)
                /\ disp' = [pc |-> "poll", sql |-> NoSql]
                /\ s_queue_mutex' = Free
                /\ up' = up
             \/ up' = FALSE /\ UNCHANGED <<checked, disp, s_queue_mutex>>
      BY <1>9 DEF DispCheck, Finished
    <2>4. CASE /\ checked' = Append(checked, disp.sql) /\ up' = up
               /\ disp' = [pc |-> "poll", sql |-> NoSql] /\ s_queue_mutex' = Free
      BY <1>1, <1>2, <1>5, <2>2, <2>3, <2>4
    <2>5. CASE up' = FALSE /\ UNCHANGED <<checked, disp, s_queue_mutex>>
      BY <1>1, <1>5, <2>3, <2>5
    <2> QED BY <2>3, <2>4, <2>5
  <1> QED BY <1>6, <1>7, <1>8, <1>9 DEF DispNext

\* A new connection: no thread runs for it yet, and no other connection's slot changes.
LEMMA AcceptsStep ==
  ASSUME TypeInv, NEW ip \in Ips, NEW slot \in Slots \cup {-1}, Accepts(ip, slot)
  PROVE  /\ nconn' = nconn + 1 /\ nconn' \in Conn /\ nconn' \in 0 .. MaxConn
         /\ fds' \subseteq Conn
         /\ conn' \in [Conn -> ConnState]
         /\ conn'[nconn'].slot = slot
         /\ \A d \in Conn : d # nconn' => conn'[d] = conn[d]
         /\ talk[nconn'].pc = "none" /\ enq[nconn'].pc = "none"
         /\ talk \in [Conn -> TalkState] /\ main = "accept"
  <1> DEFINE r == [conn[nconn'] EXCEPT !.ip = ip, !.slot = slot, !.st = "open"]
  <1>1. /\ nconn \in 0 .. MaxConn /\ fds \subseteq Conn /\ conn \in [Conn -> ConnState]
        /\ talk \in [Conn -> TalkState]
    BY DEF TypeInv, TypeOK
  <1>2. /\ nconn < MaxConn /\ nconn' = nconn + 1 /\ fds' = fds \cup {nconn'}
        /\ conn' = [conn EXCEPT ![nconn'] = r] /\ main = "accept"
    BY DEF Accepts
  <1>3. nconn' \in Conn /\ nconn' \in 0 .. MaxConn /\ nconn' > nconn
    BY <1>1, <1>2, ConstantsAssumption DEF Conn
  <1>4. r \in ConnState /\ r.slot = slot
    BY <1>1, <1>3 DEF ConnState
  <1> HIDE DEF r
  <1>5. conn' \in [Conn -> ConnState] /\ conn'[nconn'].slot = slot
    BY <1>1, <1>2, <1>3, <1>4
  <1>6. \A d \in Conn : d # nconn' => conn'[d] = conn[d]
    BY <1>1, <1>2
  <1>7. talk[nconn'].pc = "none" /\ enq[nconn'].pc = "none"
    <2>1. \A d \in Conn : (talk[d].pc # "none" \/ enq[d].pc # "none") => d <= nconn
      BY DEF TypeInv, Shape
    <2>2. ~(nconn' <= nconn)
      BY <1>1, <1>3
    <2> QED BY <1>3, <2>1, <2>2
  <1> QED BY <1>1, <1>2, <1>3, <1>5, <1>6, <1>7

LEMMA AcceptType ==
  ASSUME TypeInv, NEW ip \in Ips, AcceptConsole(ip) \/ AcceptAgent(ip) \/ Refuse(ip)
  PROVE  TypeInv'
  <1> USE ConstantsAssumption DEF netVars, fileVars, slotVars, sqlVars, dayVars,
                              Lock, Unlock
  <1>1. CASE AcceptConsole(ip)
    <2>1. Console \in Slots
      BY DEF Console, Slots
    <2>2. Accepts(ip, Console)
      BY <1>1 DEF AcceptConsole
    <2>3. /\ nconn' \in Conn /\ nconn' \in 0 .. MaxConn /\ fds' \subseteq Conn
          /\ nconn' = nconn + 1
          /\ conn' \in [Conn -> ConnState] /\ conn'[nconn'].slot = Console
          /\ \A d \in Conn : d # nconn' => conn'[d] = conn[d]
          /\ talk[nconn'].pc = "none" /\ enq[nconn'].pc = "none"
          /\ talk \in [Conn -> TalkState] /\ main = "accept"
      BY <2>1, <2>2, AcceptsStep
    <2> DEFINE u == [talk[nconn'] EXCEPT !.pc = "start"]
    <2>4. /\ talk' = [talk EXCEPT ![nconn'] = u] \/ talk' = talk
          /\ main' = main
          /\ g_wa_array' = [g_wa_array EXCEPT ![Console] = nconn']
      BY <1>1 DEF AcceptConsole
    <2>5. u \in TalkState /\ u.pc = "start"
      BY <2>3, ZenonT(60) DEF TalkState, TalkPc
    <2> HIDE DEF u
    <2>6. /\ talk' \in [Conn -> TalkState]
          /\ \A d \in Conn : talk'[d] = talk[d] \/ (d = nconn' /\ talk'[d] = u)
      BY <2>3, <2>4, <2>5
    <2>7. /\ g_wa_array' \in [Slots -> 0 .. MaxConn] /\ g_wa_array'[Console] = nconn'
          /\ \A i \in Slots : g_wa_array'[i] \in {g_wa_array[i], nconn'}
      BY <2>1, <2>3, <2>4 DEF TypeInv, TypeOK
    <2>8. Shape'
      <3>1. UNCHANGED <<enq, disp>> /\ Shape /\ nconn \in Nat
        BY <2>2 DEF Accepts, TypeInv, TypeOK
      <3>2. \A d \in Conn : d # nconn' => talk'[d] = talk[d] /\ conn'[d] = conn[d]
        BY <2>3, <2>6
      <3>3. talk'[nconn'].pc \in {"none", "start"} /\ enq'[nconn'].pc = "none"
        BY <2>3, <2>5, <2>6, <3>1
      <3>4. \A i \in Slots : g_wa_array[i] \in Conn => g_wa_array'[i] \in Conn
        BY <2>3, <2>7
      <3> QED BY <2>1, <2>3, <2>4, <2>7, <3>1, <3>2, <3>3, <3>4, SMTT(60) DEF Shape, Slot
    <2>9. TypeOK'
      BY <2>2, <2>3, <2>4, <2>6, <2>7 DEF Accepts, TypeInv, TypeOK
    <2> QED BY <2>8, <2>9 DEF TypeInv
  <1>2. CASE AcceptAgent(ip)
    <2>1. PICK i \in Slots : Accepts(ip, i)
      BY <1>2 DEF AcceptAgent
    <2>2. /\ nconn' \in Conn /\ nconn' \in 0 .. MaxConn /\ fds' \subseteq Conn
          /\ nconn' = nconn + 1
          /\ conn' \in [Conn -> ConnState] /\ conn'[nconn'].slot = i
          /\ \A d \in Conn : d # nconn' => conn'[d] = conn[d]
          /\ talk[nconn'].pc = "none" /\ enq[nconn'].pc = "none"
      BY <2>1, AcceptsStep
    <2>3. UNCHANGED <<talk, g_wa_array>> /\ main' = "count"
      BY <1>2 DEF AcceptAgent
    <2>4. Shape'
      <3>1. UNCHANGED <<enq, disp>> /\ Shape /\ nconn \in Nat
        BY <2>1 DEF Accepts, TypeInv, TypeOK
      <3>2. \A d \in Conn : talk[d].pc # "none" \/ enq[d].pc # "none" =>
                                 d <= nconn' /\ conn'[d].slot = conn[d].slot
        BY <2>2, <3>1, SMTT(60) DEF Shape, Conn
      <3> QED BY <2>2, <2>3, <3>1, <3>2 DEF Shape, Slot
    <2>5. TypeOK'
      BY <2>1, <2>2, <2>3 DEF Accepts, TypeInv, TypeOK
    <2> QED BY <2>4, <2>5 DEF TypeInv
  <1>3. CASE Refuse(ip)
    <2>1. Accepts(ip, -1)
      BY <1>3 DEF Refuse
    <2>2. /\ nconn' \in Conn /\ nconn' \in 0 .. MaxConn /\ fds' \subseteq Conn
          /\ nconn' = nconn + 1
          /\ conn' \in [Conn -> ConnState]
          /\ \A d \in Conn : d # nconn' => conn'[d] = conn[d]
          /\ talk[nconn'].pc = "none" /\ enq[nconn'].pc = "none" /\ main = "accept"
      BY <2>1, AcceptsStep
    <2>3. UNCHANGED <<talk, g_wa_array, main>>
      BY <1>3 DEF Refuse
    <2>4. Shape'
      <3>1. UNCHANGED <<enq, disp>> /\ Shape /\ nconn \in Nat
        BY <2>1 DEF Accepts, TypeInv, TypeOK
      <3>2. \A d \in Conn : talk[d].pc # "none" \/ enq[d].pc # "none" =>
                                 d <= nconn' /\ conn'[d].slot = conn[d].slot
        BY <2>2, <3>1 DEF Shape, Conn
      <3> QED BY <2>2, <2>3, <3>1, <3>2 DEF Shape, Slot
    <2>5. TypeOK'
      BY <2>1, <2>2, <2>3 DEF Accepts, TypeInv, TypeOK
    <2> QED BY <2>4, <2>5 DEF TypeInv
  <1> QED BY <1>1, <1>2, <1>3

LEMMA AcceptFailsType == ASSUME TypeInv, AcceptFails PROVE TypeInv'
  <1> USE ConstantsAssumption DEF netVars, fileVars, slotVars, sqlVars, dayVars,
                              Lock, Unlock
  <1>1. Shape'
    BY DEF AcceptFails, TypeInv, Shape, Slot
  <1>2. TypeOK'
    BY DEF AcceptFails, TypeInv, TypeOK
  <1> QED BY <1>1, <1>2 DEF TypeInv

LEMMA MidnightType == ASSUME TypeInv, Midnight PROVE TypeInv'
  <1> USE ConstantsAssumption DEF netVars, fileVars, slotVars, sqlVars, dayVars,
                              Lock, Unlock
  <1>1. Shape'
    BY DEF Midnight, TypeInv, Shape, Slot
  <1>2. today' \in 1 .. LastDay
    BY DEF Midnight, TypeInv, TypeOK
  <1>3. TypeOK'
    BY <1>2 DEF Midnight, TypeInv, TypeOK
  <1> QED BY <1>1, <1>3 DEF TypeInv

LEMMA PeerClosesType == ASSUME TypeInv, NEW k \in Conn, PeerCloses(k) PROVE TypeInv'
  <1> USE ConstantsAssumption DEF netVars, fileVars, slotVars, sqlVars, dayVars,
                              Lock, Unlock
  <1>1. PICK st \in {"reset", "eof"} : conn' = [conn EXCEPT ![k] = [conn[k] EXCEPT !.st = st]]
    BY DEF PeerCloses
  <1> DEFINE r == [conn[k] EXCEPT !.st = st]
  <1>2. conn \in [Conn -> ConnState] /\ conn[k] \in ConnState
    BY DEF TypeInv, TypeOK
  <1>3. r \in ConnState /\ r.slot = conn[k].slot
    BY <1>2, ConnMoves
  <1> HIDE DEF r
  <1>4. conn' \in [Conn -> ConnState] /\ \A d \in Conn : conn'[d].slot = conn[d].slot
    BY <1>1, <1>2, <1>3, ConnStep DEF r
  <1>5. Shape'
    BY <1>4 DEF PeerCloses, TypeInv, Shape, Slot
  <1>6. TypeOK'
    BY <1>4 DEF PeerCloses, TypeInv, TypeOK
  <1> QED BY <1>5, <1>6 DEF TypeInv

LEMMA MainType == ASSUME TypeInv, MainNext PROVE TypeInv'
  <1> USE ConstantsAssumption DEF netVars, fileVars, slotVars, sqlVars, dayVars,
                              Lock, Unlock
  <1>1. CASE CountAgent
    <2>1. Shape'
      BY <1>1 DEF CountAgent, TypeInv, Shape, Slot
    <2>2. g_connected_agent_count' \in Nat
      BY <1>1 DEF CountAgent, TypeInv, TypeOK
    <2>3. TypeOK'
      BY <1>1, <2>2 DEF CountAgent, TypeInv, TypeOK
    <2> QED BY <2>1, <2>3 DEF TypeInv
  <1>2. CASE Spawn
    <2> DEFINE n == nconn
               t == [talk[n] EXCEPT !.pc = "start"]
               e == [enq[n] EXCEPT !.pc = "sleep"]
    <2>1. /\ n \in Conn /\ n \in 0 .. MaxConn /\ Slot(n) \in Slots
          /\ talk \in [Conn -> TalkState] /\ enq \in [Conn -> EnqState]
          /\ g_wa_array \in [Slots -> 0 .. MaxConn]
      BY <1>2 DEF Spawn, TypeInv, TypeOK, Shape
    <2>2. /\ talk' = [talk EXCEPT ![n] = t] \/ talk' = talk
          /\ enq' = [enq EXCEPT ![n] = e] \/ enq' = enq
          /\ g_wa_array' = [g_wa_array EXCEPT ![Slot(n)] = n]
          /\ main' = "accept" /\ UNCHANGED <<nconn, conn, disp>>
      BY <1>2 DEF Spawn
    <2>3. t \in TalkState /\ t.pc = "start"
      BY <2>1, ZenonT(60) DEF TalkState, TalkPc
    <2>4. e \in EnqState /\ e.pc = "sleep"
      BY <2>1, ZenonT(60) DEF EnqState, EnqPc
    <2> HIDE DEF t, e
    <2>5. /\ talk' \in [Conn -> TalkState]
          /\ \A d \in Conn : talk'[d] = talk[d] \/ (d = n /\ talk'[d] = t)
      BY <2>1, <2>2, <2>3
    <2>6. /\ enq' \in [Conn -> EnqState]
          /\ \A d \in Conn : enq'[d] = enq[d] \/ (d = n /\ enq'[d] = e)
      BY <2>1, <2>2, <2>4
    <2>7. /\ g_wa_array' \in [Slots -> 0 .. MaxConn] /\ g_wa_array'[Slot(n)] = n
          /\ \A i \in Slots : g_wa_array'[i] \in {g_wa_array[i], n}
      BY <2>1, <2>2
    <2>8. Shape'
      <3>1. \A d \in Conn : talk'[d].pc # "none" => /\ d <= nconn'
                                                    /\ Slot(d)' \in Slots
                                                    /\ g_wa_array'[Slot(d)'] \in Conn
        BY <2>1, <2>2, <2>5, <2>7 DEF TypeInv, Shape, Slot, Conn
      <3>2. \A d \in Conn : talk'[d].pc \notin {"none", "start"} => talk'[d].sock \in Conn
        BY <2>3, <2>5 DEF TypeInv, Shape
      <3>3. \A d \in Conn : enq'[d].pc # "none" => d <= nconn' /\ Slot(d)' \in Slots
        BY <2>1, <2>2, <2>6 DEF TypeInv, Shape, Slot, Conn
      <3>4. \A d \in Conn : enq'[d].pc \in Reading => enq'[d].ino \in Conn
        BY <2>4, <2>6 DEF TypeInv, Shape, Reading
      <3> QED BY <2>2, <3>1, <3>2, <3>3, <3>4 DEF TypeInv, Shape
    <2>9. TypeOK'
      BY <1>2, <2>5, <2>6, <2>7 DEF Spawn, TypeInv, TypeOK
    <2> QED BY <2>8, <2>9 DEF TypeInv
  <1> QED BY <1>1, <1>2 DEF MainNext

LEMMA StutterType == ASSUME TypeInv, UNCHANGED vars PROVE TypeInv'
  <1>1. Shape'
    BY DEF vars, TypeInv, Shape, Slot
  <1>2. TypeOK'
    BY DEF vars, TypeInv, TypeOK
  <1> QED BY <1>1, <1>2 DEF TypeInv

LEMMA TypeInvStep == ASSUME TypeInv, [Next]_vars PROVE TypeInv'
  <1>1. CASE Environment
    BY <1>1, AcceptType, AcceptFailsType, MidnightType, PeerClosesType DEF Environment
  <1>2. CASE MainNext
    BY <1>2, MainType
  <1>3. CASE \E c \in Conn : TalkNext(c) \/ WrongCommand(c) \/ EnqNext(c)
    BY <1>3, TalkType, EnqType
  <1>4. CASE DispNext
    BY <1>4, DispType
  <1>5. CASE UNCHANGED vars
    BY <1>5, StutterType
  <1> QED BY <1>1, <1>2, <1>3, <1>4, <1>5 DEF Next

(* The values of every variable, and what the threads' program counters say   *)
(* of them: each talk thread has a socket of its own, each enqueue thread that *)
(* reads has a file, and the dispatch thread holds a record exactly when it is *)
(* inside its critical section.                                               *)
LEMMA TypeInvHolds == Spec => []TypeInv
  <1>1. Init => TypeInv
    BY InitType
  <1>2. TypeInv /\ [Next]_vars => TypeInv'
    BY TypeInvStep
  <1> QED BY <1>1, <1>2, PTL DEF Spec

(* Type correctness for any number of hosts, connections, days and faults.    *)
THEOREM TypeCorrect == Spec => []TypeOK
  BY TypeInvHolds, PTL DEF TypeInv
-----------------------------------------------------------------------------
(* The queue between the enqueue threads and the dispatch thread: who holds   *)
(* s_queue_mutex, what g_queue_node_count counts, how long the queue gets,    *)
(* and that it is the handoff of SqlHandoff.  The Effect lemmas reduce each   *)
(* thread's step to what it does to the mutex, the queue and the thread's own *)
(* program counter; the invariants are proved from them.                      *)
\* A thread inside its critical section holds the mutex.
Locked ==
  /\ \A c \in Conn : talk[c].pc = "rename" => s_queue_mutex = Talker(c)
  /\ \A c \in Conn : enq[c].pc = "count" => s_queue_mutex = Enqueuer(c)
  /\ disp.pc \in {"uncount", "check"} => s_queue_mutex = Dispatcher

\* A record that is counted and no longer queued, or queued and not yet counted.
Pending == IF disp.pc = "uncount" THEN 1
           ELSE IF \E c \in Conn : enq[c].pc = "count" THEN -1 ELSE 0
Counted == g_queue_node_count = Len(g_sql_queue) + Pending

\* Every thread that has seen room still finds room for its record.
RoomKept == Len(g_sql_queue) + Cardinality(Committed) <= MAX_QUEUE_SIZE - 1 + MaxConn

QueueInv == TypeInv /\ Locked /\ Counted /\ RoomKept

\* The names of the threads are different from each other and from Free.
LEMMA Distinct ==
  ASSUME NEW c \in Conn, NEW d \in Conn
  PROVE  /\ Talker(c) # Free /\ Enqueuer(c) # Free
         /\ Talker(c) # Enqueuer(d) /\ Talker(c) # Dispatcher /\ Enqueuer(c) # Dispatcher
         /\ Talker(c) = Talker(d) => c = d
         /\ Enqueuer(c) = Enqueuer(d) => c = d
  BY DEF Talker, Enqueuer, Dispatcher, Free

LEMMA DispatcherIsNotFree == Dispatcher # Free
  BY DEF Dispatcher, Free

\* What a step of talk_to_client does to the mutex and the queue.
LEMMA TalkEffect ==
  ASSUME TypeInv, NEW c \in Conn, TalkNext(c) \/ WrongCommand(c)
  PROVE  /\ UNCHANGED <<enq, disp, g_sql_queue, g_queue_node_count>>
         /\ \A d \in Conn : d # c => talk'[d] = talk[d]
         /\ \/ s_queue_mutex' = s_queue_mutex /\ talk'[c].pc # "rename" /\ talk[c].pc # "rename"
            \/ up' = FALSE /\ UNCHANGED <<s_queue_mutex, talk>>
            \/ /\ s_queue_mutex = Free /\ s_queue_mutex' = Talker(c)
               /\ talk'[c].pc = "rename"
            \/ s_queue_mutex' = Free /\ talk[c].pc = "rename" /\ talk'[c].pc # "rename"
  <1> USE DEF sqlVars, Lock, Unlock
  <1>1. talk \in [Conn -> TalkState] /\ talk[c] \in TalkState
    BY DEF TypeInv, TypeOK
  <1>2. \A p \in TalkPc, q \in TalkPc : TalkGoes(c, p, q) =>
           talk[c].pc = p /\ talk'[c].pc = q /\ \A d \in Conn : d # c => talk'[d] = talk[d]
    BY <1>1 DEF TalkGoes, TalkState
  <1>3. CASE TalkStart(c)
    BY <1>1, <1>3 DEF TalkStart, TalkState
  <1>4. CASE ConsoleEnds(c) \/ WrongCommand(c)
    BY <1>2, <1>4, SMTT(60) DEF ConsoleEnds, WrongCommand, CmdReturns, TalkPc
  <1>5. CASE TalkSend(c)
    BY <1>2, <1>5 DEF TalkSend, TalkPc
  <1>6. CASE TalkOpen(c)
    BY <1>1, <1>6, ZenonT(60) DEF TalkOpen, TalkState
  <1>7. CASE TalkRecv(c)
    BY <1>1, <1>7 DEF TalkRecv, TalkState
  <1>8. CASE TalkRecvEnds(c)
    BY <1>2, <1>8 DEF TalkRecvEnds, TalkPc
  <1>9. CASE TalkWrite(c)
    BY <1>1, <1>2, <1>9, ZenonT(60) DEF TalkWrite, TalkPc, TalkState
  <1>10. CASE TalkTimeout(c)
    BY <1>1, <1>2, <1>10 DEF TalkTimeout, TalkPc, TalkState
  <1>11. CASE TalkRename(c)
    BY <1>2, <1>11 DEF TalkRename, TalkPc
  <1>12. CASE TalkExit(c)
    BY <1>2, <1>12 DEF TalkExit, TalkPc
  <1>13. CASE TalkUncount(c)
    BY <1>2, <1>13 DEF TalkUncount, TalkPc
  <1> QED BY <1>3, <1>4, <1>5, <1>6, <1>7, <1>8, <1>9, <1>10, <1>11, <1>12, <1>13
          DEF TalkNext

\* What a step of enqueue_func does to the mutex and the queue.
LEMMA EnqEffect ==
  ASSUME TypeInv, NEW c \in Conn, EnqNext(c)
  PROVE  /\ UNCHANGED <<talk, disp>>
         /\ \A d \in Conn : d # c => enq'[d] = enq[d]
         /\ \/ /\ UNCHANGED <<s_queue_mutex, g_sql_queue, g_queue_node_count>>
               /\ enq[c].pc \notin {"put", "count"} /\ enq'[c].pc # "count"
               /\ enq'[c].pc = "put" => g_queue_node_count < MAX_QUEUE_SIZE
            \/ /\ "ebadf" \in Faults
               /\ s_queue_mutex = Free /\ s_queue_mutex' = Enqueuer(c)
               /\ UNCHANGED <<g_sql_queue, g_queue_node_count>>
               /\ enq[c].pc = "read" /\ enq'[c].pc = "done"
            \/ /\ s_queue_mutex = Free /\ s_queue_mutex' = Enqueuer(c)
               /\ enq[c].pc = "put" /\ enq'[c].pc = "count"
               /\ \E r \in Record : g_sql_queue' = Append(g_sql_queue, r)
               /\ g_queue_node_count' = g_queue_node_count
            \/ /\ enq[c].pc = "count" /\ enq'[c].pc = "read"
               /\ s_queue_mutex' = Free
               /\ g_sql_queue' = g_sql_queue
               /\ g_queue_node_count' = g_queue_node_count + 1
  <1> USE DEF sqlVars, EnqOnly, Lock, Unlock
  <1>1. enq \in [Conn -> EnqState] /\ enq[c] \in EnqState
    BY DEF TypeInv, TypeOK
  <1>2. \A p \in EnqPc, q \in EnqPc : EnqGoes(c, p, q) =>
           enq[c].pc = p /\ enq'[c].pc = q /\ \A d \in Conn : d # c => enq'[d] = enq[d]
    BY <1>1 DEF EnqGoes, EnqState
  <1>3. CASE EnqName(c)
    BY <1>1, <1>3 DEF EnqName, EnqState
  <1>4. CASE EnqFopen(c)
    BY <1>1, <1>2, <1>4, ZenonT(60) DEF EnqFopen, EnqState, EnqPc
  <1>5. CASE EnqGetLine(c)
    BY <1>1, <1>5 DEF EnqGetLine, EnqState
  <1>6. CASE EnqGetEof(c)
    BY <1>1, <1>6 DEF EnqGetEof, EnqState
  <1>13. CASE EnqFgetsFails(c)
    BY <1>2, <1>13 DEF EnqFgetsFails, EnqPc
  <1>7. CASE EnqEbadf(c)
    BY <1>1, <1>2, <1>7, ZenonT(60) DEF EnqEbadf, Resumed, EnqState, EnqPc
  <1>8. CASE EnqEof(c)
    BY <1>2, <1>8 DEF EnqEof, EnqPc
  <1>9. CASE EnqReopen(c)
    BY <1>1, <1>2, <1>9, ZenonT(60) DEF EnqReopen, Resumed, EnqState, EnqPc
  <1>10. CASE EnqAssemble(c)
    BY <1>1, <1>10 DEF EnqAssemble, HasRoom, EnqState
  <1>11. CASE EnqPut(c)
    <2> DEFINE r == [by |-> c, rec |-> enq[c].cur]
    <2>1. r \in Record
      BY <1>1 DEF Record, EnqState
    <2>2. /\ s_queue_mutex = Free /\ s_queue_mutex' = Enqueuer(c)
          /\ enq[c].pc = "put"
          /\ g_sql_queue' = Append(g_sql_queue, r)
          /\ UNCHANGED <<talk, disp, g_queue_node_count>>
      BY <1>11 DEF EnqPut, Enqueued
    <2>3. enq'[c].pc = "count" /\ \A d \in Conn : d # c => enq'[d] = enq[d]
      BY <1>1, <1>11 DEF EnqPut, EnqState
    <2> HIDE DEF r
    <2> QED BY <2>1, <2>2, <2>3
  <1>12. CASE EnqCount(c)
    BY <1>2, <1>12 DEF EnqCount, EnqPc
  <1> QED BY <1>3, <1>4, <1>5, <1>6, <1>7, <1>8, <1>9, <1>10, <1>11, <1>12,
            <1>13 DEF EnqNext

\* What a step of dispatch_func does to the mutex and the queue.
LEMMA DispEffect ==
  ASSUME TypeInv, DispNext
  PROVE  /\ UNCHANGED <<talk, enq>>
         /\ \/ /\ UNCHANGED <<s_queue_mutex, g_sql_queue, g_queue_node_count>>
               /\ disp.pc \in {"poll", "lock"} /\ disp'.pc \in {"poll", "lock"}
            \/ UNCHANGED <<s_queue_mutex, g_sql_queue, g_queue_node_count, disp>>
            \/ /\ s_queue_mutex = Free /\ s_queue_mutex' = Dispatcher
               /\ disp.pc = "lock" /\ disp'.pc = "uncount"
               /\ g_sql_queue # <<>> /\ g_sql_queue' = Tail(g_sql_queue)
               /\ disp'.sql = Head(g_sql_queue)
               /\ g_queue_node_count' = g_queue_node_count
            \/ /\ disp.pc = "uncount"
               /\ g_sql_queue' = g_sql_queue
               /\ g_queue_node_count' = g_queue_node_count - 1
               /\ \/ s_queue_mutex' = s_queue_mutex /\ disp'.pc = "check" /\ disp'.sql = disp.sql
                  \/ s_queue_mutex' = Free /\ disp'.pc = "poll" /\ disp'.sql = NoSql
            \/ /\ disp.pc = "check" /\ disp'.pc = "poll" /\ disp'.sql = NoSql
               /\ s_queue_mutex' = Free
               /\ UNCHANGED <<g_sql_queue, g_queue_node_count>>
  <1> USE DEF DispOnly, Lock, Unlock, Finished
  <1>1. disp \in DispState
    BY DEF TypeInv, TypeOK
  <1>2. CASE DispPoll
    BY <1>1, <1>2 DEF DispPoll, DispState
  <1>3. CASE DispPop
    BY <1>1, <1>3 DEF DispPop, DispState
  <1>4. CASE DispUncount
    BY <1>1, <1>4 DEF DispUncount, DispState
  <1>5. CASE DispCheck
    <2>1. /\ disp.pc = "check" /\ UNCHANGED <<talk, enq, g_sql_queue, g_queue_node_count>>
          /\ \/ disp' = [pc |-> "poll", sql |-> NoSql] /\ s_queue_mutex' = Free
             \/ UNCHANGED <<disp, s_queue_mutex>>
      BY <1>5 DEF DispCheck
    <2> QED BY <2>1
  <1> QED BY <1>2, <1>3, <1>4, <1>5 DEF DispNext

\* main and the environment touch neither the mutex nor the queue; they start threads.
LEMMA OtherEffect ==
  ASSUME TypeInv, Environment \/ MainNext \/ UNCHANGED vars
  PROVE  /\ UNCHANGED <<s_queue_mutex, g_sql_queue, g_queue_node_count, disp>>
         /\ \A d \in Conn : \/ talk'[d].pc = talk[d].pc
                            \/ talk[d].pc = "none" /\ talk'[d].pc = "start"
         /\ \A d \in Conn : \/ enq'[d].pc = enq[d].pc
                            \/ enq[d].pc = "none" /\ enq'[d].pc = "sleep"
  <1> USE DEF sqlVars, Lock, Unlock
  <1>1. /\ talk \in [Conn -> TalkState] /\ enq \in [Conn -> EnqState]
        /\ \A d \in Conn : talk[d] \in TalkState /\ enq[d] \in EnqState
    BY DEF TypeInv, TypeOK
  <1>2. CASE \E ip \in Ips : AcceptConsole(ip)
    <2>1. PICK ip \in Ips : AcceptConsole(ip)
      BY <1>2
    <2>2. Accepts(ip, Console) /\ Console \in Slots
      BY <2>1, ConstantsAssumption DEF AcceptConsole, Console, Slots
    <2>3. nconn' \in Conn /\ talk[nconn'].pc = "none"
      BY <2>2, AcceptsStep
    <2>4. /\ talk' = [talk EXCEPT ![nconn'].pc = "start"] \/ talk' = talk
          /\ UNCHANGED <<s_queue_mutex, g_sql_queue, g_queue_node_count, disp, enq>>
      BY <2>1, <2>2 DEF AcceptConsole, Accepts
    <2> QED BY <1>1, <2>3, <2>4 DEF TalkState
  <1>3. CASE \E ip \in Ips : AcceptAgent(ip) \/ Refuse(ip)
    BY <1>3 DEF AcceptAgent, Refuse, Accepts
  <1>4. CASE AcceptFails \/ Midnight \/ (\E k \in Conn : PeerCloses(k))
    BY <1>4 DEF AcceptFails, Midnight, PeerCloses
  <1>5. CASE CountAgent
    BY <1>5 DEF CountAgent
  <1>6. CASE Spawn
    <2>1. nconn \in Conn /\ talk[nconn].pc = "none" /\ enq[nconn].pc = "none"
      BY <1>6 DEF Spawn, TypeInv, Shape
    <2> DEFINE t == [talk[nconn] EXCEPT !.pc = "start"]
               e == [enq[nconn] EXCEPT !.pc = "sleep"]
    <2>2. /\ UNCHANGED <<s_queue_mutex, g_sql_queue, g_queue_node_count, disp>>
          /\ talk' = [talk EXCEPT ![nconn] = t] \/ talk' = talk
          /\ enq' = [enq EXCEPT ![nconn] = e] \/ enq' = enq
      BY <1>6 DEF Spawn
    <2>3. t.pc = "start" /\ e.pc = "sleep"
      BY <1>1, <2>1 DEF TalkState, EnqState
    <2> HIDE DEF t, e
    <2>4. \A d \in Conn : talk'[d] = talk[d] \/ (d = nconn /\ talk'[d] = t)
      BY <1>1, <2>1, <2>2
    <2>5. \A d \in Conn : enq'[d] = enq[d] \/ (d = nconn /\ enq'[d] = e)
      BY <1>1, <2>1, <2>2
    <2> QED BY <2>1, <2>2, <2>3, <2>4, <2>5
  <1>7. CASE UNCHANGED vars
    BY <1>7 DEF vars
  <1> QED BY <1>2, <1>3, <1>4, <1>5, <1>6, <1>7 DEF Environment, MainNext

LEMMA LockedStep ==
  ASSUME TypeInv, Locked, [Next]_vars
  PROVE  Locked'
  <1>1. ASSUME NEW c \in Conn, TalkNext(c) \/ WrongCommand(c) PROVE Locked'
    <2>1. \A d \in Conn : talk'[d].pc = "rename" => s_queue_mutex' = Talker(d)
      BY <1>1, TalkEffect, Distinct, DispatcherIsNotFree, ZenonT(60) DEF Locked
    <2>2. \A d \in Conn : enq'[d].pc = "count" => s_queue_mutex' = Enqueuer(d)
      BY <1>1, TalkEffect, Distinct, DispatcherIsNotFree DEF Locked
    <2>3. disp'.pc \in {"uncount", "check"} => s_queue_mutex' = Dispatcher
      BY <1>1, TalkEffect, Distinct, DispatcherIsNotFree DEF Locked
    <2> QED BY <2>1, <2>2, <2>3 DEF Locked
  <1>2. ASSUME NEW c \in Conn, EnqNext(c) PROVE Locked'
    <2>1. \A d \in Conn : talk'[d].pc = "rename" => s_queue_mutex' = Talker(d)
      BY <1>2, EnqEffect, Distinct, DispatcherIsNotFree DEF Locked
    <2>2. \A d \in Conn : enq'[d].pc = "count" => s_queue_mutex' = Enqueuer(d)
      BY <1>2, EnqEffect, Distinct, DispatcherIsNotFree DEF Locked
    <2>3. disp'.pc \in {"uncount", "check"} => s_queue_mutex' = Dispatcher
      BY <1>2, EnqEffect, Distinct, DispatcherIsNotFree DEF Locked
    <2> QED BY <2>1, <2>2, <2>3 DEF Locked
  <1>3. CASE DispNext
    BY <1>3, DispEffect, Distinct, DispatcherIsNotFree DEF Locked
  <1>4. CASE Environment \/ MainNext \/ UNCHANGED vars
    BY <1>4, OtherEffect DEF Locked
  <1> QED BY <1>1, <1>2, <1>3, <1>4 DEF Next

LEMMA CountedStep ==
  ASSUME TypeInv, Locked, Counted, [Next]_vars
  PROVE  Counted'
  <1>1. Len(g_sql_queue) \in Nat /\ g_sql_queue \in Seq(Record) /\ g_queue_node_count \in Int
    BY DEF TypeInv, TypeOK
  <1>2. ASSUME NEW c \in Conn, TalkNext(c) \/ WrongCommand(c) PROVE Counted'
    BY <1>2, TalkEffect DEF Counted, Pending
  <1>3. ASSUME NEW c \in Conn, EnqNext(c) PROVE Counted'
    <2>1. /\ disp' = disp
          /\ \A d \in Conn : d # c => enq'[d] = enq[d]
      BY <1>3, EnqEffect
    <2>2. CASE /\ UNCHANGED <<g_sql_queue, g_queue_node_count>>
               /\ enq[c].pc # "count" /\ enq'[c].pc # "count"
      <3>1. (\E d \in Conn : enq'[d].pc = "count") <=> (\E d \in Conn : enq[d].pc = "count")
        BY <2>1, <2>2
      <3> QED BY <2>1, <2>2, <3>1 DEF Counted, Pending
    <2>3. CASE /\ s_queue_mutex = Free
               /\ enq'[c].pc = "count"
               /\ \E r \in Record : g_sql_queue' = Append(g_sql_queue, r)
               /\ g_queue_node_count' = g_queue_node_count
      <3>1. disp.pc # "uncount" /\ ~\E d \in Conn : enq[d].pc = "count"
        BY <2>3, Distinct, DispatcherIsNotFree DEF Locked
      <3>2. Len(g_sql_queue') = Len(g_sql_queue) + 1
        BY <1>1, <2>3
      <3>3. Pending = 0 /\ Pending' = -1
        BY <2>1, <2>3, <3>1 DEF Pending
      <3> QED BY <1>1, <2>3, <3>2, <3>3 DEF Counted
    <2>4. CASE /\ enq[c].pc = "count" /\ enq'[c].pc = "read"
               /\ g_sql_queue' = g_sql_queue
               /\ g_queue_node_count' = g_queue_node_count + 1
      <3>1. disp.pc # "uncount" /\ \A d \in Conn : d # c => enq[d].pc # "count"
        BY <2>4, Distinct, DispatcherIsNotFree DEF Locked
      <3>2. ~\E d \in Conn : enq'[d].pc = "count"
        BY <2>1, <2>4, <3>1
      <3>3. Pending = -1 /\ Pending' = 0
        BY <2>1, <2>4, <3>1, <3>2 DEF Pending
      <3> QED BY <1>1, <2>4, <3>3 DEF Counted
    <2> QED BY <1>3, <2>2, <2>3, <2>4, EnqEffect
  <1>4. CASE DispNext
    <2>1. enq' = enq
      BY <1>4, DispEffect
    <2>2. CASE /\ UNCHANGED <<g_sql_queue, g_queue_node_count>>
               /\ (disp.pc # "uncount" /\ disp'.pc # "uncount") \/ disp' = disp
      BY <2>1, <2>2 DEF Counted, Pending
    <2>3. CASE /\ s_queue_mutex = Free /\ disp.pc = "lock" /\ disp'.pc = "uncount"
               /\ g_sql_queue # <<>> /\ g_sql_queue' = Tail(g_sql_queue)
               /\ g_queue_node_count' = g_queue_node_count
      <3>1. ~\E d \in Conn : enq[d].pc = "count"
        BY <2>3, Distinct, DispatcherIsNotFree DEF Locked
      <3>2. Len(g_sql_queue') = Len(g_sql_queue) - 1
        BY <1>1, <2>3
      <3>3. Pending = 0 /\ Pending' = 1
        BY <2>1, <2>3, <3>1 DEF Pending
      <3> QED BY <1>1, <2>3, <3>2, <3>3 DEF Counted
    <2>4. CASE /\ disp.pc = "uncount" /\ disp'.pc # "uncount"
               /\ g_sql_queue' = g_sql_queue
               /\ g_queue_node_count' = g_queue_node_count - 1
      <3>1. ~\E d \in Conn : enq[d].pc = "count"
        BY <2>4, Distinct, DispatcherIsNotFree DEF Locked
      <3>2. Pending = 1 /\ Pending' = 0
        BY <2>1, <2>4, <3>1 DEF Pending
      <3> QED BY <1>1, <2>4, <3>2 DEF Counted
    <2> QED BY <1>4, <2>2, <2>3, <2>4, DispEffect
  <1>5. CASE Environment \/ MainNext \/ UNCHANGED vars
    <2>1. /\ UNCHANGED <<g_sql_queue, g_queue_node_count, disp>>
          /\ (\E d \in Conn : enq'[d].pc = "count") <=> (\E d \in Conn : enq[d].pc = "count")
      BY <1>5, OtherEffect
    <2> QED BY <2>1 DEF Counted, Pending
  <1> QED BY <1>2, <1>3, <1>4, <1>5 DEF Next

LEMMA ConnFinite ==
  /\ IsFiniteSet(Conn) /\ Cardinality(Conn) = MaxConn /\ MaxConn \in Nat
  /\ \A S \in SUBSET Conn : /\ IsFiniteSet(S) /\ Cardinality(S) \in Nat
                            /\ Cardinality(S) <= MaxConn
  <1>1. MaxConn \in Nat
    BY ConstantsAssumption
  <1>2. IsFiniteSet(Conn) /\ Cardinality(Conn) = MaxConn
    BY <1>1, FS_Interval DEF Conn
  <1> QED BY <1>1, <1>2, FS_Subset, FS_CardinalityType

LEMMA RoomKeptStep ==
  ASSUME TypeInv, Locked, Counted, RoomKept, [Next]_vars
  PROVE  RoomKept'
  <1>1. /\ Len(g_sql_queue) \in Nat /\ g_sql_queue \in Seq(Record) /\ g_queue_node_count \in Int
        /\ MAX_QUEUE_SIZE \in Nat /\ MaxConn \in Nat
    BY ConstantsAssumption DEF TypeInv, TypeOK
  <1>2. /\ Committed \subseteq Conn /\ Committed' \subseteq Conn
        /\ IsFiniteSet(Committed) /\ Cardinality(Committed) \in Nat
        /\ IsFiniteSet(Committed') /\ Cardinality(Committed') \in Nat
        /\ Cardinality(Committed') <= MaxConn
    BY ConnFinite DEF Committed
  <1>3. ASSUME Committed' \subseteq Committed, Len(g_sql_queue') \in Nat,
               Len(g_sql_queue') <= Len(g_sql_queue)
        PROVE  RoomKept'
    <2>1. Cardinality(Committed') <= Cardinality(Committed)
      BY <1>2, <1>3, FS_Subset
    <2> QED BY <1>1, <1>2, <1>3, <2>1 DEF RoomKept
  <1>4. ASSUME NEW c \in Conn, TalkNext(c) \/ WrongCommand(c) PROVE RoomKept'
    <2>1. g_sql_queue' = g_sql_queue /\ Committed' = Committed
      BY <1>4, TalkEffect DEF Committed
    <2> QED BY <1>1, <1>3, <2>1
  <1>5. ASSUME NEW c \in Conn, EnqNext(c) PROVE RoomKept'
    <2>1. \A d \in Conn : d # c => enq'[d] = enq[d]
      BY <1>5, EnqEffect
    <2>2. CASE enq'[c].pc # "put" /\ g_sql_queue' = g_sql_queue
      BY <1>1, <1>3, <2>1, <2>2 DEF Committed
    <2>3. CASE /\ enq[c].pc \notin {"put", "count"} /\ enq'[c].pc = "put"
               /\ g_queue_node_count < MAX_QUEUE_SIZE
               /\ g_sql_queue' = g_sql_queue
      <3>1. CASE \E d \in Conn : enq[d].pc = "count"
        <4>1. PICK d \in Conn : enq[d].pc = "count"
          BY <3>1
        <4>2. disp.pc # "uncount"
          BY <4>1, Distinct, DispatcherIsNotFree DEF Locked
        <4>3. Len(g_sql_queue) <= MAX_QUEUE_SIZE
          BY <1>1, <2>3, <3>1, <4>2 DEF Counted, Pending
        <4>4. Committed' \subseteq Conn \ {d}
          BY <1>2, <2>1, <2>3, <4>1 DEF Committed
        <4>5. Cardinality(Conn \ {d}) = MaxConn - 1 /\ IsFiniteSet(Conn \ {d})
          BY <4>1, ConnFinite, FS_RemoveElement
        <4>6. Cardinality(Committed') <= MaxConn - 1
          BY <4>4, <4>5, FS_Subset
        <4> QED BY <1>1, <1>2, <2>3, <4>3, <4>6 DEF RoomKept
      <3>2. CASE ~\E d \in Conn : enq[d].pc = "count"
        <4>1. Len(g_sql_queue) <= MAX_QUEUE_SIZE - 1
          BY <1>1, <2>3, <3>2 DEF Counted, Pending
        <4> QED BY <1>1, <1>2, <2>3, <4>1 DEF RoomKept
      <3> QED BY <3>1, <3>2
    <2>4. CASE /\ enq[c].pc = "put" /\ enq'[c].pc = "count"
               /\ \E r \in Record : g_sql_queue' = Append(g_sql_queue, r)
      <3>1. Len(g_sql_queue') = Len(g_sql_queue) + 1
        BY <1>1, <2>4
      <3>2. Committed' = Committed \ {c} /\ c \in Committed
        BY <2>1, <2>4 DEF Committed
      <3>3. Cardinality(Committed') = Cardinality(Committed) - 1
        BY <1>2, <3>2, FS_RemoveElement
      <3> QED BY <1>1, <1>2, <3>1, <3>3 DEF RoomKept
    <2> QED BY <1>5, <2>2, <2>3, <2>4, EnqEffect
  <1>6. CASE DispNext
    <2>1. Committed' = Committed
      BY <1>6, DispEffect DEF Committed
    <2>2. g_sql_queue' = g_sql_queue \/ (g_sql_queue # <<>> /\ g_sql_queue' = Tail(g_sql_queue))
      BY <1>6, DispEffect
    <2>3. Len(g_sql_queue') \in Nat /\ Len(g_sql_queue') <= Len(g_sql_queue)
      BY <1>1, <2>2
    <2> QED BY <1>3, <2>1, <2>3
  <1>7. CASE Environment \/ MainNext \/ UNCHANGED vars
    <2>1. g_sql_queue' = g_sql_queue /\ Committed' \subseteq Committed
      BY <1>7, OtherEffect DEF Committed
    <2> QED BY <1>1, <1>3, <2>1
  <1> QED BY <1>4, <1>5, <1>6, <1>7 DEF Next

LEMMA QueueInvInit == Init => QueueInv
  <1> SUFFICES ASSUME Init PROVE QueueInv
    OBVIOUS
  <1>1. TypeInv
    BY InitType
  <1>2. /\ \A c \in Conn : talk[c].pc = "none" /\ enq[c].pc = "none"
        /\ disp.pc = "poll" /\ g_sql_queue = <<>> /\ g_queue_node_count = 0
    BY DEF Init
  <1>3. Locked
    BY <1>2 DEF Locked
  <1>4. Counted
    BY <1>2 DEF Counted, Pending
  <1>5. RoomKept
    <2>1. Committed = {}
      BY <1>2 DEF Committed
    <2> QED BY <1>2, <2>1, ConstantsAssumption, FS_EmptySet DEF RoomKept
  <1> QED BY <1>1, <1>3, <1>4, <1>5 DEF QueueInv

LEMMA QueueInvHolds == Spec => []QueueInv
  <1>1. Init => QueueInv
    BY QueueInvInit
  <1>2. QueueInv /\ [Next]_vars => QueueInv'
    BY TypeInvStep, LockedStep, CountedStep, RoomKeptStep DEF QueueInv
  <1> QED BY <1>1, <1>2, PTL DEF Spec

(* Whenever the mutex is free, the count that the threads poll without it is   *)
(* the length of the list (server.c:538-544, 571-576).                        *)
THEOREM CountCorrect == Spec => []CountIsLength
  <1>1. QueueInv => CountIsLength
    <2> SUFFICES ASSUME QueueInv, s_queue_mutex = Free
                 PROVE  g_queue_node_count = Len(g_sql_queue)
      BY DEF CountIsLength
    <2>1. disp.pc # "uncount" /\ ~\E c \in Conn : enq[c].pc = "count"
      BY Distinct, DispatcherIsNotFree DEF QueueInv, Locked
    <2> QED BY <2>1 DEF QueueInv, TypeInv, TypeOK, Counted, Pending
  <1> QED BY <1>1, QueueInvHolds, PTL

(* The queue overshoots MAX_QUEUE_SIZE by at most one record for each enqueue  *)
(* thread but one, however many there are (server.c:483, 538).                *)
THEOREM QueueIsBounded == Spec => []QueueBounded
  <1>1. QueueInv => QueueBounded
    <2> SUFFICES ASSUME QueueInv PROVE QueueBounded
      OBVIOUS
    <2>1. Committed \subseteq Conn
      BY DEF Committed
    <2>2. Cardinality(Committed) \in Nat /\ MaxConn \in Nat
      BY <2>1, ConnFinite
    <2>3. Len(g_sql_queue) \in Nat /\ MAX_QUEUE_SIZE \in Nat
      BY ConstantsAssumption DEF QueueInv, TypeInv, TypeOK
    <2> QED BY <2>2, <2>3 DEF QueueInv, RoomKept, QueueBounded
  <1> QED BY <1>1, QueueInvHolds, PTL

(* As long as fgets never reports a bad descriptor, whoever holds the mutex    *)
(* still runs and gives it back (server.c:368, 385, 393 break while holding it). *)
THEOREM OwnerAlwaysRuns ==
  ASSUME "ebadf" \notin Faults
  PROVE  Spec => []OwnerRuns
  <1>1. Init => OwnerRuns
    BY Distinct, DispatcherIsNotFree DEF Init, OwnerRuns
  <1>2. TypeInv /\ OwnerRuns /\ [Next]_vars => OwnerRuns'
    <2> SUFFICES ASSUME TypeInv, OwnerRuns, [Next]_vars PROVE OwnerRuns'
      OBVIOUS
    <2>1. ASSUME NEW c \in Conn, TalkNext(c) \/ WrongCommand(c) PROVE OwnerRuns'
      BY <2>1, TalkEffect, Distinct, DispatcherIsNotFree, ZenonT(60) DEF OwnerRuns
    <2>2. ASSUME NEW c \in Conn, EnqNext(c) PROVE OwnerRuns'
      BY <2>2, EnqEffect, Distinct, DispatcherIsNotFree DEF OwnerRuns
    <2>3. CASE DispNext
      BY <2>3, DispEffect, Distinct, DispatcherIsNotFree DEF OwnerRuns
    <2>4. CASE Environment \/ MainNext \/ UNCHANGED vars
      BY <2>4, OtherEffect DEF OwnerRuns
    <2> QED BY <2>1, <2>2, <2>3, <2>4 DEF Next
  <1> QED BY <1>1, <1>2, TypeInvHolds, PTL DEF Spec

(* The threads of server.c implement the bounded first-in first-out handoff:   *)
(* each record is taken once, in the order it was queued (537-545, 571-676).  *)
THEOREM ImplementsHandoff == Spec => IsHandoff
  <1>1. Init => Handoff!HandoffInit
    BY DEF Init, Handoff!HandoffInit, NoSql
  <1>2. QueueInv /\ [Next]_vars => [Handoff!HandoffNext]_(Handoff!handoffVars)
    <2> SUFFICES ASSUME QueueInv, [Next]_vars
                 PROVE  Handoff!HandoffNext \/ UNCHANGED <<g_sql_queue, disp.sql>>
      BY DEF Handoff!handoffVars
    <2>1. /\ TypeInv /\ g_sql_queue \in Seq(Record) /\ Len(g_sql_queue) \in Nat
          /\ MAX_QUEUE_SIZE \in Nat /\ MaxConn \in Nat
      BY ConstantsAssumption DEF QueueInv, TypeInv, TypeOK
    <2>2. ASSUME NEW c \in Conn, TalkNext(c) \/ WrongCommand(c) PROVE UNCHANGED <<g_sql_queue, disp.sql>>
      BY <2>1, <2>2, TalkEffect
    <2>3. ASSUME NEW c \in Conn, EnqNext(c)
          PROVE  Handoff!Put \/ UNCHANGED <<g_sql_queue, disp.sql>>
      <3>1. CASE /\ enq[c].pc = "put"
                 /\ \E r \in Record : g_sql_queue' = Append(g_sql_queue, r)
        <4>1. PICK r \in Record : g_sql_queue' = Append(g_sql_queue, r)
          BY <3>1
        <4>2. /\ g_sql_queue' # <<>> /\ Len(g_sql_queue') = Len(g_sql_queue) + 1
              /\ g_sql_queue'[Len(g_sql_queue')] = r
          BY <2>1, <4>1
        <4>3. Len(g_sql_queue) < MAX_QUEUE_SIZE - 1 + MaxConn
          <5>1. c \in Committed /\ Committed \subseteq Conn
            BY <3>1 DEF Committed
          <5>2. IsFiniteSet(Committed) /\ Cardinality(Committed) \in Nat
            BY <5>1, ConnFinite
          <5>3. Cardinality(Committed) # 0
            BY <5>1, <5>2, FS_EmptySet
          <5> QED BY <2>1, <5>2, <5>3 DEF QueueInv, RoomKept
        <4>4. disp' = disp
          BY <2>1, <2>3, EnqEffect
        <4> QED BY <4>1, <4>2, <4>3, <4>4 DEF Handoff!Put
      <3>2. CASE g_sql_queue' = g_sql_queue
        BY <2>1, <2>3, <3>2, EnqEffect
      <3> QED BY <2>1, <2>3, <3>1, <3>2, EnqEffect
    <2>4. CASE DispNext
      <3>1. CASE /\ disp.pc = "lock" /\ g_sql_queue # <<>> /\ g_sql_queue' = Tail(g_sql_queue)
                 /\ disp'.sql = Head(g_sql_queue)
        <4>1. disp.sql = NoSql
          BY <2>1, <3>1 DEF TypeInv, Shape
        <4> QED BY <3>1, <4>1 DEF Handoff!Take, Handoff!HandoffNext
      <3>2. CASE g_sql_queue' = g_sql_queue /\ disp'.sql = NoSql
        BY <3>2 DEF Handoff!Finish, Handoff!HandoffNext
      <3>3. CASE g_sql_queue' = g_sql_queue /\ disp'.sql = disp.sql
        BY <3>3
      <3>4. disp.pc \in {"poll", "lock"} /\ disp'.pc \in {"poll", "lock"}
               => disp'.sql = NoSql /\ disp.sql = NoSql
        BY <2>1, <2>4, DispType DEF TypeInv, Shape
      <3> QED BY <2>1, <2>4, <3>1, <3>2, <3>3, <3>4, DispEffect
    <2>5. CASE Environment \/ MainNext \/ UNCHANGED vars
      BY <2>1, <2>5, OtherEffect
    <2> QED BY <2>2, <2>3, <2>4, <2>5 DEF Next, Handoff!HandoffNext
  <1> QED BY <1>1, <1>2, QueueInvHolds, PTL
          DEF Spec, IsHandoff, Handoff!HandoffSpec
-----------------------------------------------------------------------------
(***************************************************************************)
(* A record is whole and in order because of a chain of invariants, each   *)
(* on top of the one before:                                               *)
(*   SlotsGiven, SlotsClaimed   one thread serves a slot;                  *)
(*   NameAsked                  the log asked for is the one opened;       *)
(*   FilesNamed, FilesWhole     a file is a beginning of the log it is     *)
(*                              named after;                               *)
(*   Assembling                 a thread holds whole lines from a head on; *)
(*   RecordsGood, RecordsInOrder  what is queued was assembled so.         *)
(*                                                                         *)
(* The code promises none of this for every site, and HostsDiffer,         *)
(* SlowReconnect and OneAgent say for which it does.  A lemma ...Does      *)
(* reduces a thread's step to the few things the invariants speak of.      *)
(***************************************************************************)

\* What the configuration of a site says: each host of g_davinci_servers has one
\* address, which leads to one slot, and the console's slot is no agent's.
AgentsFit == Len(Table) < THREAD_MAX
\* The slot main gives a connection from ip.
SlotOf(ip, i) == IF IsLocalhost(ip) THEN i = Console ELSE FirstMatch(ip, i)
\* No slot has two hosts: strncmp compares prefixes (server.c:137).
HostsDiffer == /\ AgentsFit
               /\ \A a, b \in Ips : \A i \in Slots : SlotOf(a, i) /\ SlotOf(b, i) => a = b
\* One agent, which connects again only when its last thread has started.
OneAgent == HostsDiffer /\ SlowReconnect /\ Len(Table) <= 1

\* main has accepted a connection of an agent whose threads it has yet to create.
Accepted(c) == main \in {"count", "spawn"} /\ c = nconn

\* Where a talk thread serves an agent.
Agents == {"send", "open", "recv", "write", "timeout", "rename", "exit", "uncount"}

\* Every connection with a slot came from an address of that slot.
SlotsGiven ==
  /\ \A c \in Conn : Slot(c) # -1 => c <= nconn /\ conn[c].ip \in Ips /\ SlotOf(conn[c].ip, Slot(c))
  /\ main # "accept" => /\ nconn \in Conn /\ talk[nconn].pc = "none"
                        /\ Slot(nconn) \in Slots \ {Console}
  /\ \A c \in Conn : /\ talk[c].pc = "cmd" => Slot(c) = Console
                     /\ talk[c].pc \in Agents => Slot(c) # Console

\* A thread claims a slot from the accept to the end of its service.
Claims(c) == Serves(c) \/ talk[c].pc = "start" \/ Accepted(c)

\* A slot is claimed by one connection, whose socket its thread uses.
SlotsClaimed ==
  /\ \A c \in Conn : talk[c].pc = "start" => g_wa_array[Slot(c)] = c
  /\ \A c \in Conn : Serves(c) => talk[c].sock = c /\ g_socket_active_array[Slot(c)] = 1
  /\ \A c, d \in Conn : Claims(c) /\ Claims(d) /\ Slot(c) = Slot(d) => c = d

\* The file of connection n exists once its thread has opened it.
Opened(n) == talk[n].pc \in {"recv", "write", "timeout", "rename", "exit", "uncount", "done"}

\* The name that was asked for is the name the file was opened with ...
NameAsked ==
  \A c \in Conn :
    /\ talk[c].pc = "open" => conn[c].name = g_file_name
    /\ talk[c].pc \in {"recv", "write", "timeout"} => /\ conn[c].name = talk[c].name
                                                      /\ talk[c].name = g_file_name

\* ... whoever uses a file uses it under the name it was asked for.
FilesNamed ==
  /\ \A n \in Conn : \A f \in Name \X Slots : dir[f] = n => Opened(n) /\ f[1] = conn[n].name
  /\ \A c, n \in Conn : talk[c].ino = n => Opened(n) /\ Opened(c) /\ conn[n].name = conn[c].name
  /\ \A c, n \in Conn : enq[c].ino = n => Opened(n) /\ conn[n].name = enq[c].name
  /\ \A c \in Conn : enq[c].pc \in {"none", "sleep", "fopen", "retry"} => enq[c].ino = 0
  /\ \A c \in Conn : talk[c].pc \in {"recv", "write", "timeout"} => talk[c].ino # 0

\* A file is the beginning of the log it is named after, as far as it was received.
FilesWhole ==
  /\ \A n \in Conn : /\ data[n] # <<>> => Opened(n)
                     /\ \A i \in DOMAIN data[n] : data[n][i] = <<conn[n].name, i>>
  /\ \A c \in Conn :
       /\ ~Opened(c) => conn[c].pos = 0
       /\ talk[c].pc \in {"recv", "write", "timeout"} => talk[c].pos = Len(data[talk[c].ino])
       /\ talk[c].pc \in {"recv", "timeout"} => conn[c].pos = talk[c].pos
       /\ talk[c].pc = "write" => talk[c].buf = <<conn[c].name, talk[c].pos + 1>>
                                  /\ conn[c].pos = talk[c].pos + 1

\* The unit before a text.
Start(text) == text[1][2] - 1

\* text is the lines of the log of a day between two units.
Piece(text, day, lo, hi) ==
  /\ lo \in Nat /\ hi \in Nat /\ lo % 2 = 0 /\ hi % 2 = 0 /\ lo < hi
  /\ Len(text) = hi - lo
  /\ \A i \in 1 .. Len(text) : text[i] = <<day, lo + i>>

\* What follows the first line of a record is no head.
OneHead(lo, hi) == \A l \in 1 .. Len(LineKind) : (lo \div 2) + 1 < l /\ l <= hi \div 2 => ~IsHead(l)

\* Where the lines end that are in the record under assembly.
Assembled(e) == IF e.pc \in {"room", "put"} THEN e.off - 2 ELSE e.off

\* e is a thread that assembles the lines it has read of its log: nothing before the
\* file is open, whole lines only, a record from its first line on.
Assembles(e) ==
  /\ e.pc \in {"none", "sleep", "fopen", "retry"} => e.cur = <<>> /\ e.off = 0
  /\ e.off % 2 = 0 /\ e.off <= NUnits
  /\ e.pc \in {"room", "put"} => Piece(e.buf, e.name, e.off - 2, e.off)
  /\ e.pc = "put" => e.cur # <<>> /\ IsHead(e.off \div 2)
  /\ e.cur # <<>> => /\ e.line > HEADER_LINES
                     /\ Piece(e.cur, e.name, Start(e.cur), Assembled(e))
                     /\ OneHead(Start(e.cur), Assembled(e))
\* Every enqueue thread assembles so.
Assembling == \A c \in Conn : Assembles(enq[c])

\* A record that was queued is whole, of the thread's log, and before what the
\* thread assembles.
GoodIn(r, threads) ==
  LET e == threads[r.by] IN
    /\ r.by \in Conn /\ WholeRecord(r.rec)
    /\ r.rec[1][1] = e.name
    /\ e.cur # <<>>
    /\ r.rec[Len(r.rec)][2] < e.cur[1][2]
Good(r) == GoodIn(r, enq)

\* Two records of one thread lie in its log in this order.
Before(r, s) == r.by = s.by => r.rec[Len(r.rec)][2] < s.rec[1][2]
\* The dispatch thread holds a record.
InHand == disp.pc \in {"uncount", "check"}

\* Every record on its way to the rule engine is good, and headed once it is checked.
RecordsGood ==
  /\ \A i \in DOMAIN checked : Good(checked[i]) /\ IsHead(FirstLine(checked[i].rec))
  /\ \A i \in DOMAIN g_sql_queue : Good(g_sql_queue[i])
  /\ InHand => Good(disp.sql)
  /\ disp.pc = "check" => IsHead(FirstLine(disp.sql.rec))

\* Checked records, the one in hand and the queue: the order of each thread.
RecordsInOrder ==
  /\ \A i, j \in DOMAIN checked : i < j => Before(checked[i], checked[j])
  /\ \A i, j \in DOMAIN g_sql_queue : i < j => Before(g_sql_queue[i], g_sql_queue[j])
  /\ \A i \in DOMAIN checked, j \in DOMAIN g_sql_queue : Before(checked[i], g_sql_queue[j])
  /\ InHand => /\ \A i \in DOMAIN checked : Before(checked[i], disp.sql)
               /\ \A j \in DOMAIN g_sql_queue : Before(disp.sql, g_sql_queue[j])
-----------------------------------------------------------------------------
(* What the steps of talk_to_client do.                                      *)

\* The thread of c goes on, its socket unchanged.
Moves(c, from, to) == /\ talk[c].pc = from /\ talk'[c].pc = to
                      /\ talk'[c].sock = talk[c].sock

\* Its file and its place in it are unchanged.
FileKept(c) == /\ talk'[c].name = talk[c].name /\ talk'[c].ino = talk[c].ino
               /\ talk'[c].pos = talk[c].pos

\* Connection k of the others is all that changes in conn: its name or its position.
NamesKept == \A d \in Conn : conn'[d].name = conn[d].name
PosKept   == \A d \in Conn : conn'[d].pos = conn[d].pos
\* Nothing happens to the files or their name of today.
StoreKept == UNCHANGED <<g_file_name, dir, data>>
\* The mark of the slot of c becomes v.
SlotSet(c, v) == \A i \in Slots :
                   g_socket_active_array'[i] = IF i = Slot(c) THEN v ELSE g_socket_active_array[i]

\* The steps of a talk thread by what they do, in the order of server.c.
DoesStart(c) ==
  /\ talk[c].pc = "start"
  /\ talk'[c].pc = IF Slot(c) = Console THEN "cmd" ELSE "send"
  /\ talk'[c].sock = g_wa_array[Slot(c)]
  /\ SlotSet(c, 1)
  /\ FileKept(c) /\ StoreKept /\ NamesKept /\ PosKept
DoesEnd(c) ==
  /\ Moves(c, "cmd", "done") \/ Moves(c, "exit", "uncount")
  /\ SlotSet(c, 0)
  /\ FileKept(c) /\ StoreKept /\ NamesKept /\ PosKept
DoesSend(c) ==
  /\ Moves(c, "send", "open")
  /\ \A d \in Conn : conn'[d].name = IF d = talk[c].sock THEN g_file_name ELSE conn[d].name
  /\ UNCHANGED g_socket_active_array
  /\ FileKept(c) /\ StoreKept /\ PosKept
DoesOpen(c) ==
  LET ino == IF dir[FileOf(g_file_name, c)] = 0 THEN c ELSE dir[FileOf(g_file_name, c)] IN
  /\ Moves(c, "open", "recv")
  /\ talk'[c].name = g_file_name /\ talk'[c].ino = ino /\ talk'[c].pos = 0
  /\ dir' = [dir EXCEPT ![FileOf(g_file_name, c)] = ino]
  /\ data' = [data EXCEPT ![ino] = <<>>]
  /\ NamesKept /\ PosKept /\ UNCHANGED <<g_file_name, g_socket_active_array>>
DoesRecv(c) ==
  /\ Moves(c, "recv", "write")
  /\ talk'[c].buf = <<conn[talk[c].sock].name, conn[talk[c].sock].pos + 1>>
  /\ \A d \in Conn : conn'[d].pos = IF d = talk[c].sock THEN conn[d].pos + 1 ELSE conn[d].pos
  /\ FileKept(c) /\ StoreKept /\ NamesKept /\ UNCHANGED g_socket_active_array
DoesWrite(c) ==
  /\ Moves(c, "write", "recv")
  /\ talk'[c].name = talk[c].name /\ talk'[c].ino = talk[c].ino
  /\ talk'[c].pos = talk[c].pos + 1
  /\ data' = [data EXCEPT ![talk[c].ino] = Written(data[talk[c].ino], talk[c].pos, talk[c].buf)]
  /\ NamesKept /\ PosKept /\ UNCHANGED <<dir, g_file_name, g_socket_active_array>>
DoesRename(c) ==
  /\ \/ Moves(c, "timeout", "rename") /\ talk'[c].ino = talk[c].ino
     \/ Moves(c, "rename", "exit") /\ talk'[c].ino = talk[c].ino
  /\ NamesKept /\ PosKept /\ UNCHANGED <<dir, data, g_socket_active_array>>
DoesElse(c) ==
  /\ \/ Moves(c, "recv", "exit") \/ Moves(c, "recv", "timeout")
     \/ Moves(c, "write", "exit")
     \/ Moves(c, "timeout", "recv") \/ Moves(c, "timeout", "exit")
     \/ Moves(c, "uncount", "done")
  /\ FileKept(c) /\ StoreKept /\ NamesKept /\ PosKept /\ UNCHANGED g_socket_active_array
DoesNothing(c) == /\ UNCHANGED <<talk, g_socket_active_array>>
                  /\ StoreKept /\ NamesKept /\ PosKept

TalkFrame(c) ==
  /\ UNCHANGED <<enq, disp, g_sql_queue, checked, nconn, main, today, g_wa_array>>
  /\ \A d \in Conn : d # c => talk'[d] = talk[d]
  /\ \A d \in Conn : conn'[d].slot = conn[d].slot /\ conn'[d].ip = conn[d].ip

\* A step of a talk thread does one of these things and leaves the rest alone.
LEMMA TalkDoes ==
  ASSUME TypeInv, NEW c \in Conn, TalkNext(c) \/ WrongCommand(c)
  PROVE  /\ TalkFrame(c)
         /\ \/ DoesStart(c) \/ DoesEnd(c) \/ DoesSend(c) \/ DoesOpen(c) \/ DoesRecv(c)
            \/ DoesWrite(c) \/ DoesRename(c) \/ DoesElse(c) \/ DoesNothing(c)
  <1> USE DEF sqlVars, dayVars, netVars, slotVars, fileVars, Lock, Unlock, TalkFrame, FileKept,
              StoreKept, NamesKept, PosKept, SlotSet, Moves
  <1>1. /\ talk \in [Conn -> TalkState] /\ talk[c] \in TalkState
        /\ conn \in [Conn -> ConnState] /\ \A d \in Conn : conn[d] \in ConnState
        /\ g_socket_active_array \in [Slots -> {0, 1}]
    BY DEF TypeInv, TypeOK
  <1>2. \A p \in TalkPc, q \in TalkPc : TalkGoes(c, p, q) =>
           /\ Moves(c, p, q) /\ FileKept(c) /\ \A d \in Conn : d # c => talk'[d] = talk[d]
    BY <1>1 DEF TalkGoes, TalkState
  <1>0. talk[c].pc \notin {"none", "start"} => talk[c].sock \in Conn
    BY DEF TypeInv, Shape
  <1>3. CASE TalkStart(c)
    BY <1>1, <1>3, SMTT(60) DEF TalkStart, TalkState, DoesStart
  <1>4. CASE ConsoleEnds(c) \/ WrongCommand(c)
    BY <1>1, <1>2, <1>4, SMTT(60) DEF ConsoleEnds, WrongCommand, CmdReturns, TalkPc, DoesEnd
  <1>5. CASE TalkSend(c)
    BY <1>0, <1>1, <1>2, <1>5 DEF TalkSend, TalkPc, DoesSend, ConnState
  <1>6. CASE TalkOpen(c)
    <2> DEFINE ino == IF dir[FileOf(g_file_name, c)] = 0 THEN c ELSE dir[FileOf(g_file_name, c)]
    <2>1. /\ UNCHANGED <<enq, disp, g_sql_queue, checked, nconn, main, today, g_wa_array>>
          /\ UNCHANGED <<g_file_name, conn, g_socket_active_array>>
          /\ talk[c].pc = "open"
      BY <1>6 DEF TalkOpen
    <2>2. CASE UNCHANGED <<talk, dir, data>>
      BY <2>1, <2>2 DEF DoesNothing
    <2>3. CASE ~UNCHANGED <<talk, dir, data>>
      <3>1. /\ dir' = [dir EXCEPT ![FileOf(g_file_name, c)] = ino]
            /\ data' = [data EXCEPT ![ino] = <<>>]
            /\ talk' = [talk EXCEPT ![c] = [talk[c] EXCEPT !.pc = "recv", !.name = g_file_name,
                                                     !.ino = ino, !.pos = 0]]
        BY <1>6, <2>3 DEF TalkOpen
      <3> HIDE DEF ino
      <3>2. /\ Moves(c, "open", "recv") /\ talk'[c].name = g_file_name
            /\ talk'[c].ino = ino /\ talk'[c].pos = 0
            /\ \A d \in Conn : d # c => talk'[d] = talk[d]
        BY <1>1, <2>1, <3>1 DEF TalkState
      <3> QED BY <2>1, <3>1, <3>2 DEF DoesOpen, ino
    <2> QED BY <2>2, <2>3
  <1>7. CASE TalkRecv(c)
    <2> DEFINE k == talk[c].sock
    <2>1. /\ conn' = [conn EXCEPT ![k] = [conn[k] EXCEPT !.pos = conn[k].pos + 1]]
          /\ k \in Conn /\ talk[c].pc = "recv"
      BY <1>0, <1>7 DEF TalkRecv
    <2>2. \A d \in Conn : /\ conn'[d].pos = IF d = k THEN conn[d].pos + 1 ELSE conn[d].pos
                          /\ conn'[d].name = conn[d].name
                          /\ conn'[d].slot = conn[d].slot /\ conn'[d].ip = conn[d].ip
      BY <1>1, <2>1 DEF ConnState
    <2>3. /\ Moves(c, "recv", "write") /\ FileKept(c)
          /\ talk'[c].buf = <<conn[k].name, conn[k].pos + 1>>
          /\ \A d \in Conn : d # c => talk'[d] = talk[d]
      BY <1>1, <1>7 DEF TalkRecv, TalkState
    <2>4. /\ UNCHANGED <<enq, disp, g_sql_queue, checked, nconn, main, today, g_wa_array>>
          /\ UNCHANGED <<g_file_name, dir, data, g_socket_active_array>>
      BY <1>7, SMTT(60) DEF TalkRecv
    <2> QED BY <2>2, <2>3, <2>4 DEF DoesRecv
  <1>8. CASE TalkRecvEnds(c)
    BY <1>0, <1>1, <1>2, <1>8 DEF TalkRecvEnds, TalkPc, ConnState, DoesElse
  <1>9. CASE TalkWrite(c)
    <2>1. /\ UNCHANGED <<enq, disp, g_sql_queue, checked, nconn, main, today, g_wa_array>>
          /\ UNCHANGED <<g_file_name, dir, conn, g_socket_active_array>>
      BY <1>9, SMTT(60) DEF TalkWrite
    <2>2. CASE TalkGoes(c, "write", "exit") /\ data' = data
      BY <1>2, <2>1, <2>2 DEF TalkPc, DoesElse
    <2>3. CASE ~(TalkGoes(c, "write", "exit") /\ data' = data)
      <3>1. /\ data' = [data EXCEPT ![talk[c].ino] = Written(data[talk[c].ino], talk[c].pos, talk[c].buf)]
            /\ talk' = [talk EXCEPT ![c] = [talk[c] EXCEPT !.pc = "recv", !.pos = talk[c].pos + 1,
                                                            !.buf = Hole]]
            /\ talk[c].pc = "write"
        BY <1>9, <2>3 DEF TalkWrite
      <3>2. /\ Moves(c, "write", "recv") /\ talk'[c].name = talk[c].name
            /\ talk'[c].ino = talk[c].ino /\ talk'[c].pos = talk[c].pos + 1
            /\ \A d \in Conn : d # c => talk'[d] = talk[d]
        BY <1>1, <3>1, SMTT(60) DEF TalkState
      <3> QED BY <2>1, <3>1, <3>2 DEF DoesWrite
    <2> QED BY <2>2, <2>3
  <1>10. CASE TalkTimeout(c)
    <2>1. /\ UNCHANGED <<enq, disp, g_sql_queue, checked, nconn, main, today, g_wa_array>>
          /\ UNCHANGED <<dir, data, conn, g_socket_active_array>>
      BY <1>10, SMTT(60) DEF TalkTimeout
    <2>2. CASE TalkGoes(c, "timeout", "recv") /\ UNCHANGED g_file_name
      BY <1>2, <2>1, <2>2, SMTT(60) DEF TalkPc, DoesElse
    <2>3. CASE TalkGoes(c, "timeout", "exit") /\ UNCHANGED g_file_name
      BY <1>2, <2>1, <2>3 DEF TalkPc, DoesElse
    <2>4. CASE /\ talk[c].pc = "timeout"
               /\ talk' = [talk EXCEPT ![c] = [talk[c] EXCEPT !.pc = "rename", !.name = today]]
      <3>1. /\ Moves(c, "timeout", "rename") /\ talk'[c].ino = talk[c].ino
            /\ \A d \in Conn : d # c => talk'[d] = talk[d]
        BY <1>1, <2>4, SMTT(60) DEF TalkState
      <3> QED BY <2>1, <3>1 DEF DoesRename
    <2> QED BY <1>10, <2>2, <2>3, <2>4 DEF TalkTimeout
  <1>11. CASE TalkRename(c)
    BY <1>1, <1>2, <1>11, SMTT(60) DEF TalkRename, TalkPc, DoesRename
  <1>12. CASE TalkExit(c)
    BY <1>0, <1>1, <1>2, <1>12, SMTT(60) DEF TalkExit, TalkPc, ConnState, DoesEnd
  <1>13. CASE TalkUncount(c)
    BY <1>1, <1>2, <1>13 DEF TalkUncount, TalkPc, DoesElse
  <1> QED BY <1>3, <1>4, <1>5, <1>6, <1>7, <1>8, <1>9, <1>10, <1>11, <1>12, <1>13
          DEF TalkNext

-----------------------------------------------------------------------------
(* What main, the peers and the clock do.                                    *)

\* The next connection is accepted.
Enters(c, ip, slot) ==
  /\ main = "accept" /\ nconn' = nconn + 1 /\ c = nconn' /\ c \in Conn
  /\ talk[c].pc = "none"
  /\ conn'[c].ip = ip /\ conn'[c].slot = slot
  /\ \A d \in Conn : d # c => conn'[d].slot = conn[d].slot /\ conn'[d].ip = conn[d].ip
  /\ MayConnect(ip)
OthersTalk(c) == \A d \in Conn : d # c => talk'[d].pc = talk[d].pc
WaSet(c, slot) == \A i \in Slots : g_wa_array'[i] = IF i = slot THEN c ELSE g_wa_array[i]
NoneEnters == \A d \in Conn : conn'[d].slot = conn[d].slot /\ conn'[d].ip = conn[d].ip

\* The steps of main, and of the environment.
DoesConsole(c, ip) ==
  /\ Enters(c, ip, Console) /\ IsLocalhost(ip)
  /\ g_socket_active_array[Console] = 0
  /\ talk'[c].pc = "start" \/ (talk'[c].pc = "none" /\ "pthread_create" \in Faults)
  /\ OthersTalk(c) /\ WaSet(c, Console)
  /\ UNCHANGED <<main, g_connected_agent_count>>
DoesAgent(c, ip, i) ==
  /\ Enters(c, ip, i) /\ ~IsLocalhost(ip) /\ FirstMatch(ip, i) /\ i \in Slots
  /\ g_socket_active_array[i] = 0
  /\ main' = "count" /\ UNCHANGED <<talk, g_wa_array, g_connected_agent_count>>
DoesRefuse(c, ip) ==
  Enters(c, ip, -1) /\ UNCHANGED <<main, talk, g_wa_array, g_connected_agent_count>>
DoesCount ==
  /\ main = "count" /\ main' = "spawn" /\ UNCHANGED <<nconn, talk, g_wa_array>> /\ NoneEnters
  /\ g_connected_agent_count' = g_connected_agent_count + 1
DoesSpawn ==
  /\ main = "spawn" /\ main' = "accept" /\ UNCHANGED nconn /\ NoneEnters
  /\ WaSet(nconn, Slot(nconn))
  /\ \/ talk'[nconn].pc = "start"
     \/ talk'[nconn].pc = talk[nconn].pc /\ "pthread_create" \in Faults
  /\ OthersTalk(nconn) /\ UNCHANGED g_connected_agent_count
DoesRest == NoneEnters /\ UNCHANGED <<main, nconn, talk, g_wa_array, g_connected_agent_count>>

\* What none of them does: they leave the files and the downloads alone.
OtherFrame ==
  /\ UNCHANGED <<dir, data, g_file_name, g_socket_active_array, g_sql_queue, disp, checked>>
  /\ NamesKept /\ PosKept
  /\ \A d \in Conn : /\ talk'[d].sock = talk[d].sock /\ talk'[d].name = talk[d].name
                     /\ talk'[d].ino = talk[d].ino /\ talk'[d].pos = talk[d].pos
                     /\ talk'[d].buf = talk[d].buf
  /\ \A d \in Conn : \/ enq'[d] = enq[d]
                     \/ /\ enq[d].pc = "none" /\ enq'[d].pc = "sleep"
                        /\ enq'[d].name = enq[d].name /\ enq'[d].ino = enq[d].ino
                        /\ enq'[d].off = enq[d].off /\ enq'[d].line = enq[d].line
                        /\ enq'[d].cur = enq[d].cur /\ enq'[d].buf = enq[d].buf

\* An accept gives the new connection the slot of its address, or refuses it.
LEMMA AcceptDoes ==
  ASSUME TypeInv, NEW ip \in Ips, NEW slot \in Slots \cup {-1}, Accepts(ip, slot)
  PROVE  Enters(nconn', ip, slot) /\ NamesKept /\ PosKept
  <1> DEFINE r == [conn[nconn'] EXCEPT !.ip = ip, !.slot = slot, !.st = "open"]
  <1>1. /\ nconn' = nconn + 1 /\ nconn' \in Conn /\ talk[nconn'].pc = "none" /\ main = "accept"
        /\ \A d \in Conn : d # nconn' => conn'[d] = conn[d]
    BY AcceptsStep
  <1>2. conn' = [conn EXCEPT ![nconn'] = r] /\ MayConnect(ip)
    BY DEF Accepts
  <1>3. conn \in [Conn -> ConnState]
    BY DEF TypeInv, TypeOK
  <1>4. /\ conn'[nconn'].ip = ip /\ conn'[nconn'].slot = slot
        /\ conn'[nconn'].name = conn[nconn'].name /\ conn'[nconn'].pos = conn[nconn'].pos
    BY <1>1, <1>2, <1>3 DEF ConnState
  <1> QED BY <1>1, <1>2, <1>4 DEF Enters, NamesKept, PosKept

\* What main, the clock and the peers do to the connections.
LEMMA OtherDoes ==
  ASSUME TypeInv, Environment \/ MainNext \/ UNCHANGED vars
  PROVE  /\ OtherFrame
         /\ \/ \E c \in Conn, ip \in Ips :
                 \/ DoesConsole(c, ip) \/ DoesRefuse(c, ip)
                 \/ \E i \in Slots : DoesAgent(c, ip, i)
            \/ DoesCount \/ DoesSpawn \/ DoesRest
  <1> USE DEF sqlVars, dayVars, netVars, slotVars, fileVars, OtherFrame, NoneEnters, NamesKept, PosKept
  <1>1. /\ talk \in [Conn -> TalkState] /\ conn \in [Conn -> ConnState]
        /\ enq \in [Conn -> EnqState]
        /\ g_wa_array \in [Slots -> 0 .. MaxConn]
        /\ \A d \in Conn : talk[d] \in TalkState /\ enq[d] \in EnqState
    BY DEF TypeInv, TypeOK
  <1>2. ASSUME NEW ip \in Ips, AcceptConsole(ip)
        PROVE  OtherFrame /\ \E c \in Conn : DoesConsole(c, ip)
    <2>1. Accepts(ip, Console) /\ Console \in Slots
      BY <1>2, ConstantsAssumption DEF AcceptConsole, Console, Slots
    <2>2. Enters(nconn', ip, Console) /\ NamesKept /\ PosKept
      BY <2>1, AcceptDoes
    <2>3. nconn' \in Conn /\ talk[nconn'].pc = "none"
      BY <2>2 DEF Enters
    <2> DEFINE t == [talk[nconn'] EXCEPT !.pc = "start"]
    <2>4. /\ IsLocalhost(ip) /\ g_socket_active_array[Console] = 0
          /\ \/ talk' = [talk EXCEPT ![nconn'] = t]
             \/ "pthread_create" \in Faults /\ talk' = talk
          /\ g_wa_array' = [g_wa_array EXCEPT ![Console] = nconn'] /\ main' = main
          /\ UNCHANGED <<dir, data, g_file_name, g_socket_active_array, g_sql_queue, disp, checked,
                         enq, g_connected_agent_count>>
      BY <1>2, <2>1 DEF AcceptConsole, Accepts, SlotFree
    <2>5. /\ t.pc = "start" /\ t.sock = talk[nconn'].sock /\ t.name = talk[nconn'].name
          /\ t.ino = talk[nconn'].ino /\ t.pos = talk[nconn'].pos /\ t.buf = talk[nconn'].buf
      BY <1>1, <2>3 DEF TalkState
    <2> HIDE DEF t
    <2>6. /\ \A d \in Conn : d # nconn' => talk'[d] = talk[d]
          /\ talk'[nconn'] = t \/ ("pthread_create" \in Faults /\ talk'[nconn'] = talk[nconn'])
      BY <1>1, <2>3, <2>4
    <2>7. WaSet(nconn', Console)
      BY <1>1, <2>4 DEF WaSet
    <2>8. DoesConsole(nconn', ip)
      BY <2>2, <2>3, <2>4, <2>5, <2>6, <2>7 DEF DoesConsole, OthersTalk
    <2>9. OtherFrame
      BY <2>2, <2>4, <2>5, <2>6
    <2> QED BY <2>3, <2>8, <2>9
  <1>3. ASSUME NEW ip \in Ips, AcceptAgent(ip)
        PROVE  OtherFrame /\ \E c \in Conn : \E i \in Slots : DoesAgent(c, ip, i)
    <2>1. PICK i \in Slots : FirstMatch(ip, i) /\ SlotFree(i) /\ Accepts(ip, i)
      BY <1>3 DEF AcceptAgent
    <2>2. Enters(nconn', ip, i) /\ NamesKept /\ PosKept
      BY <2>1, AcceptDoes
    <2>3. OtherFrame /\ UNCHANGED <<talk, g_wa_array, g_connected_agent_count>> /\ main' = "count"
          /\ ~IsLocalhost(ip)
      BY <1>3, <2>1, <2>2 DEF AcceptAgent, Accepts
    <2>4. nconn' \in Conn /\ DoesAgent(nconn', ip, i)
      BY <2>1, <2>2, <2>3 DEF DoesAgent, SlotFree, Enters
    <2> QED BY <2>3, <2>4
  <1>4. ASSUME NEW ip \in Ips, Refuse(ip)
        PROVE  OtherFrame /\ \E c \in Conn : DoesRefuse(c, ip)
    <2>1. Accepts(ip, -1)
      BY <1>4 DEF Refuse
    <2>2. Enters(nconn', ip, -1) /\ NamesKept /\ PosKept
      BY <2>1, AcceptDoes
    <2>3. OtherFrame /\ UNCHANGED <<talk, g_wa_array, g_connected_agent_count, main>>
      BY <1>4, <2>1, <2>2 DEF Refuse, Accepts
    <2>4. nconn' \in Conn /\ DoesRefuse(nconn', ip)
      BY <2>2, <2>3 DEF DoesRefuse, Enters
    <2> QED BY <2>3, <2>4
  <1>5. CASE AcceptFails \/ Midnight
    BY <1>5 DEF AcceptFails, Midnight, DoesRest
  <1>6. ASSUME NEW k \in Conn, PeerCloses(k) PROVE OtherFrame /\ DoesRest
    <2>1. PICK st \in {"reset", "eof"} : conn' = [conn EXCEPT ![k] = [conn[k] EXCEPT !.st = st]]
      BY <1>6 DEF PeerCloses
    <2>2. \A d \in Conn : /\ conn'[d].slot = conn[d].slot /\ conn'[d].ip = conn[d].ip
                          /\ conn'[d].name = conn[d].name /\ conn'[d].pos = conn[d].pos
      BY <1>1, <2>1 DEF ConnState
    <2> QED BY <1>6, <2>2 DEF PeerCloses, DoesRest
  <1>7. CASE CountAgent
    BY <1>7 DEF CountAgent, DoesCount
  <1>8. CASE Spawn
    <2>1. nconn \in Conn /\ talk[nconn].pc = "none" /\ enq[nconn].pc = "none"
      BY <1>8 DEF Spawn, TypeInv, Shape
    <2> DEFINE t == [talk[nconn] EXCEPT !.pc = "start"]
               e == [enq[nconn] EXCEPT !.pc = "sleep"]
    <2>2. /\ main = "spawn" /\ main' = "accept"
          /\ g_wa_array' = [g_wa_array EXCEPT ![Slot(nconn)] = nconn]
          /\ talk' = [talk EXCEPT ![nconn] = t] \/ (talk' = talk /\ "pthread_create" \in Faults)
          /\ enq' = [enq EXCEPT ![nconn] = e] \/ enq' = enq
          /\ UNCHANGED <<dir, data, g_file_name, g_socket_active_array, g_sql_queue, disp, checked,
                         conn, nconn, g_connected_agent_count>>
      BY <1>8 DEF Spawn
    <2>3. /\ t.pc = "start" /\ t.sock = talk[nconn].sock /\ t.name = talk[nconn].name
          /\ t.ino = talk[nconn].ino /\ t.pos = talk[nconn].pos /\ t.buf = talk[nconn].buf
      BY <1>1, <2>1 DEF TalkState
    <2>4. /\ e.pc = "sleep" /\ e.name = enq[nconn].name /\ e.ino = enq[nconn].ino
          /\ e.off = enq[nconn].off /\ e.line = enq[nconn].line
          /\ e.cur = enq[nconn].cur /\ e.buf = enq[nconn].buf
      BY <1>1, <2>1 DEF EnqState
    <2> HIDE DEF t, e
    <2>5. /\ \A d \in Conn : d # nconn => talk'[d] = talk[d] /\ enq'[d] = enq[d]
          /\ talk'[nconn] = t \/ ("pthread_create" \in Faults /\ talk'[nconn] = talk[nconn])
          /\ enq'[nconn] = e \/ enq'[nconn] = enq[nconn]
      BY <1>1, <2>1, <2>2
    <2>6. WaSet(nconn, Slot(nconn))
      BY <1>1, <2>2 DEF WaSet
    <2>7. DoesSpawn
      BY <2>1, <2>2, <2>3, <2>5, <2>6 DEF DoesSpawn, OthersTalk
    <2>8. OtherFrame
      BY <2>1, <2>2, <2>3, <2>4, <2>5
    <2> QED BY <2>7, <2>8
  <1>9. CASE UNCHANGED vars
    BY <1>9, SMTT(60) DEF vars, DoesRest
  <1> QED BY <1>2, <1>3, <1>4, <1>5, <1>6, <1>7, <1>8, <1>9 DEF Environment, MainNext

-----------------------------------------------------------------------------
(* The slots.                                                                *)

\* The enqueue threads and the dispatch thread leave the connections alone.
LEMMA EnqFrame ==
  ASSUME NEW c \in Conn, EnqNext(c)
  PROVE  UNCHANGED <<g_file_name, conn, nconn, main, talk, g_wa_array, g_socket_active_array,
                     g_connected_agent_count>>
  BY DEF EnqNext, EnqName, EnqFopen, EnqGetLine, EnqGetEof, EnqFgetsFails, EnqEbadf, EnqEof,
         EnqReopen, EnqAssemble, EnqPut, EnqCount, EnqOnly, dayVars, netVars, slotVars

\* The dispatch thread leaves the connections and the files alone.
LEMMA DispFrame ==
  ASSUME DispNext
  PROVE  /\ UNCHANGED <<g_file_name, conn, nconn, main, talk, g_wa_array, g_socket_active_array,
                        g_connected_agent_count>>
         /\ UNCHANGED <<enq, dir, data>>
  BY DEF DispNext, DispPoll, DispPop, DispUncount, DispCheck, DispOnly, dayVars, netVars,
         slotVars, fileVars

\* Where the pc of a talk thread may be, and what TypeInv says of its slot.
LEMMA SlotFacts ==
  ASSUME TypeInv
  PROVE  /\ \A c \in Conn : talk[c].pc # "none" => c <= nconn /\ Slot(c) \in Slots
         /\ \A c \in Conn : talk[c].pc \in TalkPc
         /\ -1 \notin Slots /\ Console \in Slots
         /\ nconn \in Nat /\ main \in {"accept", "count", "spawn"}
         /\ \A c \in Conn : c \in Nat
  <1>1. \A c \in Conn : talk[c] \in TalkState
    BY DEF TypeInv, TypeOK
  <1> QED BY <1>1, ConstantsAssumption, SMTT(60)
             DEF TypeInv, TypeOK, Shape, Slots, Console, TalkState, Conn

\* No agent in the table has the console's slot.
LEMMA AgentSlots ==
  ASSUME AgentsFit, NEW ip \in Ips, NEW i \in Slots, FirstMatch(ip, i)
  PROVE  i # Console
  BY ConstantsAssumption DEF AgentsFit, FirstMatch, Matches, Console, Slots

\* At the start no connection has a slot.
LEMMA SlotsGivenInit == Init => SlotsGiven
  BY DEF Init, SlotsGiven, Slot, Agents

\* A connection gets its slot at the accept and keeps it.
LEMMA SlotsGivenStep ==
  ASSUME AgentsFit, TypeInv, SlotsGiven, [Next]_vars
  PROVE  SlotsGiven'
  <1>1. ASSUME NEW c \in Conn, TalkNext(c) \/ WrongCommand(c) PROVE SlotsGiven'
    <2>1. TalkFrame(c)
      BY <1>1, TalkDoes
    <2>2. \/ talk[c].pc = "start" /\ talk'[c].pc = IF Slot(c) = Console THEN "cmd" ELSE "send"
          \/ talk[c].pc = "cmd" /\ talk'[c].pc = "done"
          \/ talk[c].pc \in Agents /\ talk'[c].pc \in Agents \cup {"done"}
          \/ talk'[c].pc = talk[c].pc
      BY <1>1, TalkDoes DEF DoesStart, DoesEnd, DoesSend, DoesOpen, DoesRecv, DoesWrite, DoesRename,
                            DoesElse, DoesNothing, Moves, Agents
    <2>3. \A d \in Conn : talk[d].pc = "none" => talk'[d].pc = "none"
      <3>1. talk[c].pc # "none" \/ talk'[c].pc = talk[c].pc
        BY <2>2 DEF Agents
      <3> QED BY <2>1, <3>1 DEF TalkFrame
    <2>4. \A d \in Conn : /\ talk'[d].pc = "cmd" => Slot(d) = Console
                          /\ talk'[d].pc \in Agents => Slot(d) # Console
      BY <2>1, <2>2 DEF SlotsGiven, TalkFrame, Agents
    <2> QED BY <2>1, <2>3, <2>4 DEF TalkFrame, SlotsGiven, Slot
  <1>2. ASSUME NEW c \in Conn, EnqNext(c) PROVE SlotsGiven'
    BY <1>2, EnqFrame DEF SlotsGiven, Slot
  <1>3. CASE DispNext
    BY <1>3, DispFrame DEF SlotsGiven, Slot
  <1>4. CASE Environment \/ MainNext \/ UNCHANGED vars
    <2>0. main \in {"accept", "count", "spawn"} /\ nconn \in Nat
      BY SlotFacts
    <2>1. ASSUME NEW c \in Conn, NEW ip \in Ips, DoesConsole(c, ip) PROVE SlotsGiven'
      <3>1. /\ main' = "accept" /\ nconn' = nconn + 1 /\ c = nconn'
            /\ conn'[c].ip = ip /\ conn'[c].slot = Console /\ SlotOf(ip, Console)
            /\ \A d \in Conn : d # c => conn'[d].slot = conn[d].slot /\ conn'[d].ip = conn[d].ip
            /\ \A d \in Conn : d # c => talk'[d].pc = talk[d].pc
            /\ talk'[c].pc \in {"start", "none"}
        BY <2>1 DEF DoesConsole, Enters, SlotOf, OthersTalk
      <3> QED BY <2>0, <3>1, SlotFacts DEF SlotsGiven, Slot, Agents
    <2>2. ASSUME NEW c \in Conn, NEW ip \in Ips, DoesRefuse(c, ip) PROVE SlotsGiven'
      <3>1. /\ main' = "accept" /\ nconn' = nconn + 1 /\ c = nconn'
            /\ conn'[c].slot = -1 /\ talk' = talk /\ talk[c].pc = "none"
            /\ \A d \in Conn : d # c => conn'[d].slot = conn[d].slot /\ conn'[d].ip = conn[d].ip
        BY <2>2 DEF DoesRefuse, Enters
      <3> QED BY <2>0, <3>1, SlotFacts DEF SlotsGiven, Slot, Agents
    <2>3. ASSUME NEW c \in Conn, NEW ip \in Ips, NEW i \in Slots, DoesAgent(c, ip, i)
          PROVE SlotsGiven'
      <3>1. /\ nconn' = nconn + 1 /\ c = nconn' /\ talk' = talk /\ talk[c].pc = "none"
            /\ conn'[c].ip = ip /\ conn'[c].slot = i /\ SlotOf(ip, i) /\ i # Console
            /\ \A d \in Conn : d # c => conn'[d].slot = conn[d].slot /\ conn'[d].ip = conn[d].ip
        BY <2>3, AgentSlots DEF DoesAgent, Enters, SlotOf
      <3>2. main' # "accept" => /\ nconn' \in Conn /\ talk'[nconn'].pc = "none"
                                /\ conn'[nconn'].slot \in Slots \ {Console}
        BY <3>1
      <3>3. \A d \in Conn : conn'[d].slot # -1
                 => /\ d <= nconn' /\ conn'[d].ip \in Ips
                    /\ SlotOf(conn'[d].ip, conn'[d].slot)
        BY <2>0, <3>1, SlotFacts DEF SlotsGiven, Slot
      <3>4. \A d \in Conn : /\ talk'[d].pc = "cmd" => conn'[d].slot = Console
                            /\ talk'[d].pc \in Agents => conn'[d].slot # Console
        <4>1. /\ talk'[c].pc # "cmd" /\ talk'[c].pc \notin Agents
              /\ \A d \in Conn \ {c} : talk'[d].pc = talk[d].pc /\ conn'[d].slot = conn[d].slot
          BY <3>1 DEF Agents
        <4> QED BY <4>1 DEF SlotsGiven, Slot
      <3> QED BY <3>2, <3>3, <3>4 DEF SlotsGiven, Slot
    <2>4. CASE DoesCount
      BY <2>4, <2>0 DEF DoesCount, NoneEnters, SlotsGiven, Slot
    <2>5. CASE DoesSpawn
      <3>1. /\ nconn \in Conn /\ nconn' = nconn /\ main' = "accept"
            /\ \A d \in Conn : conn'[d].slot = conn[d].slot /\ conn'[d].ip = conn[d].ip
            /\ \A d \in Conn : d # nconn => talk'[d].pc = talk[d].pc
            /\ talk'[nconn].pc \in {"start", "none"}
        BY <2>5 DEF DoesSpawn, NoneEnters, SlotsGiven, OthersTalk
      <3> QED BY <3>1 DEF SlotsGiven, Slot, Agents
    <2>6. CASE DoesRest
      BY <2>6 DEF DoesRest, NoneEnters, SlotsGiven, Slot
    <2> QED BY <1>4, <2>1, <2>2, <2>3, <2>4, <2>5, <2>6, OtherDoes
  <1> QED BY <1>1, <1>2, <1>3, <1>4 DEF Next

\* The invariant of the slots that needs no more than a table that fits.
SlotsInv == TypeInv /\ SlotsGiven

\* The slots are given by address, and the count is that of the connected agents.
LEMMA SlotsInvHolds == ASSUME AgentsFit PROVE Spec => []SlotsInv
  <1>1. Init => SlotsInv
    BY InitType, SlotsGivenInit DEF SlotsInv
  <1>2. SlotsInv /\ [Next]_vars => SlotsInv'
    BY TypeInvStep, SlotsGivenStep DEF SlotsInv
  <1> QED BY <1>1, <1>2, PTL DEF Spec

\* The agents g_connected_agent_count is to count.
CountedAgents == {c \in Conn : \/ Slot(c) # Console /\ talk[c].pc \notin {"none", "done"}
                               \/ main = "spawn" /\ c = nconn}

(* g_connected_agent_count is the number of agents whose connection has been    *)
(* counted and whose thread has not ended, for any number of agents and slots: *)
(* no increment under the mutex is lost, and the decrement of a thread that     *)
(* ends never finds zero (server.c:836, 288-291).                               *)
THEOREM CountOfAgents ==
  ASSUME AgentsFit, "pthread_create" \notin Faults
  PROVE  Spec => []ConnectedIsCounted
  <1>1. Init => ConnectedIsCounted
    <2> SUFFICES ASSUME Init PROVE ConnectedIsCounted
      OBVIOUS
    <2>1. CountedAgents = {} /\ g_connected_agent_count = 0
      BY DEF Init, CountedAgents
    <2> QED BY <2>1, FS_EmptySet DEF ConnectedIsCounted, CountedAgents
  <1>2. SlotsInv /\ ConnectedIsCounted /\ [Next]_vars => ConnectedIsCounted'
    <2> SUFFICES ASSUME SlotsInv, ConnectedIsCounted, [Next]_vars PROVE ConnectedIsCounted'
      OBVIOUS
    <2>1. TypeInv /\ SlotsGiven /\ main \in {"accept", "count", "spawn"}
      BY SlotFacts DEF SlotsInv
    <2>2. /\ CountedAgents \subseteq Conn /\ IsFiniteSet(CountedAgents)
          /\ Cardinality(CountedAgents) \in Nat
          /\ g_connected_agent_count = Cardinality(CountedAgents)
      BY ConnFinite DEF CountedAgents, ConnectedIsCounted
    <2>3. SUFFICES g_connected_agent_count' = Cardinality(CountedAgents')
      BY DEF CountedAgents, ConnectedIsCounted
    <2>4. SUFFICES \/ /\ CountedAgents' = CountedAgents
                      /\ g_connected_agent_count' = g_connected_agent_count
                   \/ /\ \E c \in Conn \ CountedAgents : CountedAgents' = CountedAgents \cup {c}
                      /\ g_connected_agent_count' = g_connected_agent_count + 1
                   \/ /\ \E c \in CountedAgents : CountedAgents' = CountedAgents \ {c}
                      /\ g_connected_agent_count' = OneLess(g_connected_agent_count)
      <3>1. \A c \in Conn \ CountedAgents :
               Cardinality(CountedAgents \cup {c}) = Cardinality(CountedAgents) + 1
        BY <2>2, FS_AddElement
      <3>2. \A c \in CountedAgents : /\ Cardinality(CountedAgents \ {c}) = Cardinality(CountedAgents) - 1
                                     /\ Cardinality(CountedAgents) # 0
        BY <2>2, FS_RemoveElement, FS_EmptySet
      <3> QED BY <2>2, <2>4, <3>1, <3>2 DEF OneLess
    <2>5. ASSUME NEW c \in Conn, TalkNext(c) \/ WrongCommand(c)
          PROVE  \/ /\ CountedAgents' = CountedAgents
                    /\ g_connected_agent_count' = g_connected_agent_count
                 \/ /\ c \in CountedAgents /\ CountedAgents' = CountedAgents \ {c}
                    /\ g_connected_agent_count' = OneLess(g_connected_agent_count)
      <3>1. TalkFrame(c)
        BY <2>1, <2>5, TalkDoes
      <3>2. \A d \in Conn : Slot(d)' = Slot(d)
        BY <3>1 DEF TalkFrame, Slot
      <3>3. \/ TalkUncount(c)
            \/ g_connected_agent_count' = g_connected_agent_count /\ talk[c].pc # "uncount"
        BY <2>5 DEF TalkNext, TalkStart, ConsoleEnds, WrongCommand, CmdReturns, TalkSend, TalkOpen,
                    TalkRecv, TalkRecvEnds, TalkWrite, TalkTimeout, TalkRename, TalkExit, TalkGoes,
                    slotVars
      <3>4. CASE TalkUncount(c)
        <4>1. talk[c].pc = "uncount" /\ g_connected_agent_count' = OneLess(g_connected_agent_count)
          BY <3>4 DEF TalkUncount, TalkGoes
        <4>2. talk'[c].pc = "done"
          BY <2>1, <3>4 DEF TalkUncount, TalkGoes, TypeInv, TypeOK, TalkState
        <4>3. Slot(c) # Console /\ ~(main = "spawn" /\ c = nconn)
          BY <2>1, <4>1 DEF SlotsGiven, Agents
        <4> QED BY <3>1, <3>2, <4>1, <4>2, <4>3 DEF TalkFrame, CountedAgents
      <3>5. CASE g_connected_agent_count' = g_connected_agent_count /\ talk[c].pc # "uncount"
        <4>1. Slot(c) # Console => (talk[c].pc \in {"none", "done"} <=> talk'[c].pc \in {"none", "done"})
          BY <2>1, <2>5, <3>5, TalkDoes
             DEF SlotsGiven, DoesStart, DoesEnd, DoesSend, DoesOpen, DoesRecv, DoesWrite, DoesRename,
                 DoesElse, DoesNothing, Moves
        <4> QED BY <3>1, <3>2, <3>5, <4>1 DEF TalkFrame, CountedAgents
      <3> QED BY <3>3, <3>4, <3>5
    <2>6. ASSUME NEW c \in Conn, EnqNext(c)
          PROVE  CountedAgents' = CountedAgents /\ g_connected_agent_count' = g_connected_agent_count
      BY <2>6, EnqFrame DEF CountedAgents, Slot
    <2>7. CASE DispNext
      BY <2>7, DispFrame DEF CountedAgents, Slot
    <2>8. ASSUME Environment \/ MainNext \/ UNCHANGED vars
          PROVE  \/ /\ CountedAgents' = CountedAgents
                    /\ g_connected_agent_count' = g_connected_agent_count
                 \/ /\ \E c \in Conn \ CountedAgents : CountedAgents' = CountedAgents \cup {c}
                    /\ g_connected_agent_count' = g_connected_agent_count + 1
      <3>1. ASSUME NEW c \in Conn, NEW ip \in Ips,
                   DoesConsole(c, ip) \/ DoesRefuse(c, ip) \/ (\E i \in Slots : DoesAgent(c, ip, i))
            PROVE  CountedAgents' = CountedAgents /\ g_connected_agent_count' = g_connected_agent_count
        <4>1. /\ main = "accept" /\ main' \in {"accept", "count"} /\ talk[c].pc = "none"
              /\ \A d \in Conn : d # c => Slot(d)' = Slot(d) /\ talk'[d].pc = talk[d].pc
              /\ talk'[c].pc = "none" \/ conn'[c].slot = Console
              /\ g_connected_agent_count' = g_connected_agent_count
          BY <3>1 DEF DoesConsole, DoesRefuse, DoesAgent, Enters, OthersTalk, Slot
        <4> QED BY <4>1 DEF CountedAgents, Slot
      <3>2. CASE DoesCount
        <4>1. nconn \in Conn \ CountedAgents
          BY <2>1, <3>2 DEF DoesCount, SlotsGiven, CountedAgents
        <4>2. CountedAgents' = CountedAgents \cup {nconn}
          BY <4>1, <3>2 DEF DoesCount, NoneEnters, CountedAgents, Slot
        <4> QED BY <3>2, <4>1, <4>2 DEF DoesCount
      <3>3. CASE DoesSpawn
        <4>1. /\ nconn \in Conn /\ main' = "accept" /\ main = "spawn" /\ nconn' = nconn
              /\ Slot(nconn) # Console /\ talk'[nconn].pc = "start"
              /\ \A d \in Conn : Slot(d)' = Slot(d) /\ (d # nconn => talk'[d].pc = talk[d].pc)
          BY <2>1, <3>3 DEF DoesSpawn, NoneEnters, SlotsGiven, Slot, OthersTalk
        <4> QED BY <3>3, <4>1 DEF DoesSpawn, CountedAgents
      <3>4. CASE DoesRest
        BY <3>4 DEF DoesRest, NoneEnters, CountedAgents, Slot
      <3> QED BY <2>1, <2>8, <3>1, <3>2, <3>3, <3>4, OtherDoes
    <2> QED BY <2>5, <2>6, <2>7, <2>8 DEF Next
  <1> QED BY <1>1, <1>2, SlotsInvHolds, PTL DEF Spec

\* At the start nobody claims a slot.
LEMMA SlotsClaimedInit == Init => SlotsClaimed
  BY DEF Init, SlotsClaimed, Claims, Serves, Accepted

\* A slot is claimed at the accept only while nobody else claims it.
LEMMA SlotsClaimedStep ==
  ASSUME SlowReconnect, HostsDiffer, SlotsInv, SlotsClaimed, [Next]_vars
  PROVE  SlotsClaimed'
  <1>0. /\ TypeInv /\ SlotsGiven /\ main \in {"accept", "count", "spawn"} /\ nconn \in Nat
        /\ -1 \notin Slots /\ Console \in Slots
        /\ \A c \in Conn : talk[c].pc # "none" => c <= nconn /\ Slot(c) \in Slots
        /\ \A c \in Conn : c \in Nat
    BY SlotFacts DEF SlotsInv
  <1>1. ASSUME NEW c \in Conn, TalkNext(c) \/ WrongCommand(c) PROVE SlotsClaimed'
    <2>1. TalkFrame(c)
      BY <1>0, <1>1, TalkDoes
    <2>2. \A d \in Conn : Slot(d)' = Slot(d) /\ (Accepted(d)' <=> Accepted(d))
      BY <2>1 DEF TalkFrame, Slot, Accepted
    <2>3. CASE DoesNothing(c)
      BY <2>1, <2>2, <2>3 DEF DoesNothing, TalkFrame, SlotsClaimed, Claims, Serves
    <2>4. CASE ~DoesNothing(c)
      <3>1. /\ talk[c].pc # "none" /\ talk'[c].pc # "start" /\ Slot(c) \in Slots
            /\ Claims(c)' => Claims(c)
        BY <1>0, <1>1, <2>2, <2>4, TalkDoes
           DEF DoesStart, DoesEnd, DoesSend, DoesOpen, DoesRecv, DoesWrite, DoesRename,
               DoesElse, Moves, Claims, Serves, TalkPc
      <3>2. \A d \in Conn : Claims(d)' => Claims(d)
        BY <2>1, <2>2, <3>1 DEF TalkFrame, Claims, Serves
      <3>3. Serves(c)' => talk'[c].sock = c
        BY <1>0, <1>1, <2>4, TalkDoes
           DEF DoesStart, DoesEnd, DoesSend, DoesOpen, DoesRecv, DoesWrite, DoesRename,
               DoesElse, Moves, Serves, TalkPc, SlotsClaimed
      <3>4. \/ SlotSet(c, 1)
            \/ SlotSet(c, 0) /\ ~Serves(c)' /\ Serves(c)
            \/ UNCHANGED g_socket_active_array /\ (Serves(c)' => Serves(c))
        BY <1>0, <1>1, <2>4, TalkDoes
           DEF DoesStart, DoesEnd, DoesSend, DoesOpen, DoesRecv, DoesWrite, DoesRename,
               DoesElse, Moves, Serves, TalkPc
      <3>5. \A d \in Conn : Serves(d)' => g_socket_active_array'[Slot(d)] = 1
        <4> SUFFICES ASSUME NEW d \in Conn, Serves(d)' PROVE g_socket_active_array'[Slot(d)] = 1
          OBVIOUS
        <4>1. Slot(d) \in Slots
          BY <1>0, <2>1, <3>1 DEF TalkFrame, Serves
        <4>2. d # c => Serves(d)
          BY <2>1 DEF TalkFrame, Serves
        <4>3. d # c /\ Serves(c) => Slot(d) # Slot(c)
          BY <4>2 DEF SlotsClaimed, Claims
        <4> QED BY <3>4, <4>1, <4>2, <4>3 DEF SlotSet, SlotsClaimed
      <3>6. \A d \in Conn : talk'[d].pc = "start" => g_wa_array'[Slot(d)] = d
        BY <2>1, <3>1 DEF TalkFrame, SlotsClaimed
      <3>7. \A d \in Conn : Serves(d)' => talk'[d].sock = d
        BY <2>1, <3>3 DEF TalkFrame, SlotsClaimed, Serves
      <3> QED BY <2>2, <3>2, <3>5, <3>6, <3>7 DEF SlotsClaimed
    <2> QED BY <2>3, <2>4
  <1>2. ASSUME NEW c \in Conn, EnqNext(c) PROVE SlotsClaimed'
    BY <1>2, EnqFrame DEF SlotsClaimed, Slot, Claims, Serves, Accepted
  <1>3. CASE DispNext
    BY <1>3, DispFrame DEF SlotsClaimed, Slot, Claims, Serves, Accepted
  <1>4. CASE Environment \/ MainNext \/ UNCHANGED vars
    <2>0. /\ UNCHANGED g_socket_active_array
          /\ \A d \in Conn : talk'[d].sock = talk[d].sock
      BY <1>0, <1>4, OtherDoes DEF OtherFrame
    \* A connection enters a slot that nobody claims.
    <2>1. ASSUME NEW c \in Conn, NEW ip \in Ips, NEW i \in Slots, Enters(c, ip, i), SlotOf(ip, i),
                 g_socket_active_array[i] = 0
          PROVE  \A d \in Conn : Claims(d) => Slot(d) # i /\ d # c
      <3> SUFFICES ASSUME NEW d \in Conn, Claims(d) PROVE Slot(d) # i /\ d # c
        OBVIOUS
      <3>1. talk[c].pc = "none" /\ main = "accept"
        BY <2>1 DEF Enters
      <3>2. d # c /\ ~Accepted(d) /\ talk[d].pc # "none" /\ d <= nconn /\ Slot(d) \in Slots
        BY <1>0, <3>1 DEF Claims, Serves, Accepted
      <3>3. CASE Serves(d)
        BY <2>1, <3>2, <3>3 DEF SlotsClaimed
      <3>4. CASE talk[d].pc = "start"
        <4> SUFFICES ASSUME Slot(d) = i PROVE FALSE
          BY <3>2
        <4>1. conn[d].ip \in Ips /\ SlotOf(conn[d].ip, i)
          BY <1>0, <3>2 DEF SlotsGiven
        <4>2. conn[d].ip = ip
          BY <2>1, <4>1 DEF HostsDiffer
        <4>3. d \in 1 .. nconn
          BY <1>0, <3>2 DEF Conn
        <4> QED BY <2>1, <3>4, <4>2, <4>3 DEF Enters, MayConnect
      <3> QED BY <3>2, <3>3, <3>4 DEF Claims
    <2>2. ASSUME NEW c \in Conn, NEW ip \in Ips, DoesConsole(c, ip) PROVE SlotsClaimed'
      <3>1. Enters(c, ip, Console) /\ SlotOf(ip, Console) /\ g_socket_active_array[Console] = 0
        BY <2>2 DEF DoesConsole, SlotOf
      <3>2. \A d \in Conn : Claims(d) => Slot(d) # Console /\ d # c
        BY <1>0, <2>1, <3>1
      <3>3. /\ \A d \in Conn : d # c => Slot(d)' = Slot(d)
            /\ Slot(c)' = Console
            /\ talk'[c].pc \in {"start", "none"}
            /\ \A d \in Conn : d # c => talk'[d].pc = talk[d].pc
            /\ g_wa_array'[Console] = c
            /\ \A i \in Slots : i # Console => g_wa_array'[i] = g_wa_array[i]
            /\ main = "accept" /\ main' = "accept"
        BY <1>0, <2>2 DEF DoesConsole, Enters, Slot, OthersTalk, WaSet
      <3>4. \A d \in Conn : d # c => (Claims(d)' <=> Claims(d)) /\ (Serves(d)' <=> Serves(d))
        BY <3>3 DEF Claims, Serves, Accepted
      <3>5. ~Serves(c)'
        BY <3>3 DEF Serves
      <3>6. \A d \in Conn : talk'[d].pc = "start" => g_wa_array'[Slot(d)'] = d
        BY <1>0, <3>2, <3>3 DEF SlotsClaimed, Claims
      <3> QED BY <2>0, <3>2, <3>3, <3>4, <3>5, <3>6 DEF SlotsClaimed
    <2>3. ASSUME NEW c \in Conn, NEW ip \in Ips, DoesRefuse(c, ip) PROVE SlotsClaimed'
      <3>1. /\ \A d \in Conn : d # c => Slot(d)' = Slot(d)
            /\ talk' = talk /\ g_wa_array' = g_wa_array /\ talk[c].pc = "none"
            /\ main = "accept" /\ main' = "accept"
        BY <2>3 DEF DoesRefuse, Enters, Slot
      <3>2. \A d \in Conn : (Claims(d)' <=> Claims(d)) /\ (Serves(d)' <=> Serves(d))
        BY <3>1 DEF Claims, Serves, Accepted
      <3>3. ~Claims(c)
        BY <3>1 DEF Claims, Serves, Accepted
      <3> QED BY <2>0, <3>1, <3>2, <3>3 DEF SlotsClaimed, Claims
    <2>4. ASSUME NEW c \in Conn, NEW ip \in Ips, NEW i \in Slots, DoesAgent(c, ip, i)
          PROVE SlotsClaimed'
      <3>1. Enters(c, ip, i) /\ SlotOf(ip, i) /\ g_socket_active_array[i] = 0
        BY <2>4 DEF DoesAgent, SlotOf
      <3>2. \A d \in Conn : Claims(d) => Slot(d) # i /\ d # c
        BY <2>1, <3>1
      <3>3. /\ \A d \in Conn : d # c => Slot(d)' = Slot(d)
            /\ Slot(c)' = i
            /\ talk' = talk /\ g_wa_array' = g_wa_array /\ talk[c].pc = "none"
            /\ main = "accept" /\ main' = "count" /\ nconn' = c
        BY <2>4 DEF DoesAgent, Enters, Slot
      <3>4. \A d \in Conn : d # c => (Claims(d)' <=> Claims(d)) /\ (Serves(d)' <=> Serves(d))
        BY <3>3 DEF Claims, Serves, Accepted
      <3>5. ~Serves(c)' /\ talk'[c].pc # "start"
        BY <3>3 DEF Serves
      <3> QED BY <2>0, <3>2, <3>3, <3>4, <3>5 DEF SlotsClaimed
    <2>5. CASE DoesCount
      BY <2>0, <2>5 DEF DoesCount, NoneEnters, SlotsClaimed, Slot, Claims, Serves, Accepted
    <2>6. CASE DoesSpawn
      <3>1. /\ nconn \in Conn /\ main' = "accept" /\ Accepted(nconn) /\ nconn' = nconn
            /\ Slot(nconn) \in Slots
            /\ \A d \in Conn : Slot(d)' = Slot(d) /\ (d # nconn => talk'[d].pc = talk[d].pc)
            /\ talk'[nconn].pc \in {"start", "none"}
            /\ \A i \in Slots : g_wa_array'[i] = IF i = Slot(nconn) THEN nconn ELSE g_wa_array[i]
        BY <1>0, <2>6 DEF DoesSpawn, NoneEnters, SlotsGiven, Slot, OthersTalk, WaSet, Accepted
      <3>2. \A d \in Conn : (Claims(d)' => Claims(d)) /\ (Serves(d)' => Serves(d) /\ d # nconn)
        BY <3>1 DEF Claims, Serves, Accepted
      <3>3. \A d \in Conn : talk'[d].pc = "start" => g_wa_array'[Slot(d)] = d
        <4> SUFFICES ASSUME NEW d \in Conn, talk'[d].pc = "start" PROVE g_wa_array'[Slot(d)] = d
          OBVIOUS
        <4>1. CASE d = nconn
          BY <3>1, <4>1
        <4>2. CASE d # nconn
          <5>1. talk[d].pc = "start" /\ Slot(d) \in Slots
            BY <1>0, <3>1, <4>2
          <5>2. Slot(d) # Slot(nconn)
            BY <3>1, <4>2, <5>1 DEF SlotsClaimed, Claims
          <5> QED BY <3>1, <5>1, <5>2 DEF SlotsClaimed
        <4> QED BY <4>1, <4>2
      <3> QED BY <2>0, <3>1, <3>2, <3>3 DEF SlotsClaimed
    <2>7. CASE DoesRest
      BY <2>0, <2>7 DEF DoesRest, NoneEnters, SlotsClaimed, Slot, Claims, Serves, Accepted
    <2> QED BY <1>0, <1>4, <2>2, <2>3, <2>4, <2>5, <2>6, <2>7, OtherDoes
  <1> QED BY <1>1, <1>2, <1>3, <1>4 DEF Next

\* Under the hypotheses on the hosts no slot is claimed twice.
LEMMA SlotsClaimedHolds == ASSUME SlowReconnect, HostsDiffer PROVE Spec => []SlotsClaimed
  <1>1. Init => SlotsClaimed
    BY SlotsClaimedInit
  <1>2. SlotsInv /\ SlotsClaimed /\ [Next]_vars => SlotsClaimed'
    BY SlotsClaimedStep
  <1>3. Spec => []SlotsInv
    BY SlotsInvHolds DEF HostsDiffer
  <1> QED BY <1>1, <1>2, <1>3, PTL DEF Spec

(* One thread at a time serves a slot, for any number of hosts, as long as each *)
(* slot has one host and a host waits for its last thread to start before it    *)
(* connects again: though the slot is tested at the accept and marked only by   *)
(* the new thread (server.c:134-147, 798-841).                                  *)
THEOREM OneTalker ==
  ASSUME SlowReconnect, HostsDiffer
  PROVE  Spec => []OneTalkerPerSlot
  <1>1. SlotsClaimed => OneTalkerPerSlot
    BY DEF SlotsClaimed, OneTalkerPerSlot, Claims
  <1> QED BY <1>1, SlotsClaimedHolds, PTL

-----------------------------------------------------------------------------
(* One agent: one thread at a time downloads.                                *)

\* What is known of the threads of the one agent; c is any of them that serves.
AgentInv == SlotsInv /\ SlotsClaimed /\ NameAsked

\* With one agent a single thread is between TalkSend and TalkTimeout.
LEMMA OneDownload ==
  ASSUME OneAgent, SlotsInv, SlotsClaimed,
         NEW c \in Conn, NEW d \in Conn, talk[c].pc \in Agents, talk[d].pc \in Agents,
         Serves(c), Serves(d)
  PROVE  c = d /\ talk[c].sock = c
  <1>1. \A k \in Conn : talk[k].pc \in Agents => Slot(k) = 0
    <2> SUFFICES ASSUME NEW k \in Conn, talk[k].pc \in Agents PROVE Slot(k) = 0
      OBVIOUS
    <2>1. talk[k].pc # "none"
      BY DEF Agents
    <2>2. Slot(k) \in Slots /\ Slot(k) # -1 /\ Slot(k) # Console
      BY <2>1, SlotFacts DEF SlotsInv, SlotsGiven
    <2>3. FirstMatch(conn[k].ip, Slot(k))
      BY <2>2 DEF SlotsInv, SlotsGiven, SlotOf
    <2> QED BY <2>2, <2>3, ConstantsAssumption DEF FirstMatch, Matches, OneAgent, Slots
  <1> QED BY <1>1 DEF SlotsClaimed, Claims

\* No step parts the name asked for from the name opened.
LEMMA NameAskedStep ==
  ASSUME OneAgent, AgentInv, [Next]_vars
  PROVE  NameAsked'
  <1>0. TypeInv /\ SlotsInv /\ SlotsClaimed /\ NameAsked
    BY DEF AgentInv, SlotsInv
  <1>1. ASSUME NEW c \in Conn, TalkNext(c) \/ WrongCommand(c) PROVE NameAsked'
    <2>0. TalkFrame(c)
      BY <1>0, <1>1, TalkDoes
    <2>1. CASE DoesNothing(c)
      BY <1>0, <2>1 DEF DoesNothing, StoreKept, NamesKept, NameAsked
    <2>2. CASE talk[c].pc \notin Agents /\ ~DoesNothing(c)
      <3>1. /\ talk'[c].pc \in {"cmd", "send", "done"}
            /\ StoreKept /\ NamesKept
        BY <1>0, <1>1, <2>2, TalkDoes
           DEF DoesStart, DoesEnd, DoesSend, DoesOpen, DoesRecv, DoesWrite, DoesRename,
               DoesElse, Moves, Agents
      <3> QED BY <1>0, <2>0, <3>1 DEF NameAsked, TalkFrame, StoreKept, NamesKept
    <2>3. CASE talk[c].pc = "uncount" /\ ~DoesNothing(c)
      <3>1. talk'[c].pc = "done" /\ StoreKept /\ NamesKept
        BY <1>0, <1>1, <2>3, TalkDoes
           DEF DoesStart, DoesEnd, DoesSend, DoesOpen, DoesRecv, DoesWrite, DoesRename,
               DoesElse, Moves
      <3> QED BY <1>0, <2>0, <3>1 DEF NameAsked, TalkFrame, StoreKept, NamesKept
    <2>4. CASE talk[c].pc \in Agents \ {"uncount"} /\ ~DoesNothing(c)
      <3>1. Serves(c) /\ talk[c].sock = c
        BY <1>0, <2>4, OneDownload DEF Serves, TalkPc, Agents
      <3>2. \A d \in Conn : d # c => talk'[d].pc \notin {"open", "recv", "write", "timeout"}
        <4> SUFFICES ASSUME NEW d \in Conn, d # c,
                            talk'[d].pc \in {"open", "recv", "write", "timeout"}
                     PROVE  FALSE
          OBVIOUS
        <4>1. talk[d].pc \in Agents /\ Serves(d)
          BY <2>0 DEF TalkFrame, Agents, Serves, TalkPc
        <4> QED BY <1>0, <2>4, <3>1, <4>1, OneDownload
      <3>3. /\ talk'[c].pc = "open" => conn'[c].name = g_file_name'
            /\ talk'[c].pc \in {"recv", "write", "timeout"}
                 => conn'[c].name = talk'[c].name /\ talk'[c].name = g_file_name'
        BY <1>0, <1>1, <2>4, <3>1, TalkDoes
           DEF DoesStart, DoesEnd, DoesSend, DoesOpen, DoesRecv, DoesWrite, DoesRename,
               DoesElse, Moves, Agents, NameAsked, StoreKept, NamesKept, FileKept
      <3> QED BY <3>2, <3>3 DEF NameAsked
    <2> QED BY <2>1, <2>2, <2>3, <2>4
  <1>2. ASSUME NEW c \in Conn, EnqNext(c) PROVE NameAsked'
    BY <1>0, <1>2, EnqFrame DEF NameAsked
  <1>3. CASE DispNext
    BY <1>0, <1>3, DispFrame DEF NameAsked
  <1>4. CASE Environment \/ MainNext \/ UNCHANGED vars
    <2>1. OtherFrame
      BY <1>0, <1>4, OtherDoes
    <2>2. \A d \in Conn : talk'[d].pc = talk[d].pc \/ talk'[d].pc \in {"none", "start"}
      BY <1>0, <1>4, OtherDoes
         DEF DoesConsole, DoesRefuse, DoesAgent, DoesCount, DoesSpawn, DoesRest, OthersTalk
    <2> QED BY <1>0, <2>1, <2>2 DEF OtherFrame, NameAsked, NamesKept
  <1> QED BY <1>1, <1>2, <1>3, <1>4 DEF Next

\* With one agent the names agree.
LEMMA AgentInvHolds == ASSUME OneAgent PROVE Spec => []AgentInv
  <1>1. Init => NameAsked
    BY DEF Init, NameAsked
  <1>2. AgentInv /\ [Next]_vars => NameAsked'
    BY NameAskedStep
  <1>3. Spec => []SlotsInv
    BY SlotsInvHolds DEF OneAgent, HostsDiffer
  <1>4. Spec => []SlotsClaimed
    BY SlotsClaimedHolds DEF OneAgent
  <1>5. AgentInv <=> SlotsInv /\ SlotsClaimed /\ NameAsked
    BY DEF AgentInv
  <1> QED BY <1>1, <1>2, <1>3, <1>4, <1>5, PTL DEF Spec

(* The log the agent is asked for is the log the local file is named after, as  *)
(* long as one agent is configured: nobody else can then change g_file_name     *)
(* between its two reads outside the mutex (server.c:184-200).                  *)
THEOREM NamesAgree ==
  ASSUME OneAgent
  PROVE  Spec => []AskedIsOpened
  <1>1. AgentInv => AskedIsOpened
    <2> SUFFICES ASSUME AgentInv, NEW c \in Conn, talk[c].pc \in {"recv", "write"}
                 PROVE  conn[talk[c].sock].name = talk[c].name
      BY DEF AskedIsOpened
    <2>1. talk[c].sock = c
      BY DEF AgentInv, SlotsClaimed, Serves, TalkPc
    <2> QED BY <2>1 DEF AgentInv, NameAsked
  <1> QED BY <1>1, AgentInvHolds, PTL
-----------------------------------------------------------------------------
(* What the steps of enqueue_func do.                                        *)

\* The enqueue thread of c goes on.
EnqMoved(c, from, to) == enq[c].pc = from /\ enq'[c].pc = to
LogKept(c)    == enq'[c].name = enq[c].name /\ enq'[c].ino = enq[c].ino
PlaceKept(c)  == enq'[c].off = enq[c].off /\ enq'[c].line = enq[c].line
RecordKept(c) == enq'[c].cur = enq[c].cur /\ enq'[c].buf = enq[c].buf

\* The steps of an enqueue thread by what they do, in the order of server.c.
DoesName(c) ==
  /\ EnqMoved(c, "sleep", "fopen") \/ EnqMoved(c, "retry", "fopen")
  /\ enq'[c].name = g_file_name /\ enq'[c].ino = enq[c].ino
  /\ PlaceKept(c) /\ RecordKept(c) /\ UNCHANGED <<dir, g_sql_queue>>
DoesFopen(c) ==
  /\ EnqMoved(c, "fopen", "read") \/ EnqMoved(c, "reopen", "read") \/ EnqMoved(c, "read", "read")
  /\ enq'[c].name = enq[c].name
  /\ enq'[c].ino = dir[FileOf(enq[c].name, c)] /\ enq'[c].ino # 0
  /\ PlaceKept(c) /\ RecordKept(c) /\ UNCHANGED <<dir, g_sql_queue>>
DoesGetLine(c) ==
  LET text == data[enq[c].ino]
      off  == enq[c].off
  IN /\ \E n \in 1 .. Len(text), h \in 0 .. Len(text) :
          /\ LineEnds(text, off, n) /\ SeenTo(text, off, n, h)
          /\ enq'[c].off = h /\ enq'[c].buf = SubSeq(text, off + 1, h)
          /\ EnqMoved(c, "read", IF h = off THEN "reopen" ELSE "room")
     /\ enq'[c].line = CountLine(enq[c].line) /\ enq'[c].cur = enq[c].cur
     /\ LogKept(c) /\ UNCHANGED <<dir, g_sql_queue>>
DoesRemove(c) ==
  /\ EnqMoved(c, "eof", "done") /\ Rotated(c)
  /\ dir' = [dir EXCEPT ![FileOf(enq[c].name, c)] = 0]
  /\ LogKept(c) /\ PlaceKept(c) /\ RecordKept(c) /\ UNCHANGED g_sql_queue
DoesSkip(c) ==
  /\ EnqMoved(c, "room", "read") /\ enq[c].line <= HEADER_LINES
  /\ enq'[c].cur = enq[c].cur
  /\ LogKept(c) /\ PlaceKept(c) /\ UNCHANGED <<dir, g_sql_queue>>
DoesJoin(c) ==
  /\ EnqMoved(c, "room", "read") /\ enq[c].line > HEADER_LINES
  /\ ~HasMarker(enq[c].buf) \/ enq[c].cur = <<>>
  /\ enq'[c].cur = enq[c].cur \o enq[c].buf
  /\ LogKept(c) /\ PlaceKept(c) /\ UNCHANGED <<dir, g_sql_queue>>
DoesHold(c) ==
  /\ EnqMoved(c, "room", "put") /\ HasMarker(enq[c].buf) /\ enq[c].cur # <<>>
  /\ LogKept(c) /\ PlaceKept(c) /\ RecordKept(c) /\ UNCHANGED <<dir, g_sql_queue>>
DoesPut(c) ==
  /\ EnqMoved(c, "put", "count")
  /\ g_sql_queue' = Append(g_sql_queue, [by |-> c, rec |-> enq[c].cur])
  /\ enq'[c].cur = enq[c].buf
  /\ LogKept(c) /\ PlaceKept(c) /\ UNCHANGED dir
DoesTurn(c) ==
  /\ \/ EnqMoved(c, "fopen", "retry")
     \/ enq[c].pc \in {"read", "eof", "reopen", "count"} /\ enq'[c].pc \in {"read", "eof", "reopen", "done"}
  /\ enq'[c].line \in {enq[c].line, CountLine(enq[c].line)} /\ enq'[c].off = enq[c].off
  /\ LogKept(c) /\ RecordKept(c) /\ UNCHANGED <<dir, g_sql_queue>>

\* The other enqueue threads stay where they are.
EnqOthers(c) == \A d \in Conn : d # c => enq'[d] = enq[d]

\* A step of an enqueue thread does one of these things and leaves the rest alone.
LEMMA EnqDoes ==
  ASSUME TypeInv, NEW c \in Conn, EnqNext(c)
  PROVE  /\ UNCHANGED <<data, disp, checked>> /\ EnqOthers(c)
         /\ \/ DoesName(c) \/ DoesFopen(c) \/ DoesGetLine(c) \/ DoesRemove(c) \/ DoesSkip(c)
            \/ DoesJoin(c) \/ DoesHold(c) \/ DoesPut(c) \/ DoesTurn(c)
  <1> USE DEF sqlVars, EnqOnly, fileVars, EnqMoved, LogKept, PlaceKept, RecordKept, EnqOthers
  <1>1. enq \in [Conn -> EnqState] /\ enq[c] \in EnqState
    BY DEF TypeInv, TypeOK
  <1>2. \A p \in EnqPc, q \in EnqPc : EnqGoes(c, p, q) =>
           /\ EnqMoved(c, p, q) /\ LogKept(c) /\ PlaceKept(c) /\ RecordKept(c) /\ EnqOthers(c)
    BY <1>1 DEF EnqGoes, EnqState
  <1>3. CASE EnqName(c)
    <2>1. /\ enq[c].pc \in {"sleep", "retry"} /\ UNCHANGED <<data, disp, checked, dir, g_sql_queue>>
          /\ enq' = [enq EXCEPT ![c] = [enq[c] EXCEPT !.name = g_file_name, !.pc = "fopen"]]
      BY <1>3 DEF EnqName
    <2>2. /\ enq'[c].pc = "fopen" /\ enq'[c].name = g_file_name /\ enq'[c].ino = enq[c].ino
          /\ PlaceKept(c) /\ RecordKept(c) /\ EnqOthers(c)
      BY <1>1, <2>1 DEF EnqState
    <2> QED BY <2>1, <2>2 DEF DoesName
  <1>4. ASSUME NEW ino, enq' = [enq EXCEPT ![c] = [enq[c] EXCEPT !.ino = ino, !.pc = "read"]]
        PROVE  /\ enq'[c].name = enq[c].name /\ enq'[c].ino = ino /\ enq'[c].pc = "read"
               /\ PlaceKept(c) /\ RecordKept(c) /\ EnqOthers(c)
    BY <1>1, <1>4 DEF EnqState
  <1>5. CASE EnqFopen(c)
    <2> DEFINE ino == dir[FileOf(enq[c].name, c)]
    <2>1. /\ UNCHANGED <<data, disp, checked, dir, g_sql_queue>>
          /\ \/ EnqGoes(c, "fopen", "retry")
             \/ /\ enq[c].pc = "fopen" /\ ino # 0
                /\ enq' = [enq EXCEPT ![c] = [enq[c] EXCEPT !.ino = ino, !.pc = "read"]]
      BY <1>5, SMTT(60) DEF EnqFopen
    <2>2. CASE EnqGoes(c, "fopen", "retry")
      BY <1>2, <2>1, <2>2 DEF EnqPc, DoesTurn
    <2>3. CASE enq' = [enq EXCEPT ![c] = [enq[c] EXCEPT !.ino = ino, !.pc = "read"]]
               /\ enq[c].pc = "fopen" /\ ino # 0
      BY <1>4, <2>1, <2>3 DEF DoesFopen
    <2> QED BY <2>1, <2>2, <2>3
  <1>6. CASE EnqGetLine(c)
    <2> DEFINE text == data[enq[c].ino]
               off  == enq[c].off
               l    == CountLine(enq[c].line)
    <2>1. PICK n \in 1 .. Len(text), h \in 0 .. Len(text) :
            /\ LineEnds(text, off, n) /\ SeenTo(text, off, n, h)
            /\ enq' = [enq EXCEPT ![c] = [enq[c] EXCEPT !.line = l, !.off = h,
                                            !.buf = SubSeq(text, off + 1, h),
                                            !.pc = IF h = off THEN "reopen" ELSE "room"]]
      BY <1>6 DEF EnqGetLine
    <2> DEFINE b == SubSeq(text, off + 1, h)
               p == IF h = off THEN "reopen" ELSE "room"
    <2>2. enq' = [enq EXCEPT ![c] = [enq[c] EXCEPT !.line = l, !.off = h, !.buf = b, !.pc = p]]
      BY <2>1
    <2>3. /\ enq[c].pc = "read" /\ UNCHANGED <<data, disp, checked, dir, g_sql_queue>>
      BY <1>6 DEF EnqGetLine
    <2> HIDE DEF l, b, p
    <2>4. /\ enq'[c].off = h /\ enq'[c].buf = b /\ enq'[c].pc = p /\ enq'[c].line = l
          /\ enq'[c].cur = enq[c].cur /\ LogKept(c) /\ EnqOthers(c)
      BY <1>1, <2>2 DEF EnqState
    <2> QED BY <2>1, <2>3, <2>4 DEF DoesGetLine, l, b, p
  <1>7. CASE EnqGetEof(c)
    <2> DEFINE l == CountLine(enq[c].line)
               p == IF enq[c].off = 0 THEN "done" ELSE "eof"
    <2>1. /\ enq' = [enq EXCEPT ![c] = [enq[c] EXCEPT !.line = l, !.pc = p]]
          /\ enq[c].pc = "read" /\ UNCHANGED <<data, disp, checked, dir, g_sql_queue>>
      BY <1>7 DEF EnqGetEof
    <2>2. p \in {"done", "eof"}
      OBVIOUS
    <2> HIDE DEF l, p
    <2>3. /\ enq'[c].pc = p /\ enq'[c].line = l /\ enq'[c].off = enq[c].off
          /\ RecordKept(c) /\ LogKept(c) /\ EnqOthers(c)
      BY <1>1, <2>1, SMTT(60) DEF EnqState
    <2> QED BY <2>1, <2>2, <2>3 DEF DoesTurn, l
  <1>8. CASE EnqFgetsFails(c)
    BY <1>2, <1>8 DEF EnqFgetsFails, EnqPc, DoesTurn
  <1>9. CASE EnqEbadf(c) \/ EnqReopen(c)
    <2> DEFINE ino == dir[FileOf(enq[c].name, c)]
               e   == [enq[c] EXCEPT !.pc = "read", !.ino = ino, !.nsl = enq[c].nsl + 1]
    <2>1. /\ UNCHANGED <<data, disp, checked, dir, g_sql_queue>>
          /\ \/ EnqGoes(c, "read", "done") \/ EnqGoes(c, "reopen", "done")
             \/ /\ enq[c].pc \in {"read", "reopen"} /\ ino # 0
                /\ enq' = [enq EXCEPT ![c] = e]
      BY <1>9, SMTT(60) DEF EnqEbadf, EnqReopen, Resumed
    <2>2. CASE EnqGoes(c, "read", "done") \/ EnqGoes(c, "reopen", "done")
      BY <1>2, <2>1, <2>2 DEF EnqPc, DoesTurn
    <2>3. CASE enq[c].pc \in {"read", "reopen"} /\ ino # 0 /\ enq' = [enq EXCEPT ![c] = e]
      <3>1. /\ e.name = enq[c].name /\ e.ino = ino /\ e.pc = "read" /\ e.off = enq[c].off
            /\ e.line = enq[c].line /\ e.cur = enq[c].cur /\ e.buf = enq[c].buf
        BY <1>1 DEF EnqState
      <3> HIDE DEF e
      <3>2. enq'[c] = e /\ EnqOthers(c)
        BY <1>1, <2>3
      <3> QED BY <2>1, <2>3, <3>1, <3>2 DEF DoesFopen
    <2> QED BY <2>1, <2>2, <2>3
  <1>10. CASE EnqEof(c)
    <2>1. /\ UNCHANGED <<data, disp, checked, g_sql_queue>>
          /\ \/ /\ Rotated(c) /\ EnqGoes(c, "eof", "done")
                /\ dir' = [dir EXCEPT ![FileOf(enq[c].name, c)] = 0]
             \/ EnqGoes(c, "eof", "reopen") /\ UNCHANGED dir
      BY <1>10, SMTT(60) DEF EnqEof
    <2>2. CASE EnqGoes(c, "eof", "done") /\ Rotated(c)
               /\ dir' = [dir EXCEPT ![FileOf(enq[c].name, c)] = 0]
      BY <1>2, <2>1, <2>2, SMTT(60) DEF EnqPc, DoesRemove
    <2>3. CASE EnqGoes(c, "eof", "reopen") /\ UNCHANGED dir
      BY <1>2, <2>1, <2>3 DEF EnqPc, DoesTurn
    <2> QED BY <2>1, <2>2, <2>3
  <1>11. CASE EnqAssemble(c)
    <2> DEFINE e == enq[c]
               skip == [e EXCEPT !.pc = "read", !.buf = <<>>]
               join == [e EXCEPT !.pc = "read", !.cur = e.cur \o e.buf, !.buf = <<>>]
               hold == [e EXCEPT !.pc = "put"]
    <2>1. /\ e.pc = "room" /\ UNCHANGED <<data, disp, checked, dir, g_sql_queue>>
          /\ enq' = [enq EXCEPT ![c] = IF e.line <= HEADER_LINES THEN skip
                                       ELSE IF ~HasMarker(e.buf) \/ e.cur = <<>> THEN join
                                       ELSE hold]
      BY <1>11 DEF EnqAssemble
    <2>2. /\ skip.pc = "read" /\ skip.cur = e.cur
          /\ join.pc = "read" /\ join.cur = e.cur \o e.buf
          /\ hold.pc = "put" /\ hold.cur = e.cur /\ hold.buf = e.buf
          /\ \A x \in {skip, join, hold} : x.name = e.name /\ x.ino = e.ino /\ x.off = e.off
                                           /\ x.line = e.line
      BY <1>1 DEF EnqState
    <2>3. e.line \in Nat /\ HEADER_LINES \in Nat
      BY <1>1, ConstantsAssumption DEF EnqState
    <2> HIDE DEF skip, join, hold
    <2>4. /\ EnqOthers(c)
          /\ enq'[c] = IF e.line <= HEADER_LINES THEN skip
                       ELSE IF ~HasMarker(e.buf) \/ e.cur = <<>> THEN join ELSE hold
      BY <1>1, <2>1
    <2>5. CASE e.line <= HEADER_LINES
      BY <2>1, <2>2, <2>4, <2>5 DEF DoesSkip
    <2>6. CASE e.line > HEADER_LINES /\ (~HasMarker(e.buf) \/ e.cur = <<>>)
      <3>1. enq'[c] = join
        BY <2>3, <2>4, <2>6
      <3> QED BY <2>1, <2>2, <2>4, <2>6, <3>1 DEF DoesJoin
    <2>7. CASE e.line > HEADER_LINES /\ ~(~HasMarker(e.buf) \/ e.cur = <<>>)
      BY <2>1, <2>2, <2>3, <2>4, <2>7 DEF DoesHold
    <2> QED BY <2>3, <2>5, <2>6, <2>7
  <1>12. CASE EnqPut(c)
    <2>1. /\ enq[c].pc = "put" /\ UNCHANGED <<data, disp, checked, dir>>
          /\ g_sql_queue' = Append(g_sql_queue, [by |-> c, rec |-> enq[c].cur])
          /\ enq' = [enq EXCEPT ![c] = [enq[c] EXCEPT !.pc = "count", !.cur = enq[c].buf, !.buf = <<>>]]
      BY <1>12 DEF EnqPut, Enqueued, Started
    <2>2. /\ enq'[c].pc = "count" /\ enq'[c].cur = enq[c].buf /\ LogKept(c) /\ PlaceKept(c)
          /\ EnqOthers(c)
      BY <1>1, <2>1, SMTT(60) DEF EnqState
    <2> QED BY <2>1, <2>2 DEF DoesPut
  <1>13. CASE EnqCount(c)
    BY <1>2, <1>13 DEF EnqCount, EnqPc, DoesTurn
  <1> QED BY <1>3, <1>5, <1>6, <1>7, <1>8, <1>9, <1>10, <1>11, <1>12, <1>13 DEF EnqNext
-----------------------------------------------------------------------------
(* The files.                                                                *)

FileInv == AgentInv /\ FilesNamed

\* A file stays open or closed, and under its name; only its thread's fopen makes it.
LEMMA OpenedStays ==
  ASSUME OneAgent, AgentInv, [Next]_vars, NEW n \in Conn, Opened(n)
  PROVE  Opened(n)' /\ conn'[n].name = conn[n].name
  <1>0. TypeInv /\ SlotsInv /\ SlotsClaimed
    BY DEF AgentInv, SlotsInv
  <1>1. ASSUME NEW c \in Conn, TalkNext(c) \/ WrongCommand(c)
        PROVE  Opened(n)' /\ conn'[n].name = conn[n].name
    <2>0. TalkFrame(c)
      BY <1>0, <1>1, TalkDoes
    <2>1. talk[c].pc = "send" => talk[c].sock = c /\ ~Opened(c)
      BY <1>0 DEF SlotsClaimed, Serves, TalkPc, Opened
    <2>2. conn'[n].name = conn[n].name
      BY <1>0, <1>1, <2>1, TalkDoes
         DEF DoesStart, DoesEnd, DoesSend, DoesOpen, DoesRecv, DoesWrite, DoesRename,
             DoesElse, DoesNothing, Moves, NamesKept
    <2>3. CASE n = c
      BY <1>0, <1>1, <2>2, <2>3, TalkDoes
         DEF DoesStart, DoesEnd, DoesSend, DoesOpen, DoesRecv, DoesWrite, DoesRename,
             DoesElse, DoesNothing, Moves, Opened
    <2>4. CASE n # c
      BY <2>0, <2>2, <2>4 DEF TalkFrame, Opened
    <2> QED BY <2>3, <2>4
  <1>2. ASSUME NEW c \in Conn, EnqNext(c) PROVE Opened(n)' /\ conn'[n].name = conn[n].name
    BY <1>2, EnqFrame DEF Opened
  <1>3. CASE DispNext
    BY <1>3, DispFrame DEF Opened
  <1>4. CASE Environment \/ MainNext \/ UNCHANGED vars
    <2>1. OtherFrame
      BY <1>0, <1>4, OtherDoes
    <2>2. talk[n].pc \notin {"none", "start"}
      BY DEF Opened
    <2>3. main \in {"count", "spawn"} => talk[nconn].pc = "none"
      BY <1>0 DEF TypeInv, Shape
    <2>4. talk'[n].pc = talk[n].pc
      BY <1>0, <1>4, <2>2, <2>3, OtherDoes
         DEF DoesConsole, DoesRefuse, DoesAgent, DoesCount, DoesSpawn, DoesRest, OthersTalk, Enters
    <2> QED BY <2>1, <2>4 DEF OtherFrame, NamesKept, Opened
  <1> QED BY <1>1, <1>2, <1>3, <1>4 DEF Next

\* A file is found, opened and downloaded into under one name.
LEMMA FilesNamedStep ==
  ASSUME OneAgent, FileInv, [Next]_vars
  PROVE  FilesNamed'
  <1>0. TypeInv /\ SlotsInv /\ AgentInv /\ FilesNamed
    BY DEF FileInv, AgentInv, SlotsInv
  <1>1. \A n \in Conn : Opened(n) => Opened(n)' /\ conn'[n].name = conn[n].name
    BY <1>0, OpenedStays
  <1>2. /\ \A f \in Name \X Slots : dir[f] \in 0 .. MaxConn
        /\ dir \in [Name \X Slots -> 0 .. MaxConn]
        /\ 0 \notin Conn /\ Conn = 1 .. MaxConn /\ MaxConn \in Nat
    BY <1>0, ConstantsAssumption DEF TypeInv, TypeOK, Conn
  <1>3. ASSUME NEW c \in Conn, TalkNext(c) \/ WrongCommand(c) PROVE FilesNamed'
    <2>0. TalkFrame(c)
      BY <1>0, <1>3, TalkDoes
    <2>1. CASE DoesOpen(c)
      <3> DEFINE file == FileOf(g_file_name, c)
                 ino  == IF dir[file] = 0 THEN c ELSE dir[file]
      <3>1. file \in Name \X Slots /\ file[1] = g_file_name /\ conn[c].name = g_file_name
        <4>1. talk[c].pc = "open" /\ g_file_name \in Name
          BY <1>0, <2>1 DEF DoesOpen, Moves, TypeInv, TypeOK
        <4> QED BY <1>0, <4>1, SlotFacts DEF AgentInv, NameAsked, FileOf
      <3> HIDE DEF file
      <3>9. ino \in Conn
        BY <1>2, <3>1
      <3>10. PICK k \in Conn : k = ino
        BY <3>9
      <3>2. /\ dir' = [dir EXCEPT ![file] = k]
            /\ talk'[c].ino = k /\ talk'[c].pc = "recv"
            /\ \A d \in Conn : conn'[d].name = conn[d].name
        BY <2>1, <3>10 DEF DoesOpen, Moves, NamesKept, file
      <3>3. Opened(c)' /\ Opened(k)' /\ conn[k].name = g_file_name
        <4>1. Opened(c)'
          BY <3>2 DEF Opened
        <4>2. CASE dir[file] = 0
          BY <3>1, <3>10, <4>1, <4>2
        <4>3. CASE dir[file] # 0
          <5>1. dir[file] = k
            BY <3>10, <4>3
          <5>2. Opened(k) /\ file[1] = conn[k].name
            BY <1>0, <3>1, <5>1 DEF FilesNamed
          <5> QED BY <1>1, <3>1, <4>1, <5>2
        <4> QED BY <4>2, <4>3
      <3> HIDE DEF ino
      <3>4. \A f \in Name \X Slots : dir'[f] = IF f = file THEN k ELSE dir[f]
        BY <1>2, <3>1, <3>2
      <3>5. \A n \in Conn : \A f \in Name \X Slots :
               dir'[f] = n => Opened(n)' /\ f[1] = conn'[n].name
        <4> SUFFICES ASSUME NEW n \in Conn, NEW f \in Name \X Slots, dir'[f] = n
                     PROVE  Opened(n)' /\ f[1] = conn'[n].name
          OBVIOUS
        <4>1. CASE f = file
          <5>1. n = k
            BY <3>4, <4>1
          <5> QED BY <3>1, <3>2, <3>3, <4>1, <5>1
        <4>2. CASE f # file
          <5>1. dir[f] = n
            BY <3>4, <4>2
          <5>2. Opened(n) /\ f[1] = conn[n].name
            BY <1>0, <5>1 DEF FilesNamed
          <5> QED BY <1>1, <5>2
        <4> QED BY <4>1, <4>2
      <3>6. \A d, n \in Conn :
               talk'[d].ino = n => Opened(n)' /\ Opened(d)' /\ conn'[n].name = conn'[d].name
        <4> SUFFICES ASSUME NEW d \in Conn, NEW n \in Conn, talk'[d].ino = n
                     PROVE  Opened(n)' /\ Opened(d)' /\ conn'[n].name = conn'[d].name
          OBVIOUS
        <4>1. CASE d = c
          <5>1. n = k
            BY <3>2, <4>1
          <5> QED BY <3>1, <3>2, <3>3, <4>1, <5>1
        <4>2. CASE d # c
          <5>1. talk[d].ino = n
            BY <2>0, <4>2 DEF TalkFrame
          <5>2. Opened(n) /\ Opened(d) /\ conn[n].name = conn[d].name
            BY <1>0, <5>1 DEF FilesNamed
          <5> QED BY <1>1, <5>2
        <4> QED BY <4>1, <4>2
      <3>7. /\ \A d, n \in Conn : enq'[d].ino = n => Opened(n)' /\ conn'[n].name = enq'[d].name
            /\ \A d \in Conn : enq'[d].pc \in {"none", "sleep", "fopen", "retry"} => enq'[d].ino = 0
        <4>1. enq' = enq
          BY <2>0 DEF TalkFrame
        <4>2. \A d, n \in Conn : enq[d].ino = n => Opened(n) /\ conn[n].name = enq[d].name
          BY <1>0 DEF FilesNamed
        <4>3. \A d \in Conn : enq[d].pc \in {"none", "sleep", "fopen", "retry"} => enq[d].ino = 0
          BY <1>0 DEF FilesNamed
        <4> QED BY <1>1, <4>1, <4>2, <4>3
      <3>8. \A d \in Conn : talk'[d].pc \in {"recv", "write", "timeout"} => talk'[d].ino # 0
        BY <1>0, <1>2, <2>0, <3>2 DEF TalkFrame, FilesNamed
      <3> QED BY <3>5, <3>6, <3>7, <3>8 DEF FilesNamed
    <2>2. CASE ~DoesOpen(c)
      <3>1. /\ dir' = dir /\ talk'[c].ino = talk[c].ino
            /\ talk'[c].pc \in {"recv", "write", "timeout"}
                 => talk[c].pc \in {"recv", "write", "timeout"}
        BY <1>0, <1>3, <2>2, TalkDoes
           DEF DoesStart, DoesEnd, DoesSend, DoesRecv, DoesWrite, DoesRename,
               DoesElse, DoesNothing, Moves, StoreKept, FileKept
      <3>2. \A d \in Conn : /\ talk'[d].ino = talk[d].ino
                            /\ talk'[d].pc \in {"recv", "write", "timeout"}
                                 => talk[d].pc \in {"recv", "write", "timeout"}
        BY <2>0, <3>1 DEF TalkFrame
      <3> QED BY <1>0, <1>1, <2>0, <3>1, <3>2 DEF TalkFrame, FilesNamed
    <2> QED BY <2>1, <2>2
  <1>4. ASSUME NEW c \in Conn, EnqNext(c) PROVE FilesNamed'
    <2>0. EnqOthers(c) /\ conn' = conn /\ talk' = talk /\ \A n \in Conn : Opened(n)' <=> Opened(n)
      BY <1>0, <1>4, EnqDoes, EnqFrame DEF Opened
    <2>1. CASE DoesRemove(c)
      <3>1. \A f \in Name \X Slots : dir'[f] \in {0, dir[f]}
        BY <1>2, <2>1 DEF DoesRemove
      <3>2. enq'[c].ino = enq[c].ino /\ enq'[c].name = enq[c].name /\ enq'[c].pc = "done"
        BY <2>1 DEF DoesRemove, LogKept, EnqMoved
      <3> QED BY <1>0, <1>2, <2>0, <3>1, <3>2, SMTT(60) DEF EnqOthers, FilesNamed
    <2>2. CASE DoesFopen(c)
      <3>1. /\ dir' = dir /\ enq'[c].name = enq[c].name /\ enq'[c].pc = "read"
            /\ enq'[c].ino = dir[FileOf(enq[c].name, c)]
            /\ enq[c].pc # "none"
        BY <2>2 DEF DoesFopen, EnqMoved
      <3>2. FileOf(enq[c].name, c) \in Name \X Slots /\ FileOf(enq[c].name, c)[1] = enq[c].name
        BY <1>0, <3>1, EnqFacts DEF FileOf
      <3>3. \A n \in Conn : enq'[c].ino = n => Opened(n) /\ conn[n].name = enq'[c].name
        <4> DEFINE file == FileOf(enq[c].name, c)
        <4> HIDE DEF file
        <4>1. enq'[c].ino = dir[file] /\ file \in Name \X Slots /\ file[1] = enq[c].name
          BY <3>1, <3>2 DEF file
        <4>2. \A n \in Conn : dir[file] = n => Opened(n) /\ file[1] = conn[n].name
          BY <1>0, <4>1 DEF FilesNamed
        <4> QED BY <3>1, <4>1, <4>2
      <3> QED BY <1>0, <2>0, <3>1, <3>3 DEF EnqOthers, FilesNamed
    <2>3. CASE DoesName(c)
      <3>1. dir' = dir /\ enq'[c].ino = enq[c].ino /\ enq[c].pc \in {"sleep", "retry"}
        BY <2>3 DEF DoesName, EnqMoved
      <3> QED BY <1>0, <1>2, <2>0, <3>1, SMTT(60) DEF EnqOthers, FilesNamed
    <2>4. CASE ~DoesRemove(c) /\ ~DoesFopen(c) /\ ~DoesName(c)
      <3>1. /\ dir' = dir /\ enq'[c].ino = enq[c].ino /\ enq'[c].name = enq[c].name
            /\ enq'[c].pc \in {"none", "sleep", "fopen", "retry"}
                 => enq[c].pc \in {"none", "sleep", "fopen", "retry"}
        BY <1>0, <1>4, <2>4, EnqDoes
           DEF DoesGetLine, DoesSkip, DoesJoin, DoesHold, DoesPut, DoesTurn, LogKept, EnqMoved
      <3> QED BY <1>0, <2>0, <3>1 DEF EnqOthers, FilesNamed
    <2> QED BY <2>1, <2>2, <2>3, <2>4
  <1>5. CASE DispNext
    BY <1>0, <1>1, <1>5, DispFrame DEF FilesNamed
  <1>6. CASE Environment \/ MainNext \/ UNCHANGED vars
    <2>1. OtherFrame
      BY <1>0, <1>6, OtherDoes
    <2>2. \A d \in Conn : talk'[d].pc = talk[d].pc \/ talk'[d].pc \in {"none", "start"}
      BY <1>0, <1>6, OtherDoes
         DEF DoesConsole, DoesRefuse, DoesAgent, DoesCount, DoesSpawn, DoesRest, OthersTalk
    <2>3. \A d \in Conn : /\ talk'[d].ino = talk[d].ino
                          /\ enq'[d].ino = enq[d].ino /\ enq'[d].name = enq[d].name
                          /\ enq'[d].pc = enq[d].pc \/ enq[d].pc = "none"
      BY <2>1 DEF OtherFrame
    <2> QED BY <1>0, <1>1, <2>1, <2>2, <2>3 DEF OtherFrame, FilesNamed
  <1> QED BY <1>3, <1>4, <1>5, <1>6 DEF Next

\* With one agent files are used under the name they were asked for.
LEMMA FileInvHolds == ASSUME OneAgent PROVE Spec => []FileInv
  <1>1. Init => FilesNamed
    BY ConstantsAssumption DEF Init, FilesNamed, Conn
  <1>2. FileInv /\ [Next]_vars => FilesNamed'
    BY FilesNamedStep
  <1>3. FileInv <=> AgentInv /\ FilesNamed
    BY DEF FileInv
  <1> QED BY <1>1, <1>2, <1>3, AgentInvHolds, PTL DEF Spec

(* A log that is removed is old, no thread is still downloading into it: the   *)
(* comparison of the names finds no rotation while the file is written         *)
(* (server.c:417-430), as long as one agent is configured.                     *)
THEOREM OldOnesRemoved ==
  ASSUME OneAgent
  PROVE  Spec => RemovedIsOld
  <1> DEFINE Removal == \A f \in Name \X Slots :
               (dir[f] # 0 /\ dir'[f] = 0)
                 => \A c \in Conn : talk[c].pc \in {"recv", "write"} => talk[c].ino # dir[f]
  <1>1. ASSUME FileInv, [Next]_vars PROVE Removal
    <2>0. TypeInv /\ AgentInv /\ FilesNamed
      BY <1>1 DEF FileInv, AgentInv, SlotsInv
    <2>1. /\ \A f \in Name \X Slots : dir[f] \in 0 .. MaxConn
          /\ dir \in [Name \X Slots -> 0 .. MaxConn]
          /\ 0 \notin Conn /\ Conn = 1 .. MaxConn /\ MaxConn \in Nat
      BY <2>0, ConstantsAssumption DEF TypeInv, TypeOK, Conn
    <2>2. ASSUME NEW c \in Conn, TalkNext(c) \/ WrongCommand(c),
                 NEW f \in Name \X Slots, dir[f] # 0
          PROVE  dir'[f] # 0
      <3>1. CASE DoesOpen(c)
        <4> DEFINE file == FileOf(g_file_name, c)
                   ino  == IF dir[file] = 0 THEN c ELSE dir[file]
        <4>1. dir' = [dir EXCEPT ![file] = ino] /\ ino # 0
          BY <2>1, <3>1 DEF DoesOpen
        <4> HIDE DEF ino
        <4> QED BY <2>1, <2>2, <4>1
      <3>2. CASE ~DoesOpen(c)
        BY <2>0, <2>2, <3>2, TalkDoes
           DEF DoesStart, DoesEnd, DoesSend, DoesRecv, DoesWrite, DoesRename, DoesElse,
               DoesNothing, StoreKept
      <3> QED BY <3>1, <3>2
    <2>3. ASSUME NEW c \in Conn, EnqNext(c) PROVE Removal
      <3>1. CASE DoesRemove(c)
        <4>1. /\ enq[c].pc = "eof" /\ enq[c].name # g_file_name
              /\ dir' = [dir EXCEPT ![FileOf(enq[c].name, c)] = 0]
          BY <3>1 DEF DoesRemove, EnqMoved, Rotated
        <4>2. FileOf(enq[c].name, c) \in Name \X Slots /\ FileOf(enq[c].name, c)[1] = enq[c].name
          BY <2>0, <4>1, EnqFacts DEF FileOf
        <4>3. SUFFICES ASSUME NEW f \in Name \X Slots, dir[f] # 0, dir'[f] = 0, NEW d \in Conn,
                              talk[d].pc \in {"recv", "write"}, talk[d].ino = dir[f]
                       PROVE  FALSE
          OBVIOUS
        <4>4. f[1] = enq[c].name
          BY <2>1, <4>1, <4>2, <4>3
        <4>5. dir[f] \in Conn
          BY <2>1, <4>3
        <4>6. f[1] = conn[d].name /\ conn[d].name = g_file_name
          BY <2>0, <4>3, <4>5 DEF FilesNamed, AgentInv, NameAsked
        <4> QED BY <4>1, <4>4, <4>6
      <3>2. CASE ~DoesRemove(c)
        BY <2>0, <2>3, <3>2, EnqDoes
           DEF DoesName, DoesFopen, DoesGetLine, DoesSkip, DoesJoin, DoesHold, DoesPut, DoesTurn
      <3> QED BY <3>1, <3>2
    <2>4. CASE DispNext
      BY <2>4, DispFrame
    <2>5. CASE Environment \/ MainNext \/ UNCHANGED vars
      BY <2>0, <2>5, OtherDoes DEF OtherFrame
    <2> QED BY <1>1, <2>2, <2>3, <2>4, <2>5 DEF Next
  <1>2. FileInv /\ [Next]_vars => [Removal]_vars
    BY <1>1
  <1> QED BY <1>2, FileInvHolds, PTL DEF Spec, RemovedIsOld

\* A write at the end of a file adds one unit.
LEMMA WrittenAtEnd ==
  ASSUME NEW old \in Text, NEW u
  PROVE  /\ Len(Written(old, Len(old), u)) = Len(old) + 1
         /\ DOMAIN Written(old, Len(old), u) = 1 .. Len(old) + 1
         /\ \A i \in 1 .. Len(old) : Written(old, Len(old), u)[i] = old[i]
         /\ Written(old, Len(old), u)[Len(old) + 1] = u
  <1>1. Len(old) \in Nat
    BY DEF Text
  <1>2. Written(old, Len(old), u) =
          [i \in 1 .. Len(old) + 1 |-> IF i = Len(old) + 1 THEN u ELSE IF i <= Len(old) THEN old[i] ELSE Hole]
    BY <1>1 DEF Written
  <1> QED BY <1>1, <1>2

WholeInv == FileInv /\ FilesWhole

\* A file grows by the next unit of its own log, or is emptied.
LEMMA FilesWholeStep ==
  ASSUME OneAgent, WholeInv, [Next]_vars
  PROVE  FilesWhole'
  <1>0. TypeInv /\ SlotsInv /\ SlotsClaimed /\ NameAsked /\ AgentInv /\ FilesNamed /\ FilesWhole
    BY DEF WholeInv, FileInv, AgentInv, SlotsInv
  <1>1. \A n \in Conn : Opened(n) => Opened(n)' /\ conn'[n].name = conn[n].name
    BY <1>0, OpenedStays
  <1>2. /\ data \in [Conn -> Text] /\ \A n \in Conn : data[n] \in Text /\ DOMAIN data[n] = 1 .. Len(data[n])
        /\ \A d \in Conn : talk[d].ino \in 0 .. MaxConn
        /\ 0 \notin Conn /\ Conn = 1 .. MaxConn /\ MaxConn \in Nat
    <2>1. data \in [Conn -> Text] /\ talk \in [Conn -> TalkState]
      BY <1>0 DEF TypeInv, TypeOK
    <2>2. \A n \in Conn : data[n] \in Text
      BY <2>1
    <2>3. \A text \in Text : DOMAIN text = 1 .. Len(text)
      BY DEF Text
    <2>4. \A d \in Conn : talk[d].ino \in 0 .. MaxConn
      BY <2>1 DEF TalkState
    <2> QED BY <2>1, <2>2, <2>3, <2>4, ConstantsAssumption DEF Conn
  \* What keeps the files, the positions and the units in hand keeps FilesWhole.
  <1>3. ASSUME data' = data, PosKept,
               \A d \in Conn :
                  \/ /\ talk'[d].pc = talk[d].pc
                     /\ talk'[d].ino = talk[d].ino /\ talk'[d].pos = talk[d].pos
                     /\ talk'[d].buf = talk[d].buf /\ conn'[d].name = conn[d].name
                  \/ /\ talk[d].pc \in {"recv", "timeout"} /\ talk'[d].pc \in {"recv", "timeout"}
                     /\ talk'[d].ino = talk[d].ino /\ talk'[d].pos = talk[d].pos
                  \/ talk'[d].pc \notin {"recv", "write", "timeout"}
        PROVE  FilesWhole'
    <2>1. \A n \in Conn : /\ data'[n] # <<>> => Opened(n)'
                          /\ \A i \in DOMAIN data'[n] : data'[n][i] = <<conn'[n].name, i>>
      BY <1>0, <1>1, <1>2, <1>3 DEF FilesWhole
    <2>2. \A d \in Conn : ~Opened(d)' => conn'[d].pos = 0
      BY <1>0, <1>1, <1>3 DEF FilesWhole, PosKept
    <2>3. ASSUME NEW d \in Conn, talk'[d].pc \in {"recv", "write", "timeout"}
          PROVE  /\ talk'[d].pos = Len(data'[talk'[d].ino])
                 /\ talk'[d].pc \in {"recv", "timeout"} => conn'[d].pos = talk'[d].pos
                 /\ talk'[d].pc = "write" => /\ talk'[d].buf = <<conn'[d].name, talk'[d].pos + 1>>
                                             /\ conn'[d].pos = talk'[d].pos + 1
      <3>1. /\ talk[d].pc \in {"recv", "timeout"} <=> talk'[d].pc \in {"recv", "timeout"}
            /\ talk[d].pc \in {"recv", "write", "timeout"}
            /\ talk'[d].ino = talk[d].ino /\ talk'[d].pos = talk[d].pos
            /\ talk'[d].pc = "write" => talk'[d].buf = talk[d].buf /\ conn'[d].name = conn[d].name
                                        /\ talk[d].pc = "write"
        BY <1>3, <2>3
      <3> QED BY <1>0, <1>3, <3>1 DEF FilesWhole, PosKept
    <2> QED BY <2>1, <2>2, <2>3 DEF FilesWhole
  <1>4. ASSUME NEW c \in Conn, TalkNext(c) \/ WrongCommand(c) PROVE FilesWhole'
    <2>0. TalkFrame(c)
      BY <1>0, <1>4, TalkDoes
    <2>1. ASSUME talk[c].pc \in {"open", "recv", "write"}
          PROVE  /\ talk[c].sock = c
                 /\ \A d \in Conn : d # c => talk'[d].pc \notin {"recv", "write", "timeout"}
      <3>1. talk[c].pc \in Agents /\ Serves(c)
        BY <2>1 DEF Agents, Serves, TalkPc
      <3>2. \A d \in Conn : talk[d].pc \in {"recv", "write", "timeout"} => talk[d].pc \in Agents /\ Serves(d)
        BY DEF Agents, Serves, TalkPc
      <3> QED BY <1>0, <2>0, <3>1, <3>2, OneDownload DEF TalkFrame
    <2>2. CASE DoesOpen(c)
      <3> DEFINE ino == IF dir[FileOf(g_file_name, c)] = 0 THEN c ELSE dir[FileOf(g_file_name, c)]
      <3>1. talk'[c].ino = ino /\ talk[c].pc = "open"
        BY <2>2 DEF DoesOpen, Moves
      <3>2. ino \in Conn
        <4>1. g_file_name \in Name /\ Slot(c) \in Slots
          BY <1>0, <3>1, SlotFacts DEF TypeInv, TypeOK
        <4>2. dir[FileOf(g_file_name, c)] \in 0 .. MaxConn
          BY <1>0, <4>1 DEF TypeInv, TypeOK, FileOf
        <4> QED BY <1>2, <4>2
      <3>3. PICK k \in Conn : k = ino
        BY <3>2
      <3>4. /\ talk'[c].ino = k /\ talk'[c].pos = 0 /\ talk'[c].pc = "recv"
            /\ data' = [data EXCEPT ![k] = <<>>]
            /\ \A d \in Conn : conn'[d].name = conn[d].name /\ conn'[d].pos = conn[d].pos
        BY <2>2, <3>3 DEF DoesOpen, Moves, NamesKept, PosKept
      <3> HIDE DEF ino
      <3>5. \A n \in Conn : data'[n] = IF n = k THEN <<>> ELSE data[n]
        BY <1>2, <3>4
      <3>6. \A n \in Conn : /\ data'[n] # <<>> => Opened(n)'
                            /\ \A i \in DOMAIN data'[n] : data'[n][i] = <<conn'[n].name, i>>
        <4> SUFFICES ASSUME NEW n \in Conn
                     PROVE  /\ data'[n] # <<>> => Opened(n)'
                            /\ \A i \in DOMAIN data'[n] : data'[n][i] = <<conn'[n].name, i>>
          OBVIOUS
        <4>1. CASE n = k
          BY <3>5, <4>1
        <4>2. CASE n # k
          BY <1>0, <1>1, <3>4, <3>5, <4>2 DEF FilesWhole
        <4> QED BY <4>1, <4>2
      <3>7. ~Opened(c) /\ conn'[c].pos = 0
        BY <1>0, <3>1, <3>4 DEF Opened, FilesWhole
      <3>8. \A d \in Conn : ~Opened(d)' => conn'[d].pos = 0
        BY <1>0, <1>1, <3>4 DEF FilesWhole
      <3>9. talk'[c].pos = Len(data'[talk'[c].ino])
        BY <3>4, <3>5
      <3> QED BY <2>1, <3>1, <3>4, <3>6, <3>7, <3>8, <3>9 DEF FilesWhole
    <2>3. CASE DoesRecv(c)
      <3>1. /\ talk[c].sock = c /\ talk[c].pc = "recv" /\ talk'[c].pc = "write"
            /\ talk'[c].ino = talk[c].ino /\ talk'[c].pos = talk[c].pos
            /\ talk'[c].buf = <<conn[c].name, conn[c].pos + 1>>
            /\ conn'[c].pos = conn[c].pos + 1
            /\ \A d \in Conn : d # c => conn'[d].pos = conn[d].pos
            /\ \A d \in Conn : conn'[d].name = conn[d].name
            /\ data' = data
        BY <2>1, <2>3 DEF DoesRecv, Moves, FileKept, StoreKept, NamesKept
      <3>2. \A n \in Conn : /\ data'[n] # <<>> => Opened(n)'
                            /\ \A i \in DOMAIN data'[n] : data'[n][i] = <<conn'[n].name, i>>
        BY <1>0, <1>1, <3>1 DEF FilesWhole
      <3>3. Opened(c)
        BY <3>1 DEF Opened
      <3>4. \A d \in Conn : ~Opened(d)' => conn'[d].pos = 0
        BY <1>0, <1>1, <3>1, <3>3 DEF FilesWhole
      <3>5. talk'[c].pos = Len(data'[talk'[c].ino]) /\ conn[c].pos = talk[c].pos
        BY <1>0, <3>1 DEF FilesWhole
      <3> QED BY <2>1, <3>1, <3>2, <3>4, <3>5 DEF FilesWhole
    <2>4. CASE DoesWrite(c)
      <3>1. talk[c].pc = "write" /\ talk'[c].pc = "recv"
        BY <2>4 DEF DoesWrite, Moves
      <3>2. talk[c].ino \in Conn
        BY <1>0, <1>2, <3>1 DEF FilesNamed
      <3>3. PICK k \in Conn : k = talk[c].ino
        BY <3>2
      <3>4. /\ Opened(k) /\ conn[k].name = conn[c].name
            /\ talk[c].pos = Len(data[k]) /\ talk[c].buf = <<conn[k].name, Len(data[k]) + 1>>
            /\ conn[c].pos = Len(data[k]) + 1
        BY <1>0, <3>1, <3>3 DEF FilesNamed, FilesWhole
      <3> DEFINE new == Written(data[k], Len(data[k]), <<conn[k].name, Len(data[k]) + 1>>)
      <3>5. /\ data' = [data EXCEPT ![k] = new]
            /\ talk'[c].ino = k /\ talk'[c].pos = Len(data[k]) + 1
            /\ \A d \in Conn : conn'[d].name = conn[d].name /\ conn'[d].pos = conn[d].pos
        BY <2>4, <3>3, <3>4 DEF DoesWrite, NamesKept, PosKept
      <3>6. /\ Len(new) = Len(data[k]) + 1
            /\ DOMAIN new = 1 .. Len(data[k]) + 1
            /\ \A i \in 1 .. Len(data[k]) : new[i] = data[k][i]
            /\ new[Len(data[k]) + 1] = <<conn[k].name, Len(data[k]) + 1>>
        BY <1>2, WrittenAtEnd
      <3> HIDE DEF new
      <3>7. \A n \in Conn : data'[n] = IF n = k THEN new ELSE data[n]
        BY <1>2, <3>5
      <3>8. \A i \in DOMAIN new : new[i] = <<conn[k].name, i>>
        <4> SUFFICES ASSUME NEW i \in DOMAIN new PROVE new[i] = <<conn[k].name, i>>
          OBVIOUS
        <4>1. Len(data[k]) \in Nat
          BY <1>2 DEF Text
        <4>2. CASE i = Len(data[k]) + 1
          BY <3>6, <4>2
        <4>3. CASE i \in 1 .. Len(data[k])
          <5>1. i \in DOMAIN data[k] /\ new[i] = data[k][i]
            BY <1>2, <3>6, <4>3
          <5> QED BY <1>0, <5>1 DEF FilesWhole
        <4> QED BY <3>6, <4>1, <4>2, <4>3
      <3>9. \A n \in Conn : /\ data'[n] # <<>> => Opened(n)'
                            /\ \A i \in DOMAIN data'[n] : data'[n][i] = <<conn'[n].name, i>>
        <4> SUFFICES ASSUME NEW n \in Conn
                     PROVE  /\ data'[n] # <<>> => Opened(n)'
                            /\ \A i \in DOMAIN data'[n] : data'[n][i] = <<conn'[n].name, i>>
          OBVIOUS
        <4>1. CASE n = k
          BY <1>1, <3>4, <3>5, <3>7, <3>8, <4>1
        <4>2. CASE n # k
          BY <1>0, <1>1, <3>5, <3>7, <4>2 DEF FilesWhole
        <4> QED BY <4>1, <4>2
      <3>10. \A d \in Conn : ~Opened(d)' => conn'[d].pos = 0
        BY <1>0, <1>1, <3>5 DEF FilesWhole
      <3>11. talk'[c].pos = Len(data'[talk'[c].ino]) /\ conn'[c].pos = talk'[c].pos
        BY <3>4, <3>5, <3>6, <3>7
      <3> QED BY <2>1, <3>1, <3>9, <3>10, <3>11 DEF FilesWhole
    <2>5. CASE ~DoesOpen(c) /\ ~DoesRecv(c) /\ ~DoesWrite(c)
      <3>1. /\ data' = data /\ PosKept
            /\ \/ talk' = talk /\ NamesKept
               \/ /\ talk[c].pc \in {"recv", "timeout"} /\ talk'[c].pc \in {"recv", "timeout"}
                  /\ talk'[c].ino = talk[c].ino /\ talk'[c].pos = talk[c].pos
                  /\ NamesKept
               \/ talk'[c].pc \notin {"recv", "write", "timeout"} /\ (NamesKept \/ talk[c].pc = "send")
        BY <1>0, <1>4, <2>5, TalkDoes
           DEF DoesStart, DoesEnd, DoesSend, DoesRename, DoesElse, DoesNothing, Moves,
               StoreKept, FileKept
      <3>2. \A d \in Conn : d # c /\ talk[d].pc \in {"recv", "write", "timeout"}
                              => conn'[d].name = conn[d].name
        BY <1>1 DEF Opened
      <3>3. \A d \in Conn : d # c => talk'[d] = talk[d]
        BY <2>0 DEF TalkFrame
      <3> QED BY <1>3, <3>1, <3>2, <3>3 DEF NamesKept
    <2> QED BY <2>2, <2>3, <2>4, <2>5
  <1>5. ASSUME NEW c \in Conn, EnqNext(c) PROVE FilesWhole'
    BY <1>0, <1>3, <1>5, EnqFrame, EnqDoes DEF PosKept
  <1>6. CASE DispNext
    BY <1>3, <1>6, DispFrame DEF PosKept
  <1>7. CASE Environment \/ MainNext \/ UNCHANGED vars
    <2>1. OtherFrame
      BY <1>0, <1>7, OtherDoes
    <2>2. \A d \in Conn : talk'[d].pc = talk[d].pc \/ talk'[d].pc \in {"none", "start"}
      BY <1>0, <1>7, OtherDoes
         DEF DoesConsole, DoesRefuse, DoesAgent, DoesCount, DoesSpawn, DoesRest, OthersTalk
    <2> QED BY <1>3, <2>1, <2>2 DEF OtherFrame, NamesKept
  <1> QED BY <1>4, <1>5, <1>6, <1>7 DEF Next

\* With one agent every file is a beginning of the log it is named after.
LEMMA WholeInvHolds == ASSUME OneAgent PROVE Spec => []WholeInv
  <1>1. Init => FilesWhole
    BY DEF Init, FilesWhole
  <1>2. WholeInv /\ [Next]_vars => FilesWhole'
    BY FilesWholeStep
  <1>3. WholeInv <=> FileInv /\ FilesWhole
    BY DEF WholeInv
  <1> QED BY <1>1, <1>2, <1>3, FileInvHolds, PTL DEF Spec
-----------------------------------------------------------------------------
(* The lines and the records.                                                *)

\* A piece of a log starts and ends where its bounds say.
LEMMA PieceEnds ==
  ASSUME NEW x \in Text, NEW d, NEW lo, NEW hi, Piece(x, d, lo, hi)
  PROVE  /\ x # <<>> /\ x[1] = <<d, lo + 1>> /\ Start(x) = lo /\ x[Len(x)] = <<d, hi>>
         /\ lo \in Nat /\ hi \in Nat /\ lo % 2 = 0 /\ hi % 2 = 0 /\ lo < hi
         /\ Len(x) = hi - lo /\ hi - lo \in Nat
  <1>1. /\ lo \in Nat /\ hi \in Nat /\ Len(x) = hi - lo /\ lo < hi
        /\ lo % 2 = 0 /\ hi % 2 = 0
    BY DEF Piece
  <1>2. hi - lo \in Nat /\ 1 \in 1 .. Len(x) /\ Len(x) \in 1 .. Len(x) /\ lo + (hi - lo) = hi
    BY <1>1
  <1>3. x[1] = <<d, lo + 1>> /\ x[Len(x)] = <<d, hi>>
    BY <1>1, <1>2 DEF Piece
  <1>4. Start(x) = lo
    BY <1>1, <1>3 DEF Start
  <1>5. x # <<>>
    BY <1>1 DEF Text
  <1> QED BY <1>1, <1>2, <1>3, <1>4, <1>5

\* Two pieces of a log that meet make one.
LEMMA PieceJoined ==
  ASSUME NEW x \in Text, NEW y \in Text, NEW d, NEW lo, NEW m, NEW hi,
         Piece(x, d, lo, m), Piece(y, d, m, hi)
  PROVE  Piece(x \o y, d, lo, hi)
  <1>1. /\ lo \in Nat /\ m \in Nat /\ hi \in Nat /\ lo % 2 = 0 /\ hi % 2 = 0 /\ lo < m /\ m < hi
        /\ Len(x) = m - lo /\ Len(y) = hi - m
    BY PieceEnds
  <1>2. /\ Len(x \o y) = Len(x) + Len(y)
        /\ \A i \in 1 .. Len(x) + Len(y) :
              (x \o y)[i] = IF i <= Len(x) THEN x[i] ELSE y[i - Len(x)]
    BY DEF Text
  <1>3. ASSUME NEW i \in 1 .. Len(x \o y) PROVE (x \o y)[i] = <<d, lo + i>>
    <2>1. CASE i <= Len(x)
      <3>1. i \in 1 .. Len(x) /\ (x \o y)[i] = x[i]
        BY <1>1, <1>2, <1>3, <2>1
      <3> QED BY <3>1 DEF Piece
    <2>2. CASE i > Len(x)
      <3>0. i \in Nat /\ i <= (m - lo) + (hi - m) /\ i > m - lo
        BY <1>1, <1>2, <1>3, <2>2
      <3>1. i - Len(x) \in 1 .. Len(y) /\ m + (i - Len(x)) = lo + i
        <4>1. i - (m - lo) \in 1 .. (hi - m) /\ m + (i - (m - lo)) = lo + i
          BY <1>1, <3>0
        <4> QED BY <1>1, <4>1
      <3>2. y[i - Len(x)] = <<d, m + (i - Len(x))>>
        BY <3>1 DEF Piece
      <3> QED BY <1>1, <1>2, <1>3, <2>2, <3>1, <3>2, SMTT(60)
    <2> QED BY <1>1, <1>2, <1>3, <2>1, <2>2, SMTT(60)
  <1>4. Len(x \o y) = hi - lo /\ lo < hi
    BY <1>1, <1>2
  <1> QED BY <1>1, <1>3, <1>4 DEF Piece

\* A log has two units for every line.
LEMMA Lines ==
  /\ Len(LineKind) \in Nat /\ NUnits = 2 * Len(LineKind) /\ NUnits \in Nat
  /\ \A l \in 1 .. Len(LineKind) : LineKind[l] \in {"hdr", "head", "cont", "syntax"}
  BY ConstantsAssumption DEF NUnits

\* A line carries the marker when it is the head of a record.
LEMMA MarkerIsHead ==
  ASSUME NEW x \in Text, NEW d, NEW off \in Nat, Piece(x, d, off - 2, off)
  PROVE  HasMarker(x) <=> IsHead(off \div 2)
  <1>1. Len(x) = 2 /\ off - 2 \in Nat /\ off >= 2 /\ off % 2 = 0
    BY DEF Piece
  <1>2. x[1] = <<d, off - 1>> /\ x[2] = <<d, off>> /\ DOMAIN x = {1, 2}
    BY <1>1 DEF Piece, Text
  <1>3. (off - 1) % 2 = 1 /\ ((off - 1) + 1) \div 2 = off \div 2 /\ off - 1 # 0 /\ off % 2 # 1
    BY <1>1
  <1>4. StartsRecord(x[1]) <=> IsHead(off \div 2)
    BY <1>2, <1>3 DEF StartsRecord, IsHead, Hole
  <1>5. ~StartsRecord(x[2])
    BY <1>2, <1>3 DEF StartsRecord
  <1> QED BY <1>2, <1>4, <1>5 DEF HasMarker

\* fgets returns the next line of the log, and the whole of it.
LEMMA LineRead ==
  ASSUME NEW text \in Text, NEW d, \A i \in DOMAIN text : text[i] = <<d, i>>,
         NEW off \in Nat, off % 2 = 0, NEW n \in 1 .. Len(text), NEW h \in 0 .. Len(text),
         LineEnds(text, off, n), SeenTo(text, off, n, h)
  PROVE  /\ h = off + 2 /\ h <= NUnits
         /\ Piece(SubSeq(text, off + 1, h), d, off, off + 2)
  <1>1. DOMAIN text = 1 .. Len(text) /\ Len(text) \in Nat /\ text \in Seq(Unit \cup {Hole})
    BY DEF Text
  <1>2. \A i \in 1 .. Len(text) : /\ text[i][2] = i
                                  /\ IsNewline(text[i]) <=> i % 2 = 0
                                  /\ text[i] # Hole
    BY <1>1 DEF IsNewline, Hole
  <1>3. n = off + 2
    <2>0. n \in off + 1 .. Len(text) /\ IsNewline(text[n])
      BY DEF LineEnds
    <2>1. n \in off + 1 .. Len(text) /\ n % 2 = 0 /\ n # off + 1
      <3>1. n \in 1 .. Len(text) /\ n % 2 = 0
        BY <1>2, <2>0
      <3>2. (off + 1) % 2 = 1
        OBVIOUS
      <3>3. n # off + 1
        BY <3>1, <3>2
      <3> QED BY <2>0, <3>1, <3>3
    <2>2. ASSUME n > off + 2 PROVE FALSE
      <3>1. (off + 2) % 2 = 0
        OBVIOUS
      <3>2. n \in Nat /\ off + 2 \in off + 1 .. n - 1
        BY <2>1, <2>2
      <3>3. off + 2 \in 1 .. Len(text)
        BY <1>1, <2>1, <2>2, SMTT(60)
      <3> QED BY <1>2, <3>1, <3>2, <3>3 DEF LineEnds
    <2> QED BY <1>1, <2>1, <2>2
  <1>4. h = n
    <2>1. h \in off .. n /\ (h < n => text[h + 1] = Hole)
      BY DEF SeenTo
    <2>2. h < n => h + 1 \in 1 .. Len(text)
      BY <1>1, <2>1
    <2> QED BY <1>1, <1>2, <2>1, <2>2
  <1>5. h <= NUnits
    <2>1. text[h] \in Unit \cup {Hole} /\ text[h] # Hole /\ text[h][2] = h
      BY <1>1, <1>2, <1>4
    <2> QED BY <2>1, Lines DEF Unit
  <1>6. Piece(SubSeq(text, off + 1, h), d, off, off + 2)
    <2>1. /\ Len(SubSeq(text, off + 1, h)) = 2
          /\ \A i \in 1 .. 2 : SubSeq(text, off + 1, h)[i] = text[off + i]
      <3>1. /\ off + 1 \in Int /\ h \in Int /\ off + 1 <= h
            /\ \A i \in off + 1 .. h : text[i] \in Unit \cup {Hole}
        <4>1. h <= Len(text) /\ \A i \in off + 1 .. h : i \in 1 .. Len(text)
          BY <1>1, <1>3, <1>4
        <4> QED BY <1>1, <1>3, <1>4, <4>1
      <3>2. h - (off + 1) + 1 = 2 /\ \A i \in 1 .. 2 : (off + 1) + i - 1 = off + i
        BY <1>3, <1>4
      <3>3. /\ Len(SubSeq(text, off + 1, h)) = h - (off + 1) + 1
            /\ \A i \in 1 .. h - (off + 1) + 1 :
                 SubSeq(text, off + 1, h)[i] = text[(off + 1) + i - 1]
        BY <3>1, SubSeqProperties
      <3> QED BY <3>2, <3>3
    <2>2. \A i \in 1 .. 2 : text[off + i] = <<d, off + i>>
      BY <1>1, <1>3
    <2>3. off + 2 \in Nat /\ (off + 2) % 2 = 0 /\ off < off + 2 /\ (off + 2) - off = 2
      OBVIOUS
    <2> QED BY <2>1, <2>2, <2>3 DEF Piece
  <1> QED BY <1>3, <1>4, <1>5, <1>6

\* A thread's step over its log keeps the lines it assembles.
LEMMA AssemblesStep ==
  ASSUME OneAgent, WholeInv, NEW c \in Conn, Assembles(enq[c]), EnqNext(c)
  PROVE  Assembles(enq'[c])
  <1> DEFINE e == enq[c]
             f == enq'[c]
  <1>0. TypeInv /\ TypeInv'
    <2>1. TypeInv
      BY DEF WholeInv, FileInv, AgentInv, SlotsInv
    <2>2. Next
      BY DEF Next
    <2> QED BY <2>1, <2>2, TypeInvStep
  <1>1. /\ e.pc \in EnqPc /\ e.off \in Nat /\ e.line \in Nat /\ e.cur \in Text /\ e.buf \in Text
        /\ f.off \in Nat /\ f.line \in Nat /\ f.cur \in Text /\ f.buf \in Text
        /\ HEADER_LINES \in Nat
    <2>1. e \in EnqState /\ f \in EnqState
      BY <1>0, EnqFacts DEF TypeInv, TypeOK
    <2> QED BY <2>1, ConstantsAssumption, SMTT(60) DEF EnqState
  <1>2. /\ e.pc \in {"none", "sleep", "fopen", "retry"} => e.cur = <<>> /\ e.off = 0
        /\ e.off % 2 = 0 /\ e.off <= NUnits
        /\ e.pc \in {"room", "put"} => Piece(e.buf, e.name, e.off - 2, e.off)
        /\ e.pc = "put" => e.cur # <<>> /\ IsHead(e.off \div 2)
        /\ e.cur # <<>> => /\ e.line > HEADER_LINES
                           /\ Piece(e.cur, e.name, Start(e.cur), Assembled(e))
                           /\ OneHead(Start(e.cur), Assembled(e))
    BY DEF Assembles
  <1>3. CountLine(e.line) \in Nat /\ (e.line > HEADER_LINES => CountLine(e.line) > HEADER_LINES)
    BY <1>1 DEF CountLine
  <1> SUFFICES Assembles(f)
    OBVIOUS
  <1> HIDE DEF e, f
  \* Nothing is assembled, nothing changes, or what changes does not matter.
  <1>4. ASSUME f.off = e.off, f.cur = e.cur, f.buf = e.buf, f.pc \notin {"room", "put"},
               e.pc \notin {"room", "put"},
               f.name = e.name \/ e.cur = <<>>, f.line \in {e.line, CountLine(e.line)},
               f.pc \in {"none", "sleep", "fopen", "retry"} => e.pc \in {"none", "sleep", "fopen", "retry"}
        PROVE  Assembles(f)
    <2>1. Assembled(f) = f.off /\ Assembled(e) = e.off
      BY <1>4 DEF Assembled
    <2>2. f.cur # <<>> => f.line > HEADER_LINES
      BY <1>2, <1>3, <1>4
    <2> QED BY <1>2, <1>4, <2>1, <2>2 DEF Assembles
  <1>5. CASE DoesName(c)
    BY <1>2, <1>4, <1>5 DEF DoesName, EnqMoved, PlaceKept, RecordKept, e, f
  <1>6. CASE DoesFopen(c)
    BY <1>4, <1>6 DEF DoesFopen, EnqMoved, PlaceKept, RecordKept, e, f
  <1>7. CASE DoesRemove(c) \/ DoesTurn(c)
    BY <1>4, <1>7 DEF DoesRemove, DoesTurn, EnqMoved, PlaceKept, RecordKept, LogKept, e, f
  <1>8. CASE DoesGetLine(c)
    <2>1. e.pc = "read" /\ e.ino \in Conn
      BY <1>0, <1>8, EnqFacts DEF DoesGetLine, EnqMoved, Reading, e
    <2>2. /\ data[e.ino] \in Text
          /\ \A i \in DOMAIN data[e.ino] : data[e.ino][i] = <<e.name, i>>
      <3>1. conn[e.ino].name = e.name
        BY <2>1 DEF WholeInv, FileInv, FilesNamed, e
      <3> QED BY <1>0, <2>1, <3>1 DEF TypeInv, TypeOK, WholeInv, FilesWhole
    <2> DEFINE text == data[e.ino]
    <2>3. /\ \E n \in 1 .. Len(text), h \in 0 .. Len(text) :
               /\ LineEnds(text, e.off, n) /\ SeenTo(text, e.off, n, h)
               /\ f.off = h /\ f.buf = SubSeq(text, e.off + 1, h)
               /\ f.pc = IF h = e.off THEN "reopen" ELSE "room"
          /\ f.line = CountLine(e.line) /\ f.cur = e.cur /\ f.name = e.name
      BY <1>8 DEF DoesGetLine, LogKept, EnqMoved, e, f
    <2> HIDE DEF text
    <2>4. text \in Text /\ \A i \in DOMAIN text : text[i] = <<e.name, i>>
      BY <2>2 DEF text
    <2>5. PICK n \in 1 .. Len(text), h \in 0 .. Len(text) :
               /\ LineEnds(text, e.off, n) /\ SeenTo(text, e.off, n, h)
               /\ f.off = h /\ f.buf = SubSeq(text, e.off + 1, h)
               /\ f.pc = IF h = e.off THEN "reopen" ELSE "room"
      BY <2>3
    <2>6. /\ h = e.off + 2 /\ h <= NUnits
          /\ Piece(SubSeq(text, e.off + 1, h), e.name, e.off, e.off + 2)
      BY <1>1, <1>2, <2>4, <2>5, LineRead, SMTT(60)
    <2>7. /\ f.pc = "room" /\ f.off = e.off + 2 /\ f.off - 2 = e.off /\ f.off <= NUnits
          /\ f.off % 2 = 0 /\ Piece(f.buf, f.name, e.off, f.off)
      BY <1>1, <1>2, <2>3, <2>5, <2>6, SMTT(60)
    <2>8. Assembled(f) = Assembled(e) /\ (f.cur # <<>> => f.line > HEADER_LINES)
      BY <1>2, <1>3, <2>1, <2>3, <2>7 DEF Assembled
    <2> QED BY <1>2, <2>3, <2>7, <2>8 DEF Assembles
  <1>9. CASE DoesSkip(c)
    <2>1. f.pc = "read" /\ f.off = e.off /\ f.cur = e.cur /\ e.line <= HEADER_LINES
      BY <1>9 DEF DoesSkip, EnqMoved, PlaceKept, e, f
    <2>2. e.cur = <<>>
      BY <1>1, <1>2, <2>1
    <2> QED BY <1>2, <2>1, <2>2 DEF Assembles
  <1>10. CASE DoesJoin(c)
    <2>1. /\ e.pc = "room" /\ f.pc = "read" /\ f.off = e.off /\ f.line = e.line /\ f.name = e.name
          /\ f.cur = e.cur \o e.buf /\ e.line > HEADER_LINES
          /\ ~HasMarker(e.buf) \/ e.cur = <<>>
      BY <1>10 DEF DoesJoin, EnqMoved, PlaceKept, LogKept, e, f
    <2>2. Piece(e.buf, e.name, e.off - 2, e.off) /\ Assembled(f) = e.off /\ Assembled(e) = e.off - 2
      BY <1>2, <2>1 DEF Assembled
    <2>3. /\ f.cur # <<>> /\ Piece(f.cur, f.name, Start(f.cur), e.off)
          /\ OneHead(Start(f.cur), e.off)
      <3>0. e.off - 2 \in Nat /\ (e.off - 2) % 2 = 0
        BY <2>2 DEF Piece
      <3>1. CASE e.cur = <<>>
        <4>1. f.cur = e.buf
          BY <1>1, <2>1, <3>1 DEF Text
        <4>2. e.buf # <<>> /\ Start(e.buf) = e.off - 2
          BY <1>1, <2>2, PieceEnds
        <4>3. OneHead(e.off - 2, e.off)
          <5>1. ((e.off - 2) \div 2) + 1 = e.off \div 2 /\ e.off \div 2 \in Nat
            BY <1>1, <1>2, <3>0
          <5> QED BY <5>1, Lines DEF OneHead
        <4> QED BY <2>1, <2>2, <4>1, <4>2, <4>3
      <3>2. CASE e.cur # <<>>
        <4> DEFINE lo == Start(e.cur)
        <4>1. ~HasMarker(e.buf) /\ Piece(e.cur, e.name, lo, e.off - 2) /\ OneHead(lo, e.off - 2)
          BY <1>2, <2>1, <2>2, <3>2
        <4>2. Piece(f.cur, e.name, lo, e.off)
          BY <1>1, <2>1, <2>2, <4>1, PieceJoined
        <4>3. f.cur # <<>> /\ Start(f.cur) = lo
          BY <1>1, <4>2, PieceEnds
        <4>4. ~IsHead(e.off \div 2)
          BY <1>1, <2>2, <4>1, MarkerIsHead
        <4> HIDE DEF lo
        <4>5. OneHead(lo, e.off)
          <5>1. e.off \div 2 \in Nat /\ (e.off - 2) \div 2 = (e.off \div 2) - 1
            BY <1>1, <1>2, <3>0, SMTT(60)
          <5>2. lo \in Nat /\ lo \div 2 \in Nat
            BY <4>1 DEF Piece
          <5>3. ASSUME NEW l \in 1 .. Len(LineKind), (lo \div 2) + 1 < l, l <= e.off \div 2
                PROVE  ~IsHead(l)
            <6>1. CASE l = e.off \div 2
              BY <4>4, <6>1
            <6>2. CASE l # e.off \div 2
              <7>1. l <= (e.off - 2) \div 2
                BY <5>1, <5>3, <6>2, Lines
              <7> QED BY <4>1, <5>3, <7>1 DEF OneHead
            <6> QED BY <6>1, <6>2
          <5> QED BY <5>3 DEF OneHead
        <4> QED BY <2>1, <4>2, <4>3, <4>5
      <3> QED BY <3>1, <3>2
    <2> QED BY <1>2, <2>1, <2>2, <2>3 DEF Assembles
  <1>11. CASE DoesHold(c)
    <2>1. /\ e.pc = "room" /\ f.pc = "put" /\ f.off = e.off /\ f.line = e.line /\ f.name = e.name
          /\ f.cur = e.cur /\ f.buf = e.buf /\ HasMarker(e.buf) /\ e.cur # <<>>
      BY <1>11 DEF DoesHold, EnqMoved, PlaceKept, LogKept, RecordKept, e, f
    <2>2. Piece(e.buf, e.name, e.off - 2, e.off) /\ Assembled(f) = Assembled(e)
      BY <1>2, <2>1 DEF Assembled
    <2>3. IsHead(e.off \div 2)
      BY <1>1, <2>1, <2>2, MarkerIsHead
    <2> QED BY <1>2, <2>1, <2>2, <2>3 DEF Assembles
  <1>12. CASE DoesPut(c)
    <2>1. /\ e.pc = "put" /\ f.pc = "count" /\ f.off = e.off /\ f.line = e.line /\ f.name = e.name
          /\ f.cur = e.buf
      BY <1>12 DEF DoesPut, EnqMoved, PlaceKept, LogKept, e, f
    <2>2. Piece(e.buf, e.name, e.off - 2, e.off) /\ Assembled(f) = e.off /\ e.line > HEADER_LINES
      BY <1>2, <2>1 DEF Assembled
    <2>3. e.buf # <<>> /\ Start(e.buf) = e.off - 2
      BY <1>1, <2>2, PieceEnds
    <2>4. OneHead(e.off - 2, e.off)
      <3>0. e.off - 2 \in Nat
        BY <2>2 DEF Piece
      <3>1. ((e.off - 2) \div 2) + 1 = e.off \div 2 /\ e.off \div 2 \in Nat
        BY <1>1, <1>2, <3>0, SMTT(60)
      <3> QED BY <3>1, Lines DEF OneHead
    <2> QED BY <1>2, <2>1, <2>2, <2>3, <2>4 DEF Assembles
  <1> QED BY <1>0, <1>5, <1>6, <1>7, <1>8, <1>9, <1>10, <1>11, <1>12, EnqDoes

LineInv == WholeInv /\ Assembling

\* What one thread assembles no step of another thread changes.
LEMMA AssemblingStep ==
  ASSUME OneAgent, LineInv, [Next]_vars
  PROVE  Assembling'
  <1>0. TypeInv /\ WholeInv /\ Assembling
    BY DEF LineInv, WholeInv, FileInv, AgentInv, SlotsInv
  <1>1. ASSUME NEW c \in Conn, TalkNext(c) \/ WrongCommand(c) PROVE Assembling'
    <2>1. enq' = enq
      BY <1>0, <1>1, TalkDoes DEF TalkFrame
    <2> QED BY <1>0, <2>1 DEF Assembling
  <1>2. ASSUME NEW c \in Conn, EnqNext(c) PROVE Assembling'
    <2>1. Assembles(enq'[c])
      BY <1>0, <1>2, AssemblesStep DEF Assembling
    <2>2. \A d \in Conn : d # c => enq'[d] = enq[d]
      BY <1>0, <1>2, EnqDoes DEF EnqOthers
    <2> QED BY <1>0, <2>1, <2>2 DEF Assembling
  <1>3. CASE DispNext
    BY <1>0, <1>3, DispFrame DEF Assembling
  <1>4. CASE Environment \/ MainNext \/ UNCHANGED vars
    <2> SUFFICES ASSUME NEW d \in Conn PROVE Assembles(enq'[d])
      BY DEF Assembling
    <2>1. Assembles(enq[d])
      BY <1>0 DEF Assembling
    <2>2. \/ enq'[d] = enq[d]
          \/ /\ enq[d].pc = "none" /\ enq'[d].pc = "sleep"
             /\ enq'[d].off = enq[d].off /\ enq'[d].cur = enq[d].cur
      BY <1>0, <1>4, OtherDoes DEF OtherFrame
    <2> QED BY <2>1, <2>2 DEF Assembles
  <1> QED BY <1>1, <1>2, <1>3, <1>4 DEF Next

\* With one agent every thread assembles whole lines of one log.
LEMMA LineInvHolds == ASSUME OneAgent PROVE Spec => []LineInv
  <1>1. Init => Assembling
    <2> SUFFICES ASSUME Init, NEW c \in Conn PROVE Assembles(enq[c])
      BY DEF Assembling
    <2>1. enq[c].pc = "none" /\ enq[c].off = 0 /\ enq[c].cur = <<>>
      BY DEF Init
    <2> QED BY <2>1, Lines DEF Assembles
  <1>2. LineInv /\ [Next]_vars => Assembling'
    BY AssemblingStep
  <1>3. LineInv <=> WholeInv /\ Assembling
    BY DEF LineInv
  <1> QED BY <1>1, <1>2, <1>3, WholeInvHolds, PTL DEF Spec

\* Seq facts of what is appended and what is taken.
LEMMA Appended ==
  ASSUME NEW S, NEW s \in Seq(S), NEW r \in S
  PROVE  /\ DOMAIN Append(s, r) = 1 .. Len(s) + 1 /\ DOMAIN s = 1 .. Len(s) /\ Len(s) \in Nat
         /\ \A i \in DOMAIN s : i # Len(s) + 1 /\ Append(s, r)[i] = s[i]
         /\ \A i \in DOMAIN Append(s, r) : i # Len(s) + 1 => i \in DOMAIN s /\ i < Len(s) + 1
         /\ Append(s, r)[Len(s) + 1] = r
  OBVIOUS

\* What is left of a queue when its first record is taken.
LEMMA Taken ==
  ASSUME NEW S, NEW s \in Seq(S), s # <<>>
  PROVE  /\ 1 \in DOMAIN s /\ Head(s) = s[1] /\ Head(s) \in S
         /\ \A i \in DOMAIN Tail(s) : /\ i + 1 \in DOMAIN s /\ Tail(s)[i] = s[i + 1]
                                      /\ 1 < i + 1 /\ i \in Nat
  OBVIOUS

\* The last unit of a text is a number, when there is one.
LEMMA LastUnit ==
  ASSUME NEW x \in Text, x # <<>>
  PROVE  x[Len(x)][2] \in Nat /\ x[1][2] \in Nat
  <1>1. Len(x) \in 1 .. Len(x) /\ 1 \in 1 .. Len(x) /\ \A i \in 1 .. Len(x) : x[i] \in Unit \cup {Hole}
    BY DEF Text
  <1>2. \A u \in Unit \cup {Hole} : u[2] \in Nat
    BY DEF Unit, Hole
  <1> QED BY <1>1, <1>2

\* A record that is completed is whole.
LEMMA CompleteIsWhole ==
  ASSUME NEW x \in Text, NEW d, NEW lo, NEW off \in Nat, Piece(x, d, lo, off - 2),
         OneHead(lo, off - 2), IsHead(off \div 2), off % 2 = 0, off <= NUnits
  PROVE  WholeRecord(x)
  <1>1. /\ x # <<>> /\ x[1] = <<d, lo + 1>> /\ x[Len(x)] = <<d, off - 2>>
        /\ lo \in Nat /\ off - 2 \in Nat /\ lo % 2 = 0 /\ (off - 2) % 2 = 0
    BY PieceEnds
  <1>2. x[1] # Hole /\ x[1][2] % 2 = 1 /\ x[Len(x)][2] % 2 = 0
    <2>1. (lo + 1) % 2 = 1 /\ lo + 1 # 0
      BY <1>1
    <2> QED BY <1>1, <2>1 DEF Hole
  <1>3. \A i \in 1 .. Len(x) : x[i] = <<x[1][1], x[1][2] + i - 1>>
    <2> SUFFICES ASSUME NEW i \in 1 .. Len(x) PROVE x[i] = <<x[1][1], x[1][2] + i - 1>>
      OBVIOUS
    <2>1. x[i] = <<d, lo + i>>
      BY DEF Piece
    <2>2. lo + 1 + i - 1 = lo + i
      BY <1>1
    <2> QED BY <1>1, <2>1, <2>2
  <1>4. LastLine(x) = (off - 2) \div 2 /\ FirstLine(x) = (lo \div 2) + 1
    <2>1. ((lo + 1) + 1) \div 2 = (lo \div 2) + 1
      BY <1>1
    <2> QED BY <1>1, <2>1 DEF LastLine, FirstLine
  <1>5. (off - 2) \div 2 < Len(LineKind) /\ ((off - 2) \div 2) + 1 = off \div 2
    BY <1>1, Lines
  <1>6. \A l \in FirstLine(x) + 1 .. LastLine(x) : ~IsHead(l)
    <2> SUFFICES ASSUME NEW l \in FirstLine(x) + 1 .. LastLine(x) PROVE ~IsHead(l)
      OBVIOUS
    <2>1. lo \div 2 \in Nat /\ (off - 2) \div 2 \in Nat
      BY <1>1
    <2>2. l \in 1 .. Len(LineKind) /\ (lo \div 2) + 1 < l /\ l <= (off - 2) \div 2
      BY <1>4, <1>5, <2>1, Lines
    <2> QED BY <2>2 DEF OneHead
  <1> QED BY <1>1, <1>2, <1>3, <1>4, <1>5, <1>6 DEF WholeRecord

\* A whole record that has the markers begins with its head.
LEMMA MarkedIsHeaded ==
  ASSUME NEW x \in Text, WholeRecord(x), ForRuleEngine(x)
  PROVE  IsHead(FirstLine(x))
  <1>1. PICK i \in 1 .. Len(x) : StartsRecord(x[i])
    BY DEF ForRuleEngine, HasMarker, Text
  <1> DEFINE p == x[1][2]
  <1>2. p \in Nat /\ Len(x) \in Nat /\ p % 2 = 1 /\ i \in Nat /\ i >= 1 /\ i <= Len(x)
    BY <1>1, LastUnit DEF WholeRecord, Text
  <1>3. x[i][2] = p + i - 1 /\ x[Len(x)][2] = p + Len(x) - 1
    <2>1. Len(x) \in 1 .. Len(x)
      BY <1>2
    <2> QED BY <2>1, <1>1 DEF WholeRecord
  <1> HIDE DEF p
  <1>4. (p + i - 1) % 2 = 1 /\ LineKind[((p + i - 1) + 1) \div 2] \in {"head", "syntax"}
    BY <1>1, <1>3 DEF StartsRecord
  <1>5. (p + Len(x) - 1) % 2 = 0
    BY <1>3 DEF WholeRecord
  <1> DEFINE l == ((p + i - 1) + 1) \div 2
  <1>6. IsHead(l)
    BY <1>4 DEF IsHead
  <1>7. FirstLine(x) = (p + 1) \div 2 /\ LastLine(x) = (p + Len(x) - 1) \div 2
    BY <1>3 DEF FirstLine, LastLine, p
  <1>8. l \in (p + 1) \div 2 .. (p + Len(x) - 1) \div 2
    BY <1>2, <1>4, <1>5
  <1>9. l \notin FirstLine(x) + 1 .. LastLine(x)
    BY <1>6 DEF WholeRecord
  <1>10. l = FirstLine(x)
    <2>1. (p + 1) \div 2 \in Nat /\ (p + Len(x) - 1) \div 2 \in Int
      BY <1>2
    <2> HIDE DEF l
    <2> QED BY <1>7, <1>8, <1>9, <2>1
  <1> QED BY <1>6, <1>10
-----------------------------------------------------------------------------
(* The records in the queue, in hand and checked.                            *)

\* What the steps of dispatch_func do.
DoesTake ==
  /\ disp.pc = "lock" /\ disp'.pc = "uncount"
  /\ g_sql_queue # <<>> /\ disp'.sql = Head(g_sql_queue) /\ g_sql_queue' = Tail(g_sql_queue)
  /\ UNCHANGED checked
\* The steps of the dispatch thread by what they do.
DoesJudge ==
  /\ disp.pc = "uncount"
  /\ \/ disp'.pc = "check" /\ disp'.sql = disp.sql /\ ForRuleEngine(disp.sql.rec)
     \/ disp'.pc = "poll"
  /\ UNCHANGED <<g_sql_queue, checked>>
DoesCheck ==
  /\ disp.pc = "check" /\ disp'.pc = "poll"
  /\ checked' = Append(checked, disp.sql) /\ UNCHANGED g_sql_queue
DoesPoll ==
  /\ disp'.pc \in {"poll", "lock"} \/ disp' = disp
  /\ UNCHANGED <<g_sql_queue, checked>>

\* A step of the dispatch thread moves one record towards the rule engine, or none.
LEMMA DispDoes ==
  ASSUME TypeInv, DispNext
  PROVE  DoesTake \/ DoesJudge \/ DoesCheck \/ DoesPoll
  <1>1. disp \in DispState
    BY DEF TypeInv, TypeOK
  <1>2. CASE DispPoll
    BY <1>1, <1>2 DEF DispPoll, DispState, DoesPoll
  <1>3. CASE DispPop
    BY <1>1, <1>3 DEF DispPop, DispState, DoesTake, DoesPoll
  <1>4. CASE DispUncount
    BY <1>1, <1>4 DEF DispUncount, DispState, DoesJudge, Finished
  <1>5. CASE DispCheck
    <2>1. /\ disp.pc = "check" /\ UNCHANGED g_sql_queue
          /\ \/ checked' = Append(checked, disp.sql) /\ disp' = [pc |-> "poll", sql |-> NoSql]
             \/ UNCHANGED <<checked, disp>>
      BY <1>5 DEF DispCheck, Finished
    <2> QED BY <2>1 DEF DoesCheck, DoesPoll
  <1> QED BY <1>2, <1>3, <1>4, <1>5 DEF DispNext

RecordInv == LineInv /\ RecordsGood /\ RecordsInOrder

\* A queued record stays before what its thread assembles.
LEMMA GoodStays ==
  ASSUME OneAgent, LineInv, [Next]_vars, NEW r \in Record, Good(r)
  PROVE  Good(r)'
  <1>0. TypeInv /\ WholeInv /\ Assembling
    BY DEF LineInv, WholeInv, FileInv, AgentInv, SlotsInv
  <1> DEFINE b == r.by
  <1>1. /\ b \in Conn /\ WholeRecord(r.rec) /\ r.rec[1][1] = enq[b].name /\ enq[b].cur # <<>>
        /\ r.rec[Len(r.rec)][2] < enq[b].cur[1][2]
        /\ r.rec \in Text /\ r.rec # <<>>
    BY DEF Good, GoodIn, WholeRecord, Record
  <1>2. r.rec[Len(r.rec)][2] \in Nat
    BY <1>1, LastUnit
  <1> HIDE DEF b
  <1>3. SUFFICES /\ enq'[b].name = enq[b].name /\ enq'[b].cur # <<>>
                 /\ r.rec[Len(r.rec)][2] < enq'[b].cur[1][2]
    BY <1>1 DEF Good, GoodIn, b
  <1>4. CASE enq'[b].name = enq[b].name /\ enq'[b].cur = enq[b].cur
    BY <1>1, <1>4
  <1>5. ASSUME EnqNext(b)
        PROVE  /\ enq'[b].name = enq[b].name /\ enq'[b].cur # <<>>
               /\ r.rec[Len(r.rec)][2] < enq'[b].cur[1][2]
    <2>0. Assembles(enq[b]) /\ enq[b].cur \in Text /\ enq[b].buf \in Text
      <3>1. enq[b] \in EnqState
        BY <1>0, <1>1, EnqFacts
      <3> QED BY <1>0, <1>1, <3>1 DEF Assembling, EnqState
    <2>1. ~DoesName(b)
      BY <1>1, <2>0 DEF DoesName, EnqMoved, Assembles
    <2>2. CASE DoesJoin(b)
      <3>1. enq'[b].cur = enq[b].cur \o enq[b].buf /\ enq'[b].name = enq[b].name
        BY <2>2 DEF DoesJoin, LogKept
      <3>2. \A x, y \in Text : x # <<>> => x \o y # <<>> /\ (x \o y)[1] = x[1]
        BY DEF Text
      <3>3. enq'[b].cur # <<>> /\ enq'[b].cur[1] = enq[b].cur[1]
        BY <1>1, <2>0, <3>1, <3>2
      <3> QED BY <1>1, <3>1, <3>3
    <2>3. CASE DoesPut(b)
      <3>1. enq[b].pc = "put" /\ enq'[b].cur = enq[b].buf /\ enq'[b].name = enq[b].name
        BY <2>3 DEF DoesPut, EnqMoved, LogKept
      <3> DEFINE e == enq[b]
      <3>2. /\ Piece(e.buf, e.name, e.off - 2, e.off)
            /\ Piece(e.cur, e.name, Start(e.cur), e.off - 2)
        BY <1>1, <2>0, <3>1 DEF Assembles, Assembled
      <3>3. /\ e.buf # <<>> /\ e.buf[1] = <<e.name, (e.off - 2) + 1>>
            /\ e.cur[1] = <<e.name, Start(e.cur) + 1>> /\ e.off - 2 \in Nat
            /\ Start(e.cur) \in Nat /\ Start(e.cur) < e.off - 2
        <4> HIDE DEF e
        <4> QED BY <2>0, <3>2, PieceEnds, ZenonT(60) DEF e
      <3>4. e.cur[1][2] = Start(e.cur) + 1 /\ e.buf[1][2] = (e.off - 2) + 1
        BY <3>3
      <3> HIDE DEF e
      <3>5. r.rec[Len(r.rec)][2] < e.buf[1][2]
        BY <1>1, <1>2, <3>3, <3>4 DEF e
      <3> QED BY <3>1, <3>3, <3>5 DEF e
    <2>4. CASE ~DoesJoin(b) /\ ~DoesPut(b)
      <3>1. enq'[b].name = enq[b].name /\ enq'[b].cur = enq[b].cur
        BY <1>0, <1>1, <1>5, <2>1, <2>4, EnqDoes
           DEF DoesFopen, DoesGetLine, DoesRemove, DoesSkip, DoesHold, DoesTurn, LogKept, RecordKept
      <3> QED BY <1>1, <3>1
    <2> QED BY <2>2, <2>3, <2>4
  <1>6. CASE \E c \in Conn : TalkNext(c) \/ WrongCommand(c)
    BY <1>0, <1>4, <1>6, TalkDoes DEF TalkFrame
  <1>7. CASE \E c \in Conn : EnqNext(c)
    <2>1. PICK c \in Conn : EnqNext(c)
      BY <1>7
    <2>2. CASE c = b
      BY <1>5, <2>1, <2>2
    <2>3. CASE c # b
      BY <1>0, <1>1, <1>4, <2>1, <2>3, EnqDoes DEF EnqOthers
    <2> QED BY <2>2, <2>3
  <1>8. CASE DispNext
    BY <1>4, <1>8, DispFrame
  <1>9. CASE Environment \/ MainNext \/ UNCHANGED vars
    BY <1>0, <1>1, <1>4, <1>9, OtherDoes DEF OtherFrame
  <1> QED BY <1>6, <1>7, <1>8, <1>9 DEF Next

\* The record that is queued is the one the thread has assembled.
LEMMA PutIsGood ==
  ASSUME OneAgent, LineInv, NEW c \in Conn, DoesPut(c),
         NEW r, r = [by |-> c, rec |-> enq[c].cur]
  PROVE  Good(r)' /\ r \in Record
  <1> DEFINE e == enq[c]
  <1>1. e \in EnqState /\ Assembles(e)
    BY EnqFacts DEF LineInv, WholeInv, FileInv, AgentInv, SlotsInv, Assembling
  <1>2. /\ e.pc = "put" /\ enq'[c].cur = e.buf /\ enq'[c].name = e.name
    BY DEF DoesPut, EnqMoved, LogKept
  <1>3. e.off \in Nat /\ e.cur \in Text /\ e.buf \in Text
    BY <1>1 DEF EnqState
  <1> HIDE DEF e
  <1>4. /\ e.cur # <<>> /\ IsHead(e.off \div 2) /\ e.off % 2 = 0 /\ e.off <= NUnits
        /\ Piece(e.buf, e.name, e.off - 2, e.off)
        /\ Piece(e.cur, e.name, Start(e.cur), e.off - 2) /\ OneHead(Start(e.cur), e.off - 2)
    BY <1>1, <1>2 DEF Assembles, Assembled
  <1>5. WholeRecord(e.cur)
    BY <1>3, <1>4, CompleteIsWhole
  <1>6. /\ e.buf # <<>> /\ e.buf[1] = <<e.name, (e.off - 2) + 1>> /\ e.off - 2 \in Nat
        /\ e.cur[1] = <<e.name, Start(e.cur) + 1>> /\ e.cur[Len(e.cur)] = <<e.name, e.off - 2>>
    <2>1. Piece(e.buf, e.name, e.off - 2, e.off) /\ e.buf \in Text
      BY <1>3, <1>4
    <2>2. e.buf # <<>> /\ e.buf[1] = <<e.name, (e.off - 2) + 1>> /\ e.off - 2 \in Nat
      BY <2>1, PieceEnds
    <2>3. Piece(e.cur, e.name, Start(e.cur), e.off - 2) /\ e.cur \in Text
      BY <1>3, <1>4
    <2>4. e.cur[1] = <<e.name, Start(e.cur) + 1>> /\ e.cur[Len(e.cur)] = <<e.name, e.off - 2>>
      BY <2>3, PieceEnds
    <2> QED BY <2>2, <2>4
  <1>7. e.cur[Len(e.cur)][2] < e.buf[1][2] /\ e.cur[1][1] = e.name
    BY <1>6
  <1>8. r \in Record /\ r.by = c /\ r.rec = e.cur
    BY <1>3 DEF Record, e
  <1>9. Good(r)'
    BY <1>2, <1>5, <1>6, <1>7, <1>8 DEF Good, GoodIn
  <1> QED BY <1>8, <1>9

\* A record in the queue, in hand or checked is a text of its thread.
LEMMA RecordTypes ==
  ASSUME TypeInv
  PROVE  /\ checked \in Seq(Record) /\ g_sql_queue \in Seq(Record)
         /\ \A i \in DOMAIN checked : checked[i] \in Record
         /\ \A i \in DOMAIN g_sql_queue : g_sql_queue[i] \in Record
         /\ InHand => disp.sql \in Record
  <1>1. checked \in Seq(Record) /\ g_sql_queue \in Seq(Record) /\ disp \in DispState
    BY DEF TypeInv, TypeOK
  <1>2. InHand => disp.sql \in Record
    BY <1>1 DEF TypeInv, Shape, InHand, DispState, Record
  <1> QED BY <1>1, <1>2

\* A record is good when it is queued, and stays so on its way.
LEMMA RecordsGoodStep ==
  ASSUME OneAgent, RecordInv, [Next]_vars
  PROVE  RecordsGood'
  <1> DEFINE Heads(r) == IsHead(FirstLine(r.rec))
  <1>0. TypeInv /\ LineInv /\ RecordsGood
    BY DEF RecordInv, LineInv, WholeInv, FileInv, AgentInv, SlotsInv
  <1>1. \A r \in Record : GoodIn(r, enq) => GoodIn(r, enq')
    <2> SUFFICES ASSUME NEW r \in Record, GoodIn(r, enq) PROVE GoodIn(r, enq')
      OBVIOUS
    <2> QED BY <1>0, GoodStays DEF Good
  <1>2. /\ checked \in Seq(Record) /\ g_sql_queue \in Seq(Record)
        /\ \A i \in DOMAIN checked : checked[i] \in Record
        /\ \A i \in DOMAIN g_sql_queue : g_sql_queue[i] \in Record
        /\ InHand => disp.sql \in Record
    BY <1>0, RecordTypes
  <1>3. /\ \A i \in DOMAIN checked : GoodIn(checked[i], enq) /\ Heads(checked[i])
        /\ \A i \in DOMAIN g_sql_queue : GoodIn(g_sql_queue[i], enq)
        /\ InHand => GoodIn(disp.sql, enq)
        /\ disp.pc = "check" => Heads(disp.sql)
    BY <1>0 DEF RecordsGood, Good
  <1>4. /\ \A i \in DOMAIN checked : GoodIn(checked[i], enq')
        /\ \A i \in DOMAIN g_sql_queue : GoodIn(g_sql_queue[i], enq')
        /\ InHand => GoodIn(disp.sql, enq')
    BY <1>1, <1>2, <1>3
  <1>5. SUFFICES /\ \A i \in DOMAIN checked' : GoodIn(checked'[i], enq') /\ Heads(checked'[i])
                 /\ \A i \in DOMAIN g_sql_queue' : GoodIn(g_sql_queue'[i], enq')
                 /\ disp'.pc \in {"uncount", "check"} => GoodIn(disp'.sql, enq')
                 /\ disp'.pc = "check" => Heads(disp'.sql)
    BY DEF RecordsGood, Good, InHand
  <1>6. CASE UNCHANGED <<checked, g_sql_queue, disp>>
    BY <1>3, <1>4, <1>6 DEF InHand
  <1> HIDE DEF Heads
  <1>7. ASSUME NEW c \in Conn, TalkNext(c) \/ WrongCommand(c)
        PROVE  UNCHANGED <<checked, g_sql_queue, disp>>
    BY <1>0, <1>7, TalkDoes DEF TalkFrame
  <1>8. CASE Environment \/ MainNext \/ UNCHANGED vars
    BY <1>0, <1>6, <1>8, OtherDoes DEF OtherFrame
  <1>9. ASSUME NEW c \in Conn, DoesPut(c), UNCHANGED <<checked, disp>>
        PROVE  /\ \A i \in DOMAIN checked' : GoodIn(checked'[i], enq') /\ Heads(checked'[i])
               /\ \A i \in DOMAIN g_sql_queue' : GoodIn(g_sql_queue'[i], enq')
               /\ disp'.pc \in {"uncount", "check"} => GoodIn(disp'.sql, enq')
               /\ disp'.pc = "check" => Heads(disp'.sql)
    <2>1. PICK r : r = [by |-> c, rec |-> enq[c].cur]
      OBVIOUS
    <2>2. GoodIn(r, enq') /\ r \in Record /\ g_sql_queue' = Append(g_sql_queue, r)
      <3>1. Good(r)' /\ r \in Record
        BY <1>0, <1>9, <2>1, PutIsGood
      <3> QED BY <1>9, <2>1, <3>1 DEF DoesPut, Good
    <2>3. \A i \in DOMAIN g_sql_queue' : GoodIn(g_sql_queue'[i], enq')
      <3> SUFFICES ASSUME NEW i \in DOMAIN Append(g_sql_queue, r)
                   PROVE  GoodIn(Append(g_sql_queue, r)[i], enq')
        BY <2>2
      <3> QED BY <1>2, <1>4, <2>2, Appended
    <2> QED BY <1>3, <1>4, <1>9, <2>3 DEF InHand
  <1>10. ASSUME NEW c \in Conn, EnqNext(c), ~DoesPut(c)
         PROVE  UNCHANGED <<checked, g_sql_queue, disp>>
    BY <1>0, <1>10, EnqDoes DEF DoesName, DoesFopen, DoesGetLine, DoesRemove, DoesSkip, DoesJoin,
                               DoesHold, DoesTurn
  <1>11. CASE DispNext
    <2>1. enq' = enq
      BY <1>11, DispFrame
    <2>2. CASE DoesTake
      <3>1. /\ checked' = checked /\ disp'.pc = "uncount" /\ g_sql_queue # <<>>
            /\ disp'.sql = g_sql_queue[1] /\ 1 \in DOMAIN g_sql_queue
            /\ g_sql_queue' = Tail(g_sql_queue)
        BY <1>2, <2>2, Taken DEF DoesTake
      <3>2. \A i \in DOMAIN Tail(g_sql_queue) : GoodIn(Tail(g_sql_queue)[i], enq')
        BY <1>2, <1>4, <3>1, Taken
      <3> QED BY <1>3, <1>4, <3>1, <3>2
    <2>3. CASE DoesJudge
      <3>1. /\ checked' = checked /\ g_sql_queue' = g_sql_queue /\ InHand
            /\ \/ disp'.pc = "check" /\ disp'.sql = disp.sql /\ ForRuleEngine(disp.sql.rec)
               \/ disp'.pc = "poll"
        BY <2>3 DEF DoesJudge, InHand
      <3>2. WholeRecord(disp.sql.rec) /\ disp.sql.rec \in Text
        BY <1>2, <1>3, <3>1 DEF GoodIn, Record
      <3>3. disp'.pc = "check" => Heads(disp.sql)
        BY <3>1, <3>2, MarkedIsHeaded DEF Heads
      <3> QED BY <1>3, <1>4, <3>1, <3>3
    <2>4. CASE DoesCheck
      <3>1. /\ g_sql_queue' = g_sql_queue /\ InHand /\ disp'.pc = "poll"
            /\ checked' = Append(checked, disp.sql) /\ Heads(disp.sql)
            /\ GoodIn(disp.sql, enq') /\ disp.sql \in Record
        BY <1>2, <1>3, <1>4, <2>4 DEF DoesCheck, InHand
      <3>2. \A i \in DOMAIN Append(checked, disp.sql) :
               GoodIn(Append(checked, disp.sql)[i], enq') /\ Heads(Append(checked, disp.sql)[i])
        BY <1>2, <1>3, <1>4, <3>1, Appended
      <3> QED BY <1>4, <3>1, <3>2
    <2>5. CASE DoesPoll
      <3>1. /\ checked' = checked /\ g_sql_queue' = g_sql_queue
            /\ disp'.pc \in {"poll", "lock"} \/ disp' = disp
        BY <2>5 DEF DoesPoll
      <3> QED BY <1>3, <1>4, <3>1 DEF InHand
    <2> QED BY <1>0, <1>11, <2>2, <2>3, <2>4, <2>5, DispDoes
  <1> QED
    <2>1. ASSUME NEW c \in Conn, EnqNext(c) PROVE UNCHANGED <<checked, disp>>
      BY <1>0, <2>1, EnqDoes
    <2> QED BY <1>6, <1>7, <1>8, <1>9, <1>10, <1>11, <2>1 DEF Next

\* A record is queued behind those of its thread, and is taken from the front.
LEMMA RecordsInOrderStep ==
  ASSUME OneAgent, RecordInv, [Next]_vars
  PROVE  RecordsInOrder'
  <1>0. TypeInv /\ LineInv /\ RecordsGood /\ RecordsInOrder
    BY DEF RecordInv, LineInv, WholeInv, FileInv, AgentInv, SlotsInv
  <1> DEFINE q == g_sql_queue
  <1>2. /\ checked \in Seq(Record) /\ q \in Seq(Record)
        /\ \A i \in DOMAIN checked : checked[i] \in Record
        /\ \A i \in DOMAIN q : q[i] \in Record
        /\ InHand => disp.sql \in Record
    BY <1>0, RecordTypes
  <1>3. /\ \A i, j \in DOMAIN checked : i < j => Before(checked[i], checked[j])
        /\ \A i, j \in DOMAIN q : i < j => Before(q[i], q[j])
        /\ \A i \in DOMAIN checked, j \in DOMAIN q : Before(checked[i], q[j])
        /\ InHand => /\ \A i \in DOMAIN checked : Before(checked[i], disp.sql)
                     /\ \A j \in DOMAIN q : Before(disp.sql, q[j])
    BY <1>0 DEF RecordsInOrder
  <1>4. SUFFICES
          /\ \A i, j \in DOMAIN checked' : i < j => Before(checked'[i], checked'[j])
          /\ \A i, j \in DOMAIN q' : i < j => Before(q'[i], q'[j])
          /\ \A i \in DOMAIN checked', j \in DOMAIN q' : Before(checked'[i], q'[j])
          /\ disp'.pc \in {"uncount", "check"}
               => /\ \A i \in DOMAIN checked' : Before(checked'[i], disp'.sql)
                  /\ \A j \in DOMAIN q' : Before(disp'.sql, q'[j])
    BY DEF RecordsInOrder, InHand
  <1>5. CASE checked' = checked /\ q' = q
             /\ (disp' = disp \/ disp'.pc \notin {"uncount", "check"}
                 \/ (InHand /\ disp'.sql = disp.sql))
    <2>1. disp'.pc \in {"uncount", "check"} => InHand /\ disp'.sql = disp.sql
      BY <1>5 DEF InHand
    <2> QED BY <1>3, <1>5, <2>1
  <1>6. ASSUME NEW c \in Conn, TalkNext(c) \/ WrongCommand(c)
        PROVE  UNCHANGED <<checked, q, disp>>
    BY <1>0, <1>6, TalkDoes DEF TalkFrame
  <1>7. CASE Environment \/ MainNext \/ UNCHANGED vars
    BY <1>0, <1>5, <1>7, OtherDoes DEF OtherFrame
  <1>8. ASSUME NEW c \in Conn, EnqNext(c), ~DoesPut(c)
        PROVE  UNCHANGED <<checked, q, disp>>
    BY <1>0, <1>8, EnqDoes DEF DoesName, DoesFopen, DoesGetLine, DoesRemove, DoesSkip, DoesJoin,
                               DoesHold, DoesTurn
  <1>9. ASSUME NEW c \in Conn, EnqNext(c), DoesPut(c)
        PROVE  /\ \A i, j \in DOMAIN checked' : i < j => Before(checked'[i], checked'[j])
               /\ \A i, j \in DOMAIN q' : i < j => Before(q'[i], q'[j])
               /\ \A i \in DOMAIN checked', j \in DOMAIN q' : Before(checked'[i], q'[j])
               /\ disp'.pc \in {"uncount", "check"}
                    => /\ \A i \in DOMAIN checked' : Before(checked'[i], disp'.sql)
                       /\ \A j \in DOMAIN q' : Before(disp'.sql, q'[j])
    <2>1. PICK r : r = [by |-> c, rec |-> enq[c].cur]
      OBVIOUS
    <2>2. r \in Record /\ q' = Append(q, r) /\ UNCHANGED <<checked, disp>>
      BY <1>0, <1>9, <2>1, PutIsGood, EnqDoes DEF DoesPut
    <2>3. \A s : GoodIn(s, enq) => Before(s, r)
      BY <2>1 DEF GoodIn, Before
    <2>4. /\ \A i \in DOMAIN checked : Before(checked[i], r)
          /\ \A i \in DOMAIN q : Before(q[i], r)
          /\ InHand => Before(disp.sql, r)
      BY <1>0, <2>3 DEF RecordsGood, Good
    <2> HIDE DEF q
    <2>5. /\ DOMAIN q' = 1 .. Len(q) + 1 /\ DOMAIN q = 1 .. Len(q) /\ Len(q) \in Nat
          /\ \A i \in DOMAIN q : i # Len(q) + 1 /\ q'[i] = q[i]
          /\ \A i \in DOMAIN q' : i # Len(q) + 1 => i \in DOMAIN q /\ i < Len(q) + 1
          /\ q'[Len(q) + 1] = r
      BY <1>2, <2>2, Appended
    <2>6. \A i, j \in DOMAIN q' : i < j => Before(q'[i], q'[j])
      <3> SUFFICES ASSUME NEW i \in DOMAIN q', NEW j \in DOMAIN q', i < j
                   PROVE  Before(q'[i], q'[j])
        OBVIOUS
      <3>1. i \in DOMAIN q
        BY <2>5
      <3>2. CASE j = Len(q) + 1
        BY <2>4, <2>5, <3>1, <3>2
      <3>3. CASE j # Len(q) + 1
        BY <1>3, <2>5, <3>1, <3>3
      <3> QED BY <3>2, <3>3
    <2>7. \A i \in DOMAIN checked, j \in DOMAIN q' : Before(checked[i], q'[j])
      <3> SUFFICES ASSUME NEW i \in DOMAIN checked, NEW j \in DOMAIN q'
                   PROVE  Before(checked[i], q'[j])
        OBVIOUS
      <3>1. CASE j = Len(q) + 1
        BY <2>4, <2>5, <3>1
      <3>2. CASE j # Len(q) + 1
        BY <1>3, <2>5, <3>2
      <3> QED BY <3>1, <3>2
    <2>8. ASSUME InHand
          PROVE  \A j \in DOMAIN q' : Before(disp.sql, q'[j])
      <3> SUFFICES ASSUME NEW j \in DOMAIN q' PROVE Before(disp.sql, q'[j])
        OBVIOUS
      <3>1. CASE j = Len(q) + 1
        BY <2>4, <2>5, <2>8, <3>1
      <3>2. CASE j # Len(q) + 1
        BY <1>3, <2>5, <2>8, <3>2
      <3> QED BY <3>1, <3>2
    <2> QED BY <1>3, <2>2, <2>6, <2>7, <2>8 DEF InHand
  <1>10. CASE DispNext
    <2>1. CASE DoesTake
      <3>1. /\ checked' = checked /\ disp'.pc = "uncount" /\ q # <<>>
            /\ disp'.sql = q[1] /\ 1 \in DOMAIN q /\ q' = Tail(q)
        BY <1>2, <2>1, Taken DEF DoesTake
      <3>2. \A i \in DOMAIN q' : i + 1 \in DOMAIN q /\ q'[i] = q[i + 1] /\ 1 < i + 1 /\ i \in Nat
        BY <1>2, <3>1, Taken
      <3> HIDE DEF q
      <3>3. \A i, j \in DOMAIN q' : i < j => Before(q'[i], q'[j])
        <4> SUFFICES ASSUME NEW i \in DOMAIN q', NEW j \in DOMAIN q', i < j
                     PROVE  Before(q'[i], q'[j])
          OBVIOUS
        <4>1. i + 1 < j + 1 /\ i + 1 \in DOMAIN q /\ j + 1 \in DOMAIN q
          BY <3>2
        <4>2. Before(q[i + 1], q[j + 1])
          BY <1>3, <4>1
        <4> QED BY <3>2, <4>2
      <3>4. \A i \in DOMAIN checked, j \in DOMAIN q' : Before(checked[i], q'[j])
        BY <1>3, <3>2
      <3>5. \A i \in DOMAIN checked : Before(checked[i], q[1])
        BY <1>3, <3>1
      <3>6. \A j \in DOMAIN q' : Before(q[1], q'[j])
        BY <1>3, <3>1, <3>2
      <3> QED BY <1>3, <3>1, <3>3, <3>4, <3>5, <3>6
    <2>2. CASE DoesJudge
      BY <1>5, <2>2 DEF DoesJudge, InHand
    <2>3. CASE DoesCheck
      <3>1. /\ q' = q /\ InHand /\ disp'.pc = "poll" /\ disp.sql \in Record
            /\ checked' = Append(checked, disp.sql)
        BY <1>2, <2>3 DEF DoesCheck, InHand
      <3> DEFINE k == Len(checked)
      <3>2. /\ DOMAIN checked' = 1 .. k + 1 /\ DOMAIN checked = 1 .. k /\ k \in Nat
            /\ \A i \in DOMAIN checked : i # k + 1 /\ checked'[i] = checked[i]
            /\ \A i \in DOMAIN checked' : i # k + 1 => i \in DOMAIN checked /\ i < k + 1
            /\ checked'[k + 1] = disp.sql
        BY <1>2, <3>1, Appended
      <3> HIDE DEF q, k
      <3>3. \A i, j \in DOMAIN checked' : i < j => Before(checked'[i], checked'[j])
        <4> SUFFICES ASSUME NEW i \in DOMAIN checked', NEW j \in DOMAIN checked', i < j
                     PROVE  Before(checked'[i], checked'[j])
          OBVIOUS
        <4>1. i \in DOMAIN checked
          BY <3>2
        <4>2. CASE j = k + 1
          BY <1>3, <3>1, <3>2, <4>1, <4>2
        <4>3. CASE j # k + 1
          BY <1>3, <3>2, <4>1, <4>3
        <4> QED BY <4>2, <4>3
      <3>4. \A i \in DOMAIN checked', j \in DOMAIN q : Before(checked'[i], q[j])
        <4> SUFFICES ASSUME NEW i \in DOMAIN checked', NEW j \in DOMAIN q
                     PROVE  Before(checked'[i], q[j])
          OBVIOUS
        <4>1. CASE i = k + 1
          BY <1>3, <3>1, <3>2, <4>1
        <4>2. CASE i # k + 1
          BY <1>3, <3>2, <4>2
        <4> QED BY <4>1, <4>2
      <3> QED BY <1>3, <3>1, <3>3, <3>4
    <2>4. CASE DoesPoll
      BY <1>5, <2>4 DEF DoesPoll
    <2> QED BY <1>0, <1>10, <2>1, <2>2, <2>3, <2>4, DispDoes
  <1> QED BY <1>5, <1>6, <1>7, <1>8, <1>9, <1>10 DEF Next

\* With one agent the records that are queued and checked are whole and in order.
LEMMA RecordInvHolds == ASSUME OneAgent PROVE Spec => []RecordInv
  <1>1. Init => RecordsGood /\ RecordsInOrder
    <2> SUFFICES ASSUME Init PROVE RecordsGood /\ RecordsInOrder
      OBVIOUS
    <2>1. checked = <<>> /\ g_sql_queue = <<>> /\ disp.pc = "poll"
      BY DEF Init
    <2> QED BY <2>1 DEF RecordsGood, RecordsInOrder, InHand
  <1>2. RecordInv /\ [Next]_vars => (RecordsGood /\ RecordsInOrder)'
    BY RecordsGoodStep, RecordsInOrderStep
  <1>3. RecordInv <=> LineInv /\ (RecordsGood /\ RecordsInOrder)
    BY DEF RecordInv
  <1> QED BY <1>1, <1>2, <1>3, LineInvHolds, PTL DEF Spec

(* Every record the rule engine is called with is one whole record of a log,    *)
(* header first (server.c:446-545), whatever the lengths of the log, the queue  *)
(* and the days, however often the agent reconnects and its log is truncated    *)
(* and downloaded again, as long as one agent is configured.                    *)
THEOREM RecordsWhole ==
  ASSUME OneAgent
  PROVE  Spec => []CheckedAreWhole
  <1>1. RecordInv => CheckedAreWhole
    <2> SUFFICES ASSUME RecordInv, NEW i \in 1 .. Len(checked)
                 PROVE  WholeRecord(checked[i].rec) /\ IsHead(FirstLine(checked[i].rec))
      BY DEF CheckedAreWhole
    <2>1. TypeInv
      BY DEF RecordInv, LineInv, WholeInv, FileInv, AgentInv, SlotsInv
    <2>2. i \in DOMAIN checked
      BY <2>1, RecordTypes
    <2> QED BY <2>2 DEF RecordInv, RecordsGood, Good, GoodIn
  <1> QED BY <1>1, RecordInvHolds, PTL

(* The records of one enqueue thread reach the rule engine in the order of the  *)
(* log and none of them twice (server.c:200, 466-479), under the same           *)
(* hypothesis: the offset a thread resumes from never lies in a file that was   *)
(* downloaded for another day.                                                  *)
THEOREM RecordsOrdered ==
  ASSUME OneAgent
  PROVE  Spec => []CheckedInOrder
  <1>1. RecordInv => CheckedInOrder
    <2> SUFFICES ASSUME RecordInv, NEW i \in 1 .. Len(checked), NEW j \in 1 .. Len(checked),
                        i < j, checked[i].by = checked[j].by
                 PROVE  /\ checked[i].rec[1][1] = checked[j].rec[1][1]
                        /\ LastLine(checked[i].rec) < FirstLine(checked[j].rec)
      BY DEF CheckedInOrder
    <2>1. TypeInv
      BY DEF RecordInv, LineInv, WholeInv, FileInv, AgentInv, SlotsInv
    <2>2. /\ i \in DOMAIN checked /\ j \in DOMAIN checked
          /\ checked[i] \in Record /\ checked[j] \in Record
      BY <2>1, RecordTypes
    <2> DEFINE x == checked[i].rec
               y == checked[j].rec
    <2>3. /\ WholeRecord(x) /\ x \in Text /\ WholeRecord(y) /\ y \in Text
          /\ x[1][1] = y[1][1] /\ x[Len(x)][2] < y[1][2]
      BY <2>2 DEF RecordInv, RecordsGood, RecordsInOrder, Before, Good, GoodIn, Record
    <2> HIDE DEF x, y
    <2>4. x[Len(x)][2] \in Nat /\ y[1][2] \in Nat /\ y[1][2] % 2 = 1
      BY <2>3, LastUnit DEF WholeRecord
    <2>5. \A m, n \in Nat : m < n /\ n % 2 = 1 => m \div 2 < (n + 1) \div 2
      OBVIOUS
    <2>6. LastLine(x) < FirstLine(y)
      BY <2>3, <2>4, <2>5 DEF LastLine, FirstLine
    <2> QED BY <2>3, <2>6 DEF x, y
  <1> QED BY <1>1, RecordInvHolds, PTL

-----------------------------------------------------------------------------
(* The servers with select, poll and epoll, with any number of clients and a   *)
(* table of any size.                                                          *)

Descriptor == Echo!Fd \cup {-1}

EchoType ==
  /\ api \in {"select", "poll", "epoll"}
  /\ backlog \in Seq(Client)
  /\ end \in [Client -> {"away", "idle", "waiting", "closed"}]
  /\ fd \in [Client -> Descriptor] /\ client \in [Echo!Slot -> Descriptor]
  /\ maxi \in 0 .. OPEN_MAX /\ maxfd \in Nat
  /\ nready \in Nat /\ place \in Nat \ {0}
  /\ pc \in {"wait", "accept", "scan", "exited"}

\* A client that has connected waits once to be accepted, or has a descriptor of its own.
Queued(c) == \E k \in 1 .. Len(backlog) : backlog[k] = c

Connected ==
  /\ \A k, m \in 1 .. Len(backlog) : backlog[k] = backlog[m] => k = m
  /\ \A c \in Client : Queued(c) => fd[c] = -1 /\ end[c] # "away"
  /\ \A c \in Client : fd[c] # -1 => end[c] # "away"
  /\ \A c, d \in Client : fd[c] = fd[d] /\ fd[c] # -1 => c = d

\* The slots the servers with select and poll have still to read from.
Left == {s \in place .. maxi : Echo!IsSet(s)}

\* What has been found and not been dealt with is still there, and is as much as
\* nready says; with poll it may be more, by a slot that poll has not looked at.
Waits ==
  /\ pc = "accept" =>
       /\ api # "epoll" /\ place = 1 /\ backlog # <<>>
       /\ api = "select" => ready \subseteq Echo!Readable
       /\ api = "poll" => \A s \in ready \cap (1 .. maxi) : client[s] # -1
       /\ nready >= 1 /\ nready - 1 <= Cardinality(Left)
  /\ pc = "scan" /\ api # "epoll" => nready >= 1 /\ nready <= Cardinality(Left)
  /\ pc = "scan" /\ api = "select" => \A s \in Left : client[s] \in Echo!Readable
  /\ pc = "scan" /\ api = "epoll" =>
       /\ ready \subseteq Echo!Readable
       /\ IsFiniteSet(ready)
       /\ nready >= 1 /\ nready <= Cardinality(ready)

EchoInv == EchoType /\ Connected /\ Echo!TableMatches /\ Waits

\* The instance has its own names for the operators of FiniteSets.
LEMMA EchoSets == \A S : (Echo!IsFiniteSet(S) <=> IsFiniteSet(S)) /\ Echo!Cardinality(S) = Cardinality(S)
  <1>1. ASSUME NEW S PROVE Echo!IsFiniteSet(S) <=> IsFiniteSet(S)
    BY Zenon DEF Echo!IsFiniteSet, IsFiniteSet
  <1>2. ASSUME NEW S PROVE Echo!Cardinality(S) = Cardinality(S)
    BY Zenon DEF Echo!Cardinality, Cardinality, Echo!IsFiniteSet, IsFiniteSet
  <1> QED BY <1>1, <1>2

LEMMA Within ==
  ASSUME NEW a \in Int, NEW b \in Int, NEW S, S \subseteq a .. b
  PROVE  IsFiniteSet(S) /\ Cardinality(S) \in Nat
  <1>1. IsFiniteSet(a .. b)
    BY FS_Interval
  <1>2. IsFiniteSet(S)
    BY <1>1, FS_Subset, Zenon
  <1> QED BY <1>2, FS_CardinalityType

LEMMA Numbers ==
  ASSUME Echo!MultiplexAssumption
  PROVE  /\ IsFiniteSet(Client) /\ Cardinality(Client) \in Nat /\ OPEN_MAX \in Nat
         /\ Echo!Fd = 1 .. Cardinality(Client) /\ Echo!Slot = 1 .. OPEN_MAX
         /\ 0 \notin Descriptor /\ -1 \notin Echo!Fd
  <1>1. IsFiniteSet(Client) /\ OPEN_MAX \in Nat
    BY EchoSets DEF Echo!MultiplexAssumption
  <1>2. Cardinality(Client) \in Nat
    BY <1>1, FS_CardinalityType
  <1>3. Echo!Fd = 1 .. Cardinality(Client) /\ Echo!Slot = 1 .. OPEN_MAX
    BY EchoSets, Zenon DEF Echo!Fd, Echo!Slot
  <1> QED BY <1>1, <1>2, <1>3 DEF Descriptor

\* A client that has something to say, or has gone.
Speaks(c) == c \in unread \/ end[c] = "closed"

LEMMA ReadableIs ==
  \A n : n \in Echo!Readable <=> \/ n = 0 /\ backlog # <<>>
                                 \/ \E c \in Client : fd[c] = n /\ fd[c] # -1 /\ Speaks(c)
  BY DEF Echo!Readable, Speaks

\* The slots left are finitely many slots of the table.
LEMMA LeftFinite ==
  ASSUME Echo!MultiplexAssumption, EchoType
  PROVE  /\ Left \subseteq Echo!Slot /\ IsFiniteSet(Left) /\ Cardinality(Left) \in Nat
         /\ \A s \in Left : client[s] \in Echo!Fd
  <1>1. place .. maxi \subseteq Echo!Slot
    <2>1. place \in Int /\ place >= 1 /\ maxi \in Int /\ maxi <= OPEN_MAX /\ OPEN_MAX \in Nat
      BY Numbers DEF EchoType
    <2> QED BY <2>1, Numbers
  <1>2. IsFiniteSet(Left) /\ Cardinality(Left) \in Nat
    <2>1. Left \subseteq place .. maxi /\ place \in Int /\ maxi \in Int
      BY DEF Left, EchoType
    <2> QED BY <2>1, Within
  <1>3. \A s \in Left : client[s] \in Echo!Fd
    BY <1>1 DEF Left, Echo!IsSet, EchoType, Descriptor
  <1> QED BY <1>1, <1>2, <1>3 DEF Left

\* The least of some slots or descriptors.
LEMMA EchoLeast ==
  ASSUME NEW S \in SUBSET Nat, S # {}
  PROVE  Echo!Least(S) \in S /\ \A m \in S : Echo!Least(S) <= m
  <1> DEFINE R == {ss \in Nat \X Nat : ss[1] < ss[2]}
  <1>1. IsWellFoundedOn(R, Nat)
    BY NatLessThanWellFounded DEF OpToRel
  <1>2. \E x \in S : \A y \in S : ~(<<y, x>> \in R)
    BY <1>1, WFMin
  <1>3. \A x, y \in Nat : y < x => <<y, x>> \in R
    OBVIOUS
  <1> HIDE DEF R
  <1>4. PICK x \in S : \A y \in S : ~(<<y, x>> \in R)
    BY <1>2
  <1>5. ASSUME NEW y \in S PROVE x <= y
    <2>1. ~(y < x)
      BY <1>3, <1>4
    <2> QED BY <2>1
  <1> QED BY <1>4, <1>5 DEF Echo!Least

LEMMA EchoStart == ASSUME Echo!MultiplexAssumption, Echo!Init PROVE EchoInv
  <1>1. EchoType
    BY Numbers DEF Echo!Init, EchoType, Descriptor
  <1>2. Connected
    BY DEF Echo!Init, Connected, Queued
  <1>3. Echo!TableMatches
    BY Numbers DEF Echo!Init, Echo!TableMatches
  <1>4. Waits
    BY DEF Echo!Init, Waits
  <1> QED BY <1>1, <1>2, <1>3, <1>4 DEF EchoInv

-----------------------------------------------------------------------------
\* What a client does adds to what can be read.
LEMMA ClientsEcho ==
  ASSUME Echo!MultiplexAssumption, EchoInv,
         NEW c \in Client, Echo!Connect(c) \/ Echo!SendLine(c) \/ Echo!Leave(c)
  PROVE  EchoInv'
  <1> USE DEF EchoInv
  <1>1. UNCHANGED <<api, fd, client, maxi, maxfd, allset, ready, nready, place, pc>>
    BY DEF Echo!Connect, Echo!SendLine, Echo!Leave, Echo!table, Echo!loop
  <1>2. EchoType'
    <2>1. backlog' \in Seq(Client)
      BY DEF EchoType, Echo!Connect, Echo!SendLine, Echo!Leave
    <2>2. end' \in [Client -> {"away", "idle", "waiting", "closed"}]
      BY DEF EchoType, Echo!Connect, Echo!SendLine, Echo!Leave
    <2> QED BY <1>1, <2>1, <2>2 DEF EchoType
  <1>3. \A d \in Client : Speaks(d) => Speaks(d)'
    BY DEF EchoType, Speaks, Echo!Connect, Echo!SendLine, Echo!Leave
  <1>4. backlog # <<>> => backlog' # <<>>
    BY DEF EchoType, Echo!Connect, Echo!SendLine, Echo!Leave
  <1>5. Echo!Readable \subseteq Echo!Readable'
    <2>1. \A n : n \in Echo!Readable' <=> \/ n = 0 /\ backlog' # <<>>
                                          \/ \E d \in Client : fd'[d] = n /\ fd'[d] # -1 /\ Speaks(d)'
      BY DEF Echo!Readable, Speaks
    <2> QED BY <1>1, <1>3, <1>4, <2>1, ReadableIs
  <1>6. Left' = Left
    BY <1>1 DEF Left, Echo!IsSet
  <1>7. Echo!TableMatches'
    BY <1>1 DEF Echo!TableMatches
  <1>8. Waits'
    BY <1>1, <1>4, <1>5, <1>6 DEF Waits
  <1>9. Connected'
    <2>1. CASE Echo!Connect(c)
      <3>1. ~Queued(c) /\ fd[c] = -1
        BY <2>1 DEF Echo!Connect, Connected
      <3>2. Len(backlog') = Len(backlog) + 1 /\ backlog'[Len(backlog) + 1] = c
            /\ \A k \in 1 .. Len(backlog) : backlog'[k] = backlog[k]
        BY <2>1 DEF Echo!Connect, EchoType
      <3>3. Len(backlog) \in Nat
        BY DEF EchoType
      <3>4. \A d \in Client : Queued(d)' => Queued(d) \/ d = c
        BY <3>2, <3>3 DEF Queued
      <3>5. \A k, m \in 1 .. Len(backlog') : backlog'[k] = backlog'[m] => k = m
        BY <3>1, <3>2, <3>3 DEF Connected, Queued
      <3>6. end' = [end EXCEPT ![c] = "idle"]
        BY <2>1 DEF Echo!Connect
      <3> QED BY <1>1, <3>1, <3>4, <3>5, <3>6 DEF Connected, EchoType
    <2>2. CASE Echo!SendLine(c) \/ Echo!Leave(c)
      <3>1. backlog' = backlog /\ \A d \in Client : end[d] # "away" => end'[d] # "away"
        BY <2>2 DEF Echo!SendLine, Echo!Leave, EchoType
      <3>2. \A d \in Client : Queued(d)' = Queued(d)
        BY <3>1 DEF Queued
      <3> QED BY <1>1, <3>1, <3>2 DEF Connected
    <2> QED BY <2>1, <2>2
  <1> QED BY <1>2, <1>7, <1>8, <1>9

-----------------------------------------------------------------------------
\* After select, poll or epoll_wait what has been found is waiting.
LEMMA SelectEcho == ASSUME Echo!MultiplexAssumption, EchoInv, Echo!Select PROVE EchoInv'
  <1> USE DEF EchoInv
  <1> DEFINE found == {f \in allset \cap Echo!Readable : f <= maxfd}
  <1>1. api = "select" /\ Echo!Returns(found) /\ ready' = found
        /\ pc' = IF 0 \in found THEN "accept" ELSE "scan"
    BY DEF Echo!Select
  <1>2. found \subseteq Echo!Readable
    OBVIOUS
  <1> HIDE DEF found
  <1>3. /\ pc = "wait" /\ found # {} /\ place' = 1
        /\ UNCHANGED <<api, backlog, end, unread, broken, fd, client, maxi, maxfd, allset>>
    BY <1>1 DEF Echo!Returns, Echo!ends, Echo!table
  <1>4. nready' = Cardinality(found)
    BY <1>1, EchoSets DEF Echo!Returns
  <1>5. \A f \in found \ {0} : \E s \in 1 .. maxi : client[s] = f /\ f # -1
    BY <1>2, ReadableIs DEF Echo!TableMatches
  <1>6. \A s \in 1 .. maxi : s \in Left' <=> client[s] # -1 /\ client[s] \in found
    BY <1>1, <1>3 DEF Left, Echo!IsSet
  <1>7. Left' \subseteq 1 .. maxi /\ maxi \in Nat /\ IsFiniteSet(Left') /\ Cardinality(Left') \in Nat
    <2>1. Left' \subseteq 1 .. maxi /\ maxi \in Nat
      BY <1>3, Numbers DEF Left, EchoType
    <2>2. maxi \in Int /\ 1 \in Int
      BY <2>1
    <2> QED BY <2>1, <2>2, Within
  <1> DEFINE look == [s \in Left' |-> client[s]]
  <1>8. /\ IsFiniteSet(found) /\ Cardinality(found) \in Nat /\ Cardinality(found) >= 1
        /\ Cardinality(found) <= Cardinality(Left') + IF 0 \in found THEN 1 ELSE 0
    <2>1. look \in Surjection(Left', found \ {0})
      <3>1. \A s \in Left' : client[s] \in found \ {0}
        BY <1>6, <1>7, Numbers DEF EchoType, Descriptor
      <3>2. \A f \in found \ {0} : \E s \in Left' : client[s] = f
        BY <1>5, <1>6
      <3> QED BY <3>1, <3>2 DEF Surjection
    <2> HIDE DEF look
    <2>2. IsFiniteSet(found \ {0}) /\ Cardinality(found \ {0}) <= Cardinality(Left')
      BY <2>1, <1>7, FS_Surjection
    <2>3. CASE 0 \in found
      <3>1. found = (found \ {0}) \cup {0}
        BY <2>3
      <3>2. IsFiniteSet(found) /\ Cardinality(found) = Cardinality(found \ {0}) + 1
        BY <2>2, <3>1, FS_AddElement
      <3> QED BY <1>7, <2>2, <2>3, <3>2, FS_CardinalityType
    <2>4. CASE 0 \notin found
      <3>1. found = found \ {0}
        BY <2>4
      <3>2. Cardinality(found) # 0 /\ Cardinality(found) \in Nat
        <4>1. IsFiniteSet(found) /\ found # {}
          BY <1>3, <2>2, <3>1
        <4> QED BY <4>1, FS_EmptySet, FS_CardinalityType
      <3>3. Cardinality(found) <= Cardinality(Left')
        BY <2>2, <3>1, Zenon
      <3> QED BY <1>7, <2>2, <2>4, <3>1, <3>2, <3>3
    <2> QED BY <2>3, <2>4
  <1>9. EchoType'
    BY <1>1, <1>3, <1>4, <1>8 DEF EchoType
  <1>10. Connected'
    BY <1>3 DEF Connected, Queued
  <1>11. Echo!TableMatches'
    BY <1>3 DEF Echo!TableMatches
  <1>12. Echo!Readable' = Echo!Readable
    BY <1>3 DEF Echo!Readable
  <1>13. \A s \in Left' : client'[s] \in Echo!Readable'
    BY <1>2, <1>3, <1>6, <1>7, <1>12
  <1>14. 0 \in found => backlog' # <<>>
    BY <1>2, <1>3, ReadableIs, Numbers DEF EchoType
  <1>15. Cardinality(Left') \in Nat
    BY <1>7, FS_CardinalityType
  <1>16. Waits'
    BY <1>1, <1>2, <1>3, <1>4, <1>8, <1>12, <1>13, <1>14, <1>15 DEF Waits
  <1> QED BY <1>9, <1>10, <1>11, <1>16

LEMMA PollEcho == ASSUME Echo!MultiplexAssumption, EchoInv, Echo!Poll PROVE EchoInv'
  <1> USE DEF EchoInv
  <1> DEFINE heard == {s \in 1 .. maxi : client[s] \in Echo!Readable}
             found == heard \cup (Echo!Readable \cap {0})
  <1>1. api = "poll" /\ Echo!Returns(found) /\ ready' = found \cup {s \in ready : s > maxi}
        /\ pc' = IF 0 \in found THEN "accept" ELSE "scan"
    BY DEF Echo!Poll
  <1>2. heard \subseteq 1 .. maxi /\ maxi \in Nat /\ \A s \in heard : client[s] \in Echo!Readable
    BY Numbers DEF EchoType
  <1>3. found = heard \/ (found = heard \cup {0} /\ backlog # <<>>)
    <2>1. 0 \in Echo!Readable => backlog # <<>>
      BY ReadableIs, Numbers DEF EchoType
    <2>2. CASE 0 \in Echo!Readable
      <3>1. Echo!Readable \cap {0} = {0}
        BY <2>2
      <3> QED BY <2>1, <2>2, <3>1, Zenon
    <2>3. CASE 0 \notin Echo!Readable
      <3>1. Echo!Readable \cap {0} = {}
        BY <2>3
      <3>2. heard \cup {} = heard
        OBVIOUS
      <3>3. found = heard \cup {}
        BY <3>1, Zenon
      <3> HIDE DEF found, heard
      <3> QED BY <3>2, <3>3
    <2> QED BY <2>2, <2>3
  <1>4. \A s \in 1 .. maxi : s \in found => s \in heard
    BY <1>3
  <1> HIDE DEF heard, found
  <1>5. /\ pc = "wait" /\ found # {} /\ place' = 1
        /\ UNCHANGED <<api, backlog, end, unread, broken, fd, client, maxi, maxfd, allset>>
    BY <1>1 DEF Echo!Returns, Echo!ends, Echo!table
  <1>6. nready' = Cardinality(found)
    BY <1>1, EchoSets DEF Echo!Returns
  <1>7. \A s \in heard : client[s] # -1
    <2>1. ASSUME NEW s \in heard PROVE client[s] # -1
      <3>1. client[s] = 0 \/ client[s] # -1
        BY <1>2, <2>1, ReadableIs
      <3> QED BY <3>1
    <2> QED BY <2>1
  <1>8. heard \subseteq Left'
    BY <1>1, <1>2, <1>3, <1>5, <1>7 DEF Left, Echo!IsSet
  <1>9. Left' \subseteq 1 .. maxi /\ IsFiniteSet(Left') /\ IsFiniteSet(heard)
    <2>1. Left' \subseteq 1 .. maxi
      BY <1>5, Numbers DEF Left, EchoType
    <2>2. heard \subseteq 1 .. maxi /\ maxi \in Int /\ 1 \in Int
      BY <1>2
    <2> QED BY <2>1, <2>2, Within
  <1>10. /\ Cardinality(found) \in Nat /\ Cardinality(found) >= 1
         /\ Cardinality(found) <= Cardinality(Left') + IF 0 \in found THEN 1 ELSE 0
    <2>1. Cardinality(heard) <= Cardinality(Left') /\ Cardinality(heard) \in Nat /\ Cardinality(Left') \in Nat
      BY <1>8, <1>9, FS_Subset, FS_CardinalityType
    <2>2. 0 \notin heard
      BY <1>2
    <2>3. CASE found = heard \cup {0}
      <3>1. Cardinality(found) = Cardinality(heard) + 1
        BY <1>9, <2>2, <2>3, FS_AddElement
      <3> QED BY <2>1, <2>3, <3>1
    <2>4. CASE found = heard
      <3>1. Cardinality(found) # 0
        BY <1>5, <1>9, <2>4, FS_EmptySet
      <3> QED BY <2>1, <2>2, <2>4, <3>1
    <2> QED BY <1>3, <2>3, <2>4
  <1>11. EchoType'
    BY <1>1, <1>5, <1>6, <1>10 DEF EchoType
  <1>12. Connected'
    BY <1>5 DEF Connected, Queued
  <1>13. Echo!TableMatches'
    BY <1>5 DEF Echo!TableMatches
  <1>14. \A s \in ready' \cap (1 .. maxi') : client'[s] # -1
    <2>1. ASSUME NEW s \in ready' \cap (1 .. maxi') PROVE client'[s] # -1
      <3>1. s \in found
        BY <1>1, <1>2, <1>5, <2>1
      <3> QED BY <1>4, <1>5, <1>7, <2>1, <3>1
    <2> QED BY <2>1
  <1>15. 0 \in found => backlog' # <<>>
    BY <1>2, <1>3, <1>5
  <1>16. Cardinality(Left') \in Nat
    BY <1>9, FS_CardinalityType
  <1>17. Waits'
    BY <1>1, <1>5, <1>6, <1>10, <1>14, <1>15, <1>16 DEF Waits
  <1> QED BY <1>11, <1>12, <1>13, <1>17

LEMMA EpollEcho == ASSUME Echo!MultiplexAssumption, EchoInv, Echo!EpollWait PROVE EchoInv'
  <1> USE DEF EchoInv
  <1> DEFINE found == allset \cap Echo!Readable
  <1>1. api = "epoll" /\ Echo!Returns(found) /\ ready' = found /\ pc' = "scan"
    BY DEF Echo!EpollWait
  <1>2. found \subseteq Echo!Readable
    OBVIOUS
  <1> HIDE DEF found
  <1>3. /\ pc = "wait" /\ found # {} /\ place' = 1
        /\ UNCHANGED <<api, backlog, end, unread, broken, fd, client, maxi, maxfd, allset>>
    BY <1>1 DEF Echo!Returns, Echo!ends, Echo!table
  <1>4. nready' = Cardinality(found)
    BY <1>1, EchoSets DEF Echo!Returns
  <1>5. IsFiniteSet(found)
    <2>1. found \subseteq 0 .. Cardinality(Client)
      <3>1. ASSUME NEW f \in found PROVE f \in 0 .. Cardinality(Client)
        <4>1. f = 0 \/ \E c \in Client : fd[c] = f /\ fd[c] # -1
          BY <1>2, ReadableIs
        <4>2. f = 0 \/ f \in Echo!Fd
          BY <4>1 DEF EchoType, Descriptor
        <4> QED BY <4>2, Numbers
      <3> QED BY <3>1
    <2>2. 0 \in Int /\ Cardinality(Client) \in Int
      BY Numbers
    <2> QED BY <2>1, <2>2, Within
  <1>6. Cardinality(found) \in Nat /\ Cardinality(found) >= 1
    BY <1>3, <1>5, FS_EmptySet, FS_CardinalityType
  <1>7. EchoType'
    BY <1>1, <1>3, <1>4, <1>6 DEF EchoType
  <1>8. Connected'
    BY <1>3 DEF Connected, Queued
  <1>9. Echo!TableMatches'
    BY <1>3 DEF Echo!TableMatches
  <1>10. Echo!Readable' = Echo!Readable
    BY <1>3 DEF Echo!Readable
  <1>11. Waits'
    BY <1>1, <1>2, <1>3, <1>4, <1>5, <1>6, <1>10 DEF Waits
  <1> QED BY <1>7, <1>8, <1>9, <1>11

-----------------------------------------------------------------------------
\* A descriptor is free for the client that is accepted: it has none yet.
LEMMA FreshFd ==
  ASSUME Echo!MultiplexAssumption, EchoType, Connected, NEW h \in Client, fd[h] = -1
  PROVE  LET f == Echo!Least(Echo!Fd \ {fd[c] : c \in Client})
         IN  f \in Echo!Fd /\ \A c \in Client : fd[c] # f
  <1> DEFINE S == Echo!Fd \ {fd[c] : c \in Client}
             A == {c \in Client : fd[c] # -1}
             num == [c \in A |-> fd[c]]
  <1>1. IsFiniteSet(A) /\ Cardinality(A) < Cardinality(Client)
    <2>1. IsFiniteSet(Client \ {h}) /\ Cardinality(Client \ {h}) = Cardinality(Client) - 1
      BY Numbers, FS_RemoveElement
    <2>2. A \subseteq Client \ {h}
      OBVIOUS
    <2>3. IsFiniteSet(A) /\ Cardinality(A) <= Cardinality(Client \ {h}) /\ Cardinality(A) \in Nat
      BY <2>1, <2>2, FS_Subset, FS_CardinalityType
    <2> QED BY <2>1, <2>3, Numbers
  <1>2. S # {}
    <2> SUFFICES ASSUME S = {} PROVE FALSE
      OBVIOUS
    <2>1. num \in Surjection(A, Echo!Fd)
      <3>1. \A c \in A : fd[c] \in Echo!Fd
        BY DEF EchoType, Descriptor
      <3>2. \A f \in Echo!Fd : \E c \in A : fd[c] = f
        BY Numbers
      <3> QED BY <3>1, <3>2 DEF Surjection
    <2>2. Cardinality(Echo!Fd) <= Cardinality(A)
      <3> HIDE DEF A, num
      <3> QED BY <1>1, <2>1, FS_Surjection
    <2>3. Cardinality(Echo!Fd) = Cardinality(Client)
      BY Numbers, FS_Interval
    <2> QED BY <1>1, <2>2, <2>3, Numbers, FS_CardinalityType
  <1>3. S \in SUBSET Nat
    BY Numbers
  <1>4. Echo!Least(S) \in S
    BY <1>2, <1>3, EchoLeast
  <1> QED BY <1>4

\* The first client waiting gets a free slot.
LEMMA AcceptEcho == ASSUME Echo!MultiplexAssumption, EchoInv, Echo!Accept PROVE EchoInv'
  <1> USE DEF EchoInv
  <1> DEFINE h == Head(backlog)
             s == Echo!Least(Echo!Free)
             f == Echo!Least(Echo!Fd \ {fd[c] : c \in Client})
  <1>1. /\ Echo!Accepting /\ Echo!Free # {}
        /\ backlog' = Tail(backlog)
        /\ fd' = [fd EXCEPT ![h] = f]
        /\ client' = [client EXCEPT ![s] = f]
        /\ maxi' = Echo!Highest(maxi, s)
        /\ maxfd' = Echo!AtLeast(maxfd, f)
        /\ allset' = IF api = "poll" THEN allset ELSE allset \cup {f}
        /\ nready' = nready - 1 /\ pc' = IF nready = 1 THEN "wait" ELSE "scan"
        /\ ready' = IF api = "epoll" THEN ready \ {0} ELSE ready
        /\ UNCHANGED <<api, end, unread, broken, place>>
    BY DEF Echo!Accept, Echo!Counted, Echo!Taken
  <1>2. backlog # <<>>
    <2>1. CASE pc = "accept"
      BY <2>1 DEF Waits
    <2>2. CASE api = "epoll" /\ pc = "scan" /\ 0 \in ready
      <3>1. 0 \in Echo!Readable
        BY <2>2 DEF Waits
      <3> QED BY <3>1, ReadableIs, Numbers DEF EchoType
    <2> QED BY <1>1, <2>1, <2>2 DEF Echo!Accepting
  <1>3. /\ h \in Client /\ h = backlog[1] /\ Len(backlog) \in Nat \ {0}
        /\ Tail(backlog) \in Seq(Client) /\ Len(Tail(backlog)) = Len(backlog) - 1
        /\ \A k \in 1 .. Len(backlog) - 1 : Tail(backlog)[k] = backlog[k + 1]
    BY <1>2 DEF EchoType
  <1>4. Queued(h) /\ fd[h] = -1 /\ end[h] # "away"
    <2>1. Queued(h)
      BY <1>3 DEF Queued
    <2> QED BY <1>3, <2>1 DEF Connected
  <1>5. f \in Echo!Fd /\ \A c \in Client : fd[c] # f
    BY <1>3, <1>4, FreshFd
  <1>6. s \in Echo!Slot /\ client[s] = -1 /\ s \in Nat \ {0} /\ s <= OPEN_MAX
    <2>1. Echo!Free \in SUBSET Nat
      BY Numbers DEF Echo!Free
    <2>2. s \in Echo!Free
      BY <1>1, <2>1, EchoLeast
    <2> QED BY <2>2, Numbers DEF Echo!Free
  <1> HIDE DEF h, s, f
  <1>7. f \in Nat \ {0} /\ f # -1 /\ f # 0 /\ f \in Descriptor
    BY <1>5, Numbers DEF Descriptor
  <1>8. /\ maxi' \in Nat /\ maxi <= maxi' /\ s <= maxi' /\ maxi' <= OPEN_MAX /\ maxi \in Nat
        /\ maxfd' \in Nat /\ maxfd <= maxfd' /\ f <= maxfd' /\ maxfd \in Nat
    <2>1. maxi \in Nat /\ maxfd \in Nat /\ maxi <= OPEN_MAX /\ OPEN_MAX \in Nat
      BY Numbers DEF EchoType
    <2>2. maxi' = IF s > maxi THEN s ELSE maxi
      BY <1>1 DEF Echo!Highest, Echo!AtLeast
    <2>3. maxfd' = IF f > maxfd THEN f ELSE maxfd
      BY <1>1 DEF Echo!AtLeast
    <2> QED BY <1>6, <1>7, <2>1, <2>2, <2>3
  <1>9. nready \in Nat \ {0}
    BY <1>1 DEF Echo!Accepting, Waits, EchoType
  <1>10. /\ fd'[h] = f /\ \A c \in Client : c # h => fd'[c] = fd[c]
         /\ client'[s] = f /\ \A r \in Echo!Slot : r # s => client'[r] = client[r]
    BY <1>1, <1>3, <1>6 DEF EchoType
  <1>11. EchoType'
    <2>1. fd' \in [Client -> Descriptor] /\ client' \in [Echo!Slot -> Descriptor]
      BY <1>1, <1>7 DEF EchoType
    <2>2. maxi' \in 0 .. OPEN_MAX
      BY <1>8, Numbers
    <2>3. backlog' \in Seq(Client) /\ nready' \in Nat
      BY <1>1, <1>3, <1>9
    <2>4. pc' \in {"wait", "accept", "scan", "exited"}
      BY <1>1
    <2> QED BY <1>1, <1>8, <2>1, <2>2, <2>3, <2>4 DEF EchoType
  <1>12. Connected'
    <2>1. \A k \in 1 .. Len(backlog') : backlog'[k] = backlog[k + 1] /\ k + 1 \in 1 .. Len(backlog) /\ k + 1 # 1
      BY <1>1, <1>3
    <2>2. \A k, m \in 1 .. Len(backlog') : backlog'[k] = backlog'[m] => k = m
      <3>1. \A k, m \in 1 .. Len(backlog') : backlog[k + 1] = backlog[m + 1] => k + 1 = m + 1
        BY <2>1 DEF Connected
      <3> QED BY <1>1, <1>3, <2>1, <3>1
    <2>3. \A c \in Client : Queued(c)' => Queued(c) /\ c # h
      <3>1. \A k \in 1 .. Len(backlog') : backlog[k + 1] # h
        BY <1>3, <2>1 DEF Connected
      <3> QED BY <2>1, <3>1 DEF Queued
    <2>4. \A c \in Client : Queued(c)' => fd'[c] = -1 /\ end'[c] # "away"
      BY <1>1, <1>10, <2>3 DEF Connected
    <2>5. \A c \in Client : fd'[c] # -1 => end'[c] # "away"
      BY <1>1, <1>4, <1>10 DEF Connected
    <2>6. \A c, d \in Client : fd'[c] = fd'[d] /\ fd'[c] # -1 => c = d
      BY <1>5, <1>10 DEF Connected
    <2> QED BY <2>2, <2>4, <2>5, <2>6 DEF Connected
  <1>13. Echo!TableMatches'
    <2>1. ASSUME NEW c \in Client, fd'[c] # -1 PROVE \E r \in 1 .. maxi' : client'[r] = fd'[c]
      <3>1. CASE c = h
        <4>1. s \in 1 .. maxi'
          BY <1>6, <1>8
        <4> QED BY <1>10, <3>1, <4>1
      <3>2. CASE c # h
        <4>1. PICK r \in 1 .. maxi : client[r] = fd[c]
          BY <1>10, <2>1, <3>2 DEF Echo!TableMatches
        <4>2. r # s /\ r \in 1 .. maxi' /\ r \in Echo!Slot
          BY <1>6, <1>8, <1>10, <2>1, <3>2, <4>1, Numbers
        <4> QED BY <1>10, <3>2, <4>1, <4>2
      <3> QED BY <3>1, <3>2
    <2>2. ASSUME NEW r \in Echo!Slot, client'[r] # -1
          PROVE  /\ \E c \in Client : fd'[c] = client'[r]
                 /\ \A q \in Echo!Slot \ {r} : client'[q] # client'[r]
      <3>1. \A q \in Echo!Slot : q # s => client[q] # f
        <4>1. \A q \in Echo!Slot : client[q] # -1 => \E c \in Client : fd[c] = client[q]
          BY DEF Echo!TableMatches
        <4> QED BY <1>5, <1>7, <4>1
      <3>2. CASE r = s
        BY <1>3, <1>10, <3>1, <3>2
      <3>3. CASE r # s
        <4>1. PICK c \in Client : fd[c] = client[r]
          BY <1>10, <2>2, <3>3 DEF Echo!TableMatches
        <4>2. c # h
          BY <1>4, <1>10, <2>2, <3>3, <4>1
        <4>3. \A q \in Echo!Slot \ {r} : client[q] # client[r]
          BY <1>10, <2>2, <3>3 DEF Echo!TableMatches
        <4> QED BY <1>10, <3>1, <3>3, <4>1, <4>2, <4>3
      <3> QED BY <3>2, <3>3
    <2>3. ASSUME api' # "poll" PROVE allset' = {0} \cup {fd'[c] : c \in {d \in Client : fd'[d] # -1}}
      <3>1. allset = {0} \cup {fd[c] : c \in {d \in Client : fd[d] # -1}}
        BY <1>1, <2>3 DEF Echo!TableMatches
      <3>2. {fd'[c] : c \in {d \in Client : fd'[d] # -1}} = {fd[c] : c \in {d \in Client : fd[d] # -1}} \cup {f}
        BY <1>3, <1>4, <1>7, <1>10
      <3> QED BY <1>1, <2>3, <3>1, <3>2
    <2>4. ASSUME api' = "select" PROVE \A n \in allset' : n <= maxfd'
      <3>1. \A n \in allset : n <= maxfd /\ n \in Nat
        <4>1. \A n \in allset : n <= maxfd
          BY <1>1, <2>4 DEF Echo!TableMatches
        <4>2. \A n \in allset : n = 0 \/ n \in Echo!Fd
          BY <1>1, <2>4 DEF Echo!TableMatches, EchoType, Descriptor
        <4> QED BY <4>1, <4>2, Numbers
      <3> QED BY <1>1, <1>8, <2>4, <3>1
    <2> QED BY <2>1, <2>2, <2>3, <2>4 DEF Echo!TableMatches
  <1>14. \A n \in Echo!Readable : n # 0 => n \in Echo!Readable' /\ n # f /\ n # -1
    <2>1. \A n : n \in Echo!Readable' <=> \/ n = 0 /\ backlog' # <<>>
                                          \/ \E d \in Client : fd'[d] = n /\ fd'[d] # -1 /\ Speaks(d)'
      BY DEF Echo!Readable, Speaks
    <2>2. ASSUME NEW n \in Echo!Readable, n # 0 PROVE n \in Echo!Readable' /\ n # f /\ n # -1
      <3>1. PICK c \in Client : fd[c] = n /\ fd[c] # -1 /\ Speaks(c)
        BY <2>2, ReadableIs
      <3>2. c # h /\ Speaks(c)'
        BY <1>1, <1>4, <3>1 DEF Speaks
      <3> QED BY <1>5, <1>10, <2>1, <3>1, <3>2
    <2> QED BY <2>2
  <1>15. Waits'
    <2>1. CASE nready = 1
      BY <1>1, <2>1 DEF Waits
    <2>2. CASE nready # 1 /\ api = "epoll"
      <3>1. pc = "scan" /\ 0 \in ready
        BY <1>1, <2>2 DEF Echo!Accepting, Waits
      <3>2. ready \subseteq Echo!Readable /\ IsFiniteSet(ready) /\ nready <= Cardinality(ready)
        BY <2>2, <3>1 DEF Waits
      <3>3. IsFiniteSet(ready') /\ Cardinality(ready') = Cardinality(ready) - 1 /\ Cardinality(ready) \in Nat
        <4>1. ready' = ready \ {0}
          BY <1>1, <2>2
        <4> QED BY <3>1, <3>2, <4>1, FS_RemoveElement, FS_CardinalityType
      <3>4. ready' \subseteq Echo!Readable'
        BY <1>1, <1>14, <2>2, <3>2
      <3>5. nready' >= 1 /\ nready' <= Cardinality(ready')
        BY <1>1, <1>9, <2>2, <3>2, <3>3
      <3> QED BY <1>1, <2>2, <3>3, <3>4, <3>5 DEF Waits
    <2>3. CASE nready # 1 /\ api # "epoll"
      <3>1. pc = "accept" /\ place = 1
        BY <1>1, <2>3 DEF Echo!Accepting, Waits
      <3>2. nready - 1 <= Cardinality(Left)
        BY <3>1 DEF Waits
      <3>3. Left \subseteq Left'
        <4>1. ASSUME NEW r \in Left PROVE r \in Left'
          <5>1. r \in Echo!Slot /\ client[r] \in Echo!Fd
            BY LeftFinite
          <5>2. r # s /\ client'[r] = client[r]
            BY <1>6, <1>10, <5>1, Numbers
          <5>3. r \in place' .. maxi'
            BY <1>1, <1>8, <3>1 DEF Left
          <5> QED BY <1>1, <2>3, <5>2, <5>3 DEF Left, Echo!IsSet
        <4> QED BY <4>1
      <3>4. Left' \subseteq 1 .. maxi' /\ IsFiniteSet(Left') /\ Cardinality(Left') \in Nat
        <4>1. Left' \subseteq 1 .. maxi' /\ 1 \in Int /\ maxi' \in Int
          BY <1>1, <1>8, <3>1 DEF Left
        <4> QED BY <4>1, Within
      <3>5. Cardinality(Left) <= Cardinality(Left') /\ Cardinality(Left) \in Nat
        BY <3>3, <3>4, FS_Subset, FS_CardinalityType
      <3>6. nready' >= 1 /\ nready' <= Cardinality(Left')
        BY <1>1, <1>9, <2>3, <3>2, <3>4, <3>5
      <3>7. ASSUME api' = "select", NEW r \in Left' PROVE client'[r] \in Echo!Readable'
        <4>1. ready \subseteq Echo!Readable
          BY <1>1, <3>1, <3>7 DEF Waits
        <4>2. client'[r] # -1 /\ client'[r] \in ready
          BY <1>1, <3>7 DEF Left, Echo!IsSet
        <4>3. client'[r] # 0
          <5>1. r \in Echo!Slot
            BY <1>8, <3>4, Numbers
          <5>2. client'[r] \in Descriptor
            BY <1>11, <5>1 DEF EchoType
          <5> QED BY <5>2, Numbers
        <4> QED BY <1>14, <4>1, <4>2, <4>3
      <3> QED BY <1>1, <2>3, <3>6, <3>7 DEF Waits
    <2> QED BY <2>1, <2>2, <2>3
  <1> QED BY <1>11, <1>12, <1>13, <1>15

\* A client too many ends the server.
LEMMA TooManyEcho == ASSUME Echo!MultiplexAssumption, EchoInv, Echo!TooMany PROVE EchoInv'
  <1> USE DEF EchoInv
  <1>1. /\ pc' = "exited"
        /\ UNCHANGED <<api, backlog, end, fd, client, maxi, maxfd, allset, ready, nready, place>>
    BY DEF Echo!TooMany, Echo!ends, Echo!table
  <1>2. EchoType'
    BY <1>1 DEF EchoType
  <1>3. Connected'
    BY <1>1 DEF Connected, Queued
  <1>4. Echo!TableMatches'
    BY <1>1 DEF Echo!TableMatches
  <1>5. Waits'
    BY <1>1 DEF Waits
  <1> QED BY <1>2, <1>3, <1>4, <1>5

-----------------------------------------------------------------------------
\* The client of slot s has been read from: its connection stays as it is, or
\* has been closed.
Dealt(s) ==
  LET c == Echo!Owner(s) IN
  /\ Echo!Turn(s)
  /\ place' = s + 1 /\ Echo!Counted /\ Echo!Taken(client[s])
  /\ end' \in [Client -> {"away", "idle", "waiting", "closed"}]
  /\ \A d \in Client \ {c} : end'[d] = end[d] /\ (Speaks(d) => Speaks(d)')
  /\ UNCHANGED <<api, backlog, maxi, maxfd>>
  /\ \/ /\ UNCHANGED <<fd, client, allset>>
        /\ end[c] # "away" => end'[c] # "away"
     \/ /\ fd' = [fd EXCEPT ![c] = -1] /\ client' = [client EXCEPT ![s] = -1]
        /\ allset' = allset \ {client[s]}

LEMMA ReadingDeals ==
  ASSUME EchoInv, NEW s \in Echo!Slot, Echo!ReadLine(s) \/ Echo!ReadEof(s) \/ Echo!ReadReset(s)
  PROVE  Dealt(s)
  <1> USE DEF EchoInv
  <1>1. CASE Echo!ReadLine(s)
    <2>1. UNCHANGED <<api, backlog, fd, client, maxi, maxfd, allset>>
      BY <1>1 DEF Echo!ReadLine, Echo!table
    <2>2. end' \in [Client -> {"away", "idle", "waiting", "closed"}]
      BY <1>1 DEF Echo!ReadLine, EchoType
    <2>3. /\ \A d \in Client \ {Echo!Owner(s)} : end'[d] = end[d] /\ (d \in unread => d \in unread')
          /\ end[Echo!Owner(s)] # "away" => end'[Echo!Owner(s)] # "away"
      BY <1>1 DEF Echo!ReadLine, EchoType
    <2> QED BY <1>1, <2>1, <2>2, <2>3 DEF Dealt, Speaks, Echo!ReadLine
  <1>2. ASSUME Echo!Close(s), unread' = unread, UNCHANGED <<api, backlog>>, Echo!Turn(s),
               place' = s + 1, Echo!Counted, Echo!Taken(client[s])
        PROVE  Dealt(s)
    <2>1. UNCHANGED <<maxi, maxfd>>
      BY <1>2 DEF Echo!Close
    <2>2. end' \in [Client -> {"away", "idle", "waiting", "closed"}]
      BY <1>2 DEF Echo!Close, EchoType
    <2>3. \A d \in Client \ {Echo!Owner(s)} : end'[d] = end[d]
      BY <1>2 DEF Echo!Close, EchoType
    <2> QED BY <1>2, <2>1, <2>2, <2>3 DEF Dealt, Speaks, Echo!Close
  <1>3. CASE Echo!ReadEof(s)
    BY <1>2, <1>3 DEF Echo!ReadEof
  <1>4. CASE Echo!ReadReset(s)
    <2>1. CASE api = "poll"
      BY <1>2, <1>4, <2>1 DEF Echo!ReadReset
    <2>2. CASE api # "poll"
      <3>1. UNCHANGED <<api, backlog, unread, fd, client, maxi, maxfd, allset, end>>
        BY <1>4, <2>2 DEF Echo!ReadReset, Echo!table
      <3>2. Echo!Turn(s) /\ place' = s + 1 /\ Echo!Counted /\ Echo!Taken(client[s])
        BY <1>4 DEF Echo!ReadReset
      <3>3. end' \in [Client -> {"away", "idle", "waiting", "closed"}]
        BY <3>1 DEF EchoType
      <3> QED BY <3>1, <3>2, <3>3 DEF Dealt, Speaks
    <2> QED BY <2>1, <2>2
  <1> QED BY <1>1, <1>3, <1>4

LEMMA DealtEcho == ASSUME Echo!MultiplexAssumption, EchoInv, NEW s \in Echo!Slot, Dealt(s) PROVE EchoInv'
  <1> USE DEF EchoInv
  <1> DEFINE c == Echo!Owner(s)
  <1>1. /\ Echo!Turn(s) /\ place' = s + 1
        /\ nready' = nready - 1 /\ pc' = IF nready = 1 THEN "wait" ELSE "scan"
        /\ ready' = IF api = "epoll" THEN ready \ {client[s]} ELSE ready
        /\ end' \in [Client -> {"away", "idle", "waiting", "closed"}]
        /\ \A d \in Client \ {c} : end'[d] = end[d] /\ (Speaks(d) => Speaks(d)')
        /\ UNCHANGED <<api, backlog, maxi, maxfd>>
    BY DEF Dealt, Echo!Counted, Echo!Taken
  <1>2. pc = "scan" /\ client[s] # -1 /\ Echo!IsSet(s)
    BY <1>1 DEF Echo!Turn, Echo!IsSet
  <1>3. c \in Client /\ fd[c] = client[s]
    <2>1. \E d \in Client : fd[d] = client[s]
      BY <1>2 DEF Echo!TableMatches
    <2> QED BY <2>1 DEF Echo!Owner
  <1>4. \/ fd' = fd /\ client' = client /\ allset' = allset /\ (end[c] # "away" => end'[c] # "away")
        \/ /\ fd' = [fd EXCEPT ![c] = -1] /\ client' = [client EXCEPT ![s] = -1]
           /\ allset' = allset \ {client[s]}
    BY DEF Dealt
  <1> HIDE DEF c
  <1>5. /\ client[s] \in Echo!Fd /\ client[s] # 0 /\ client[s] # -1 /\ s \in Nat \ {0} /\ s <= OPEN_MAX
        /\ fd[c] # -1 /\ nready \in Nat \ {0}
    <2>1. client[s] \in Echo!Fd
      BY <1>2 DEF EchoType, Descriptor
    <2>2. nready \in Nat \ {0}
      BY <1>2 DEF EchoType, Waits
    <2> QED BY <1>2, <1>3, <2>1, <2>2, Numbers
  <1>6. /\ \A d \in Client : fd'[d] = fd[d] \/ (d = c /\ fd'[d] = -1)
        /\ \A d \in Client : d # c => fd'[d] = fd[d] /\ fd[d] # client[s]
        /\ \A r \in Echo!Slot : r # s => client'[r] = client[r] /\ client[r] # client[s]
    <2>1. \A d \in Client : d # c => fd[d] # client[s]
      BY <1>3, <1>5 DEF Connected
    <2>2. \A r \in Echo!Slot : r # s => client[r] # client[s]
      BY <1>5 DEF Echo!TableMatches
    <2>3. fd' = fd \/ fd' = [fd EXCEPT ![c] = -1]
      BY <1>4
    <2>4. client' = client \/ client' = [client EXCEPT ![s] = -1]
      BY <1>4
    <2>5. \A d \in Client : fd'[d] = fd[d] \/ (d = c /\ fd'[d] = -1)
      <3>1. DOMAIN fd = Client
        BY DEF EchoType
      <3>2. CASE fd' = fd
        BY <3>2
      <3>3. CASE fd' = [fd EXCEPT ![c] = -1]
        BY <1>3, <3>1, <3>3
      <3> QED BY <2>3, <3>2, <3>3
    <2>6. \A r \in Echo!Slot : r # s => client'[r] = client[r]
      BY <2>4 DEF EchoType
    <2> QED BY <2>1, <2>2, <2>5, <2>6
  <1>7. EchoType'
    <2>1. fd' \in [Client -> Descriptor] /\ client' \in [Echo!Slot -> Descriptor]
      BY <1>4 DEF EchoType, Descriptor
    <2>2. nready' \in Nat /\ place' \in Nat \ {0} /\ pc' \in {"wait", "accept", "scan", "exited"}
      BY <1>1, <1>5
    <2> QED BY <1>1, <2>1, <2>2 DEF EchoType
  <1>8. Connected'
    <2>1. \A d \in Client : Queued(d)' = Queued(d)
      BY <1>1 DEF Queued
    <2>2. ~Queued(c) /\ end[c] # "away"
      BY <1>3, <1>5 DEF Connected
    <2>3. \A d \in Client : Queued(d) => fd'[d] = -1 /\ end'[d] # "away"
      BY <1>1, <1>6, <2>2 DEF Connected
    <2>4. \A d \in Client : fd'[d] # -1 => end'[d] # "away"
      <3>1. ASSUME fd'[c] # -1 PROVE end'[c] # "away"
        <4>1. fd' = fd /\ (end[c] # "away" => end'[c] # "away")
          BY <1>3, <1>4, <3>1 DEF EchoType
        <4> QED BY <2>2, <4>1
      <3>2. \A d \in Client : d # c /\ fd[d] # -1 => end[d] # "away"
        BY DEF Connected
      <3> QED BY <1>1, <1>6, <3>1, <3>2
    <2>5. \A d, e \in Client : fd'[d] = fd'[e] /\ fd'[d] # -1 => d = e
      BY <1>6 DEF Connected
    <2> QED BY <1>1, <2>1, <2>3, <2>4, <2>5 DEF Connected
  <1>9. Echo!TableMatches'
    <2>1. CASE fd' = fd /\ client' = client /\ allset' = allset
      BY <1>1, <2>1 DEF Echo!TableMatches
    <2>2. CASE /\ fd' = [fd EXCEPT ![c] = -1] /\ client' = [client EXCEPT ![s] = -1]
               /\ allset' = allset \ {client[s]}
      <3>1. fd'[c] = -1 /\ client'[s] = -1
        BY <1>3, <2>2 DEF EchoType
      <3>2. ASSUME NEW d \in Client, fd'[d] # -1 PROVE \E r \in 1 .. maxi' : client'[r] = fd'[d]
        <4>1. d # c /\ fd'[d] = fd[d] /\ fd[d] # client[s]
          BY <1>6, <3>1, <3>2
        <4>2. PICK r \in 1 .. maxi : client[r] = fd[d]
          BY <3>2, <4>1 DEF Echo!TableMatches
        <4>3. r # s /\ r \in Echo!Slot
          BY <4>1, <4>2, Numbers DEF EchoType
        <4> QED BY <1>1, <1>6, <4>1, <4>2, <4>3
      <3>3. ASSUME NEW r \in Echo!Slot, client'[r] # -1
            PROVE  /\ \E d \in Client : fd'[d] = client'[r]
                   /\ \A q \in Echo!Slot \ {r} : client'[q] # client'[r]
        <4>1. r # s /\ client'[r] = client[r] /\ client[r] # client[s]
          BY <1>6, <3>1, <3>3
        <4>2. PICK d \in Client : fd[d] = client[r]
          BY <3>3, <4>1 DEF Echo!TableMatches
        <4>3. d # c
          BY <1>3, <4>1, <4>2
        <4>4. \A q \in Echo!Slot \ {r} : client[q] # client[r]
          BY <3>3, <4>1 DEF Echo!TableMatches
        <4> QED BY <1>6, <3>1, <3>3, <4>1, <4>2, <4>3, <4>4
      <3>4. ASSUME api' # "poll" PROVE allset' = {0} \cup {fd'[d] : d \in {e \in Client : fd'[e] # -1}}
        <4>1. allset = {0} \cup {fd[d] : d \in {e \in Client : fd[e] # -1}}
          BY <1>1, <3>4 DEF Echo!TableMatches
        <4>2. {fd'[d] : d \in {e \in Client : fd'[e] # -1}} = {fd[d] : d \in {e \in Client : fd[e] # -1}} \ {client[s]}
          <5>1. ASSUME NEW d \in Client, fd'[d] # -1 PROVE fd[d] # -1 /\ fd'[d] = fd[d] /\ fd'[d] # client[s]
            BY <1>6, <3>1, <5>1
          <5>2. ASSUME NEW d \in Client, fd[d] # -1, fd[d] # client[s] PROVE fd'[d] # -1 /\ fd'[d] = fd[d]
            BY <1>3, <1>6, <5>2
          <5> QED BY <5>1, <5>2
        <4> QED BY <1>5, <2>2, <4>1, <4>2
      <3>5. ASSUME api' = "select" PROVE \A n \in allset' : n <= maxfd'
        BY <1>1, <2>2, <3>5 DEF Echo!TableMatches
      <3> QED BY <3>2, <3>3, <3>4, <3>5 DEF Echo!TableMatches
    <2> QED BY <1>4, <2>1, <2>2
  <1>10. \A n \in Echo!Readable : n # client[s] => n \in Echo!Readable'
    <2>1. \A n : n \in Echo!Readable' <=> \/ n = 0 /\ backlog' # <<>>
                                          \/ \E d \in Client : fd'[d] = n /\ fd'[d] # -1 /\ Speaks(d)'
      BY DEF Echo!Readable, Speaks
    <2>2. ASSUME NEW n \in Echo!Readable, n # client[s] PROVE n \in Echo!Readable'
      <3>1. CASE n = 0 /\ backlog # <<>>
        BY <1>1, <2>1, <3>1
      <3>2. CASE \E d \in Client : fd[d] = n /\ fd[d] # -1 /\ Speaks(d)
        <4>1. PICK d \in Client : fd[d] = n /\ fd[d] # -1 /\ Speaks(d)
          BY <3>2
        <4>2. d # c
          BY <1>3, <2>2, <4>1
        <4> QED BY <1>1, <1>6, <2>1, <4>1, <4>2
      <3> QED BY <2>2, <3>1, <3>2, ReadableIs
    <2> QED BY <2>2
  <1>11. Waits'
    <2>1. CASE nready = 1
      BY <1>1, <2>1 DEF Waits
    <2>2. CASE nready # 1 /\ api = "epoll"
      <3>1. ready \subseteq Echo!Readable /\ IsFiniteSet(ready) /\ nready <= Cardinality(ready)
        BY <1>2, <2>2 DEF Waits
      <3>2. IsFiniteSet(ready') /\ Cardinality(ready') >= Cardinality(ready) - 1
            /\ Cardinality(ready) \in Nat /\ Cardinality(ready') \in Nat
        <4>1. ready' = ready \ {client[s]}
          BY <1>1, <2>2
        <4>2. Cardinality(ready) \in Nat
          BY <3>1, FS_CardinalityType
        <4>3. IsFiniteSet(ready') /\ (Cardinality(ready') = Cardinality(ready) \/ Cardinality(ready') = Cardinality(ready) - 1)
          BY <3>1, <4>1, FS_RemoveElement
        <4>4. Cardinality(ready') \in Nat
          BY <4>3, FS_CardinalityType
        <4> QED BY <4>2, <4>3, <4>4
      <3>3. ready' \subseteq Echo!Readable'
        BY <1>1, <1>10, <2>2, <3>1
      <3>4. nready' >= 1 /\ nready' <= Cardinality(ready')
        BY <1>1, <1>5, <2>2, <3>1, <3>2
      <3> QED BY <1>1, <2>2, <3>2, <3>3, <3>4 DEF Waits
    <2>3. CASE nready # 1 /\ api # "epoll"
      <3>1. nready <= Cardinality(Left) /\ \A r \in place .. s - 1 : ~Echo!IsSet(r)
        BY <1>1, <1>2, <2>3 DEF Waits, Echo!Turn
      <3>2. Left \ {s} \subseteq Left'
        <4>1. ASSUME NEW r \in Left, r # s PROVE r \in Left'
          <5>1. r \in Echo!Slot /\ r \in place .. maxi /\ Echo!IsSet(r)
            BY <4>1, LeftFinite DEF Left
          <5>2. r \in s + 1 .. maxi
            BY <1>5, <3>1, <4>1, <5>1 DEF EchoType
          <5>3. client'[r] = client[r]
            BY <1>6, <4>1, <5>1
          <5> QED BY <1>1, <2>3, <5>1, <5>2, <5>3 DEF Left, Echo!IsSet
        <4> QED BY <4>1
      <3>3. Left' \subseteq s + 1 .. maxi /\ IsFiniteSet(Left') /\ Cardinality(Left') \in Nat
        <4>1. Left' \subseteq s + 1 .. maxi /\ s + 1 \in Int /\ maxi \in Int
          BY <1>1, <1>5 DEF Left, EchoType
        <4> QED BY <4>1, Within
      <3>4. Cardinality(Left) - 1 <= Cardinality(Left') /\ Cardinality(Left) \in Nat
        <4>1. IsFiniteSet(Left) /\ Cardinality(Left) \in Nat
          BY LeftFinite
        <4>2. Cardinality(Left \ {s}) >= Cardinality(Left) - 1
          BY <4>1, FS_RemoveElement
        <4>3. Cardinality(Left \ {s}) <= Cardinality(Left') /\ Cardinality(Left \ {s}) \in Nat
          BY <3>2, <3>3, FS_Subset, FS_CardinalityType
        <4> QED BY <3>3, <4>1, <4>2, <4>3
      <3>5. nready' >= 1 /\ nready' <= Cardinality(Left')
        BY <1>1, <1>5, <2>3, <3>1, <3>3, <3>4
      <3>6. ASSUME api' = "select", NEW r \in Left' PROVE client'[r] \in Echo!Readable'
        <4>1. api = "select" /\ r \in s + 1 .. maxi /\ client'[r] # -1 /\ client'[r] \in ready
          BY <1>1, <3>3, <3>6 DEF Left, Echo!IsSet
        <4>2. r \in Echo!Slot /\ r # s
          BY <1>5, <4>1, Numbers DEF EchoType
        <4>3. client'[r] = client[r] /\ client[r] # client[s]
          BY <1>6, <4>2
        <4>4. r \in Left
          <5>1. s \in place .. maxi
            BY <1>1, <2>3 DEF Echo!Turn
          <5>2. r \in place .. maxi
            BY <4>1, <5>1 DEF EchoType
          <5> QED BY <4>1, <4>3, <5>2 DEF Left, Echo!IsSet
        <4> QED BY <1>2, <1>10, <4>1, <4>3, <4>4 DEF Waits
      <3> QED BY <1>1, <2>3, <3>5, <3>6 DEF Waits
    <2> QED BY <2>1, <2>2, <2>3
  <1> QED BY <1>7, <1>8, <1>9, <1>11

LEMMA EchoStep == ASSUME Echo!MultiplexAssumption, EchoInv, [Echo!Next]_(Echo!vars) PROVE EchoInv'
  <1>1. CASE UNCHANGED Echo!vars
    BY <1>1 DEF EchoInv, EchoType, Connected, Queued, Echo!TableMatches, Waits, Left, Echo!IsSet, Echo!Readable,
                Echo!vars, Echo!ends, Echo!table, Echo!loop
  <1>2. CASE Echo!Server
    <2>1. ASSUME NEW s \in Echo!Slot, Echo!ReadLine(s) \/ Echo!ReadEof(s) \/ Echo!ReadReset(s) PROVE EchoInv'
      BY <2>1, ReadingDeals, DealtEcho
    <2> QED BY <1>2, <2>1, SelectEcho, PollEcho, EpollEcho, AcceptEcho, TooManyEcho DEF Echo!Server
  <1> QED BY <1>1, <1>2, ClientsEcho DEF Echo!Next

(* The table of the servers with select, poll and epoll agrees with what they  *)
(* wait for, and what they have been told is ready is there to be read, for any *)
(* number of clients and a table of any size (select/server.c:55-104,           *)
(* poll/server.c:50-104, epoll/server.c:60-113).                                *)
THEOREM TablesOfClients ==
  ASSUME Echo!MultiplexAssumption PROVE Echo!Spec => [](Echo!TableMatches /\ Echo!ScanFinds)
  <1>1. Echo!Init => EchoInv
    BY EchoStart
  <1>2. EchoInv /\ [Echo!Next]_(Echo!vars) => EchoInv'
    BY EchoStep
  <1>3. EchoInv => Echo!TableMatches /\ Echo!ScanFinds
    <2> SUFFICES ASSUME EchoInv, pc = "scan" PROVE Echo!ScanFinds
      BY DEF EchoInv, Echo!ScanFinds
    <2> USE DEF EchoInv
    <2>1. CASE api = "epoll"
      <3>1. ready \subseteq Echo!Readable /\ ready # {} /\ nready > 0
        <4>1. IsFiniteSet(ready) /\ nready >= 1 /\ nready <= Cardinality(ready) /\ nready \in Nat
          BY <2>1 DEF Waits, EchoType
        <4>2. Cardinality(ready) # 0
          BY <4>1, FS_CardinalityType
        <4> QED BY <2>1, <4>1, <4>2, FS_EmptySet DEF Waits
      <3>2. \A f \in ready \ {0} : \E s \in Echo!Slot : Echo!Turn(s)
        <4>1. ASSUME NEW f \in ready \ {0} PROVE \E s \in Echo!Slot : Echo!Turn(s)
          <5>1. \E c \in Client : fd[c] = f /\ fd[c] # -1
            BY <3>1, <4>1, ReadableIs
          <5>2. PICK s \in 1 .. maxi : client[s] = f /\ f # -1
            BY <5>1 DEF Echo!TableMatches
          <5>3. s \in Echo!Slot
            BY <5>2, Numbers DEF EchoType
          <5> QED BY <2>1, <4>1, <5>2, <5>3 DEF Echo!Turn, Echo!IsSet
        <4> QED BY <4>1
      <3>3. ~Echo!Blocked
        BY <2>1, <3>1 DEF Echo!Blocked, Echo!Turn, Echo!IsSet
      <3> QED BY <2>1, <3>1, <3>2, <3>3 DEF Echo!ScanFinds
    <2>2. CASE api # "epoll"
      <3>1. nready >= 1 /\ nready <= Cardinality(Left) /\ nready \in Nat
        BY <2>2 DEF Waits, EchoType
      <3>2. Left # {} /\ Left \in SUBSET Nat
        <4>1. Left \subseteq Echo!Slot /\ IsFiniteSet(Left) /\ Cardinality(Left) \in Nat
          BY LeftFinite
        <4>2. Cardinality(Left) # 0
          BY <3>1, <4>1
        <4> QED BY <4>1, <4>2, FS_EmptySet, Numbers
      <3>3. PICK s \in Left : \A r \in Left : s <= r
        BY <3>2, EchoLeast
      <3>4. s \in Echo!Slot /\ s \in place .. maxi /\ Echo!IsSet(s)
        BY <3>3, LeftFinite DEF Left
      <3>5. \A r \in place .. s - 1 : ~Echo!IsSet(r)
        <4>1. ASSUME NEW r \in place .. s - 1, Echo!IsSet(r) PROVE FALSE
          <5>1. r \in place .. maxi /\ ~(s <= r)
            BY <3>4, <4>1 DEF EchoType
          <5> QED BY <3>3, <4>1, <5>1 DEF Left
        <4> QED BY <4>1
      <3>6. Echo!Turn(s)
        BY <3>4, <3>5 DEF Echo!Turn
      <3>7. api = "select" => ~Echo!Blocked
        <4>1. ASSUME api = "select", NEW r \in Echo!Slot, Echo!Turn(r) PROVE client[r] \in Echo!Readable
          <5>1. r \in Left
            BY <4>1 DEF Left, Echo!Turn
          <5> QED BY <4>1, <5>1 DEF Waits
        <4> QED BY <4>1 DEF Echo!Blocked
      <3>8. api = "select" \/ api = "poll"
        BY <2>2 DEF EchoType
      <3> QED BY <3>1, <3>4, <3>6, <3>7, <3>8 DEF Echo!ScanFinds
    <2> QED BY <2>1, <2>2
  <1> QED BY <1>1, <1>2, <1>3, PTL DEF Echo!Spec

-----------------------------------------------------------------------------
(* Side by side: a server starts in an initial state and, as long as another  *)
(* runs, stays as it is; so what is proved of each alone holds of it here.    *)

LEMMA ServersStep ==
  [ServersNext]_allVars => [Next]_vars /\ [Echo!Next]_(Echo!vars)
  <1> SUFFICES ASSUME [ServersNext]_allVars
               PROVE  [Next]_vars /\ [Echo!Next]_(Echo!vars)
    OBVIOUS
  <1>1. UNCHANGED idsVars => UNCHANGED vars
    BY DEF idsVars
  <1>2. UNCHANGED echoVars => UNCHANGED Echo!vars
    BY DEF echoVars, Echo!vars, Echo!ends, Echo!table, Echo!loop
  <1>3. CASE UNCHANGED allVars
    BY <1>1, <1>2, <1>3 DEF allVars
  <1>4. CASE IdsRuns /\ Next
    BY <1>2, <1>4 DEF IdsRuns
  <1>5. CASE PingRuns /\ Ping!Next
    BY <1>1, <1>2, <1>5 DEF PingRuns
  <1>6. CASE EchoRuns /\ Echo!Next
    BY <1>1, <1>6 DEF EchoRuns
  <1> QED BY <1>3, <1>4, <1>5, <1>6 DEF ServersNext

LEMMA ServersRun == ServersSpec => Spec /\ Echo!Spec
  <1>1. ServersInit => Init /\ Echo!Init
    BY DEF ServersInit
  <1> QED BY <1>1, ServersStep, PTL DEF ServersSpec, Spec, Echo!Spec

(* Whatever the clients do, and however many of them share the table, the     *)
(* table of the servers with select, poll and epoll agrees with what they     *)
(* wait for, and what they have been told is ready is there to be read        *)
(* (select/server.c:55-104, poll/server.c:50-104, epoll/server.c:60-113).     *)
THEOREM EchoIsSound == ServersSpec => []EchoSound
  <1>1. Echo!Spec => [](Echo!TableMatches /\ Echo!ScanFinds)
    BY TablesOfClients, ServersAssumption
  <1> QED BY <1>1, ServersRun, PTL DEF EchoSound

=============================================================================
