---------------------------- MODULE IdsAgentProof ---------------------------
(* What the agent sends is a prefix of the log it was asked for, for logs of  *)
(* any length, any number of days, and any faults, when the constants are as  *)
(* ConstantsAssumption says.                                                  *)
EXTENDS IdsAgent, SequenceTheorems, TLAPS

-----------------------------------------------------------------------------
(* The files the agent has open, and where it is in them.                     *)

Reading == {"read", "eof", "reopen", "send"}

Opened ==
  /\ a = t
  /\ pc \in {"down", "connect", "recv"} => file_name = NULL
  /\ pc \in Reading => file_name # NULL /\ a <= log[file_name]
  /\ pc = "send" => buf = <<file_name, a>> /\ a > 0

(* The connection: an open one has a thread that downloads the agent's file.  *)
Connected ==
  /\ pc \in {"down", "connect"} => client_socket = "none"
  /\ client_socket = "open" =>
       /\ talk # NULL /\ peer = "open"
       /\ pc = "open" => file_name \in {talk, NULL}
       /\ pc \in Reading => file_name = talk

(* What is under way begins where the file ends, and ends where the agent is. *)
Sent == Len(file) + Len(wire)

Contiguous ==
  talk # NULL => /\ Sent <= log[talk]
                 /\ \A i \in 1 .. Len(file) : file[i] = <<talk, i>>
                 /\ \A i \in 1 .. Len(wire) : wire[i] = <<talk, Len(file) + i>>

InStep ==
  client_socket = "open" => /\ pc \in {"recv", "open"} => Sent = 0
                            /\ pc \in {"read", "eof", "reopen"} => Sent = a
                            /\ pc = "send" => Sent = a - 1

AInv == TypeOK /\ Opened /\ Connected /\ Contiguous /\ InStep

-----------------------------------------------------------------------------
LEMMA InitAInv == ASSUME ConstantsAssumption, Init PROVE AInv
  <1> USE DEF ConstantsAssumption, Init, Day, NULL
  <1>1. TypeOK
    <2>1. wire \in Seq(Buffer) /\ file \in Seq(Buffer) /\ buf \in Buffer \cup {<<>>}
      OBVIOUS
    <2>2. errno \in BOOLEAN
      BY Zenon
    <2> QED BY <2>1, <2>2 DEF TypeOK
  <1>2. Opened /\ Connected /\ Contiguous /\ InStep
    BY DEF Opened, Connected, Contiguous, InStep, Sent, Reading
  <1> QED BY <1>1, <1>2 DEF AInv

\* The two sequences as one.
LEMMA PrefixFromContiguous == ASSUME AInv PROVE DownloadIsPrefix
  <1> SUFFICES ASSUME talk # NULL
               PROVE  /\ Len(file \o wire) <= log[talk]
                      /\ \A i \in 1 .. Len(file \o wire) : (file \o wire)[i] = <<talk, i>>
    BY DEF DownloadIsPrefix
  <1>1. file \in Seq(Buffer) /\ wire \in Seq(Buffer)
    BY DEF AInv, TypeOK
  <1>2. Len(file \o wire) = Len(file) + Len(wire)
    BY <1>1
  <1>3. ASSUME NEW i \in 1 .. Len(file) + Len(wire) PROVE (file \o wire)[i] = <<talk, i>>
    <2>1. CASE i <= Len(file)
      BY <1>1, <2>1 DEF AInv, Contiguous
    <2>2. CASE i > Len(file)
      <3>1. i - Len(file) \in 1 .. Len(wire) /\ (file \o wire)[i] = wire[i - Len(file)]
        BY <1>1, <2>2
      <3>2. wire[i - Len(file)] = <<talk, Len(file) + (i - Len(file))>>
        BY <3>1 DEF AInv, Contiguous
      <3>3. Len(file) + (i - Len(file)) = i
        BY <1>1
      <3> QED BY <3>1, <3>2, <3>3
    <2> QED BY <1>1, <2>1, <2>2
  <1> QED BY <1>2, <1>3 DEF AInv, Contiguous, Sent

\* Whatever the agent's end does to what is under way keeps its beginning.
LEMMA HangupKeeps ==
  ASSUME AInv, Hangup
  PROVE  /\ client_socket' = "none" /\ peer' \in {"open", "reset", "eof"}
         /\ UNCHANGED <<g_file_name, talk, file>>
         /\ wire' \in Seq(Buffer) /\ Len(wire') <= Len(wire)
         /\ \A i \in 1 .. Len(wire') : wire'[i] = wire[i]
  <1> USE DEF AInv, TypeOK, Hangup
  <1>1. CASE wire' = wire
    BY <1>1
  <1>2. CASE wire' \in Prefixes(wire)
    <2>1. PICK n \in 0 .. Len(wire) : wire' = SubSeq(wire, 1, n)
      BY <1>2 DEF Prefixes
    <2> QED BY <2>1, SMTT(60)
  <1> QED BY <1>1, <1>2

\* A step that keeps the file and a beginning of what is under way.
LEMMA StillContiguous ==
  ASSUME AInv, talk' = talk \/ talk' = NULL, file' = file, wire' \in Seq(Buffer),
         Len(wire') <= Len(wire), \A i \in 1 .. Len(wire') : wire'[i] = wire[i],
         \A d \in Day : log'[d] \in Nat /\ log'[d] >= log[d]
  PROVE  Contiguous'
  <1> SUFFICES ASSUME talk' # NULL
               PROVE  /\ Sent' <= log'[talk']
                      /\ \A i \in 1 .. Len(file') : file'[i] = <<talk', i>>
                      /\ \A i \in 1 .. Len(wire') : wire'[i] = <<talk', Len(file') + i>>
    BY DEF Contiguous
  <1>1. talk' = talk /\ talk # NULL /\ talk \in Day
    BY DEF AInv, TypeOK
  <1>2. Sent <= log[talk] /\ log[talk] \in Nat /\ log'[talk] \in Nat /\ log'[talk] >= log[talk]
    BY <1>1 DEF AInv, TypeOK, Contiguous
  <1>3. Sent' <= Sent /\ Sent' \in Nat /\ Sent \in Nat
    BY DEF AInv, TypeOK, Sent
  <1>4. \A i \in 1 .. Len(file') : file'[i] = <<talk', i>>
    BY <1>1 DEF AInv, Contiguous
  <1>5. \A i \in 1 .. Len(wire') : wire'[i] = <<talk', Len(file') + i>>
    <2>1. \A i \in 1 .. Len(wire') : i \in 1 .. Len(wire)
      BY DEF AInv, TypeOK
    <2> QED BY <1>1, <2>1 DEF AInv, Contiguous
  <1>6. Sent' <= log'[talk']
    BY <1>1, <1>2, <1>3
  <1> QED BY <1>4, <1>5, <1>6

-----------------------------------------------------------------------------
(* One lemma per group of actions                                             *)

LEMMA WorldStep ==
  ASSUME ConstantsAssumption, AInv, Grow \/ Midnight
  PROVE  AInv'
  <1> USE DEF ConstantsAssumption, AInv, envVars, fileVars, agentVars, netVars, Day, NULL
  <1>1. CASE Grow
    <2>1. log' \in [Day -> 0 .. MaxLen] /\ \A d \in Day : log'[d] >= log[d]
      BY <1>1, SMTT(60) DEF Grow, TypeOK
    <2>2. UNCHANGED <<today, nfault, agentVars, fileVars, netVars>>
      BY <1>1 DEF Grow
    <2>3. TypeOK'
      BY <2>1, <2>2 DEF TypeOK
    <2>4. Opened'
      <3>1. pc \in Reading => file_name \in Day
        BY DEF Opened, TypeOK
      <3>2. pc \in Reading => a <= log'[file_name]
        BY <2>1, <3>1 DEF Opened, TypeOK
      <3> QED BY <2>2, <3>2 DEF Opened
    <2>5. Connected' /\ InStep'
      BY <2>2 DEF Connected, InStep, Sent, Reading
    <2>6. Contiguous'
      BY <2>1, <2>2, StillContiguous DEF TypeOK
    <2> QED BY <2>3, <2>4, <2>5, <2>6
  <1>2. CASE Midnight
    <2>1. today' \in 1 .. LastDay
      BY <1>2 DEF Midnight, TypeOK
    <2> QED BY <1>2, <2>1, SMTT(60)
               DEF Midnight, TypeOK, Opened, Connected, Contiguous, InStep, Sent, Reading
  <1> QED BY <1>1, <1>2

LEMMA HangupStep ==
  ASSUME ConstantsAssumption, AInv,
         \/ Killed \/ OpenFails \/ EndOfDay \/ Close
  PROVE  AInv'
  <1> USE DEF ConstantsAssumption, AInv, envVars, fileVars, agentVars, netVars, Day, NULL
  <1>1. Hangup /\ NoFile /\ UNCHANGED envVars /\ pc' \in {"down", "connect"}
    BY DEF Killed, OpenFails, EndOfDay, Close, Goes
  <1>2. g_date' \in Day /\ g_retry_count' \in 0 .. MAX_RETRY_COUNT /\ nfault' \in 0 .. MaxFaults
    BY SMTT(60) DEF Killed, OpenFails, EndOfDay, Close, Fault, TypeOK
  <1>3. errno' \in BOOLEAN
    BY Zenon DEF Killed, OpenFails, EndOfDay, Close, TypeOK
  <1>4. /\ client_socket' = "none" /\ peer' \in {"open", "reset", "eof"}
        /\ UNCHANGED <<g_file_name, talk, file>>
        /\ wire' \in Seq(Buffer) /\ Len(wire') <= Len(wire)
        /\ \A i \in 1 .. Len(wire') : wire'[i] = wire[i]
    BY <1>1, HangupKeeps
  <1>5. TypeOK'
    BY <1>1, <1>2, <1>3, <1>4 DEF TypeOK, NoFile
  <1>6. Opened' /\ Connected' /\ InStep'
    BY <1>1, <1>4 DEF NoFile, Opened, Connected, InStep, Reading
  <1>7. Contiguous'
    BY <1>1, <1>4, StillContiguous DEF TypeOK
  <1> QED BY <1>5, <1>6, <1>7

LEMMA ConnectStep ==
  ASSUME ConstantsAssumption, AInv, Start \/ ConnectFails \/ Connect \/ RecvName \/ RecvFails \/ Open
  PROVE  AInv'
  <1> USE DEF ConstantsAssumption, AInv, envVars, fileVars, agentVars, netVars, Day, NULL, Goes
  <1>1. CASE Start
    <2>1. errno' \in BOOLEAN
      BY <1>1, Zenon DEF Start
    <2> QED BY <1>1, <2>1, SMTT(60)
               DEF Start, TypeOK, Opened, Connected, Contiguous, InStep, Sent, Reading
  <1>2. CASE ConnectFails
    BY <1>2, SMTT(60)
       DEF ConnectFails, MayRetry, Fault, TypeOK, Opened, Connected, Contiguous, InStep,
           Sent, Reading
  <1>3. CASE Connect
    <2>1. CASE talk = NULL
      BY <1>3, <2>1 DEF Connect, TypeOK, Opened, Connected, Contiguous, InStep, Sent, Reading
    <2>2. CASE talk # NULL
      BY <1>3, <2>2 DEF Connect, TypeOK, Opened, Connected, Contiguous, InStep, Sent, Reading
    <2> QED BY <2>1, <2>2
  <1>4. CASE RecvName
    BY <1>4 DEF RecvName, TypeOK, Opened, Connected, Contiguous, InStep, Sent, Reading
  <1>5. CASE RecvFails
    <2>1. nfault' \in 0 .. MaxFaults
      BY <1>5 DEF RecvFails, Fault, TypeOK
    <2>2. TypeOK'
      BY <1>5, <2>1 DEF RecvFails, TypeOK
    <2>3. UNCHANGED <<envVars, fileVars, netVars>>
      BY <1>5 DEF RecvFails
    <2> QED BY <1>5, <2>2, <2>3 DEF RecvFails, Opened, Connected, Contiguous, InStep, Sent, Reading
  <1>6. CASE Open
    BY <1>6, SMTT(60)
       DEF Open, Exists, TypeOK, Opened, Connected, Contiguous, InStep, Sent, Reading
  <1> QED BY <1>1, <1>2, <1>3, <1>4, <1>5, <1>6

LEMMA ReadStep ==
  ASSUME ConstantsAssumption, AInv, Read \/ ReadEof \/ TooLong \/ Wait \/ Reopen \/ ReopenFails
  PROVE  AInv'
  <1> USE DEF ConstantsAssumption, AInv, envVars, fileVars, agentVars, netVars, Day, NULL, Goes
  <1>1. CASE Read
    <2>1. file_name \in Day /\ a + 1 \in 1 .. MaxLen /\ a + 1 <= log[file_name]
      BY <1>1 DEF Read, TypeOK, Opened, Reading
    <2>2. buf' \in Buffer
      BY <1>1, <2>1 DEF Read, Buffer
    <2>3. TypeOK'
      BY <1>1, <2>1, <2>2 DEF Read, TypeOK, Opened
    <2> QED BY <1>1, <2>1, <2>3, SMTT(60)
               DEF Read, TypeOK, Opened, Connected, Contiguous, InStep, Sent, Reading
  <1>2. CASE ReadEof \/ TooLong
    BY <1>2, ZenonT(60)
       DEF ReadEof, TooLong, TypeOK, Opened, Connected, Contiguous, InStep, Sent, Reading
  <1>3. CASE Wait
    BY <1>3, SMTT(60)
       DEF Wait, WaitedTooLong, TypeOK, Opened, Connected, Contiguous, InStep, Sent,
           Reading
  <1>4. CASE Reopen
    BY <1>4 DEF Reopen, Resumed, TypeOK, Opened, Connected, Contiguous, InStep, Sent, Reading
  <1>5. CASE ReopenFails
    <2>1. nfault' \in 0 .. MaxFaults
      BY <1>5 DEF ReopenFails, Fault, TypeOK
    <2>2. TypeOK'
      BY <1>5, <2>1 DEF ReopenFails, TypeOK
    <2>3. UNCHANGED <<envVars, fileVars, netVars>>
      BY <1>5 DEF ReopenFails
    <2> QED BY <1>5, <2>2, <2>3 DEF ReopenFails, Opened, Connected, Contiguous, InStep, Sent, Reading
  <1> QED BY <1>1, <1>2, <1>3, <1>4, <1>5

LEMMA SendStep ==
  ASSUME ConstantsAssumption, AInv, Send \/ SendFails
  PROVE  AInv'
  <1> USE DEF ConstantsAssumption, AInv, envVars, fileVars, agentVars, netVars, Day, NULL, Goes
  <1>1. CASE Send /\ client_socket = "open"
    <2>1. buf = <<talk, a>> /\ a \in 1 .. log[talk] /\ Sent = a - 1 /\ talk \in Day
      BY <1>1 DEF Send, TypeOK, Opened, Connected, InStep, Reading
    <2>2. buf \in Buffer
      BY <2>1 DEF Buffer, TypeOK
    <2>3. /\ wire' \in Seq(Buffer) /\ Len(wire') = Len(wire) + 1 /\ file' = file
          /\ wire'[Len(wire) + 1] = <<talk, a>>
          /\ \A i \in 1 .. Len(wire) : wire'[i] = wire[i]
      <3>1. wire \in Seq(Buffer) /\ wire' = Append(wire, buf) /\ file' = file
        BY <1>1 DEF Send, TypeOK
      <3> HIDE DEF AInv
      <3> QED BY <2>1, <2>2, <3>1
    <2>4. Sent' = a
      BY <2>1, <2>3 DEF Sent, TypeOK
    <2>5. TypeOK'
      BY <1>1, <2>3 DEF Send, TypeOK
    <2>6. Opened' /\ Connected'
      BY <1>1 DEF Send, TypeOK, Opened, Connected, Reading
    <2>7. InStep'
      BY <1>1, <2>4 DEF Send, InStep
    <2>8. Contiguous'
      <3>1. talk' = talk /\ log' = log /\ Sent' <= log[talk]
        BY <1>1, <2>1, <2>4 DEF Send
      <3>2. Len(file) + Len(wire) + 1 = a
        BY <2>1 DEF Sent, TypeOK
      <3>3. \A i \in 1 .. Len(wire) + 1 : wire'[i] = <<talk, Len(file) + i>>
        <4> SUFFICES ASSUME NEW i \in 1 .. Len(wire) + 1 PROVE wire'[i] = <<talk, Len(file) + i>>
          OBVIOUS
        <4>1. CASE i = Len(wire) + 1
          <5>1. Len(file) + i = a
            BY <3>2, <4>1 DEF TypeOK
          <5> QED BY <2>3, <4>1, <5>1
        <4>2. CASE i # Len(wire) + 1
          <5>1. i \in 1 .. Len(wire)
            BY <4>2 DEF TypeOK
          <5> QED BY <2>1, <2>3, <5>1, SMTT(60) DEF Contiguous
        <4> QED BY <4>1, <4>2
      <3> QED BY <2>1, <2>3, <3>1, <3>3 DEF Contiguous
    <2> QED BY <2>5, <2>6, <2>7, <2>8
  <1>2. CASE Send /\ client_socket # "open"
    BY <1>2 DEF Send, TypeOK, Opened, Connected, Contiguous, InStep, Sent, Reading
  <1>3. CASE SendFails
    BY <1>3 DEF SendFails, TypeOK, Opened, Connected, Contiguous, InStep, Sent, Reading
  <1> QED BY <1>1, <1>2, <1>3

LEMMA TalkStep ==
  ASSUME ConstantsAssumption, AInv, TalkNext \/ TalkWriteFails
  PROVE  AInv'
  <1> USE DEF ConstantsAssumption, AInv, envVars, fileVars, agentVars, netVars, Day, NULL
  <1>1. CASE TalkReceives
    <2>1. wire # <<>> /\ talk # NULL /\ wire \in Seq(Buffer) /\ file \in Seq(Buffer)
      BY <1>1 DEF TalkReceives, TypeOK
    <2>2. /\ Head(wire) = wire[1] /\ wire[1] \in Buffer /\ Tail(wire) \in Seq(Buffer)
          /\ Len(wire) > 0 /\ Len(Tail(wire)) = Len(wire) - 1
          /\ \A i \in 1 .. Len(wire) - 1 : Tail(wire)[i] = wire[i + 1]
      BY <2>1
    <2>3. /\ file' \in Seq(Buffer) /\ Len(file') = Len(file) + 1
          /\ file'[Len(file) + 1] = wire[1]
          /\ \A i \in 1 .. Len(file) : file'[i] = file[i]
      BY <1>1, <2>1, <2>2 DEF TalkReceives
    <2>4. Sent' = Sent
      BY <1>1, <2>1, <2>2, <2>3 DEF TalkReceives, Sent
    <2>5. wire' = Tail(wire) /\ UNCHANGED <<log, talk>>
      BY <1>1 DEF TalkReceives
    <2>6. TypeOK'
      BY <1>1, <2>2, <2>3 DEF TalkReceives, TypeOK
    <2>7. Opened' /\ Connected' /\ InStep'
      BY <1>1, <2>4 DEF TalkReceives, Opened, Connected, InStep, Reading
    <2>8. \A i \in 1 .. Len(file') : file'[i] = <<talk, i>>
      <3>1. 1 \in 1 .. Len(wire) /\ wire[1] = <<talk, Len(file) + 1>>
        BY <2>1, <2>2 DEF Contiguous
      <3>2. \A i \in 1 .. Len(file') : i \in 1 .. Len(file) \/ i = Len(file) + 1
        BY <2>1, <2>3
      <3> QED BY <2>1, <2>3, <3>1, <3>2 DEF Contiguous
    <2>9. \A i \in 1 .. Len(wire') : wire'[i] = <<talk, Len(file') + i>>
      <3> SUFFICES ASSUME NEW i \in 1 .. Len(wire) - 1
                   PROVE  Tail(wire)[i] = <<talk, Len(file) + 1 + i>>
        BY <2>2, <2>3, <2>5
      <3>1. wire[i + 1] = <<talk, Len(file) + (i + 1)>>
        BY <2>1 DEF Contiguous
      <3>2. Len(file) + (i + 1) = Len(file) + 1 + i
        BY <2>1
      <3> QED BY <2>2, <3>1, <3>2
    <2>10. Contiguous'
      BY <2>4, <2>5, <2>8, <2>9 DEF Contiguous
    <2> QED BY <2>6, <2>7, <2>10
  <1>2. CASE TalkReset
    BY <1>2, SMTT(60)
       DEF TalkReset, Rotated, TypeOK, Opened, Connected, Contiguous, InStep, Sent,
           Reading
  <1>3. CASE TalkEof
    BY <1>3 DEF TalkEof, TypeOK, Opened, Connected, Contiguous, InStep, Sent, Reading
  <1>4. CASE TalkWriteFails
    BY <1>4 DEF TalkWriteFails, Fault, TypeOK, Opened, Connected, Contiguous, InStep, Sent, Reading
  <1> QED BY <1>1, <1>2, <1>3, <1>4 DEF TalkNext

-----------------------------------------------------------------------------
(* Every reachable state satisfies the invariant (agent.c:160-380 with         *)
(* server.c:205-268).                                                          *)
THEOREM AgentCorrect == ConstantsAssumption => (Spec => []AInv)
  <1> SUFFICES ASSUME ConstantsAssumption PROVE Spec => []AInv
    OBVIOUS
  <1>1. Init => AInv
    BY InitAInv
  <1>2. AInv /\ [Next]_vars => AInv'
    <2>1. ASSUME AInv, Next PROVE AInv'
      BY <2>1, WorldStep, HangupStep, ConnectStep, ReadStep, SendStep, TalkStep DEF Next, AgentNext
    <2>2. ASSUME AInv, UNCHANGED vars PROVE AInv'
      BY <2>2, SMTT(60)
         DEF AInv, vars, envVars, fileVars, agentVars, netVars, TypeOK, Opened, Connected,
             Contiguous, InStep, Sent
    <2> QED BY <2>1, <2>2
  <1> QED BY <1>1, <1>2, PTL DEF Spec

(* While a connection is served, what the server has written and what is under *)
(* way is the log it asked for, from the first byte on: reopening the file at  *)
(* the remembered position skips and repeats nothing (agent.c:260-269,         *)
(* 318-332).                                                                   *)
THEOREM AgentSendsPrefix == ConstantsAssumption => (Spec => []DownloadIsPrefix)
  BY AgentCorrect, PrefixFromContiguous, PTL
=============================================================================
