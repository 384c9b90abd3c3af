--------------------------- MODULE ServicesProof ----------------------------
(* What is proved of the parts of Services, for any number of clients, restarts *)
(* and faults, and then of all of them.                                         *)
(*                                                                              *)
(* The print spooler (Printd): what it has answered stays in the spool, no      *)
(* request is forgotten or queued twice, the printer thread never sleeps over a *)
(* job, and jobs keep their order.  Three invariants, each proved from the ones *)
(* before it: the numbers (TInv), the files (SpoolInv) and the places of a      *)
(* request (PendInv).  The actions come in the groups of NextCases: a client's  *)
(* thread, the printer thread, and the start, the end and the signals.          *)
(*                                                                              *)
(* The reader of the printer's answer (PrinterStatus): what it goes by has been *)
(* sent, and with whole messages it stands where the answer says.               *)
(* IdsAgentProof is about the agent.                                            *)
EXTENDS Services, FiniteSetTheorems, SequenceTheorems, WellFoundedInduction, TLAPS

-----------------------------------------------------------------------------
(* Job numbers: never more than clients that got one, so that they stay in    *)
(* JobId; the job file is not ahead of nextjob (printd.c:239-265).            *)

Numbered == {c \in Client : cid[c] # 0}

NumberInv ==
  /\ nextjob <= Cardinality(Numbered) + 1
  /\ jobno <= Cardinality(Numbered) + 1
  /\ up => nextjob >= 1 /\ jobno <= nextjob
  /\ \A c \in Client : cpc[c] \in {"idle", "header"} => cid[c] = 0
  /\ \A c \in Client : cpc[c] \notin {"idle", "header", "failed"} => cid[c] # 0
  /\ \A c \in answered : cid[c] # 0

TInv == TypeOK /\ NumberInv

LEMMA CardClient == Cardinality(Client) \in Nat /\ JobId \subseteq Nat \ {0}
  BY FS_CardinalityType, PrintdAssumption DEF JobId

LEMMA CardNumbered == Cardinality(Numbered) \in Nat /\ Cardinality(Numbered) <= Cardinality(Client)
  BY FS_CardinalityType, FS_Subset, PrintdAssumption DEF Numbered

LEMMA InitTInv == Init => TInv
  <1> SUFFICES ASSUME Init PROVE TInv
    OBVIOUS
  <1> USE CardClient, CardNumbered, PrintdAssumption
  <1>1. TypeOK
    <2>1. jobno \in 0 .. Cardinality(Client) + 1 /\ nextjob \in 0 .. Cardinality(Client) + 1
      BY DEF Init
    <2>2. data \in [JobId -> Client \cup {None}] /\ reqs \in [JobId -> Client \cup {"short",
        None}]
      BY DEF Init
    <2>3. up \in BOOLEAN /\ reread \in BOOLEAN
      BY Zenon DEF Init
    <2>4. restarts \in 0 .. MaxRestarts /\ jobs \in Seq(JobId)
      BY DEF Init
    <2>5. cpc \in [Client -> ClientPC] /\ cid \in [Client -> JobId \cup {0}]
      BY DEF Init, ClientPC
    <2>6. jp \in JobId \cup {0} /\ ppc \in PrinterPC /\ (jp = 0) = (ppc \in {"check", "asleep"})
      BY DEF Init, PrinterPC
    <2> QED BY <2>1, <2>2, <2>3, <2>4, <2>5, <2>6 DEF Init, TypeOK
  <1>2. NumberInv
    BY DEF Init, NumberInv
  <1> QED BY <1>1, <1>2 DEF TInv

LEMMA ClientTInv ==
  ASSUME TInv, NEW c \in Client, ClientThread(c)
  PROVE  TInv'
  <1> USE CardClient, CardNumbered, PrintdAssumption DEF TInv, TypeOK, NumberInv, ClientPC, At,
      Goto, disk, life, thread, history, clients
  <1>1. CASE Accept(c)
    BY <1>1 DEF Accept, Numbered
  <1>2. CASE HeaderFails(c)
    BY <1>2 DEF HeaderFails, Numbered
  <1>4. CASE CreatData(c)
    BY <1>4, SMTT(60) DEF CreatData, Numbered
  <1>5. CASE Receive(c)
    BY <1>5, SMTT(60) DEF Receive, Numbered
  <1>6. CASE CreatReq(c)
    <2>1. reqs' \in [JobId -> Client \cup {"short", None}] /\ cpc' \in [Client -> ClientPC]
      BY <1>6 DEF CreatReq
    <2> QED BY <1>6, <2>1 DEF CreatReq, Numbered
  <1>7. CASE WriteReq(c)
    <2>1. PICK l \in {"answer", "undo"} : cpc' = [cpc EXCEPT ![c] = l]
      BY <1>7 DEF WriteReq
    <2>2. cpc' \in [Client -> ClientPC]
      BY <2>1
    <2>4. PICK x \in {c, None} : reqs' = [reqs EXCEPT ![cid[c]] = x]
      BY <1>7 DEF WriteReq
    <2>5. reqs' \in [JobId -> Client \cup {"short", None}]
      BY <2>4
    <2>3. /\ cpc[c] = "writereq"
          /\ UNCHANGED <<jobno, data, up, restarts, toscan, nextjob, jobs, cid, answered, ppc, jp,
                         signals, reread, printed, canceled>>
      BY <1>7 DEF WriteReq
    <2> QED BY <2>1, <2>2, <2>3, <2>5, SMTT(60) DEF Numbered
  <1>8. CASE Undo(c)
    BY <1>8 DEF Undo, Numbered
  <1>9. CASE Answer(c)
    BY <1>9, SMTT(60) DEF Answer, Numbered
  <1>10. CASE AddJob(c)
    BY <1>10, SMTT(60) DEF AddJob, Numbered
  <1>3. CASE GetNewJobno(c)
    <2>1. c \in Client \ Numbered /\ Numbered' = Numbered \cup {c}
      BY <1>3 DEF GetNewJobno, Numbered
    <2>2. IsFiniteSet(Numbered)
      BY FS_Subset DEF Numbered
    <2>3. Cardinality(Numbered') = Cardinality(Numbered) + 1
      BY <2>1, <2>2, FS_AddElement
    <2>4. Numbered' \subseteq Client
      BY <2>1 DEF Numbered
    <2>5. Cardinality(Numbered') <= Cardinality(Client)
      BY <2>4, FS_Subset
    <2>6. nextjob \in JobId
      BY <2>3, <2>5, <1>3 DEF GetNewJobno, JobId
    <2> QED BY <1>3, <2>3, <2>5, <2>6, SMTT(60) DEF GetNewJobno
  <1> QED BY <1>1, <1>2, <1>3, <1>4, <1>5, <1>6, <1>7, <1>8, <1>9, <1>10 DEF ClientThread

LEMMA PrinterTInv ==
  ASSUME TInv, PrinterThread
  PROVE  TInv'
  <1> USE CardClient, CardNumbered DEF TInv, TypeOK, NumberInv, PrinterPC, Printer,
                                       PrinterGoes, disk, life, clients, history, Numbered
  <1>1. CASE Check
    <2>1. CASE jobs = <<>>
      BY <1>1, <2>1 DEF Check
    <2>2. CASE jobs # <<>>
      <3>1. Head(jobs) \in JobId /\ Tail(jobs) \in Seq(JobId)
        BY <2>2
      <3>2. jp' \in JobId /\ jobs' \in Seq(JobId) /\ ppc' = "jobno"
        BY <1>1, <2>2, <3>1 DEF Check, Removed
      <3>3. UNCHANGED <<disk, life, nextjob, clients, signals, reread, history>>
        BY <1>1, <2>2 DEF Check
      <3> QED BY <3>2, <3>3, SMTT(60)
    <2> QED BY <2>1, <2>2
  <1>2. CASE UpdateJobno
    BY <1>2 DEF UpdateJobno, JobnoWritten
  <1>3. CASE Config
    <2>1. reread' \in BOOLEAN
      BY <1>3, Zenon DEF Config
    <2> QED BY <1>3, <2>1 DEF Config
  <1>4. CASE Cancel
    BY <1>4 DEF Cancel
  <1>5. CASE OpenData
    BY <1>5 DEF OpenData
  <1>6. CASE SendFails
    BY <1>6 DEF SendFails
  <1>7. CASE Send
    BY <1>7 DEF Send
  <1>8. CASE StatusFails
    BY <1>8 DEF StatusFails, Refused
  <1>9. CASE StatusOk
    BY <1>9 DEF StatusOk
  <1>10. CASE UnlinkData
    BY <1>10 DEF UnlinkData
  <1>11. CASE UnlinkReq
    BY <1>11 DEF UnlinkReq
  <1>12. CASE Defer
    <2>1. jp \in JobId /\ Replaced \in Seq(JobId)
      BY <1>12 DEF Defer, Replaced
    <2> QED BY <1>12, <2>1 DEF Defer
  <1> QED BY <1>1, <1>2, <1>3, <1>4, <1>5, <1>6, <1>7, <1>8, <1>9, <1>10, <1>11, <1>12
          DEF PrinterThread

LEMMA LifeTInv ==
  ASSUME TInv, SomeSignal \/ BuildQ \/ Hup \/ Dies \/ Start
  PROVE  TInv'
  <1> USE CardClient, CardNumbered, PrintdAssumption DEF TInv, TypeOK, NumberInv, ClientPC,
      PrinterPC, disk, life, clients, thread, history, Numbered
  <1>1. CASE SomeSignal
    BY <1>1 DEF SomeSignal, Signal, Woken
  <1>2. ASSUME NEW i \in JobId, RemoveShort(i)
        PROVE  TInv'
    BY <1>2 DEF RemoveShort
  <1>3. ASSUME NEW i \in JobId, AddOnStart(i)
        PROVE  TInv'
    BY <1>3 DEF AddOnStart
  <1>4. CASE Hup
    BY <1>4 DEF Hup
  <1>5. CASE Dies
    <2>1. reread' \in BOOLEAN /\ up' \in BOOLEAN /\ ~up'
      BY <1>5, Zenon DEF Dies
    <2>2. cpc' \in [Client -> ClientPC]
      BY <1>5 DEF Dies
    <2>3. NumberInv'
      BY <1>5, <2>1 DEF Dies
    <2> QED BY <1>5, <2>1, <2>2, <2>3 DEF Dies
  <1>6. CASE Start
    BY <1>6 DEF Start, FirstNumber
  <1> QED BY <1>1, <1>2, <1>3, <1>4, <1>5, <1>6 DEF BuildQ

LEMMA NextCases ==
  ASSUME Next
  PROVE  (\E c \in Client : ClientThread(c)) \/ PrinterThread
           \/ (SomeSignal \/ BuildQ \/ Hup \/ Dies \/ Start)
  BY DEF Next, Killed, InitFails

(* Every state keeps the types, and the numbers given out are those of        *)
(* clients, also across restarts with a stale job file (printd.c:239-265).    *)
THEOREM NumbersCorrect == Spec => []TInv
  <1>1. Init => TInv
    BY InitTInv
  <1>2. TInv /\ [Next]_vars => TInv'
    <2>1. ASSUME TInv, UNCHANGED vars PROVE TInv'
      BY <2>1 DEF TInv, TypeOK, NumberInv, vars, disk, life, clients, thread, history, Numbered
    <2> QED BY <2>1, ClientTInv, PrinterTInv, LifeTInv, NextCases
  <1> QED BY <1>1, <1>2, PTL DEF Spec

(* Type correctness: get_newjobno never leaves JobId (printd.c:256-265).      *)
THEOREM TypeCorrect == Spec => []TypeOK
  <1>1. TInv => TypeOK
    BY DEF TInv
  <1> QED BY <1>1, NumbersCorrect, PTL

(* The number update_jobno writes never decreases, although nextjob is read   *)
(* without joblock and the daemon dies and starts again (printd.c:239-249).   *)
THEOREM JobnoNeverBack == Spec => JobnoGrows
  <1>1. TInv /\ [Next]_vars => [jobno' >= jobno]_jobno
    <2> SUFFICES ASSUME TInv, Next, jobno' # jobno PROVE jobno' >= jobno
      BY DEF vars, disk
    <2>1. ASSUME NEW c \in Client, ClientThread(c) PROVE jobno' = jobno
      BY <2>1 DEF ClientThread, Accept, HeaderFails, GetNewJobno, CreatData, Receive, CreatReq,
                  WriteReq, Undo, Answer, AddJob, disk
    <2>2. CASE PrinterThread
      <3>1. CASE UpdateJobno
        BY <3>1 DEF UpdateJobno, JobnoWritten, TInv, NumberInv, Printer, TypeOK
      <3> QED BY <2>2, <3>1 DEF PrinterThread, Check, Config, Cancel, OpenData, SendFails,
                                Send, StatusFails, StatusOk, UnlinkData, UnlinkReq, Defer,
                                disk
    <2>3. CASE SomeSignal \/ BuildQ \/ Hup \/ Dies \/ Start
      BY <2>3 DEF SomeSignal, Signal, BuildQ, RemoveShort, AddOnStart, Hup, Dies, Start, disk
    <2> QED BY <2>1, <2>2, <2>3, NextCases
  <1> QED BY <1>1, NumbersCorrect, PTL DEF Spec, JobnoGrows

-----------------------------------------------------------------------------
(* The spool: whatever is queued or has a request file belongs to a client    *)
(* with that number, so that a client whose number is its own finds its files *)
(* touched by nobody else; the printer removes them when they are printed.    *)

\* i is an element of s.
In(s, i) == \E n \in 1 .. Len(s) : s[n] = i

\* The daemon has job i before it, as far as the printer thread is concerned.
Queued(i) == In(jobs, i) \/ jp = i \/ i \in toscan

\* What holds of the files of a client that shares its number with no other.
Own(c) ==
  /\ Queued(cid[c]) => cpc[c] \in {"done", "failed"}
  /\ cpc[c] \in {"receive", "creatreq", "writereq", "answer"} => data[cid[c]] = c
  /\ cpc[c] = "answer" => reqs[cid[c]] = c
  /\ c \in answered \ printed => data[cid[c]] = c /\ reqs[cid[c]] = c
  /\ (ppc \in {"unlink", "unlinkreq"} /\ jp = cid[c] /\ c \in answered) => c \in printed

SpoolInv ==
  /\ \A i \in JobId : (Queued(i) \/ reqs[i] # None) => \E c \in Client : cid[c] = i
  /\ \A c \in answered : cpc[c] \in {"add", "done"}
  /\ ~up => /\ jobs = <<>> /\ jp = 0 /\ toscan = {}
            /\ \A c \in Client : cpc[c] \in {"idle", "failed", "done"}
  /\ \A c \in Client : cid[c] # 0 /\ ~Renumbered(c) => Own(c)

LEMMA InNone == \A i : ~In(<<>>, i)
  BY DEF In

LEMMA InAppend ==
  ASSUME NEW s \in Seq(JobId), NEW e \in JobId, NEW i, In(Append(s, e), i)
  PROVE  In(s, i) \/ i = e
  BY DEF In

LEMMA InTail ==
  ASSUME NEW s \in Seq(JobId), s # <<>>
  PROVE  /\ In(s, Head(s))
         /\ \A i : In(Tail(s), i) => In(s, i)
  BY DEF In

LEMMA InFront ==
  ASSUME NEW s \in Seq(JobId), NEW e \in JobId, NEW i, In(<<e>> \o s, i)
  PROVE  In(s, i) \/ i = e
  BY DEF In

LEMMA ReqsElsewhere ==
  ASSUME TInv, NEW c \in Client, CreatReq(c) \/ WriteReq(c), NEW i \in JobId, i # cid[c]
  PROVE  reqs'[i] = reqs[i]
  <1>1. reqs \in [JobId -> Client \cup {"short", None}]
    BY DEF TInv, TypeOK
  <1> QED BY <1>1 DEF CreatReq, WriteReq

LEMMA ClientSpool ==
  ASSUME TInv, SpoolInv, NEW c \in Client, ClientThread(c)
  PROVE  SpoolInv'
  <1>0. TInv'
    BY ClientTInv
  <1>11. CreatReq(c) \/ WriteReq(c) => \A i \in JobId \ {cid[c]} : reqs'[i] = reqs[i]
    BY ReqsElsewhere
  <1> USE CardClient, PrintdAssumption DEF TInv, TypeOK, NumberInv, SpoolInv, Own, Queued,
                                           Renumbered, ClientPC, At, Goto, disk, life, thread,
                                           history, clients
  <1>1. CASE Accept(c)
    BY <1>1 DEF Accept
  <1>2. CASE HeaderFails(c)
    BY <1>2 DEF HeaderFails
  <1>4. CASE CreatData(c)
    <2>0. /\ UNCHANGED <<reqs, jobs, jp, toscan, cid, answered, ppc, printed, up>>
          /\ \A d \in Client \ {c} : cpc'[d] = cpc[d]
          /\ cpc[c] = "creat" /\ cpc'[c] \in {"receive", "failed"} /\ up
          /\ \A i \in JobId \ {cid[c]} : data'[i] = data[i]
          /\ cpc'[c] = "receive" => data'[cid[c]] = c
      BY <1>4 DEF CreatData
    <2>1. (\A i \in JobId : (Queued(i) \/ reqs[i] # None) => \E d \in Client : cid[d] = i)'
      BY <2>0
    <2>2. ASSUME NEW d \in Client, cid[d] # 0, ~Renumbered(d) PROVE Own(d)'
      <3>1. d # c => cid[d] # cid[c]
        BY <2>2
      <3>2. Own(d) /\ cid[d] \in JobId
        BY <2>2
      <3>3. CASE d = c
        BY <2>0, <3>2, <3>3
      <3>4. CASE d # c
        <4>1. cpc'[d] = cpc[d] /\ data'[cid[d]] = data[cid[d]]
          BY <2>0, <3>1, <3>2, <3>4
        <4> QED BY <2>0, <3>2, <4>1
      <3> QED BY <3>3, <3>4
    <2>3. (~up)' => FALSE
      BY <2>0
    <2>4. (\A e \in answered : cpc[e] \in {"add", "done"})'
      BY <2>0
    <2>5. Renumbered(c)' = Renumbered(c) /\ \A d \in Client : Renumbered(d)' = Renumbered(d)
      BY <2>0
    <2> QED BY <2>0, <2>1, <2>2, <2>3, <2>4, <2>5
  <1>5. CASE Receive(c)
    BY <1>5 DEF Receive
  <1>6. CASE CreatReq(c)
    <2> USE <1>6 DEF CreatReq
    <2>1. \A i \in JobId : reqs'[i] # None => reqs[i] # None \/ i = cid[c]
      OBVIOUS
    <2>2. (\A i \in JobId : (Queued(i) \/ reqs[i] # None) => \E d \in Client : cid[d] = i)'
      BY <2>1
    <2>3. ASSUME NEW d \in Client, cid[d] # 0, ~Renumbered(d) PROVE Own(d)'
      <3>1. d # c => cid[d] # cid[c]
        BY <2>3
      <3>2. CASE d = c
        BY <2>3, <3>2
      <3>3. CASE d # c
        <4>1. cpc'[d] = cpc[d]
          BY <3>3
        <4>2. cid[d] \in JobId /\ cid[d] # cid[c]
          BY <2>3, <3>1, <3>3
        <4>3. reqs'[cid[d]] = reqs[cid[d]]
          BY <1>11, <4>2
        <4> QED BY <2>3, <3>3, <4>1, <4>3
      <3> QED BY <3>2, <3>3
    <2> QED BY <2>2, <2>3
  <1>7. CASE WriteReq(c)
    <2> USE <1>7 DEF WriteReq
    <2>1. \A i \in JobId : reqs'[i] # None => reqs[i] # None \/ i = cid[c]
      OBVIOUS
    <2>2. (\A i \in JobId : (Queued(i) \/ reqs[i] # None) => \E d \in Client : cid[d] = i)'
      BY <2>1
    <2>3. ASSUME NEW d \in Client, cid[d] # 0, ~Renumbered(d) PROVE Own(d)'
      <3>1. d # c => cid[d] # cid[c]
        BY <2>3
      <3>2. CASE d = c
        BY <2>3, <3>2
      <3>3. CASE d # c
        <4>1. cpc'[d] = cpc[d]
          BY <3>3
        <4>2. cid[d] \in JobId /\ cid[d] # cid[c]
          BY <2>3, <3>1, <3>3
        <4>3. reqs'[cid[d]] = reqs[cid[d]]
          BY <1>11, <4>2
        <4> QED BY <2>3, <3>3, <4>1, <4>3
      <3> QED BY <3>2, <3>3
    <2> QED BY <2>2, <2>3
  <1>8. CASE Undo(c)
    <2>0. /\ UNCHANGED <<reqs, jobs, jp, toscan, cid, answered, ppc, printed, up>>
          /\ \A d \in Client \ {c} : cpc'[d] = cpc[d]
          /\ cpc[c] = "undo" /\ cpc'[c] \in {"failed"} /\ up
          /\ \A i \in JobId \ {cid[c]} : data'[i] = data[i]
          /\ cpc'[c] = "receive" => data'[cid[c]] = c
      BY <1>8 DEF Undo
    <2>1. (\A i \in JobId : (Queued(i) \/ reqs[i] # None) => \E d \in Client : cid[d] = i)'
      BY <2>0
    <2>2. ASSUME NEW d \in Client, cid[d] # 0, ~Renumbered(d) PROVE Own(d)'
      <3>1. d # c => cid[d] # cid[c]
        BY <2>2
      <3>2. Own(d) /\ cid[d] \in JobId
        BY <2>2
      <3>3. CASE d = c
        BY <2>0, <3>2, <3>3
      <3>4. CASE d # c
        <4>1. cpc'[d] = cpc[d] /\ data'[cid[d]] = data[cid[d]]
          BY <2>0, <3>1, <3>2, <3>4
        <4> QED BY <2>0, <3>2, <4>1
      <3> QED BY <3>3, <3>4
    <2>3. (~up)' => FALSE
      BY <2>0
    <2>4. (\A e \in answered : cpc[e] \in {"add", "done"})'
      BY <2>0
    <2>5. Renumbered(c)' = Renumbered(c) /\ \A d \in Client : Renumbered(d)' = Renumbered(d)
      BY <2>0
    <2> QED BY <2>0, <2>1, <2>2, <2>3, <2>4, <2>5
  <1>9. CASE Answer(c)
    BY <1>9 DEF Answer
  <1>10. CASE AddJob(c)
    <2> USE <1>10 DEF AddJob
    <2>1. \A i : In(jobs', i) => In(jobs, i) \/ i = cid[c]
      <3>1. cid[c] \in JobId
        OBVIOUS
      <3> QED BY <3>1, InAppend
    <2>2. (\A i \in JobId : (Queued(i) \/ reqs[i] # None) => \E d \in Client : cid[d] = i)'
      BY <2>1
    <2>3. ASSUME NEW d \in Client, cid[d] # 0, ~Renumbered(d) PROVE Own(d)'
      BY <2>1, <2>3
    <2> QED BY <2>2, <2>3
  <1>3. CASE GetNewJobno(c)
    <2> USE <1>3 DEF GetNewJobno
    <2>1. cid[c] = 0 /\ cid'[c] = nextjob /\ nextjob # 0 /\ c \notin answered
      OBVIOUS
    <2>2. (\A i \in JobId : (Queued(i) \/ reqs[i] # None) => \E d \in Client : cid[d] = i)'
      <3>1. \A d \in Client : cid[d] # 0 => cid'[d] = cid[d]
        BY <2>1
      <3> QED BY <3>1
    <2>3. ASSUME NEW d \in Client, cid'[d] # 0, ~Renumbered(d)' PROVE Own(d)'
      <3>1. CASE d = c
        <4>1. nextjob \in JobId
          BY <1>0, <2>1
        <4>2. ~Queued(nextjob)
          <5> SUFFICES ASSUME Queued(nextjob) PROVE FALSE
            OBVIOUS
          <5>1. PICK e \in Client : cid[e] = nextjob
            BY <4>1
          <5>2. e # c /\ cid'[e] = cid'[c]
            BY <2>1, <5>1
          <5> QED BY <2>3, <3>1, <5>2
        <4> QED BY <2>1, <3>1, <4>2
      <3>2. CASE d # c
        <4>1. cid'[d] = cid[d] /\ cpc'[d] = cpc[d]
          BY <3>2
        <4>2. ~Renumbered(d)
          <5> SUFFICES ASSUME NEW e \in Client \ {d}, cid[e] = cid[d] PROVE FALSE
            OBVIOUS
          <5>1. e # c /\ cid'[e] = cid[e]
            BY <2>1, <2>3, <4>1
          <5> QED BY <2>3, <4>1, <5>1
        <4> QED BY <2>3, <4>1, <4>2
      <3> QED BY <3>1, <3>2
    <2> QED BY <2>1, <2>2, <2>3
  <1> QED BY <1>1, <1>2, <1>3, <1>4, <1>5, <1>6, <1>7, <1>8, <1>9, <1>10 DEF ClientThread

LEMMA PrinterSpool ==
  ASSUME TInv, SpoolInv, PrinterThread
  PROVE  SpoolInv'
  <1> USE CardClient, PrintdAssumption DEF TInv, TypeOK, SpoolInv, Own, Queued, Renumbered,
                                           PrinterPC, Printer, PrinterGoes, disk, life,
                                           clients, history
  <1>1. CASE Check
    <2>1. CASE jobs = <<>>
      BY <1>1, <2>1 DEF Check
    <2>2. CASE jobs # <<>>
      <3>3. jobs' = Tail(jobs) /\ jp' = Head(jobs) /\ toscan' = toscan
        BY <1>1, <2>2 DEF Check, Removed
      <3>4. In(jobs, Head(jobs)) /\ \A i : In(Tail(jobs), i) => In(jobs, i)
        BY <2>2, InTail
      <3>1. \A i \in JobId : Queued(i)' => Queued(i)
        BY <3>3, <3>4
      <3>2. UNCHANGED <<disk, life, clients, history>> /\ up /\ ppc' = "jobno"
        BY <1>1, <2>2 DEF Check
      <3>5. ASSUME NEW c \in Client, cid[c] # 0, ~Renumbered(c) PROVE Own(c)'
        <4>1. Own(c) /\ cid[c] \in JobId
          BY <3>5
        <4> QED BY <3>1, <3>2, <4>1
      <3>6. (\A i \in JobId : (Queued(i) \/ reqs[i] # None) => \E d \in Client : cid[d] = i)'
        BY <3>1, <3>2
      <3> QED BY <3>2, <3>5, <3>6
    <2> QED BY <2>1, <2>2
  <1>2. CASE UpdateJobno
    BY <1>2 DEF UpdateJobno
  <1>3. CASE Config
    BY <1>3 DEF Config
  <1>4. CASE Cancel
    BY <1>4 DEF Cancel
  <1>5. CASE OpenData
    BY <1>5 DEF OpenData
  <1>6. CASE SendFails
    BY <1>6 DEF SendFails
  <1>7. CASE Send
    BY <1>7 DEF Send
  <1>8. CASE StatusFails
    BY <1>8 DEF StatusFails, Refused
  <1>9. CASE StatusOk
    <2> USE <1>9 DEF StatusOk
    <2>1. ASSUME NEW c \in Client, cid[c] # 0, ~Renumbered(c) PROVE Own(c)'
      <3>1. Own(c)
        BY <2>1
      <3>2. jp = cid[c] /\ c \in answered => c \in printed'
        BY <3>1
      <3> QED BY <3>1, <3>2
    <2> QED BY <2>1
  <1>10. CASE UnlinkData
    BY <1>10 DEF UnlinkData
  <1>11. CASE UnlinkReq
    BY <1>11 DEF UnlinkReq
  <1>12. CASE Defer
    BY <1>12, InFront DEF Defer, Replaced
  <1> QED BY <1>1, <1>2, <1>3, <1>4, <1>5, <1>6, <1>7, <1>8, <1>9, <1>10, <1>11, <1>12
          DEF PrinterThread

LEMMA LifeSpool ==
  ASSUME TInv, SpoolInv, SomeSignal \/ BuildQ \/ Hup \/ Dies \/ Start
  PROVE  SpoolInv'
  <1> USE CardClient, PrintdAssumption DEF TInv, TypeOK, NumberInv, SpoolInv, Own, Queued,
                                           Renumbered, ClientPC, PrinterPC, disk, life,
                                           clients, thread, history
  <1>1. CASE SomeSignal
    BY <1>1 DEF SomeSignal, Signal, Woken
  <1>2. ASSUME NEW i \in JobId, RemoveShort(i)
        PROVE  SpoolInv'
    <2> USE <1>2 DEF RemoveShort, Unreadable
    <2>1. \A j \in JobId : reqs'[j] # None => reqs[j] # None
      OBVIOUS
    <2>2. (\A j \in JobId : (Queued(j) \/ reqs[j] # None) => \E d \in Client : cid[d] = j)'
      BY <2>1
    <2>3. ASSUME NEW d \in Client, cid[d] # 0, ~Renumbered(d) PROVE Own(d)'
      BY <2>3
    <2> QED BY <2>2, <2>3
  <1>3. ASSUME NEW i \in JobId, AddOnStart(i)
        PROVE  SpoolInv'
    BY <1>3, InAppend DEF AddOnStart
  <1>4. CASE Hup
    BY <1>4 DEF Hup
  <1>5. CASE Dies
    BY <1>5, InNone DEF Dies
  <1>6. CASE Start
    BY <1>6 DEF Start
  <1> QED BY <1>1, <1>2, <1>3, <1>4, <1>5, <1>6 DEF BuildQ

(* The invariant of the spool directory under every step of the client        *)
(* threads, the printer thread and build_qonstart (printd.c:339-520).         *)
THEOREM SpoolCorrect == Spec => []SpoolInv
  <1>1. Init => SpoolInv
    BY CardClient, InNone DEF Init, SpoolInv, Queued
  <1>2. TInv /\ SpoolInv /\ [Next]_vars => SpoolInv'
    <2>1. ASSUME SpoolInv, UNCHANGED vars PROVE SpoolInv'
      BY <2>1 DEF SpoolInv, Own, Queued, Renumbered, vars, disk, life, clients, thread, history
    <2> QED BY <2>1, ClientSpool, PrinterSpool, LifeSpool, NextCases
  <1> QED BY <1>1, <1>2, NumbersCorrect, PTL DEF Spec

(* A document whose client has been told a job number is in the spool until   *)
(* it is printed, whatever fails, unless its number was given again           *)
(* (printd.c:486-503, 514-520, 822-828).                                      *)
THEOREM SpoolKeepsAnswered == Spec => []AnsweredIsSpooled
  <1>1. TInv /\ SpoolInv => AnsweredIsSpooled
    BY DEF TInv, TypeOK, NumberInv, SpoolInv, Own, AnsweredIsSpooled
  <1> QED BY <1>1, NumbersCorrect, SpoolCorrect, PTL

-----------------------------------------------------------------------------
(* The printer thread does not sleep on jobwait with a job on the list unless *)
(* a signal is to come (printd.c:284-293, 688-693).                           *)
THEOREM NoJobSleeps == Spec => []NoLostWakeup
  <1>1. Init => NoLostWakeup
    BY DEF Init, NoLostWakeup
  <1>2. NoLostWakeup /\ [Next]_vars => NoLostWakeup'
    <2> SUFFICES ASSUME NoLostWakeup, [Next]_vars PROVE NoLostWakeup'
      OBVIOUS
    <2> USE DEF NoLostWakeup, disk, life, clients, thread, history
    <2>1. ASSUME NEW c \in Client, ClientThread(c) PROVE NoLostWakeup'
      <3>1. CASE AddJob(c)
        BY <3>1 DEF AddJob
      <3> QED BY <2>1, <3>1 DEF ClientThread, Accept, HeaderFails, GetNewJobno, CreatData,
                                Receive, CreatReq, WriteReq, Undo, Answer
    <2>2. CASE PrinterThread
      <3>1. CASE Check
        BY <3>1 DEF Check, PrinterGoes
      <3>2. ppc' # "asleep" \/ Check
        BY <2>2 DEF PrinterThread, PrinterGoes, UpdateJobno, Config, Cancel, OpenData,
                    SendFails, Send, StatusFails, Refused, StatusOk, UnlinkData, UnlinkReq,
                    Defer
      <3> QED BY <3>1, <3>2
    <2>3. CASE SomeSignal
      BY <2>3 DEF SomeSignal, Signal, Woken
    <2>4. CASE BuildQ \/ Hup \/ Dies \/ Start
      BY <2>4 DEF BuildQ, RemoveShort, AddOnStart, Hup, Dies, Start
    <2>5. CASE UNCHANGED vars
      BY <2>5 DEF vars
    <2> QED BY <2>1, <2>2, <2>3, <2>4, <2>5, NextCases
  <1> QED BY <1>1, <1>2, PTL DEF Spec

\* The step formula of FirstComeFirstPrinted.
OrderStep == ~up' \/ Order' = Order \/ (Order # <<>> /\ Order' = Tail(Order))
               \/ \E i \in JobId : Order' = Append(Order, i)

LEMMA TakenOff ==
  ASSUME NEW s \in Seq(JobId)
  PROVE  /\ <<>> \o s = s
         /\ s # <<>> => <<Head(s)>> \o Tail(s) = s
         /\ \A e \in JobId : <<e>> \o s # <<>> /\ Tail(<<e>> \o s) = s
  OBVIOUS

(* Jobs leave the order of printing at its head and join it at its end: a job *)
(* that is deferred is the next again (printd.c:302-313, 688-693, 835-838).         *)
THEOREM FirstComeFirst == Spec => FirstComeFirstPrinted
  <1>1. TInv /\ TInv' /\ [Next]_vars => [OrderStep]_<<jp, jobs, up>>
    <2> SUFFICES ASSUME TInv, TInv', Next, <<jp, jobs, up>>' # <<jp, jobs, up>> PROVE OrderStep
      BY DEF vars, life, thread
    <2>1. ASSUME NEW i \in JobId, jobs' = Append(jobs, i), jp' = jp PROVE OrderStep
      BY <2>1, SMTT(60) DEF TInv, TypeOK, OrderStep, Order
    <2>2. ASSUME NEW c \in Client, ClientThread(c) PROVE OrderStep
      <3>1. CASE AddJob(c)
        <4>1. cid[c] \in JobId
          BY <3>1 DEF AddJob, At, TInv, TypeOK, NumberInv
        <4> QED BY <2>1, <3>1, <4>1 DEF AddJob, thread
      <3> QED BY <2>2, <3>1 DEF ClientThread, Accept, HeaderFails, GetNewJobno, CreatData,
                                Receive, CreatReq, WriteReq, Undo, Answer, thread, life
    <2>3. CASE PrinterThread
      <3>1. CASE Check
        <4>1. jp = 0 /\ jobs \in Seq(JobId) /\ Order = jobs
          BY <3>1, TakenOff DEF Check, Printer, TInv, TypeOK, Order
        <4>2. jobs # <<>> /\ jp' = Head(jobs) /\ jobs' = Tail(jobs)
          BY <3>1, <4>1 DEF Check, Removed, life
        <4>3. jp' # 0
          BY <4>1, <4>2, CardClient
        <4> QED BY <4>1, <4>2, <4>3, TakenOff DEF OrderStep, Order
      <3>2. CASE Cancel \/ UnlinkReq
        <4>1. jp \in JobId /\ jp # 0 /\ jobs \in Seq(JobId)
          BY <3>2 DEF Cancel, UnlinkReq, Printer, TInv, TypeOK
        <4>2. jp' = 0 /\ jobs' = jobs
          BY <3>2 DEF Cancel, UnlinkReq
        <4>3. Order = <<jp>> \o jobs /\ Order' = jobs
          BY <4>1, <4>2, TakenOff DEF Order
        <4> QED BY <4>1, <4>3, TakenOff DEF OrderStep
      <3>3. CASE Defer
        <4>1. jp \in JobId /\ jp # 0 /\ jobs \in Seq(JobId)
          BY <3>3 DEF Defer, Printer, TInv, TypeOK
        <4>2. jp' = 0 /\ jobs' = <<jp>> \o jobs
          BY <3>3 DEF Defer, Replaced
        <4>3. Order = <<jp>> \o jobs
          BY <4>1 DEF Order
        <4>4. Order' = <<jp>> \o jobs
          BY <4>1, <4>2, TakenOff DEF Order
        <4> QED BY <4>3, <4>4 DEF OrderStep
      <3> QED BY <2>3, <3>1, <3>2, <3>3 DEF PrinterThread, UpdateJobno, Config, OpenData,
                                            SendFails, Send, StatusFails, StatusOk, UnlinkData,
                                            life
    <2>4. CASE SomeSignal \/ Hup
      BY <2>4 DEF SomeSignal, Signal, Hup, life, thread
    <2>5. ASSUME NEW i \in JobId, RemoveShort(i) \/ AddOnStart(i) PROVE OrderStep
      BY <2>1, <2>5 DEF RemoveShort, AddOnStart, thread
    <2>6. CASE Dies
      BY <2>6 DEF Dies, OrderStep
    <2>7. CASE Start
      BY <2>7 DEF Start, OrderStep, Order, thread
    <2> QED BY <2>2, <2>3, <2>4, <2>5, <2>6, <2>7, NextCases DEF BuildQ
  <1> QED BY <1>1, NumbersCorrect, PTL DEF Spec, FirstComeFirstPrinted, OrderStep

-----------------------------------------------------------------------------
(* The places of a request: a complete request is in one of four places, and  *)
(* in that place once.                                                        *)

\* i is in s once at most.
Single(s, i) == \A m, n \in 1 .. Len(s) : s[m] = i /\ s[n] = i => m = n

\* The client's thread has still to add its job.
InHand(c) == cpc[c] \in {"answer", "add"}

\* The job of c is in exactly one place.
Once(c) ==
  LET i == cid[c] IN
    /\ Single(jobs, i)
    /\ In(jobs, i) => jp # i /\ i \notin toscan /\ ~InHand(c)
    /\ jp = i => i \notin toscan /\ ~InHand(c)
    /\ i \in toscan => ~InHand(c)
    /\ In(jobs, i) \/ jp = i \/ i \in toscan \/ InHand(c)

\* The request of c is complete and waits to be printed.
Awaits(c) == cid[c] # 0 /\ reqs[cid[c]] = c /\ ~Renumbered(c) /\ cid[c] \notin canceled

PendInv ==
  /\ \A i \in JobId, c \in Client : reqs[i] = c => cid[c] = i
  /\ up => \A c \in Client : Awaits(c) => Once(c)

LEMMA SingleAppend ==
  ASSUME NEW s \in Seq(JobId), NEW e \in JobId, NEW i
  PROVE  /\ In(Append(s, e), i) <=> In(s, i) \/ i = e
         /\ Single(s, i) /\ (In(s, i) => i # e) => Single(Append(s, e), i)
  <1>1. Len(Append(s, e)) = Len(s) + 1 /\ Append(s, e)[Len(s) + 1] = e
    OBVIOUS
  <1>2. \A n \in 1 .. Len(s) : Append(s, e)[n] = s[n]
    OBVIOUS
  <1>3. 1 .. Len(s) + 1 = 1 .. Len(s) \cup {Len(s) + 1} /\ Len(s) \in Nat
    OBVIOUS
  <1> QED BY <1>1, <1>2, <1>3 DEF In, Single

LEMMA SingleTail ==
  ASSUME NEW s \in Seq(JobId), s # <<>>, NEW i
  PROVE  /\ In(s, i) <=> In(Tail(s), i) \/ i = Head(s)
         /\ Single(s, i) => Single(Tail(s), i) /\ (i = Head(s) => ~In(Tail(s), i))
  <1>1. Len(s) \in Nat \ {0} /\ Len(Tail(s)) = Len(s) - 1 /\ Head(s) = s[1]
    OBVIOUS
  <1>2. \A n \in 1 .. Len(s) - 1 : Tail(s)[n] = s[n + 1]
    OBVIOUS
  <1>3. \A n \in 1 .. Len(s) : n = 1 \/ (n - 1 \in 1 .. Len(s) - 1 /\ Tail(s)[n - 1] = s[n])
    BY <1>1, <1>2
  <1>4. \A n \in 1 .. Len(s) - 1 : n + 1 \in 1 .. Len(s) /\ n + 1 # 1
    BY <1>1
  <1>5. In(s, i) <=> In(Tail(s), i) \/ i = Head(s)
    <2>1. In(s, i) => In(Tail(s), i) \/ i = Head(s)
      BY <1>1, <1>3 DEF In
    <2>2. In(Tail(s), i) => In(s, i)
      BY <1>1, <1>2, <1>4 DEF In
    <2>3. i = Head(s) => In(s, i)
      BY <1>1 DEF In
    <2> QED BY <2>1, <2>2, <2>3
  <1>6. ASSUME Single(s, i) PROVE Single(Tail(s), i)
    <2> SUFFICES ASSUME NEW m \in 1 .. Len(s) - 1, NEW n \in 1 .. Len(s) - 1, Tail(s)[m] = i,
                        Tail(s)[n] = i
                 PROVE  m = n
      BY <1>1 DEF Single
    <2>1. m + 1 = n + 1
      BY <1>2, <1>4, <1>6 DEF Single
    <2> QED BY <2>1
  <1>7. ASSUME Single(s, i), i = Head(s), In(Tail(s), i) PROVE FALSE
    <2>1. PICK n \in 1 .. Len(s) - 1 : Tail(s)[n] = i
      BY <1>1, <1>7 DEF In
    <2>2. s[n + 1] = i /\ s[1] = i /\ n + 1 \in 1 .. Len(s) /\ 1 \in 1 .. Len(s)
      BY <1>1, <1>2, <1>4, <1>7, <2>1
    <2> QED BY <1>4, <1>7, <2>2 DEF Single
  <1> QED BY <1>5, <1>6, <1>7

LEMMA SingleFront ==
  ASSUME NEW s \in Seq(JobId), NEW e \in JobId, NEW i
  PROVE  /\ In(<<e>> \o s, i) <=> In(s, i) \/ i = e
         /\ Single(s, i) /\ (In(s, i) => i # e) => Single(<<e>> \o s, i)
  <1>1. Len(s) \in Nat /\ Len(<<e>> \o s) = Len(s) + 1 /\ (<<e>> \o s)[1] = e
    OBVIOUS
  <1>2. \A n \in 1 .. Len(s) : (<<e>> \o s)[n + 1] = s[n] /\ n + 1 \in 1 .. Len(s) + 1
    OBVIOUS
  <1>3. \A n \in 1 .. Len(s) + 1 : n = 1 \/ (n - 1 \in 1 .. Len(s) /\ (<<e>> \o s)[n] = s[n - 1])
    BY <1>1, <1>2
  <1>4. 1 \in 1 .. Len(s) + 1
    BY <1>1
  <1>5. In(<<e>> \o s, i) <=> In(s, i) \/ i = e
    <2>1. In(<<e>> \o s, i) => In(s, i) \/ i = e
      BY <1>1, <1>3 DEF In
    <2>2. In(s, i) => In(<<e>> \o s, i)
      BY <1>1, <1>2 DEF In
    <2>3. i = e => In(<<e>> \o s, i)
      BY <1>1, <1>4 DEF In
    <2> QED BY <2>1, <2>2, <2>3
  <1>6. ASSUME Single(s, i), In(s, i) => i # e PROVE Single(<<e>> \o s, i)
    <2> SUFFICES ASSUME NEW m \in 1 .. Len(s) + 1, NEW n \in 1 .. Len(s) + 1,
                        (<<e>> \o s)[m] = i, (<<e>> \o s)[n] = i
                 PROVE  m = n
      BY <1>1 DEF Single
    <2>1. CASE i = e
      <3>1. ~In(s, i)
        BY <1>6, <2>1
      <3> QED BY <1>3, <3>1 DEF In
    <2>2. CASE i # e
      <3>1. m - 1 \in 1 .. Len(s) /\ n - 1 \in 1 .. Len(s) /\ s[m - 1] = i /\ s[n - 1] = i
        BY <1>1, <1>3, <2>2
      <3>2. m - 1 = n - 1
        BY <1>6, <3>1 DEF Single
      <3> QED BY <3>2
    <2> QED BY <2>1, <2>2
  <1> QED BY <1>5, <1>6

LEMMA StillOnce ==
  ASSUME PendInv, up, NEW d \in Client, Awaits(d), jobs' = jobs, jp' = jp, toscan' = toscan,
         cid'[d] = cid[d], InHand(d)' = InHand(d)
  PROVE  Once(d)'
  BY DEF PendInv, Once

LEMMA ClientPend ==
  ASSUME TInv, SpoolInv, PendInv, NEW c \in Client, ClientThread(c)
  PROVE  PendInv'
  <1>0. /\ up /\ canceled' = canceled /\ up' /\ toscan' = toscan /\ jp' = jp
        /\ cpc \in [Client -> ClientPC] /\ cid \in [Client -> JobId \cup {0}]
        /\ reqs \in [JobId -> Client \cup {"short", None}] /\ jobs \in Seq(JobId)
    BY DEF TInv, TypeOK, At, ClientThread, Accept, HeaderFails, GetNewJobno, CreatData,
           Receive, CreatReq, WriteReq, Undo, Answer, AddJob, life, history, thread
  <1>a. cpc[c] \notin {"idle", "header", "failed"} => cid[c] \in JobId
    BY <1>0 DEF TInv, NumberInv
  <1>b. ASSUME NEW d \in Client, d # c, cid[d] # 0, ~Renumbered(d) PROVE cid[d] # cid[c]
    BY <1>b DEF Renumbered
  <1>c. ASSUME NEW d \in Client, d # c PROVE cpc'[d] = cpc[d]
    BY <1>c, <1>0 DEF ClientThread, Accept, HeaderFails, GetNewJobno, CreatData, Receive,
                      CreatReq, WriteReq, Undo, Answer, AddJob, Goto
  <1>d. Awaits(c) /\ cpc[c] \in {"creat", "receive", "creatreq", "writereq", "undo"} => FALSE
    BY <1>0 DEF PendInv, SpoolInv, Own, Queued, Once, Awaits, InHand
  <1> USE PrintdAssumption
  <1>1. CASE Accept(c) \/ HeaderFails(c) \/ CreatData(c) \/ Receive(c) \/ Undo(c) \/ Answer(c)
    <2>1. UNCHANGED <<cid, reqs, jobs, canceled>>
      BY <1>1 DEF Accept, HeaderFails, CreatData, Receive, Undo, Answer, disk, history
    <2>2. Awaits(c) => InHand(c)' = InHand(c)
      BY <1>0, <1>1, <1>d DEF Accept, HeaderFails, CreatData, Receive, Undo, Answer, InHand,
                              Awaits, At, Goto, TInv, NumberInv
    <2>3. ASSUME NEW d \in Client, Awaits(d)' PROVE Once(d)'
      <3>1. Awaits(d) /\ InHand(d)' = InHand(d)
        BY <1>c, <2>1, <2>2, <2>3 DEF Awaits, Renumbered, InHand
      <3> QED BY <1>0, <2>1, <3>1, StillOnce
    <2> QED BY <2>1, <2>3 DEF PendInv
  <1>2. CASE GetNewJobno(c)
    <2>1. /\ UNCHANGED <<reqs, jobs, canceled>>
          /\ cid[c] = 0 /\ cpc[c] = "header" /\ cpc'[c] = "creat"
      BY <1>0, <1>2 DEF GetNewJobno, disk, history, At, Goto, TInv, NumberInv
    <2>2. \A d \in Client : d # c => cid'[d] = cid[d]
      BY <1>0, <1>2 DEF GetNewJobno
    <2>3. \A i \in JobId : reqs[i] # c
      BY <2>1, CardClient DEF PendInv
    <2>4. ASSUME NEW d \in Client, Awaits(d)' PROVE Once(d)'
      <3>1. d # c
        <4>1. cid'[c] \in JobId \cup {0}
          BY ClientTInv DEF TInv, TypeOK
        <4> QED BY <2>1, <2>3, <2>4, <4>1 DEF Awaits
      <3>2. ~Renumbered(d)
        <4> SUFFICES ASSUME NEW e \in Client \ {d}, cid[e] = cid[d] PROVE FALSE
          BY DEF Renumbered
        <4>1. e # c /\ cid'[e] = cid'[d]
          BY <2>1, <2>2, <2>4, <3>1 DEF Awaits
        <4> QED BY <2>4, <4>1 DEF Awaits, Renumbered
      <3>3. Awaits(d) /\ InHand(d)' = InHand(d)
        BY <1>c, <2>1, <2>2, <2>4, <3>1, <3>2 DEF Awaits, InHand
      <3> QED BY <1>0, <2>1, <2>2, <3>1, <3>3, StillOnce
    <2>5. \A i \in JobId, d \in Client : reqs'[i] = d => cid'[d] = i
      BY <2>1, <2>2, <2>3 DEF PendInv
    <2> QED BY <2>4, <2>5 DEF PendInv
  <1>3. CASE CreatReq(c) \/ WriteReq(c)
    <2>1. UNCHANGED <<cid, jobs, canceled>> /\ cid[c] \in JobId /\ cpc[c] \in {"creatreq",
        "writereq"}
      BY <1>0, <1>3, <1>a DEF CreatReq, WriteReq, history, At
    <2>2. \A i \in JobId \ {cid[c]} : reqs'[i] = reqs[i]
      BY <1>3, ReqsElsewhere
    <2>3. reqs'[cid[c]] = c => cpc'[c] = "answer" \/ reqs[cid[c]] = c
      BY <1>0, <1>3, <2>1 DEF CreatReq, WriteReq, Goto
    <2>4. reqs'[cid[c]] \in {c, "short", None, reqs[cid[c]]}
      BY <1>0, <1>3, <2>1 DEF CreatReq, WriteReq
    <2>5. \A i \in JobId, d \in Client : reqs'[i] = d => cid'[d] = i
      BY <2>1, <2>2, <2>4 DEF PendInv
    <2>6. ASSUME NEW d \in Client, Awaits(d)' PROVE Once(d)'
      <3>1. CASE d # c
        <4>1. cid[d] # cid[c] /\ cid[d] \in JobId
          BY <1>0, <1>b, <2>1, <2>6, <3>1 DEF Awaits, Renumbered
        <4>2. Awaits(d) /\ InHand(d)' = InHand(d)
          BY <1>c, <2>1, <2>2, <2>6, <3>1, <4>1 DEF Awaits, Renumbered, InHand
        <4> QED BY <1>0, <2>1, <4>2, StillOnce
      <3>2. CASE d = c
        <4>1. ~Renumbered(c) /\ cid[c] # 0 /\ reqs[cid[c]] # c /\ cpc'[c] = "answer"
          BY <1>d, <2>1, <2>3, <2>6, <3>2, CardClient DEF Awaits, Renumbered
        <4>2. ~Queued(cid[c])
          BY <2>1, <4>1 DEF SpoolInv, Own
        <4> QED BY <1>0, <2>1, <3>2, <4>1, <4>2 DEF Once, Queued, InHand, In, Single
      <3> QED BY <3>1, <3>2
    <2> QED BY <2>5, <2>6 DEF PendInv
  <1>4. CASE AddJob(c)
    <2>1. /\ UNCHANGED <<cid, reqs, canceled>> /\ cid[c] \in JobId
          /\ cpc[c] = "add" /\ cpc'[c] = "done"
          /\ jobs' = Append(jobs, cid[c])
      BY <1>0, <1>4, <1>a DEF AddJob, history, disk, At, Goto
    <2>2. ASSUME NEW d \in Client, Awaits(d)' PROVE Once(d)'
      <3>1. Awaits(d)
        BY <2>1, <2>2 DEF Awaits, Renumbered
      <3>2. Once(d)
        BY <1>0, <3>1 DEF PendInv
      <3>3. CASE d = c
        BY <1>0, <2>1, <3>2, <3>3, SingleAppend DEF Once, InHand
      <3>4. CASE d # c
        <4>1. cid[d] # cid[c] /\ InHand(d)' = InHand(d)
          BY <1>b, <1>c, <3>1, <3>4 DEF Awaits, InHand
        <4> QED BY <1>0, <2>1, <3>2, <4>1, SingleAppend DEF Once
      <3> QED BY <3>3, <3>4
    <2> QED BY <2>1, <2>2 DEF PendInv
  <1> QED BY <1>1, <1>2, <1>3, <1>4 DEF ClientThread

LEMMA PrinterPend ==
  ASSUME TInv, SpoolInv, PendInv, PrinterThread
  PROVE  PendInv'
  <1>0. /\ up /\ UNCHANGED <<up, cpc, cid, toscan>>
        /\ jobs \in Seq(JobId) /\ jp \in JobId \cup {0}
        /\ (jp = 0) = (ppc \in {"check", "asleep"})
        /\ reqs \in [JobId -> Client \cup {"short", None}]
        /\ cid \in [Client -> JobId \cup {0}]
    BY DEF TInv, TypeOK, Printer, PrinterThread, Check, UpdateJobno, Config, Cancel, OpenData,
           SendFails, Send, StatusFails, StatusOk, UnlinkData, UnlinkReq, Defer, life, clients
  <1>1. CASE Check \/ Defer
    <2>1. UNCHANGED <<reqs, canceled>>
      BY <1>1 DEF Check, Defer, disk, history
    <2>2. ASSUME NEW d \in Client, Awaits(d)' PROVE Once(d)'
      <3>1. Awaits(d) /\ Once(d) /\ InHand(d)' = InHand(d)
        BY <1>0, <2>1, <2>2 DEF Awaits, Renumbered, PendInv, InHand
      <3>2. cid[d] \in JobId /\ cid[d] # 0 /\ cid'[d] = cid[d]
        BY <1>0, <3>1 DEF Awaits
      <3>3. CASE Check /\ jobs = <<>>
        BY <1>0, <3>1, <3>3 DEF Check, Once
      <3>4. CASE Check /\ jobs # <<>>
        <4>1. jp = 0 /\ jp' = Head(jobs) /\ jobs' = Tail(jobs)
          BY <1>0, <3>4 DEF Check, Removed, Printer
        <4> QED BY <1>0, <3>1, <3>2, <3>4, <4>1, SingleTail DEF Once
      <3>5. CASE Defer
        <4>1. jp \in JobId /\ jp' = 0 /\ jobs' = <<jp>> \o jobs
          BY <1>0, <3>5 DEF Defer, Replaced, Printer
        <4> QED BY <1>0, <3>1, <3>2, <4>1, SingleFront DEF Once
      <3> QED BY <1>1, <3>3, <3>4, <3>5
    <2> QED BY <1>0, <2>1, <2>2 DEF PendInv
  <1>2. CASE Cancel
    <2>1. jobs' = jobs /\ jp \in JobId /\ jp' = 0 /\ reqs' = reqs /\ canceled' = canceled \cup {jp}
      BY <1>0, <1>2 DEF Cancel, Printer, disk, history
    <2>2. ASSUME NEW d \in Client, Awaits(d)' PROVE Once(d)'
      <3>1. Awaits(d) /\ Once(d) /\ InHand(d)' = InHand(d) /\ cid[d] # jp /\ cid[d] # 0
        BY <1>0, <2>1, <2>2 DEF Awaits, Renumbered, PendInv, InHand
      <3> QED BY <1>0, <2>1, <3>1 DEF Once
    <2> QED BY <1>0, <2>1, <2>2 DEF PendInv
  <1>3. CASE UnlinkReq
    <2>1. /\ jobs' = jobs /\ jp \in JobId /\ jp' = 0 /\ canceled' = canceled
          /\ reqs' = [reqs EXCEPT ![jp] = None]
      BY <1>0, <1>3 DEF UnlinkReq, Printer, history
    <2>2. ASSUME NEW d \in Client, Awaits(d)' PROVE Once(d)'
      <3>1. cid[d] \in JobId /\ cid[d] # jp /\ cid[d] # 0
        BY <1>0, <2>1, <2>2, PrintdAssumption DEF Awaits
      <3>2. Awaits(d) /\ Once(d) /\ InHand(d)' = InHand(d)
        BY <1>0, <2>1, <2>2, <3>1 DEF Awaits, Renumbered, PendInv, InHand
      <3> QED BY <1>0, <2>1, <3>1, <3>2 DEF Once
    <2>3. \A i \in JobId, d \in Client : reqs'[i] = d => cid'[d] = i
      BY <1>0, <2>1, PrintdAssumption DEF PendInv
    <2> QED BY <1>0, <2>2, <2>3 DEF PendInv
  <1>4. CASE ~(Check \/ Defer \/ Cancel \/ UnlinkReq)
    <2>1. UNCHANGED <<reqs, jobs, jp, canceled>>
      BY <1>4 DEF PrinterThread, UpdateJobno, Config, OpenData, SendFails, Send, StatusFails,
                  StatusOk, UnlinkData, disk, history
    <2>2. ASSUME NEW d \in Client, Awaits(d)' PROVE Once(d)'
      <3>1. Awaits(d) /\ InHand(d)' = InHand(d)
        BY <1>0, <2>1, <2>2 DEF Awaits, Renumbered, InHand
      <3> QED BY <1>0, <2>1, <3>1, StillOnce
    <2> QED BY <1>0, <2>1, <2>2 DEF PendInv
  <1> QED BY <1>1, <1>2, <1>3, <1>4

LEMMA LifePend ==
  ASSUME TInv, SpoolInv, PendInv, SomeSignal \/ BuildQ \/ Hup \/ Dies \/ Start
  PROVE  PendInv'
  <1>0. /\ cid \in [Client -> JobId \cup {0}] /\ reqs \in [JobId -> Client \cup {"short", None}]
        /\ jobs \in Seq(JobId) /\ UNCHANGED <<cid, canceled>>
    BY DEF TInv, TypeOK, SomeSignal, Signal, BuildQ, RemoveShort, AddOnStart, Hup, Dies, Start,
           clients, history
  <1>1. CASE SomeSignal \/ Hup
    <2>1. UNCHANGED <<up, jobs, jp, toscan, cpc, reqs>> /\ up
      BY <1>1 DEF SomeSignal, Signal, Hup, disk, life, clients, thread
    <2>2. ASSUME NEW d \in Client, Awaits(d)' PROVE Once(d)'
      <3>1. Awaits(d) /\ InHand(d)' = InHand(d)
        BY <1>0, <2>1, <2>2 DEF Awaits, Renumbered, InHand
      <3> QED BY <1>0, <2>1, <3>1, StillOnce
    <2> QED BY <1>0, <2>1, <2>2 DEF PendInv
  <1>2. ASSUME NEW i \in JobId, RemoveShort(i) PROVE PendInv'
    <2>1. /\ UNCHANGED <<up, jobs, jp, cpc>>
          /\ up /\ toscan' = toscan \ {i} /\ reqs[i] = "short"
          /\ reqs' = [reqs EXCEPT ![i] = None]
      BY <1>2 DEF RemoveShort, Unreadable, clients, thread
    <2>2. ASSUME NEW d \in Client, Awaits(d)' PROVE Once(d)'
      <3>1. cid[d] \in JobId /\ cid[d] # i
        BY <1>0, <2>1, <2>2, PrintdAssumption DEF Awaits
      <3>2. Awaits(d) /\ Once(d) /\ InHand(d)' = InHand(d)
        BY <1>0, <2>1, <2>2, <3>1 DEF Awaits, Renumbered, PendInv, InHand
      <3> QED BY <1>0, <2>1, <3>1, <3>2 DEF Once
    <2>3. \A j \in JobId, d \in Client : reqs'[j] = d => cid'[d] = j
      BY <1>0, <2>1, PrintdAssumption DEF PendInv
    <2> QED BY <2>2, <2>3 DEF PendInv
  <1>3. ASSUME NEW i \in JobId, AddOnStart(i) PROVE PendInv'
    <2>1. /\ UNCHANGED <<up, reqs, jp, cpc>> /\ up /\ i \in toscan /\ toscan' = toscan \ {i}
          /\ jobs' = Append(jobs, i)
      BY <1>3 DEF AddOnStart, disk, clients, thread
    <2>2. ASSUME NEW d \in Client, Awaits(d)' PROVE Once(d)'
      <3>1. Awaits(d) /\ Once(d) /\ InHand(d)' = InHand(d)
        BY <1>0, <2>1, <2>2 DEF Awaits, Renumbered, PendInv, InHand
      <3> QED BY <1>0, <2>1, <3>1, SingleAppend DEF Once
    <2> QED BY <1>0, <2>1, <2>2 DEF PendInv
  <1>4. CASE Dies
    BY <1>0, <1>4 DEF Dies, PendInv, disk
  <1>5. CASE Start
    <2>1. /\ UNCHANGED <<reqs, jobs, jp, cpc>>
          /\ ~up /\ toscan' = {i \in JobId : reqs[i] # None}
      BY <1>5 DEF Start, disk, clients, thread
    <2>2. ASSUME NEW d \in Client, Awaits(d)' PROVE Once(d)'
      <3>1. jobs = <<>> /\ jp = 0 /\ ~InHand(d)
        BY <2>1 DEF SpoolInv, InHand
      <3>2. cid[d] \in JobId /\ cid[d] # 0 /\ reqs[cid[d]] # None /\ InHand(d)' = InHand(d)
        BY <1>0, <2>1, <2>2, PrintdAssumption DEF Awaits, InHand
      <3> QED BY <1>0, <2>1, <3>1, <3>2 DEF Once, In, Single
    <2> QED BY <1>0, <2>1, <2>2 DEF PendInv
  <1> QED BY <1>1, <1>2, <1>3, <1>4, <1>5 DEF BuildQ

LEMMA OncePending ==
  ASSUME TInv, NEW c \in Client, Awaits(c), Once(c)
  PROVE  Pending(cid[c]) = 1
  <1> DEFINE i == cid[c]
             L == {n \in 1 .. Len(jobs) : jobs[n] = i}
             K == {k \in {jp} : k = i}
             T == {i} \cap toscan
             H == {d \in Client : cid[d] = i /\ cpc[d] \in {"answer", "add"}}
  <1>1. L = {} \/ \E n : L = {n}
    BY ZenonT(60) DEF Once, Single
  <1>2. K = IF jp = i THEN {jp} ELSE {}
    OBVIOUS
  <1>3. T = IF i \in toscan THEN {i} ELSE {}
    OBVIOUS
  <1>4. H = IF InHand(c) THEN {c} ELSE {}
    <2>1. \A d \in Client : cid[d] = i => d = c
      BY DEF Awaits, Renumbered
    <2> QED BY <2>1 DEF InHand
  <1>5. L # {} <=> In(jobs, i)
    BY DEF In
  <1>6. Cardinality({}) = 0 /\ \A x : Cardinality({x}) = 1
    BY FS_EmptySet, FS_Singleton
  <1>7. Cardinality(L) = (IF In(jobs,
      i) THEN 1 ELSE 0) /\ Cardinality(K) = (IF jp = i THEN 1 ELSE 0)
    BY <1>1, <1>2, <1>5, <1>6
  <1>8. /\ Cardinality(T) = (IF i \in toscan THEN 1 ELSE 0)
        /\ Cardinality(H) = (IF InHand(c) THEN 1 ELSE 0)
    BY <1>3, <1>4, <1>6
  <1>9. Pending(i) = Cardinality(L) + Cardinality(K) + Cardinality(T) + Cardinality(H)
    BY DEF Pending
  <1> HIDE DEF L, K, T, H
  <1> QED BY <1>7, <1>8, <1>9 DEF Once

(* While the daemon runs, every complete request is before it exactly once,   *)
(* also after a restart (printd.c:276-313, 366-382, 514-520, 688-838).        *)
THEOREM RequestsPendOnce == Spec => []PendingOnce
  <1>1. Init => PendInv
    BY PrintdAssumption DEF Init, PendInv, Awaits
  <1>2. TInv /\ SpoolInv /\ PendInv /\ [Next]_vars => PendInv'
    <2>1. ASSUME PendInv, UNCHANGED vars PROVE PendInv'
      BY <2>1 DEF PendInv, Awaits, Once, InHand, Renumbered, vars, disk, life, clients, thread,
                  history
    <2> QED BY <2>1, ClientPend, PrinterPend, LifePend, NextCases
  <1>3. TInv /\ PendInv => PendingOnce
    BY OncePending DEF PendInv, Awaits, PendingOnce
  <1> QED BY <1>1, <1>2, <1>3, NumbersCorrect, SpoolCorrect, PTL DEF Spec

-----------------------------------------------------------------------------
(* The reader of the printer's answer.                                        *)

\* The header lines of an answer besides the status line and Content-Length.
Headers(answer) == Len(answer) - Status!InterimLen(answer) - 7

(* What the printer's answers look like.                                        *)
Form(answer) ==
  LET b == Status!InterimLen(answer)
      h == Headers(answer)
  IN /\ b \in {0, 4} /\ h \in {0, 1}
     /\ Len(answer) = b + h + 7 /\ DOMAIN answer = 1 .. b + h + 7
     /\ \A n \in 1 .. b : answer[n] \in {"1xx", "lf", "cr"}
     /\ b = 4 => answer[1] = "1xx"
     /\ answer[b + 1] \in {"2xx", "4xx"}
     /\ h = 1 => answer[b + 2] = "header"
     /\ answer[b + h + 2] = "length"
     /\ answer[b + h + 3] = "lf" /\ answer[b + h + 4] = "cr" /\ answer[b + h + 5] = "lf"
     /\ answer[b + h + 6] \in {"mine", "refused", "other"}
     /\ answer[b + h + 7] = "attributes"

Parsing == {"length", "readlength", "more", "blank", "end", "body", "ipp"}

StatusType ==
  /\ Form(sent)
  /\ got \in 0 .. Len(sent)
  /\ datsz \in Nat /\ place \in Nat
  /\ stage \in Parsing \cup {"status", "tread", "out"}
  /\ success \in BOOLEAN /\ whole \in BOOLEAN

(* What the parser goes by is what has come, and behind the status line it has  *)
(* seen a good one.                                                             *)
Received ==
  /\ \A n \in DOMAIN bp : \E m \in 1 .. got : bp[n] = sent[m]
  /\ stage \in Parsing => \E m \in 1 .. got : sent[m] = "2xx"
  /\ success => Status!At("out") /\ Status!Printed(sent)

\* Reads of whole messages: before the final answer has come ...
Waiting ==
  whole /\ got # Len(sent) =>
    /\ got \in {0, Status!InterimLen(sent)}
    /\ stage \in {"tread", "status", "out"}
    /\ Status!At("status") => Status!Unit(0) = "1xx"

\* ... and with it, when the job is printed.
Understood ==
  whole /\ got = Len(sent) /\ Status!Printed(sent) =>
    /\ stage \in Parsing \cup {"status", "out"} /\ stage # "readlength"
    /\ datsz = Headers(sent) + 7
    /\ \A n \in 0 .. datsz - 1 : Status!Unit(n) = sent[Status!InterimLen(sent) + n + 1]
    /\ Status!At("length") => place = 1
    /\ stage \in {"more", "blank"} => place = Headers(sent) + 2
    /\ stage \in {"end", "body", "ipp"} => place = Headers(sent) + 5
    /\ Status!At("out") => success

StatusInv == StatusType /\ Received /\ Waiting /\ Understood

\* The units of an answer.
Text == {"1xx", "2xx", "4xx", "header", "length", "lf", "cr", "mine", "refused", "other", "attributes"}

LEMMA Joined ==
  ASSUME NEW r \in Seq(Text), NEW u \in Seq(Text)
  PROVE  /\ r \o u \in Seq(Text)
         /\ Len(r \o u) = Len(r) + Len(u) /\ DOMAIN (r \o u) = 1 .. Len(r) + Len(u)
         /\ \A k \in 1 .. Len(r) : (r \o u)[k] = r[k]
         /\ \A k \in 1 .. Len(u) : (r \o u)[Len(r) + k] = u[k]
  OBVIOUS

\* An answer with h header lines and no interim answer before it.
Units(f, h) ==
  /\ f \in Seq(Text) /\ Len(f) = h + 7 /\ DOMAIN f = 1 .. h + 7
  /\ f[1] \in {"2xx", "4xx"}
  /\ h = 1 => f[2] = "header"
  /\ f[h + 2] = "length" /\ f[h + 3] = "lf" /\ f[h + 4] = "cr" /\ f[h + 5] = "lf"
  /\ f[h + 6] \in {"mine", "refused", "other"}
  /\ f[h + 7] = "attributes"

LEMMA FinalUnits == ASSUME NEW f \in Status!Final PROVE \E h \in {0, 1} : Units(f, h)
  <1>1. PICK status \in {"2xx", "4xx"}, header \in {<<>>, <<"header">>}, ipp \in {"mine", "refused", "other"} :
          f = <<status>> \o header \o <<"length", "lf", "cr", "lf", ipp, "attributes">>
    BY DEF Status!Final
  <1> DEFINE l == <<status>> \o header
             r == <<"length", "lf", "cr", "lf", ipp, "attributes">>
  <1>2. /\ header \in Seq(Text) /\ <<status>> \in Seq(Text) /\ Len(<<status>>) = 1 /\ <<status>>[1] = status
        /\ Len(header) \in {0, 1} /\ (Len(header) = 1 => header[1] = "header")
    <2>1. <<status>> \in Seq(Text) /\ Len(<<status>>) = 1 /\ <<status>>[1] = status
      BY DEF Text
    <2>2. CASE header = <<>>
      BY <2>1, <2>2
    <2>3. CASE header = <<"header">>
      <3>1. <<"header">> \in Seq(Text) /\ Len(<<"header">>) = 1 /\ <<"header">>[1] = "header"
        BY DEF Text
      <3> QED BY <2>1, <2>3, <3>1
    <2> QED BY <2>2, <2>3
  <1>3. r \in Seq(Text) /\ Len(r) = 6 /\ r[1] = "length" /\ r[2] = "lf" /\ r[3] = "cr" /\ r[4] = "lf"
        /\ r[5] = ipp /\ r[6] = "attributes"
    BY DEF Text
  <1>4. /\ l \in Seq(Text) /\ Len(l) = 1 + Len(header) /\ l[1] = status
        /\ (Len(header) = 1 => l[2] = "header")
    <2>1. 1 \in 1 .. 1 /\ 1 + 1 = 2
      OBVIOUS
    <2> QED BY <1>2, <2>1, Joined
  <1> HIDE DEF l, r
  <1>5. /\ l \o r \in Seq(Text) /\ Len(l \o r) = Len(l) + 6 /\ DOMAIN (l \o r) = 1 .. Len(l) + 6
        /\ \A k \in 1 .. Len(l) : (l \o r)[k] = l[k]
        /\ \A k \in 1 .. 6 : (l \o r)[Len(l) + k] = r[k]
    <2>1. /\ l \o r \in Seq(Text)
          /\ Len(l \o r) = Len(l) + Len(r) /\ DOMAIN (l \o r) = 1 .. Len(l) + Len(r)
          /\ \A k \in 1 .. Len(l) : (l \o r)[k] = l[k]
          /\ \A k \in 1 .. Len(r) : (l \o r)[Len(l) + k] = r[k]
      BY <1>3, <1>4, Joined, Zenon
    <2> QED BY <1>3, <2>1
  <1>6. f = l \o r
    BY <1>1 DEF l, r
  <1>7. PICK h \in {0, 1} : h = Len(header)
    BY <1>2
  <1>8. /\ f \in Seq(Text) /\ Len(f) = h + 7 /\ DOMAIN f = 1 .. h + 7 /\ f[1] = status
        /\ (h = 1 => f[2] = "header")
    BY <1>4, <1>5, <1>6, <1>7
  <1>9. /\ f[Len(l) + 1] = r[1] /\ f[Len(l) + 2] = r[2] /\ f[Len(l) + 3] = r[3]
        /\ f[Len(l) + 4] = r[4] /\ f[Len(l) + 5] = r[5] /\ f[Len(l) + 6] = r[6]
    BY <1>5, <1>6
  <1>10. Len(l) + 1 = h + 2 /\ Len(l) + 2 = h + 3 /\ Len(l) + 3 = h + 4 /\ Len(l) + 4 = h + 5
         /\ Len(l) + 5 = h + 6 /\ Len(l) + 6 = h + 7
    BY <1>4, <1>7
  <1>11. Units(f, h)
    BY <1>3, <1>8, <1>9, <1>10 DEF Units
  <1> QED BY <1>11

LEMMA FinalForm ==
  ASSUME NEW f \in Status!Final
  PROVE  Form(f) /\ Form(<<"1xx", "lf", "cr", "lf">> \o f)
  <1>1. PICK h \in {0, 1} : Units(f, h)
    BY FinalUnits
  <1>2. Status!InterimLen(f) = 0 /\ Headers(f) = h
    BY <1>1 DEF Units, Status!InterimLen, Headers
  <1>3. Form(f)
    BY <1>1, <1>2 DEF Form, Units
  <1> DEFINE r == <<"1xx", "lf", "cr", "lf">>
             g == r \o f
  <1>4. r \in Seq(Text) /\ Len(r) = 4 /\ r[1] = "1xx" /\ r[2] = "lf" /\ r[3] = "cr" /\ r[4] = "lf"
    BY DEF Text
  <1> HIDE DEF r
  <1>5. /\ Len(g) = 4 + (h + 7) /\ DOMAIN g = 1 .. 4 + (h + 7)
        /\ \A k \in 1 .. 4 : g[k] = r[k]
        /\ \A k \in 1 .. h + 7 : g[4 + k] = f[k]
    <2>1. f \in Seq(Text) /\ Len(f) = h + 7
      BY <1>1 DEF Units
    <2>2. /\ Len(r \o f) = Len(r) + Len(f) /\ DOMAIN (r \o f) = 1 .. Len(r) + Len(f)
          /\ \A k \in 1 .. Len(r) : (r \o f)[k] = r[k]
          /\ \A k \in 1 .. Len(f) : (r \o f)[Len(r) + k] = f[k]
      BY <1>4, <2>1, Joined, Zenon
    <2> QED BY <1>4, <2>1, <2>2
  <1> HIDE DEF g
  <1>6. Status!InterimLen(g) = 4 /\ Headers(g) = h
    BY <1>4, <1>5 DEF Status!InterimLen, Headers
  <1>7. /\ g[4 + 1] = f[1] /\ (h = 1 => g[4 + 2] = f[2])
        /\ g[4 + h + 2] = f[h + 2] /\ g[4 + h + 3] = f[h + 3] /\ g[4 + h + 4] = f[h + 4]
        /\ g[4 + h + 5] = f[h + 5] /\ g[4 + h + 6] = f[h + 6] /\ g[4 + h + 7] = f[h + 7]
    <2>1. /\ 1 \in 1 .. h + 7 /\ 2 \in 1 .. h + 7 /\ h + 2 \in 1 .. h + 7 /\ h + 3 \in 1 .. h + 7
          /\ h + 4 \in 1 .. h + 7 /\ h + 5 \in 1 .. h + 7 /\ h + 6 \in 1 .. h + 7 /\ h + 7 \in 1 .. h + 7
          /\ 4 + h + 2 = 4 + (h + 2) /\ 4 + h + 3 = 4 + (h + 3) /\ 4 + h + 4 = 4 + (h + 4)
          /\ 4 + h + 5 = 4 + (h + 5) /\ 4 + h + 6 = 4 + (h + 6) /\ 4 + h + 7 = 4 + (h + 7)
      OBVIOUS
    <2> QED BY <1>5, <2>1
  <1>8. \A n \in 1 .. 4 : g[n] \in {"1xx", "lf", "cr"}
    BY <1>4, <1>5
  <1>9. Form(g)
    BY <1>1, <1>4, <1>5, <1>6, <1>7, <1>8 DEF Form, Units
  <1> QED BY <1>3, <1>9 DEF g, r

LEMMA AnswersForm == \A answer \in Status!Answers : Form(answer)
  BY FinalForm DEF Status!Answers

\* A good status line is before the IPP header; and what Printed is.
LEMMA FormFacts ==
  ASSUME NEW answer, Form(answer)
  PROVE  /\ \A n, m \in DOMAIN answer : answer[n] = "mine" /\ answer[m] = "2xx" => Status!Printed(answer)
         /\ Status!Printed(answer) => /\ answer[Status!InterimLen(answer) + 1] = "2xx"
                               /\ answer[Status!InterimLen(answer) + Headers(answer) + 6] = "mine"
  <1> DEFINE b == Status!InterimLen(answer)
             h == Headers(answer)
  <1>1. /\ b \in {0, 4} /\ h \in {0, 1} /\ DOMAIN answer = 1 .. b + h + 7
        /\ \A n \in 1 .. b : answer[n] \in {"1xx", "lf", "cr"}
        /\ answer[b + 1] \in {"2xx", "4xx"}
        /\ h = 1 => answer[b + 2] = "header"
        /\ answer[b + h + 2] = "length"
        /\ answer[b + h + 3] = "lf" /\ answer[b + h + 4] = "cr" /\ answer[b + h + 5] = "lf"
        /\ answer[b + h + 6] \in {"mine", "refused", "other"}
        /\ answer[b + h + 7] = "attributes"
    BY DEF Form
  <1> HIDE DEF b, h
  <1>2. ASSUME NEW n \in DOMAIN answer
        PROVE  n \in 1 .. b \/ n = b + 1 \/ (h = 1 /\ n = b + 2) \/ n = b + h + 2 \/ n = b + h + 3
               \/ n = b + h + 4 \/ n = b + h + 5 \/ n = b + h + 6 \/ n = b + h + 7
    BY <1>1, <1>2
  <1>3. ASSUME NEW n \in DOMAIN answer, answer[n] = "mine" PROVE n = b + h + 6
    BY <1>1, <1>2, <1>3
  <1>4. ASSUME NEW m \in DOMAIN answer, answer[m] = "2xx" PROVE m = b + 1
    BY <1>1, <1>2, <1>4
  <1>5. ASSUME NEW n \in DOMAIN answer, NEW m \in DOMAIN answer, answer[n] = "mine", answer[m] = "2xx"
        PROVE  Status!Printed(answer)
    <2>1. m \in 1 .. n
      BY <1>1, <1>3, <1>4, <1>5
    <2> QED BY <1>5, <2>1 DEF Status!Printed
  <1>6. ASSUME Status!Printed(answer) PROVE answer[b + 1] = "2xx" /\ answer[b + h + 6] = "mine"
    <2>1. PICK n \in DOMAIN answer : answer[n] = "mine" /\ \E m \in 1 .. n : answer[m] = "2xx"
      BY <1>6 DEF Status!Printed
    <2>2. PICK m \in 1 .. n : answer[m] = "2xx"
      BY <2>1
    <2>3. m \in DOMAIN answer
      BY <1>1, <2>1, <2>2
    <2> QED BY <1>3, <1>4, <2>1, <2>2, <2>3
  <1> QED BY <1>5, <1>6 DEF b, h

LEMMA StatusInit == Status!Init => StatusInv
  <1> SUFFICES ASSUME Status!Init PROVE StatusInv
    OBVIOUS
  <1>1. Form(sent)
    BY AnswersForm DEF Status!Init
  <1>2. Len(sent) \in Nat /\ Len(sent) > 0
    BY <1>1 DEF Form
  <1>3. StatusType
    <2>1. success \in BOOLEAN /\ whole \in BOOLEAN
      BY Zenon DEF Status!Init
    <2> QED BY <1>1, <1>2, <2>1 DEF Status!Init, StatusType
  <1>4. Received /\ Waiting /\ Understood
    BY <1>2 DEF Status!Init, Received, Waiting, Understood, Parsing, Status!At
  <1> QED BY <1>3, <1>4 DEF StatusInv

LEMMA SameAnswer ==
  ASSUME sent' = sent
  PROVE  /\ Status!InterimLen(sent)' = Status!InterimLen(sent) /\ Headers(sent)' = Headers(sent)
         /\ Form(sent) => Form(sent)'
  BY DEF Status!InterimLen, Headers, Form

\* What arrives is part of the answer.
LEMMA ArriveIs ==
  ASSUME StatusType, Received, NEW off \in Nat, NEW k \in Status!Missing, Status!Arrive(off, k), sent' = sent
  PROVE  /\ got' = got + k /\ got' \in 1 .. Len(sent)
         /\ \A n \in DOMAIN bp' : \E m \in 1 .. got' : bp'[n] = sent'[m]
         /\ \A u : (\E m \in 1 .. got : sent[m] = u) => \E m \in 1 .. got' : sent'[m] = u
         /\ \A n \in off .. off + k - 1 : Status!Unit(n)' = sent[got + n - off + 1]
         /\ whole' \in BOOLEAN
         /\ whole' => whole /\ got' = IF got < Status!InterimLen(sent) THEN Status!InterimLen(sent) ELSE Len(sent)
  <1>1. /\ Len(sent) \in Nat /\ got \in 0 .. Len(sent) /\ k \in 1 .. Len(sent) - got
    BY DEF StatusType, Form, Status!Missing
  <1>2. got' = got + k /\ got' \in 1 .. Len(sent) /\ 1 .. got \subseteq 1 .. got'
    BY <1>1 DEF Status!Arrive
  <1>3. ASSUME NEW n \in DOMAIN bp' PROVE \E m \in 1 .. got' : bp'[n] = sent'[m]
    <2>1. n \in DOMAIN bp \cup off .. off + k - 1
          /\ bp'[n] = IF n \in off .. off + k - 1 THEN sent[got + n - off + 1] ELSE bp[n]
      BY <1>3 DEF Status!Arrive
    <2>2. CASE n \in off .. off + k - 1
      <3>1. got + n - off + 1 \in 1 .. got'
        BY <1>1, <1>2, <2>2
      <3> QED BY <2>1, <2>2, <3>1
    <2>3. CASE n \notin off .. off + k - 1
      <3>1. PICK m \in 1 .. got : bp[n] = sent[m]
        BY <2>1, <2>3 DEF Received
      <3> QED BY <1>2, <2>1, <2>3, <3>1
    <2> QED BY <2>2, <2>3
  <1>4. ASSUME NEW n \in off .. off + k - 1 PROVE Status!Unit(n)' = sent[got + n - off + 1]
    <2>1. n \in DOMAIN bp' /\ bp'[n] = sent[got + n - off + 1]
      BY <1>4 DEF Status!Arrive
    <2> QED BY <2>1 DEF Status!Unit
  <1>5. whole' = (whole /\ got' = IF got < Status!InterimLen(sent) THEN Status!InterimLen(sent) ELSE Len(sent))
    BY DEF Status!Arrive
  <1>6. /\ whole' \in BOOLEAN
        /\ whole' => whole /\ got' = IF got < Status!InterimLen(sent) THEN Status!InterimLen(sent) ELSE Len(sent)
    BY <1>5, Zenon
  <1> QED BY <1>2, <1>3, <1>4, <1>6

LEMMA TreadStep == ASSUME StatusInv, Status!Tread PROVE StatusInv'
  <1> USE DEF StatusInv
  <1>1. PICK k \in Status!Missing : Status!Arrive(0, k) /\ datsz' = k
    BY DEF Status!Tread
  <1>2. /\ Status!At("tread") /\ stage' = "status" /\ sent' = sent /\ place' = place /\ success' = success
    BY DEF Status!Tread
  <1>3. /\ got' = got + k /\ got' \in 1 .. Len(sent)
        /\ \A n \in DOMAIN bp' : \E m \in 1 .. got' : bp'[n] = sent'[m]
        /\ \A n \in 0 .. 0 + k - 1 : Status!Unit(n)' = sent[got + n - 0 + 1]
        /\ whole' \in BOOLEAN
        /\ whole' => whole /\ got' = IF got < Status!InterimLen(sent) THEN Status!InterimLen(sent) ELSE Len(sent)
    BY <1>1, <1>2, ArriveIs
  <1>4. k \in 1 .. Len(sent) - got /\ got \in 0 .. Len(sent) /\ Len(sent) \in Nat
    BY DEF Status!Missing, StatusType, Form
  <1>5. \A n \in 0 .. k - 1 : Status!Unit(n)' = sent[got + n + 1]
    BY <1>3, <1>4
  <1>6. StatusType'
    <2>1. Form(sent)' /\ got' \in 0 .. Len(sent)'
      BY <1>2, <1>3, <1>4, SameAnswer DEF StatusType
    <2> QED BY <1>1, <1>2, <1>3, <1>4, <2>1 DEF StatusType
  <1>7. Received'
    BY <1>2, <1>3 DEF Received, Status!At, Parsing
  <1>8. Status!InterimLen(sent) \in {0, 4} /\ Headers(sent) \in {0, 1}
        /\ Len(sent) = Status!InterimLen(sent) + Headers(sent) + 7
        /\ (Status!InterimLen(sent) = 4 => sent[1] = "1xx")
    BY DEF StatusType, Form
  <1>9. Status!InterimLen(sent)' = Status!InterimLen(sent) /\ Headers(sent)' = Headers(sent)
    BY <1>2, SameAnswer
  <1>10. ASSUME whole', got' # Len(sent) PROVE got = 0 /\ k = 4 /\ Status!InterimLen(sent) = 4 /\ got' = 4
    BY <1>3, <1>4, <1>8, <1>10 DEF Waiting
  <1>11. Waiting'
    <2> SUFFICES ASSUME whole', got' # Len(sent)
                 PROVE  got' = Status!InterimLen(sent) /\ Status!Unit(0)' = "1xx"
      BY <1>2, <1>9 DEF Waiting, Status!At
    <2> QED BY <1>5, <1>8, <1>10
  <1>12. ASSUME whole', got' = Len(sent) PROVE got = Status!InterimLen(sent) /\ k = Headers(sent) + 7
    BY <1>3, <1>4, <1>8, <1>12 DEF Waiting
  <1>13. Understood'
    <2> SUFFICES ASSUME whole', got' = Len(sent)
                 PROVE  datsz' = Headers(sent) + 7
                        /\ \A n \in 0 .. datsz' - 1 : Status!Unit(n)' = sent[Status!InterimLen(sent) + n + 1]
      BY <1>2, <1>9 DEF Understood, Status!At, Parsing
    <2> QED BY <1>1, <1>5, <1>12
  <1> QED BY <1>6, <1>7, <1>11, <1>13

\* A later read is one of a message in pieces.
LEMMA ReadmoreStep ==
  ASSUME StatusInv, NEW from \in {"readlength", "more", "end", "body"}, NEW to \in Parsing, Status!Readmore(from, to)
  PROVE  StatusInv'
  <1> USE DEF StatusInv
  <1>1. PICK k \in Status!Missing : Status!Arrive(place, k) /\ datsz' = Status!Grown(k)
    BY DEF Status!Readmore
  <1>2. stage = from /\ stage' = to /\ sent' = sent /\ place' = place /\ success' = success
    BY DEF Status!Readmore, Status!At
  <1>3. /\ got' \in 1 .. Len(sent)
        /\ \A n \in DOMAIN bp' : \E m \in 1 .. got' : bp'[n] = sent'[m]
        /\ (\E m \in 1 .. got : sent[m] = "2xx") => \E m \in 1 .. got' : sent'[m] = "2xx"
        /\ whole' \in BOOLEAN /\ (whole' => whole)
    BY <1>1, <1>2, ArriveIs DEF StatusType
  <1>4. k \in 1 .. Len(sent) - got /\ got \in 0 .. Len(sent) /\ Len(sent) \in Nat
    BY DEF Status!Missing, StatusType, Form
  <1>5. ~whole
    BY <1>2, <1>4 DEF Waiting
  <1>6. StatusType'
    <2>1. Form(sent)' /\ got' \in 0 .. Len(sent)'
      BY <1>2, <1>3, <1>4, SameAnswer DEF StatusType
    <2> QED BY <1>1, <1>2, <1>3, <1>4, <2>1 DEF StatusType, Status!Grown
  <1>7. Received'
    <2>1. stage \in Parsing /\ stage # "out" /\ stage' # "out"
      BY <1>2 DEF Parsing
    <2> QED BY <1>2, <1>3, <2>1 DEF Received, Status!At
  <1> QED BY <1>3, <1>5, <1>6, <1>7 DEF Waiting, Understood

\* The first of the positions is one of them.
LEMMA FirstIn ==
  ASSUME NEW S \in SUBSET Nat, S # {}
  PROVE  Status!FirstOf(S) \in S /\ \A n \in S : Status!FirstOf(S) <= n
  <1> DEFINE R == {ss \in Nat \X Nat : ss[1] < ss[2]}
  <1>1. IsWellFoundedOn(R, Nat)
    BY NatLessThanWellFounded DEF OpToRel
  <1>2. \E x \in S : \A y \in S : ~(<<y, x>> \in R)
    BY <1>1, WFMin
  <1>3. \A x, y \in Nat : y < x => <<y, x>> \in R
    OBVIOUS
  <1> HIDE DEF R
  <1>4. PICK x \in S : \A y \in S : ~(<<y, x>> \in R)
    BY <1>2
  <1>5. ASSUME NEW y \in S PROVE x <= y
    <2>1. ~(y < x)
      BY <1>3, <1>4
    <2> QED BY <2>1
  <1> QED BY <1>4, <1>5 DEF Status!FirstOf

\* A step that reads nothing changes neither the answer nor the buffer.
Reads == <<sent, got, bp, datsz, whole>>

LEMMA SameUnits ==
  ASSUME UNCHANGED Reads
  PROVE  /\ \A n : Status!Unit(n)' = Status!Unit(n)
         /\ Status!InterimLen(sent)' = Status!InterimLen(sent) /\ Headers(sent)' = Headers(sent)
         /\ Status!Printed(sent)' = Status!Printed(sent) /\ Form(sent)' = Form(sent)
  BY DEF Reads, Status!Unit, Status!InterimLen, Headers, Status!Printed, Form

LEMMA FindLengthStep == ASSUME StatusInv, Status!FindLength PROVE StatusInv'
  <1> USE DEF StatusInv
  <1> DEFINE found == {n \in place .. datsz - 1 : Status!Unit(n) = "length"}
  <1>1. /\ stage = "length" /\ success' = success /\ UNCHANGED Reads
        /\ IF found # {} THEN place' = Status!FirstOf(found) + 1 /\ stage' = "more"
                         ELSE place' = datsz /\ stage' = "readlength"
    BY DEF Status!FindLength, Status!At, Reads
  <1>2. place \in Nat /\ datsz \in Nat
    BY DEF StatusType
  <1>3. found \in SUBSET Nat
    BY <1>2
  <1>4. found # {} => Status!FirstOf(found) \in found
    BY <1>3, FirstIn
  <1>5. place' \in Nat /\ stage' \in {"more", "readlength"}
    BY <1>1, <1>2, <1>3, <1>4
  <1>6. StatusType'
    BY <1>1, <1>5, SameUnits DEF StatusType, Reads, Parsing
  <1>7. Received'
    BY <1>1, <1>5 DEF Received, Reads, Status!At, Parsing
  <1>8. ~(whole /\ got # Len(sent))
    BY <1>1 DEF Waiting
  <1>9. ASSUME whole, got = Len(sent), Status!Printed(sent)
        PROVE  place' = Headers(sent) + 2 /\ stage' = "more"
    <2>1. /\ place = 1 /\ datsz = Headers(sent) + 7
          /\ \A n \in 0 .. datsz - 1 : Status!Unit(n) = sent[Status!InterimLen(sent) + n + 1]
      BY <1>1, <1>9 DEF Understood, Status!At
    <2> DEFINE b == Status!InterimLen(sent)
               h == Headers(sent)
    <2>2. /\ b \in {0, 4} /\ h \in {0, 1}
          /\ h = 1 => sent[b + 2] = "header"
          /\ sent[b + h + 2] = "length"
          /\ sent[b + h + 3] = "lf" /\ sent[b + h + 4] = "cr" /\ sent[b + h + 5] = "lf"
          /\ sent[b + h + 6] \in {"mine", "refused", "other"}
          /\ sent[b + h + 7] = "attributes"
      BY DEF StatusType, Form
    <2> HIDE DEF b, h
    <2>3. datsz = h + 7 /\ \A n \in 0 .. h + 6 : Status!Unit(n) = sent[b + n + 1]
      BY <2>1, <2>2 DEF b, h
    <2>4. h + 1 \in found
      <3>1. h + 1 \in place .. datsz - 1 /\ h + 1 \in 0 .. h + 6 /\ b + (h + 1) + 1 = b + h + 2
        BY <2>1, <2>2, <2>3
      <3> QED BY <2>2, <2>3, <3>1
    <2>5. ASSUME NEW n \in found PROVE n = h + 1
      <3>1. n \in 1 .. h + 6 /\ sent[b + n + 1] = "length"
        BY <2>1, <2>2, <2>3
      <3>2. \/ h = 1 /\ n = 1
            \/ n = h + 1 \/ n = h + 2 \/ n = h + 3 \/ n = h + 4 \/ n = h + 5 \/ n = h + 6
        BY <2>2, <3>1
      <3>3. /\ b + (h + 2) + 1 = b + h + 3 /\ b + (h + 3) + 1 = b + h + 4 /\ b + (h + 4) + 1 = b + h + 5
            /\ b + (h + 5) + 1 = b + h + 6 /\ b + (h + 6) + 1 = b + h + 7 /\ b + 1 + 1 = b + 2
        BY <2>2
      <3> QED BY <2>2, <3>1, <3>2, <3>3
    <2>6. Status!FirstOf(found) = h + 1 /\ found # {}
      BY <1>4, <2>4, <2>5
    <2>7. place' = (h + 1) + 1 /\ stage' = "more"
      BY <1>1, <2>6
    <2> QED BY <2>2, <2>7 DEF h
  <1>10. Waiting'
    BY <1>1, <1>8 DEF Waiting, Reads
  <1>11. Understood'
    <2> SUFFICES ASSUME whole, got = Len(sent), Status!Printed(sent) PROVE Understood'
      BY <1>1, SameUnits DEF Understood, Reads
    <2>1. datsz' = datsz /\ sent' = sent /\ stage = "length"
      BY <1>1 DEF Reads
    <2>2. /\ datsz = Headers(sent) + 7
          /\ \A n \in 0 .. datsz - 1 : Status!Unit(n) = sent[Status!InterimLen(sent) + n + 1]
      BY DEF Understood
    <2> QED BY <1>1, <1>9, <2>1, <2>2, SameUnits DEF Understood, Status!At, Parsing
  <1> QED BY <1>6, <1>7, <1>10, <1>11

LEMMA FindBlankStep == ASSUME StatusInv, Status!FindBlank PROVE StatusInv'
  <1> USE DEF StatusInv
  <1> DEFINE found == {n \in place .. datsz - 3 : Status!Unit(n) = "lf" /\ Status!Unit(n + 1) = "cr" /\ Status!Unit(n + 2) = "lf"}
  <1>1. /\ stage = "blank" /\ success' = success /\ UNCHANGED Reads
        /\ IF found # {} THEN place' = Status!FirstOf(found) + 3 /\ stage' = "end"
                         ELSE place' = (IF place < datsz - 2 THEN datsz - 2 ELSE place) /\ stage' = stage
    BY DEF Status!FindBlank, Status!At, Reads
  <1>2. place \in Nat /\ datsz \in Nat
    BY DEF StatusType
  <1>3. found \in SUBSET Nat
    BY <1>2
  <1>4. found # {} => Status!FirstOf(found) \in found
    BY <1>3, FirstIn
  <1>5. place' \in Nat /\ stage' \in {"blank", "end"}
    BY <1>1, <1>2, <1>3, <1>4
  <1>6. StatusType'
    BY <1>1, <1>5, SameUnits DEF StatusType, Reads, Parsing
  <1>7. Received'
    BY <1>1, <1>5 DEF Received, Reads, Status!At, Parsing
  <1>8. ~(whole /\ got # Len(sent))
    BY <1>1 DEF Waiting
  <1>9. ASSUME whole, got = Len(sent), Status!Printed(sent)
        PROVE  place' = Headers(sent) + 5 /\ stage' = "end"
    <2>1. /\ place = Headers(sent) + 2 /\ datsz = Headers(sent) + 7
          /\ \A n \in 0 .. datsz - 1 : Status!Unit(n) = sent[Status!InterimLen(sent) + n + 1]
      BY <1>1, <1>9 DEF Understood, Status!At
    <2> DEFINE b == Status!InterimLen(sent)
               h == Headers(sent)
    <2>2. /\ b \in {0, 4} /\ h \in {0, 1}
          /\ sent[b + h + 3] = "lf" /\ sent[b + h + 4] = "cr" /\ sent[b + h + 5] = "lf"
          /\ sent[b + h + 6] \in {"mine", "refused", "other"}
      BY DEF StatusType, Form
    <2> HIDE DEF b, h
    <2>3. place = h + 2 /\ datsz = h + 7 /\ \A n \in 0 .. h + 6 : Status!Unit(n) = sent[b + n + 1]
      BY <2>1, <2>2 DEF b, h
    <2>4. /\ Status!Unit(h + 2) = "lf" /\ Status!Unit((h + 2) + 1) = "cr" /\ Status!Unit((h + 2) + 2) = "lf"
          /\ Status!Unit((h + 3) + 1) # "cr" /\ Status!Unit(h + 4 + 1) # "cr"
      <3>1. /\ b + (h + 2) + 1 = b + h + 3 /\ b + ((h + 2) + 1) + 1 = b + h + 4
            /\ b + ((h + 2) + 2) + 1 = b + h + 5 /\ b + ((h + 3) + 1) + 1 = b + h + 5
            /\ b + (h + 4 + 1) + 1 = b + h + 6
            /\ h + 2 \in 0 .. h + 6 /\ (h + 2) + 1 \in 0 .. h + 6 /\ (h + 2) + 2 \in 0 .. h + 6
            /\ (h + 3) + 1 \in 0 .. h + 6 /\ h + 4 + 1 \in 0 .. h + 6
        BY <2>2
      <3> QED BY <2>2, <2>3, <3>1
    <2>5. h + 2 \in found
      BY <2>2, <2>3, <2>4
    <2>6. ASSUME NEW n \in found PROVE n = h + 2
      <3>1. n \in h + 2 .. h + 4 /\ Status!Unit(n + 1) = "cr"
        BY <2>2, <2>3
      <3>2. n = h + 2 \/ n = h + 3 \/ n = h + 4
        BY <2>2, <3>1
      <3> QED BY <2>4, <3>1, <3>2
    <2>7. Status!FirstOf(found) = h + 2 /\ found # {}
      BY <1>4, <2>5, <2>6
    <2>8. place' = (h + 2) + 3 /\ stage' = "end"
      BY <1>1, <2>7
    <2> QED BY <2>2, <2>8 DEF h
  <1>10. Waiting'
    BY <1>1, <1>8 DEF Waiting, Reads
  <1>11. Understood'
    <2> SUFFICES ASSUME whole, got = Len(sent), Status!Printed(sent) PROVE Understood'
      BY <1>1, SameUnits DEF Understood, Reads
    <2>1. datsz' = datsz /\ sent' = sent /\ stage = "blank"
      BY <1>1 DEF Reads
    <2>2. /\ datsz = Headers(sent) + 7
          /\ \A n \in 0 .. datsz - 1 : Status!Unit(n) = sent[Status!InterimLen(sent) + n + 1]
      BY DEF Understood
    <2> QED BY <1>1, <1>9, <2>1, <2>2, SameUnits DEF Understood, Status!At, Parsing
  <1> QED BY <1>6, <1>7, <1>10, <1>11

\* The steps that only move on.
LEMMA MoveStep ==
  ASSUME StatusInv, Status!MoveOn \/ Status!HttpError \/ Status!Enough("more", "blank") \/ Status!Enough("end", "body") \/ Status!WholeBody
  PROVE  StatusInv'
  <1> USE DEF StatusInv
  <1>1. UNCHANGED Reads /\ place' = place /\ success' = success
    BY DEF Status!MoveOn, Status!HttpError, Status!Enough, Status!WholeBody, Reads
  <1>2. \/ stage = "status" /\ stage' \in {"tread", "out"} /\ Status!Unit(0) # "2xx"
             /\ (Status!Unit(0) = "1xx" => stage' = "tread")
        \/ stage = "more" /\ stage' = "blank"
        \/ stage = "end" /\ stage' = "body"
        \/ stage = "body" /\ stage' = "ipp"
    BY DEF Status!MoveOn, Status!HttpError, Status!Enough, Status!WholeBody, Status!At
  <1>3. StatusType'
    BY <1>1, <1>2, SameUnits DEF StatusType, Reads, Parsing
  <1>4. Received'
    BY <1>1, <1>2 DEF Received, Reads, Status!At, Parsing
  <1>5. Waiting'
    BY <1>1, <1>2, SameUnits DEF Waiting, Reads, Status!At
  <1>6. Understood'
    <2> SUFFICES ASSUME whole, got = Len(sent), Status!Printed(sent) PROVE Understood'
      BY <1>1, SameUnits DEF Understood, Reads
    <2>1. datsz' = datsz /\ sent' = sent
      BY <1>1 DEF Reads
    <2>2. /\ datsz = Headers(sent) + 7
          /\ \A n \in 0 .. datsz - 1 : Status!Unit(n) = sent[Status!InterimLen(sent) + n + 1]
      BY DEF Understood
    <2>3. Headers(sent) \in {0, 1} /\ Status!InterimLen(sent) \in {0, 4}
      BY DEF StatusType, Form
    <2>4. Status!Unit(0) = "2xx"
      <3>1. 0 \in 0 .. datsz - 1 /\ Status!InterimLen(sent) + 0 + 1 = Status!InterimLen(sent) + 1
        BY <2>2, <2>3
      <3> QED BY <2>2, <3>1, FormFacts DEF StatusType
    <2> QED BY <1>1, <1>2, <2>1, <2>2, <2>4, SameUnits DEF Understood, Status!At, Parsing
  <1> QED BY <1>3, <1>4, <1>5, <1>6

LEMMA HttpOkStep == ASSUME StatusInv, Status!HttpOk PROVE StatusInv'
  <1> USE DEF StatusInv
  <1>1. UNCHANGED Reads /\ place' = 1 /\ success' = success /\ stage = "status" /\ stage' = "length" /\ Status!Unit(0) = "2xx"
    BY DEF Status!HttpOk, Reads, Status!At
  <1>2. StatusType'
    BY <1>1, SameUnits DEF StatusType, Reads, Parsing
  <1>3. \E m \in 1 .. got : sent[m] = "2xx"
    <2>1. 0 \in DOMAIN bp /\ bp[0] = "2xx"
      BY <1>1 DEF Status!Unit
    <2> QED BY <2>1 DEF Received
  <1>4. Received'
    BY <1>1, <1>3 DEF Received, Reads, Status!At, Parsing
  <1>5. Waiting'
    BY <1>1 DEF Waiting, Reads, Status!At
  <1>6. Understood'
    <2> SUFFICES ASSUME whole, got = Len(sent), Status!Printed(sent) PROVE Understood'
      BY <1>1, SameUnits DEF Understood, Reads
    <2>1. datsz' = datsz /\ sent' = sent
      BY <1>1 DEF Reads
    <2>2. /\ datsz = Headers(sent) + 7
          /\ \A n \in 0 .. datsz - 1 : Status!Unit(n) = sent[Status!InterimLen(sent) + n + 1]
      BY DEF Understood
    <2> QED BY <1>1, <2>1, <2>2, SameUnits DEF Understood, Status!At, Parsing
  <1> QED BY <1>2, <1>4, <1>5, <1>6

LEMMA FailStep == ASSUME StatusInv, Status!ReadFails PROVE StatusInv'
  <1> USE DEF StatusInv
  <1>1. UNCHANGED Reads /\ place' = place /\ success' = success /\ stage' = "out"
    BY DEF Status!ReadFails, Reads
  <1>2. /\ stage \in {"tread", "readlength", "more", "end", "body"}
        /\ stage \in {"more", "end"} => place >= datsz
        /\ stage = "body" => datsz - place < Status!BodyLen
    BY DEF Status!ReadFails, Status!At
  <1>3. StatusType'
    BY <1>1, SameUnits DEF StatusType, Reads
  <1>4. Received'
    BY <1>1 DEF Received, Reads, Status!At, Parsing
  <1>5. Waiting'
    BY <1>1 DEF Waiting, Reads, Status!At
  <1>6. ~(whole /\ got = Len(sent) /\ Status!Printed(sent))
    <2> SUFFICES ASSUME whole, got = Len(sent), Status!Printed(sent) PROVE FALSE
      OBVIOUS
    <2>1. Headers(sent) \in {0, 1}
      BY DEF StatusType, Form
    <2> QED BY <1>2, <2>1 DEF Understood, Status!BodyLen, Parsing
  <1>7. Understood'
    BY <1>1, <1>6, SameUnits DEF Understood, Reads
  <1> QED BY <1>3, <1>4, <1>5, <1>7

LEMMA IppStep == ASSUME StatusInv, Status!IppStatus PROVE StatusInv'
  <1> USE DEF StatusInv
  <1>1. UNCHANGED Reads /\ place' = place /\ stage = "ipp" /\ stage' = "out" /\ success' = (Status!Unit(place) = "mine")
    BY DEF Status!IppStatus, Reads, Status!At, Status!Succeeded
  <1>2. success' \in BOOLEAN /\ (success' => Status!Unit(place) = "mine") /\ (Status!Unit(place) = "mine" => success')
    BY <1>1, Zenon
  <1>3. StatusType'
    BY <1>1, <1>2, SameUnits DEF StatusType, Reads
  <1>4. ASSUME Status!Unit(place) = "mine" PROVE Status!Printed(sent)
    <2>1. place \in DOMAIN bp /\ bp[place] = "mine"
      BY <1>4 DEF Status!Unit
    <2>2. PICK n \in 1 .. got : sent[n] = "mine"
      BY <2>1 DEF Received
    <2>3. PICK m \in 1 .. got : sent[m] = "2xx"
      BY <1>1 DEF Received, Parsing
    <2>4. n \in DOMAIN sent /\ m \in DOMAIN sent
      BY DEF StatusType, Form
    <2> QED BY <2>2, <2>3, <2>4, FormFacts DEF StatusType
  <1>5. Received'
    BY <1>1, <1>2, <1>4, SameUnits DEF Received, Reads, Status!At, Parsing
  <1>6. Waiting'
    BY <1>1 DEF Waiting, Reads, Status!At
  <1>7. Understood'
    <2> SUFFICES ASSUME whole, got = Len(sent), Status!Printed(sent) PROVE Understood'
      BY <1>1, SameUnits DEF Understood, Reads
    <2>1. datsz' = datsz /\ sent' = sent
      BY <1>1 DEF Reads
    <2>2. /\ datsz = Headers(sent) + 7 /\ place = Headers(sent) + 5
          /\ \A n \in 0 .. datsz - 1 : Status!Unit(n) = sent[Status!InterimLen(sent) + n + 1]
      BY <1>1 DEF Understood
    <2>3. Headers(sent) \in {0, 1} /\ Status!InterimLen(sent) \in {0, 4}
      BY DEF StatusType, Form
    <2>4. Status!Unit(place) = "mine"
      <3>1. place \in 0 .. datsz - 1 /\ Status!InterimLen(sent) + place + 1 = Status!InterimLen(sent) + Headers(sent) + 6
        BY <2>2, <2>3
      <3> QED BY <2>2, <3>1, FormFacts DEF StatusType
    <2> QED BY <1>1, <1>2, <2>1, <2>2, <2>4, SameUnits DEF Understood, Status!At, Parsing
  <1> QED BY <1>3, <1>5, <1>6, <1>7

LEMMA StatusStep == StatusInv /\ [Status!Next]_(Status!vars) => StatusInv'
  <1> SUFFICES ASSUME StatusInv, [Status!Next]_(Status!vars) PROVE StatusInv'
    OBVIOUS
  <1>1. CASE UNCHANGED Status!vars
    <2>1. UNCHANGED Reads /\ place' = place /\ stage' = stage /\ success' = success
      BY <1>1 DEF Status!vars, Reads
    <2> QED BY <2>1, SameUnits
            DEF StatusInv, StatusType, Received, Waiting, Understood, Reads, Status!At
  <1>2. CASE Status!MoreLength \/ Status!MoreHeader \/ Status!MoreEnd \/ Status!MoreBody
    <2>1. \E from \in {"readlength", "more", "end", "body"}, to \in Parsing : Status!Readmore(from, to)
      BY <1>2 DEF Status!MoreLength, Status!MoreHeader, Status!MoreEnd, Status!MoreBody, Parsing
    <2> QED BY <2>1, ReadmoreStep
  <1> QED BY <1>1, <1>2, TreadStep, FailStep, MoveStep, HttpOkStep, FindLengthStep, FindBlankStep, IppStep
          DEF Status!Next

(* However the answer comes in pieces, and whatever fails, 1 is returned only   *)
(* if the printer has printed this job, and if every message is read as a whole *)
(* it is returned when it has (printd.c:875-1024).                              *)
THEOREM StatusIsTruthful == Status!Spec => []Status!StatusTruthful
  <1>1. StatusInv => Status!StatusTruthful
    BY DEF StatusInv, Received, Understood, Status!StatusTruthful
  <1> QED BY <1>1, StatusInit, StatusStep, PTL DEF Status!Spec

-----------------------------------------------------------------------------
(* Side by side: a program starts in an initial state and, as long as another *)
(* runs, stays as it is; so what is proved of each alone holds of it here.    *)

AgentProof == INSTANCE IdsAgentProof WITH talk <- thread_of

LEMMA ProgramsStart == ServicesInit => Init /\ Status!Init /\ Agent!Init
  BY DEF ServicesInit

LEMMA ProgramsStep ==
  [ServicesNext]_allVars
    => [Next]_vars /\ [Status!Next]_(Status!vars) /\ [Agent!Next]_(Agent!vars)
  <1> SUFFICES ASSUME [ServicesNext]_allVars
               PROVE  [Next]_vars /\ [Status!Next]_(Status!vars) /\ [Agent!Next]_(Agent!vars)
    OBVIOUS
  <1>1. UNCHANGED printdVars => UNCHANGED vars
    BY DEF printdVars
  <1>2. UNCHANGED statusVars => UNCHANGED Status!vars
    BY DEF statusVars, Status!vars
  <1>3. UNCHANGED agentVars => UNCHANGED Agent!vars
    BY DEF agentVars, Agent!vars, Agent!envVars, Agent!agentVars, Agent!fileVars, Agent!netVars
  <1>4. CASE UNCHANGED allVars
    BY <1>1, <1>2, <1>3, <1>4 DEF allVars
  <1>5. CASE PrintdRuns /\ Next
    BY <1>2, <1>3, <1>5 DEF PrintdRuns
  <1>6. CASE StatusRuns /\ Status!Next
    BY <1>1, <1>3, <1>6 DEF StatusRuns
  <1>7. CASE AgentRuns /\ Agent!Next
    BY <1>1, <1>2, <1>7 DEF AgentRuns
  <1> QED BY <1>4, <1>5, <1>6, <1>7 DEF ServicesNext

LEMMA ProgramsRun == ServicesSpec => Spec /\ Status!Spec /\ Agent!Spec
  BY ProgramsStart, ProgramsStep, PTL DEF ServicesSpec, Spec, Status!Spec, Agent!Spec

\* The module with the proofs has the definitions of the module they are about.
LEMMA SameAgent ==
  /\ Agent!ConstantsAssumption => AgentProof!ConstantsAssumption
  /\ Agent!Init => AgentProof!Init
  /\ [Agent!Next]_(Agent!vars) => [AgentProof!Next]_(AgentProof!vars)
  /\ AgentProof!DownloadIsPrefix => Agent!DownloadIsPrefix
  <1>1. Agent!ConstantsAssumption => AgentProof!ConstantsAssumption
    BY Zenon DEF Agent!ConstantsAssumption, AgentProof!ConstantsAssumption
  <1>2. Agent!Init => AgentProof!Init
    BY Zenon DEF Agent!Day, Agent!NULL, Agent!Init, AgentProof!Day, AgentProof!NULL, AgentProof!Init
  <1>3. [Agent!Next]_(Agent!vars) => [AgentProof!Next]_(AgentProof!vars)
    BY Zenon DEF Agent!NULL, Agent!envVars, Agent!fileVars, Agent!agentVars, Agent!netVars, Agent!vars, Agent!Goes,
           Agent!Fault, Agent!Exists, Agent!Grow, Agent!Midnight, Agent!Prefixes, Agent!Hangup, Agent!NoFile,
           Agent!Start, Agent!Killed, Agent!MayRetry, Agent!ConnectFails, Agent!Connect, Agent!RecvName,
           Agent!RecvFails, Agent!OpenFails, Agent!Open, Agent!Read, Agent!ReadEof, Agent!WaitedTooLong,
           Agent!NewDay, Agent!TooLong, Agent!EndOfDay, Agent!Wait, Agent!Resumed, Agent!Reopen,
           Agent!ReopenFails, Agent!Send, Agent!SendFails, Agent!Close, Agent!AgentNext, Agent!TalkReceives,
           Agent!TalkWriteFails, Agent!Rotated, Agent!TalkReset, Agent!TalkEof, Agent!TalkNext, Agent!Next,
           AgentProof!NULL, AgentProof!envVars, AgentProof!fileVars, AgentProof!agentVars, AgentProof!netVars,
           AgentProof!vars, AgentProof!Goes, AgentProof!Fault, AgentProof!Exists, AgentProof!Grow,
           AgentProof!Midnight, AgentProof!Prefixes, AgentProof!Hangup, AgentProof!NoFile, AgentProof!Start,
           AgentProof!Killed, AgentProof!MayRetry, AgentProof!ConnectFails, AgentProof!Connect,
           AgentProof!RecvName, AgentProof!RecvFails, AgentProof!OpenFails, AgentProof!Open, AgentProof!Read,
           AgentProof!ReadEof, AgentProof!WaitedTooLong, AgentProof!NewDay, AgentProof!TooLong,
           AgentProof!EndOfDay, AgentProof!Wait, AgentProof!Resumed, AgentProof!Reopen,
           AgentProof!ReopenFails, AgentProof!Send, AgentProof!SendFails, AgentProof!Close,
           AgentProof!AgentNext, AgentProof!TalkReceives, AgentProof!TalkWriteFails, AgentProof!Rotated,
           AgentProof!TalkReset, AgentProof!TalkEof, AgentProof!TalkNext, AgentProof!Next
  <1>4. AgentProof!DownloadIsPrefix => Agent!DownloadIsPrefix
    BY Zenon DEF Agent!NULL, Agent!DownloadIsPrefix, AgentProof!NULL, AgentProof!DownloadIsPrefix
  <1> QED BY <1>1, <1>2, <1>3, <1>4

(* Whatever the pieces of the printer's answer are, and whatever fails, 1 is    *)
(* returned only if the printer has printed this job, and it is returned when   *)
(* every message is read as a whole (printd.c:875-1024).                         *)
THEOREM AnswersUnderstood == ServicesSpec => []StatusTruthful
  <1>1. Status!StatusTruthful => StatusTruthful
    BY DEF StatusTruthful
  <1> QED BY ProgramsRun, StatusIsTruthful, <1>1, PTL

(* For logs of any length, and any faults, what the agent's connection has      *)
(* brought to the server is the log it asked for, from the first byte on: the   *)
(* remembered position skips and repeats nothing (agent.c:260-269, 318-332).     *)
THEOREM AgentSendsPrefix == ServicesSpec => []DownloadIsPrefix
  <1>1. AgentProof!ConstantsAssumption
    BY SameAgent, ServicesAssumption DEF ServicesAssumption
  <1>2. Agent!Spec => AgentProof!Spec
    BY SameAgent, PTL DEF Agent!Spec, AgentProof!Spec
  <1>3. AgentProof!Spec => []AgentProof!DownloadIsPrefix
    BY <1>1, AgentProof!AgentSendsPrefix
  <1>4. Agent!DownloadIsPrefix => DownloadIsPrefix
    BY DEF DownloadIsPrefix
  <1> QED BY ProgramsRun, SameAgent, <1>2, <1>3, <1>4, PTL
=============================================================================
