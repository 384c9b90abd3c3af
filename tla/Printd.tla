------------------------------- MODULE Printd -------------------------------
(***************************************************************************)
(* apue.3e/printer/printd.c: the print spooling daemon.  A thread per      *)
(* client stores a document in the spool directory, a data file and a      *)
(* request file with the job number for a name, answers the client and     *)
(* puts the job on a list in memory; one thread sends the jobs to the      *)
(* printer.  After a restart the list is built again from the directory,   *)
(* and the job numbers go on from the one in the job file.                 *)
(*                                                                         *)
(* A document is the client it comes from; a client submits one.           *)
(***************************************************************************)
EXTENDS Naturals, Sequences, FiniteSets

CONSTANTS Client,
          None,
          MaxRestarts \* bound: how often the daemon dies

ASSUME PrintdAssumption == /\ IsFiniteSet(Client) /\ MaxRestarts \in Nat
                          /\ None \notin Client /\ "short" \notin Client

VARIABLES jobno,   \* the job file: the number in it, 0 when it is empty
          data,    \* SPOOLDIR/data: the document in each file, or None
          reqs,    \* SPOOLDIR/reqs: whose request, "short" when it is not written yet, or None
          up,      \* the daemon runs
          restarts,
          toscan,  \* the entries build_qonstart has still to read
          nextjob,
          jobs,    \* the list from jobhead to jobtail
          cpc, cid, \* per client: where its client_thread is, its job number or 0
          answered, \* clients that were told their job number
          ppc, jp, \* the printer thread, and the job it has taken, or 0
          signals, \* pthread_cond_signal calls to come: of client threads, and of main
          reread,
          printed, \* documents the printer has reported as printed
          canceled \* numbers of the jobs that were dropped, as the log says

disk == <<jobno, data, reqs>>
clients == <<cpc, cid, answered>>
thread == <<ppc, jp>>
life == <<up, restarts, toscan>>
history == <<printed, canceled>>
vars == <<disk, life, nextjob, jobs, clients, thread, signals, reread, history>>

JobId == 1 .. Cardinality(Client) \* enough: every number given belongs to a client

Init ==
  /\ jobno = 0
  /\ data = [i \in JobId |-> None]
  /\ reqs = [i \in JobId |-> None]
  /\ up = TRUE /\ restarts = 0 /\ toscan = {}
  /\ nextjob = 1
  /\ jobs = <<>>
  /\ cpc = [c \in Client |-> "idle"]
  /\ cid = [c \in Client |-> 0]
  /\ answered = {}
  /\ ppc = "check" /\ jp = 0
  /\ signals = {}
  /\ reread = FALSE
  /\ printed = {} /\ canceled = {}

At(c, label) == up /\ cpc[c] = label
Goto(c, label) == cpc' = [cpc EXCEPT ![c] = label]
-----------------------------------------------------------------------------
(* main and client_thread                                                    *)

\* main is in its loop only when build_qonstart has returned.
Accept(c) ==
  /\ At(c, "idle")
  /\ toscan = {}
  /\ Goto(c, "header")
  /\ UNCHANGED <<disk, life, nextjob, jobs, cid, answered, thread, signals, reread, history>>

\* treadn fails: the client is told.
HeaderFails(c) ==
  /\ At(c, "header")
  /\ Goto(c, "failed")
  /\ UNCHANGED <<disk, life, nextjob, jobs, cid, answered, thread, signals, reread, history>>

\* get_newjobno, with joblock held.
GetNewJobno(c) ==
  /\ At(c, "header")
  /\ cid' = [cid EXCEPT ![c] = nextjob]
  /\ nextjob' = nextjob + 1
  /\ Goto(c, "creat")
  /\ UNCHANGED <<disk, life, jobs, answered, thread, signals, reread, history>>

\* creat truncates a file that is there; it may fail.
CreatData(c) ==
  /\ At(c, "creat")
  /\ \/ Goto(c, "receive") /\ data' = [data EXCEPT ![cid[c]] = c]
     \/ Goto(c, "failed") /\ UNCHANGED data
  /\ UNCHANGED <<jobno, reqs, life, nextjob, jobs, cid, answered, thread, signals, reread, history>>

\* tread ends the loop, with an end of file or an error alike; a write may fail.
Receive(c) ==
  /\ At(c, "receive")
  /\ Goto(c, "creatreq") \/ Goto(c, "undo")
  /\ UNCHANGED <<disk, life, nextjob, jobs, cid, answered, thread, signals, reread, history>>

CreatReq(c) ==
  /\ At(c, "creatreq")
  /\ \/ Goto(c, "writereq") /\ reqs' = [reqs EXCEPT ![cid[c]] = "short"]
     \/ Goto(c, "undo") /\ UNCHANGED reqs
  /\ UNCHANGED <<jobno, data, life, nextjob, jobs, cid, answered, thread, signals, reread, history>>

WriteReq(c) ==
  /\ At(c, "writereq")
  /\ \/ Goto(c, "answer") /\ reqs' = [reqs EXCEPT ![cid[c]] = c]
     \/ Goto(c, "undo") /\ reqs' = [reqs EXCEPT ![cid[c]] = None]
  /\ UNCHANGED <<jobno, data, life, nextjob, jobs, cid, answered, thread, signals, reread, history>>

\* After a failure the data file goes, too.
Undo(c) ==
  /\ At(c, "undo")
  /\ Goto(c, "failed")
  /\ data' = [data EXCEPT ![cid[c]] = None]
  /\ UNCHANGED <<jobno, reqs, life, nextjob, jobs, cid, answered, thread, signals, reread, history>>

\* The result of writen is ignored: the answer may be lost.
Answer(c) ==
  /\ At(c, "answer")
  /\ Goto(c, "add")
  /\ answered' = answered \cup {c} \/ UNCHANGED answered
  /\ UNCHANGED <<disk, life, nextjob, jobs, cid, thread, signals, reread, history>>

\* add_job, with joblock held: the job becomes jobtail.
AddJob(c) ==
  /\ At(c, "add")
  /\ Goto(c, "done")
  /\ jobs' = Append(jobs, cid[c])
  /\ signals' = signals \cup {c}
  /\ UNCHANGED <<disk, life, nextjob, cid, answered, thread, reread, history>>

\* Mutant of Woken: the signal comes when nobody waits and stays without effect.
NeverWoken == ppc

\* pthread_cond_signal reaches the printer thread if it waits.
Woken == IF ppc = "asleep" THEN "check" ELSE ppc

Signal(s) ==
  /\ up
  /\ s \in signals
  /\ signals' = signals \ {s}
  /\ ppc' = Woken
  /\ UNCHANGED <<disk, life, nextjob, jobs, clients, jp, reread, history>>
-----------------------------------------------------------------------------
(* printer_thread                                                            *)

Printer(label) == up /\ ppc = label
PrinterGoes(label) == ppc' = label

\* Mutant of Removed: the job stays on the list.
RemovedNot == jobs

\* remove_job, for jobhead.
Removed == Tail(jobs)

\* With joblock held: the first job is taken off the list, or there is none to take.
Check ==
  /\ Printer("check")
  /\ \/ /\ jobs = <<>>
        /\ PrinterGoes("asleep")
        /\ UNCHANGED <<jobs, jp>>
     \/ /\ jobs # <<>>
        /\ jp' = Head(jobs)
        /\ jobs' = Removed
        /\ PrinterGoes("jobno")
  /\ UNCHANGED <<disk, life, nextjob, clients, signals, reread, history>>

\* Mutant of JobnoWritten: the number of the job at hand instead of the next.
JobnoOfJob == jp

\* nextjob is read without joblock.
JobnoWritten == nextjob

UpdateJobno ==
  /\ Printer("jobno")
  /\ jobno' = JobnoWritten
  /\ PrinterGoes("config")
  /\ UNCHANGED <<data, reqs, life, nextjob, jobs, clients, jp, signals, reread, history>>

\* The configuration file is read again after SIGHUP; InitFails is the other outcome.
Config ==
  /\ Printer("config")
  /\ reread' = FALSE
  /\ PrinterGoes("open")
  /\ UNCHANGED <<disk, life, nextjob, jobs, clients, jp, signals, history>>

\* open or fstat fails, and must fail if there is no file: the job is dropped.
Cancel ==
  /\ Printer("open")
  /\ canceled' = canceled \cup {jp}
  /\ jp' = 0
  /\ PrinterGoes("check")
  /\ UNCHANGED <<disk, life, nextjob, jobs, clients, signals, reread, printed>>

OpenData ==
  /\ Printer("open")
  /\ data[jp] # None
  /\ PrinterGoes("send")
  /\ UNCHANGED <<disk, life, nextjob, jobs, clients, jp, signals, reread, history>>

\* The printer cannot be reached, or the document not be sent or read.
SendFails ==
  /\ Printer("send")
  /\ PrinterGoes("defer")
  /\ UNCHANGED <<disk, life, nextjob, jobs, clients, jp, signals, reread, history>>

\* The document has been sent as far as its end.
Send ==
  /\ Printer("send")
  /\ PrinterGoes("status")
  /\ UNCHANGED <<disk, life, nextjob, jobs, clients, jp, signals, reread, history>>

\* Mutant of Refused: the files are removed whatever the status.
RefusedRemoves == PrinterGoes("unlink")

Refused == PrinterGoes("defer")

\* printer_status returns 0, after an error or without an answer.
StatusFails ==
  /\ Printer("status")
  /\ Refused
  /\ UNCHANGED <<disk, life, nextjob, jobs, clients, jp, signals, reread, history>>

StatusOk ==
  /\ Printer("status")
  /\ printed' = printed \cup ({data[jp]} \ {None})
  /\ PrinterGoes("unlink")
  /\ UNCHANGED <<disk, life, nextjob, jobs, clients, jp, signals, reread, canceled>>

\* The data file goes first ...
UnlinkData ==
  /\ Printer("unlink")
  /\ data' = [data EXCEPT ![jp] = None]
  /\ PrinterGoes("unlinkreq")
  /\ UNCHANGED <<jobno, reqs, life, nextjob, jobs, clients, jp, signals, reread, history>>

\* ... and then the request.
UnlinkReq ==
  /\ Printer("unlinkreq")
  /\ reqs' = [reqs EXCEPT ![jp] = None]
  /\ jp' = 0
  /\ PrinterGoes("check")
  /\ UNCHANGED <<jobno, data, life, nextjob, jobs, clients, signals, reread, history>>

\* Mutant of Replaced: the job goes to the end of the list.
ReplacedLast == Append(jobs, jp)

\* replace_job, with joblock held.
Replaced == <<jp>> \o jobs

\* The job is jobhead again, and the thread sleeps for a minute.
Defer ==
  /\ Printer("defer")
  /\ jobs' = Replaced
  /\ jp' = 0
  /\ PrinterGoes("check")
  /\ UNCHANGED <<disk, life, nextjob, clients, signals, reread, history>>
-----------------------------------------------------------------------------
(* The end of the daemon, and the next one                                   *)

\* signal_thread: SIGHUP.
Hup == /\ up
       /\ reread' = TRUE
       /\ UNCHANGED <<disk, life, nextjob, jobs, clients, thread, signals, history>>

Dies ==
  /\ up /\ restarts < MaxRestarts
  /\ up' = FALSE
  /\ restarts' = restarts + 1
  /\ toscan' = {}
  /\ jobs' = <<>> /\ nextjob' = 0
  /\ ppc' = "check" /\ jp' = 0
  /\ signals' = {}
  /\ reread' = FALSE
  /\ cpc' = [c \in Client |-> IF cpc[c] \in {"idle", "failed", "done"} THEN cpc[c]
                             ELSE IF c \in answered THEN "done" ELSE "failed"]
  /\ UNCHANGED <<disk, cid, answered, history>>

\* SIGTERM, a crash, or log_quit: the threads end where they are.
Killed == Dies

\* init_printer exits when the new configuration names no printer.
InitFails == Printer("config") /\ reread /\ Dies

FirstNumber == IF jobno = 0 THEN 1 ELSE jobno

\* main: init_request, init_printer, the printer thread; opendir.
Start ==
  /\ ~up
  /\ up' = TRUE
  /\ nextjob' = FirstNumber
  /\ toscan' = {i \in JobId : reqs[i] # None}
  /\ UNCHANGED <<disk, restarts, jobs, clients, thread, signals, reread, history>>

\* A request file that is too short is removed, and its data file.
Unreadable(i) == reqs[i] = "short"

RemoveShort(i) ==
  /\ up /\ i \in toscan
  /\ Unreadable(i)
  /\ toscan' = toscan \ {i}
  /\ reqs' = [reqs EXCEPT ![i] = None]
  /\ data' = [data EXCEPT ![i] = None]
  /\ UNCHANGED <<jobno, up, restarts, nextjob, jobs, clients, thread, signals, reread, history>>

\* add_job for an entry of the directory, in any order.
AddOnStart(i) ==
  /\ up /\ i \in toscan
  /\ ~Unreadable(i)
  /\ toscan' = toscan \ {i}
  /\ jobs' = Append(jobs, i)
  /\ signals' = signals \cup {"main"}
  /\ UNCHANGED <<disk, up, restarts, nextjob, clients, thread, reread, history>>
-----------------------------------------------------------------------------
ClientThread(c) ==
  \/ Accept(c) \/ HeaderFails(c) \/ GetNewJobno(c) \/ CreatData(c) \/ Receive(c) \/ CreatReq(c)
  \/ WriteReq(c) \/ Undo(c) \/ Answer(c) \/ AddJob(c)

PrinterThread ==
  \/ Check \/ UpdateJobno \/ Config \/ Cancel \/ OpenData \/ SendFails \/ Send
  \/ StatusFails \/ StatusOk \/ UnlinkData \/ UnlinkReq \/ Defer

BuildQ == \E i \in JobId : RemoveShort(i) \/ AddOnStart(i)
SomeSignal == \E s \in Client \cup {"main"} : Signal(s)

Next == \/ \E c \in Client : ClientThread(c)
        \/ SomeSignal
        \/ PrinterThread
        \/ BuildQ
        \/ Hup \/ Killed \/ InitFails \/ Start

Spec == Init /\ [][Next]_vars

(* Every thread runs, the daemon is started again after its end, and the      *)
(* printer is reached and prints if that is tried again and again.            *)
Fairness == /\ \A c \in Client : WF_vars(ClientThread(c))
            /\ WF_vars(SomeSignal) /\ WF_vars(PrinterThread) /\ WF_vars(BuildQ)
            /\ WF_vars(Start)
            /\ SF_vars(Send) /\ SF_vars(StatusOk)

FairSpec == Spec /\ Fairness
-----------------------------------------------------------------------------
ClientPC == {"idle", "header", "creat", "receive", "creatreq", "writereq", "undo", "answer",
             "add", "done", "failed"}
PrinterPC == {"check", "asleep", "jobno", "config", "open", "send", "status", "unlink",
              "unlinkreq", "defer"}

TypeOK ==
  /\ jobno \in 0 .. Cardinality(Client) + 1
  /\ data \in [JobId -> Client \cup {None}]
  /\ reqs \in [JobId -> Client \cup {"short", None}]
  /\ up \in BOOLEAN /\ restarts \in 0 .. MaxRestarts /\ toscan \subseteq JobId
  /\ nextjob \in 0 .. Cardinality(Client) + 1
  /\ jobs \in Seq(JobId)
  /\ cpc \in [Client -> ClientPC]
  /\ cid \in [Client -> JobId \cup {0}]
  /\ answered \subseteq Client
  /\ ppc \in PrinterPC
  /\ jp \in JobId \cup {0}
  /\ (jp = 0) = (ppc \in {"check", "asleep"})
  /\ signals \subseteq Client \cup {"main"}
  /\ reread \in BOOLEAN
  /\ printed \subseteq Client /\ canceled \subseteq JobId

\* The number of c was given to another client, too: after a restart with a stale job file.
Renumbered(c) == \E d \in Client \ {c} : cid[d] = cid[c]

(* A document whose client has been told a job number is in the spool until   *)
(* the printer has reported it printed, whatever fails and across restarts,   *)
(* unless its number was given again.                                         *)
AnsweredIsSpooled ==
  \A c \in answered \ printed :
    ~Renumbered(c) => data[cid[c]] = c /\ reqs[cid[c]] = c

\* How often the daemon has job i before it.
Pending(i) == Cardinality({n \in 1 .. Len(jobs) : jobs[n] = i})
                + Cardinality({k \in {jp} : k = i}) + Cardinality({i} \cap toscan)
                + Cardinality({c \in Client : cid[c] = i /\ cpc[c] \in {"answer", "add"}})

(* While the daemon runs, every complete request in the spool is before it    *)
(* exactly once: on the list, with the printer thread, to be scanned, or with *)
(* the thread that is about to add it.  None is forgotten or queued twice.    *)
PendingOnce ==
  up => \A c \in Client : (/\ cid[c] # 0 /\ reqs[cid[c]] = c
                           /\ ~Renumbered(c) /\ cid[c] \notin canceled)
                             => Pending(cid[c]) = 1

(* The printer thread does not wait for ever with a job on the list.          *)
NoLostWakeup == (ppc = "asleep" /\ jobs # <<>>) => signals # {}

\* The jobs in the order they will be printed, the one at the printer first.
Order == (IF jp = 0 THEN <<>> ELSE <<jp>>) \o jobs

(* A job that is deferred keeps its place: the order only loses its first and *)
(* gains a last, as long as the daemon lives.                                 *)
FirstComeFirstPrinted ==
  [][~up' \/ Order' = Order \/ (Order # <<>> /\ Order' = Tail(Order))
       \/ \E i \in JobId : Order' = Append(Order, i)]_<<jp, jobs, up>>

(* The number in the job file never goes back, whichever job is picked up.    *)
JobnoGrows == [][jobno' >= jobno]_jobno

(* A document whose client has been told a job number is printed in the end,  *)
(* unless its number was given again or the job canceled.                     *)
AnsweredIsPrinted ==
  \A c \in Client :
    (c \in answered) ~> (c \in printed \/ Renumbered(c) \/ cid[c] \in canceled)
=============================================================================
