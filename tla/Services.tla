------------------------------ MODULE Services ------------------------------
(* Programs that promise their users something in the end, side by side: the  *)
(* print spooler (Printd, extended) and its reader of the printer's answers    *)
(* (PrinterStatus), and the agent of the IDS server.  They share nothing: the  *)
(* program that runs is chosen at the start, the others stay as they are.      *)
EXTENDS Printd

CONSTANTS Interim, MayFail, \* PrinterStatus
          LastDay, MaxLen, MAX_RETRY_COUNT, MAX_WAITING_COUNT, CHECK_COUNT,
          MaxFaults, Prompt, Faults \* IdsAgent

VARIABLES program,
          sent, got, bp, datsz, place, stage, success, whole,        \* PrinterStatus
          today, log, nfault, pc, g_date, g_retry_count, errno, file_name, a, t, nsl, buf,
          client_socket, g_file_name, thread_of, peer, wire, file    \* IdsAgent

Status == INSTANCE PrinterStatus WITH i <- place, pc <- stage
Agent == INSTANCE IdsAgent WITH talk <- thread_of

ASSUME ServicesAssumption == Agent!ConstantsAssumption

printdVars == vars
statusVars == <<sent, got, bp, datsz, place, stage, success, whole>>
agentVars == <<today, log, nfault, pc, g_date, g_retry_count, errno, file_name, a, t, nsl, buf,
               client_socket, g_file_name, thread_of, peer, wire, file>>
allVars == <<program, printdVars, statusVars, agentVars>>

ServicesInit == /\ program \in {"printd", "status", "agent"}
                /\ Init /\ Status!Init /\ Agent!Init
                /\ program # "status" => sent = CHOOSE answer \in Status!Answers : TRUE

PrintdRuns == program = "printd" /\ UNCHANGED <<program, statusVars, agentVars>>
StatusRuns == program = "status" /\ UNCHANGED <<program, printdVars, agentVars>>
AgentRuns == program = "agent" /\ UNCHANGED <<program, printdVars, statusVars>>

ServicesNext == \/ PrintdRuns /\ Next
                \/ StatusRuns /\ Status!Next
                \/ AgentRuns /\ Agent!Next

(* The fairness of each program: a premise of what that program promises, so   *)
(* that no promise rests on the fairness of another.                           *)
PrintdFair ==
  /\ \A c \in Client : WF_allVars(PrintdRuns /\ ClientThread(c))
  /\ WF_allVars(PrintdRuns /\ SomeSignal) /\ WF_allVars(PrintdRuns /\ PrinterThread)
  /\ WF_allVars(PrintdRuns /\ BuildQ) /\ WF_allVars(PrintdRuns /\ Start)
  /\ SF_allVars(PrintdRuns /\ Send) /\ SF_allVars(PrintdRuns /\ StatusOk)

AgentFair == WF_allVars(AgentRuns /\ Agent!AgentNext) /\ WF_allVars(AgentRuns /\ Agent!TalkNext)

ServicesSpec == ServicesInit /\ [][ServicesNext]_allVars
-----------------------------------------------------------------------------
(* A document whose client has been told a job number is printed in the end    *)
(* (printd.c:486-520, 669-840).                                                *)
DocumentsArePrinted == program = "printd" /\ PrintdFair => AnsweredIsPrinted

(* Whatever the pieces of the answer are, 1 is returned only if the printer    *)
(* has printed this job (printd.c:875-1024).                                   *)
StatusTruthful == Status!StatusTruthful

(* Nothing of the log is skipped or sent twice (agent.c:260-269, 318-332).     *)
DownloadIsPrefix == Agent!DownloadIsPrefix

(* Today's log gets to the server in the end (agent.c:205-350).                *)
TodayIsDownloaded == program = "agent" /\ AgentFair => Agent!TodayIsDownloaded
=============================================================================
