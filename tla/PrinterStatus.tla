--------------------------- MODULE PrinterStatus ----------------------------
(***************************************************************************)
(* apue.3e/printer/printd.c, printer_status and readmore: the daemon reads *)
(* the printer's answer to a job, an HTTP header and an IPP header, from a *)
(* connection that hands it over in pieces of any size.                    *)
(*                                                                         *)
(* The answer is a sequence of units that stand for the places the parser  *)
(* looks for: a status line, "Content-Length: n" up to the end of its      *)
(* line, another header line (without a good status where the parser looks *)
(* for one, at its ninth character), the bytes "\n", "\r", "\n" before the *)
(* body, and the IPP header the body starts with.  A piece ends between    *)
(* two units.  What is in the buffer beyond the data is no unit, and the   *)
(* buffer is as large as it has to be.                                     *)
(***************************************************************************)
EXTENDS Integers, Sequences, FiniteSets

CONSTANTS
  Interim,  \* the answers may start with a status line of class 1xx
  MayFail   \* a read may time out, fail, or find the connection closed

VARIABLES
  sent,     \* the printer's answer
  got,      \* how many of its units have been read
  bp,       \* the buffer: the units in it, by position
  datsz, i,
  pc,
  success,
  whole     \* every read has returned exactly the next message

vars == <<sent, got, bp, datsz, i, pc, success, whole>>

BodyLen == 2 \* the number in Content-Length

Final == {<<status>> \o header \o <<"length", "lf", "cr", "lf", ipp, "attributes">> :
            status \in {"2xx", "4xx"}, header \in {<<>>, <<"header">>},
            ipp \in {"mine", "refused", "other"}}

Answers == Final \cup IF Interim THEN {<<"1xx", "lf", "cr", "lf">> \o f : f \in Final} ELSE {}

InterimLen(answer) == IF answer[1] = "1xx" THEN 4 ELSE 0

\* The printer has printed this job.
Printed(answer) == \E n \in DOMAIN answer : answer[n] = "mine" /\ \E m \in 1 .. n : answer[m] = "2xx"

Init == /\ sent \in Answers
        /\ got = 0
        /\ bp = <<>> /\ datsz = 0 /\ i = 0
        /\ pc = "tread"
        /\ success = FALSE
        /\ whole = TRUE

At(label) == pc = label
Unit(n) == IF n \in DOMAIN bp THEN bp[n] ELSE "junk"
FirstOf(positions) == CHOOSE n \in positions : \A m \in positions : n <= m

\* k units arrive and are put into the buffer from position off on.
Arrive(off, k) ==
  /\ bp' = [n \in DOMAIN bp \cup off .. off + k - 1 |->
              IF n \in off .. off + k - 1 THEN sent[got + n - off + 1] ELSE bp[n]]
  /\ got' = got + k
  /\ whole' = (whole /\ got' = IF got < InterimLen(sent) THEN InterimLen(sent) ELSE Len(sent))

Missing == 1 .. Len(sent) - got

\* The condition of the while loop.
Tread ==
  /\ At("tread")
  /\ \E k \in Missing : Arrive(0, k) /\ datsz' = k
  /\ pc' = "status"
  /\ UNCHANGED <<sent, i, success>>

\* A time-out, an error, or the end of the file; at the end of the answer one must come.
ReadFails ==
  /\ pc \in {"tread", "readlength", "more", "end", "body"}
  /\ MayFail \/ Missing = {}
  /\ pc \in {"more", "end"} => i >= datsz
  /\ At("body") => datsz - i < BodyLen
  /\ pc' = "out"
  /\ UNCHANGED <<sent, got, bp, datsz, i, success, whole>>

\* "Bad format; log it and move on", or an interim answer: what else is in the buffer is dropped.
MoveOn ==
  /\ At("status")
  /\ Unit(0) \notin {"2xx", "4xx"}
  /\ pc' = "tread"
  /\ UNCHANGED <<sent, got, bp, datsz, i, success, whole>>

\* A number that is no good status; a piece that does not start with a status line may
\* have one where it is looked for.
HttpError ==
  /\ At("status")
  /\ Unit(0) \notin {"1xx", "2xx"}
  /\ pc' = "out"
  /\ UNCHANGED <<sent, got, bp, datsz, i, success, whole>>

HttpOk ==
  /\ At("status")
  /\ Unit(0) = "2xx"
  /\ i' = 1
  /\ pc' = "length"
  /\ UNCHANGED <<sent, got, bp, datsz, success, whole>>

\* The search for Content-Length, as far as there is data.
FindLength ==
  /\ At("length")
  /\ LET found == {n \in i .. datsz - 1 : Unit(n) = "length"} IN
       IF found # {} THEN i' = FirstOf(found) + 1 /\ pc' = "more"
                     ELSE i' = datsz /\ pc' = "readlength"
  /\ UNCHANGED <<sent, got, bp, datsz, success, whole>>

\* readmore returns the offset of the end of the data, which is added to datsz.
Grown(k) == datsz + i + k

Readmore(from, to) ==
  /\ At(from)
  /\ \E k \in Missing : Arrive(i, k) /\ datsz' = Grown(k)
  /\ pc' = to
  /\ UNCHANGED <<sent, i, success>>

MoreLength == Readmore("readlength", "length")
MoreHeader == i >= datsz /\ Readmore("more", "blank")
MoreEnd == i >= datsz /\ Readmore("end", "body")

Enough(from, to) ==
  /\ At(from)
  /\ i < datsz
  /\ pc' = to
  /\ UNCHANGED <<sent, got, bp, datsz, i, success, whole>>

\* The end of the HTTP header.  The loop stops two bytes before the end of the
\* data, but more is read only at the end, which it never reaches.
FindBlank ==
  /\ At("blank")
  /\ LET found == {n \in i .. datsz - 3 : Unit(n) = "lf" /\ Unit(n + 1) = "cr" /\ Unit(n + 2) = "lf"} IN
       IF found # {} THEN i' = FirstOf(found) + 3 /\ pc' = "end"
                     ELSE i' = (IF i < datsz - 2 THEN datsz - 2 ELSE i) /\ UNCHANGED pc
  /\ UNCHANGED <<sent, got, bp, datsz, success, whole>>

\* The missing part of the body is read to where the body starts.
MoreBody == datsz - i < BodyLen /\ Readmore("body", "ipp")
WholeBody == datsz - i >= BodyLen /\ At("body") /\ pc' = "ipp"
               /\ UNCHANGED <<sent, got, bp, datsz, i, success, whole>>

\* Mutant of Succeeded: whichever job the answer is about.
SucceededForAny(unit) == unit \in {"mine", "other"}

\* The request id is the job's, and the status is a good one.
Succeeded(unit) == unit = "mine"

IppStatus ==
  /\ At("ipp")
  /\ success' = Succeeded(Unit(i))
  /\ pc' = "out"
  /\ UNCHANGED <<sent, got, bp, datsz, i, whole>>

Next == \/ Tread \/ ReadFails \/ MoveOn \/ HttpError \/ HttpOk
        \/ FindLength \/ MoreLength
        \/ MoreHeader \/ Enough("more", "blank") \/ FindBlank \/ MoreEnd \/ Enough("end", "body")
        \/ MoreBody \/ WholeBody \/ IppStatus

Spec == Init /\ [][Next]_vars

\* The thread runs, and the printer sends its answer.
FairSpec == Spec /\ WF_vars(Next)
-----------------------------------------------------------------------------
(* Whatever the pieces are, 1 is returned only if the printer has printed     *)
(* this job; and if every message is read as a whole, 1 is returned if it has.*)
StatusTruthful ==
  At("out") => /\ success => Printed(sent)
               /\ whole /\ got = Len(sent) /\ Printed(sent) => success

(* "Read the HTTP header followed by the IPP response header. They can be     *)
(* returned in multiple read attempts." (printd.c:885-886): the answer to a   *)
(* job that was printed is understood, however it comes.                      *)
AnyPiecesUnderstood == Printed(sent) => <>(At("out") /\ success)
=============================================================================
