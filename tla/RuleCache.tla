----------------------------- MODULE RuleCache ------------------------------
(***************************************************************************)
(* midwares/mysql/mysql_wrap.c: what the rule engine of the IDS server     *)
(* remembers.  The dispatch thread calls sql_check_sql for every record,   *)
(* which skips the statements that are in one of four hash tables.  The    *)
(* console's thread adds exceptions and reloads the rules.  Both use one   *)
(* MySQL connection, without autocommit (1931) and without reconnection.   *)
(* The process exits when a report fails, and a supervisor starts it       *)
(* again: the tables are then loaded from the database.                    *)
(*                                                                         *)
(* A statement is the host it comes from and its normalized id.  A key of  *)
(* the exception and suspect tables is the text "%s%u" of both, so hosts   *)
(* and ids are sequences of digits.  The tables keep pointers to keys: the *)
(* dispatch thread's always point to the same place of its stack, where    *)
(* they equal what is looked up, and hashes decide (they are taken to be   *)
(* different for different keys); the console thread's point to a frame    *)
(* that is gone.                                                           *)
(***************************************************************************)
EXTENDS Integers, Sequences

CONSTANTS
  Stmt,             \* the statements: a host and an id, sequences of digits
  Level,            \* the security levels of the rules
  DefaultLevel,     \* sql_set_sec_level(3, 1)
  Bad,              \* per level, the ids check_sql rejects
  Matched,          \* the ids a regular expression of dtest_re.conf matches
  NormalSql         \* the ids in table normal_sql, which nobody writes (751-781)

Ids == {s[2] : s \in Stmt}

ConstantsAssumption ==
  /\ \A s \in Stmt : s \in Seq(Nat) \X Seq(Nat)
  /\ DefaultLevel \in Level
  /\ Bad \in [Level -> SUBSET Ids]
  /\ Matched \subseteq Ids /\ NormalSql \subseteq Ids

VARIABLES
  up, connected, level,
  g_machine_learning_on,  \* read from the configuration at the start
  normal, error, suspect, \* the tables, without their values
  exception,              \* [key, mem]: loaded keys are on the heap
  db, txn,                \* the committed rows, and those of the open transaction
  disp, cons              \* the dispatch and the console thread

tableVars == <<normal, error, suspect, exception>>
dbVars    == <<db, txn>>
vars == <<up, connected, level, g_machine_learning_on, tableVars, dbVars, disp, cons>>

Keys == {s[1] \o s[2] : s \in Stmt}
Rows == [ids_event : Seq(Stmt), suspect_sql_new : Seq(Keys), exception_sql : SUBSET Keys]
NoRows == [ids_event |-> <<>>, suspect_sql_new |-> <<>>, exception_sql |-> {}]
None == <<>>
Idle == [pc |-> "idle", stmt |-> None]

TypeOK ==
  /\ up \in BOOLEAN /\ connected \in BOOLEAN /\ level \in Level
  /\ g_machine_learning_on \in BOOLEAN
  /\ normal \subseteq Ids /\ error \subseteq Ids
  /\ suspect \subseteq Keys
  /\ exception \subseteq [key : Keys, mem : {"heap", "frame"}]
  /\ db \in Rows /\ txn \in Rows
  /\ disp \in [pc : {"idle", "parse", "ask", "record", "report", "blacklist", "commit"},
               stmt : Stmt \cup {None}]
  /\ cons \in [pc : {"idle", "execute", "commit", "insert"}, stmt : Stmt \cup {None}]

Key(s) == s[1] \o s[2]

Reported == {db.ids_event[n][2] : n \in DOMAIN db.ids_event}
Elements(seq) == {seq[n] : n \in DOMAIN seq}

\* sql_init and sql_init2.
Loaded ==
  /\ up' = TRUE /\ connected' = TRUE /\ level' = DefaultLevel
  /\ g_machine_learning_on' \in BOOLEAN
  /\ normal' = NormalSql
  /\ error' = Reported
  /\ suspect' = Elements(db.suspect_sql_new)
  /\ exception' = [key : db.exception_sql, mem : {"heap"}]
  /\ disp' = Idle /\ cons' = Idle
  /\ UNCHANGED dbVars

Init ==
  /\ up = FALSE /\ connected = FALSE /\ level = DefaultLevel /\ g_machine_learning_on = FALSE
  /\ normal = {} /\ error = {} /\ suspect = {} /\ exception = {}
  /\ db = NoRows /\ txn = NoRows
  /\ disp = Idle /\ cons = Idle

\* The process ends: what is in memory is gone, and the transaction rolled back.
Dies ==
  /\ up' = FALSE /\ connected' = FALSE /\ level' = DefaultLevel
  /\ g_machine_learning_on' = FALSE
  /\ normal' = {} /\ error' = {} /\ suspect' = {} /\ exception' = {}
  /\ txn' = NoRows /\ UNCHANGED db
  /\ disp' = Idle /\ cons' = Idle

mysql_commit ==
  /\ db' = [ids_event |-> db.ids_event \o txn.ids_event,
            suspect_sql_new |-> db.suspect_sql_new \o txn.suspect_sql_new,
            exception_sql |-> db.exception_sql \cup txn.exception_sql]
  /\ txn' = NoRows
-----------------------------------------------------------------------------
(* The environment.                                                          *)

Start == ~up /\ Loaded

Killed == up /\ Dies

\* Nobody notices before the next call fails; the server rolls back.
ConnectionLost ==
  /\ up /\ connected
  /\ connected' = FALSE
  /\ txn' = NoRows
  /\ UNCHANGED <<up, level, g_machine_learning_on, tableVars, db, disp, cons>>
-----------------------------------------------------------------------------
(* sql_check_sql                                                             *)

DispOnly == UNCHANGED <<up, connected, level, g_machine_learning_on, cons>>
Goes(from, to) == disp.pc = from /\ disp' = [disp EXCEPT !.pc = to]
Returns(from) == disp.pc = from /\ disp' = Idle

\* Mutant of Hit: the lookup never finds anything.
NoHit(k) == {FALSE}

\* What looking k up among the exceptions may return: a key in a frame that is
\* gone still holds its text or does not.
Hit(k) == IF [key |-> k, mem |-> "heap"] \in exception THEN {TRUE}
          ELSE IF [key |-> k, mem |-> "frame"] \in exception THEN BOOLEAN
          ELSE {FALSE}

\* The statement is in none of the tables; otherwise nothing is done with it.
Check(s) ==
  /\ up /\ disp.pc = "idle"
  /\ s[2] \notin normal
  /\ FALSE \in Hit(Key(s))
  /\ s[2] \notin error
  /\ Key(s) \notin suspect
  /\ disp' = [pc |-> "parse", stmt |-> s]
  /\ DispOnly /\ UNCHANGED <<tableVars, dbVars>>

IsNormal(s) == normal' = normal \cup {s[2]} /\ UNCHANGED <<error, suspect, exception>>

\* check_sql and, when it finds nothing, the regular expressions.  The row of a
\* match has the text in place of the id (2471), nothing finds it again.
Parse ==
  LET s == disp.stmt IN
    /\ up /\ disp.pc = "parse"
    /\ \/ /\ s[2] \in Bad[level]
          /\ Goes("parse", "report") /\ UNCHANGED tableVars
       \/ /\ s[2] \in Matched \ Bad[level]
          /\ Returns("parse") /\ UNCHANGED tableVars
       \/ /\ s[2] \notin Matched \cup Bad[level]
          /\ \/ g_machine_learning_on /\ Goes("parse", "ask") /\ UNCHANGED tableVars
             \/ ~g_machine_learning_on /\ Goes("parse", "commit") /\ IsNormal(s)
    /\ DispOnly /\ UNCHANGED dbVars

\* The machine learning server says 0 or 1, or nothing of use in 600 tries.
Ask ==
  /\ up /\ disp.pc = "ask"
  /\ \/ Goes("ask", "commit") /\ IsNormal(disp.stmt)
     \/ /\ Goes("ask", "record")
        /\ suspect' = suspect \cup {Key(disp.stmt)}
        /\ UNCHANGED <<normal, error, exception>>
     \/ Returns("ask") /\ UNCHANGED tableVars
  /\ DispOnly /\ UNCHANGED dbVars

\* It cannot be reached: exit(1).
AskFails == up /\ disp.pc = "ask" /\ Dies

\* A failure is only logged.
RecordSuspect ==
  /\ up /\ Goes("record", "commit")
  /\ \/ /\ connected
        /\ txn' = [txn EXCEPT !.suspect_sql_new = Append(@, Key(disp.stmt))]
     \/ UNCHANGED txn
  /\ DispOnly /\ UNCHANGED <<tableVars, db>>

Report ==
  /\ up /\ connected /\ Goes("report", "blacklist")
  /\ txn' = [txn EXCEPT !.ids_event = Append(@, disp.stmt)]
  /\ DispOnly /\ UNCHANGED <<tableVars, db>>

\* Mutant of NotReported: the failure is only logged, as for a suspect.
OnlyLogged == disp' = [disp EXCEPT !.pc = "blacklist"] /\ DispOnly /\ UNCHANGED <<tableVars, dbVars>>

NotReported == Dies

ReportFails == up /\ disp.pc = "report" /\ NotReported

Blacklist ==
  /\ up /\ Goes("blacklist", "commit")
  /\ error' = error \cup {disp.stmt[2]}
  /\ DispOnly /\ UNCHANGED <<normal, suspect, exception, dbVars>>

CommitChecked ==
  /\ up /\ Returns("commit")
  /\ mysql_commit
  /\ DispOnly /\ UNCHANGED tableVars

DispNext == \/ \E s \in Stmt : Check(s)
            \/ Parse \/ Ask \/ AskFails \/ RecordSuspect
            \/ Report \/ ReportFails \/ Blacklist \/ CommitChecked
-----------------------------------------------------------------------------
(* The console: insert_exception and process_update_config.                  *)

ConsOnly == UNCHANGED <<up, connected, level, g_machine_learning_on, disp, normal, error,
                         suspect>>
ConsGoes(from, to) == cons.pc = from /\ cons' = [cons EXCEPT !.pc = to]

\* The statement cannot be prepared, or the command names no host: exit(1).
InsertFails == up /\ cons.pc = "idle" /\ Dies

\* An exception that is found is not inserted again.
InsertException(s) ==
  /\ up /\ connected /\ cons.pc = "idle"
  /\ FALSE \in Hit(Key(s))
  /\ cons' = [pc |-> "execute", stmt |-> s]
  /\ ConsOnly /\ UNCHANGED <<exception, dbVars>>

ExecuteException ==
  /\ up /\ connected /\ ConsGoes("execute", "commit")
  /\ txn' = [txn EXCEPT !.exception_sql = @ \cup {Key(cons.stmt)}]
  /\ ConsOnly /\ UNCHANGED <<exception, db>>

GivenUp == cons' = Idle

ExecuteFails ==
  /\ up /\ cons.pc = "execute"
  /\ GivenUp
  /\ ConsOnly /\ UNCHANGED <<exception, dbVars>>

\* Commits what the dispatch thread has inserted, too.
CommitException ==
  /\ up /\ ConsGoes("commit", "insert")
  /\ mysql_commit
  /\ ConsOnly /\ UNCHANGED exception

\* new_id is on the stack of this thread.
RememberException ==
  /\ up /\ cons.pc = "insert" /\ cons' = Idle
  /\ exception' = exception \cup {[key |-> Key(cons.stmt), mem |-> "frame"]}
  /\ ConsOnly /\ UNCHANGED dbVars

UpdateConfig ==
  /\ up /\ cons.pc = "idle"
  /\ level' \in Level
  /\ UNCHANGED <<up, connected, g_machine_learning_on, tableVars, dbVars, disp, cons>>

ConsNext == \/ \E s \in Stmt : InsertException(s)
            \/ InsertFails \/ ExecuteException \/ ExecuteFails
            \/ CommitException \/ RememberException \/ UpdateConfig
-----------------------------------------------------------------------------
Next == Start \/ Killed \/ ConnectionLost \/ DispNext \/ ConsNext

Spec == Init /\ [][Next]_vars
-----------------------------------------------------------------------------
(* "insert to the black list after stmt_executed" (mysql_wrap.c:1006): between *)
(* two statements the black list is what has been reported for good, neither   *)
(* more, which nobody would ever see, nor less, which would be reported again, *)
(* whatever the console commits in between.  A lost connection ends this until *)
(* the next report fails and the process starts again (998-1003).              *)
BlackListIsReported ==
  (up /\ connected /\ disp.pc \in {"idle", "parse", "ask", "report"}) => error = Reported

(* No id is reported twice, also when the process is killed or loses its       *)
(* connection between the insert, the black list and the commit, and starts    *)
(* again from what is left (mysql_wrap.c:281, 998-1024, 1857-1884).            *)
ReportedOnce ==
  LET events == db.ids_event \o txn.ids_event
  IN  \A m, n \in DOMAIN events : events[m][2] = events[n][2] => m = n

(* An exception that was there when the process started is honoured: its       *)
(* statement is neither reported nor suspected (mysql_wrap.c:273, 1488-1514).  *)
LoadedExceptionHonoured ==
  up /\ disp.pc \in {"report", "record"}
     => [key |-> Key(disp.stmt), mem |-> "heap"] \notin exception

(* An exception in the table is in the database, as long as the connection     *)
(* lasts: it will not be forgotten at the next start (mysql_wrap.c:1162-1171). *)
ExceptionIsDurable ==
  (up /\ connected) => \A e \in exception : e.key \in db.exception_sql

(* The black list is what has been reported, and no id is reported twice       *)
(* (mysql_wrap.c:281, 998-1024, 1857-1884).                                     *)
ReportsMatch == BlackListIsReported /\ ReportedOnce

(* An exception loaded at the start is honoured, and one in the table is in     *)
(* the database (mysql_wrap.c:273, 1162-1171, 1488-1514).                       *)
ExceptionsHold == LoadedExceptionHonoured /\ ExceptionIsDurable

(* "Reload the config rules, the new level will take effect." (socket_server/server.c:110):  *)
(* what the process itself found normal is skipped only if it still is.        *)
NewLevelTakesEffect == \A i \in normal \ NormalSql : i \notin Bad[level]
=============================================================================
