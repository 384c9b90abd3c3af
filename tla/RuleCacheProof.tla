--------------------------- MODULE RuleCacheProof ---------------------------
(* The rule engine's tables for any statements, levels and rules: the black   *)
(* list is what has been reported, no id is reported twice, and exceptions    *)
(* are honoured and durable, through kills, lost connections and whatever the *)
(* console's thread commits on the dispatch thread's connection.              *)
EXTENDS RuleCache, SequenceTheorems, TLAPS

-----------------------------------------------------------------------------
(* Who works has a statement, and who is down has nothing.                    *)
Working ==
  /\ disp.pc # "idle" => disp.stmt \in Stmt
  /\ cons.pc # "idle" => cons.stmt \in Stmt
  /\ ~up => disp = Idle /\ cons = Idle

(* While a statement is judged nobody puts it into a table.                   *)
Unknown ==
  disp.pc \in {"parse", "ask", "record", "report"} =>
    /\ disp.stmt[2] \notin error
    /\ [key |-> Key(disp.stmt), mem |-> "heap"] \notin exception

(* A report is under way only between its insert and the end of the statement, *)
(* and only while the connection lasts.                                       *)
UnderWay ==
  /\ ~(up /\ connected) => txn = NoRows
  /\ disp.pc \notin {"blacklist", "commit"} => txn.ids_event = <<>>

(* What is or will be reported is in the black list, or about to be put there. *)
IdsOf(events) == {events[n][2] : n \in DOMAIN events}
Noted(rows) == IdsOf(rows.ids_event)

Agreed ==
  up /\ connected => Noted(db) \cup Noted(txn)
                       = error \cup (IF disp.pc = "blacklist" THEN {disp.stmt[2]} ELSE {})

(* What the console's thread has inserted, and then committed.                 *)
Durable ==
  up /\ connected =>
    /\ cons.pc = "commit" => Key(cons.stmt) \in db.exception_sql \cup txn.exception_sql
    /\ cons.pc = "insert" => Key(cons.stmt) \in db.exception_sql

RInv == /\ TypeOK /\ Working /\ Unknown /\ UnderWay /\ Agreed /\ Durable
        /\ ReportedOnce /\ ExceptionIsDurable

-----------------------------------------------------------------------------
(* Statements, rows and commits.                                              *)

LEMMA Statements ==
  ASSUME ConstantsAssumption, NEW s \in Stmt
  PROVE  s[2] \in Ids /\ Key(s) \in Keys
  BY DEF Ids, Keys, Key

LEMMA NoRowsAreRows == NoRows \in Rows /\ Noted(NoRows) = {}
  BY DEF NoRows, Rows, Noted, IdsOf

LEMMA NotedAreIds ==
  ASSUME NEW rows \in Rows
  PROVE  Noted(rows) \subseteq Ids
  BY DEF Rows, Noted, IdsOf, Ids

LEMMA Concat ==
  ASSUME NEW S, NEW a \in Seq(S), NEW b \in Seq(S)
  PROVE  /\ DOMAIN a = 1 .. Len(a) /\ DOMAIN b = 1 .. Len(b) /\ Len(a) \in Nat /\ Len(b) \in Nat
         /\ a \o b \in Seq(S) /\ a \o <<>> = a /\ DOMAIN (a \o b) = 1 .. Len(a) + Len(b)
         /\ \A n \in 1 .. Len(a) : (a \o b)[n] = a[n]
         /\ \A n \in 1 .. Len(b) : (a \o b)[Len(a) + n] = b[n]
  OBVIOUS

LEMMA ConcatRange ==
  ASSUME NEW S, NEW a \in Seq(S), NEW b \in Seq(S)
  PROVE  IdsOf(a \o b) = IdsOf(a) \cup IdsOf(b)
  <1> DEFINE c == a \o b
  <1>1. /\ DOMAIN a = 1 .. Len(a) /\ DOMAIN b = 1 .. Len(b) /\ Len(a) \in Nat /\ Len(b) \in Nat
        /\ DOMAIN c = 1 .. Len(a) + Len(b)
        /\ \A n \in 1 .. Len(a) : c[n] = a[n]
        /\ \A n \in 1 .. Len(b) : c[Len(a) + n] = b[n]
    BY Concat
  <1> HIDE DEF c
  <1>2. ASSUME NEW n \in DOMAIN c
        PROVE  (\E m \in DOMAIN a : c[n] = a[m]) \/ (\E m \in DOMAIN b : c[n] = b[m])
    <2>1. CASE n <= Len(a)
      BY <1>1, <2>1
    <2>2. CASE ~(n <= Len(a))
      <3> DEFINE m == n - Len(a)
      <3>1. m \in 1 .. Len(b) /\ n = Len(a) + m
        BY <1>1, <2>2
      <3> QED BY <1>1, <3>1
    <2> QED BY <2>1, <2>2
  <1>3. ASSUME NEW m \in DOMAIN a PROVE \E n \in DOMAIN c : c[n] = a[m]
    BY <1>1
  <1>4. ASSUME NEW m \in DOMAIN b PROVE \E n \in DOMAIN c : c[n] = b[m]
    <2>1. Len(a) + m \in DOMAIN c /\ c[Len(a) + m] = b[m]
      BY <1>1
    <2> QED BY <2>1
  <1>5. IdsOf(c) = IdsOf(a) \cup IdsOf(b)
    BY <1>2, <1>3, <1>4 DEF IdsOf
  <1> QED BY <1>5 DEF c

\* A commit moves the open rows; the events, in their order, are what they were.
LEMMA Committed ==
  ASSUME db \in Rows, txn \in Rows, mysql_commit
  PROVE  /\ db' \in Rows /\ txn' = NoRows /\ txn'.ids_event = <<>> /\ Noted(txn') = {}
         /\ Noted(db') = Noted(db) \cup Noted(txn)
         /\ (db.ids_event \o txn.ids_event)' = db.ids_event \o txn.ids_event
         /\ db'.exception_sql = db.exception_sql \cup txn.exception_sql
  <1> DEFINE a == db.ids_event
             b == txn.ids_event
             c == db.suspect_sql_new
             d == txn.suspect_sql_new
  <1>1. /\ a \in Seq(Stmt) /\ b \in Seq(Stmt) /\ c \in Seq(Keys) /\ d \in Seq(Keys)
        /\ db.exception_sql \cup txn.exception_sql \in SUBSET Keys
    BY DEF Rows
  <1>2. a \o b \in Seq(Stmt) /\ c \o d \in Seq(Keys) /\ (a \o b) \o <<>> = a \o b
    <2> HIDE DEF a, b, c, d
    <2>1. a \o b \in Seq(Stmt) /\ c \o d \in Seq(Keys)
      BY <1>1, Concat
    <2> QED BY <2>1, <1>1, Concat
  <1>3. /\ db' = [ids_event |-> a \o b, suspect_sql_new |-> c \o d,
                  exception_sql |-> db.exception_sql \cup txn.exception_sql]
        /\ txn' = NoRows /\ txn'.ids_event = <<>>
    BY DEF mysql_commit, NoRows
  <1>4. db' \in Rows
    <2> HIDE DEF a, b, c, d
    <2> QED BY <1>1, <1>2, <1>3 DEF Rows
  <1>5. db'.ids_event = a \o b /\ db'.exception_sql = db.exception_sql \cup txn.exception_sql
    BY <1>3
  <1>6. (db.ids_event \o txn.ids_event)' = a \o b
    BY <1>2, <1>3, <1>5
  <1>7. Noted(db') = Noted(db) \cup Noted(txn)
    <2>1. Noted(db') = IdsOf(a \o b) /\ Noted(db) = IdsOf(a) /\ Noted(txn) = IdsOf(b)
      BY <1>5 DEF Noted
    <2> HIDE DEF a, b
    <2> QED BY <1>1, <2>1, ConcatRange
  <1> QED BY <1>3, <1>4, <1>5, <1>6, <1>7, NoRowsAreRows

\* An id that nobody has reported may be reported.
LEMMA OnceMore ==
  ASSUME RInv, NEW s \in Stmt, s[2] \notin Noted(db), txn.ids_event = <<>>,
         db' = db, txn' = [txn EXCEPT !.ids_event = Append(@, s)]
  PROVE  ReportedOnce' /\ txn' \in Rows /\ Noted(txn') = {s[2]}
         /\ txn'.exception_sql = txn.exception_sql
  <1> DEFINE a == db.ids_event
  <1>1. a \in Seq(Stmt) /\ txn \in Rows /\ db.ids_event \o <<>> = a
    BY DEF RInv, TypeOK, Rows
  <1>2. txn' \in Rows /\ txn'.ids_event = <<s>> /\ txn'.exception_sql = txn.exception_sql
    <2>1. Append(txn.ids_event, s) = <<s>> /\ <<s>> \in Seq(Stmt)
      OBVIOUS
    <2>2. txn' = [txn EXCEPT !.ids_event = <<s>>]
      BY <2>1
    <2> QED BY <1>1, <2>1, <2>2 DEF Rows
  <1>3. Noted(txn') = {s[2]}
    BY <1>2 DEF Noted, IdsOf
  <1>4. \A m, n \in DOMAIN a : a[m][2] = a[n][2] => m = n
    BY <1>1 DEF RInv, ReportedOnce
  <1>5. \A n \in DOMAIN a : a[n][2] # s[2]
    BY DEF Noted, IdsOf
  <1>6. /\ DOMAIN (a \o <<s>>) = 1 .. Len(a) + 1 /\ DOMAIN a = 1 .. Len(a) /\ Len(a) \in Nat
        /\ \A n \in 1 .. Len(a) : (a \o <<s>>)[n] = a[n]
        /\ (a \o <<s>>)[Len(a) + 1] = s
    BY <1>1
  <1>7. ASSUME NEW m \in DOMAIN (a \o <<s>>), NEW n \in DOMAIN (a \o <<s>>),
               (a \o <<s>>)[m][2] = (a \o <<s>>)[n][2]
        PROVE  m = n
    <2>1. CASE m \in 1 .. Len(a) /\ n \in 1 .. Len(a)
      BY <1>4, <1>6, <1>7, <2>1
    <2>2. CASE m = Len(a) + 1 \/ n = Len(a) + 1
      BY <1>5, <1>6, <1>7, <2>2, SMTT(60)
    <2> QED BY <1>6, <2>1, <2>2
  <1> QED BY <1>2, <1>3, <1>7, SMTT(60) DEF ReportedOnce

\* Rolled back: what has been committed is still there once.
LEMMA RolledBack ==
  ASSUME RInv, db' = db, txn' = NoRows
  PROVE  ReportedOnce'
  <1> DEFINE a == db.ids_event
             b == txn.ids_event
  <1>1. a \in Seq(Stmt) /\ b \in Seq(Stmt) /\ txn'.ids_event = <<>>
    BY DEF RInv, TypeOK, Rows, NoRows
  <1> HIDE DEF a, b
  <1>2. /\ DOMAIN a = 1 .. Len(a) /\ DOMAIN (a \o b) = 1 .. Len(a) + Len(b)
        /\ Len(a) \in Nat /\ Len(b) \in Nat /\ a \o <<>> = a
        /\ \A n \in 1 .. Len(a) : (a \o b)[n] = a[n]
    BY <1>1
  <1>3. \A m, n \in DOMAIN (a \o b) : (a \o b)[m][2] = (a \o b)[n][2] => m = n
    BY DEF RInv, ReportedOnce, a, b
  <1>4. \A m, n \in DOMAIN a : a[m][2] = a[n][2] => m = n
    <2> TAKE m, n \in DOMAIN a
    <2>1. m \in DOMAIN (a \o b) /\ n \in DOMAIN (a \o b) /\ (a \o b)[m] = a[m] /\ (a \o b)[n] = a[n]
      BY <1>2
    <2> QED BY <1>3, <2>1
  <1>5. (db.ids_event \o txn.ids_event)' = a
    BY <1>1, <1>2 DEF a
  <1> QED BY <1>4, <1>5, ZenonT(60) DEF ReportedOnce

-----------------------------------------------------------------------------
LEMMA InitRInv == ASSUME ConstantsAssumption, Init PROVE RInv
  <1> USE NoRowsAreRows DEF Init, Idle
  <1>1. TypeOK
    BY DEF TypeOK, ConstantsAssumption
  <1>2. ReportedOnce
    BY DEF ReportedOnce, NoRows
  <1> QED BY <1>1, <1>2 DEF RInv, Working, Unknown, UnderWay, Agreed, Durable, ExceptionIsDurable,
                            NoRows

\* The database is what it was: the rest is empty, or loaded from it.
LEMMA DiesStep == ASSUME ConstantsAssumption, RInv, Dies PROVE RInv'
  <1> USE NoRowsAreRows DEF Dies, Idle
  <1>1. TypeOK'
    BY DEF RInv, TypeOK, ConstantsAssumption
  <1>2. ReportedOnce'
    BY RolledBack
  <1>3. Working' /\ Unknown' /\ Durable'
    BY DEF Working, Unknown, Durable
  <1>4. UnderWay' /\ Agreed' /\ ExceptionIsDurable'
    BY DEF UnderWay, Agreed, ExceptionIsDurable, NoRows
  <1> QED BY <1>1, <1>2, <1>3, <1>4 DEF RInv

LEMMA StartStep == ASSUME ConstantsAssumption, RInv, Start PROVE RInv'
  <1> USE NoRowsAreRows DEF Start, Loaded, Idle, dbVars
  <1>1. txn = NoRows /\ db \in Rows
    BY DEF RInv, UnderWay, TypeOK
  <1>2. Reported = Noted(db)
    BY DEF Reported, Noted, IdsOf
  <1>3. TypeOK'
    <2>1. error' \subseteq Ids /\ normal' \subseteq Ids
      BY <1>1, <1>2, NotedAreIds DEF ConstantsAssumption
    <2>2. suspect' \subseteq Keys /\ exception' \subseteq [key : Keys, mem : {"heap", "frame"}]
      BY <1>1 DEF Rows, Elements
    <2> QED BY <1>1, <2>1, <2>2 DEF TypeOK, ConstantsAssumption
  <1> QED BY <1>1, <1>2, <1>3 DEF RInv, Working, Unknown, UnderWay, Agreed, Durable,
                                  ExceptionIsDurable, ReportedOnce, NoRows

LEMMA LostStep == ASSUME RInv, ConnectionLost PROVE RInv'
  <1> USE NoRowsAreRows DEF ConnectionLost, tableVars
  <1>1. TypeOK'
    BY DEF RInv, TypeOK
  <1>2. ReportedOnce'
    BY RolledBack
  <1> QED BY <1>1, <1>2 DEF RInv, Working, Unknown, UnderWay, Agreed, Durable, ExceptionIsDurable,
                            NoRows

-----------------------------------------------------------------------------
LEMMA DispStep == ASSUME ConstantsAssumption, RInv, DispNext PROVE RInv'
  <1> USE DEF DispOnly, Goes, Returns, tableVars, dbVars, Idle, None
  <1>1. ASSUME NEW s \in Stmt, Check(s) PROVE RInv'
    <2>1. [key |-> Key(s), mem |-> "heap"] \notin exception
      BY <1>1 DEF Check, Hit
    <2>2. TypeOK'
      BY <1>1 DEF RInv, TypeOK, Check
    <2> QED BY <1>1, <2>1, <2>2 DEF RInv, Check, Working, Unknown, UnderWay, Agreed, Durable,
                                    ExceptionIsDurable, ReportedOnce
  <1>2. CASE Parse
    <2>1. disp.stmt \in Stmt /\ disp.stmt[2] \in Ids
      BY <1>2, Statements DEF Parse, RInv, Working
    <2>2. TypeOK'
      BY <1>2, <2>1 DEF RInv, TypeOK, Parse, IsNormal
    <2>3. /\ disp'.pc \in {"idle", "ask", "report", "commit"}
          /\ disp'.pc # "idle" => disp'.stmt = disp.stmt
          /\ error' = error /\ exception' = exception
      BY <1>2 DEF Parse, IsNormal, RInv, TypeOK
    <2>4. Working' /\ Unknown'
      BY <1>2, <2>1, <2>3 DEF RInv, Parse, Working, Unknown
    <2>5. UnderWay' /\ Agreed'
      BY <1>2, <2>3 DEF RInv, Parse, UnderWay, Agreed
    <2> QED BY <1>2, <2>2, <2>3, <2>4, <2>5, ZenonT(60)
               DEF RInv, Parse, Durable, ExceptionIsDurable, ReportedOnce
  <1>3. CASE Ask
    <2>1. disp.stmt \in Stmt /\ disp.stmt[2] \in Ids /\ Key(disp.stmt) \in Keys
      BY <1>3, Statements DEF Ask, RInv, Working
    <2>2. TypeOK'
      BY <1>3, <2>1 DEF RInv, TypeOK, Ask, IsNormal
    <2>3. /\ disp'.pc \in {"idle", "record", "commit"}
          /\ disp'.pc # "idle" => disp'.stmt = disp.stmt
          /\ error' = error /\ exception' = exception
      BY <1>3 DEF Ask, IsNormal, RInv, TypeOK
    <2>4. Working' /\ Unknown'
      BY <1>3, <2>1, <2>3 DEF RInv, Ask, Working, Unknown
    <2>5. UnderWay' /\ Agreed'
      BY <1>3, <2>3 DEF RInv, Ask, UnderWay, Agreed
    <2> QED BY <1>3, <2>2, <2>3, <2>4, <2>5 DEF RInv, Ask, Durable, ExceptionIsDurable, ReportedOnce
  <1>4. CASE AskFails
    BY <1>4, DiesStep DEF AskFails
  <1>5. CASE RecordSuspect
    <2>1. disp.stmt \in Stmt /\ Key(disp.stmt) \in Keys
      BY <1>5, Statements DEF RecordSuspect, RInv, Working
    <2>2. CASE UNCHANGED txn
      <3>1. TypeOK'
        BY <1>5, <2>2 DEF RInv, TypeOK, RecordSuspect
      <3>2. Working' /\ Unknown'
        BY <1>5 DEF RInv, TypeOK, RecordSuspect, Working, Unknown
      <3> QED BY <1>5, <2>2, <3>1, <3>2 DEF RInv, TypeOK, RecordSuspect, UnderWay, Agreed, Durable,
                               ExceptionIsDurable, ReportedOnce
    <2>3. CASE connected /\ txn' = [txn EXCEPT !.suspect_sql_new = Append(@, Key(disp.stmt))]
      <3>1. Append(txn.suspect_sql_new, Key(disp.stmt)) \in Seq(Keys)
        BY <2>1 DEF RInv, TypeOK, Rows
      <3>2. /\ txn' \in Rows /\ txn'.ids_event = txn.ids_event
            /\ txn'.exception_sql = txn.exception_sql
        <4> DEFINE q == Append(txn.suspect_sql_new, Key(disp.stmt))
        <4>1. txn' = [txn EXCEPT !.suspect_sql_new = q] /\ txn \in Rows
          BY <2>3 DEF RInv, TypeOK
        <4> HIDE DEF q
        <4> QED BY <3>1, <4>1 DEF Rows, q
      <3>3. Noted(txn') = Noted(txn)
        BY <3>2 DEF Noted, IdsOf
      <3>4. TypeOK'
        BY <1>5, <3>2 DEF RInv, TypeOK, RecordSuspect
      <3>5. Working' /\ Unknown'
        BY <1>5 DEF RInv, TypeOK, RecordSuspect, Working, Unknown
      <3>6. UnderWay' /\ Agreed'
        BY <1>5, <2>3, <3>2, <3>3 DEF RInv, TypeOK, RecordSuspect, UnderWay, Agreed
      <3> QED BY <1>5, <3>2, <3>4, <3>5, <3>6, ZenonT(60)
                 DEF RInv, RecordSuspect, Durable, ExceptionIsDurable, ReportedOnce
    <2> QED BY <1>5, <2>2, <2>3 DEF RecordSuspect
  <1>6. CASE Report
    <2>1. /\ disp.stmt \in Stmt /\ txn.ids_event = <<>> /\ Noted(txn) = {}
          /\ disp.stmt[2] \notin Noted(db)
      BY <1>6 DEF Report, RInv, Working, UnderWay, Unknown, Agreed, Noted, IdsOf
    <2>2. /\ ReportedOnce' /\ txn' \in Rows /\ Noted(txn') = {disp.stmt[2]}
          /\ txn'.exception_sql = txn.exception_sql
      BY <1>6, <2>1, OnceMore DEF Report
    <2>3. TypeOK'
      BY <1>6, <2>2 DEF RInv, TypeOK, Report
    <2> QED BY <1>6, <2>1, <2>2, <2>3 DEF RInv, TypeOK, Report, Working, Unknown, UnderWay, Agreed,
                             Durable, ExceptionIsDurable
  <1>7. CASE ReportFails
    BY <1>7, DiesStep DEF ReportFails, NotReported
  <1>8. CASE Blacklist
    <2>1. disp.stmt \in Stmt /\ disp.stmt[2] \in Ids
      BY <1>8, Statements DEF Blacklist, RInv, Working
    <2>2. TypeOK'
      BY <1>8, <2>1 DEF RInv, TypeOK, Blacklist
    <2> QED BY <1>8, <2>1, <2>2 DEF RInv, TypeOK, Blacklist, Working, Unknown, UnderWay, Agreed,
                             Durable, ExceptionIsDurable, ReportedOnce
  <1>9. CASE CommitChecked
    <2>1. /\ db' \in Rows /\ txn' = NoRows /\ txn'.ids_event = <<>>
          /\ Noted(txn') = {} /\ Noted(db') = Noted(db) \cup Noted(txn)
          /\ (db.ids_event \o txn.ids_event)' = db.ids_event \o txn.ids_event
          /\ db'.exception_sql = db.exception_sql \cup txn.exception_sql
      BY <1>9, Committed DEF CommitChecked, RInv, TypeOK, NoRows
    <2>2. TypeOK'
      BY <1>9, <2>1, NoRowsAreRows DEF RInv, TypeOK, CommitChecked
    <2>3. Working' /\ Unknown'
      BY <1>9 DEF RInv, CommitChecked, Working, Unknown
    <2>4. UnderWay' /\ Agreed'
      BY <1>9, <2>1 DEF RInv, CommitChecked, UnderWay, Agreed
    <2>5. Durable' /\ ExceptionIsDurable'
      BY <1>9, <2>1 DEF RInv, CommitChecked, Durable, ExceptionIsDurable
    <2>6. ReportedOnce'
      BY <2>1, ZenonT(60) DEF RInv, ReportedOnce
    <2> QED BY <2>2, <2>3, <2>4, <2>5, <2>6 DEF RInv
  <1> QED BY <1>1, <1>2, <1>3, <1>4, <1>5, <1>6, <1>7, <1>8, <1>9 DEF DispNext

LEMMA ConsStep == ASSUME ConstantsAssumption, RInv, ConsNext PROVE RInv'
  <1> USE DEF ConsOnly, ConsGoes, tableVars, dbVars, Idle, None
  <1>1. ASSUME NEW s \in Stmt, InsertException(s) PROVE RInv'
    BY <1>1, ZenonT(60)
       DEF RInv, TypeOK, InsertException, Working, Unknown, UnderWay, Agreed, Durable,
           ExceptionIsDurable, ReportedOnce
  <1>2. CASE InsertFails
    BY <1>2, DiesStep DEF InsertFails
  <1>3. CASE ExecuteException
    <2>1. cons.stmt \in Stmt /\ Key(cons.stmt) \in Keys
      BY <1>3, Statements DEF ExecuteException, RInv, Working
    <2>2. /\ txn' \in Rows /\ txn'.ids_event = txn.ids_event /\ Noted(txn') = Noted(txn)
          /\ txn'.exception_sql = txn.exception_sql \cup {Key(cons.stmt)}
      BY <1>3, <2>1 DEF ExecuteException, RInv, TypeOK, Rows, Noted, IdsOf
    <2>3. TypeOK'
      BY <1>3, <2>2 DEF RInv, TypeOK, ExecuteException
    <2>4. Working' /\ Unknown'
      BY <1>3 DEF RInv, TypeOK, ExecuteException, Working, Unknown
    <2>5. UnderWay' /\ Agreed'
      BY <1>3, <2>2 DEF RInv, ExecuteException, UnderWay, Agreed
    <2>6. Durable' /\ ExceptionIsDurable'
      BY <1>3, <2>2 DEF RInv, TypeOK, ExecuteException, Durable, ExceptionIsDurable
    <2>7. ReportedOnce'
      <3>1. (db.ids_event \o txn.ids_event)' = db.ids_event \o txn.ids_event
        BY <1>3, <2>2 DEF ExecuteException
      <3> QED BY <3>1 DEF RInv, ReportedOnce
    <2> QED BY <2>3, <2>4, <2>5, <2>6, <2>7 DEF RInv
  <1>4. CASE ExecuteFails
    BY <1>4, ZenonT(60)
       DEF RInv, TypeOK, ExecuteFails, GivenUp, Working, Unknown, UnderWay, Agreed,
           Durable, ExceptionIsDurable, ReportedOnce
  <1>5. CASE CommitException
    <2>1. /\ db' \in Rows /\ txn' = NoRows /\ txn'.ids_event = <<>>
          /\ Noted(txn') = {} /\ Noted(db') = Noted(db) \cup Noted(txn)
          /\ (db.ids_event \o txn.ids_event)' = db.ids_event \o txn.ids_event
          /\ db'.exception_sql = db.exception_sql \cup txn.exception_sql
      BY <1>5, Committed DEF CommitException, RInv, TypeOK, NoRows
    <2>2. TypeOK'
      BY <1>5, <2>1, NoRowsAreRows DEF RInv, TypeOK, CommitException
    <2>3. Working' /\ Unknown'
      BY <1>5 DEF RInv, TypeOK, CommitException, Working, Unknown
    <2>4. UnderWay' /\ Agreed'
      BY <1>5, <2>1 DEF RInv, CommitException, UnderWay, Agreed
    <2>5. Durable' /\ ExceptionIsDurable'
      BY <1>5, <2>1 DEF RInv, TypeOK, CommitException, Durable, ExceptionIsDurable
    <2>6. ReportedOnce'
      BY <2>1 DEF RInv, ReportedOnce
    <2> QED BY <2>2, <2>3, <2>4, <2>5, <2>6 DEF RInv
  <1>6. CASE RememberException
    <2>1. cons.stmt \in Stmt /\ Key(cons.stmt) \in Keys
      BY <1>6, Statements DEF RememberException, RInv, Working
    <2>2. TypeOK'
      BY <1>6, <2>1 DEF RInv, TypeOK, RememberException
    <2>3. Unknown'
      BY <1>6 DEF RInv, Unknown, RememberException
    <2>4. Working' /\ UnderWay' /\ Agreed' /\ Durable'
      BY <1>6 DEF RInv, RememberException, Working, UnderWay, Agreed, Durable
    <2>5. ReportedOnce'
      BY <1>6 DEF RInv, RememberException, ReportedOnce
    <2>6. ExceptionIsDurable'
      BY <1>6 DEF RInv, RememberException, Durable, ExceptionIsDurable
    <2> QED BY <2>2, <2>3, <2>4, <2>5, <2>6 DEF RInv
  <1>7. CASE UpdateConfig
    BY <1>7, ZenonT(60)
       DEF RInv, TypeOK, UpdateConfig, Working, Unknown, UnderWay, Agreed, Durable,
           ExceptionIsDurable, ReportedOnce
  <1> QED BY <1>1, <1>2, <1>3, <1>4, <1>5, <1>6, <1>7 DEF ConsNext

-----------------------------------------------------------------------------
(* The invariant; its parts say what a report or an exception that is under   *)
(* way still lacks (mysql_wrap.c:998-1024, 1150-1173).                        *)
THEOREM TablesCorrect == ConstantsAssumption => (Spec => []RInv)
  <1> SUFFICES ASSUME ConstantsAssumption PROVE Spec => []RInv
    OBVIOUS
  <1>1. Init => RInv
    BY InitRInv
  <1>2. RInv /\ [Next]_vars => RInv'
    <2> SUFFICES ASSUME RInv, [Next]_vars PROVE RInv'
      OBVIOUS
    <2>1. CASE Start
      BY <2>1, StartStep
    <2>2. CASE Killed
      BY <2>2, DiesStep DEF Killed
    <2>3. CASE ConnectionLost
      BY <2>3, LostStep
    <2>4. CASE DispNext
      BY <2>4, DispStep
    <2>5. CASE ConsNext
      BY <2>5, ConsStep
    <2>6. CASE UNCHANGED vars
      BY <2>6, ZenonT(60)
         DEF vars, tableVars, dbVars, RInv, TypeOK, Working, Unknown, UnderWay, Agreed,
             Durable, ReportedOnce, ExceptionIsDurable
    <2> QED BY <2>1, <2>2, <2>3, <2>4, <2>5, <2>6 DEF Next
  <1> QED BY <1>1, <1>2, PTL DEF Spec

(* The black list is what has been reported, and no id is reported twice,     *)
(* whatever is killed, lost or committed in between (mysql_wrap.c:281,        *)
(* 998-1024, 1857-1884).                                                      *)
THEOREM ReportedExactlyOnce == ConstantsAssumption => (Spec => []ReportsMatch)
  <1> SUFFICES ASSUME ConstantsAssumption PROVE Spec => []ReportsMatch
    OBVIOUS
  <1>1. RInv => ReportsMatch
    <2>1. txn.ids_event = <<>> => Noted(txn) = {}
      BY DEF Noted, IdsOf
    <2>2. Reported = Noted(db)
      BY DEF Reported, Noted, IdsOf
    <2> QED BY <2>1, <2>2 DEF RInv, UnderWay, Agreed, ReportsMatch, BlackListIsReported
  <1> QED BY <1>1, TablesCorrect, PTL

(* An exception loaded at the start is honoured, and one in the table is in   *)
(* the database (mysql_wrap.c:273, 1162-1171, 1488-1514).                     *)
THEOREM ExceptionsAlwaysHold == ConstantsAssumption => (Spec => []ExceptionsHold)
  <1> SUFFICES ASSUME ConstantsAssumption PROVE Spec => []ExceptionsHold
    OBVIOUS
  <1>1. RInv => ExceptionsHold
    BY DEF RInv, Unknown, ExceptionsHold, LoadedExceptionHonoured
  <1> QED BY <1>1, TablesCorrect, PTL
=============================================================================
