SPECIFICATION TablesSpec
CONSTANTS
  Proc = {p1, p2, p3}
  Openers = {p3}
  initval = 1
  MaxSets = 2
  MaxExits = 1
  Stmt <- Stmts
  Level = {1, 3}
  DefaultLevel = 3
  Bad <- BadIds
  Matched <- MatchedIds
  NormalSql = {}
  Node = {n1, n2, n3, n4}
  Values = {sqlA, sqlB}
  Producer = {1, 2}
  Consumer = {1, 2}
  BUFFER_SIZE = 2
  Items = 2
  Thread = {t1, t2, t3}
  Obj = {o1, o2}
  FooIds = {0, 1}
  NHASH = 1
  Tags = {1, 2}
  NULL = NULL
  Freed = Freed
SYMMETRY Symmetry
INVARIANTS TablesTypeOK SemaphoreSound
INVARIANTS ReportsMatch ExceptionsHold
INVARIANTS QueuesSound ReferencesSound
PROPERTIES RemovedIsUnused IsFifo IsFooTable
