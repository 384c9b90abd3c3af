SPECIFICATION Spec
CONSTANTS
  Stmt <- MCStmt
  Level = {1, 3}
  DefaultLevel = 3
  Bad <- MCBad
  Matched <- MCMatched
  NormalSql = {}
INVARIANTS NewLevelTakesEffect
