SPECIFICATION Spec
CONSTANTS
  c1 = c1
  c2 = c2
  Callers = {c1, c2}
  Requests = {r1}
  orderedLevels <- MCLevels
  OtherLevels <- MCOtherLevels
  Dir = logs
  Dirs = {logs, other}
  AppFile = AppFile
  MaxSetups = 3
SYMMETRY CallerSymmetry
CHECK_DEADLOCK FALSE
INVARIANTS
  TypeOK
  SetupSettles
  RecordsPlaced
