\* Two migrations, the second referencing the first; the file of the first may be
\* empty, that of the second may be created again; three runs of the command,
\* which may overlap, fail and be killed.
SPECIFICATION Spec
CONSTANTS
  Versions = {1, 2}
  Needs <- Pair
  Repeatable = {1}
  NoDown = {}
  Empty = {1}
  Reused = {2}
  Runs = {r1, r2, r3}
  DbFails = TRUE
SYMMETRY Symmetry
CHECK_DEADLOCK FALSE
INVARIANTS TypeOK DriftExplained
PROPERTIES CommandDelivers RollbackOrder
