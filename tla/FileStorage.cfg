SPECIFICATION Spec
CONSTANTS
  a = a
  b = b
  Uploads = {a, b}
  Size = 2
  DefaultExpiry = 1
  MaxExpiry = 2
  Asked = {0, 1, 2, 3}
  MaxTime = 3
  MaxCrashes = 1
CHECK_DEADLOCK FALSE
SYMMETRY UploadSymmetry
INVARIANTS
  TypeOK
  AnswersHold
  LeftoversExplained
