SPECIFICATION Spec
CONSTANTS
  u1 = u1
  u2 = u2
  u3 = u3
  u4 = u4
  e1 = e1
  e2 = e2
  e3 = e3
  super = super
  p1 = p1
  c1 = c1
  c2 = c2
  Ids = {u1, u2, u3, u4}
  Founders = {u1, u2}
  Emails = {e1, e2, e3}
  Roles = {super}
  SuperAdmin = super
  Permissions = {p1}
  Calls = {c1, c2}
  DbFails = TRUE
  Nobody = Nobody
CHECK_DEADLOCK FALSE
SYMMETRY Symmetry
INVARIANTS
  TypeOK
  KeysHold
  RolelessExplained
  OverridesAudited
PROPERTIES
  UpdateDelivers
  DeletedStaysDeleted
