SPECIFICATION RevocationSpec
CONSTANTS
  super = super
  r1 = r1
  u1 = u1
  p1 = p1
  q1 = q1
  q2 = q2
  w1 = w1
  Roles <- MCRoles
  SuperAdmin = super
  Users = {u1}
  Permissions = {p1}
  Wanted = {p1}
  Requests = {q1}
  Ops = {w1}
  SeedMatrix <- MCSeedMatrix
  Faults = {}
  Miss = Miss
CHECK_DEADLOCK FALSE
INVARIANT
  NoRowNotGranted
