\* An override that revokes opens the routes that require the permission.
SPECIFICATION Spec
CONSTANTS
  r1 = r1
  r2 = r2
  Users = {u1}
  Roles = {super, r1, r2}
  SuperAdmin = super
  Groups = {g}
  Acts = {view}
  Wild = wild
  MaxTime = 1
  DbFails = FALSE
SYMMETRY Symmetry
INVARIANTS RevokedRefused
