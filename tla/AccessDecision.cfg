\* One user, two roles besides super_admin, one permission, two instants.
SPECIFICATION Spec
CONSTANTS
  r1 = r1
  r2 = r2
  Users = {u1}
  Roles = {super, r1, r2}
  SuperAdmin = super
  Groups = {g}
  Acts = {view}
  Wild = wild
  MaxTime = 1
  DbFails = TRUE
SYMMETRY Symmetry
INVARIANTS TypeOK AnswerExplained DecisionsAgree
