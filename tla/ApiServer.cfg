SPECIFICATION FairSpec
CONSTANTS
  q1 = q1
  q2 = q2
  Requests = {q1, q2}
  Users = {u1}
  AccessLife = 1
  RefreshLife = 2
  MaxTime = 3
  Nobody = Nobody
CHECK_DEADLOCK FALSE
INVARIANTS
  TypeOK
  ViewsAgree
  SessionBound
PROPERTIES
  RequestsAnswered
