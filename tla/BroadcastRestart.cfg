SPECIFICATION FairSpec
CONSTANTS
  m1 = m1
  m2 = m2
  m3 = m3
  g1 = g1
  g2 = g2
  s1 = s1
  s2 = s2
  Messages = {m1, m2, m3}
  Workers = {g1, g2}
  Stops = {s1}
  Cap = 2
CHECK_DEADLOCK FALSE
PROPERTY
  StartServes
