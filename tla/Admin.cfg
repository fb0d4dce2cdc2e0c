SPECIFICATION AdminSpec
CONSTANTS
  t1 = t1
  t2 = t2
  g = g
  c1 = c1
  c2 = c2
  k1 = k1
  k2 = k2
  k3 = k3
  None = None
  Tabs = {t1, t2}
  Users = {g}
  Commands = {c1, c2}
  Keys = {k1, k2, k3}
  Active = {k1}
  UserOf <- MCUserOf
INVARIANTS OpenOnlyWhenLoaded AnswersAreTrue
PROPERTY EndsOnce
SYMMETRY Symmetry
CHECK_DEADLOCK FALSE
