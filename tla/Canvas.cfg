SPECIFICATION CanvasSpec
CONSTANTS
  g1 = g1
  g2 = g2
  c1 = c1
  u1 = u1
  t1 = t1
  t2 = t2
  t3 = t3
  s1 = s1
  s2 = s2
  None = None
  Gms = {g1, g2}
  Calls = {c1}
  Undos = {u1}
  Scenes = {s1, s2}
  Tokens = {t1, t2, t3}
  Start <- MCStart
  Moves = 2
PROPERTIES UndoRestoresMarks UndoneMeansGone DescribesOneScene DescribeSucceeds
CHECK_DEADLOCK FALSE
