SPECIFICATION WorldSpec
CONSTANTS
  r1 = r1
  r2 = r2
  u1 = u1
  u2 = u2
  a1 = a1
  a2 = a2
  i1 = i1
  i2 = i2
  t1 = t1
  s1 = s1
  s2 = s2
  v1 = v1
  v2 = v2
  Stage = Stage
  Absent = Absent
  Gone = Gone
  None = None
  Calls = {r1, r2}
  Undos = {u1, u2}
  GmMoves = 1
  Actors = {a1, a2}
  Items = {i1, i2}
  Tokens = {t1}
  Scenes = {s1, s2}
  Values = {v1, v2}
  New = {v2}
  Owner <- MCOwner
  Subject <- MCSubject
  Start <- MCStart
  Derived <- MCDerived
  Prepared <- MCPrepared
SYMMETRY Symmetry
PROPERTIES UndoRestores RefusedForAReason UndoTouchesOnlyOwn
CHECK_DEADLOCK FALSE
