SPECIFICATION Spec
CONSTANTS
  Screen = {s1}
  Monitor = {m1, m2}
  Value = {v1, v2}
  Default = v1
  Thread = {c1, ev}
  Ev = ev
  CanFail = FALSE
  MaxCall = 6
  MaxPlug = 0
PROPERTY ResetRestores
CHECK_DEADLOCK FALSE
