SPECIFICATION Spec
CONSTANTS
  Screen = {s1, s2}
  Monitor = {m1}
  Value = {v1, v2}
  Default = v1
  Thread = {c1, c2, ev}
  Ev = ev
  CanFail = TRUE
  MaxCall = 4
  MaxPlug = 1
INVARIANTS TypeOK SavedWasApplied FlagMatchesBackup
CHECK_DEADLOCK FALSE
