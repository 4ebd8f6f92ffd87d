SPECIFICATION Spec
CONSTANTS
  Output = {o1, o2}
  Fixed = {o1}
  Thread = {t1, t2}
  Main = t1
  NoThread = none
  CanFail = TRUE
  MaxPlug = 2
  MaxCall = 1
INVARIANTS TypeOK ApplyExclusive CacheCurrent NoApplyLost
PROPERTIES CallbacksReenabled OnlyKnownLosses
CHECK_DEADLOCK FALSE
