SPECIFICATION FairSpec
CONSTANTS
  Output = {o1, o2}
  Fixed = {o1}
  Thread = {t1, t2}
  Main = t1
  NoThread = none
  CanFail = FALSE
  MaxPlug = 2
  MaxCall = 0
PROPERTIES Converges Reapplied
CHECK_DEADLOCK FALSE
