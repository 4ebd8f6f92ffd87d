SPECIFICATION Spec
CONSTANTS
  Client = {c1, c2}
  Boot = boot
  Loop = {l1}
  Pid = {p1, p2}
  Manual = {t4500, t5500}
  Default = t4500
  Warm = {t3500}
  Normal = t6500
  Zero = zero
  CanFail = TRUE
  Modes = {"None", "Auto", "Manual"}
  MaxCall = 2
  MaxZone = 1
INVARIANTS TypeOK OneProcess TempCurrent RedshiftFollows
CHECK_DEADLOCK FALSE
SYMMETRY Symmetry
