SPECIFICATION Spec
CONSTANTS
  Client = {c1}
  Boot = boot
  Loop = {l1, l2}
  Pid = {p1, p2}
  Manual = {t4500, t5500}
  Default = t4500
  Warm = {t3500}
  Normal = t6500
  Zero = zero
  CanFail = FALSE
  Modes = {"None", "Custom"}
  MaxCall = 4
  MaxZone = 0
INVARIANTS CustomTicks SettingsAgree CanTurnOn
CHECK_DEADLOCK FALSE
SYMMETRY Symmetry
