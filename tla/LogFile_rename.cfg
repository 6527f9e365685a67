SPECIFICATION Spec
CONSTANTS
  Configs <- BySize
  MaxBytes = 2
  MaxFiles = 2
  ShiftTop = 3
  Times <- FewTimes
  Cycle = 3
  Lens <- TwoLens
  Faults = {"rename"}
  MaxMessages = 6
  MaxKills = 0
INVARIANT RetainedIsRecent
CHECK_DEADLOCK FALSE
