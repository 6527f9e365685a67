SPECIFICATION Spec
CONSTANTS
  Configs <- Rotating
  MaxBytes = 2
  MaxFiles = 2
  ShiftTop = 3
  Times <- FewTimes
  Cycle = 3
  Lens <- TwoLens
  Faults = {}
  MaxMessages = 5
  MaxKills = 1
INVARIANTS TypeOK RetainedIsRecent SizeLimitHolds OnePeriodPerFile
PROPERTY EvictsOnlyWhenFull
CHECK_DEADLOCK FALSE
