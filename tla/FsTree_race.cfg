SPECIFICATION Spec
CHECK_DEADLOCK FALSE
CONSTANTS
  Procs = {p1, p2}
  MaxLen = 3
  MaxLinks = 2
  Trees <- EmptyTree
  MkdirPaths <- Nested
  RemovePaths <- None
  Faults = {}
  Calls = 1
PROPERTIES MkdirAllFailsForACause
