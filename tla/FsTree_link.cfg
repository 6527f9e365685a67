SPECIFICATION Spec
CHECK_DEADLOCK FALSE
CONSTANTS
  Procs = {p1}
  MaxLen = 3
  MaxLinks = 2
  Trees <- LinkedTree
  MkdirPaths <- None
  RemovePaths <- ToRemove
  Faults = {}
  Calls = 1
INVARIANTS ForcedRemovalSucceeds
