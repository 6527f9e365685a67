SPECIFICATION MCSpec
CHECK_DEADLOCK FALSE
CONSTANTS
  Procs = {p1, p2}
  MaxLen = 3
  MaxLinks = 2
  Trees <- AllTrees
  MkdirPaths <- ToMake
  RemovePaths <- ToRemove
  Faults = {"opendir", "readdir"}
  Calls = 1
  Files = {a, b}
  Contents <- SomeContents
  Chunk = 2
  BufSizes = {2, 4}
  IOFaults = {"open", "seek", "read", "write", "unlink"}
INVARIANTS TypeOK NothingLeftOpen UndisturbedCallsDoTheirJob CopyIsAllOrNothing WholeFilesAreFaithful
PROPERTIES EveryCallReturns
