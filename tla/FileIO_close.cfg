SPECIFICATION IOSpec
CONSTANTS
  Files = {a, b}
  Contents <- SomeContents
  Chunk = 2
  BufSizes = {2}
  IOFaults = {"close"}
INVARIANTS WriteAllIsFaithful
