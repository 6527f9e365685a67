SPECIFICATION ArenaSpec
CONSTANTS
  SizeMod = 64
  MallocRegions <- MallocAligned
  CallerRegions <- CallerAnywhere
  RequestSizes = {1, 3, 5, 8, 62, 63}
  Alignments = {0, 1, 2, 3, 4}
  DefaultAlignment = 4
  MaxBlocks = 4
INVARIANT BlocksInBounds
