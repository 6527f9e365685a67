SPECIFICATION MCSpec
CONSTANTS
  SizeMod = 64
  MallocRegions <- MallocAligned
  CallerRegions <- CallerAligned
  RequestSizes = {0, 1, 3, 5, 8, 62, 63}
  Alignments = {0, 1, 2, 3, 4}
  DefaultAlignment = 4
  MaxBlocks = 4
  Names = {"a", "b"}
  BufSize = 10
  MaxDepth = 3
  Modulus = 8
  WordSize = 2
  Sizes = {0, 1, 3}
  Threads = {t1, t2}
  Bits32 = 1
  Bits64 = 2
  Free = Free
  Raw = Raw
INVARIANTS
  ArenaTypeOK BlocksInBounds BlocksDisjoint
  ResultsFitAndAreNormal
  BytesFilledOnce RangesAreFair
  OneInside
PROPERTIES RefusedIffTooBig NormalizeKeepsOrdinaryMeaning IsAtomicWord
