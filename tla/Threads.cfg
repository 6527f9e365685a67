SPECIFICATION MCSpec
CONSTANTS
  w1 = w1
  w2 = w2
  Workers = {w1, w2}
  Main = main
  Nobody = nobody
  Programs <- TestPrograms
  MaxSpurious = 2
  MaxThreads = 2
  Blocks = 5
  Tasks = {1, 2}
INVARIANTS NothingChangesUnderALock ErrorsArePrivate EveryBlockHasOneOwner EachItsOwn
PROPERTIES BusyIffExcluded EveryoneFinishes JoinsReturn
