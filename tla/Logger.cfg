SPECIFICATION FairSpec
CONSTANTS
  Threads = {t1, t2}
  s1 = s1
  s2 = s2
  s3 = s3
  Sinks = {s1, s2, s3}
  Callbacks = {s3}
  SinkLevel <- ThreeLevels
  MaxSinks = 2
  Calls = 1
  Reconfigurations = 3
  NULL = NULL
INVARIANTS TypeOK DeliveredExactly SinksAgreeOnOrder WarningsReachTheStream
PROPERTIES FlushIsComplete CallsReturn
