CONSTANTS
  Concurrency = 2
  NumBatches = 2
  MaxRequests = 2
  DurationLimited = FALSE
  HasTimeout = TRUE
  BuildCanFail = FALSE
  ChannelCapacity = 1
SPECIFICATION FairSpec
INVARIANTS
  TypeOK
  MetricsConserved
  OkResultComplete
  FullLoad
  StopOvershoot
  ConcurrencyBound
PROPERTIES
  ImplementsContract
  BatchReturns
