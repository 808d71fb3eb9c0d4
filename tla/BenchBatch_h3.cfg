CONSTANTS
  Concurrency = 2
  NumBatches = 2
  MaxRequests = 2
  DurationLimited = TRUE
  HasTimeout = TRUE
  BuildCanFail = TRUE
  ChannelCapacity = 1
SPECIFICATION Spec
INVARIANTS
  OkResultComplete
PROPERTY
  ImplementsContract
