CONSTANTS
  Concurrency = 2
  NumBatches = 2
  MaxRequests = 2
  DurationLimited = FALSE
  HasTimeout = TRUE
  BuildCanFail = FALSE
  ChannelCapacity = 1
SPECIFICATION Spec
INVARIANT
  AllRequestsCounted
