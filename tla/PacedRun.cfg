CONSTANTS
  Rates <- MCRates
  ClientCounts <- MCClientCounts
  BurstFactor = 2
  Granule = 500
  Durations = {0, 500, 2000}
  NoTimeout = NoTimeout
  Timeouts = {500, 1000, NoTimeout}
  Horizon = 3000
  MaxAmount = 3
  Concurrency = 1
  NumBatches = 1
  MaxRequests = 14
  DurationLimited = TRUE
  HasTimeout = TRUE
  BuildCanFail = TRUE
  ChannelCapacity = 1
SPECIFICATION Spec
INVARIANTS
  Paced
  RefillPrecise
  LateBound
  LoadBounded
  LoadReached
  EndsInTime
PROPERTY RunEnds
CHECK_DEADLOCK FALSE
