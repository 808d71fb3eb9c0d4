CONSTANTS
  Buckets <- MCBuckets
  Requests <- OfEachOutcome
  Second = 1
  Combined = Combined
  Operations = {"a", "b"}
  CounterLimit = 8
  Percentiles <- MCPercentiles
  Thresholds <- MCThresholds
  RoundedUp <- MCRoundedUp
  MaxRequests = 9
SPECIFICATION Spec
INVARIANTS
  TypeOK
  Accounted
  OperationsAddUp
  PercentileSplits
  SummaryOrdered
  TruncatesTails
  
