CONSTANTS
  MaxBatches = 3
  Continuous = FALSE
  HasGateway = TRUE
SPECIFICATION FairSpec
INVARIANTS
  TypeOK
  ConsoleComplete
  NothingLeftBehind
  GatewayFollows
PROPERTIES
  GatewayAdvances
  ProcessEnds
