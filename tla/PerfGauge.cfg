CONSTANTS
  One = 2
  Rates <- MCRates
  Steps <- MCSteps
  NoStep = NoStep
  Iterations <- MCIterations
  RequestStats <- MCRequestStats
  Continuous = TRUE
  HasGateway = TRUE
  MaxBatches = 3
  MaxAnswers = 1
SPECIFICATION FairProgramSpec
INVARIANTS
  PrintedIsTrue
  EveryStepTried
  GatewayFollows
PROPERTY
  ProgramEnds
