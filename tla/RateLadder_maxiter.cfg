CONSTANTS
  One = 2
  Rates <- MCRates
  Steps <- MCSteps
  NoStep = NoStep
  Iterations <- MCIterations
SPECIFICATION LadderSpec
INVARIANT
  MaxIterAtMaxRate
