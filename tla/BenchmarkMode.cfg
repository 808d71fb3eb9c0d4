CONSTANTS
  Statuses = {200, 401, 500}
  MaxFrames = 1
  MaxSent = 3
  Options <- MCOptions
  Builds <- MCBuilds
SPECIFICATION Spec
INVARIANTS
  
  ConnectionsAsAsked
PROPERTY KeepsContract
CHECK_DEADLOCK FALSE
