CONSTANTS
  n1 = n1
  q1 = q1
  s1 = s1
  on = on
  off = off
  NoFrame = NoFrame
  NoOutcome = NoOutcome
  Normals <- MCNormals
  Queries <- MCQueries
  Traced <- MCTraced
  ConfigSlots <- MCConfigSlots
  Settings <- MCSettings
  InitialConfig <- MCInitialConfig
  TxQueueLength = 2
  MaxRetryCount = 1
SPECIFICATION Spec
PROPERTIES
  WaitsUntilAccepted
