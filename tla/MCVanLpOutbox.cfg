CONSTANTS
  t1 = t1
  t2 = t2
  n1 = n1
  n2 = n2
  q1 = q1
  NoFrame = NoFrame
  NoOutcome = NoOutcome
  NoTask = NoTask
  Tasks <- MCTasks
  Normals <- MCNormals
  Queries <- MCQueries
  FieldCount = 3
  RetryCount = 2
SPECIFICATION FairSpec
INVARIANTS
  OutboxInv
  OneFramePerTransmission
PROPERTIES
  NoStoreWhileSending
  ImplementsAtomicOutbox
  EverySubmissionFinishes
