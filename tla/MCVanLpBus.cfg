CONSTANTS
  NoFrame = NoFrame
  NoCommit = NoCommit
  Identifiers <- MCIdentifiers
  Configurations <- MCConfigurations
  Submissions <- MCSubmissions
  MinEodGroup = 1
  MaxGroups = 6
  ArmRun = 2
  TxRun = 3
SPECIFICATION Spec
INVARIANTS
  BusInv
  DominantOnlyWhenEntitled
PROPERTIES
  OutboxReleasedByOwnFrameOnly
