CONSTANTS
  Levels <- MCLevels
  Odometers <- MCOdometers
  SampleCount = 3
  HistoryCapacity = 2
  MaximumStableSpread = 2
  RefillIncrease = 8
  CheckpointDecrease = 2
  DuplicateDistance = 10
  None = None
SPECIFICATION FairSpec
INVARIANTS
  TrackerInv
  NoRefillTwice
PROPERTIES
  SettledOnMeasuredLevel
  NoRiseWithoutRefill
  EveryStartupSettles
