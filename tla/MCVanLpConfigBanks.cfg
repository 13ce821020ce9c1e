CONSTANTS
  t1 = t1
  t2 = t2
  s1 = s1
  s2 = s2
  on = on
  off = off
  NoConfig = NoConfig
  NoTask = NoTask
  Tasks <- MCTasks
  ConfigSlots <- MCSlots
  Settings <- MCSettings
  InitialConfig <- MCInitialConfig
  WordCount = 2
  GenerationModulus = 4
SPECIFICATION BanksFairSpec
INVARIANTS
  BankInv
  OneConfigPerTransaction
PROPERTIES
  ImplementsAtomicConfig
  EveryUpdateApplied
  EverySetReturns
