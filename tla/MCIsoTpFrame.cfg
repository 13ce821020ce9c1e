SPECIFICATION FairSpec
CONSTANTS
  long = long
  short = short
  dtc = dtc
  ok = ok
  nak = nak
  Idle = Idle
  RequestSizes = 5
  AnswerSize = 4
  RxCapacity = 3
  Requests <- MCRequests
  Answer <- MCAnswer
  Chunks <- MCChunks
  BlockSizes = {2}
  Statuses = {"CTS", "WT", "OVFLW"}
  SeqModulus = 2
  LenWrap = 6
  MaxFcWait = 2
  BusCapacity = 2
  MaxSessions = 2
  MaxSetIds = 1
INVARIANTS
  IsoTpInv
  RxWhole
  EcuWhole
  AnswerIsHandedOver
  BlocksAgree
PROPERTY TransferEnds
CHECK_DEADLOCK FALSE
