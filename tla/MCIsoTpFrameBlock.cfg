SPECIFICATION FairSpec
CONSTANTS
  long = long
  short = short
  dtc = dtc
  ok = ok
  nak = nak
  Idle = Idle
  RequestSizes = 6
  AnswerSize = 3
  RxCapacity = 3
  Requests <- MCRequests
  Answer <- MCAnswer
  Chunks <- MCChunks
  BlockSizes = {3}
  Statuses = {"CTS", "WT", "OVFLW"}
  SeqModulus = 4
  LenWrap = 6
  MaxFcWait = 2
  BusCapacity = 2
  MaxSessions = 1
  MaxSetIds = 0
PROPERTY BlockFcTimesOut
CHECK_DEADLOCK FALSE
