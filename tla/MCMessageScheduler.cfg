CONSTANTS
    reverse = reverse
    roadsign = roadsign
    Handlers <- MCHandlers
    Period <- MCPeriod
    Offset <- MCOffset
    SignalIds = {reverse}
    GatedIds = {roadsign}
    MaxTime = 5
    MaxVersion = 1
SPECIFICATION Spec
INVARIANTS
    ScheduleInv
    FreshWithinRound
PROPERTY OneSendPerSlot
