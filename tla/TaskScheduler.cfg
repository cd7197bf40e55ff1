SPECIFICATION Spec
CONSTANTS
    SendPackets = 8
    RecvPackets = 7
    WriterPackets = 3
    DataPackets = 1
    LowPackets = 4
    MaxMessage = 2
    MaxOpen = 2
    MaxRequests = 3
    MaxFailed = 1
    MaxKept = 1
INVARIANT PacketsConserved
PROPERTIES RequestsServed SchedulerStops
CHECK_DEADLOCK FALSE
