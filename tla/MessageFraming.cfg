SPECIFICATION Spec
CONSTANTS
    PayloadSize = 4
    CountSize = 1
    MaxPackets = 3
    MaxValues = 3
    MaxSize = 3
INVARIANT ReadBack
CHECK_DEADLOCK FALSE
