SPECIFICATION Spec
CONSTANTS
    IdSpace = 3
    MaxConns = 2
    MaxArrivals = 2
INVARIANTS OpenStaysInTable PacketsComeHome
PROPERTY ClosedGone
CHECK_DEADLOCK FALSE
