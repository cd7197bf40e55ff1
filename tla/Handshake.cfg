SPECIFICATION Spec
CONSTANTS
    MaxConns = 2
    MaxLosses = 1
INVARIANTS TypeOK PeerReady NoWayBack NoWrongPacketType
PROPERTIES ConnectedInTheEnd
CHECK_DEADLOCK FALSE
