SPECIFICATION PeerSpec
CONSTANTS
    Data = {d}
    SendBuffers = 2
    MaxPackets = 2
INVARIANTS SendTypeOK SendBuffersConserved ReleasedOnlyIfGot
PROPERTIES AckNotForgotten AllReleased
CHECK_DEADLOCK FALSE
