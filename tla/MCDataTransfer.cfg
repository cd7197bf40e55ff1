SPECIFICATION Spec
CONSTANTS
    Data = {1, 2}
    SendBuffers = 2
    MaxPackets = 2
    QueueSize = 2
    RecvBuffers = 2
    ReadThreads = {r1}
    ReadBatch = 1
    UDPMaxSegments = 1
    MaxAcksSize = 2
    MaxNet = 1
    MaxAckNet = 1
ACTION_CONSTRAINTS FreshPayload Prompt
INVARIANTS TypeOK ReleasedOnlyIfReceived
PROPERTIES ImplementsStream
CHECK_DEADLOCK FALSE
