SPECIFICATION NetSpec
CONSTANTS
    QueueSize = 2
    RecvBuffers = 5
    ReadThreads = {r1, r2}
    ReadBatch = 1
    UDPMaxSegments = 2
    MaxAcksSize = 1
    MaxSeq = 3
INVARIANTS RecvTypeOK DuplicateIsExact AcksOnlyReceived RecvBuffersConserved ReceiverNotStarved HandedInOrder
PROPERTIES AllHanded
CHECK_DEADLOCK FALSE
