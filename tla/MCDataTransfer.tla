--------------------------- MODULE MCDataTransfer ---------------------------
EXTENDS DataTransfer

\* The n-th packet carries the payload n: the code never looks at payloads, and
\* distinct ones tell every order, loss and duplication apart.
FreshPayload ==
    Len(sendUserData') > Len(sendUserData)
        => sendUserData'[Len(sendUserData')] = Len(payload) + Len(sendUserData')

\* Steps that only move buffers or lists on are taken as soon as they can be: the user
\* gives buffers back and takes what is ready, the RecvThread ends its ordering loop, the
\* ReadThreads take buffers and read.  No order of the other steps is lost, as these only
\* enable them, and a packet waits in _recvQueue as it would have waited on the network.
Prompt ==
    IF held > 0 THEN held' = 0
    ELSE IF userData # <<>> THEN held' > 0
    ELSE IF recvPC = "Ordering" /\ queue[begin % QueueSize] = NoPacket THEN recvPC' # recvPC
    ELSE \/ \E t \in ReadThreads : local[t] < UDPMaxSegments /\ freeRecv > 0
         \/ \E t \in ReadThreads : local[t] >= UDPMaxSegments /\ received < Cardinality(dataNet)
         => local' # local
=============================================================================
