------------------------------ MODULE RecvPath ------------------------------
(***************************************************************************)
(* The receiving half of a Connection in DataState: the ReadThreads, each  *)
(* with buffers of its own, the RecvThread putting data packets into       *)
(* RecvQueue's ring and moving the consecutive ones to the user's list,    *)
(* the user's Recv, and the SendThread turning the selective acks into     *)
(* Sack packets.                                                           *)
(*                                                                         *)
(* A packet is named by its sequence number; NoPacket is an empty slot.    *)
(* The RecvThread writes _beginFullRecievedAck and the slots, the          *)
(* SendThread reads the former: the steps below are the points between     *)
(* which the two interleave.                                               *)
(***************************************************************************)
EXTENDS Integers, Sequences, FiniteSets, Counting

CONSTANTS QueueSize,        \* RecvQueue::QueueSize, slots of the ring
          RecvBuffers,      \* receive buffers of the context and the connection
          ReadThreads,      \* the ReadThreads (4)
          ReadBatch,        \* buffers a ReadThread asks for (10000)
          UDPMaxSegments,   \* buffers a ReadThread needs to read its socket (64)
          MaxAcksSize       \* acks that fit one Sack packet

ASSUME RecvPathAssumption ==
    /\ QueueSize \in Nat \ {0}
    /\ IsFiniteSet(ReadThreads) /\ ReadThreads # {}
    /\ ReadBatch \in Nat \ {0}
    /\ UDPMaxSegments \in Nat \ {0}
    /\ RecvBuffers \in Nat
    /\ MaxAcksSize \in Nat \ {0}

VARIABLES
    freeRecv,        \* buffers in _recvFreeQueue, or in a list on their way there
    local,           \* the free buffers of each ReadThread
    received,        \* packets in _recvQueue that the RecvThread has not looked at
    queue,           \* RecvQueue::_queue
    begin,           \* RecvQueue::_beginFullRecievedAck
    adding,          \* the packet AddPacket has acked and not yet stored
    ordered,         \* the local list of ProccessUnorderedPackets
    userData,        \* RecvQueue::_data
    held,            \* receive buffers in the user's hands
    recvPC,          \* where the RecvThread is
    selectiveAcks,   \* RecvQueue::_selectiveAcks
    acks,            \* the acks DataState::SendPackets has taken
    lastAckRead,     \* its local variable lastAck, 0 outside the loop
    ackPC            \* where the SendThread is in building Sacks

readVars      == <<local, received>>
queueSideVars == <<freeRecv, readVars, queue, begin, adding, ordered, userData, held, recvPC>>
ackSideVars   == <<acks, lastAckRead, ackPC>>
recvVars      == <<queueSideVars, selectiveAcks, ackSideVars>>

NoPacket == 0
Slots    == 0..(QueueSize - 1)

RecvInit ==
    /\ freeRecv = RecvBuffers
    /\ local = [t \in ReadThreads |-> 0] /\ received = 0
    /\ queue = [i \in Slots |-> NoPacket]
    /\ begin = 1
    /\ adding = NoPacket
    /\ ordered = <<>> /\ userData = <<>> /\ held = 0
    /\ recvPC = "OnReceive"
    /\ selectiveAcks = {} /\ acks = {} /\ lastAckRead = 0
    /\ ackPC = "GetSelectiveAcks"

-----------------------------------------------------------------------------
\* ReadThread t.

\* It has too few buffers for a read of the socket, and takes some when there are any.
Refill(t) ==
    /\ local[t] < UDPMaxSegments
    /\ freeRecv > 0
    /\ LET n == IF freeRecv < ReadBatch THEN freeRecv ELSE ReadBatch
       IN local' = [local EXCEPT ![t] = @ + n] /\ freeRecv' = freeRecv - n
    /\ UNCHANGED <<received, queue, begin, adding, ordered, userData, held, recvPC,
                   selectiveAcks, ackSideVars>>

\* It reads n packets from its socket, and they go to _recvQueue.  What a packet is shows
\* when the RecvThread takes it: the queue only delays and reorders, as the network does.
ReadSocket(t, n) ==
    /\ local[t] >= UDPMaxSegments
    /\ n <= local[t]
    /\ local' = [local EXCEPT ![t] = @ - n]
    /\ received' = received + n
    /\ UNCHANGED <<freeRecv, queue, begin, adding, ordered, userData, held, recvPC,
                   selectiveAcks, ackSideVars>>

-----------------------------------------------------------------------------
\* RecvThread.

\* (Mutant: the window is one slot too large.)
AboveWindowOffByOne(s) == s >= begin /\ s - begin > QueueSize

\* RecvQueue::AddPacket: the packet is too far ahead for the ring.
AboveWindow(s) == s >= begin /\ s - begin >= QueueSize

\* RecvQueue::AddPacket of a packet of _recvQueue, up to the point where the ack is
\* recorded.  A packet below the window is acked again and its buffer is free at once;
\* one above the window is neither acked nor kept.
AddPacketAck(s) ==
    /\ recvPC = "OnReceive"
    /\ received > 0 /\ received' = received - 1
    /\ \/ /\ s < begin
          /\ selectiveAcks' = selectiveAcks \cup {s}
          /\ freeRecv' = freeRecv + 1
          /\ UNCHANGED <<adding, recvPC>>
       \/ /\ AboveWindow(s)
          /\ freeRecv' = freeRecv + 1
          /\ UNCHANGED <<adding, recvPC, selectiveAcks>>
       \/ /\ s >= begin /\ ~AboveWindow(s)
          /\ selectiveAcks' = selectiveAcks \cup {s}
          /\ adding' = s
          /\ recvPC' = "AddPacketStore"
          /\ UNCHANGED freeRecv
    /\ UNCHANGED <<local, queue, begin, ordered, userData, held, ackSideVars>>

\* (Mutants: the buffer of a duplicate is not given back; the slot is counted from
\* 0 although the numbers start at 1.)
AddPacketStoreLeaks ==
    /\ recvPC = "AddPacketStore"
    /\ queue' = [queue EXCEPT ![adding % QueueSize] = adding]
    /\ adding' = NoPacket
    /\ recvPC' = "OnReceive"
    /\ UNCHANGED <<freeRecv, readVars, begin, ordered, userData, held, selectiveAcks, ackSideVars>>
AddPacketStoreShifted ==
    /\ recvPC = "AddPacketStore"
    /\ IF queue[(adding - 1) % QueueSize] # NoPacket
       THEN freeRecv' = freeRecv + 1 /\ UNCHANGED queue
       ELSE queue' = [queue EXCEPT ![(adding - 1) % QueueSize] = adding] /\ UNCHANGED freeRecv
    /\ adding' = NoPacket
    /\ recvPC' = "OnReceive"
    /\ UNCHANGED <<readVars, begin, ordered, userData, held, selectiveAcks, ackSideVars>>

\* The rest of RecvQueue::AddPacket: keep the packet, or free the buffer of a
\* duplicate of one that waits in its slot.
AddPacketStore ==
    /\ recvPC = "AddPacketStore"
    /\ IF queue[adding % QueueSize] # NoPacket
       THEN /\ freeRecv' = freeRecv + 1
            /\ UNCHANGED queue
       ELSE /\ queue' = [queue EXCEPT ![adding % QueueSize] = adding]
            /\ UNCHANGED freeRecv
    /\ adding' = NoPacket
    /\ recvPC' = "OnReceive"
    /\ UNCHANGED <<readVars, begin, ordered, userData, held, selectiveAcks, ackSideVars>>

\* One turn of the loop of RecvQueue::ProccessUnorderedPackets.
OrderNext ==
    /\ recvPC \in {"OnReceive", "Ordering"}
    /\ queue[begin % QueueSize] # NoPacket
    /\ ordered' = Append(ordered, queue[begin % QueueSize])
    /\ queue' = [queue EXCEPT ![begin % QueueSize] = NoPacket]
    /\ begin' = begin + 1
    /\ recvPC' = "Ordering"
    /\ UNCHANGED <<freeRecv, readVars, adding, userData, held, selectiveAcks, ackSideVars>>

\* The end of ProccessUnorderedPackets: splice into the user's list.
OrderDone ==
    /\ recvPC = "Ordering"
    /\ queue[begin % QueueSize] = NoPacket
    /\ userData' = userData \o ordered
    /\ ordered' = <<>>
    /\ recvPC' = "OnReceive"
    /\ UNCHANGED <<freeRecv, readVars, queue, begin, adding, held, selectiveAcks, ackSideVars>>

-----------------------------------------------------------------------------
\* The user.

\* Connection::Recv, first half: the buffers of the previous call go back.
RecvReturn ==
    /\ held > 0
    /\ freeRecv' = freeRecv + held
    /\ held' = 0
    /\ UNCHANGED <<readVars, queue, begin, adding, ordered, userData, recvPC, selectiveAcks, ackSideVars>>

\* Connection::Recv, second half: wait for data and take all of it.
RecvTake ==
    /\ held = 0
    /\ userData # <<>>
    /\ held' = Len(userData)
    /\ userData' = <<>>
    /\ UNCHANGED <<freeRecv, readVars, queue, begin, adding, ordered, recvPC, selectiveAcks, ackSideVars>>

-----------------------------------------------------------------------------
\* SendThread: the first half of DataState::SendPackets.

\* (Mutant: one too low.)
GetLastAckLow == begin - 2

\* RecvQueue::GetLastAck.
GetLastAck == begin - 1

\* GetSelectiveAcks swaps the vector out under its lock and GetLastAck is read into
\* lastAck.  One step: reading lastAck later, after a step of the RecvThread, only
\* makes the filter below drop acks that the cumulative ack of the Sack covers.
GetSelectiveAcks ==
    /\ ackPC = "GetSelectiveAcks"
    /\ selectiveAcks # {}
    /\ acks' = selectiveAcks
    /\ selectiveAcks' = {}
    /\ lastAckRead' = GetLastAck
    /\ ackPC' = "Build"
    /\ UNCHANGED queueSideVars

\* The acks a Sack takes from the next ones of the vector: those at or above lastAck.
Fresh(chunk) == {a \in chunk : a >= lastAckRead}

\* The Sack a turn of the loop builds; the cumulative ack is read again.
Sack(chunk) == [ack |-> GetLastAck, acks |-> Fresh(chunk)]

\* One turn of the loop with a free buffer.  chunk is the next acks of the vector,
\* any of them here: the order is that of arrival.  It ends when the Sack is full
\* or the vector is used up.
BuildSack(chunk) ==
    /\ ackPC = "Build"
    /\ chunk \subseteq acks
    /\ \/ Cardinality(Fresh(chunk)) = MaxAcksSize
       \/ chunk = acks /\ Cardinality(Fresh(chunk)) < MaxAcksSize
    /\ acks' = acks \ chunk
    /\ IF acks = chunk
       THEN ackPC' = "GetSelectiveAcks" /\ lastAckRead' = 0
       ELSE UNCHANGED <<ackPC, lastAckRead>>
    /\ UNCHANGED <<queueSideVars, selectiveAcks>>

\* The loop when GetFreeSendPacket returns nullptr: break, and the remaining acks
\* are gone with the local vector.  The level of _freeInternalSendPackets is not
\* modelled: it may be empty at any turn.
DropAcks ==
    /\ ackPC = "Build"
    /\ acks' = {}
    /\ lastAckRead' = 0
    /\ ackPC' = "GetSelectiveAcks"
    /\ UNCHANGED <<queueSideVars, selectiveAcks>>

-----------------------------------------------------------------------------
\* The packets that wait in the ring.
Stored == {queue[i] : i \in Slots} \ {NoPacket}

\* The packets the receiver has, or had and handed on.
Got == (1..GetLastAck) \cup Stored \cup ({adding} \ {NoPacket})

RecvTypeOK ==
    /\ freeRecv \in Nat
    /\ local \in [ReadThreads -> Nat] /\ received \in Nat
    /\ queue \in [Slots -> Nat]
    /\ begin \in Nat \ {0}
    /\ adding \in Nat
    /\ ordered \in Seq(Nat)
    /\ userData \in Seq(Nat)
    /\ held \in Nat
    /\ recvPC \in {"OnReceive", "AddPacketStore", "Ordering"}
    /\ selectiveAcks \subseteq Nat
    /\ acks \subseteq Nat
    /\ lastAckRead \in Nat
    /\ ackPC \in {"GetSelectiveAcks", "Build"}

\* When AddPacket finds a slot taken, the packet there is the very packet it is
\* adding: the ring never takes another packet, acked by now, for a duplicate.
DuplicateIsExact ==
    recvPC = "AddPacketStore" /\ queue[adding % QueueSize] # NoPacket
        => queue[adding % QueueSize] = adding

\* What RecvQueue has promised in an ack, sent or about to be, it has: the ack is
\* recorded before the packet is stored, and the SendThread may read it at once.
AcksOnlyReceived == selectiveAcks \cup acks \subseteq Got

\* Every receive buffer is free, with a ReadThread, received, in the ring, in the
\* RecvThread's hands, in the user's list or with the user: duplicates and packets
\* above the window give theirs back.
RecvBuffersConserved ==
    freeRecv + Total(local) + received + Cardinality({i \in Slots : queue[i] # NoPacket})
        + (IF adding = NoPacket THEN 0 ELSE 1)
        + Len(ordered) + Len(userData) + held = RecvBuffers

\* A buffer is free, or the RecvThread or the user has a step that leads to freeing one.
BufferToCome ==
    \/ freeRecv > 0
    \/ received > 0
    \/ recvPC # "OnReceive"
    \/ queue[begin % QueueSize] # NoPacket
    \/ userData # <<>>
    \/ held > 0

\* The buffers of a ring that lacks its next packet, and of ReadThreads that all lack one.
ShortLists == QueueSize - 1 + Cardinality(ReadThreads) * (UDPMaxSegments - 1)

\* The ReadThreads are not starved for good by buffers that wait behind a missing packet
\* or lie in lists too short for a read.  With one buffer more than ShortLists there is
\* always a ReadThread that can read or a buffer to come; with what all but one may hoard
\* besides (the code has 300000, and this is 280252) that is so for each of them.
ReceiverNotStarved ==
    /\ RecvBuffers > ShortLists
        => BufferToCome \/ \E t \in ReadThreads : local[t] >= UDPMaxSegments
    /\ RecvBuffers > ShortLists + (Cardinality(ReadThreads) - 1) * ReadBatch
        => BufferToCome \/ \A t \in ReadThreads : local[t] >= UDPMaxSegments
=============================================================================
