------------------------------ MODULE SendPath ------------------------------
(***************************************************************************)
(* The sending half of a Connection in DataState: the user's Send, the     *)
(* SendThread's turn over SendQueue and InFlightQueue, the WriteThreads of *)
(* UDPQueue, and the RecvThread's handling of Sack packets.                *)
(*                                                                         *)
(* A data packet is named by its sequence number s; payload[s] is what the *)
(* user put in it.  The packet's buffer moves between the containers       *)
(* below; a WriteThread only copies it to the network.  The samples of     *)
(* InFlightQueue are one set here: how packets are grouped into Samples    *)
(* matters to the statistics only.                                         *)
(***************************************************************************)
EXTENDS Integers, Sequences, FiniteSets

CONSTANTS Data,          \* payloads
          SendBuffers,   \* buffers the user gave to the sending side
          MaxPackets     \* packets numbered in a connection's life: below the
                         \* service number ~SeqNumberType{} of SendQueue

ASSUME SendPathAssumption ==
    /\ SendBuffers \in Nat \ {0}
    /\ MaxPackets \in Nat

VARIABLES
    freeUser,        \* number of buffers in _freeUserSendPackets or with the user
    sendUserData,    \* _sendUserData: payloads given to Send, not yet numbered
    payload,         \* payload of every numbered packet; Len is _nextPacketNumber
    needToSend,      \* SendQueue::_needToSend
    resendPackets,   \* SendQueue::_resendPackets
    udpSendQueue,    \* UDPQueue::_sendQueue
    udpSendFree,     \* UDPQueue::_sendFreeQueue: sent, not yet taken back
    takenSent,       \* the batch ProcessSentPackets works on
    inFlight,        \* packets of InFlightQueue::_samples
    receivedAcks,    \* InFlightQueue::_receivedAcks
    takenAcks,       \* the set swapped out of _receivedAcks, under no lock
    lastAck,         \* InFlightQueue::_lastAckNumber
    sendPC           \* where the SendThread is in its loop

queueVars  == <<needToSend, resendPackets, udpSendQueue, udpSendFree, takenSent, inFlight>>
ackVars    == <<receivedAcks, takenAcks, lastAck>>
sendVars   == <<freeUser, sendUserData, payload, queueVars, ackVars, sendPC>>

\* The points of the SendThread's loop at which other threads may step.
SendPCs == {"SendPackets", "ProcessAcks", "GetPacketsToSend", "TakeSent", "AddQueue"}

SendInit ==
    /\ freeUser = SendBuffers
    /\ sendUserData = <<>>
    /\ payload = <<>>
    /\ needToSend = {} /\ resendPackets = {}
    /\ udpSendQueue = {} /\ udpSendFree = {} /\ takenSent = {}
    /\ inFlight = {}
    /\ receivedAcks = {} /\ takenAcks = {} /\ lastAck = 0
    /\ sendPC = "SendPackets"

\* Connection::Send, Send2: the user fills a free buffer and splices it into
\* _sendUserData.
UserSend(d) ==
    /\ freeUser > 0
    /\ Len(payload) + Len(sendUserData) < MaxPackets
    /\ freeUser' = freeUser - 1
    /\ sendUserData' = Append(sendUserData, d)
    /\ UNCHANGED <<payload, queueVars, ackVars, sendPC>>

\* (Mutant: the counter is incremented after use.)
NewNumbersFromZero == Len(payload)..(Len(payload) + Len(sendUserData) - 1)

\* The numbers SendQueue::SendPackets gives to the user data: ++_nextPacketNumber.
NewNumbers == (Len(payload) + 1)..(Len(payload) + Len(sendUserData))

\* Connection::Run up to the middle of ProcessAcks.  In DataState::SendPackets,
\* CheckTimeouts moves the packets whose send time is too old (timedOut, any set:
\* time is not modelled) to the resend heap; then all user data is numbered and
\* queued.  InFlightQueue::ProcessAcks begins by swapping the acks out under the
\* lock.  One step: no other thread's step between these is visible to both sides.
SendPackets(timedOut) ==
    /\ sendPC = "SendPackets"
    /\ timedOut \subseteq inFlight
    /\ inFlight' = inFlight \ timedOut
    /\ resendPackets' = resendPackets \cup timedOut
    /\ payload' = payload \o sendUserData
    /\ needToSend' = needToSend \cup NewNumbers
    /\ sendUserData' = <<>>
    /\ takenAcks' = receivedAcks
    /\ receivedAcks' = {}
    /\ sendPC' = "ProcessAcks"
    /\ UNCHANGED <<freeUser, udpSendQueue, udpSendFree, takenSent, lastAck>>

\* (Mutant: the cumulative ack is taken for the next expected number.)
AckedOffByOne == {s \in inFlight : s <= lastAck + 1 \/ s \in takenAcks}

\* Sample::ProcessAcks over the samples: the packets an ack or the cumulative
\* ack covers are free.
Acked == {s \in inFlight : s <= lastAck \/ s \in takenAcks}

\* (Mutant: the acks that no sample uses are dropped.)
UnusedAcksDropped == {}

\* The acks Sample::ProcessAcks leaves: those above lastAck that no sample
\* holds.  With no sample in the list nothing is erased.
UnusedAcks ==
    IF inFlight = {} THEN takenAcks
    ELSE {a \in takenAcks : a > lastAck /\ a \notin inFlight}

\* The rest of InFlightQueue::ProcessAcks: free what is acked, merge the unused
\* acks back, and give the buffers to the user (AddFreeUserSendPackets).
ProcessAcks ==
    /\ sendPC = "ProcessAcks"
    /\ freeUser' = freeUser + Cardinality(Acked)
    /\ inFlight' = inFlight \ Acked
    /\ receivedAcks' = receivedAcks \cup UnusedAcks
    /\ takenAcks' = {}
    /\ sendPC' = "GetPacketsToSend"
    /\ UNCHANGED <<sendUserData, payload, needToSend, resendPackets,
                   udpSendQueue, udpSendFree, takenSent, lastAck>>

\* The n lowest numbers of a set: n pops of the resend min-heap, or TryGenerate
\* of n packets of the list in numbering order.
Lowest(S, n) == {s \in S : Cardinality({t \in S : t < s}) < n}

\* Connection::GetPacketsToSend, size being the number the speed controller
\* grants: packets to resend first, then new ones; UDPQueue::Send queues them.
GetPacketsToSend(size) ==
    LET again == Lowest(resendPackets, size)
        new   == Lowest(needToSend, size - Cardinality(again))
    IN  /\ sendPC = "GetPacketsToSend"
        /\ resendPackets' = resendPackets \ again
        /\ needToSend' = needToSend \ new
        /\ udpSendQueue' = udpSendQueue \cup again \cup new
        /\ sendPC' = "TakeSent"
        /\ UNCHANGED <<freeUser, sendUserData, payload, udpSendFree, takenSent, inFlight, ackVars>>

\* The rest of UDPQueue::Send takes back the sent packets; if there are any,
\* ProcessSentPackets starts InFlightQueue::AddQueue, which swaps the acks out.
TakeSent ==
    /\ sendPC = "TakeSent"
    /\ takenSent' = udpSendFree
    /\ udpSendFree' = {}
    /\ IF udpSendFree = {}
       THEN /\ sendPC' = "SendPackets"
            /\ UNCHANGED <<receivedAcks, takenAcks>>
       ELSE /\ sendPC' = "AddQueue"
            /\ takenAcks' = receivedAcks
            /\ receivedAcks' = {}
    /\ UNCHANGED <<freeUser, sendUserData, payload, needToSend, resendPackets,
                   udpSendQueue, inFlight, lastAck>>

\* (Mutants: a packet acked early is freed and put in flight as well; its ack is
\* used up and the packet is not freed.)
AddQueueKeepsAcked ==
    /\ sendPC = "AddQueue"
    /\ freeUser' = freeUser + Cardinality(takenSent \cap takenAcks)
    /\ inFlight' = inFlight \cup takenSent
    /\ receivedAcks' = receivedAcks \cup (takenAcks \ takenSent)
    /\ takenSent' = {} /\ takenAcks' = {}
    /\ sendPC' = "SendPackets"
    /\ UNCHANGED <<sendUserData, payload, needToSend, resendPackets,
                   udpSendQueue, udpSendFree, lastAck>>
AddQueueWastesAck ==
    /\ sendPC = "AddQueue"
    /\ inFlight' = inFlight \cup takenSent
    /\ receivedAcks' = receivedAcks \cup (takenAcks \ takenSent)
    /\ takenSent' = {} /\ takenAcks' = {}
    /\ sendPC' = "SendPackets"
    /\ UNCHANGED <<freeUser, sendUserData, payload, needToSend, resendPackets,
                   udpSendQueue, udpSendFree, lastAck>>

\* InFlightQueue::AddQueue, second half: a packet acked before it got here is
\* free ("doubleSent"), the others go in flight, and the unused acks are merged
\* back.  Connection::ProcessSentPackets returns the free buffers to the user.
AddQueue ==
    /\ sendPC = "AddQueue"
    /\ freeUser' = freeUser + Cardinality(takenSent \cap takenAcks)
    /\ inFlight' = inFlight \cup (takenSent \ takenAcks)
    /\ receivedAcks' = receivedAcks \cup (takenAcks \ takenSent)
    /\ takenSent' = {}
    /\ takenAcks' = {}
    /\ sendPC' = "SendPackets"
    /\ UNCHANGED <<sendUserData, payload, needToSend, resendPackets,
                   udpSendQueue, udpSendFree, lastAck>>

\* SendThreadQueue::WriteThread: one of the threads sends a queued packet and
\* puts it into _sendFreeQueue.
Write(s) ==
    /\ s \in udpSendQueue
    /\ udpSendQueue' = udpSendQueue \ {s}
    /\ udpSendFree' = udpSendFree \cup {s}
    /\ UNCHANGED <<freeUser, sendUserData, payload, needToSend, resendPackets,
                   takenSent, inFlight, ackVars, sendPC>>

\* DataState::OnRecvPackets on a Sack: SetLastAck, then AddAcks.  (A data packet
\* carries the ack number 0 of its buffer, which SetLastAck ignores.)
OnSack(m) ==
    /\ lastAck' = IF m.ack > lastAck THEN m.ack ELSE lastAck
    /\ receivedAcks' = receivedAcks \cup m.acks
    /\ UNCHANGED <<freeUser, sendUserData, payload, queueVars, takenAcks, sendPC>>

-----------------------------------------------------------------------------
\* The numbered packets whose buffer the transport still holds.
Unacked == needToSend \cup resendPackets \cup udpSendQueue \cup udpSendFree
               \cup takenSent \cup inFlight

\* Packets whose buffer went back to the user.
Released == (1..Len(payload)) \ Unacked

SendTypeOK ==
    /\ freeUser \in Nat
    /\ sendUserData \in Seq(Data)
    /\ payload \in Seq(Data)
    /\ Len(payload) + Len(sendUserData) <= MaxPackets
    /\ Unacked \subseteq 1..Len(payload)
    /\ receivedAcks \subseteq Nat
    /\ takenAcks \subseteq Nat
    /\ lastAck \in Nat
    /\ sendPC \in SendPCs

\* A selective ack that reached InFlightQueue is forgotten only when its packet
\* is free or the cumulative ack covers it, whichever swap and merge of
\* _receivedAcks (ProcessAcks, AddQueue) it falls between.
AckNotForgotten ==
    [][\A a \in (receivedAcks \cup takenAcks) \cap Unacked :
          a \in Unacked' /\ a > lastAck' => a \in receivedAcks' \cup takenAcks']_sendVars

\* Every send buffer is in exactly one place: with the user, waiting for a
\* number, or in one container of SendQueue, UDPQueue or InFlightQueue.  Neither
\* a resend nor an ack that meets a resend duplicates or loses one.
SendBuffersConserved ==
    freeUser + Len(sendUserData)
        + Cardinality(needToSend) + Cardinality(resendPackets)
        + Cardinality(udpSendQueue) + Cardinality(udpSendFree)
        + Cardinality(takenSent) + Cardinality(inFlight) = SendBuffers
=============================================================================
