---------------------------- MODULE DataTransfer ----------------------------
(***************************************************************************)
(* One direction of an established connection: SendPath at one endpoint,   *)
(* RecvPath at the other, and UDP between them, which loses, duplicates    *)
(* and reorders.  The other direction is a second copy of this one: the    *)
(* two share the threads and the service queue but none of the variables.  *)
(***************************************************************************)
EXTENDS SendPath, RecvPath

CONSTANTS MaxNet,        \* data packets on the network at once
          MaxAckNet      \* Sacks on the network at once

ASSUME NetAssumption == MaxNet \in Nat /\ MaxAckNet \in Nat

VARIABLES dataNet,       \* data packets on their way
          ackNet,        \* Sacks on their way
          delivered      \* payloads handed to the receiving user

netVars == <<dataNet, ackNet>>
vars    == <<sendVars, recvVars, netVars, delivered>>

Init ==
    /\ SendInit
    /\ RecvInit
    /\ dataNet = {} /\ ackNet = {}
    /\ delivered = <<>>

\* UDP: what is put on the network may be lost at once.
Carry(net, m, limit) == {net} \cup {n \in {net \cup {m}} : Cardinality(n) <= limit}

\* UDP: what is taken from the network may still come again.
Receive(net, m) == {net, net \ {m}}

-----------------------------------------------------------------------------
\* The sending user.
Send(d) == UserSend(d) /\ UNCHANGED <<recvVars, netVars, delivered>>

\* One stage of the sending endpoint's SendThread: FastTransportContext runs
\* Connection::Run and then SendQueueStep, over and over.
SendThread ==
    /\ \/ \E timedOut \in SUBSET inFlight : SendPackets(timedOut)
       \/ ProcessAcks
       \/ \E size \in 0..MaxPackets : GetPacketsToSend(size)
       \/ TakeSent
       \/ AddQueue
    /\ UNCHANGED <<recvVars, netVars, delivered>>

\* A WriteThread sends a data packet; UDP carries or loses it.
WriteData(s) ==
    /\ Write(s)
    /\ dataNet' \in Carry(dataNet, s, MaxNet)
    /\ UNCHANGED <<recvVars, ackNet, delivered>>

\* The receiving endpoint's ReadThread t: a read of its socket takes no more packets than
\* are on their way.
ReadThread(t) ==
    /\ \/ Refill(t)
       \/ \E n \in 1..(Cardinality(dataNet) - received) : ReadSocket(t, n)
    /\ UNCHANGED <<sendVars, netVars, delivered>>

\* The receiving endpoint's RecvThread takes a data packet that has come from the network.
RecvData(s) ==
    /\ AddPacketAck(s)
    /\ dataNet' \in Receive(dataNet, s)
    /\ UNCHANGED <<sendVars, ackNet, delivered>>

\* The receiving endpoint's RecvThread, between packets.
RecvThread ==
    /\ AddPacketStore \/ OrderNext \/ OrderDone
    /\ UNCHANGED <<sendVars, netVars, delivered>>

\* The receiving user returns buffers.
Return == RecvReturn /\ UNCHANGED <<sendVars, netVars, delivered>>

\* The receiving user takes what is ready.
Recv ==
    /\ RecvTake
    /\ delivered' = delivered \o [i \in 1..Len(userData) |-> payload[userData[i]]]
    /\ UNCHANGED <<sendVars, netVars>>

\* The receiving endpoint's SendThread collects acks, or gives them up.
AckThread ==
    /\ GetSelectiveAcks \/ DropAcks
    /\ UNCHANGED <<sendVars, netVars, delivered>>

\* The receiving endpoint's SendThread builds a Sack, a WriteThread sends it, and
\* UDP carries or loses it.
SendSack(chunk) ==
    /\ BuildSack(chunk)
    /\ ackNet' \in Carry(ackNet, Sack(chunk), MaxAckNet)
    /\ UNCHANGED <<sendVars, dataNet, delivered>>

\* The sending endpoint's RecvThread takes a Sack from the network.
RecvSack(m) ==
    /\ OnSack(m)
    /\ ackNet' \in Receive(ackNet, m)
    /\ UNCHANGED <<recvVars, dataNet, delivered>>

Next ==
    \/ \E d \in Data : Send(d)
    \/ SendThread
    \/ \E s \in udpSendQueue : WriteData(s)
    \/ \E t \in ReadThreads : ReadThread(t)
    \/ \E s \in dataNet : RecvData(s)
    \/ RecvThread
    \/ Return
    \/ Recv
    \/ AckThread
    \/ \E chunk \in SUBSET acks : SendSack(chunk)
    \/ \E m \in ackNet : RecvSack(m)

Spec == Init /\ [][Next]_vars

-----------------------------------------------------------------------------
(* Properties *)

\* The types of the variables: numbers on the network are numbers of packets
\* SendQueue::SendPackets has numbered, and every Sack is a pair of a cumulative
\* ack and selective acks.
TypeOK ==
    /\ SendTypeOK
    /\ RecvTypeOK
    /\ dataNet \subseteq 1..Len(payload)
    /\ ackNet \subseteq [ack : Nat, acks : SUBSET Nat]
    /\ delivered \in Seq(Data)

\* A buffer goes back to the sending user only when RecvQueue has its packet
\* (in the ring, about to be stored, or handed on): no ack, selective or
\* cumulative, early or late, frees a packet that could still be needed.
ReleasedOnlyIfReceived == Released \subseteq Got

\* The users' view: the stream of Send is delivered by Recv once and in order.
Stream == INSTANCE ReliableStream WITH sent <- payload \o sendUserData
ImplementsStream == Stream!Spec
=============================================================================
