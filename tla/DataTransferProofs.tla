------------------------- MODULE DataTransferProofs -------------------------
(***************************************************************************)
(* Proofs about DataTransfer for every window size, buffer count, payload  *)
(* set and stream length.                                                  *)
(***************************************************************************)
EXTENDS DataTransfer, FiniteSetTheorems, TLAPS

-----------------------------------------------------------------------------
(* The inductive invariant. *)

\* A slot holds a packet of the window, and the one that belongs there.
RingInv ==
    \A i \in Slots : queue[i] # NoPacket =>
        /\ queue[i] % QueueSize = i
        /\ begin <= queue[i] /\ queue[i] < begin + QueueSize
        /\ queue[i] <= Len(payload)

\* The packet in the RecvThread's hands is one of the window.
AddingInv ==
    IF recvPC = "AddPacketStore"
    THEN begin <= adding /\ adding < begin + QueueSize /\ adding <= Len(payload)
    ELSE adding = NoPacket

\* What was delivered, what is in the user's list and what the RecvThread is
\* about to put there are the packets below begin, in order.
OrderInv ==
    /\ Len(delivered) + Len(userData) + Len(ordered) = begin - 1
    /\ begin - 1 <= Len(payload)
    /\ \A i \in 1..Len(delivered) : delivered[i] = payload[i]
    /\ \A i \in 1..Len(userData) : userData[i] = Len(delivered) + i
    /\ \A i \in 1..Len(ordered) : ordered[i] = Len(delivered) + Len(userData) + i
    /\ recvPC # "Ordering" => ordered = <<>>

\* Every ack, wherever it is on its way from AddPacket to the samples, is of a
\* packet the receiver has.
AckInv ==
    /\ selectiveAcks \cup acks \subseteq Got
    /\ \A m \in ackNet : m.acks \subseteq Got /\ m.ack <= GetLastAck
    /\ receivedAcks \cup takenAcks \subseteq Got
    /\ lastAck <= GetLastAck

\* The SendThread's locals are empty outside the stage that uses them.
StageInv ==
    /\ sendPC # "AddQueue" => takenSent = {}
    /\ sendPC \notin {"ProcessAcks", "AddQueue"} => takenAcks = {}

IInv ==
    /\ TypeOK
    /\ StageInv
    /\ RingInv
    /\ AddingInv
    /\ OrderInv
    /\ AckInv
    /\ ReleasedOnlyIfReceived

-----------------------------------------------------------------------------
(* Facts about numbers and sets. *)

\* Division with remainder.
LEMMA Remainder ==
    \A q \in Nat \ {0}, a \in Nat : a % q = a - q * (a \div q)
  BY SMT

LEMMA QuotientIsInt ==
    \A q \in Nat \ {0}, a \in Nat : a \div q \in Int
  BY SMT

\* A multiple of q below q is not positive.
LEMMA Multiples ==
    /\ \A q \in Nat \ {0}, x, y \in Int : q * x - q * y = q * (x - y)
    /\ \A q \in Nat \ {0}, k \in Int : (k >= 1 => q * k >= q) /\ (k <= 0 => q * k <= 0)
<1>1. \A q \in Nat \ {0}, x, y \in Int : q * x - q * y = q * (x - y)
  BY SMT
<1>2. \A q \in Nat \ {0}, k \in Int : (k >= 1 => q * k >= q) /\ (k <= 0 => q * k <= 0)
  BY SMT
<1> QED
  BY <1>1, <1>2

\* Two numbers of a window of q consecutive ones share a slot only if they are
\* equal: why _queue[seq % QueueSize] is one packet's place.
LEMMA WindowIsInjective ==
    ASSUME NEW q \in Nat \ {0}, NEW a \in Nat, NEW b \in Nat,
           a <= b, b < a + q, a % q = b % q
    PROVE  a = b
<1> DEFINE x == a \div q
           y == b \div q
<1>1. x \in Int /\ y \in Int
  BY QuotientIsInt
<1>2. a % q = a - q * x /\ b % q = b - q * y
  BY Remainder
<1> HIDE DEF x, y
<1>3. PICK k \in Int : k = y - x
  BY <1>1
<1>4. b - a = q * y - q * x /\ q * x \in Int /\ q * y \in Int
  BY <1>1, <1>2
<1>5. b - a = q * k
  BY <1>1, <1>3, <1>4, Multiples
<1>6. k <= 0
  BY <1>5, Multiples
<1>7. q * k <= 0
  BY <1>6, Multiples
<1> QED
  BY <1>5, <1>7

\* The buffers a step releases can be counted.
LEMMA CountIsNat ==
    ASSUME NEW n \in Nat, NEW S, S \subseteq 1..n
    PROVE  Cardinality(S) \in Nat
<1>1. IsFiniteSet(1..n)
  BY FS_Interval
<1>2. IsFiniteSet(S)
  BY <1>1, FS_Subset
<1> QED
  BY <1>2, FS_CardinalityType

\* A numbered stream keeps its numbers when user data is numbered after it.
LEMMA Numbering ==
    ASSUME NEW p \in Seq(Data), NEW u \in Seq(Data)
    PROVE  /\ p \o u \in Seq(Data)
           /\ Len(p \o u) = Len(p) + Len(u)
           /\ Len(p) \in Nat /\ Len(u) \in Nat
           /\ \A i \in 1..Len(p) : (p \o u)[i] = p[i]
  OBVIOUS

\* The elements of a concatenation.
LEMMA Concatenation ==
    ASSUME NEW S, NEW p \in Seq(S), NEW q \in Seq(S)
    PROVE  /\ p \o q \in Seq(S)
           /\ Len(p \o q) = Len(p) + Len(q)
           /\ \A i \in 1..(Len(p) + Len(q)) :
                 (p \o q)[i] = IF i <= Len(p) THEN p[i] ELSE q[i - Len(p)]
  OBVIOUS

\* Sequences of the same length and elements are the same.
LEMMA SeqEqual ==
    ASSUME NEW S, NEW p \in Seq(S), NEW q \in Seq(S), Len(p) = Len(q),
           \A i \in 1..Len(p) : p[i] = q[i]
    PROVE  p = q
  OBVIOUS

-----------------------------------------------------------------------------
(* The initial states. *)

LEMMA InitIInv == Init => IInv
<1> SUFFICES ASSUME Init PROVE IInv
  OBVIOUS
<1> USE SendPathAssumption, RecvPathAssumption DEF Init, SendInit, RecvInit
<1>1. TypeOK
  BY DEF TypeOK, SendTypeOK, RecvTypeOK, Unacked, SendPCs, Slots, NoPacket
<1>2. RingInv
  BY DEF RingInv, Slots, NoPacket
<1>3. AddingInv
  BY DEF AddingInv, NoPacket
<1>4. OrderInv
  BY DEF OrderInv
<1>5. AckInv
  BY DEF AckInv, GetLastAck
<1>6. ReleasedOnlyIfReceived
  BY DEF ReleasedOnlyIfReceived, Released
<1>7. StageInv
  BY DEF StageInv
<1> QED
  BY <1>1, <1>2, <1>3, <1>4, <1>5, <1>6, <1>7 DEF IInv

-----------------------------------------------------------------------------
(* Steps of the sending endpoint. *)

\* The receiver's part of the invariant survives a step that leaves the receiver
\* alone and only adds to the numbered stream.
LEMMA ReceiverUntouched ==
    ASSUME IInv, UNCHANGED <<recvVars, delivered>>,
           payload' \in Seq(Data), Len(payload) <= Len(payload'),
           \A i \in 1..Len(payload) : payload'[i] = payload[i]
    PROVE  /\ RecvTypeOK' /\ RingInv' /\ AddingInv' /\ OrderInv'
           /\ Got' = Got /\ GetLastAck' = GetLastAck
<1> USE DEF recvVars, queueSideVars, readVars, ackSideVars
<1>1. RecvTypeOK /\ payload \in Seq(Data)
  BY DEF IInv, TypeOK, SendTypeOK
<1>2. RecvTypeOK'
  BY <1>1 DEF RecvTypeOK, Slots
<1>3. RingInv'
  BY <1>1, RecvPathAssumption DEF IInv, RingInv, RecvTypeOK, Slots
<1>4. AddingInv'
  BY <1>1 DEF IInv, AddingInv, RecvTypeOK
<1>5. OrderInv'
  <2>1. OrderInv /\ UNCHANGED <<delivered, userData, ordered, begin, recvPC>>
    BY DEF IInv
  <2>2. begin \in Nat /\ Len(payload) \in Nat /\ Len(payload') \in Nat /\ Len(delivered) \in Nat
    BY <1>1 DEF RecvTypeOK, IInv, TypeOK
  <2>3. begin - 1 <= Len(payload')
    BY <2>1, <2>2 DEF OrderInv
  <2>4. \A i \in 1..Len(delivered) : delivered[i] = payload'[i]
    <3>1. Len(delivered) <= Len(payload)
      <4>1. Len(userData) \in Nat /\ Len(ordered) \in Nat
        BY <1>1 DEF RecvTypeOK
      <4> QED
        BY <2>1, <2>2, <4>1 DEF OrderInv
    <3> QED
      BY <2>1, <2>2, <3>1 DEF OrderInv
  <2> QED
    BY <2>1, <2>3, <2>4 DEF OrderInv
<1>6. Got' = Got /\ GetLastAck' = GetLastAck
  BY DEF Got, GetLastAck, Stored
<1> QED
  BY <1>2, <1>3, <1>4, <1>5, <1>6

\* Connection::Send.
LEMMA SendKeepsIInv ==
    ASSUME IInv, NEW d \in Data, Send(d)
    PROVE  IInv'
<1> USE DEF Send, UserSend, queueVars, ackVars, netVars
<1>1. SendTypeOK /\ UNCHANGED <<recvVars, netVars, delivered>>
  BY DEF IInv, TypeOK
<1>2. /\ RecvTypeOK' /\ RingInv' /\ AddingInv' /\ OrderInv'
      /\ Got' = Got /\ GetLastAck' = GetLastAck
  BY <1>1, ReceiverUntouched DEF SendTypeOK
<1>3. SendTypeOK'
  BY <1>1, SendPathAssumption DEF SendTypeOK, Unacked
<1>4. TypeOK'
  BY <1>1, <1>2, <1>3 DEF IInv, TypeOK
<1>5. AckInv'
  BY <1>1, <1>2 DEF IInv, AckInv, recvVars, ackSideVars
<1>6. ReleasedOnlyIfReceived'
  BY <1>2 DEF IInv, ReleasedOnlyIfReceived, Released, Unacked
<1>7. StageInv'
  BY DEF IInv, StageInv
<1> QED
  BY <1>2, <1>4, <1>5, <1>6, <1>7 DEF IInv

\* Connection::Run: a timeout moves packets between containers, and numbering
\* puts the new packets into one.
LEMMA SendPacketsKeepsIInv ==
    ASSUME IInv, NEW timedOut, SendPackets(timedOut), UNCHANGED <<recvVars, netVars, delivered>>
    PROVE  IInv'
<1> USE DEF SendPackets, NewNumbers, netVars
<1>1. SendTypeOK
  BY DEF IInv, TypeOK
<1>2. /\ payload' \in Seq(Data) /\ sendUserData' \in Seq(Data)
      /\ Len(payload') = Len(payload) + Len(sendUserData) /\ Len(sendUserData') = 0
      /\ Len(payload) \in Nat /\ Len(sendUserData) \in Nat
      /\ \A i \in 1..Len(payload) : payload'[i] = payload[i]
  BY <1>1, Numbering DEF SendTypeOK
<1>3. /\ RecvTypeOK' /\ RingInv' /\ AddingInv' /\ OrderInv'
      /\ Got' = Got /\ GetLastAck' = GetLastAck
  BY <1>2, ReceiverUntouched
<1>4. SendTypeOK'
  BY <1>1, <1>2, SendPathAssumption DEF SendTypeOK, Unacked, SendPCs
<1>5. TypeOK'
  BY <1>2, <1>3, <1>4 DEF IInv, TypeOK
<1>6. AckInv'
  BY <1>3 DEF IInv, AckInv, recvVars, ackSideVars
<1>7. Released' \subseteq Released
  BY <1>1, <1>2 DEF Released, Unacked, SendTypeOK
<1>8. ReleasedOnlyIfReceived'
  BY <1>3, <1>7 DEF IInv, ReleasedOnlyIfReceived
<1>9. StageInv'
  BY DEF IInv, StageInv
<1> QED
  BY <1>3, <1>5, <1>6, <1>8, <1>9 DEF IInv

\* The parts of the invariant that a step of the sender which numbers nothing
\* has to show for itself.
LEMMA SenderStep ==
    ASSUME IInv, UNCHANGED <<recvVars, ackNet, delivered, payload>>,
           SendTypeOK', StageInv', dataNet' \subseteq 1..Len(payload),
           receivedAcks' \cup takenAcks' \subseteq Got, lastAck' <= GetLastAck,
           Released' \subseteq Got
    PROVE  IInv'
<1>1. payload \in Seq(Data) /\ Len(payload) \in Nat
  BY DEF IInv, TypeOK, SendTypeOK
<1>2. /\ RecvTypeOK' /\ RingInv' /\ AddingInv' /\ OrderInv'
      /\ Got' = Got /\ GetLastAck' = GetLastAck
  BY <1>1, ReceiverUntouched
<1>3. TypeOK'
  BY <1>2 DEF IInv, TypeOK
<1>4. AckInv'
  BY <1>2 DEF IInv, AckInv, recvVars, ackSideVars
<1>5. ReleasedOnlyIfReceived'
  BY <1>2 DEF ReleasedOnlyIfReceived
<1> QED
  BY <1>2, <1>3, <1>4, <1>5 DEF IInv

\* InFlightQueue::ProcessAcks: the packets it frees are covered by an ack, and the
\* receiver has what an ack covers.
LEMMA ProcessAcksKeepsIInv ==
    ASSUME IInv, ProcessAcks, UNCHANGED <<recvVars, netVars, delivered>>
    PROVE  IInv'
<1> USE DEF ProcessAcks, netVars
<1>1. SendTypeOK /\ AckInv /\ begin \in Nat \ {0} /\ dataNet \subseteq 1..Len(payload)
      /\ Released \subseteq Got
  BY DEF IInv, TypeOK, RecvTypeOK, ReleasedOnlyIfReceived
<1>2. Acked \subseteq inFlight /\ inFlight \subseteq 1..Len(payload) /\ Len(payload) \in Nat
  BY <1>1 DEF Acked, SendTypeOK, Unacked
<1>3. Cardinality(Acked) \in Nat
  BY <1>2, CountIsNat
<1>4. UnusedAcks \subseteq takenAcks
  BY DEF UnusedAcks
<1>5. SendTypeOK'
  BY <1>1, <1>3, <1>4 DEF SendTypeOK, Unacked, SendPCs
<1>6. Acked \subseteq Got
  <2>1. takenAcks \subseteq Got /\ lastAck <= begin - 1 /\ lastAck \in Nat
    BY <1>1 DEF AckInv, GetLastAck, SendTypeOK
  <2>2. \A s \in inFlight : s <= lastAck => s \in 1..(begin - 1)
    BY <1>1, <1>2, <2>1
  <2>3. 1..(begin - 1) \subseteq Got
    BY DEF Got, GetLastAck
  <2> QED
    BY <2>1, <2>2, <2>3 DEF Acked
<1>7. Released' \subseteq Released \cup Acked
  BY DEF Released, Unacked
<1>8. receivedAcks' \cup takenAcks' \subseteq Got /\ lastAck' <= GetLastAck
  BY <1>1, <1>4 DEF AckInv
<1>9. StageInv'
  BY DEF IInv, StageInv
<1> QED
  BY <1>1, <1>5, <1>6, <1>7, <1>8, <1>9, SenderStep

\* Connection::GetPacketsToSend moves packets from SendQueue to UDPQueue.
LEMMA GetPacketsToSendKeepsIInv ==
    ASSUME IInv, NEW size, GetPacketsToSend(size), UNCHANGED <<recvVars, netVars, delivered>>
    PROVE  IInv'
<1> USE DEF GetPacketsToSend, ackVars, netVars
<1>1. SendTypeOK /\ AckInv /\ dataNet \subseteq 1..Len(payload) /\ Released \subseteq Got
  BY DEF IInv, TypeOK, ReleasedOnlyIfReceived
<1>2. \A S, n : Lowest(S, n) \subseteq S
  BY DEF Lowest
<1>3. Unacked' = Unacked
  BY <1>2 DEF Unacked
<1>4. SendTypeOK'
  BY <1>1, <1>3 DEF SendTypeOK, SendPCs
<1>5. Released' = Released
  BY <1>3 DEF Released
<1>6. StageInv'
  BY DEF IInv, StageInv
<1> QED
  BY <1>1, <1>4, <1>5, <1>6, SenderStep DEF AckInv

\* UDPQueue::Send takes the sent packets back.
LEMMA TakeSentKeepsIInv ==
    ASSUME IInv, TakeSent, UNCHANGED <<recvVars, netVars, delivered>>
    PROVE  IInv'
<1> USE DEF TakeSent, netVars
<1>1. /\ SendTypeOK /\ AckInv /\ dataNet \subseteq 1..Len(payload) /\ Released \subseteq Got
      /\ takenSent = {}
  BY DEF IInv, TypeOK, ReleasedOnlyIfReceived, StageInv
<1>2. Unacked' = Unacked
  BY <1>1 DEF Unacked
<1>3. SendTypeOK'
  BY <1>1, <1>2 DEF SendTypeOK, SendPCs
<1>4. receivedAcks' \cup takenAcks' \subseteq Got /\ lastAck' <= GetLastAck
  BY <1>1 DEF AckInv
<1>5. StageInv'
  BY DEF IInv, StageInv
<1>6. Released' = Released
  BY <1>2 DEF Released
<1> QED
  BY <1>1, <1>3, <1>4, <1>5, <1>6, SenderStep

\* InFlightQueue::AddQueue frees a packet that was acked on its way here.
LEMMA AddQueueKeepsIInv ==
    ASSUME IInv, AddQueue, UNCHANGED <<recvVars, netVars, delivered>>
    PROVE  IInv'
<1> USE DEF AddQueue, netVars
<1>1. SendTypeOK /\ AckInv /\ dataNet \subseteq 1..Len(payload) /\ Released \subseteq Got
  BY DEF IInv, TypeOK, ReleasedOnlyIfReceived
<1>2. takenSent \cap takenAcks \subseteq 1..Len(payload) /\ Len(payload) \in Nat
  BY <1>1 DEF SendTypeOK, Unacked
<1>3. Cardinality(takenSent \cap takenAcks) \in Nat
  BY <1>2, CountIsNat
<1>4. SendTypeOK'
  <2>1. freeUser' \in Nat
    BY <1>1, <1>3 DEF SendTypeOK
  <2>2. Unacked' \subseteq Unacked
    BY DEF Unacked
  <2> QED
    BY <1>1, <2>1, <2>2 DEF SendTypeOK, SendPCs
<1>5. receivedAcks' \cup takenAcks' \subseteq Got /\ lastAck' <= GetLastAck
  BY <1>1 DEF AckInv
<1>6. StageInv'
  BY DEF IInv, StageInv
<1>7. Released' \subseteq Released \cup takenAcks
  BY DEF Released, Unacked
<1> QED
  BY <1>1, <1>4, <1>5, <1>6, <1>7, SenderStep DEF AckInv

\* A WriteThread copies a packet to the network and keeps its buffer.
LEMMA WriteDataKeepsIInv ==
    ASSUME IInv, NEW s, WriteData(s)
    PROVE  IInv'
<1> USE DEF WriteData, Write, ackVars
<1>1. SendTypeOK /\ AckInv /\ dataNet \subseteq 1..Len(payload) /\ Released \subseteq Got
  BY DEF IInv, TypeOK, ReleasedOnlyIfReceived
<1>2. Unacked' = Unacked
  BY DEF Unacked
<1>3. SendTypeOK'
  BY <1>1, <1>2 DEF SendTypeOK
<1>4. dataNet' \subseteq 1..Len(payload)
  BY <1>1 DEF Carry, SendTypeOK, Unacked
<1>5. StageInv'
  BY DEF IInv, StageInv
<1>6. Released' = Released
  BY <1>2 DEF Released
<1> QED
  BY <1>1, <1>3, <1>4, <1>5, <1>6, SenderStep DEF AckInv

\* DataState::OnRecvPackets on a Sack: its acks are sound however old it is.
LEMMA RecvSackKeepsIInv ==
    ASSUME IInv, NEW m \in ackNet, RecvSack(m)
    PROVE  IInv'
<1> USE DEF RecvSack, OnSack, queueVars
<1>1. /\ SendTypeOK /\ AckInv /\ dataNet \subseteq 1..Len(payload) /\ Released \subseteq Got
      /\ m \in [ack : Nat, acks : SUBSET Nat] /\ payload \in Seq(Data)
  BY DEF IInv, TypeOK, ReleasedOnlyIfReceived, SendTypeOK
<1>2. SendTypeOK'
  BY <1>1 DEF SendTypeOK, Unacked
<1>3. /\ RecvTypeOK' /\ RingInv' /\ AddingInv' /\ OrderInv'
      /\ Got' = Got /\ GetLastAck' = GetLastAck
  BY <1>1, ReceiverUntouched
<1>4. ackNet' \subseteq ackNet
  BY DEF Receive
<1>5. TypeOK'
  BY <1>2, <1>3, <1>4 DEF IInv, TypeOK
<1>6. AckInv'
  BY <1>1, <1>3, <1>4 DEF AckInv, recvVars, ackSideVars
<1>7. StageInv'
  BY DEF IInv, StageInv
<1>8. ReleasedOnlyIfReceived'
  BY <1>1, <1>3 DEF ReleasedOnlyIfReceived, Released, Unacked
<1> QED
  BY <1>3, <1>5, <1>6, <1>7, <1>8 DEF IInv

-----------------------------------------------------------------------------
(* Steps of the receiving endpoint. *)

\* The sender's part of the invariant survives a step of the receiver that loses
\* no packet and puts no unsound Sack on the network.
LEMMA ReceiverStep ==
    ASSUME IInv, UNCHANGED sendVars, dataNet' \subseteq dataNet,
           RecvTypeOK', RingInv', AddingInv', OrderInv', delivered' \in Seq(Data),
           Got \subseteq Got', begin <= begin',
           selectiveAcks' \cup acks' \subseteq Got',
           \A m \in ackNet' : \/ m \in ackNet
                              \/ /\ m \in [ack : Nat, acks : SUBSET Nat]
                                 /\ m.acks \subseteq Got' /\ m.ack <= begin' - 1
    PROVE  IInv'
<1> USE DEF sendVars, queueVars, ackVars
<1>1. /\ SendTypeOK /\ AckInv /\ dataNet \subseteq 1..Len(payload) /\ begin \in Nat
      /\ ackNet \subseteq [ack : Nat, acks : SUBSET Nat] /\ begin' \in Nat
  BY DEF IInv, TypeOK, RecvTypeOK
<1>2. SendTypeOK' /\ Unacked' = Unacked /\ Released' = Released
  BY <1>1 DEF SendTypeOK, Unacked, Released
<1>3. ackNet' \subseteq [ack : Nat, acks : SUBSET Nat]
  BY <1>1
<1>4. TypeOK'
  BY <1>1, <1>2, <1>3 DEF TypeOK
<1>5. \A m \in ackNet' : m.acks \subseteq Got' /\ m.ack <= begin' - 1
  <2> SUFFICES ASSUME NEW m \in ackNet' PROVE m.acks \subseteq Got' /\ m.ack <= begin' - 1
    OBVIOUS
  <2>1. CASE m \in ackNet
    <3>1. m.acks \subseteq Got /\ m.ack <= begin - 1 /\ m.ack \in Nat
      BY <1>1, <2>1 DEF AckInv, GetLastAck
    <3> QED
      BY <1>1, <3>1
  <2> QED
    BY <2>1
<1>6. lastAck' <= begin' - 1
  <2>1. lastAck \in Nat /\ lastAck <= begin - 1 /\ lastAck' = lastAck
    BY <1>1 DEF AckInv, GetLastAck, SendTypeOK
  <2>2. \A a, b, c \in Nat : a <= b - 1 /\ b <= c => a <= c - 1
    OBVIOUS
  <2> QED
    BY <1>1, <2>1, <2>2, Zenon
<1>7. AckInv'
  BY <1>1, <1>5, <1>6 DEF AckInv, GetLastAck
<1>8. ReleasedOnlyIfReceived'
  BY <1>2 DEF IInv, ReleasedOnlyIfReceived
<1>9. StageInv'
  BY DEF IInv, StageInv
<1> QED
  BY <1>4, <1>7, <1>8, <1>9 DEF IInv

\* RecvQueue::AddPacket, first half: the packet of the ack is below the window, or
\* in the RecvThread's hands.
LEMMA RecvDataKeepsIInv ==
    ASSUME IInv, NEW s \in dataNet, RecvData(s)
    PROVE  IInv'
<1> USE DEF RecvData, AddPacketAck, AboveWindow, ackSideVars
<1>1. /\ RecvTypeOK /\ RingInv /\ AddingInv /\ OrderInv /\ AckInv
      /\ s \in Nat \ {0} /\ s <= Len(payload) /\ Len(payload) \in Nat
      /\ payload' = payload /\ delivered \in Seq(Data)
  BY DEF IInv, TypeOK, SendTypeOK, sendVars
<1>2. adding = NoPacket
  BY <1>1 DEF AddingInv
<1>3. RecvTypeOK'
  <2>1. freeRecv' \in Nat /\ received' \in Nat
    BY <1>1 DEF RecvTypeOK
  <2>2. selectiveAcks' \subseteq Nat /\ adding' \in Nat
    BY <1>1 DEF RecvTypeOK
  <2>3. recvPC' \in {"OnReceive", "AddPacketStore", "Ordering"}
    BY <1>1 DEF RecvTypeOK
  <2> QED
    BY <1>1, <2>1, <2>2, <2>3 DEF RecvTypeOK, Slots
<1>4. RingInv'
  BY <1>1 DEF RingInv, Slots
<1>5. AddingInv'
  BY <1>1, RecvPathAssumption DEF AddingInv, RecvTypeOK
<1>6. OrderInv'
  BY <1>1 DEF OrderInv
<1>7. Got' = Got \cup ({adding'} \ {NoPacket})
  BY <1>2 DEF Got, GetLastAck, Stored, Slots
<1>8. 1..(begin - 1) \subseteq Got
  BY DEF Got, GetLastAck
<1>9. s < begin => s \in 1..(begin - 1)
  BY <1>1 DEF RecvTypeOK
<1>10. selectiveAcks' \cup acks' \subseteq Got'
  <2>1. s < begin \/ adding' = s => s \in Got'
    BY <1>1, <1>7, <1>8, <1>9 DEF NoPacket
  <2>2. selectiveAcks \cup acks \subseteq Got'
    BY <1>1, <1>7 DEF AckInv
  <2> QED
    BY <2>1, <2>2
<1>11. dataNet' \subseteq dataNet
  BY DEF Receive
<1>12. begin <= begin'
  BY <1>1 DEF RecvTypeOK
<1> QED
  BY <1>1, <1>3, <1>4, <1>5, <1>6, <1>7, <1>10, <1>11, <1>12, ReceiverStep

\* RecvQueue::AddPacket finds its slot empty or taken by the same packet.
LEMMA SlotTakenBySame ==
    ASSUME RecvTypeOK, RingInv, AddingInv, recvPC = "AddPacketStore"
    PROVE  /\ adding \in Nat /\ adding % QueueSize \in Slots
           /\ queue[adding % QueueSize] # NoPacket => queue[adding % QueueSize] = adding
<1> DEFINE i == adding % QueueSize
<1>1. /\ begin <= adding /\ adding < begin + QueueSize /\ adding \in Nat
      /\ QueueSize \in Nat \ {0} /\ begin \in Nat
  BY RecvPathAssumption DEF AddingInv, RecvTypeOK
<1>2. i \in 0..(QueueSize - 1)
  BY <1>1
<1>3. i \in Slots /\ queue[i] \in Nat
  BY <1>2 DEF Slots, RecvTypeOK
<1>4. ASSUME queue[i] # NoPacket PROVE queue[i] = adding
  <2>1. queue[i] % QueueSize = i /\ begin <= queue[i] /\ queue[i] < begin + QueueSize
    BY <1>3, <1>4 DEF RingInv
  <2> HIDE DEF i
  <2>2. adding % QueueSize = i
    BY DEF i
  <2>3. CASE queue[i] <= adding
    <3>1. adding < queue[i] + QueueSize
      BY <1>1, <1>3, <2>1
    <3> QED
      BY <1>1, <1>3, <2>1, <2>2, <2>3, <3>1, WindowIsInjective
  <2>4. CASE adding <= queue[i]
    <3>1. queue[i] < adding + QueueSize
      BY <1>1, <1>3, <2>1
    <3> QED
      BY <1>1, <1>3, <2>1, <2>2, <2>4, <3>1, WindowIsInjective
  <2> QED
    BY <1>1, <1>3, <2>3, <2>4
<1> QED
  BY <1>1, <1>3, <1>4

\* RecvQueue::AddPacket, second half: the packet is in its slot afterwards.
LEMMA AddPacketStoreKeepsIInv ==
    ASSUME IInv, AddPacketStore, UNCHANGED <<sendVars, netVars, delivered>>
    PROVE  IInv'
<1> USE DEF AddPacketStore, readVars, ackSideVars, netVars
<1> DEFINE i == adding % QueueSize
<1>1. /\ RecvTypeOK /\ RingInv /\ AddingInv /\ OrderInv /\ AckInv
      /\ payload' = payload /\ delivered \in Seq(Data)
  BY DEF IInv, TypeOK, sendVars
<1>2. adding \in Nat /\ i \in Slots /\ (queue[i] # NoPacket => queue[i] = adding)
  BY <1>1, SlotTakenBySame
<1>3. /\ adding # NoPacket /\ begin <= adding /\ adding < begin + QueueSize
      /\ adding <= Len(payload)
  BY <1>1 DEF AddingInv, RecvTypeOK, NoPacket
<1>4. queue' = [queue EXCEPT ![i] = adding]
  BY <1>1, <1>2 DEF RecvTypeOK
<1> HIDE DEF i
<1>5. /\ queue' \in [Slots -> Nat] /\ queue'[i] = adding
      /\ \A j \in Slots : j # i => queue'[j] = queue[j]
  BY <1>1, <1>2, <1>4 DEF RecvTypeOK
<1>6. RecvTypeOK'
  BY <1>1, <1>5 DEF RecvTypeOK, Slots, NoPacket
<1>7. RingInv'
  <2>1. adding % QueueSize = i
    BY DEF i
  <2> QED
    BY <1>1, <1>2, <1>3, <1>5, <2>1 DEF RingInv, Slots
<1>8. AddingInv'
  BY DEF AddingInv
<1>9. OrderInv'
  BY <1>1 DEF OrderInv
<1>10. Got \subseteq Got'
  <2>1. Stored \subseteq Stored'
    BY <1>2, <1>5 DEF Stored, Slots
  <2>2. adding \in Stored'
    BY <1>2, <1>3, <1>5 DEF Stored, Slots
  <2> QED
    BY <2>1, <2>2 DEF Got, GetLastAck
<1>11. selectiveAcks' \cup acks' \subseteq Got'
  BY <1>1, <1>10 DEF AckInv
<1>12. begin <= begin'
  BY <1>1 DEF RecvTypeOK
<1> QED
  BY <1>1, <1>6, <1>7, <1>8, <1>9, <1>10, <1>11, <1>12, ReceiverStep

\* ProccessUnorderedPackets: the slot of begin holds begin and no other slot does.
LEMMA SlotOfBegin ==
    ASSUME RecvTypeOK, RingInv, queue[begin % QueueSize] # NoPacket
    PROVE  /\ begin % QueueSize \in Slots
           /\ queue[begin % QueueSize] = begin /\ begin <= Len(payload)
           /\ \A j \in Slots : j # begin % QueueSize => queue[j] # begin
<1> DEFINE i == begin % QueueSize
<1>1. begin \in Nat \ {0} /\ QueueSize \in Nat \ {0} /\ i \in 0..(QueueSize - 1)
  BY RecvPathAssumption DEF RecvTypeOK
<1>2. i \in Slots /\ queue[i] \in Nat
  BY <1>1 DEF Slots, RecvTypeOK
<1>3. /\ queue[i] % QueueSize = i /\ begin <= queue[i] /\ queue[i] < begin + QueueSize
      /\ queue[i] <= Len(payload)
  BY <1>2 DEF RingInv
<1>4. begin % QueueSize = queue[i] % QueueSize
  BY <1>3
<1> HIDE DEF i
<1>5. begin = queue[i]
  BY <1>1, <1>2, <1>3, <1>4, WindowIsInjective
<1>6. \A j \in Slots : j # i => queue[j] # begin
  BY <1>1 DEF RingInv, NoPacket, i
<1> QED
  BY <1>2, <1>3, <1>5, <1>6 DEF i

\* One turn of the loop hands the packet begin on.
LEMMA OrderNextKeepsIInv ==
    ASSUME IInv, OrderNext, UNCHANGED <<sendVars, netVars, delivered>>
    PROVE  IInv'
<1> USE DEF OrderNext, readVars, ackSideVars, netVars
<1> DEFINE i == begin % QueueSize
<1>1. /\ RecvTypeOK /\ RingInv /\ AddingInv /\ OrderInv /\ AckInv
      /\ payload' = payload /\ delivered \in Seq(Data) /\ payload \in Seq(Data)
      /\ begin \in Nat \ {0}
  BY DEF IInv, TypeOK, sendVars, SendTypeOK, RecvTypeOK
<1>2. /\ i \in Slots /\ queue[i] = begin /\ begin <= Len(payload)
      /\ \A j \in Slots : j # i => queue[j] # begin
  BY <1>1, SlotOfBegin
<1>3. ordered' = Append(ordered, begin) /\ begin' = begin + 1
  BY <1>2
<1>4. /\ queue' \in [Slots -> Nat] /\ queue'[i] = NoPacket
      /\ \A j \in Slots : j # i => queue'[j] = queue[j]
  BY <1>1, <1>2 DEF RecvTypeOK, NoPacket
<1> HIDE DEF i
<1>5. ordered' \in Seq(Nat)
  BY <1>1, <1>3 DEF RecvTypeOK
<1>6. RecvTypeOK'
  BY <1>1, <1>4, <1>5 DEF RecvTypeOK, Slots
<1>7. RingInv'
  <2> SUFFICES ASSUME NEW j \in Slots, queue'[j] # NoPacket
               PROVE  /\ queue'[j] % QueueSize = j
                      /\ begin' <= queue'[j] /\ queue'[j] < begin' + QueueSize
                      /\ queue'[j] <= Len(payload')
    BY DEF RingInv, Slots
  <2>1. j # i /\ queue'[j] = queue[j] /\ queue[j] # begin /\ queue[j] \in Nat
    BY <1>1, <1>2, <1>4 DEF RecvTypeOK
  <2>2. /\ queue[j] % QueueSize = j /\ begin <= queue[j] /\ queue[j] < begin + QueueSize
        /\ queue[j] <= Len(payload)
    BY <1>1, <2>1 DEF RingInv
  <2> QED
    BY <1>1, <2>1, <2>2, RecvPathAssumption
<1>8. AddingInv'
  BY <1>1 DEF AddingInv
<1>9. OrderInv'
  <2>1. /\ Len(ordered') = Len(ordered) + 1 /\ ordered'[Len(ordered) + 1] = begin
        /\ \A k \in 1..Len(ordered) : ordered'[k] = ordered[k]
        /\ Len(ordered) \in Nat /\ Len(userData) \in Nat /\ Len(delivered) \in Nat
        /\ Len(payload) \in Nat
    BY <1>1, <1>3 DEF RecvTypeOK
  <2>2. Len(delivered) + Len(userData) + Len(ordered) = begin - 1
    BY <1>1 DEF OrderInv
  <2>3. /\ Len(delivered') + Len(userData') + Len(ordered') = begin' - 1
        /\ begin' - 1 <= Len(payload')
    BY <1>1, <1>2, <2>1, <2>2
  <2>4. \A k \in 1..Len(ordered') : ordered'[k] = Len(delivered') + Len(userData') + k
    <3> SUFFICES ASSUME NEW k \in 1..Len(ordered')
                 PROVE  ordered'[k] = Len(delivered) + Len(userData) + k
      OBVIOUS
    <3>1. CASE k \in 1..Len(ordered)
      BY <1>1, <2>1, <3>1 DEF OrderInv
    <3>2. CASE k = Len(ordered) + 1
      BY <1>1, <2>1, <2>2, <3>2
    <3> QED
      BY <2>1, <3>1, <3>2
  <2> QED
    BY <1>1, <2>3, <2>4 DEF OrderInv
<1>10. Got \subseteq Got'
  <2>1. Stored \subseteq Stored' \cup {begin}
    BY <1>2, <1>4 DEF Stored, Slots
  <2>2. 1..(begin - 1) \cup {begin} \subseteq 1..(begin' - 1)
    BY <1>1
  <2> QED
    BY <2>1, <2>2 DEF Got, GetLastAck
<1>11. selectiveAcks' \cup acks' \subseteq Got'
  BY <1>1, <1>10 DEF AckInv
<1>12. begin <= begin'
  BY <1>1
<1> QED
  BY <1>1, <1>6, <1>7, <1>8, <1>9, <1>10, <1>11, <1>12, ReceiverStep

\* A step of the receiver that touches neither ring nor window nor the lists.
LEMMA QuietStep ==
    ASSUME IInv, UNCHANGED <<sendVars, queue, begin, adding, ordered, userData, delivered>>,
           recvPC' = recvPC, RecvTypeOK', dataNet' = dataNet,
           selectiveAcks' \cup acks' \subseteq selectiveAcks \cup acks,
           \A m \in ackNet' : \/ m \in ackNet
                              \/ /\ m \in [ack : Nat, acks : SUBSET Nat]
                                 /\ m.acks \subseteq Got /\ m.ack <= begin - 1
    PROVE  IInv'
<1>1. /\ RecvTypeOK /\ RingInv /\ AddingInv /\ OrderInv /\ AckInv
      /\ payload' = payload /\ delivered \in Seq(Data)
  BY DEF IInv, TypeOK, sendVars
<1>2. Got' = Got
  BY DEF Got, GetLastAck, Stored, Slots
<1>3. RingInv'
  BY <1>1 DEF RingInv, Slots
<1>4. AddingInv'
  BY <1>1 DEF AddingInv
<1>5. OrderInv'
  BY <1>1 DEF OrderInv
<1>6. selectiveAcks' \cup acks' \subseteq Got'
  BY <1>1, <1>2 DEF AckInv
<1>7. begin <= begin'
  BY <1>1 DEF RecvTypeOK
<1> QED
  BY <1>1, <1>2, <1>3, <1>4, <1>5, <1>6, <1>7, ReceiverStep

\* The end of ProccessUnorderedPackets: the splice keeps the order.
LEMMA OrderDoneKeepsIInv ==
    ASSUME IInv, OrderDone, UNCHANGED <<sendVars, netVars, delivered>>
    PROVE  IInv'
<1> USE DEF OrderDone, readVars, ackSideVars, netVars
<1>1. /\ RecvTypeOK /\ RingInv /\ AddingInv /\ OrderInv /\ AckInv
      /\ payload' = payload /\ delivered \in Seq(Data) /\ payload \in Seq(Data)
  BY DEF IInv, TypeOK, sendVars, SendTypeOK
<1>2. /\ userData' \in Seq(Nat) /\ Len(userData') = Len(userData) + Len(ordered)
      /\ \A i \in 1..Len(userData') :
            userData'[i] = IF i <= Len(userData) THEN userData[i] ELSE ordered[i - Len(userData)]
      /\ Len(userData) \in Nat /\ Len(ordered) \in Nat /\ Len(delivered) \in Nat
      /\ ordered' \in Seq(Nat) /\ Len(ordered') = 0
  BY <1>1 DEF RecvTypeOK
<1>3. RecvTypeOK'
  BY <1>1, <1>2 DEF RecvTypeOK, Slots
<1>4. RingInv'
  BY <1>1 DEF RingInv, Slots
<1>5. AddingInv'
  BY <1>1 DEF AddingInv
<1>6. OrderInv'
  <2>1. \A i \in 1..Len(userData') : userData'[i] = Len(delivered) + i
    <3> SUFFICES ASSUME NEW i \in 1..Len(userData') PROVE userData'[i] = Len(delivered) + i
      OBVIOUS
    <3>1. CASE i <= Len(userData)
      <4>1. i \in 1..Len(userData) /\ userData'[i] = userData[i]
        BY <1>2, <3>1
      <4> QED
        BY <1>1, <4>1 DEF OrderInv
    <3>2. CASE i > Len(userData)
      <4>1. /\ i - Len(userData) \in 1..Len(ordered)
            /\ userData'[i] = ordered[i - Len(userData)]
        BY <1>2, <3>2
      <4>2. ordered[i - Len(userData)] = Len(delivered) + Len(userData) + (i - Len(userData))
        BY <1>1, <4>1 DEF OrderInv
      <4> QED
        BY <1>2, <4>1, <4>2
    <3> QED
      BY <1>2, <3>1, <3>2
  <2>2. Len(delivered') + Len(userData') + Len(ordered') = begin' - 1
    BY <1>1, <1>2 DEF OrderInv
  <2> QED
    BY <1>1, <1>2, <2>1, <2>2 DEF OrderInv
<1>7. Got' = Got
  BY DEF Got, GetLastAck, Stored, Slots
<1>8. selectiveAcks' \cup acks' \subseteq Got'
  BY <1>1, <1>7 DEF AckInv
<1>9. begin <= begin'
  BY <1>1 DEF RecvTypeOK
<1> QED
  BY <1>1, <1>3, <1>4, <1>5, <1>6, <1>7, <1>8, <1>9, ReceiverStep

\* Connection::Recv, first half.
LEMMA ReturnKeepsIInv ==
    ASSUME IInv, Return
    PROVE  IInv'
<1> USE DEF Return, RecvReturn, netVars, readVars, ackSideVars
<1>1. RecvTypeOK
  BY DEF IInv, TypeOK
<1>2. RecvTypeOK'
  BY <1>1 DEF RecvTypeOK, Slots
<1> QED
  BY <1>2, QuietStep

\* What Recv delivers is the next part of the numbered stream.
LEMMA DeliveredGrows ==
    ASSUME IInv, Recv
    PROVE  /\ delivered' \in Seq(Data)
           /\ Len(delivered') = Len(delivered) + Len(userData)
           /\ \A i \in 1..Len(delivered') : delivered'[i] = payload[i]
           /\ Len(delivered') <= Len(payload)
           /\ Len(delivered) \in Nat /\ Len(userData) \in Nat /\ Len(payload) \in Nat
<1> DEFINE more == [i \in 1..Len(userData) |-> payload[userData[i]]]
<1>1. /\ RecvTypeOK /\ OrderInv /\ delivered \in Seq(Data) /\ payload \in Seq(Data)
      /\ userData \in Seq(Nat) /\ ordered \in Seq(Nat)
  BY DEF IInv, TypeOK, SendTypeOK, RecvTypeOK
<1>2. /\ Len(delivered) \in Nat /\ Len(userData) \in Nat /\ Len(payload) \in Nat
      /\ Len(ordered) \in Nat /\ begin \in Nat
  BY <1>1 DEF RecvTypeOK
<1>3. Len(delivered) + Len(userData) <= Len(payload)
  BY <1>1, <1>2 DEF OrderInv
<1>4. \A i \in 1..Len(userData) :
         /\ userData[i] = Len(delivered) + i
         /\ Len(delivered) + i \in 1..Len(payload)
         /\ payload[Len(delivered) + i] \in Data
  BY <1>1, <1>2, <1>3 DEF OrderInv
<1>5. /\ more \in Seq(Data) /\ Len(more) = Len(userData)
      /\ \A i \in 1..Len(userData) : more[i] = payload[Len(delivered) + i]
  BY <1>2, <1>4
<1>6. delivered' = delivered \o more
  BY DEF Recv
<1> HIDE DEF more
<1>7. /\ delivered' \in Seq(Data) /\ Len(delivered') = Len(delivered) + Len(userData)
      /\ \A i \in 1..Len(delivered') :
            delivered'[i] = IF i <= Len(delivered) THEN delivered[i] ELSE more[i - Len(delivered)]
  <2>1. more \in Seq(Data) /\ delivered \in Seq(Data)
    BY <1>1, <1>5
  <2>2. /\ delivered \o more \in Seq(Data)
        /\ Len(delivered \o more) = Len(delivered) + Len(more)
        /\ \A i \in 1..(Len(delivered) + Len(more)) :
              (delivered \o more)[i]
                  = IF i <= Len(delivered) THEN delivered[i] ELSE more[i - Len(delivered)]
    BY <2>1, Concatenation
  <2>3. Len(more) = Len(userData)
    BY <1>5
  <2> QED
    BY <1>6, <2>2, <2>3, Zenon
<1>8. \A i \in 1..Len(delivered') : delivered'[i] = payload[i]
  <2> SUFFICES ASSUME NEW i \in 1..Len(delivered') PROVE delivered'[i] = payload[i]
    OBVIOUS
  <2>1. CASE i <= Len(delivered)
    <3>1. i \in 1..Len(delivered) /\ delivered'[i] = delivered[i]
      BY <1>2, <1>7, <2>1
    <3> QED
      BY <1>1, <3>1 DEF OrderInv
  <2>2. CASE i > Len(delivered)
    <3>1. i - Len(delivered) \in 1..Len(userData) /\ delivered'[i] = more[i - Len(delivered)]
      BY <1>2, <1>7, <2>2
    <3>2. more[i - Len(delivered)] = payload[Len(delivered) + (i - Len(delivered))]
      BY <1>5, <3>1
    <3>3. Len(delivered) + (i - Len(delivered)) = i
      BY <1>2
    <3> QED
      BY <3>1, <3>2, <3>3
  <2> QED
    BY <1>2, <1>7, <2>1, <2>2
<1> QED
  BY <1>2, <1>3, <1>7, <1>8

\* Connection::Recv, second half.
LEMMA RecvKeepsIInv ==
    ASSUME IInv, Recv
    PROVE  IInv'
<1> USE DEF Recv, RecvTake, netVars, readVars, ackSideVars
<1>1. /\ RecvTypeOK /\ RingInv /\ AddingInv /\ OrderInv /\ AckInv
      /\ payload' = payload
  BY DEF IInv, TypeOK, sendVars
<1>2. /\ delivered' \in Seq(Data)
      /\ Len(delivered') = Len(delivered) + Len(userData)
      /\ \A i \in 1..Len(delivered') : delivered'[i] = payload[i]
      /\ Len(delivered) \in Nat /\ Len(userData) \in Nat
      /\ userData' = <<>> /\ Len(userData') = 0 /\ ordered' = ordered
  BY DeliveredGrows
<1>3. RecvTypeOK'
  BY <1>1, <1>2 DEF RecvTypeOK, Slots
<1>4. RingInv'
  BY <1>1 DEF RingInv, Slots
<1>5. AddingInv'
  BY <1>1 DEF AddingInv
<1>6. OrderInv'
  <2>1. Len(ordered) \in Nat /\ begin \in Nat
    BY <1>1 DEF RecvTypeOK
  <2>2. Len(delivered') + Len(userData') + Len(ordered') = begin' - 1
    BY <1>1, <1>2, <2>1 DEF OrderInv
  <2>3. \A i \in 1..Len(ordered') : ordered'[i] = Len(delivered') + Len(userData') + i
    BY <1>1, <1>2, <2>1 DEF OrderInv
  <2> QED
    BY <1>1, <1>2, <2>2, <2>3 DEF OrderInv
<1>7. Got' = Got
  BY DEF Got, GetLastAck, Stored, Slots
<1>8. selectiveAcks' \cup acks' \subseteq Got'
  BY <1>1, <1>7 DEF AckInv
<1>9. begin <= begin'
  BY <1>1 DEF RecvTypeOK
<1> QED
  BY <1>1, <1>2, <1>3, <1>4, <1>5, <1>6, <1>7, <1>8, <1>9, ReceiverStep

\* GetSelectiveAcks, and DataState::SendPackets giving acks up.
LEMMA AckThreadKeepsIInv ==
    ASSUME IInv, AckThread
    PROVE  IInv'
<1> USE DEF AckThread, netVars, ackSideVars, queueSideVars, readVars
<1>1. RecvTypeOK
  BY DEF IInv, TypeOK
<1>2. CASE GetSelectiveAcks
  <2>1. RecvTypeOK'
    BY <1>1, <1>2 DEF GetSelectiveAcks, GetLastAck, RecvTypeOK, Slots
  <2> QED
    BY <1>2, <2>1, QuietStep DEF GetSelectiveAcks
<1>3. CASE DropAcks
  <2>1. RecvTypeOK'
    BY <1>1, <1>3 DEF DropAcks, RecvTypeOK, Slots
  <2> QED
    BY <1>3, <2>1, QuietStep DEF DropAcks
<1> QED
  BY <1>2, <1>3

\* A Sack carries acks of packets the receiver has.
LEMMA SendSackKeepsIInv ==
    ASSUME IInv, NEW chunk \in SUBSET acks, SendSack(chunk)
    PROVE  IInv'
<1> USE DEF SendSack, BuildSack, queueSideVars, readVars
<1>1. RecvTypeOK /\ AckInv
  BY DEF IInv, TypeOK
<1>2. RecvTypeOK'
  BY <1>1 DEF RecvTypeOK, Slots
<1>3. \A m \in ackNet' : m \in ackNet \/ m = Sack(chunk)
  BY DEF Carry
<1>4. /\ Sack(chunk) \in [ack : Nat, acks : SUBSET Nat]
      /\ Sack(chunk).acks \subseteq Got /\ Sack(chunk).ack <= begin - 1
  <2>1. chunk \subseteq Nat /\ chunk \subseteq Got /\ begin - 1 \in Nat
    BY <1>1 DEF RecvTypeOK, AckInv
  <2> DEFINE A == {a \in chunk : a >= lastAckRead}
  <2>2. A \in SUBSET Nat /\ A \subseteq Got
    BY <2>1
  <2>3. Sack(chunk) = [ack |-> begin - 1, acks |-> A]
    BY DEF Sack, Fresh, GetLastAck
  <2> HIDE DEF A
  <2>4. Sack(chunk).acks = A /\ Sack(chunk).ack = begin - 1
    BY <2>3
  <2> QED
    BY <2>1, <2>2, <2>3, <2>4
<1> QED
  BY <1>2, <1>3, <1>4, QuietStep

-----------------------------------------------------------------------------
(* The invariant holds in every reachable state. *)

\* A stage of the SendThread.
LEMMA SendThreadKeepsIInv ==
    ASSUME IInv, SendThread
    PROVE  IInv'
  BY SendPacketsKeepsIInv, ProcessAcksKeepsIInv, GetPacketsToSendKeepsIInv,
     TakeSentKeepsIInv, AddQueueKeepsIInv DEF SendThread

\* A step of the RecvThread.
LEMMA RecvThreadKeepsIInv ==
    ASSUME IInv, RecvThread
    PROVE  IInv'
  BY AddPacketStoreKeepsIInv, OrderNextKeepsIInv, OrderDoneKeepsIInv DEF RecvThread

\* The ReadThreads only move buffers.
LEMMA ReadThreadKeepsIInv ==
    ASSUME IInv, NEW t \in ReadThreads, ReadThread(t)
    PROVE  IInv'
<1>1. RecvTypeOK /\ freeRecv \in Nat /\ received \in Nat /\ local \in [ReadThreads -> Nat]
  BY DEF IInv, TypeOK, RecvTypeOK
<1>2. /\ UNCHANGED <<queue, begin, adding, ordered, userData, held, recvPC, selectiveAcks, ackSideVars>>
      /\ UNCHANGED <<sendVars, netVars, delivered>>
  BY DEF ReadThread, Refill, ReadSocket
<1>3. freeRecv' \in Nat /\ received' \in Nat /\ local' \in [ReadThreads -> Nat]
  <2>1. CASE Refill(t)
    <3> DEFINE n == IF freeRecv < ReadBatch THEN freeRecv ELSE ReadBatch
    <3>1. n \in Nat /\ n <= freeRecv
      BY <1>1, RecvPathAssumption
    <3>2. /\ local' = [local EXCEPT ![t] = @ + n]
          /\ freeRecv' = freeRecv - n /\ received' = received
      BY <2>1 DEF Refill
    <3> HIDE DEF n
    <3>3. local[t] + n \in Nat
      BY <1>1, <3>1
    <3> QED
      BY <1>1, <3>1, <3>2, <3>3
  <2>2. CASE \E n \in 1..(Cardinality(dataNet) - received) : ReadSocket(t, n)
    <3>1. dataNet \subseteq 1..Len(payload) /\ Len(payload) \in Nat
      BY DEF IInv, TypeOK, SendTypeOK
    <3>2. Cardinality(dataNet) \in Nat
      BY <3>1, CountIsNat
    <3>3. PICK n \in 1..(Cardinality(dataNet) - received) : ReadSocket(t, n)
      BY <2>2
    <3>4. n \in Nat
      BY <1>1, <3>2
    <3>5. /\ freeRecv' = freeRecv /\ received' = received + n /\ n <= local[t]
          /\ local' = [local EXCEPT ![t] = @ - n]
      BY <3>3 DEF ReadSocket
    <3>6. local[t] - n \in Nat
      BY <1>1, <3>4, <3>5
    <3> QED
      BY <1>1, <3>4, <3>5, <3>6
  <2> QED
    BY <2>1, <2>2 DEF ReadThread
<1>4. RecvTypeOK'
  BY <1>1, <1>2, <1>3 DEF RecvTypeOK, ackSideVars
<1> QED
  BY <1>2, <1>4, QuietStep DEF ackSideVars, netVars

\* A step that changes nothing.
LEMMA StutterKeepsIInv ==
    ASSUME IInv, UNCHANGED vars
    PROVE  IInv'
<1> USE DEF vars, netVars
<1>1. RecvTypeOK
  BY DEF IInv, TypeOK
<1>2. RecvTypeOK' /\ selectiveAcks' = selectiveAcks /\ acks' = acks
  BY <1>1 DEF RecvTypeOK, Slots, recvVars, queueSideVars, readVars, ackSideVars
<1> QED
  BY <1>2, QuietStep DEF recvVars, queueSideVars

\* Every step of either endpoint, either user or the network.
LEMMA NextKeepsIInv == IInv /\ [Next]_vars => IInv'
<1> SUFFICES ASSUME IInv, [Next]_vars PROVE IInv'
  OBVIOUS
<1>1. ASSUME NEW d \in Data, Send(d) PROVE IInv'
  BY <1>1, SendKeepsIInv
<1>2. ASSUME NEW s, WriteData(s) PROVE IInv'
  BY <1>2, WriteDataKeepsIInv
<1>3. ASSUME NEW s \in dataNet, RecvData(s) PROVE IInv'
  BY <1>3, RecvDataKeepsIInv
<1>4. ASSUME NEW chunk \in SUBSET acks, SendSack(chunk) PROVE IInv'
  BY <1>4, SendSackKeepsIInv
<1>5. ASSUME NEW m \in ackNet, RecvSack(m) PROVE IInv'
  BY <1>5, RecvSackKeepsIInv
<1>6. ASSUME NEW t \in ReadThreads, ReadThread(t) PROVE IInv'
  BY <1>6, ReadThreadKeepsIInv
<1> QED
  BY <1>1, <1>2, <1>3, <1>4, <1>5, <1>6, SendThreadKeepsIInv, RecvThreadKeepsIInv,
     ReturnKeepsIInv, RecvKeepsIInv, AckThreadKeepsIInv, StutterKeepsIInv DEF Next

\* The inductive invariant holds for every window, buffer count and payload set.
THEOREM Invariance == Spec => []IInv
<1> QED
  BY InitIInv, NextKeepsIInv, PTL DEF Spec

\* Type correctness of both endpoints and the network.
THEOREM TypeCorrect == Spec => []TypeOK
<1>1. IInv => TypeOK
  BY DEF IInv
<1> QED
  BY <1>1, Invariance, PTL

\* Type correctness of the receiving half: the ring's slots and the RecvThread's stage.
THEOREM RecvTypesCorrect == Spec => []RecvTypeOK
<1>1. IInv => RecvTypeOK
  BY DEF IInv, TypeOK
<1> QED
  BY <1>1, Invariance, PTL

\* Whatever UDP loses, repeats or reorders and however the four threads
\* interleave, InFlightQueue gives a buffer back to the sending user only when
\* RecvQueue has its packet.
THEOREM ReleaseSafety == Spec => []ReleasedOnlyIfReceived
<1>1. IInv => ReleasedOnlyIfReceived
  BY DEF IInv
<1> QED
  BY <1>1, Invariance, PTL

\* RecvQueue::AddPacket takes only a true duplicate for one.
THEOREM DuplicatesExact == Spec => []DuplicateIsExact
<1>1. IInv => DuplicateIsExact
  BY SlotTakenBySame DEF IInv, TypeOK, DuplicateIsExact
<1> QED
  BY <1>1, Invariance, PTL

\* Every selective ack the receiver holds is of a packet it has.
THEOREM AcksSound == Spec => []AcksOnlyReceived
<1>1. IInv => AcksOnlyReceived
  BY DEF IInv, AckInv, AcksOnlyReceived
<1> QED
  BY <1>1, Invariance, PTL

-----------------------------------------------------------------------------
(* The connection implements a reliable stream. *)

\* What the sending user gave to Send, numbered or not.
SentStream == payload \o sendUserData

\* A step of Send appends to the stream.
LEMMA SendAppends ==
    ASSUME IInv, NEW d \in Data, Send(d)
    PROVE  Stream!Send
<1>1. payload \in Seq(Data) /\ sendUserData \in Seq(Data)
  BY DEF IInv, TypeOK, SendTypeOK
<1>2. payload' = payload /\ sendUserData' = Append(sendUserData, d) /\ delivered' = delivered
  BY DEF Send, UserSend
<1>3. \A p, u \in Seq(Data) : p \o Append(u, d) = Append(p \o u, d)
  OBVIOUS
<1>4. payload' \o sendUserData' = Append(payload \o sendUserData, d)
  BY <1>1, <1>2, <1>3
<1> QED
  BY <1>2, <1>4 DEF Stream!Send

\* Numbering packets leaves the stream as it is.
LEMMA SendThreadKeepsStream ==
    ASSUME IInv, SendThread
    PROVE  SentStream' = SentStream /\ delivered' = delivered
<1>1. payload \in Seq(Data) /\ sendUserData \in Seq(Data)
  BY DEF IInv, TypeOK, SendTypeOK
<1>2. ASSUME NEW timedOut, SendPackets(timedOut) PROVE SentStream' = SentStream
  <2>1. payload' = payload \o sendUserData /\ sendUserData' = <<>>
    BY <1>2 DEF SendPackets
  <2>2. \A p, u \in Seq(Data) : (p \o u) \o <<>> = p \o u
    OBVIOUS
  <2> QED
    BY <1>1, <2>1, <2>2 DEF SentStream
<1>3. ASSUME ProcessAcks \/ (\E size : GetPacketsToSend(size)) \/ TakeSent \/ AddQueue
      PROVE  SentStream' = SentStream
  BY <1>3 DEF ProcessAcks, GetPacketsToSend, TakeSent, AddQueue, SentStream
<1> QED
  BY <1>2, <1>3 DEF SendThread

\* A step of Recv delivers a longer prefix of the stream.
LEMMA RecvDelivers ==
    ASSUME IInv, Recv
    PROVE  Stream!Deliver
<1> DEFINE n == Len(delivered')
<1>1. /\ payload \in Seq(Data) /\ sendUserData \in Seq(Data) /\ userData # <<>>
      /\ userData \in Seq(Nat) /\ payload' = payload /\ sendUserData' = sendUserData
  BY DEF IInv, TypeOK, SendTypeOK, RecvTypeOK, Recv, RecvTake, sendVars
<1>2. /\ delivered' \in Seq(Data) /\ n = Len(delivered) + Len(userData)
      /\ \A i \in 1..n : delivered'[i] = payload[i]
      /\ n <= Len(payload)
      /\ Len(delivered) \in Nat /\ Len(userData) \in Nat /\ Len(payload) \in Nat
  BY DeliveredGrows
<1>3. Len(userData) > 0
  BY <1>1
<1>4. /\ SentStream \in Seq(Data) /\ Len(SentStream) = Len(payload) + Len(sendUserData)
      /\ Len(sendUserData) \in Nat
      /\ \A i \in 1..Len(payload) : SentStream[i] = payload[i]
  BY <1>1, Numbering DEF SentStream
<1> HIDE DEF SentStream
<1>5. n \in (Len(delivered) + 1)..Len(SentStream)
  BY <1>2, <1>3, <1>4
<1>6. /\ SubSeq(SentStream, 1, n) \in Seq(Data) /\ Len(SubSeq(SentStream, 1, n)) = n
      /\ \A i \in 1..n : SubSeq(SentStream, 1, n)[i] = SentStream[i]
  BY <1>2, <1>4, <1>5
<1>7. \A i \in 1..n : delivered'[i] = SubSeq(SentStream, 1, n)[i]
  BY <1>2, <1>4, <1>6
<1>8. delivered' = SubSeq(SentStream, 1, n)
  BY <1>2, <1>6, <1>7, SeqEqual
<1> QED
  BY <1>1, <1>5, <1>8 DEF Stream!Deliver, SentStream

\* Every step of the connection is a step of the stream or invisible to it.
LEMMA StepImplementsStream ==
    IInv /\ [Next]_vars => [Stream!Next]_<<payload \o sendUserData, delivered>>
<1> SUFFICES ASSUME IInv, [Next]_vars
             PROVE  Stream!Next \/ (SentStream' = SentStream /\ delivered' = delivered)
  BY DEF SentStream
<1>1. ASSUME NEW d \in Data, Send(d) PROVE Stream!Next
  BY <1>1, SendAppends DEF Stream!Next
<1>2. CASE SendThread
  BY <1>2, SendThreadKeepsStream
<1>3. CASE Recv
  BY <1>3, RecvDelivers DEF Stream!Next
<1>4. ASSUME UNCHANGED <<payload, sendUserData>> PROVE SentStream' = SentStream
  BY <1>4 DEF SentStream
<1>5. ASSUME NEW s, WriteData(s) PROVE UNCHANGED <<payload, sendUserData, delivered>>
  BY <1>5 DEF WriteData, Write
<1>6. ASSUME NEW m, RecvSack(m) PROVE UNCHANGED <<payload, sendUserData, delivered>>
  BY <1>6 DEF RecvSack, OnSack
<1>7. ASSUME \/ \E s : RecvData(s)
             \/ \E t \in ReadThreads : ReadThread(t)
             \/ RecvThread
             \/ Return
             \/ AckThread
             \/ \E chunk : SendSack(chunk)
             \/ UNCHANGED vars
      PROVE  UNCHANGED <<payload, sendUserData, delivered>>
  BY <1>7 DEF RecvData, ReadThread, RecvThread, Return, AckThread, SendSack, vars, sendVars
<1> QED
  BY <1>1, <1>2, <1>3, <1>4, <1>5, <1>6, <1>7 DEF Next

\* A connection between two endpoints implements a reliable stream: Recv hands
\* out what Send was given, in order, nothing skipped and nothing twice.
THEOREM StreamRefinement == Spec => ImplementsStream
<1>1. Init => Stream!Init
  <2>1. \A p, u : p = <<>> /\ u = <<>> => p \o u = <<>>
    OBVIOUS
  <2> QED
    BY <2>1 DEF Init, SendInit, Stream!Init
<1> QED
  BY <1>1, Invariance, StepImplementsStream, PTL DEF Spec, ImplementsStream, Stream!Spec
=============================================================================
