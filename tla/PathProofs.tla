------------------------------ MODULE PathProofs ------------------------------
(***************************************************************************)
(* Proofs about the two halves of a connection, each by itself.  The       *)
(* sending half against the weakest peer, for every number of buffers and  *)
(* packets: no ack is forgotten, no buffer is lost, duplicated or released *)
(* early.  The receiving half against the weakest network, for every ring  *)
(* size, number of buffers and length of the stream: the packets come out  *)
(* in order, no receive buffer is lost, and enough of them cannot all be   *)
(* kept from a ReadThread.                                                 *)
(***************************************************************************)
EXTENDS SendPathPeer, RecvPathNet, FiniteSetTheorems, SequenceTheorems, TLAPS

-----------------------------------------------------------------------------
(* The sending half: the inductive invariant. *)

\* A packet is in one container at a time: a resend moves it, it is never copied.
OnePlace ==
    /\ needToSend \cap (resendPackets \cup udpSendQueue \cup udpSendFree \cup takenSent \cup inFlight) = {}
    /\ resendPackets \cap (udpSendQueue \cup udpSendFree \cup takenSent \cup inFlight) = {}
    /\ udpSendQueue \cap (udpSendFree \cup takenSent \cup inFlight) = {}
    /\ udpSendFree \cap (takenSent \cup inFlight) = {}
    /\ takenSent \cap inFlight = {}

\* The SendThread's locals are empty outside the stage that uses them.
Stages ==
    /\ sendPC # "AddQueue" => takenSent = {}
    /\ sendPC \notin {"ProcessAcks", "AddQueue"} => takenAcks = {}

\* An ack that reached InFlightQueue is of a packet the peer has.
AcksSound ==
    /\ got \subseteq Nat \ {0}
    /\ owed \subseteq got
    /\ receivedAcks \cup takenAcks \subseteq got
    /\ 1..lastAck \subseteq got

SInv ==
    /\ SendTypeOK
    /\ OnePlace
    /\ Stages
    /\ AcksSound
    /\ SendBuffersConserved
    /\ ReleasedOnlyIfGot

-----------------------------------------------------------------------------
(* Counting. *)

\* The sets of packets can be counted.
LEMMA Countable ==
    ASSUME NEW n \in Nat, NEW S, S \subseteq 1..n
    PROVE  IsFiniteSet(S) /\ Cardinality(S) \in Nat
<1>1. IsFiniteSet(1..n)
  BY FS_Interval
<1>2. IsFiniteSet(S)
  BY <1>1, FS_Subset
<1> QED
  BY <1>2, FS_CardinalityType

\* Disjoint sets add up.
LEMMA Joining ==
    ASSUME NEW B, NEW T, IsFiniteSet(B), IsFiniteSet(T), B \cap T = {}
    PROVE  Cardinality(B \cup T) = Cardinality(B) + Cardinality(T)
<1>1. Cardinality(B \cup T) = Cardinality(B) + Cardinality(T) - Cardinality(B \cap T)
  BY FS_Union
<1>2. Cardinality(B \cap T) = 0
  BY FS_EmptySet
<1>3. Cardinality(B) \in Nat /\ Cardinality(T) \in Nat
  BY FS_CardinalityType
<1> QED
  BY <1>1, <1>2, <1>3

\* A part taken out of a set.
LEMMA Leaving ==
    ASSUME NEW A, IsFiniteSet(A), NEW T \in SUBSET A
    PROVE  /\ IsFiniteSet(T) /\ Cardinality(T) \in Nat
           /\ Cardinality(A \ T) = Cardinality(A) - Cardinality(T)
<1>1. IsFiniteSet(T) /\ Cardinality(T) \in Nat
  BY FS_Subset, FS_CardinalityType
<1>2. A \cap T = T
  OBVIOUS
<1>3. Cardinality(A \ T) = Cardinality(A) - Cardinality(T)
  BY <1>2, FS_Difference
<1> QED
  BY <1>1, <1>3

\* The containers hold numbered packets and can be counted.
LEMMA Places ==
    ASSUME SendTypeOK
    PROVE  /\ Len(payload) \in Nat /\ Len(sendUserData) \in Nat /\ freeUser \in Nat
           /\ needToSend \subseteq 1..Len(payload) /\ Cardinality(needToSend) \in Nat
           /\ resendPackets \subseteq 1..Len(payload) /\ Cardinality(resendPackets) \in Nat
           /\ udpSendQueue \subseteq 1..Len(payload) /\ Cardinality(udpSendQueue) \in Nat
           /\ udpSendFree \subseteq 1..Len(payload) /\ Cardinality(udpSendFree) \in Nat
           /\ takenSent \subseteq 1..Len(payload) /\ Cardinality(takenSent) \in Nat
           /\ inFlight \subseteq 1..Len(payload) /\ Cardinality(inFlight) \in Nat
<1>1. Len(payload) \in Nat /\ Len(sendUserData) \in Nat /\ freeUser \in Nat
  BY DEF SendTypeOK
<1>2. /\ needToSend \subseteq 1..Len(payload) /\ resendPackets \subseteq 1..Len(payload)
      /\ udpSendQueue \subseteq 1..Len(payload) /\ udpSendFree \subseteq 1..Len(payload)
      /\ takenSent \subseteq 1..Len(payload) /\ inFlight \subseteq 1..Len(payload)
  BY DEF SendTypeOK, Unacked
<1> QED
  BY <1>1, <1>2, Countable

\* The numbers SendBuffersConserved adds up.
LEMMA Counts ==
    ASSUME SendTypeOK
    PROVE  /\ Len(sendUserData) \in Nat /\ freeUser \in Nat
           /\ Cardinality(needToSend) \in Nat /\ Cardinality(resendPackets) \in Nat
           /\ Cardinality(udpSendQueue) \in Nat /\ Cardinality(udpSendFree) \in Nat
           /\ Cardinality(takenSent) \in Nat /\ Cardinality(inFlight) \in Nat
  BY Places, Zenon

\* The containers are finite.
LEMMA FinitePlaces ==
    ASSUME SendTypeOK
    PROVE  /\ IsFiniteSet(needToSend) /\ IsFiniteSet(resendPackets)
           /\ IsFiniteSet(udpSendQueue) /\ IsFiniteSet(udpSendFree)
           /\ IsFiniteSet(takenSent) /\ IsFiniteSet(inFlight)
  BY Places, Countable

-----------------------------------------------------------------------------
(* The initial states. *)

LEMMA InitSInv == PeerInit => SInv
<1> SUFFICES ASSUME PeerInit PROVE SInv
  OBVIOUS
<1> USE SendPathAssumption DEF PeerInit, SendInit
<1>1. SendTypeOK
  BY DEF SendTypeOK, Unacked, SendPCs
<1>2. OnePlace /\ Stages /\ AcksSound
  BY DEF OnePlace, Stages, AcksSound
<1>3. SendBuffersConserved
  BY FS_EmptySet DEF SendBuffersConserved
<1>4. ReleasedOnlyIfGot
  BY DEF ReleasedOnlyIfGot, Released
<1> QED
  BY <1>1, <1>2, <1>3, <1>4 DEF SInv

-----------------------------------------------------------------------------
(* Every step keeps the invariant. *)

\* Connection::Send.
LEMMA UserSendKeepsSInv ==
    ASSUME SInv, NEW d \in Data, UserSend(d), UNCHANGED <<got, owed>>
    PROVE  SInv'
<1> USE DEF UserSend, queueVars, ackVars
<1>1. SendTypeOK /\ SendBuffersConserved
  BY DEF SInv
<1>2. sendUserData' \in Seq(Data) /\ Len(sendUserData') = Len(sendUserData) + 1
  BY <1>1 DEF SendTypeOK
<1>3. SendTypeOK'
  <2>1. freeUser' \in Nat
    BY <1>1 DEF SendTypeOK
  <2>2. Len(payload) + Len(sendUserData') <= MaxPackets
    BY <1>1, <1>2, Places, SendPathAssumption
  <2> QED
    BY <1>1, <1>2, <2>1, <2>2 DEF SendTypeOK, Unacked
<1>4. OnePlace' /\ Stages' /\ AcksSound'
  BY DEF SInv, OnePlace, Stages, AcksSound
<1>5. SendBuffersConserved'
  BY <1>1, <1>2, Places DEF SendBuffersConserved
<1>6. ReleasedOnlyIfGot'
  BY DEF SInv, ReleasedOnlyIfGot, Released, Unacked
<1> QED
  BY <1>3, <1>4, <1>5, <1>6 DEF SInv

\* DataState::SendPackets: timeouts move packets, numbering adds new ones.
LEMMA SendPacketsKeepsSInv ==
    ASSUME SInv, NEW timedOut, SendPackets(timedOut), UNCHANGED <<got, owed>>
    PROVE  SInv'
<1> USE DEF SendPackets, NewNumbers
<1> DEFINE n == Len(payload) + Len(sendUserData)
           new == (Len(payload) + 1)..n
<1>1. SendTypeOK /\ SendBuffersConserved /\ OnePlace /\ AcksSound /\ Stages
  BY DEF SInv
<1>2. /\ payload' \in Seq(Data) /\ sendUserData' \in Seq(Data)
      /\ Len(payload') = n /\ Len(sendUserData') = 0 /\ n \in Nat
      /\ Len(payload) \in Nat /\ Len(sendUserData) \in Nat
  BY <1>1 DEF SendTypeOK
<1>3. /\ new \cap (1..Len(payload)) = {} /\ new \subseteq 1..n
      /\ 1..Len(payload) \subseteq 1..n /\ 1..n = (1..Len(payload)) \cup new
  BY <1>2
<1>4. /\ needToSend' = needToSend \cup new /\ inFlight' = inFlight \ timedOut
      /\ resendPackets' = resendPackets \cup timedOut /\ timedOut \subseteq inFlight
  OBVIOUS
<1> HIDE DEF n, new
<1>5. SendTypeOK'
  <2>1. Unacked' \subseteq 1..n
    BY <1>1, <1>3, <1>4, Places DEF Unacked
  <2> QED
    BY <1>1, <1>2, <2>1 DEF SendTypeOK, SendPCs, n
<1>6. OnePlace'
  BY <1>1, <1>3, <1>4, Places DEF OnePlace
<1>7. Stages' /\ AcksSound'
  BY <1>1 DEF Stages, AcksSound
<1>8. SendBuffersConserved'
  <2>1. /\ Cardinality(inFlight \ timedOut) = Cardinality(inFlight) - Cardinality(timedOut)
        /\ Cardinality(resendPackets \cup timedOut) = Cardinality(resendPackets) + Cardinality(timedOut)
        /\ Cardinality(timedOut) \in Nat
    <3>1. timedOut \in SUBSET inFlight /\ resendPackets \cap timedOut = {}
      BY <1>1, <1>4 DEF OnePlace
    <3>2. IsFiniteSet(inFlight) /\ IsFiniteSet(resendPackets)
      BY <1>1, FinitePlaces
    <3>3. /\ IsFiniteSet(timedOut) /\ Cardinality(timedOut) \in Nat
          /\ Cardinality(inFlight \ timedOut) = Cardinality(inFlight) - Cardinality(timedOut)
      BY <3>1, <3>2, Leaving
    <3> QED
      BY <3>1, <3>2, <3>3, Joining
  <2>2. Cardinality(needToSend \cup new) = Cardinality(needToSend) + Len(sendUserData)
    <3>1. /\ IsFiniteSet(needToSend) /\ IsFiniteSet(new)
          /\ Cardinality(needToSend) \in Nat /\ Cardinality(new) \in Nat
      BY <1>1, <1>2, <1>3, Places, Countable
    <3>2. needToSend \cap new = {}
      BY <1>1, <1>3, Places
    <3>3. Cardinality(new) = Len(sendUserData)
      <4>1. Len(payload) + 1 \in Int /\ n \in Int
        BY <1>2
      <4>2. Cardinality(new) = IF Len(payload) + 1 > n THEN 0 ELSE n - (Len(payload) + 1) + 1
        BY <4>1, FS_Interval DEF new
      <4> QED
        BY <1>2, <4>2 DEF n
    <3> QED
      BY <3>1, <3>2, <3>3, Joining
  <2>3. /\ Cardinality(needToSend') = Cardinality(needToSend) + Len(sendUserData)
        /\ Cardinality(resendPackets') = Cardinality(resendPackets) + Cardinality(timedOut)
        /\ Cardinality(inFlight') = Cardinality(inFlight) - Cardinality(timedOut)
    BY <1>4, <2>1, <2>2
  <2>4. UNCHANGED <<freeUser, udpSendQueue, udpSendFree, takenSent>>
    OBVIOUS
  <2> QED
    BY <1>1, <1>2, <2>1, <2>3, <2>4, Places, SMTT(30) DEF SendBuffersConserved
<1>9. ReleasedOnlyIfGot'
  <2>1. Released' \subseteq Released
    BY <1>2, <1>3, <1>4 DEF Released, Unacked
  <2> QED
    BY <2>1 DEF SInv, ReleasedOnlyIfGot
<1> QED
  BY <1>5, <1>6, <1>7, <1>8, <1>9 DEF SInv

\* InFlightQueue::ProcessAcks: what it frees is acked, and the peer has it.
LEMMA ProcessAcksKeepsSInv ==
    ASSUME SInv, ProcessAcks, UNCHANGED <<got, owed>>
    PROVE  SInv'
<1>1. SendTypeOK /\ SendBuffersConserved /\ OnePlace /\ AcksSound /\ Stages /\ Released \subseteq got
  BY DEF SInv, ReleasedOnlyIfGot
<1>2. /\ inFlight' = inFlight \ Acked /\ freeUser' = freeUser + Cardinality(Acked)
      /\ receivedAcks' = receivedAcks \cup UnusedAcks /\ takenAcks' = {}
      /\ sendPC' = "GetPacketsToSend" /\ sendPC = "ProcessAcks"
      /\ UNCHANGED <<sendUserData, payload, needToSend, resendPackets,
                     udpSendQueue, udpSendFree, takenSent, lastAck>>
  BY DEF ProcessAcks
<1>3. Acked \in SUBSET inFlight /\ UnusedAcks \subseteq takenAcks
  BY DEF Acked, UnusedAcks
<1>4. /\ Cardinality(inFlight \ Acked) = Cardinality(inFlight) - Cardinality(Acked)
      /\ Cardinality(Acked) \in Nat
  <2>1. IsFiniteSet(inFlight)
    BY <1>1, FinitePlaces
  <2> QED
    BY <1>3, <2>1, Leaving
<1>5. SendTypeOK'
  <2>1. Unacked' \subseteq Unacked
    BY <1>2 DEF Unacked
  <2>2. freeUser' \in Nat /\ receivedAcks' \subseteq Nat
    BY <1>1, <1>2, <1>3, <1>4 DEF SendTypeOK
  <2> QED
    BY <1>1, <1>2, <2>1, <2>2 DEF SendTypeOK, SendPCs
<1>6. OnePlace' /\ Stages'
  BY <1>1, <1>2 DEF OnePlace, Stages
<1>7. AcksSound'
  BY <1>1, <1>2, <1>3 DEF AcksSound
<1>8. SendBuffersConserved'
  <2>1. /\ Cardinality(inFlight') = Cardinality(inFlight) - Cardinality(Acked)
        /\ freeUser' = freeUser + Cardinality(Acked)
    BY <1>2, <1>4
  <2>2. UNCHANGED <<sendUserData, needToSend, resendPackets, udpSendQueue, udpSendFree, takenSent>>
    BY <1>2
  <2>3. (freeUser + Cardinality(Acked)) + Len(sendUserData)
            + Cardinality(needToSend) + Cardinality(resendPackets)
            + Cardinality(udpSendQueue) + Cardinality(udpSendFree)
            + Cardinality(takenSent) + (Cardinality(inFlight) - Cardinality(Acked)) = SendBuffers
    <3> DEFINE f == freeUser
               u == Len(sendUserData)
               n == Cardinality(needToSend)
               r == Cardinality(resendPackets)
               q == Cardinality(udpSendQueue)
               e == Cardinality(udpSendFree)
               k == Cardinality(takenSent)
               i == Cardinality(inFlight)
               t == Cardinality(Acked)
    <3>1. /\ f \in Nat /\ u \in Nat /\ n \in Nat /\ r \in Nat /\ q \in Nat
          /\ e \in Nat /\ k \in Nat /\ i \in Nat /\ t \in Nat
      BY <1>1, <1>4, Counts
    <3>2. f + u + n + r + q + e + k + i = SendBuffers
      BY <1>1 DEF SendBuffersConserved
    <3> SUFFICES (f + t) + u + n + r + q + e + k + (i - t) = SendBuffers
      OBVIOUS
    <3> HIDE DEF f, u, n, r, q, e, k, i, t
    <3> QED
      BY <3>1, <3>2
  <2> QED
    BY <2>1, <2>2, <2>3, Zenon DEF SendBuffersConserved
<1>9. ReleasedOnlyIfGot'
  <2>1. Released' \subseteq Released \cup Acked
    BY <1>2 DEF Released, Unacked
  <2>2. Acked \subseteq got
    <3>1. \A s \in inFlight : s <= lastAck => s \in 1..lastAck
      BY <1>1, Places DEF SendTypeOK
    <3> QED
      BY <1>1, <3>1 DEF Acked, AcksSound
  <2> QED
    BY <1>1, <2>1, <2>2 DEF ReleasedOnlyIfGot
<1> QED
  BY <1>5, <1>6, <1>7, <1>8, <1>9 DEF SInv

\* Connection::GetPacketsToSend moves packets to UDPQueue.
LEMMA GetPacketsToSendKeepsSInv ==
    ASSUME SInv, NEW size, GetPacketsToSend(size), UNCHANGED <<got, owed>>
    PROVE  SInv'
<1> DEFINE again == Lowest(resendPackets, size)
           new   == Lowest(needToSend, size - Cardinality(again))
<1>1. SendTypeOK /\ SendBuffersConserved /\ OnePlace /\ AcksSound /\ Stages /\ Released \subseteq got
  BY DEF SInv, ReleasedOnlyIfGot
<1>2. /\ resendPackets' = resendPackets \ again
      /\ needToSend' = needToSend \ new
      /\ udpSendQueue' = udpSendQueue \cup again \cup new
      /\ sendPC' = "TakeSent" /\ sendPC = "GetPacketsToSend"
      /\ UNCHANGED <<freeUser, sendUserData, payload, udpSendFree, takenSent, inFlight,
                     receivedAcks, takenAcks, lastAck>>
  BY DEF GetPacketsToSend, ackVars
<1>3. again \in SUBSET resendPackets /\ new \in SUBSET needToSend
  BY DEF Lowest
<1> HIDE DEF again, new
<1>4. Unacked' = Unacked
  BY <1>2, <1>3 DEF Unacked
<1>5. SendTypeOK'
  BY <1>1, <1>2, <1>4 DEF SendTypeOK, SendPCs
<1>6. OnePlace'
  BY <1>1, <1>2, <1>3 DEF OnePlace
<1>7. Stages' /\ AcksSound'
  BY <1>1, <1>2 DEF Stages, AcksSound
<1>8. SendBuffersConserved'
  <2>1. /\ IsFiniteSet(needToSend) /\ IsFiniteSet(resendPackets) /\ IsFiniteSet(udpSendQueue)
        /\ IsFiniteSet(again)
    BY <1>1, <1>3, FinitePlaces, FS_Subset
  <2>2. /\ resendPackets \cap udpSendQueue = {}
        /\ needToSend \cap (udpSendQueue \cup again) = {}
    BY <1>1, <1>3 DEF OnePlace
  <2>3. /\ Cardinality(resendPackets \ again) = Cardinality(resendPackets) - Cardinality(again)
        /\ Cardinality(udpSendQueue \cup again) = Cardinality(udpSendQueue) + Cardinality(again)
        /\ Cardinality(again) \in Nat
    <3>1. again \in SUBSET resendPackets /\ udpSendQueue \cap again = {}
      BY <1>3, <2>2
    <3>2. /\ Cardinality(resendPackets \ again) = Cardinality(resendPackets) - Cardinality(again)
          /\ Cardinality(again) \in Nat
      BY <2>1, <3>1, Leaving
    <3>3. Cardinality(udpSendQueue \cup again) = Cardinality(udpSendQueue) + Cardinality(again)
      BY <2>1, <3>1, Joining
    <3> QED
      BY <3>2, <3>3
  <2>4. IsFiniteSet(udpSendQueue \cup again)
    BY <2>1, FS_Union
  <2>5. /\ Cardinality(needToSend \ new) = Cardinality(needToSend) - Cardinality(new)
        /\ Cardinality((udpSendQueue \cup again) \cup new)
              = Cardinality(udpSendQueue \cup again) + Cardinality(new)
        /\ Cardinality(new) \in Nat
    <3>1. new \in SUBSET needToSend /\ (udpSendQueue \cup again) \cap new = {}
      BY <1>3, <2>2
    <3>2. /\ Cardinality(needToSend \ new) = Cardinality(needToSend) - Cardinality(new)
          /\ Cardinality(new) \in Nat /\ IsFiniteSet(new)
      BY <2>1, <3>1, Leaving
    <3>3. Cardinality((udpSendQueue \cup again) \cup new)
              = Cardinality(udpSendQueue \cup again) + Cardinality(new)
      BY <2>4, <3>1, <3>2, Joining
    <3> QED
      BY <3>2, <3>3
  <2>6. /\ Cardinality(resendPackets') = Cardinality(resendPackets) - Cardinality(again)
        /\ Cardinality(needToSend') = Cardinality(needToSend) - Cardinality(new)
        /\ Cardinality(udpSendQueue')
              = Cardinality(udpSendQueue) + Cardinality(again) + Cardinality(new)
    BY <1>2, <2>3, <2>5
  <2>7. UNCHANGED <<freeUser, sendUserData, udpSendFree, takenSent, inFlight>>
    BY <1>2
  <2> QED
    BY <1>1, <2>3, <2>5, <2>6, <2>7, Places, SMTT(30) DEF SendBuffersConserved
<1>9. ReleasedOnlyIfGot'
  BY <1>1, <1>2, <1>4 DEF ReleasedOnlyIfGot, Released
<1> QED
  BY <1>5, <1>6, <1>7, <1>8, <1>9 DEF SInv

\* UDPQueue::Send takes back what is sent.
LEMMA TakeSentKeepsSInv ==
    ASSUME SInv, TakeSent, UNCHANGED <<got, owed>>
    PROVE  SInv'
<1> USE DEF TakeSent
<1>1. SendTypeOK /\ SendBuffersConserved /\ OnePlace /\ AcksSound /\ Stages /\ Released \subseteq got
  BY DEF SInv, ReleasedOnlyIfGot
<1>2. takenSent = {} /\ Unacked' = Unacked
  BY <1>1 DEF Stages, Unacked
<1>3. SendTypeOK'
  BY <1>1, <1>2 DEF SendTypeOK, SendPCs
<1>4. OnePlace' /\ Stages'
  BY <1>1, <1>2 DEF OnePlace, Stages
<1>5. AcksSound'
  BY <1>1 DEF AcksSound
<1>6. SendBuffersConserved'
  <2>1. Cardinality(takenSent') = Cardinality(udpSendFree) /\ Cardinality(udpSendFree') = 0
        /\ Cardinality(takenSent) = 0
    BY <1>2, FS_EmptySet
  <2>2. UNCHANGED <<freeUser, sendUserData, needToSend, resendPackets, udpSendQueue, inFlight>>
    OBVIOUS
  <2> QED
    BY <1>1, <2>1, <2>2, Places DEF SendBuffersConserved
<1>7. ReleasedOnlyIfGot'
  BY <1>1, <1>2 DEF ReleasedOnlyIfGot, Released
<1> QED
  BY <1>3, <1>4, <1>5, <1>6, <1>7 DEF SInv

\* InFlightQueue::AddQueue splits the batch by the acks that came before it.
LEMMA AddQueueKeepsSInv ==
    ASSUME SInv, AddQueue, UNCHANGED <<got, owed>>
    PROVE  SInv'
<1> DEFINE stay == takenSent \ takenAcks
<1>1. SendTypeOK /\ SendBuffersConserved /\ OnePlace /\ AcksSound /\ Stages /\ Released \subseteq got
  BY DEF SInv, ReleasedOnlyIfGot
<1>2. /\ freeUser' = freeUser + Cardinality(takenSent \cap takenAcks)
      /\ inFlight' = inFlight \cup stay /\ takenSent' = {} /\ takenAcks' = {}
      /\ receivedAcks' = receivedAcks \cup (takenAcks \ takenSent)
      /\ sendPC' = "SendPackets"
      /\ UNCHANGED <<sendUserData, payload, needToSend, resendPackets,
                     udpSendQueue, udpSendFree, lastAck>>
  BY DEF AddQueue
<1>3. stay \in SUBSET takenSent /\ takenSent \ stay = takenSent \cap takenAcks
  OBVIOUS
<1> HIDE DEF stay
<1>4. /\ Cardinality(takenSent \cap takenAcks) = Cardinality(takenSent) - Cardinality(stay)
      /\ Cardinality(inFlight \cup stay) = Cardinality(inFlight) + Cardinality(stay)
      /\ Cardinality(stay) \in Nat /\ Cardinality(takenSent \cap takenAcks) \in Nat
  <2>1. IsFiniteSet(takenSent) /\ IsFiniteSet(inFlight) /\ takenSent \cap inFlight = {}
    BY <1>1, FinitePlaces DEF OnePlace
  <2>2. /\ Cardinality(takenSent \ stay) = Cardinality(takenSent) - Cardinality(stay)
        /\ Cardinality(inFlight \cup stay) = Cardinality(inFlight) + Cardinality(stay)
        /\ Cardinality(stay) \in Nat
    <3>1. stay \in SUBSET takenSent /\ inFlight \cap stay = {}
      BY <1>3, <2>1
    <3>2. /\ Cardinality(takenSent \ stay) = Cardinality(takenSent) - Cardinality(stay)
          /\ Cardinality(stay) \in Nat /\ IsFiniteSet(stay)
      BY <2>1, <3>1, Leaving
    <3>3. Cardinality(inFlight \cup stay) = Cardinality(inFlight) + Cardinality(stay)
      BY <2>1, <3>1, <3>2, Joining
    <3> QED
      BY <3>2, <3>3
  <2>3. Cardinality(takenSent \cap takenAcks) \in Nat
    BY <2>1, FS_Intersection, FS_CardinalityType
  <2> QED
    BY <1>3, <2>2, <2>3
<1>5. SendTypeOK'
  <2>1. Unacked' \subseteq Unacked
    BY <1>2, <1>3 DEF Unacked
  <2>2. freeUser' \in Nat
    BY <1>1, <1>2, <1>4, Places
  <2>3. receivedAcks' \subseteq Nat
    BY <1>1, <1>2 DEF SendTypeOK
  <2> QED
    BY <1>1, <1>2, <2>1, <2>2, <2>3 DEF SendTypeOK, SendPCs
<1>6. OnePlace' /\ Stages'
  BY <1>1, <1>2, <1>3 DEF OnePlace, Stages
<1>7. AcksSound'
  BY <1>1, <1>2 DEF AcksSound
<1>8. SendBuffersConserved'
  <2>1. Cardinality(takenSent') = 0 /\ Cardinality(inFlight') = Cardinality(inFlight) + Cardinality(stay)
    BY <1>2, <1>4, FS_EmptySet
  <2>2. freeUser' = freeUser + (Cardinality(takenSent) - Cardinality(stay))
    BY <1>2, <1>4
  <2>3. UNCHANGED <<sendUserData, needToSend, resendPackets, udpSendQueue, udpSendFree>>
    BY <1>2
  <2>4. (freeUser + (Cardinality(takenSent) - Cardinality(stay))) + Len(sendUserData)
            + Cardinality(needToSend) + Cardinality(resendPackets)
            + Cardinality(udpSendQueue) + Cardinality(udpSendFree)
            + 0 + (Cardinality(inFlight) + Cardinality(stay)) = SendBuffers
    <3> DEFINE f == freeUser
               u == Len(sendUserData)
               n == Cardinality(needToSend)
               r == Cardinality(resendPackets)
               q == Cardinality(udpSendQueue)
               e == Cardinality(udpSendFree)
               k == Cardinality(takenSent)
               i == Cardinality(inFlight)
               t == Cardinality(stay)
    <3>1. /\ f \in Nat /\ u \in Nat /\ n \in Nat /\ r \in Nat /\ q \in Nat
          /\ e \in Nat /\ k \in Nat /\ i \in Nat /\ t \in Nat
      BY <1>1, <1>4, Counts
    <3>2. f + u + n + r + q + e + k + i = SendBuffers
      BY <1>1 DEF SendBuffersConserved
    <3> SUFFICES (f + (k - t)) + u + n + r + q + e + 0 + (i + t) = SendBuffers
      OBVIOUS
    <3> HIDE DEF f, u, n, r, q, e, k, i, t
    <3> QED
      BY <3>1, <3>2
  <2> QED
    BY <2>1, <2>2, <2>3, <2>4, Zenon DEF SendBuffersConserved
<1>9. ReleasedOnlyIfGot'
  <2>1. Released' \subseteq Released \cup takenAcks
    BY <1>2 DEF Released, Unacked, stay
  <2> QED
    BY <1>1, <1>2, <2>1 DEF ReleasedOnlyIfGot, AcksSound
<1> QED
  BY <1>5, <1>6, <1>7, <1>8, <1>9 DEF SInv

\* A WriteThread sends a packet; it reaches the peer or not.
LEMMA WriteKeepsSInv ==
    ASSUME SInv, NEW s \in udpSendQueue, Write(s),
           got' = got \/ got' = got \cup {s},
           owed' \subseteq got'
    PROVE  SInv'
<1>1. SendTypeOK /\ SendBuffersConserved /\ OnePlace /\ AcksSound /\ Stages /\ Released \subseteq got
  BY DEF SInv, ReleasedOnlyIfGot
<1>2. /\ udpSendQueue' = udpSendQueue \ {s} /\ udpSendFree' = udpSendFree \cup {s}
      /\ UNCHANGED <<freeUser, sendUserData, payload, needToSend, resendPackets,
                     takenSent, inFlight, receivedAcks, takenAcks, lastAck, sendPC>>
  BY DEF Write, ackVars
<1>3. Unacked' = Unacked
  BY <1>2 DEF Unacked
<1>4. SendTypeOK'
  BY <1>1, <1>2, <1>3 DEF SendTypeOK
<1>5. OnePlace'
  BY <1>1, <1>2 DEF OnePlace
<1>6. Stages'
  BY <1>1, <1>2 DEF Stages
<1>7. AcksSound'
  <2>1. s \in Nat \ {0}
    BY <1>1, Places
  <2> QED
    BY <1>1, <1>2, <2>1 DEF AcksSound
<1>8. SendBuffersConserved'
  <2>1. IsFiniteSet(udpSendQueue) /\ IsFiniteSet(udpSendFree) /\ s \notin udpSendFree
    BY <1>1, FinitePlaces DEF OnePlace
  <2>2. /\ Cardinality(udpSendQueue') = Cardinality(udpSendQueue) - 1
        /\ Cardinality(udpSendFree') = Cardinality(udpSendFree) + 1
    BY <1>2, <2>1, FS_RemoveElement, FS_AddElement
  <2>3. UNCHANGED <<freeUser, sendUserData, needToSend, resendPackets, takenSent, inFlight>>
    BY <1>2
  <2> QED
    BY <1>1, <2>2, <2>3, Counts, SMTT(30) DEF SendBuffersConserved
<1>9. ReleasedOnlyIfGot'
  BY <1>1, <1>2, <1>3 DEF ReleasedOnlyIfGot, Released
<1> QED
  BY <1>4, <1>5, <1>6, <1>7, <1>8, <1>9 DEF SInv

\* A Sack of the peer arrives.
LEMMA OnSackKeepsSInv ==
    ASSUME SInv, NEW m, OnSack(m), got' = got, owed' \subseteq owed,
           m.ack \in Nat, m.acks \subseteq got, 1..m.ack \subseteq got
    PROVE  SInv'
<1> USE DEF OnSack, queueVars
<1>1. SendTypeOK /\ OnePlace /\ AcksSound /\ Stages
  BY DEF SInv
<1>2. Unacked' = Unacked
  BY DEF Unacked
<1>3. lastAck' \in {lastAck, m.ack} /\ lastAck' \in Nat
  BY <1>1 DEF SendTypeOK
<1>4. receivedAcks' \subseteq Nat
  BY <1>1 DEF SendTypeOK, AcksSound
<1>5. SendTypeOK'
  BY <1>1, <1>2, <1>3, <1>4 DEF SendTypeOK
<1>6. OnePlace' /\ Stages'
  BY <1>1 DEF OnePlace, Stages
<1>7. AcksSound'
  BY <1>1, <1>3 DEF AcksSound
<1>8. SendBuffersConserved'
  BY DEF SInv, SendBuffersConserved
<1>9. ReleasedOnlyIfGot'
  BY <1>2 DEF SInv, ReleasedOnlyIfGot, Released
<1> QED
  BY <1>5, <1>6, <1>7, <1>8, <1>9 DEF SInv

\* Every step of the sending side and of the peer.
LEMMA NextKeepsSInv == SInv /\ [PeerNext]_peerVars => SInv'
<1> SUFFICES ASSUME SInv, [PeerNext]_peerVars PROVE SInv'
  OBVIOUS
<1>1. owed \subseteq got /\ got \subseteq Nat \ {0}
  BY DEF SInv, AcksSound
<1>2. ASSUME NEW d \in Data, UserSend(d), UNCHANGED <<got, owed>> PROVE SInv'
  BY <1>2, UserSendKeepsSInv
<1>3. CASE SendStep
  BY <1>3, SendPacketsKeepsSInv, ProcessAcksKeepsSInv, GetPacketsToSendKeepsSInv,
     TakeSentKeepsSInv, AddQueueKeepsSInv DEF SendStep
<1>4. ASSUME NEW s \in udpSendQueue, TransmitLost(s) \/ TransmitOK(s) PROVE SInv'
  BY <1>1, <1>4, WriteKeepsSInv DEF TransmitLost, TransmitOK
<1>5. ASSUME NEW s \in owed, AckOK(s) PROVE SInv'
  <2> DEFINE m == [ack |-> 0, acks |-> {s}]
  <2>1. OnSack(m) /\ got' = got /\ owed' \subseteq owed
    BY <1>5 DEF AckOK
  <2>2. m.ack \in Nat /\ m.acks \subseteq got /\ 1..m.ack \subseteq got
    BY <1>1, <1>5
  <2> HIDE DEF m
  <2> QED
    BY <2>1, <2>2, OnSackKeepsSInv
<1>6. ASSUME NEW s \in owed, AckLost(s) PROVE SInv'
  <2>1. UNCHANGED <<sendVars, got>> /\ owed' \subseteq owed
    BY <1>6 DEF AckLost
  <2>2. SendTypeOK' /\ OnePlace' /\ Stages' /\ SendBuffersConserved' /\ ReleasedOnlyIfGot'
    BY <2>1 DEF SInv, SendTypeOK, OnePlace, Stages, SendBuffersConserved, ReleasedOnlyIfGot,
                Released, Unacked, sendVars, queueVars, ackVars
  <2>3. AcksSound'
    BY <2>1 DEF SInv, AcksSound, sendVars, ackVars
  <2> QED
    BY <2>2, <2>3 DEF SInv
<1>7. ASSUME NEW m \in SacksOf(got), OnSack(m), UNCHANGED <<got, owed>> PROVE SInv'
  <2>1. m.ack \in Nat /\ m.acks \subseteq got /\ 1..m.ack \subseteq got
    BY SendPathAssumption DEF SacksOf
  <2> QED
    BY <1>7, <2>1, OnSackKeepsSInv
<1>8. CASE UNCHANGED peerVars
  <2>1. SendTypeOK' /\ OnePlace' /\ Stages' /\ SendBuffersConserved' /\ ReleasedOnlyIfGot'
    BY <1>8 DEF SInv, SendTypeOK, OnePlace, Stages, SendBuffersConserved, ReleasedOnlyIfGot,
                Released, Unacked, peerVars, sendVars, queueVars, ackVars
  <2>2. AcksSound'
    BY <1>8 DEF SInv, AcksSound, peerVars, sendVars, ackVars
  <2> QED
    BY <2>1, <2>2 DEF SInv
<1> QED
  BY <1>2, <1>3, <1>4, <1>5, <1>6, <1>7, <1>8 DEF PeerNext

-----------------------------------------------------------------------------
(* Theorems. *)

\* The inductive invariant holds for every number of buffers and packets.
THEOREM SendInvariance == PeerSafety => []SInv
<1> QED
  BY InitSInv, NextKeepsSInv, PTL DEF PeerSafety

\* Type correctness of the sending half: numbers in range, SendThread's stage.
THEOREM SendTypesCorrect == PeerSafety => []SendTypeOK
<1>1. SInv => SendTypeOK
  BY DEF SInv
<1> QED
  BY <1>1, SendInvariance, PTL

\* However acks, timeouts and resends cross, every send buffer is in exactly one
\* place: SendQueue, UDPQueue and InFlightQueue lose and duplicate none.
THEOREM SendBuffersSafe == PeerSafety => []SendBuffersConserved
<1>1. SInv => SendBuffersConserved
  BY DEF SInv
<1> QED
  BY <1>1, SendInvariance, PTL

\* No Sack, early, late or repeated, makes InFlightQueue give back a buffer whose
\* packet the peer has not received.
THEOREM EarlyReleaseImpossible == PeerSafety => []ReleasedOnlyIfGot
<1>1. SInv => ReleasedOnlyIfGot
  BY DEF SInv
<1> QED
  BY <1>1, SendInvariance, PTL

\* An ack that arrives between a swap and a merge of _receivedAcks is not lost:
\* it stays until its packet is free or the cumulative ack covers it.
THEOREM AcksKept == PeerSafety => AckNotForgotten
<1> DEFINE Kept == \A a \in (receivedAcks \cup takenAcks) \cap Unacked :
                      a \in Unacked' /\ a > lastAck' => a \in receivedAcks' \cup takenAcks'
<1>1. SInv /\ [PeerNext]_peerVars => [Kept]_sendVars
  <2> SUFFICES ASSUME SInv, [PeerNext]_peerVars, NEW a \in (receivedAcks \cup takenAcks) \cap Unacked,
                      a \in Unacked', a > lastAck'
               PROVE  a \in receivedAcks' \cup takenAcks' \/ UNCHANGED sendVars
    OBVIOUS
  <2>1. OnePlace /\ Stages
    BY DEF SInv
  <2>2. ASSUME NEW d \in Data, UserSend(d) PROVE a \in receivedAcks' \cup takenAcks'
    BY <2>2 DEF UserSend, ackVars
  <2>3. ASSUME NEW timedOut, SendPackets(timedOut) PROVE a \in receivedAcks' \cup takenAcks'
    BY <2>1, <2>3 DEF SendPackets, Stages
  <2>4. CASE ProcessAcks
    <3>1. a \notin inFlight \/ a \notin takenAcks
      <4>1. ASSUME a \in inFlight, a \in takenAcks PROVE FALSE
        <5>1. a \in Acked
          BY <4>1 DEF Acked
        <5>2. a \notin needToSend \cup resendPackets \cup udpSendQueue \cup udpSendFree \cup takenSent
          BY <2>1, <4>1 DEF OnePlace
        <5>3. a \notin Unacked'
          BY <2>4, <5>1, <5>2 DEF ProcessAcks, Unacked
        <5> QED
          BY <5>3
      <4> QED
        BY <4>1
    <3>2. a \in takenAcks => a \in UnusedAcks
      BY <2>4, <3>1 DEF UnusedAcks, ProcessAcks
    <3> QED
      BY <2>4, <3>2 DEF ProcessAcks
  <2>5. ASSUME NEW size, GetPacketsToSend(size) PROVE a \in receivedAcks' \cup takenAcks'
    BY <2>5 DEF GetPacketsToSend, ackVars
  <2>6. CASE TakeSent
    BY <2>1, <2>6 DEF TakeSent, Stages
  <2>7. CASE AddQueue
    <3>1. ASSUME a \in takenSent, a \in takenAcks PROVE FALSE
      <4>1. a \notin needToSend \cup resendPackets \cup udpSendQueue \cup udpSendFree \cup inFlight
        BY <2>1, <3>1 DEF OnePlace
      <4> QED
        BY <2>7, <3>1, <4>1 DEF AddQueue, Unacked
    <3> QED
      BY <2>7, <3>1 DEF AddQueue
  <2>8. ASSUME NEW s, Write(s) PROVE a \in receivedAcks' \cup takenAcks'
    BY <2>8 DEF Write, ackVars
  <2>9. ASSUME NEW m, OnSack(m) PROVE a \in receivedAcks' \cup takenAcks'
    BY <2>9 DEF OnSack
  <2> QED
    BY <2>2, <2>3, <2>4, <2>5, <2>6, <2>7, <2>8, <2>9
       DEF PeerNext, SendStep, TransmitLost, TransmitOK, AckOK, AckLost, peerVars
<1> QED
  BY <1>1, SendInvariance, PTL DEF PeerSafety, AckNotForgotten

-----------------------------------------------------------------------------
(* Sums over the lists of the ReadThreads. *)

LEMMA Disjoint ==
    ASSUME NEW S, NEW T, IsFiniteSet(S), IsFiniteSet(T), S \cap T = {}
    PROVE  /\ IsFiniteSet(S \cup T)
           /\ Cardinality(S \cup T) = Cardinality(S) + Cardinality(T)
  <1>1. Cardinality(S) \in Nat /\ Cardinality(T) \in Nat
      BY FS_CardinalityType
  <1>2. /\ IsFiniteSet(S \cup T)
        /\ Cardinality(S \cup T) = Cardinality(S) + Cardinality(T) - Cardinality(S \cap T)
      BY FS_Union
  <1>3. Cardinality(S \cap T) = 0
      BY FS_EmptySet
  <1> QED
      BY <1>1, <1>2, <1>3

\* The units of one number.
LEMMA UnitsOfOne ==
    ASSUME NEW k, NEW n \in Nat
    PROVE  IsFiniteSet({k} \X (1..n)) /\ Cardinality({k} \X (1..n)) = n
  <1>1. IsFiniteSet(1..n) /\ Cardinality(1..n) = n
    <2>1. 1 \in Int /\ n \in Int
        OBVIOUS
    <2>2. IsFiniteSet(1..n) /\ Cardinality(1..n) = IF 1 > n THEN 0 ELSE n - 1 + 1
        BY <2>1, FS_Interval
    <2> QED
        BY <2>2
  <1>2. IsFiniteSet({k}) /\ Cardinality({k}) = 1
      BY FS_Singleton
  <1>3. /\ IsFiniteSet({k} \X (1..n))
        /\ Cardinality({k} \X (1..n)) = Cardinality({k}) * Cardinality(1..n)
      BY <1>1, <1>2, FS_Product
  <1> QED
      BY <1>1, <1>2, <1>3

\* A function from a finite set to numbers has a sum.
LEMMA UnitsFinite ==
    ASSUME NEW D, IsFiniteSet(D), NEW f \in [D -> Nat]
    PROVE  IsFiniteSet(Units(f)) /\ Total(f) \in Nat
  <1> DEFINE g == [k \in D |-> {k} \X (1..f[k])]
             U == {{k} \X (1..f[k]) : k \in D}
  <1>1. IsFiniteSet(U)
    <2>1. g \in Surjection(D, U)
        BY DEF Surjection
    <2> HIDE DEF g, U
    <2> QED
        BY <2>1, FS_Surjection
  <1>2. \A T \in U : IsFiniteSet(T)
    <2>1. ASSUME NEW k \in D PROVE IsFiniteSet({k} \X (1..f[k]))
      <3>1. f[k] \in Nat
          OBVIOUS
      <3> QED
          BY <3>1, UnitsOfOne
    <2> QED
        BY <2>1
  <1>3. IsFiniteSet(UNION U)
    <2> HIDE DEF U
    <2> QED
        BY <1>1, <1>2, FS_UNION
  <1>4. Units(f) = UNION U
      BY DEF Units
  <1>5. IsFiniteSet(Units(f))
      BY <1>3, <1>4
  <1> QED
      BY <1>5, FS_CardinalityType DEF Total

\* One term is taken out of a sum.
LEMMA TotalSplit ==
    ASSUME NEW D, IsFiniteSet(D), NEW f \in [D -> Nat], NEW e \in D
    PROVE  /\ [k \in D \ {e} |-> f[k]] \in [D \ {e} -> Nat]
           /\ Total([k \in D \ {e} |-> f[k]]) \in Nat
           /\ Total(f) = Total([k \in D \ {e} |-> f[k]]) + f[e]
  <1>1. PICK h \in [D \ {e} -> Nat] : h = [k \in D \ {e} |-> f[k]]
      OBVIOUS
  <1>2. PICK N : N = {e} \X (1..f[e])
      OBVIOUS
  <1>3. IsFiniteSet(N) /\ Cardinality(N) = f[e]
    <2>1. f[e] \in Nat
        OBVIOUS
    <2> QED
        BY <1>2, <2>1, UnitsOfOne
  <1>4. IsFiniteSet(Units(h)) /\ Total(h) \in Nat
    <2>1. IsFiniteSet(D \ {e})
        BY FS_Subset
    <2> QED
        BY <2>1, UnitsFinite
  <1>5. Units(f) = Units(h) \cup N
    <2>1. DOMAIN h = D \ {e} /\ \A k \in D : k # e => h[k] = f[k]
        BY <1>1
    <2>2. Units(f) \subseteq Units(h) \cup N
      <3> SUFFICES ASSUME NEW u \in Units(f), u \notin N PROVE u \in Units(h)
          OBVIOUS
      <3>1. PICK k \in D : u \in {k} \X (1..f[k])
          BY DEF Units
      <3>2. k # e
          BY <1>2, <3>1, Zenon
      <3> QED
          BY <2>1, <3>1, <3>2, Zenon DEF Units
    <2>3. Units(h) \subseteq Units(f)
      <3> SUFFICES ASSUME NEW u \in Units(h) PROVE u \in Units(f)
          OBVIOUS
      <3>1. PICK k \in DOMAIN h : u \in {k} \X (1..h[k])
          BY DEF Units
      <3>2. k \in D /\ h[k] = f[k] /\ DOMAIN f = D
          BY <2>1
      <3> QED
          BY <3>1, <3>2, Zenon DEF Units
    <2>4. N \subseteq Units(f)
      <3>1. DOMAIN f = D
          OBVIOUS
      <3> QED
          BY <1>2, <3>1, Zenon DEF Units
    <2> QED
        BY <2>2, <2>3, <2>4
  <1>6. Units(h) \cap N = {}
    <2> SUFFICES ASSUME NEW u \in Units(h), u \in N PROVE FALSE
        OBVIOUS
    <2>1. PICK k \in DOMAIN h : u \in {k} \X (1..h[k])
        BY DEF Units
    <2>2. k # e
        BY <1>1
    <2>3. u[1] = k
        BY <2>1
    <2>4. u[1] = e
        BY <1>2
    <2> QED
        BY <2>2, <2>3, <2>4
  <1>7. Cardinality(Units(h) \cup N) = Cardinality(Units(h)) + Cardinality(N)
      BY <1>3, <1>4, <1>6, Disjoint
  <1>8. Total(f) = Total(h) + f[e]
      BY <1>3, <1>5, <1>7 DEF Total
  <1> QED
      BY <1>1, <1>4, <1>8

\* A sum after one of its terms changed.
Changes(f, e, n, g) == g = [f EXCEPT ![e] = n]
LEMMA TotalChange ==
    ASSUME NEW D, IsFiniteSet(D), NEW f \in [D -> Nat], NEW e \in D, NEW n \in Nat,
           NEW g, Changes(f, e, n, g)
    PROVE  Total(f) \in Nat /\ Total(g) \in Nat /\ Total(g) + f[e] = Total(f) + n
  <1>1. g \in [D -> Nat] /\ g[e] = n /\ f[e] \in Nat
      BY DEF Changes
  <1>2. PICK h : h = [k \in D \ {e} |-> f[k]]
      OBVIOUS
  <1>3. h = [k \in D \ {e} |-> g[k]]
      BY <1>2 DEF Changes
  <1>4. Total(h) \in Nat /\ Total(f) = Total(h) + f[e]
    <2>1. /\ Total([k \in D \ {e} |-> f[k]]) \in Nat
          /\ Total(f) = Total([k \in D \ {e} |-> f[k]]) + f[e]
        BY TotalSplit
    <2> QED
        BY <1>2, <2>1, Zenon
  <1>5. Total(g) = Total(h) + g[e]
    <2>1. Total(g) = Total([k \in D \ {e} |-> g[k]]) + g[e]
        BY <1>1, TotalSplit
    <2> QED
        BY <1>3, <2>1, Zenon
  <1> QED
      BY <1>1, <1>4, <1>5

\* A sum of numbers that are at most m.
LEMMA TotalAtMost ==
    ASSUME NEW D, IsFiniteSet(D), NEW f \in [D -> Nat], NEW m \in Nat, \A k \in D : f[k] <= m
    PROVE  Cardinality(D) \in Nat /\ Total(f) \in Nat /\ Total(f) <= Cardinality(D) * m
  <1>1. IsFiniteSet(1..m) /\ Cardinality(1..m) = m
    <2>1. 1 \in Int /\ m \in Int
        OBVIOUS
    <2>2. IsFiniteSet(1..m) /\ Cardinality(1..m) = IF 1 > m THEN 0 ELSE m - 1 + 1
        BY <2>1, FS_Interval
    <2> QED
        BY <2>2
  <1>2. IsFiniteSet(D \X (1..m)) /\ Cardinality(D \X (1..m)) = Cardinality(D) * m
      BY <1>1, FS_Product
  <1>3. Units(f) \subseteq D \X (1..m)
    <2> SUFFICES ASSUME NEW u \in Units(f) PROVE u \in D \X (1..m)
        OBVIOUS
    <2>1. PICK k \in D : u \in {k} \X (1..f[k])
        BY DEF Units
    <2>2. f[k] \in Nat /\ f[k] <= m
        OBVIOUS
    <2>3. 1..f[k] \subseteq 1..m
        BY <2>2
    <2> QED
        BY <2>1, <2>3, Zenon
  <1>4. Cardinality(Units(f)) <= Cardinality(D \X (1..m))
      BY <1>2, <1>3, FS_Subset
  <1> QED
      BY <1>2, <1>4, UnitsFinite, FS_CardinalityType DEF Total

\* The same when one of them is smaller by at least b: the others and what is left.
LEMMA TotalAtMostBut ==
    ASSUME NEW D, IsFiniteSet(D), NEW f \in [D -> Nat], NEW e \in D, NEW a \in Nat, NEW b \in Nat,
           f[e] <= a, \A k \in D : f[k] <= a + b
    PROVE  /\ Cardinality(D) \in Nat /\ Total(f) \in Nat
           /\ Total(f) <= Cardinality(D) * a + (Cardinality(D) - 1) * b
  <1>1. PICK h : h = [k \in D \ {e} |-> f[k]]
      OBVIOUS
  <1>2. h \in [D \ {e} -> Nat] /\ Total(h) \in Nat /\ Total(f) = Total(h) + f[e] /\ f[e] \in Nat
      BY <1>1, TotalSplit
  <1>3. IsFiniteSet(D \ {e}) /\ Cardinality(D \ {e}) = Cardinality(D) - 1
      BY FS_RemoveElement
  <1>4. a + b \in Nat /\ \A k \in D \ {e} : h[k] <= a + b
      BY <1>1
  <1>5. Cardinality(D \ {e}) \in Nat /\ Total(h) <= Cardinality(D \ {e}) * (a + b)
      BY <1>2, <1>3, <1>4, TotalAtMost
  <1>6. Cardinality(D) \in Nat
      BY FS_CardinalityType
  <1>7. PICK c \in Nat : c = Cardinality(D) - 1
      BY <1>3, <1>5
  <1>8. c * (a + b) + a = (c + 1) * a + c * b
      BY SMT
  <1>9. c + 1 = Cardinality(D)
      BY <1>6, <1>7
  <1>10. Total(h) <= c * (a + b)
      BY <1>3, <1>5, <1>7
  <1>11. Total(h) + f[e] <= c * (a + b) + a
    <2>1. c * (a + b) \in Nat
        BY SMT
    <2> QED
        BY <1>2, <1>10, <2>1
  <1> QED
      BY <1>2, <1>6, <1>7, <1>8, <1>9, <1>11

-----------------------------------------------------------------------------
(* The receiving half: the inductive invariant. *)

\* The slots that hold a packet.
Taken == {i \in Slots : queue[i] # NoPacket}

\* A slot holds a packet of the window, and the one that belongs there.
RingSound ==
    \A i \in Slots : queue[i] # NoPacket =>
        queue[i] % QueueSize = i /\ begin <= queue[i] /\ queue[i] < begin + QueueSize

\* The packet AddPacket has in its hands is one of the window.
AddingSound ==
    IF recvPC = "AddPacketStore"
    THEN begin <= adding /\ adding < begin + QueueSize
    ELSE adding = NoPacket

\* The local list of ProccessUnorderedPackets lives no longer than its loop.
OrderedLocal == recvPC # "Ordering" => ordered = <<>>

\* A ReadThread takes buffers only when it lacks some for a read.
HoardBound == \A t \in ReadThreads : local[t] <= UDPMaxSegments - 1 + ReadBatch

\* The buffers outside RecvQueue and the user's hands.
Idle == freeRecv + Total(local) + received

RInv ==
    /\ RecvTypeOK /\ handed \in Seq(Nat)
    /\ RingSound /\ AddingSound /\ OrderedLocal /\ HoardBound
    /\ HandedInOrder
    /\ RecvBuffersConserved
-----------------------------------------------------------------------------
(* Facts about numbers, sequences and slots. *)

\* Two numbers of a window of q consecutive ones share a slot only if they are equal.
LEMMA SlotOfOne ==
    ASSUME NEW q \in Nat \ {0}, NEW a \in Nat, NEW b \in Nat, a <= b, b < a + q, a % q = b % q
    PROVE  a = b
  <1>1. PICK x \in Int, y \in Int : a % q = a - q * x /\ b % q = b - q * y
    <2>1. \A n \in Nat : n \div q \in Int /\ n % q = n - q * (n \div q)
        BY SMT
    <2> QED
        BY <2>1
  <1>2. b - a = q * (y - x)
      BY <1>1
  <1>3. PICK k \in Int : k = y - x
      BY <1>1
  <1>4. b - a = q * k
      BY <1>2, <1>3
  <1>5. (k >= 1 => q * k >= q) /\ (k <= 0 => q * k <= 0)
      BY SMT
  <1> QED
      BY <1>4, <1>5

LEMMA SlotType == \A s \in Nat : s % QueueSize \in Slots
  BY RecvPathAssumption DEF Slots

LEMMA SlotsFinite == IsFiniteSet(Slots) /\ Cardinality(Slots) = QueueSize
  <1>1. 0 \in Int /\ QueueSize - 1 \in Int /\ QueueSize - 1 >= 0
      BY RecvPathAssumption
  <1>2. /\ IsFiniteSet(0..(QueueSize - 1))
        /\ Cardinality(0..(QueueSize - 1)) = IF 0 > QueueSize - 1 THEN 0 ELSE QueueSize - 1 - 0 + 1
      BY <1>1, FS_Interval
  <1> QED
      BY <1>1, <1>2, RecvPathAssumption DEF Slots

LEMMA TakenFinite == IsFiniteSet(Taken) /\ Cardinality(Taken) \in Nat
  <1>1. Taken \in SUBSET Slots
      BY DEF Taken
  <1> QED
      BY <1>1, SlotsFinite, FS_Subset, FS_CardinalityType

\* The first n numbers, in order.
Count(n) == [i \in 1..n |-> i]

LEMMA CountNext == \A n \in Nat : Count(n) \in Seq(Nat) /\ Append(Count(n), n + 1) = Count(n + 1)
  BY DEF Count

LEMMA InOrder == HandedInOrder <=> (handed \o userData) \o ordered = Count(begin - 1)
  BY DEF HandedInOrder, Count, GetLastAck

LEMMA IdleNat ==
    ASSUME RecvTypeOK
    PROVE  Total(local) \in Nat /\ Idle \in Nat
  <1>1. Total(local) \in Nat
      BY RecvPathAssumption, UnitsFinite DEF RecvTypeOK
  <1> QED
      BY <1>1 DEF RecvTypeOK, Idle

\* The sum over the places a buffer can be in.
LEMMA Conserved ==
    RecvBuffersConserved <=>
        Idle + Cardinality(Taken) + (IF adding = NoPacket THEN 0 ELSE 1)
            + Len(ordered) + Len(userData) + held = RecvBuffers
  BY DEF RecvBuffersConserved, Taken, Idle

-----------------------------------------------------------------------------
(* The invariant is inductive. *)

LEMMA InitRInv == NetInit => RInv
  <1> SUFFICES ASSUME NetInit PROVE RInv
      OBVIOUS
  <1> USE RecvPathAssumption DEF NetInit, RecvInit
  <1>1. RecvTypeOK /\ handed \in Seq(Nat)
      BY DEF RecvTypeOK, NoPacket
  <1>2. RingSound /\ AddingSound /\ OrderedLocal /\ HoardBound
      BY DEF RingSound, AddingSound, OrderedLocal, HoardBound
  <1>3. HandedInOrder
    <2>1. <<>> \o <<>> = <<>> /\ Count(0) = <<>>
        BY DEF Count
    <2>2. begin - 1 = 0
        OBVIOUS
    <2> QED
        BY <2>1, <2>2, InOrder
  <1>4. RecvBuffersConserved
    <2>1. Taken = {}
        BY DEF Taken
    <2>2. Cardinality(Taken) = 0
        BY <2>1, FS_EmptySet
    <2>3. Total(local) = 0
      <3>1. local \in [ReadThreads -> Nat] /\ \A t \in ReadThreads : local[t] <= 0
          OBVIOUS
      <3>2. /\ Cardinality(ReadThreads) \in Nat /\ Total(local) \in Nat
            /\ Total(local) <= Cardinality(ReadThreads) * 0
          BY <3>1, TotalAtMost
      <3> QED
          BY <3>2
    <2>4. Idle = RecvBuffers
        BY <2>3 DEF Idle
    <2> QED
        BY <2>2, <2>4, Conserved
  <1> QED
      BY <1>1, <1>2, <1>3, <1>4 DEF RInv

\* The buffers add up after a step if what it changes of them adds up.
LEMMA SumKept ==
    ASSUME NEW f \in Nat, NEW c \in Nat, NEW a \in Nat, NEW o \in Nat, NEW u \in Nat, NEW h \in Nat,
           NEW g \in Nat, NEW d \in Nat, NEW b \in Nat,
           f + c + a = g + d + b, f + c + a + o + u + h = RecvBuffers
    PROVE  g + d + b + o + u + h = RecvBuffers
  OBVIOUS

LEMMA AddPacketConserved ==
    ASSUME RecvTypeOK, RecvTypeOK', RecvBuffersConserved, UNCHANGED <<ordered, userData, held>>,
           NEW a \in Nat, a = IF adding = NoPacket THEN 0 ELSE 1,
           NEW b \in Nat, b = IF adding' = NoPacket THEN 0 ELSE 1,
           Idle + Cardinality(Taken) + a = Idle' + Cardinality(Taken)' + b
    PROVE  RecvBuffersConserved'
  <1>1. PICK f \in Nat, c \in Nat, o \in Nat, u \in Nat, h \in Nat :
            f = Idle /\ c = Cardinality(Taken) /\ o = Len(ordered) /\ u = Len(userData) /\ h = held
    <2>1. Len(ordered) \in Nat /\ Len(userData) \in Nat /\ held \in Nat
        BY DEF RecvTypeOK
    <2> QED
        BY <2>1, IdleNat, TakenFinite, Zenon
  <1>2. PICK g \in Nat, d \in Nat : g = Idle' /\ d = Cardinality(Taken)'
    <2>1. Total(local') \in Nat /\ freeRecv' \in Nat /\ received' \in Nat
        BY RecvPathAssumption, UnitsFinite DEF RecvTypeOK
    <2>2. Idle' \in Nat
        BY <2>1 DEF Idle
    <2>3. Taken' \in SUBSET Slots
        BY DEF Taken
    <2>4. Cardinality(Taken') \in Nat
        BY <2>3, SlotsFinite, FS_Subset, FS_CardinalityType
    <2> QED
        BY <2>2, <2>4, Zenon
  <1>3. f + c + a + o + u + h = RecvBuffers
    <2>1. Idle + Cardinality(Taken) + a + Len(ordered) + Len(userData) + held = RecvBuffers
        BY Conserved
    <2> QED
        BY <1>1, <2>1, Zenon
  <1>4. g + d + b + o + u + h = RecvBuffers
    <2>1. f + c + a = g + d + b
        BY <1>1, <1>2, Zenon
    <2> QED
        BY <1>3, <2>1, SumKept
  <1>5. Len(ordered') = o /\ Len(userData') = u /\ held' = h
      BY <1>1
  <1>6. Idle' + Cardinality(Taken)' + b + Len(ordered') + Len(userData') + held' = RecvBuffers
      BY <1>2, <1>4, <1>5, Zenon
  <1> QED
      BY <1>6 DEF RecvBuffersConserved, Taken, Idle

LEMMA ArriveRInv == ASSUME RInv, NEW s \in 1..MaxSeq, Arrive(s) PROVE RInv'
  <1>1. /\ RecvTypeOK /\ s \in Nat /\ s # NoPacket
        /\ begin \in Nat /\ freeRecv \in Nat /\ received \in Nat /\ received > 0
      BY MaxSeqAssumption DEF RInv, NoPacket, RecvTypeOK, Arrive, AddPacketAck
  <1>2. /\ recvPC = "OnReceive" /\ adding = NoPacket /\ received' = received - 1
        /\ UNCHANGED <<local, queue, begin, ordered, userData, held, acks, lastAckRead, ackPC, handed>>
        /\ selectiveAcks' \subseteq selectiveAcks \cup {s}
      BY DEF Arrive, AddPacketAck, ackSideVars, RInv, AddingSound
  <1>3. \/ freeRecv' = freeRecv + 1 /\ UNCHANGED <<adding, recvPC>>
        \/ /\ begin <= s /\ s < begin + QueueSize /\ adding' = s /\ freeRecv' = freeRecv
           /\ recvPC' = "AddPacketStore"
    <2>1. s >= begin /\ ~AboveWindow(s) => begin <= s /\ s < begin + QueueSize
        BY <1>1, RecvPathAssumption DEF AboveWindow
    <2> QED
        BY <2>1 DEF Arrive, AddPacketAck
  <1>4. RecvTypeOK'
    <2>1. /\ freeRecv' \in Nat /\ received' \in Nat /\ adding' \in Nat
          /\ recvPC' \in {"OnReceive", "AddPacketStore", "Ordering"}
        BY <1>1, <1>2, <1>3 DEF RecvTypeOK
    <2> QED
        BY <1>1, <1>2, <2>1 DEF RecvTypeOK
  <1>5. RingSound' /\ AddingSound' /\ OrderedLocal' /\ HoardBound'
      BY <1>1, <1>2, <1>3 DEF RInv, RingSound, AddingSound, OrderedLocal, HoardBound
  <1>6. HandedInOrder' /\ handed' \in Seq(Nat)
      BY <1>2 DEF RInv, HandedInOrder, GetLastAck
  <1>7. RecvBuffersConserved'
    <2>1. Taken' = Taken
        BY <1>2 DEF Taken
    <2>2. PICK b \in Nat : b = IF adding' = NoPacket THEN 0 ELSE 1
        OBVIOUS
    <2>3. PICK c \in Nat, t \in Nat : c = Cardinality(Taken) /\ t = Total(local)
        BY <1>1, TakenFinite, IdleNat
    <2>4. Total(local') = t
        BY <1>2, <2>3
    <2>5. freeRecv + t + received + c + 0 = freeRecv' + t + received' + c + b
        BY <1>1, <1>2, <1>3, <2>2, <2>3
    <2>6. Idle + Cardinality(Taken) + 0 = Idle' + Cardinality(Taken)' + b
        BY <2>1, <2>3, <2>4, <2>5, Zenon DEF Idle
    <2>7. 0 = IF adding = NoPacket THEN 0 ELSE 1
        BY <1>2
    <2> QED
        BY <1>1, <1>2, <1>4, <2>2, <2>6, <2>7, AddPacketConserved DEF RInv
  <1> QED
      BY <1>4, <1>5, <1>6, <1>7 DEF RInv

\* The rest of AddPacket.  A taken slot gives the buffer back, an empty one keeps it.
LEMMA StoreRInv == ASSUME RInv, AddPacketStore, UNCHANGED handed PROVE RInv'
  <1> DEFINE i == adding % QueueSize
  <1>1. /\ RecvTypeOK /\ recvPC = "AddPacketStore" /\ adding \in Nat /\ begin \in Nat \ {0}
        /\ begin <= adding /\ adding < begin + QueueSize /\ adding # NoPacket
        /\ queue \in [Slots -> Nat] /\ freeRecv \in Nat
    <2>1. RecvTypeOK /\ recvPC = "AddPacketStore" /\ begin <= adding /\ adding < begin + QueueSize
        BY DEF RInv, AddPacketStore, AddingSound
    <2> QED
        BY <2>1 DEF RecvTypeOK, NoPacket
  <1>2. i \in Slots
      BY <1>1, SlotType
  <1>3. /\ adding' = NoPacket /\ recvPC' = "OnReceive"
        /\ UNCHANGED <<local, received, begin, ordered, userData, held, selectiveAcks, acks, lastAckRead, ackPC, handed>>
      BY DEF AddPacketStore, ackSideVars, readVars
  <1>4. \/ freeRecv' = freeRecv + 1 /\ queue' = queue
        \/ queue[i] = NoPacket /\ queue' = [queue EXCEPT ![i] = adding] /\ freeRecv' = freeRecv
      BY DEF AddPacketStore
  <1> HIDE DEF i
  <1>5. queue' \in [Slots -> Nat] /\ freeRecv' \in Nat
      BY <1>1, <1>2, <1>4
  <1>6. RecvTypeOK'
      BY <1>1, <1>3, <1>5 DEF RecvTypeOK, NoPacket
  <1>7. RingSound'
    <2>1. \A j \in Slots : queue'[j] = queue[j] \/ (j = i /\ queue'[j] = adding)
        BY <1>1, <1>2, <1>4
    <2> QED
        BY <1>1, <1>3, <2>1 DEF RInv, RingSound, i
  <1>8. AddingSound' /\ OrderedLocal' /\ HoardBound'
      BY <1>1, <1>3 DEF RInv, AddingSound, OrderedLocal, HoardBound
  <1>9. HandedInOrder' /\ handed' \in Seq(Nat)
      BY <1>3 DEF RInv, HandedInOrder, GetLastAck
  <1>10. RecvBuffersConserved'
    <2>1. freeRecv' + Cardinality(Taken') = freeRecv + Cardinality(Taken) + 1 /\ Cardinality(Taken') \in Nat
      <3>1. CASE queue' = queue /\ freeRecv' = freeRecv + 1
        <4>1. Taken' = Taken
            BY <3>1 DEF Taken
        <4> QED
            BY <3>1, <4>1, <1>1, TakenFinite
      <3>2. CASE queue[i] = NoPacket /\ queue' = [queue EXCEPT ![i] = adding] /\ freeRecv' = freeRecv
        <4>1. Taken' = Taken \cup {i} /\ i \notin Taken
            BY <3>2, <1>1, <1>2 DEF Taken
        <4>2. Cardinality(Taken') = Cardinality(Taken) + 1
            BY <4>1, TakenFinite, FS_AddElement
        <4> QED
            BY <3>2, <4>2, <1>1, TakenFinite
      <3> QED
          BY <1>4, <3>1, <3>2
    <2>2. PICK f \in Nat, t \in Nat, r \in Nat, c \in Nat, g \in Nat, d \in Nat :
             /\ f = freeRecv /\ t = Total(local) /\ r = received /\ c = Cardinality(Taken)
             /\ g = freeRecv' /\ d = Cardinality(Taken')
      <3>1. received \in Nat
          BY <1>1 DEF RecvTypeOK
      <3> QED
          BY <1>1, <1>5, <2>1, <3>1, TakenFinite, IdleNat, Zenon
    <2>3. f + t + r + c + 1 = g + t + r + d + 0
      <3>1. g + d = f + c + 1
          BY <2>1, <2>2, Zenon
      <3> QED
          BY <3>1
    <2>4. Total(local') = t /\ received' = r
        BY <1>3, <2>2
    <2>5. Idle + Cardinality(Taken) + 1 = Idle' + Cardinality(Taken)' + 0
        BY <2>2, <2>3, <2>4, Zenon DEF Idle
    <2>6. 1 = (IF adding = NoPacket THEN 0 ELSE 1) /\ 0 = IF adding' = NoPacket THEN 0 ELSE 1
        BY <1>1, <1>3
    <2>7. UNCHANGED <<ordered, userData, held>>
        BY <1>3
    <2> QED
        BY <1>1, <1>6, <2>5, <2>6, <2>7, AddPacketConserved DEF RInv
  <1> QED
      BY <1>6, <1>7, <1>8, <1>9, <1>10 DEF RInv

\* The slot of begin can only hold the packet begin itself.
LEMMA BeginSlot ==
    ASSUME RInv, queue[begin % QueueSize] # NoPacket
    PROVE  queue[begin % QueueSize] = begin
  <1> DEFINE b == queue[begin % QueueSize]
  <1>1. begin \in Nat /\ begin % QueueSize \in Slots /\ queue \in [Slots -> Nat]
      BY SlotType DEF RInv, RecvTypeOK
  <1>2. b \in Nat /\ b % QueueSize = begin % QueueSize /\ begin <= b /\ b < begin + QueueSize
      BY <1>1 DEF RInv, RingSound
  <1> QED
      BY <1>1, <1>2, SlotOfOne, RecvPathAssumption

\* A turn of ProccessUnorderedPackets takes the packet begin, which is the next one.
LEMMA OrderNextRInv == ASSUME RInv, OrderNext, UNCHANGED handed PROVE RInv'
  <1> DEFINE i == begin % QueueSize
  <1>1. /\ RecvTypeOK /\ queue \in [Slots -> Nat] /\ begin \in Nat \ {0} /\ i \in Slots
        /\ ordered \in Seq(Nat) /\ userData \in Seq(Nat) /\ handed \in Seq(Nat)
      BY SlotType DEF RInv, RecvTypeOK
  <1>2. queue[i] = begin /\ queue[i] # NoPacket
      BY BeginSlot DEF OrderNext
  <1>3. /\ ordered' = Append(ordered, begin) /\ queue' = [queue EXCEPT ![i] = NoPacket]
        /\ begin' = begin + 1 /\ recvPC' = "Ordering" /\ recvPC # "AddPacketStore"
        /\ UNCHANGED <<freeRecv, local, received, adding, userData, held, selectiveAcks, acks, lastAckRead, ackPC, handed>>
      BY <1>2 DEF OrderNext, ackSideVars, readVars
  <1> HIDE DEF i
  <1>4. queue' \in [Slots -> Nat] /\ ordered' \in Seq(Nat) /\ Len(ordered') = Len(ordered) + 1
      BY <1>1, <1>3 DEF NoPacket
  <1>5. RecvTypeOK'
      BY <1>1, <1>3, <1>4 DEF RecvTypeOK
  <1>6. RingSound'
    <2> SUFFICES ASSUME NEW j \in Slots, queue'[j] # NoPacket
                 PROVE  queue'[j] % QueueSize = j /\ begin' <= queue'[j] /\ queue'[j] < begin' + QueueSize
        BY DEF RingSound
    <2>1. j # i /\ queue'[j] = queue[j] /\ queue[j] \in Nat
        BY <1>1, <1>3
    <2>2. queue[j] % QueueSize = j /\ begin <= queue[j] /\ queue[j] < begin + QueueSize
        BY <2>1 DEF RInv, RingSound
    <2>3. queue[j] # begin
        BY <2>1, <2>2 DEF i
    <2>4. begin + 1 <= queue[j] /\ queue[j] < begin + 1 + QueueSize
        BY <1>1, <2>1, <2>2, <2>3, RecvPathAssumption
    <2> QED
        BY <1>3, <2>1, <2>2, <2>4
  <1>7. AddingSound' /\ OrderedLocal' /\ HoardBound'
      BY <1>3 DEF RInv, AddingSound, OrderedLocal, HoardBound
  <1>8. HandedInOrder'
    <2>1. (handed \o userData) \o ordered = Count(begin - 1)
        BY InOrder DEF RInv
    <2>2. (handed \o userData) \o Append(ordered, begin) = Append((handed \o userData) \o ordered, begin)
      <3>1. handed \o userData \in Seq(Nat)
          BY <1>1, ConcatProperties
      <3> QED
          BY <1>1, <3>1
    <2>3. Append(Count(begin - 1), begin) = Count(begin)
      <3>1. PICK n \in Nat : n = begin - 1
          BY <1>1
      <3>2. n + 1 = begin
          BY <3>1, <1>1
      <3> QED
          BY <3>1, <3>2, CountNext
    <2>4. begin' - 1 = begin
        BY <1>1, <1>3
    <2>5. (handed' \o userData') \o ordered' = Count(begin' - 1)
        BY <1>3, <2>1, <2>2, <2>3, <2>4
    <2> QED
        BY <2>5 DEF HandedInOrder, Count, GetLastAck
  <1>9. RecvBuffersConserved'
    <2>1. Taken' = Taken \ {i} /\ i \in Taken
        BY <1>1, <1>2, <1>3 DEF Taken
    <2>2. Cardinality(Taken') = Cardinality(Taken) - 1
        BY <2>1, TakenFinite, FS_RemoveElement
    <2>3. /\ Idle \in Nat /\ Len(ordered) \in Nat /\ Len(userData) \in Nat /\ held \in Nat
          /\ Cardinality(Taken) \in Nat
        BY <1>1, TakenFinite, IdleNat DEF RecvTypeOK
    <2>4. adding = NoPacket
        BY <1>3 DEF RInv, AddingSound
    <2>5. Idle + Cardinality(Taken) + 0 + Len(ordered) + Len(userData) + held = RecvBuffers
        BY <2>4, Conserved DEF RInv
    <2>6. Idle' = Idle /\ UNCHANGED <<userData, held, adding>>
        BY <1>3 DEF Idle
    <2>7. Idle' + Cardinality(Taken') + 0 + Len(ordered') + Len(userData') + held' = RecvBuffers
      <3>1. PICK f \in Nat, c \in Nat, o \in Nat, u \in Nat, h \in Nat :
               /\ f = Idle /\ c = Cardinality(Taken) /\ o = Len(ordered)
               /\ u = Len(userData) /\ h = held
          BY <2>3, Zenon
      <3>2. Idle' = f /\ Cardinality(Taken') = c - 1 /\ Len(ordered') = o + 1
            /\ Len(userData') = u /\ held' = h
          BY <1>4, <2>2, <2>6, <3>1
      <3>3. f + c + 0 + o + u + h = RecvBuffers
          BY <2>5, <3>1, Zenon
      <3>4. f + (c - 1) + 0 + (o + 1) + u + h = RecvBuffers
          BY <3>3
      <3> QED
          BY <3>2, <3>4, Zenon
    <2> QED
        BY <2>4, <2>6, <2>7 DEF RecvBuffersConserved, Taken, Idle
  <1> QED
      BY <1>1, <1>3, <1>5, <1>6, <1>7, <1>8, <1>9 DEF RInv

\* The buffers that are free, in a list or with the user.
InLists == Idle + Len(ordered) + Len(userData) + held

LEMMA Regroup ==
    ASSUME NEW f \in Nat, NEW c \in Nat, NEW a \in Nat, NEW o \in Nat, NEW u \in Nat, NEW h \in Nat
    PROVE  f + c + a + o + u + h = (f + o + u + h) + (c + a)
  OBVIOUS

\* A step that leaves ring and AddPacket alone conserves the buffers if it conserves those
\* of the lists.
LEMMA MoveConserved ==
    ASSUME RecvTypeOK, RecvTypeOK', RecvBuffersConserved, UNCHANGED <<queue, adding>>, InLists' = InLists
    PROVE  RecvBuffersConserved'
  <1> DEFINE c == Cardinality(Taken)
             a == IF adding = NoPacket THEN 0 ELSE 1
  <1>1. Taken' = Taken /\ adding' = adding
      BY DEF Taken
  <1>2. c \in Nat /\ a \in Nat
      BY TakenFinite
  <1>3. Idle \in Nat /\ Len(ordered) \in Nat /\ Len(userData) \in Nat /\ held \in Nat
      BY IdleNat DEF RecvTypeOK
  <1>4. Idle' \in Nat /\ Len(ordered') \in Nat /\ Len(userData') \in Nat /\ held' \in Nat
    <2>1. Total(local') \in Nat /\ freeRecv' \in Nat /\ received' \in Nat
        BY RecvPathAssumption, UnitsFinite DEF RecvTypeOK
    <2> QED
        BY <2>1 DEF RecvTypeOK, Idle
  <1>5. Idle + c + a + Len(ordered) + Len(userData) + held = RecvBuffers
      BY Conserved
  <1> HIDE DEF c, a
  <1>6. Idle + c + a + Len(ordered) + Len(userData) + held = InLists + (c + a)
    <2>1. PICK f \in Nat, o \in Nat, u \in Nat, h \in Nat :
             f = Idle /\ o = Len(ordered) /\ u = Len(userData) /\ h = held
        BY <1>3, Zenon
    <2>2. f + c + a + o + u + h = (f + o + u + h) + (c + a)
        BY <1>2, Regroup
    <2>3. InLists = f + o + u + h
        BY <2>1, Zenon DEF InLists
    <2> QED
        BY <2>1, <2>2, <2>3, Zenon
  <1>7. Idle' + c + a + Len(ordered') + Len(userData') + held' = InLists' + (c + a)
    <2>1. PICK f \in Nat, o \in Nat, u \in Nat, h \in Nat :
             f = Idle' /\ o = Len(ordered') /\ u = Len(userData') /\ h = held'
        BY <1>4, Zenon
    <2>2. f + c + a + o + u + h = (f + o + u + h) + (c + a)
        BY <1>2, Regroup
    <2>3. InLists' = f + o + u + h
        BY <2>1, Zenon DEF InLists
    <2> QED
        BY <2>1, <2>2, <2>3, Zenon
  <1>8. Idle' + c + a + Len(ordered') + Len(userData') + held' = RecvBuffers
      BY <1>5, <1>6, <1>7, Zenon
  <1> QED
      BY <1>1, <1>8 DEF RecvBuffersConserved, Taken, Idle, c, a

LEMMA ConcatAssoc == \A s, t, u \in Seq(Nat) : s \o (t \o u) = (s \o t) \o u
  <1> SUFFICES ASSUME NEW s \in Seq(Nat), NEW t \in Seq(Nat), NEW u \in Seq(Nat)
               PROVE  (s \o t) \o u = s \o (t \o u)
      OBVIOUS
  <1>1. /\ s \o t \in Seq(Nat) /\ t \o u \in Seq(Nat)
        /\ Len(s \o t) = Len(s) + Len(t) /\ Len(t \o u) = Len(t) + Len(u)
      BY ConcatProperties
  <1>2. /\ (s \o t) \o u \in Seq(Nat) /\ s \o (t \o u) \in Seq(Nat)
        /\ Len((s \o t) \o u) = (Len(s) + Len(t)) + Len(u)
        /\ Len(s \o (t \o u)) = Len(s) + (Len(t) + Len(u))
      BY <1>1, ConcatProperties
  <1> QED
      BY <1>2, ConcatAssociative

\* The end of ProccessUnorderedPackets, the two halves of Recv and the ReadThreads move
\* buffers from one list to the next: what that leaves to show.
LEMMA MoveRInv ==
    ASSUME RInv, UNCHANGED <<queue, begin, adding, selectiveAcks, ackSideVars>>,
           freeRecv' \in Nat, held' \in Nat, received' \in Nat, local' \in [ReadThreads -> Nat],
           ordered' \in Seq(Nat), userData' \in Seq(Nat), handed' \in Seq(Nat),
           (handed' \o userData') \o ordered' = (handed \o userData) \o ordered,
           InLists' = InLists,
           recvPC' \in {"OnReceive", "AddPacketStore", "Ordering"},
           recvPC' = "AddPacketStore" <=> recvPC = "AddPacketStore",
           OrderedLocal', HoardBound'
    PROVE  RInv'
  <1>1. RecvTypeOK
      BY DEF RInv
  <1>2. RecvTypeOK'
      BY <1>1 DEF RecvTypeOK, ackSideVars
  <1>3. RingSound' /\ AddingSound' /\ HandedInOrder'
      BY DEF RInv, RingSound, AddingSound, HandedInOrder, GetLastAck
  <1>4. RecvBuffersConserved'
      BY <1>1, <1>2, MoveConserved DEF RInv
  <1> QED
      BY <1>2, <1>3, <1>4 DEF RInv

LEMMA OrderDoneRInv == ASSUME RInv, OrderDone, UNCHANGED handed PROVE RInv'
  <1>1. /\ RecvTypeOK /\ handed \in Seq(Nat) /\ ordered \in Seq(Nat) /\ userData \in Seq(Nat)
        /\ freeRecv \in Nat /\ held \in Nat /\ received \in Nat /\ local \in [ReadThreads -> Nat]
      BY DEF RInv, RecvTypeOK
  <1>2. /\ UNCHANGED <<queue, begin, adding, selectiveAcks, ackSideVars>>
        /\ UNCHANGED <<freeRecv, held, handed, local, received>>
        /\ userData' = userData \o ordered /\ ordered' = <<>> /\ recvPC = "Ordering" /\ recvPC' = "OnReceive"
      BY DEF OrderDone, readVars
  <1>3. userData' \in Seq(Nat) /\ ordered' \in Seq(Nat) /\ handed' \in Seq(Nat)
      BY <1>1, <1>2, ConcatProperties
  <1>4. (handed' \o userData') \o ordered' = (handed \o userData) \o ordered
    <2>1. handed \o (userData \o ordered) \in Seq(Nat)
        BY <1>1, ConcatProperties
    <2>2. (handed \o (userData \o ordered)) \o <<>> = handed \o (userData \o ordered)
        BY <2>1, ConcatEmptySeq
    <2>3. handed \o (userData \o ordered) = (handed \o userData) \o ordered
        BY <1>1, ConcatAssoc
    <2> QED
        BY <1>2, <2>2, <2>3
  <1>5. InLists' = InLists
    <2>1. Len(userData') = Len(userData) + Len(ordered) /\ Len(ordered') = 0
        BY <1>1, <1>2, ConcatProperties
    <2>2. Len(userData) \in Nat /\ Len(ordered) \in Nat /\ Idle \in Nat
        BY <1>1, IdleNat
    <2>3. Idle' = Idle
        BY <1>2 DEF Idle
    <2> QED
        BY <1>1, <1>2, <2>1, <2>2, <2>3 DEF InLists
  <1>6. OrderedLocal' /\ HoardBound'
      BY <1>2 DEF RInv, OrderedLocal, HoardBound
  <1> QED
      BY <1>1, <1>2, <1>3, <1>4, <1>5, <1>6, MoveRInv

LEMMA GiveBackRInv == ASSUME RInv, GiveBack PROVE RInv'
  <1>1. /\ RecvTypeOK /\ handed \in Seq(Nat) /\ ordered \in Seq(Nat) /\ userData \in Seq(Nat)
        /\ freeRecv \in Nat /\ held \in Nat /\ recvPC \in {"OnReceive", "AddPacketStore", "Ordering"}
        /\ received \in Nat /\ local \in [ReadThreads -> Nat]
      BY DEF RInv, RecvTypeOK
  <1>2. /\ UNCHANGED <<queue, begin, adding, selectiveAcks, ackSideVars>>
        /\ UNCHANGED <<ordered, userData, handed, recvPC, local, received>>
        /\ freeRecv' = freeRecv + held /\ held' = 0
      BY DEF GiveBack, RecvReturn, readVars
  <1>3. freeRecv' \in Nat /\ held' \in Nat
      BY <1>1, <1>2
  <1>4. InLists' = InLists
    <2>1. PICK f \in Nat, t \in Nat, r \in Nat, o \in Nat, u \in Nat, h \in Nat :
             /\ f = freeRecv /\ t = Total(local) /\ r = received
             /\ o = Len(ordered) /\ u = Len(userData) /\ h = held
      <3>1. Len(userData) \in Nat /\ Len(ordered) \in Nat /\ Total(local) \in Nat
          BY <1>1, IdleNat
      <3> QED
          BY <1>1, <3>1, Zenon
    <2>2. /\ freeRecv' = f + h /\ Total(local') = t /\ received' = r /\ Len(ordered') = o
          /\ Len(userData') = u /\ held' = 0
        BY <1>2, <2>1
    <2>3. f + h + t + r + o + u + 0 = f + t + r + o + u + h
        OBVIOUS
    <2> QED
        BY <2>1, <2>2, <2>3, Zenon DEF InLists, Idle
  <1>5. OrderedLocal' /\ HoardBound'
      BY <1>2 DEF RInv, OrderedLocal, HoardBound
  <1> QED
      BY <1>1, <1>2, <1>3, <1>4, <1>5, MoveRInv

LEMMA TakeRInv == ASSUME RInv, Take PROVE RInv'
  <1>1. /\ RecvTypeOK /\ handed \in Seq(Nat) /\ ordered \in Seq(Nat) /\ userData \in Seq(Nat)
        /\ freeRecv \in Nat /\ held = 0 /\ recvPC \in {"OnReceive", "AddPacketStore", "Ordering"}
        /\ received \in Nat /\ local \in [ReadThreads -> Nat]
      BY DEF RInv, RecvTypeOK, Take, RecvTake
  <1>2. /\ UNCHANGED <<queue, begin, adding, selectiveAcks, ackSideVars>>
        /\ UNCHANGED <<freeRecv, ordered, recvPC, local, received>>
        /\ handed' = handed \o userData /\ userData' = <<>> /\ held' = Len(userData)
      BY DEF Take, RecvTake, readVars
  <1>3. handed' \in Seq(Nat) /\ userData' \in Seq(Nat) /\ held' \in Nat
      BY <1>1, <1>2, ConcatProperties
  <1>4. (handed' \o userData') \o ordered' = (handed \o userData) \o ordered
    <2>1. (handed \o userData) \o <<>> = handed \o userData
        BY <1>1, ConcatProperties, ConcatEmptySeq
    <2> QED
        BY <1>2, <2>1
  <1>5. InLists' = InLists
    <2>1. /\ Len(userData) \in Nat /\ Len(ordered) \in Nat /\ Len(userData') = 0
          /\ Idle \in Nat /\ Idle' = Idle
        BY <1>1, <1>2, IdleNat DEF Idle
    <2> QED
        BY <1>1, <1>2, <2>1 DEF InLists
  <1>6. OrderedLocal' /\ HoardBound'
      BY <1>2 DEF RInv, OrderedLocal, HoardBound
  <1> QED
      BY <1>1, <1>2, <1>3, <1>4, <1>5, <1>6, MoveRInv

\* A ReadThread moves buffers between its list, the free queue and _recvQueue.
LEMMA ReadThreadRInv ==
    ASSUME RInv, UNCHANGED <<handed, queue, begin, adding, ordered, userData, held, recvPC,
                             selectiveAcks, ackSideVars>>,
           NEW t \in ReadThreads, NEW m \in Nat, local' = [local EXCEPT ![t] = m],
           m <= UDPMaxSegments - 1 + ReadBatch, freeRecv' \in Nat, received' \in Nat,
           freeRecv' + m + received' = freeRecv + local[t] + received
    PROVE  RInv'
  <1>1. /\ RecvTypeOK /\ handed \in Seq(Nat) /\ ordered \in Seq(Nat) /\ userData \in Seq(Nat)
        /\ freeRecv \in Nat /\ held \in Nat /\ recvPC \in {"OnReceive", "AddPacketStore", "Ordering"}
        /\ received \in Nat /\ local \in [ReadThreads -> Nat] /\ OrderedLocal /\ HoardBound
      BY DEF RInv, RecvTypeOK
  <1>2. local' \in [ReadThreads -> Nat] /\ local[t] \in Nat
      BY <1>1
  <1>3. HoardBound'
      BY <1>1 DEF HoardBound
  <1>4. OrderedLocal'
      BY <1>1 DEF OrderedLocal
  <1>5. InLists' = InLists
    <2>1. Total(local) \in Nat /\ Total(local') \in Nat /\ Total(local') + local[t] = Total(local) + m
      <3>1. PICK f \in [ReadThreads -> Nat], g \in [ReadThreads -> Nat] : f = local /\ g = local'
          BY <1>1, <1>2
      <3>2. IsFiniteSet(ReadThreads) /\ Changes(f, t, m, g)
          BY <3>1, RecvPathAssumption DEF Changes
      <3>3. Total(f) \in Nat /\ Total(g) \in Nat /\ Total(g) + f[t] = Total(f) + m
          BY <3>2, TotalChange
      <3> QED
          BY <3>1, <3>3
    <2>2. Idle' = Idle
      <3>1. PICK x \in Nat, y \in Nat, l \in Nat : x = Total(local) /\ y = Total(local') /\ l = local[t]
          BY <1>2, <2>1
      <3>2. y + l = x + m
          BY <2>1, <3>1
      <3>3. PICK a \in Nat, b \in Nat, c \in Nat, d \in Nat :
               a = freeRecv' /\ b = received' /\ c = freeRecv /\ d = received
          BY <1>1, Zenon
      <3>4. a + m + b = c + l + d
          BY <3>1, <3>3, Zenon
      <3>5. a + y + b = c + x + d
          BY <3>2, <3>4
      <3> QED
          BY <3>1, <3>3, <3>5, Zenon DEF Idle
    <2> QED
        BY <2>2 DEF InLists
  <1> QED
      BY <1>1, <1>2, <1>3, <1>4, <1>5, MoveRInv

LEMMA RefillRInv == ASSUME RInv, UNCHANGED handed, NEW t \in ReadThreads, Refill(t) PROVE RInv'
  <1>1. /\ freeRecv \in Nat /\ received \in Nat /\ local[t] \in Nat
        /\ local[t] < UDPMaxSegments /\ received' = received
        /\ UNCHANGED <<queue, begin, adding, ordered, userData, held, recvPC, selectiveAcks, ackSideVars>>
      BY DEF RInv, RecvTypeOK, Refill
  <1>2. PICK n \in Nat : /\ n <= freeRecv /\ n <= ReadBatch
                         /\ local' = [local EXCEPT ![t] = @ + n] /\ freeRecv' = freeRecv - n
    <2> DEFINE n == IF freeRecv < ReadBatch THEN freeRecv ELSE ReadBatch
    <2>1. n \in Nat /\ n <= freeRecv /\ n <= ReadBatch
        BY <1>1, RecvPathAssumption
    <2>2. local' = [local EXCEPT ![t] = @ + n] /\ freeRecv' = freeRecv - n
        BY DEF Refill
    <2> HIDE DEF n
    <2> QED
        BY <2>1, <2>2
  <1>3. PICK m \in Nat : m = local[t] + n
      BY <1>1
  <1>4. local' = [local EXCEPT ![t] = m]
      BY <1>2, <1>3
  <1>5. m <= UDPMaxSegments - 1 + ReadBatch
      BY <1>1, <1>2, <1>3, RecvPathAssumption
  <1>6. /\ freeRecv' \in Nat /\ received' \in Nat
        /\ freeRecv' + m + received' = freeRecv + local[t] + received
      BY <1>1, <1>2, <1>3
  <1> QED
      BY <1>1, <1>4, <1>5, <1>6, ReadThreadRInv

LEMMA ReadSocketRInv ==
    ASSUME RInv, UNCHANGED handed, NEW t \in ReadThreads, NEW n \in Nat, ReadSocket(t, n)
    PROVE  RInv'
  <1>1. /\ freeRecv \in Nat /\ received \in Nat /\ local[t] \in Nat
        /\ local[t] <= UDPMaxSegments - 1 + ReadBatch
        /\ n <= local[t] /\ local' = [local EXCEPT ![t] = @ - n]
        /\ received' = received + n /\ freeRecv' = freeRecv
        /\ UNCHANGED <<queue, begin, adding, ordered, userData, held, recvPC, selectiveAcks, ackSideVars>>
      BY DEF RInv, RecvTypeOK, HoardBound, ReadSocket
  <1>2. PICK m \in Nat : m = local[t] - n
      BY <1>1
  <1>3. local' = [local EXCEPT ![t] = m]
      BY <1>1, <1>2
  <1>4. m <= UDPMaxSegments - 1 + ReadBatch
      BY <1>1, <1>2, RecvPathAssumption
  <1>5. /\ freeRecv' \in Nat /\ received' \in Nat
        /\ freeRecv' + m + received' = freeRecv + local[t] + received
      BY <1>1, <1>2
  <1> QED
      BY <1>1, <1>3, <1>4, <1>5, ReadThreadRInv

\* The SendThread's steps touch no packet.
LEMMA AckRInv ==
    ASSUME RInv, UNCHANGED <<queueSideVars, handed>>,
           selectiveAcks' \subseteq Nat, acks' \subseteq Nat, lastAckRead' \in Nat,
           ackPC' \in {"GetSelectiveAcks", "Build"}
    PROVE  RInv'
  <1>1. UNCHANGED <<freeRecv, local, received, queue, begin, adding, ordered, userData, held, recvPC, handed>>
      BY DEF queueSideVars, readVars
  <1>2. RecvTypeOK'
      BY <1>1 DEF RInv, RecvTypeOK
  <1>3. /\ RingSound' /\ AddingSound' /\ OrderedLocal' /\ HoardBound'
        /\ HandedInOrder' /\ handed' \in Seq(Nat)
      BY <1>1 DEF RInv, RingSound, AddingSound, OrderedLocal, HoardBound, HandedInOrder, GetLastAck
  <1>4. RecvBuffersConserved'
      BY <1>1 DEF RInv, RecvBuffersConserved
  <1> QED
      BY <1>2, <1>3, <1>4 DEF RInv

LEMMA SendThreadRInv ==
    ASSUME RInv, UNCHANGED handed,
           GetSelectiveAcks \/ DropAcks \/ \E chunk \in SUBSET acks : BuildSack(chunk)
    PROVE  RInv'
  <1>1. /\ selectiveAcks \subseteq Nat /\ acks \subseteq Nat /\ lastAckRead \in Nat /\ begin \in Nat \ {0}
        /\ ackPC \in {"GetSelectiveAcks", "Build"}
      BY DEF RInv, RecvTypeOK
  <1>2. UNCHANGED queueSideVars /\ selectiveAcks' \subseteq selectiveAcks /\ acks' \subseteq selectiveAcks \cup acks
      BY DEF GetSelectiveAcks, DropAcks, BuildSack
  <1>3. lastAckRead' \in Nat /\ ackPC' \in {"GetSelectiveAcks", "Build"}
      BY <1>1 DEF GetSelectiveAcks, DropAcks, BuildSack, GetLastAck
  <1> QED
      BY <1>1, <1>2, <1>3, AckRInv

LEMMA NextRInv == RInv /\ [NetNext]_netRecvVars => RInv'
  <1> SUFFICES ASSUME RInv, [NetNext]_netRecvVars PROVE RInv'
      OBVIOUS
  <1>1. CASE \E s \in 1..MaxSeq : Arrive(s)
      BY <1>1, ArriveRInv
  <1>2. CASE RecvStep
      BY <1>2, StoreRInv, OrderNextRInv, OrderDoneRInv DEF RecvStep
  <1>3. CASE GiveBack \/ Take
      BY <1>3, GiveBackRInv, TakeRInv
  <1>4. CASE \/ GetSelectiveAcks /\ UNCHANGED handed
             \/ \E chunk \in SUBSET acks : BuildSack(chunk) /\ UNCHANGED handed
             \/ DropAcks /\ UNCHANGED handed
      BY <1>4, SendThreadRInv
  <1>5. CASE UNCHANGED netRecvVars
    <2>1. UNCHANGED <<queueSideVars, handed>> /\ UNCHANGED <<selectiveAcks, acks, lastAckRead, ackPC>>
        BY <1>5 DEF netRecvVars, recvVars, ackSideVars
    <2> QED
        BY <2>1, AckRInv DEF RInv, RecvTypeOK
  <1>6. CASE \E t \in ReadThreads : Refill(t) /\ UNCHANGED handed
      BY <1>6, RefillRInv
  <1>7. CASE Read
    <2>1. PICK t \in ReadThreads : \E n \in 1..local[t] : ReadSocket(t, n) /\ UNCHANGED handed
        BY <1>7 DEF Read
    <2>2. PICK n \in 1..local[t] : ReadSocket(t, n) /\ UNCHANGED handed
        BY <2>1
    <2>3. n \in Nat
        BY DEF RInv, RecvTypeOK
    <2> QED
        BY <2>2, <2>3, ReadSocketRInv
  <1> QED
      BY <1>1, <1>2, <1>3, <1>4, <1>5, <1>6, <1>7 DEF NetNext

LEMMA RInvAlways == NetSpec => []RInv
  BY InitRInv, NextRInv, PTL DEF NetSpec

\* Packets may arrive in any order and any number of times: RecvQueue hands them out as
\* 1, 2, 3..., each once, whatever the ring size, wherever between the ring, the list of
\* ProccessUnorderedPackets, the user's list and the user they are.
THEOREM StreamInOrder == NetSpec => []HandedInOrder
  <1>1. RInv => HandedInOrder
      BY DEF RInv
  <1> QED
      BY <1>1, RInvAlways, PTL

\* Neither duplicates nor packets outside the window cost AddPacket a receive buffer, and
\* Recv gives back what it took: the buffers add up in every state.
THEOREM BuffersConserved == NetSpec => []RecvBuffersConserved
  <1>1. RInv => RecvBuffersConserved
      BY DEF RInv
  <1> QED
      BY <1>1, RInvAlways, PTL

\* When no buffer is free or to come, the ring lacks the packet begin, so it holds at
\* most QueueSize - 1 of the buffers, and the lists of the ReadThreads hold the rest.
LEMMA NoneToCome ==
    ASSUME RInv, ~BufferToCome
    PROVE  RecvBuffers <= QueueSize - 1 + Total(local)
  <1>1. /\ freeRecv \in Nat /\ held \in Nat /\ received \in Nat /\ begin \in Nat
        /\ ~(freeRecv > 0) /\ ~(received > 0) /\ ~(held > 0)
        /\ userData = <<>> /\ adding = NoPacket /\ ordered = <<>> /\ queue[begin % QueueSize] = NoPacket
      BY DEF RInv, RecvTypeOK, AddingSound, OrderedLocal, BufferToCome
  <1>2. freeRecv = 0 /\ held = 0 /\ received = 0
      BY <1>1
  <1>3. begin % QueueSize \in Slots /\ begin % QueueSize \notin Taken
      BY <1>1, SlotType DEF Taken
  <1>4. Cardinality(Taken) <= QueueSize - 1
    <2>1. Taken \in SUBSET Slots
        BY DEF Taken
    <2>2. Cardinality(Taken) <= QueueSize /\ Cardinality(Taken) # QueueSize
        BY <1>3, <2>1, SlotsFinite, FS_Subset
    <2> QED
        BY <2>2, TakenFinite, RecvPathAssumption
  <1>5. Total(local) \in Nat
      BY IdleNat DEF RInv
  <1>6. Idle = Total(local)
      BY <1>2, <1>5 DEF Idle
  <1>7. Total(local) + Cardinality(Taken) + 0 + 0 + 0 + 0 = RecvBuffers
      BY <1>1, <1>2, <1>6, Conserved DEF RInv
  <1> QED
      BY <1>4, <1>5, <1>7, TakenFinite, RecvPathAssumption

\* Every ReadThread can read or has a buffer to come, with as many buffers as RecvQueue
\* and the other ReadThreads can keep from it, and one of them can with fewer: for every
\* ring size and any number of ReadThreads, of buffers a read needs and of buffers a
\* ReadThread takes at once.
THEOREM ReadThreadNotStarved == NetSpec => []ReceiverNotStarved
  <1>1. RInv => ReceiverNotStarved
    <2> SUFFICES ASSUME RInv, ~BufferToCome PROVE ReceiverNotStarved
        BY DEF ReceiverNotStarved
    <2> DEFINE n == Cardinality(ReadThreads)
    <2>1. /\ IsFiniteSet(ReadThreads) /\ n \in Nat /\ Total(local) \in Nat
          /\ RecvBuffers <= QueueSize - 1 + Total(local)
          /\ local \in [ReadThreads -> Nat] /\ HoardBound
        BY NoneToCome, IdleNat, RecvPathAssumption, FS_CardinalityType DEF RInv, RecvTypeOK
    <2>2. PICK a \in Nat : a = UDPMaxSegments - 1
        BY RecvPathAssumption
    <2>3. ASSUME RecvBuffers > ShortLists, \A t \in ReadThreads : ~(local[t] >= UDPMaxSegments)
          PROVE  FALSE
      <3>1. \A t \in ReadThreads : local[t] <= a
          BY <2>1, <2>2, <2>3, RecvPathAssumption
      <3>2. Total(local) <= n * a
          BY <2>1, <3>1, TotalAtMost
      <3>3. n * a \in Nat
          BY <2>1, SMT
      <3>4. ShortLists = QueueSize - 1 + n * a
          BY <2>2 DEF ShortLists
      <3> HIDE DEF n
      <3> QED
          BY <2>1, <2>3, <3>2, <3>3, <3>4, RecvPathAssumption
    <2>4. ASSUME RecvBuffers > ShortLists + (n - 1) * ReadBatch,
                 NEW t \in ReadThreads, ~(local[t] >= UDPMaxSegments)
          PROVE  FALSE
      <3>1. local[t] <= a /\ \A k \in ReadThreads : local[k] <= a + ReadBatch
        <4>1. local[t] <= a
            BY <2>1, <2>2, <2>4, RecvPathAssumption
        <4>2. \A k \in ReadThreads : local[k] <= a + ReadBatch
            BY <2>1, <2>2 DEF HoardBound
        <4> QED
            BY <4>1, <4>2
      <3>2. Total(local) <= n * a + (n - 1) * ReadBatch
          BY <2>1, <3>1, TotalAtMostBut, RecvPathAssumption
      <3>3. n * a \in Int /\ (n - 1) * ReadBatch \in Int
          BY <2>1, RecvPathAssumption, SMT
      <3>4. ShortLists = QueueSize - 1 + n * a
          BY <2>2 DEF ShortLists
      <3> HIDE DEF n
      <3> QED
          BY <2>1, <2>4, <3>2, <3>3, <3>4, RecvPathAssumption
    <2> QED
        BY <2>3, <2>4 DEF ReceiverNotStarved
  <1> QED
      BY <1>1, RInvAlways, PTL
=============================================================================
