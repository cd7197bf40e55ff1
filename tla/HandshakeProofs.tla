---------------------------- MODULE HandshakeProofs ----------------------------
(***************************************************************************)
(* The handshake, for any number of connections and of losses: the client  *)
(* sends data only to a connection that is ready for it, and once it has,  *)
(* no lost update of _connectionState takes it out of DataState.           *)
(***************************************************************************)
EXTENDS Handshake, TLAPS

\* RunRead takes a timeout of WaitingSynAckState alone.
TimeOutWaits == cRun # Idle /\ cRun.timedOut => cRun.state = "WaitingSynAck"

\* Whatever the server has sent comes from a connection in DataState, and stays
\* so on its way through the client's RecvThread; so does what the client sends.
NetReady ==
    /\ \A m \in net : m # Syn => m.id \in IDs /\ conns[m.id] = "Data"
    /\ cRecv # Idle => cRecv.packet.id \in IDs /\ conns[cRecv.packet.id] = "Data"

\* DataState, in the client or in what one of its threads has read, comes after
\* the destination: the RecvThread writes _connected before the state.
DestReady ==
    /\ cConnected => cDest \in IDs /\ conns[cDest] = "Data"
    /\ cState = "Data" => cConnected
    /\ cRecv # Idle /\ cRecv.state = "Data" => cConnected

\* Nothing but Run takes the client out of DataState, so what Run has read of
\* DataState is still true.
Settled == cState = "Data" /\ (cRun = Idle \/ cRun.state = "Data")
RunUpToDate == cRun # Idle /\ cRun.state = "Data" => cState = "Data"

\* A client that has sent data is settled.
DataSettled == (heard # {} \/ \E m \in net : m.type = "ClientData") => Settled

\* A Sack answers data, and finds the client that sent it in DataState.
SackSettled ==
    /\ \A m \in net : m.type = "Sack" => heard # {}
    /\ cRecv # Idle /\ cRecv.packet.type = "Sack" => cRecv.state = "Data"

HInv ==
    /\ TypeOK /\ TimeOutWaits /\ NetReady /\ DestReady /\ RunUpToDate /\ DataSettled /\ SackSettled
    /\ NoWrongPacketType
-----------------------------------------------------------------------------

LEMMA PacketFacts ==
    /\ Syn \in Packets /\ Syn.type = "Syn"
    /\ \A t \in {"SynAck", "Data", "Sack", "ClientData"}, d \in IDs :
          /\ Packet(t, d) \in Packets /\ Packet(t, d) # Syn
          /\ Packet(t, d).type = t /\ Packet(t, d).id = d
    /\ \A m \in Packets : m # Syn => m.id \in IDs
    /\ \A m \in Packets : m.type # "Syn" => m # Syn
  <1> DEFINE T == {"SynAck", "Data", "Sack", "ClientData"}
  <1>1. \A t, d : Packet(t, d).type = t /\ Packet(t, d).id = d
      BY DEF Packet
  <1>2. Syn \in Packets /\ Syn.type = "Syn"
      BY <1>1 DEF Packets, Syn
  <1>3. \A t \in T, d \in IDs : Packet(t, d) \in Packets
      BY DEF Packets
  <1>4. \A t \in T, d \in IDs : Packet(t, d) # Syn
      BY <1>1, <1>2
  <1>5. \A m \in Packets : m # Syn => \E t \in T, d \in IDs : m = Packet(t, d)
      BY DEF Packets
  <1> QED
      BY <1>1, <1>2, <1>3, <1>4, <1>5

\* A read record is not Idle: it has the fields that Idle lacks.
LEMMA ReadNotIdle ==
    /\ \A s \in States, t \in BOOLEAN : [state |-> s, timedOut |-> t] # Idle
    /\ \A s \in States, m \in Packets : [state |-> s, packet |-> m] # Idle
  BY DEF States, Idle

LEMMA InitHInv == Init => HInv
  <1> SUFFICES ASSUME Init PROVE HInv
      OBVIOUS
  <1>1. lost \in 0..MaxLosses
      BY HandshakeAssumption DEF Init
  <1>2. TypeOK
      BY <1>1 DEF Init, TypeOK, States
  <1>3. TimeOutWaits /\ NetReady /\ DestReady /\ RunUpToDate
      BY DEF Init, TimeOutWaits, NetReady, DestReady, RunUpToDate
  <1>4. DataSettled /\ SackSettled /\ NoWrongPacketType
      BY DEF Init, DataSettled, SackSettled, NoWrongPacketType
  <1> QED
      BY <1>2, <1>3, <1>4 DEF HInv

\* UDP loses no more than it may.
LEMMA CarryLost ==
    ASSUME TypeOK, NEW m, Carry(m)
    PROVE  net' \subseteq net \cup {m} /\ lost' \in 0..MaxLosses
  <1>1. lost \in 0..MaxLosses
      BY DEF TypeOK
  <1>2. CASE net' = net \cup {m} /\ UNCHANGED lost
      BY <1>1, <1>2
  <1>3. CASE lost < MaxLosses /\ lost' = lost + 1 /\ UNCHANGED net
      BY <1>1, <1>3, HandshakeAssumption
  <1> QED
      BY <1>2, <1>3 DEF Carry

\* RunRead: the state it reads is the one that is there.
LEMMA RunReadHInv == ASSUME HInv, NEW t \in BOOLEAN, RunRead(t) PROVE HInv'
  <1>1. TypeOK' /\ TimeOutWaits'
      BY DEF HInv, TypeOK, TimeOutWaits, RunRead, serverVars
  <1>2. NetReady' /\ DestReady' /\ SackSettled' /\ NoWrongPacketType'
      BY DEF HInv, NetReady, DestReady, SackSettled, NoWrongPacketType, RunRead, serverVars
  <1>3. RunUpToDate' /\ DataSettled'
      BY DEF HInv, RunUpToDate, DataSettled, Settled, RunRead, serverVars
  <1> QED
      BY <1>1, <1>2, <1>3 DEF HInv

\* RunWrite: it leaves DataState only when it has not read it, and then no data
\* has been sent.
LEMMA RunWriteHInv == ASSUME HInv, RunWrite PROVE HInv'
  <1> USE PacketFacts
  <1>1. /\ cRun \in [state : States, timedOut : BOOLEAN] /\ cRun' = Idle /\ cState' = RunState(cRun)
        /\ UNCHANGED <<cConnected, cDest, cRecv, thrown, conns, accepted, heard>>
      BY DEF HInv, TypeOK, RunWrite, serverVars
  <1>2. cState' \in States /\ (cState' = "Data" <=> cRun.state = "Data")
      BY <1>1 DEF HInv, TimeOutWaits, RunState, States, RunWrite
  <1>3. /\ net' \subseteq net \cup {Syn} \/ (cRun.state = "Data" /\ net' \subseteq net \cup {Packet("ClientData", cDest)})
        /\ lost' \in 0..MaxLosses
    <2>1. CASE Carry(Syn)
        BY <2>1, CarryLost DEF HInv
    <2>2. CASE ~Carry(Syn)
        BY <2>2 DEF HInv, TypeOK, RunWrite
    <2> QED
        BY <2>1, <2>2
  <1>4. cRun.state = "Data" => cState = "Data" /\ cConnected /\ cDest \in IDs /\ conns[cDest] = "Data"
      BY <1>1 DEF HInv, RunUpToDate, DestReady, RunWrite
  <1>5. TypeOK'
    <2>1. net \subseteq Packets
        BY DEF HInv, TypeOK
    <2>2. net' \subseteq Packets
        BY <1>3, <1>4, <2>1
    <2> QED
        BY <1>1, <1>2, <1>3, <2>2 DEF HInv, TypeOK
  <1>6. TimeOutWaits' /\ RunUpToDate'
      BY <1>1 DEF TimeOutWaits, RunUpToDate
  <1>7. NetReady'
      BY <1>1, <1>3, <1>4 DEF HInv, NetReady
  <1>8. DestReady'
      BY <1>1, <1>2, <1>4 DEF HInv, DestReady
  <1>9. DataSettled'
    <2>1. CASE cRun.state = "Data"
        BY <2>1, <1>1, <1>2 DEF DataSettled, Settled
    <2>2. CASE cRun.state # "Data"
      <3>1. ~(heard # {} \/ \E m \in net : m.type = "ClientData")
          BY <2>2 DEF HInv, DataSettled, Settled, RunWrite
      <3> QED
          BY <3>1, <2>2, <1>1, <1>3 DEF DataSettled
    <2> QED
        BY <2>1, <2>2
  <1>10. SackSettled' /\ NoWrongPacketType'
    <2>1. \A m \in net' : m.type = "Sack" => m \in net
        BY <1>3, <1>4
    <2> QED
        BY <1>1, <2>1 DEF HInv, SackSettled, NoWrongPacketType
  <1> QED
      BY <1>5, <1>6, <1>7, <1>8, <1>9, <1>10 DEF HInv

LEMMA DeliverNet == ASSUME NEW m, Deliver(m) PROVE m \in net /\ net' \subseteq net /\ lost' = lost
  BY DEF Deliver

LEMMA RecvReadHInv == ASSUME HInv, NEW m \in net, RecvRead(m) PROVE HInv'
  <1>1. /\ m \in Packets /\ m.type # "Syn" /\ net' \subseteq net /\ lost' = lost
        /\ cRecv' = [state |-> cState, packet |-> m] /\ cRecv' # Idle
        /\ UNCHANGED <<cState, cConnected, cDest, cRun, thrown, conns, accepted, heard>>
      BY DeliverNet, ReadNotIdle DEF HInv, TypeOK, RecvRead, serverVars, ToClient
  <1>2. TypeOK'
      BY <1>1 DEF HInv, TypeOK
  <1>3. NetReady'
      BY <1>1, PacketFacts DEF HInv, NetReady
  <1>4. DestReady' /\ TimeOutWaits' /\ RunUpToDate' /\ NoWrongPacketType'
      BY <1>1 DEF HInv, DestReady, TimeOutWaits, RunUpToDate, NoWrongPacketType
  <1>5. DataSettled' /\ SackSettled'
      BY <1>1 DEF HInv, DataSettled, SackSettled, Settled
  <1> QED
      BY <1>2, <1>3, <1>4, <1>5 DEF HInv

\* RecvWrite: no Sack meets WaitingSynAckState, and every handler ends in DataState
\* with a destination.
LEMMA RecvWriteHInv == ASSUME HInv, RecvWrite PROVE HInv'
  <1> DEFINE m == cRecv.packet
  <1>1. /\ cRecv # Idle /\ cRecv \in [state : States, packet : Packets]
        /\ cRecv' = Idle /\ UNCHANGED <<cRun, conns, accepted, heard, net, lost>>
      BY DEF HInv, TypeOK, RecvWrite, serverVars
  <1>2. m \in Packets /\ m.id \in IDs /\ conns[m.id] = "Data"
      BY <1>1 DEF HInv, NetReady
  <1>3. CASE cRecv.state = "SendingSyn"
    <2>1. thrown' = "Not implemented" /\ UNCHANGED <<cState, cConnected, cDest>>
        BY <1>3 DEF RecvWrite
    <2>2. TypeOK' /\ TimeOutWaits' /\ NetReady'
        BY <1>1, <2>1 DEF HInv, TypeOK, TimeOutWaits, NetReady
    <2>3. DestReady' /\ RunUpToDate' /\ DataSettled' /\ SackSettled' /\ NoWrongPacketType'
        BY <1>1, <2>1 DEF HInv, DestReady, RunUpToDate, DataSettled, Settled, SackSettled, NoWrongPacketType
    <2> QED
        BY <2>2, <2>3 DEF HInv
  <1>4. CASE cRecv.state # "SendingSyn"
    <2>1. ~(cRecv.state = "WaitingSynAck" /\ m.type = "Sack")
        BY <1>1 DEF HInv, SackSettled
    <2>2. /\ IF cRecv.state = "WaitingSynAck"
             THEN cDest' = m.id /\ cConnected' = TRUE
             ELSE cDest' = cDest /\ cConnected' = cConnected
          /\ cState' = "Data" /\ thrown' = thrown
        BY <1>4, <2>1 DEF RecvWrite, RecvState
    <2>3. cConnected' /\ cDest' \in IDs /\ conns'[cDest'] = "Data"
      <3>1. CASE cRecv.state = "WaitingSynAck"
          BY <3>1, <1>1, <1>2, <2>2
      <3>2. CASE cRecv.state = "Data"
          BY <3>2, <1>1, <2>2 DEF HInv, DestReady
      <3> QED
          BY <3>1, <3>2, <1>1, <1>4 DEF States
    <2>4. TypeOK' /\ TimeOutWaits' /\ NetReady'
      <3>1. cConnected' \in BOOLEAN /\ cState' \in States
          BY <2>2 DEF States, HInv, TypeOK
      <3> QED
          BY <1>1, <2>2, <2>3, <3>1 DEF HInv, TypeOK, TimeOutWaits, NetReady
    <2>5. DestReady' /\ RunUpToDate' /\ SackSettled' /\ NoWrongPacketType'
        BY <1>1, <2>2, <2>3 DEF HInv, DestReady, RunUpToDate, SackSettled, NoWrongPacketType
    <2>6. DataSettled'
        BY <1>1, <2>2 DEF HInv, DataSettled, Settled
    <2> QED
        BY <2>4, <2>5, <2>6 DEF HInv
  <1> QED
      BY <1>3, <1>4

\* The server only ever takes a connection forward, and sends for connections in
\* DataState alone: what that leaves to show of a step of the server.
LEMMA ServerHInv ==
    ASSUME HInv, UNCHANGED clientVars,
           conns' \in [IDs -> {"none", "SendingSynAck", "Data"}],
           \A d \in IDs : conns[d] = "Data" => conns'[d] = "Data",
           accepted' \subseteq IDs, heard' \subseteq IDs, heard \subseteq heard', lost' \in 0..MaxLosses,
           heard' # {} => heard # {} \/ \E m \in net : m.type = "ClientData",
           \A m \in net' : \/ m \in net
                           \/ /\ m \in Packets /\ m.type # "ClientData" /\ m.id \in IDs /\ conns'[m.id] = "Data"
                              /\ m.type = "Sack" => heard # {}
    PROVE  HInv'
  <1>1. UNCHANGED <<cState, cConnected, cDest, cRun, cRecv, thrown>>
      BY DEF clientVars
  <1>2. TypeOK' /\ TimeOutWaits' /\ RunUpToDate' /\ NoWrongPacketType'
      BY <1>1 DEF HInv, TypeOK, TimeOutWaits, RunUpToDate, NoWrongPacketType
  <1>3. NetReady'
      BY <1>1 DEF HInv, NetReady
  <1>4. DestReady'
      BY <1>1 DEF HInv, DestReady
  <1>5. DataSettled'
    <2>1. (heard' # {} \/ \E m \in net' : m.type = "ClientData") => Settled
        BY DEF HInv, DataSettled
    <2> QED
        BY <2>1, <1>1 DEF DataSettled, Settled
  <1>6. SackSettled'
      BY <1>1 DEF HInv, SackSettled
  <1> QED
      BY <1>2, <1>3, <1>4, <1>5, <1>6 DEF HInv

LEMMA ListenHInv == ASSUME HInv, Listen PROVE HInv'
  <1>1. net' \subseteq net /\ lost' = lost /\ UNCHANGED <<accepted, heard>> /\ UNCHANGED clientVars
      BY DeliverNet DEF Listen
  <1>2. PICK d \in IDs : conns[d] = "none" /\ conns' = [conns EXCEPT ![d] = "SendingSynAck"]
      BY DEF Listen
  <1>3. TypeOK
      BY DEF HInv
  <1>4. /\ conns' \in [IDs -> {"none", "SendingSynAck", "Data"}]
        /\ \A e \in IDs : conns[e] = "Data" => conns'[e] = "Data"
      BY <1>2, <1>3 DEF TypeOK
  <1>5. accepted' \subseteq IDs /\ heard' \subseteq IDs /\ lost' \in 0..MaxLosses
      BY <1>1, <1>3 DEF TypeOK
  <1> QED
      BY <1>1, <1>4, <1>5, ServerHInv

LEMMA SendSynAckHInv == ASSUME HInv, NEW d \in IDs, SendSynAck(d) PROVE HInv'
  <1>1. TypeOK
      BY DEF HInv
  <1>2. /\ UNCHANGED clientVars /\ UNCHANGED <<accepted, heard>>
        /\ conns' = [conns EXCEPT ![d] = "Data"] /\ net' \subseteq net \cup {Packet("SynAck", d)}
      BY <1>1, CarryLost DEF SendSynAck
  <1>3. /\ conns' \in [IDs -> {"none", "SendingSynAck", "Data"}] /\ conns'[d] = "Data"
        /\ \A e \in IDs : conns[e] = "Data" => conns'[e] = "Data"
      BY <1>1, <1>2 DEF TypeOK
  <1>4. lost' \in 0..MaxLosses
      BY <1>1, CarryLost DEF SendSynAck
  <1>5. accepted' \subseteq IDs /\ heard' \subseteq IDs
      BY <1>1, <1>2 DEF TypeOK
  <1>6. \A m \in net' : \/ m \in net
                        \/ /\ m \in Packets /\ m.type # "ClientData" /\ m.id \in IDs /\ conns'[m.id] = "Data"
                           /\ m.type = "Sack" => heard # {}
      BY <1>2, <1>3, PacketFacts
  <1> QED
      BY <1>2, <1>3, <1>4, <1>5, <1>6, ServerHInv

LEMMA AcceptHInv == ASSUME HInv, NEW d \in IDs, Accept(d) PROVE HInv'
  <1>1. TypeOK
      BY DEF HInv
  <1>2. UNCHANGED clientVars /\ UNCHANGED <<conns, heard, net, lost>> /\ accepted' \subseteq IDs
      BY <1>1 DEF Accept, TypeOK
  <1> QED
      BY <1>1, <1>2, ServerHInv DEF TypeOK

LEMMA ServerSendHInv == ASSUME HInv, NEW d \in IDs, ServerSend(d) PROVE HInv'
  <1>1. TypeOK
      BY DEF HInv
  <1>2. /\ UNCHANGED clientVars /\ UNCHANGED <<conns, accepted, heard, lost>> /\ conns[d] = "Data"
        /\ \/ net' = net \cup {Packet("Data", d)}
           \/ heard # {} /\ net' = net \cup {Packet("Sack", d)}
      BY DEF ServerSend, serverVars
  <1>3. \A m \in net' : \/ m \in net
                        \/ /\ m \in Packets /\ m.type # "ClientData" /\ m.id \in IDs /\ conns'[m.id] = "Data"
                           /\ m.type = "Sack" => heard # {}
      BY <1>2, PacketFacts
  <1> QED
      BY <1>1, <1>2, <1>3, ServerHInv DEF TypeOK

LEMMA ServerRecvHInv == ASSUME HInv, NEW d \in IDs, ServerRecv(d) PROVE HInv'
  <1>1. TypeOK
      BY DEF HInv
  <1>2. /\ UNCHANGED clientVars /\ UNCHANGED <<conns, accepted>> /\ heard' = heard \cup {d}
        /\ net' \subseteq net /\ lost' = lost /\ Packet("ClientData", d) \in net
      BY DeliverNet DEF ServerRecv
  <1>3. heard' \subseteq IDs /\ heard \subseteq heard'
      BY <1>1, <1>2 DEF TypeOK
  <1>4. \E m \in net : m.type = "ClientData"
      BY <1>2, PacketFacts
  <1> QED
      BY <1>1, <1>2, <1>3, <1>4, ServerHInv DEF TypeOK

LEMMA StutterHInv == ASSUME HInv, UNCHANGED vars PROVE HInv'
  BY DEF vars, clientVars, serverVars, HInv, TypeOK, TimeOutWaits, NetReady, DestReady, RunUpToDate,
         DataSettled, Settled, SackSettled, NoWrongPacketType

LEMMA NextHInv == HInv /\ [Next]_vars => HInv'
  BY RunReadHInv, RunWriteHInv, RecvReadHInv, RecvWriteHInv, ListenHInv, SendSynAckHInv, AcceptHInv,
     ServerSendHInv, ServerRecvHInv, StutterHInv DEF Next

LEMMA HInvAlways == Spec => []HInv
  BY InitHInv, NextHInv, PTL DEF Spec

\* The states, the records the two threads hold between their read and their write, the
\* packets and the connections are what the code can make of them; no third thread state
\* or connection without an ID arises.
THEOREM HandshakeTypes == Spec => []TypeOK
  BY HInvAlways, PTL DEF HInv

\* However often the Syn and the SynAck are lost, repeated or reordered, and whichever of
\* the server's connections answers last: the client's _destinationId, once _connected is
\* set, and the destination of all it has sent are connections in DataState.
THEOREM PeerIsReady == Spec => []PeerReady
  <1>1. HInv => PeerReady
    <2> SUFFICES ASSUME HInv PROVE PeerReady
        OBVIOUS
    <2>1. \A m \in net : m.type = "ClientData" => m # Syn
        BY PacketFacts
    <2> QED
        BY <2>1 DEF HInv, PeerReady, DestReady, NetReady
  <1> QED
      BY <1>1, HInvAlways, PTL

\* Connection::Run and OnRecvPackets write _connectionState back without a lock; the lost
\* update this allows ends with the first data the client sends: from then on both the
\* state and what Run has read of it are DataState.
THEOREM SentDataSettles == Spec => []NoWayBack
  <1>1. HInv => NoWayBack
      BY DEF HInv, NoWayBack, DataSettled, Settled
  <1> QED
      BY <1>1, HInvAlways, PTL

\* WaitingSynAckState::OnRecvPackets never meets a Sack, so it never throws
\* "Wrong packet type".
THEOREM NoSackWhileWaiting == Spec => []NoWrongPacketType
  <1>1. HInv => NoWrongPacketType
      BY DEF HInv
  <1> QED
      BY <1>1, HInvAlways, PTL
=============================================================================
