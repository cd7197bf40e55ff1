------------------------------ MODULE Handshake ------------------------------
(***************************************************************************)
(* How a connection comes to be: FastTransportContext::Connect on one side *)
(* and OnReceive, Listen and Accept on the other, with the connection      *)
(* states that run before DataState.  UDP duplicates and reorders, and     *)
(* loses a bounded number of packets.                                      *)
(*                                                                         *)
(* Two threads of the client read _connectionState, act on what they read  *)
(* and write it back: the SendThread in Connection::Run and the RecvThread *)
(* in Connection::OnRecvPackets.  The read and the write are separate      *)
(* steps here.  One client, one server; the server's connections are named *)
(* by the ID that GenerateID gave them.                                    *)
(***************************************************************************)
EXTENDS Naturals, FiniteSets

CONSTANTS MaxConns,      \* connections the server makes, at most
          MaxLosses      \* handshake packets UDP loses, at most

ASSUME HandshakeAssumption == MaxConns \in Nat \ {0} /\ MaxLosses \in Nat

VARIABLES
    cState,        \* the client's Connection::_connectionState
    cConnected,    \* its _connected
    cDest,         \* its _destinationId
    cRun,          \* what Run has read: the state and whether it timed out
    cRecv,         \* what OnRecvPackets has read: the state and the packet
    thrown,        \* the exception that ended the client's RecvThread, if any
    conns,         \* the server's connections: ID -> _connectionState
    accepted,      \* the server's connections that Accept has returned
    heard,         \* the server's connections that have received data
    net,           \* packets on their way
    lost           \* handshake packets lost so far

clientVars == <<cState, cConnected, cDest, cRun, cRecv, thrown>>
serverVars == <<conns, accepted, heard>>
vars       == <<clientVars, serverVars, net, lost>>

IDs    == 1..MaxConns
States == {"SendingSyn", "WaitingSynAck", "Data"}
Idle   == [state |-> "Idle"]

\* A packet, and the server's connection it comes from or goes to: a Syn carries
\* the destination 0, which names none.
Packet(type, id) == [type |-> type, id |-> id]
Syn     == Packet("Syn", 0)
Packets == {Syn} \cup {Packet(t, d) : t \in {"SynAck", "Data", "Sack", "ClientData"}, d \in IDs}
ToClient(m) == m.type \in {"SynAck", "Data", "Sack"}

\* FastTransportContext::Connect.
Init ==
    /\ cState = "SendingSyn" /\ cConnected = FALSE /\ cDest = 0
    /\ cRun = Idle /\ cRecv = Idle /\ thrown = "none"
    /\ conns = [d \in IDs |-> "none"]
    /\ accepted = {} /\ heard = {}
    /\ net = {} /\ lost = 0

\* UDP takes a packet of the handshake, or loses it.
Carry(m) ==
    \/ net' = net \cup {m} /\ UNCHANGED lost
    \/ lost < MaxLosses /\ lost' = lost + 1 /\ UNCHANGED net

\* UDP delivers a packet, and may deliver it again.
Deliver(m) == m \in net /\ net' \in {net, net \ {m}} /\ UNCHANGED lost

-----------------------------------------------------------------------------
\* The client's SendThread: Connection::Run.

\* Run reads the state and the time of the last packet.  SendingSynState is left
\* at the next turn, so only the two other states live to their timeout, and that
\* of DataState (Close) belongs to the end of a connection.  A packet that
\* OnRecvPackets is working on has just reset the time.
RunRead(timedOut) ==
    /\ thrown = "none" /\ cRun = Idle
    /\ timedOut => cState = "WaitingSynAck" /\ cRecv = Idle
    /\ cRun' = [state |-> cState, timedOut |-> timedOut]
    /\ UNCHANGED <<cState, cConnected, cDest, cRecv, thrown, serverVars, net, lost>>

\* (Mutants: the wrong one of two like-named states; a timeout does not start the
\* handshake over.)
RunStateWaitingSyn(run) ==
    IF run.timedOut THEN "SendingSyn" ELSE IF run.state = "SendingSyn" THEN "WaitingSyn" ELSE run.state
RunStateNoRetry(run) == IF run.state = "SendingSyn" THEN "WaitingSynAck" ELSE run.state

\* The state that SendPackets or OnTimeOut of the state it read returns.
RunState(run) ==
    CASE run.timedOut              -> "SendingSyn"
      [] run.state = "SendingSyn"  -> "WaitingSynAck"
      [] OTHER                     -> run.state

\* Run acts on the state it read and writes the new one: SendingSynState sends a
\* Syn, WaitingSynAckState nothing, DataState may send data to the destination.
\* What it sends leaves after the write: the same thread runs SendQueueStep next.
RunWrite ==
    /\ thrown = "none" /\ cRun # Idle
    /\ cState' = RunState(cRun)
    /\ \/ /\ cRun.state = "SendingSyn"
          /\ Carry(Syn)
       \/ /\ cRun.state = "WaitingSynAck"
          /\ UNCHANGED <<net, lost>>
       \/ /\ cRun.state = "Data"
          /\ net' \in {net, net \cup {Packet("ClientData", cDest)}}
          /\ UNCHANGED lost
    /\ cRun' = Idle
    /\ UNCHANGED <<cConnected, cDest, cRecv, thrown, serverVars>>

-----------------------------------------------------------------------------
\* The client's RecvThread: OnReceive finds the connection by the packet's
\* destination, which is the client's whichever connection sent it.

\* Connection::OnRecvPackets reads the state.
RecvRead(m) ==
    /\ thrown = "none" /\ cRecv = Idle
    /\ ToClient(m) /\ Deliver(m)
    /\ cRecv' = [state |-> cState, packet |-> m]
    /\ UNCHANGED <<cState, cConnected, cDest, cRun, thrown, serverVars>>

\* (Mutant: a SynAck starts the handshake over.)
RecvStateRestart(state, m) == IF state = "Data" /\ m.type = "SynAck" THEN "WaitingSynAck" ELSE "Data"

\* The state a handler returns: WaitingSynAckState takes a SynAck or data, and
\* DataState anything the server sends.
RecvState(state, m) == "Data"

\* The handler of the state it read runs, and the new state is written.
\* SendingSynState has no handler, and WaitingSynAckState none for a Sack: the
\* exception ends the thread, and with it the process.
RecvWrite ==
    /\ thrown = "none" /\ cRecv # Idle
    /\ LET m == cRecv.packet
           unhandled == \/ cRecv.state = "SendingSyn"
                        \/ cRecv.state = "WaitingSynAck" /\ m.type = "Sack"
       IN  \/ /\ unhandled
              /\ thrown' = IF cRecv.state = "SendingSyn" THEN "Not implemented" ELSE "Wrong packet type"
              /\ UNCHANGED <<cState, cConnected, cDest>>
           \/ /\ ~unhandled
              /\ IF cRecv.state = "WaitingSynAck"
                 THEN cDest' = m.id /\ cConnected' = TRUE
                 ELSE UNCHANGED <<cDest, cConnected>>
              /\ cState' = RecvState(cRecv.state, m)
              /\ UNCHANGED thrown
    /\ cRecv' = Idle
    /\ UNCHANGED <<cRun, serverVars, net, lost>>

-----------------------------------------------------------------------------
\* The server.

\* OnReceive on a Syn: no connection has the ID 0, so ListenState::Listen makes a
\* new one, whose WaitingSynState takes the Syn, and it is put into the table and
\* into the list for Accept.
Listen ==
    /\ Deliver(Syn)
    /\ \E d \in IDs :
          /\ conns[d] = "none" /\ \A e \in 1..(d - 1) : conns[e] # "none"
          /\ conns' = [conns EXCEPT ![d] = "SendingSynAck"]
    /\ UNCHANGED <<clientVars, accepted, heard>>

\* (Mutant: the SynAck leaves before the new state is written.)
SendSynAckEarly(d) ==
    /\ conns[d] = "SendingSynAck"
    /\ \/ Packet("SynAck", d) \notin net /\ Carry(Packet("SynAck", d)) /\ UNCHANGED conns
       \/ Packet("SynAck", d) \in net /\ conns' = [conns EXCEPT ![d] = "Data"] /\ UNCHANGED <<net, lost>>
    /\ UNCHANGED <<clientVars, accepted, heard>>

\* SendingSynAckState::SendPackets, once: there is no other SynAck of this
\* connection.
SendSynAck(d) ==
    /\ conns[d] = "SendingSynAck"
    /\ conns' = [conns EXCEPT ![d] = "Data"]
    /\ Carry(Packet("SynAck", d))
    /\ UNCHANGED <<clientVars, accepted, heard>>

\* FastTransportContext::Accept.
Accept(d) ==
    /\ conns[d] # "none" /\ d \notin accepted
    /\ accepted' = accepted \cup {d}
    /\ UNCHANGED <<clientVars, conns, heard, net, lost>>

\* A connection of the server in DataState sends the data of its user, which has
\* it from Accept, or a Sack for data it has received.
ServerSend(d) ==
    /\ conns[d] = "Data"
    /\ \/ d \in accepted /\ net' = net \cup {Packet("Data", d)}
       \/ d \in heard /\ net' = net \cup {Packet("Sack", d)}
    /\ UNCHANGED <<clientVars, serverVars, lost>>

\* A connection of the server receives data in DataState.  (Before it,
\* BasicConnectionState would throw: PeerReady says that this does not happen.)
ServerRecv(d) ==
    /\ conns[d] = "Data"
    /\ Deliver(Packet("ClientData", d))
    /\ heard' = heard \cup {d}
    /\ UNCHANGED <<clientVars, conns, accepted>>

Next ==
    \/ \E timedOut \in BOOLEAN : RunRead(timedOut)
    \/ RunWrite
    \/ \E m \in net : RecvRead(m)
    \/ RecvWrite
    \/ Listen
    \/ \E d \in IDs : SendSynAck(d) \/ Accept(d) \/ ServerSend(d) \/ ServerRecv(d)

\* The threads of both contexts run, what UDP does not lose arrives, and 30 s
\* without a packet come to pass while the client waits.
Fairness ==
    /\ WF_vars(RunRead(FALSE)) /\ SF_vars(RunRead(TRUE)) /\ WF_vars(RunWrite)
    /\ \A d \in IDs : WF_vars(RecvRead(Packet("SynAck", d))) /\ WF_vars(SendSynAck(d))
    /\ WF_vars(RecvWrite)
    /\ WF_vars(Listen)

Spec == Init /\ [][Next]_vars /\ Fairness

-----------------------------------------------------------------------------
(* Properties *)

TypeOK ==
    /\ cState \in States /\ cConnected \in BOOLEAN /\ cDest \in IDs \cup {0}
    /\ cRun \in {Idle} \cup [state : States, timedOut : BOOLEAN]
    /\ cRecv \in {Idle} \cup [state : States, packet : Packets]
    /\ thrown \in {"none", "Not implemented", "Wrong packet type"}
    /\ conns \in [IDs -> {"none", "SendingSynAck", "Data"}]
    /\ accepted \subseteq IDs /\ heard \subseteq IDs
    /\ net \subseteq Packets /\ lost \in 0..MaxLosses

\* Whichever of its server's connections a client ends up with, that connection
\* exists and is in DataState: no packet of the client meets a connection whose
\* state would throw on it.
PeerReady ==
    /\ cConnected => cDest \in IDs /\ conns[cDest] = "Data"
    /\ \A m \in net : m.type = "ClientData" => conns[m.id] = "Data"

\* A lost update of _connectionState can put a connected client back into
\* WaitingSynAckState or SendingSynState, but only before Run has seen DataState
\* and sent data: a client that has sent data stays in DataState.
NoWayBack ==
    (heard # {} \/ \E m \in net : m.type = "ClientData")
        => cState = "Data" /\ (cRun = Idle \/ cRun.state = "Data")

\* Therefore no Sack ever meets WaitingSynAckState.
NoWrongPacketType == thrown # "Wrong packet type"

\* As long as UDP loses fewer packets than the server can make connections, the
\* client is connected in the end, or its RecvThread has met SendingSynState.
ConnectedInTheEnd == MaxLosses < MaxConns => <>(cConnected \/ thrown # "none")

\* What the throw of BasicConnectionState::OnRecvPackets asserts: no packet arrives
\* in a state that has no handler.
HandlerImplemented == thrown # "Not implemented"

\* What the test of two clients and two Accepts takes for granted: a Connect is
\* accepted once.
AcceptedOnce == Cardinality(accepted) <= 1
=============================================================================
