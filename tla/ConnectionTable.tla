---------------------------- MODULE ConnectionTable ----------------------------
(***************************************************************************)
(* The connections of one FastTransportContext: how they get into its      *)
(* table and out of it, and where the packets go that come back from the   *)
(* UDP queue.                                                              *)
(*                                                                         *)
(* Three threads share the table: the user's (Connect, Accept, Close), the *)
(* SendThread and the RecvThread.  A step is what a thread does under one  *)
(* hold of _connectionsMutex, or between two.  All connections are with    *)
(* one remote address, so that the ID is the key.                          *)
(*                                                                         *)
(* Each connection owns one send packet, which has the connection's number *)
(* for a name.  What a connection does with the packets it receives is in  *)
(* Handshake and RecvPath.                                                 *)
(***************************************************************************)
EXTENDS Naturals, Sequences

CONSTANTS IdSpace,      \* number of ConnectionID values (2^16 in the code)
          MaxConns,     \* connections that are made, at most
          MaxArrivals   \* packets that arrive, at most

ASSUME ConnectionTableAssumption ==
    IdSpace \in Nat \ {0} /\ MaxConns \in Nat /\ MaxArrivals \in Nat

VARIABLES
    ids,        \* how many IDs GenerateID has given out
    made,       \* how many Connection objects were made
    conn,       \* the Connection objects
    table,      \* FastTransportContext::_connections: ID -> connection, 0 if there is none
    incoming,   \* _incomingConnections
    accepting,  \* the connection that Accept has taken and not yet inserted, or 0
    held,       \* the connections that the user was given
    arrivals,   \* how many packets arrived
    rPc,        \* where the RecvThread is
    rConn,      \* the connection it has found or made
    sPc,        \* where the SendThread is
    packet      \* where the packet of each connection is

userVars == <<accepting, held>>
recvVars == <<rPc, rConn, arrivals>>
connVars == <<ids, made, conn>>
vars == <<connVars, table, incoming, userVars, recvVars, sPc, packet>>

Ids   == 0..(IdSpace - 1)
Conns == 1..made
None  == 0

\* A packet is with a connection (idle or in flight), with the UDP queue (to be
\* sent, sent, or taken back by the SendThread), or among the context's free packets.
\* "of" is the connection it is with, "key" the source ID in its header.
Places == {"idle", "inFlight", "udp", "sent", "returning", "context"}

\* FastTransportContext::GenerateID: the n-th call.
GenerateID(n) == n % IdSpace

\* IDs have been given out a second time, or 0 was.
Wrapped == ids >= IdSpace

NewConnection(id) == [id |-> id, closed |-> FALSE, cleanRecv |-> FALSE, cleanSend |-> FALSE]
NewPacket(c) == [place |-> "idle", of |-> c, key |-> 0]

\* std::unordered_map::insert leaves a connection that is there.
Insert(c, id) == IF table[id] = None THEN [table EXCEPT ![id] = c] ELSE table

Init ==
    /\ ids = 0 /\ made = 0
    /\ conn = [c \in 1..MaxConns |-> NewConnection(0)]
    /\ packet = [c \in 1..MaxConns |-> NewPacket(c)]
    /\ table = [id \in Ids |-> None]
    /\ incoming = <<>> /\ accepting = None /\ held = {}
    /\ arrivals = 0 /\ rPc = "remove" /\ rConn = None /\ sPc = "remove"

-----------------------------------------------------------------------------

\* FastTransportContext::Connect.
Connect ==
    LET c  == made + 1
        id == GenerateID(ids + 1)
    IN /\ made < MaxConns
       /\ ids' = ids + 1 /\ made' = c
       /\ conn' = [conn EXCEPT ![c] = NewConnection(id)]
       /\ table' = Insert(c, id)
       /\ held' = held \cup {c}
       /\ UNCHANGED <<incoming, accepting, recvVars, sPc, packet>>

\* FastTransportContext::Accept takes the connection that came last,
AcceptTake ==
    /\ accepting = None /\ incoming # <<>>
    /\ accepting' = incoming[Len(incoming)]
    /\ incoming' = SubSeq(incoming, 1, Len(incoming) - 1)
    /\ UNCHANGED <<connVars, table, held, recvVars, sPc, packet>>

\* and inserts it, though it was inserted before, and may have been removed since.
AcceptInsert ==
    /\ accepting # None
    /\ table' = Insert(accepting, conn[accepting].id)
    /\ held' = held \cup {accepting}
    /\ accepting' = None
    /\ UNCHANGED <<connVars, incoming, recvVars, sPc, packet>>

\* Connection::Close.
Close(c) ==
    /\ c \in held /\ ~conn[c].closed
    /\ conn' = [conn EXCEPT ![c].closed = TRUE]
    /\ UNCHANGED <<ids, made, table, incoming, userVars, recvVars, sPc, packet>>

-----------------------------------------------------------------------------

InTable(c) == \E id \in Ids : table[id] = c

\* RemoveSendClosedConnections and RemoveRecvClosedConnections: the thread marks
\* the closed connections it has cleaned, and removes what both have.
\* (Mutant: it does not ask whether a connection is closed.)
ToCleanAny(c) == InTable(c)
ToClean(c) == InTable(c) /\ conn[c].closed
CleanedSend == [c \in 1..MaxConns |-> IF ToClean(c) THEN [conn[c] EXCEPT !.cleanSend = TRUE] ELSE conn[c]]
CleanedRecv == [c \in 1..MaxConns |-> IF ToClean(c) THEN [conn[c] EXCEPT !.cleanRecv = TRUE] ELSE conn[c]]
\* (Mutant: nothing is removed.)
EraseNever(now) == table
Erase(now) ==
    [id \in Ids |-> IF table[id] # None /\ now[table[id]].cleanRecv /\ now[table[id]].cleanSend
                    THEN None ELSE table[id]]

RemoveSendClosedConnections ==
    /\ sPc = "remove" /\ sPc' = "run"
    /\ conn' = CleanedSend
    /\ table' = Erase(CleanedSend)
    /\ packet' = [p \in 1..MaxConns |->
                    IF packet[p].place = "inFlight" /\ ToClean(packet[p].of)
                    THEN [packet[p] EXCEPT !.place = "context"] ELSE packet[p]]
    /\ UNCHANGED <<ids, made, incoming, userVars, recvVars>>

\* ConnectionsRun: connections that heard nothing for their time close, and acks
\* of packets are processed.
ConnectionsRun(T, acked) ==
    /\ sPc = "run" /\ sPc' = "collect"
    /\ conn' = [c \in 1..MaxConns |-> IF c \in T /\ InTable(c)
                                THEN [conn[c] EXCEPT !.closed = TRUE] ELSE conn[c]]
    /\ packet' = [p \in 1..MaxConns |-> IF p \in acked /\ packet[p].place = "inFlight" /\ InTable(packet[p].of)
                                  THEN [packet[p] EXCEPT !.place = "idle"] ELSE packet[p]]
    /\ UNCHANGED <<ids, made, table, incoming, userVars, recvVars>>

\* SendQueueStep: GetPacketsToSend of every connection, and what UDPQueue::Send
\* gives back of what was sent.
Collect(S) ==
    /\ sPc = "collect" /\ sPc' = "return"
    /\ packet' = [p \in 1..MaxConns |->
          IF p \in S /\ packet[p].place \in {"idle", "inFlight"} /\ InTable(packet[p].of)
          THEN [place |-> "udp", of |-> None, key |-> conn[packet[p].of].id]
          ELSE IF packet[p].place = "sent" THEN [packet[p] EXCEPT !.place = "returning"]
          ELSE packet[p]]
    /\ UNCHANGED <<connVars, table, incoming, userVars, recvVars>>

\* SendThreadQueue::WriteThread.
WriteThread(p) ==
    /\ packet[p].place = "udp"
    /\ packet' = [packet EXCEPT ![p].place = "sent"]
    /\ UNCHANGED <<connVars, table, incoming, userVars, recvVars, sPc>>

\* Where a packet with source ID id goes: to the connection of that ID, or to the
\* context.  (Mutant: the packets of a connection that is gone go to another one.)
ReturnedAnywhere(id) ==
    IF table[id] = None /\ \E c \in Conns : InTable(c)
    THEN [place |-> "inFlight", of |-> CHOOSE c \in Conns : InTable(c), key |-> 0]
    ELSE [place |-> "inFlight", of |-> table[id], key |-> 0]
Returned(id) ==
    IF table[id] = None THEN [place |-> "context", of |-> None, key |-> 0]
    ELSE [place |-> "inFlight", of |-> table[id], key |-> 0]

ProcessSentPackets(id) ==
    /\ sPc = "return"
    /\ \E p \in Conns : packet[p].place = "returning" /\ packet[p].key = id
    /\ packet' = [p \in 1..MaxConns |-> IF packet[p].place = "returning" /\ packet[p].key = id
                                  THEN Returned(id) ELSE packet[p]]
    /\ UNCHANGED <<connVars, table, incoming, userVars, recvVars, sPc>>

SendTurnEnds ==
    /\ sPc = "return" /\ \A p \in Conns : packet[p].place # "returning"
    /\ sPc' = "remove"
    /\ UNCHANGED <<connVars, table, incoming, userVars, recvVars, packet>>

-----------------------------------------------------------------------------

RemoveRecvClosedConnections ==
    /\ rPc = "remove" /\ rPc' = "receive"
    /\ conn' = CleanedRecv
    /\ table' = Erase(CleanedRecv)
    /\ UNCHANGED <<ids, made, incoming, userVars, rConn, arrivals, sPc, packet>>

\* OnReceive of a packet for the connection dst: it is looked up, and if there is
\* none an ID is generated, also for a packet that is no Syn and is dropped.
\* (A Syn has destination 0.)
OnReceive(syn, dst) ==
    /\ rPc = "receive" /\ arrivals < MaxArrivals
    /\ syn => dst = 0
    /\ arrivals' = arrivals + 1
    /\ IF table[dst] # None
       THEN /\ rConn' = table[dst] /\ rPc' = "deliver"
            /\ UNCHANGED connVars
       ELSE /\ ids' = ids + 1
            /\ IF syn
               THEN /\ made < MaxConns
                    /\ made' = made + 1
                    /\ conn' = [conn EXCEPT ![made + 1] = NewConnection(GenerateID(ids + 1))]
                    /\ rConn' = made + 1 /\ rPc' = "insert"
               ELSE UNCHANGED <<made, conn, rConn, rPc>>
    /\ UNCHANGED <<table, incoming, userVars, sPc, packet>>

OnReceiveInsert ==
    /\ rPc = "insert" /\ rPc' = "push"
    /\ table' = Insert(rConn, conn[rConn].id)
    /\ UNCHANGED <<connVars, incoming, userVars, rConn, arrivals, sPc, packet>>

OnReceivePush ==
    /\ rPc = "push" /\ rPc' = "receive"
    /\ incoming' = Append(incoming, rConn)
    /\ rConn' = None
    /\ UNCHANGED <<connVars, table, userVars, arrivals, sPc, packet>>

\* The connection gets the packet when the table is no longer locked.
OnReceiveDeliver ==
    /\ rPc = "deliver" /\ rPc' = "receive"
    /\ rConn' = None
    /\ UNCHANGED <<connVars, table, incoming, userVars, arrivals, sPc, packet>>

RecvTurnEnds ==
    /\ rPc = "receive" /\ rPc' = "remove"
    /\ UNCHANGED <<connVars, table, incoming, userVars, rConn, arrivals, sPc, packet>>

-----------------------------------------------------------------------------

SendThread ==
    \/ RemoveSendClosedConnections
    \/ \E T, acked \in SUBSET Conns : ConnectionsRun(T, acked)
    \/ \E S \in SUBSET Conns : Collect(S)
    \/ \E id \in Ids : ProcessSentPackets(id)
    \/ SendTurnEnds
RecvThread ==
    \/ RemoveRecvClosedConnections
    \/ \E syn \in BOOLEAN, dst \in Ids : OnReceive(syn, dst)
    \/ OnReceiveInsert \/ OnReceivePush \/ OnReceiveDeliver
    \/ RecvTurnEnds
User == Connect \/ AcceptTake \/ AcceptInsert \/ \E c \in Conns : Close(c)

Next == SendThread \/ RecvThread \/ User \/ \E p \in Conns : WriteThread(p)

\* The two threads of the context run: their waits are bounded by 10 ms and 50 ms.
Spec == Init /\ [][Next]_vars /\ WF_vars(SendThread) /\ WF_vars(RecvThread)

-----------------------------------------------------------------------------

\* As long as no ID was given out twice, a connection that is open and that the user
\* was given, or can accept, is in the table, so that the threads run it: no removal,
\* and no insertion that finds its place taken, loses it.
Reachable == held \cup ({accepting} \ {None}) \cup {incoming[k] : k \in DOMAIN incoming}
OpenStaysInTable ==
    ~Wrapped => \A c \in Reachable : conn[c].closed \/ table[conn[c].id] = c

\* As long as no ID was given out twice, a packet that comes back from the UDP queue
\* goes to the connection that sent it, or, when that is closed and gone, to the
\* context: never to another connection.
PacketsComeHome ==
    ~Wrapped => \A p \in Conns :
        /\ packet[p].place \in {"idle", "inFlight"} => packet[p].of = p
        /\ packet[p].place = "context" => conn[p].closed

\* A closed connection leaves the table, also one that Accept inserted again.
ClosedGone ==
    \A c \in 1..MaxConns : (c \in Conns /\ conn[c].closed /\ InTable(c)) ~> ~InTable(c)
=============================================================================
