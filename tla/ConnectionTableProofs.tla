------------------------- MODULE ConnectionTableProofs -------------------------
(***************************************************************************)
(* As long as the IDs have not wrapped, open connections stay in the table *)
(* and packets come back to the connection that sent them: for any number  *)
(* of connections, of IDs and of arrivals.                                 *)
(***************************************************************************)
EXTENDS ConnectionTable, TLAPS

ConnType == [id : Ids, closed : BOOLEAN, cleanRecv : BOOLEAN, cleanSend : BOOLEAN]
PacketType == {r \in [place : Places, of : 0..MaxConns, key : Ids] :
                  r.place \in {"idle", "inFlight"} => r.of # None}

Types ==
    /\ ids \in Nat /\ made \in 0..MaxConns /\ made <= ids
    /\ conn \in [1..MaxConns -> ConnType]
    /\ table \in [Ids -> 0..MaxConns]
    /\ incoming \in Seq(Conns)
    /\ accepting \in Conns \cup {None} /\ held \subseteq Conns
    /\ rPc \in {"remove", "receive", "insert", "push", "deliver"}
    /\ rConn \in Conns \cup {None}
    /\ rPc \in {"insert", "push"} => rConn # None
    /\ packet \in [1..MaxConns -> PacketType]

\* IDs are given in their order, so no two connections have the same.
IdsDistinct ==
    \A c \in Conns : /\ 1 <= conn[c].id /\ conn[c].id <= ids
                     /\ \A d \in Conns : conn[c].id = conn[d].id => c = d

\* What is in the table is there under its own ID.
TableSound == \A i \in Ids : table[i] # None => table[i] \in Conns /\ conn[table[i]].id = i

\* Only what is closed is cleaned.
CleanedClosed == \A c \in 1..MaxConns : conn[c].cleanRecv \/ conn[c].cleanSend => conn[c].closed

Kept(c) == conn[c].closed \/ table[conn[c].id] = c
Listed == \A c \in Conns :
    c \in Reachable \/ (rPc = "push" /\ c = rConn) \/ packet[c].place # "idle" => Kept(c)

\* A packet that is on its way bears the ID of the connection that owns it.
PacketsNamed == \A p \in 1..MaxConns :
    /\ packet[p].place \in {"idle", "inFlight"} => packet[p].of = p
    /\ packet[p].place \in {"udp", "sent", "returning"} => p \in Conns /\ packet[p].key = conn[p].id
    /\ packet[p].place = "context" => p \in Conns /\ conn[p].closed
    /\ p \notin Conns => packet[p].place = "idle"

TInv == Types /\ TableSound /\ CleanedClosed /\ (~Wrapped => IdsDistinct /\ Listed /\ PacketsNamed)
-----------------------------------------------------------------------------

\* GenerateID gives an ID, and before the wrap it gives the number of the call.
LEMMA GenerateIDType == \A n \in Nat : GenerateID(n) \in Ids
  BY ConnectionTableAssumption DEF GenerateID, Ids

LEMMA GenerateIDExact == \A n \in Nat : n < IdSpace => GenerateID(n) = n
  BY ConnectionTableAssumption DEF GenerateID

\* The first state has no connection, so nothing to lose.
LEMMA InitTInv == Init => TInv
  <1> SUFFICES ASSUME Init PROVE TInv
      OBVIOUS
  <1> USE ConnectionTableAssumption
  <1>1. Types
      BY DEF Init, Types, NewConnection, NewPacket, ConnType, PacketType, Conns, Ids, None, Places
  <1>2. TableSound /\ CleanedClosed
      BY DEF Init, TableSound, CleanedClosed, NewConnection, Conns, Ids, None
  <1>3. IdsDistinct /\ Listed
      BY DEF Init, IdsDistinct, Listed, Conns
  <1>4. PacketsNamed
      BY DEF Init, PacketsNamed, NewPacket, Conns
  <1> QED
      BY <1>1, <1>2, <1>3, <1>4 DEF TInv

\* A connection that is inserted finds its place free or already its own.
LEMMA InsertOwn ==
    ASSUME Types, TableSound, IdsDistinct, NEW c \in Conns
    PROVE  /\ conn[c].id \in Ids
           /\ Insert(c, conn[c].id)[conn[c].id] = c
           /\ \A i \in Ids : i # conn[c].id => Insert(c, conn[c].id)[i] = table[i]
  <1>1. c \in 1..MaxConns /\ conn[c] \in ConnType /\ c # None
      BY ConnectionTableAssumption DEF Types, Conns, None
  <1>2. conn[c].id \in Ids
      BY <1>1 DEF ConnType
  <1>3. table[conn[c].id] # None => table[conn[c].id] = c
      BY <1>2 DEF TableSound, IdsDistinct
  <1> QED
      BY <1>1, <1>2, <1>3 DEF Insert, Types

\* The table after any insertion: it is typed and holds its entries under their IDs.
LEMMA InsertSound ==
    ASSUME Types, TableSound, NEW c \in Conns
    PROVE  /\ Insert(c, conn[c].id) \in [Ids -> 0..MaxConns]
           /\ \A i \in Ids : Insert(c, conn[c].id)[i] # None =>
                 /\ Insert(c, conn[c].id)[i] \in Conns
                 /\ conn[Insert(c, conn[c].id)[i]].id = i
  <1>1. c \in 1..MaxConns /\ conn[c] \in ConnType /\ c # None
      BY ConnectionTableAssumption DEF Types, Conns, None
  <1>2. conn[c].id \in Ids
      BY <1>1 DEF ConnType
  <1> QED
      BY <1>1, <1>2 DEF Insert, Types, TableSound

\* A step that leaves the connections, the table and the packets alone, and makes
\* nothing reachable that was not kept before.
LEMMA OtherSteps ==
    ASSUME TInv, UNCHANGED <<connVars, table, packet>>, Types',
           \A c \in Conns : (c \in Reachable \/ (rPc = "push" /\ c = rConn))' =>
                            (c \in Reachable \/ (rPc = "push" /\ c = rConn))
    PROVE  TInv'
  <1> USE DEF connVars
  <1>1. TableSound' /\ CleanedClosed'
      BY DEF TInv, TableSound, CleanedClosed, Conns, Ids, None
  <1>2. ~Wrapped' => ~Wrapped
      BY DEF Wrapped
  <1>3. ~Wrapped' => IdsDistinct' /\ PacketsNamed'
      BY <1>2 DEF TInv, IdsDistinct, PacketsNamed, Conns
  <1>4. ~Wrapped' => Listed'
      BY <1>2 DEF TInv, Listed, Kept, Conns
  <1> QED
      BY <1>1, <1>3, <1>4 DEF TInv

LEMMA AcceptTakeTInv == TInv /\ AcceptTake => TInv'
  <1> SUFFICES ASSUME TInv, AcceptTake PROVE TInv'
      OBVIOUS
  <1> USE DEF AcceptTake, connVars, recvVars
  <1>0. /\ incoming \in Seq(Conns) /\ Len(incoming) \in Nat /\ Len(incoming) > 0
        /\ incoming[Len(incoming)] \in Conns
      BY DEF TInv, Types
  <1>1. incoming' \in Seq(Conns)
      BY <1>0
  <1>2. Types'
      BY <1>0, <1>1 DEF TInv, Types, Conns, None
  <1>3. ASSUME NEW k \in DOMAIN incoming' PROVE k \in DOMAIN incoming /\ incoming'[k] = incoming[k]
      BY <1>0, <1>3
  <1>4. Reachable' \subseteq Reachable
      BY <1>0, <1>3 DEF Reachable, None
  <1> QED
      BY <1>2, <1>4, OtherSteps

LEMMA OnReceivePushTInv == TInv /\ OnReceivePush => TInv'
  <1> SUFFICES ASSUME TInv, OnReceivePush PROVE TInv'
      OBVIOUS
  <1> USE DEF OnReceivePush, connVars, userVars
  <1>0. incoming \in Seq(Conns) /\ rConn \in Conns
      BY DEF TInv, Types
  <1>1. Types'
      BY <1>0 DEF TInv, Types, Conns, None
  <1>2. ASSUME NEW k \in DOMAIN incoming'
        PROVE (k \in DOMAIN incoming /\ incoming'[k] = incoming[k]) \/ incoming'[k] = rConn
      BY <1>0, <1>2
  <1>3. Reachable' \subseteq Reachable \cup {rConn}
      BY <1>2 DEF Reachable
  <1> QED
      BY <1>1, <1>3, OtherSteps

LEMMA OnReceiveDeliverTInv == TInv /\ OnReceiveDeliver => TInv'
  <1> SUFFICES ASSUME TInv, OnReceiveDeliver PROVE TInv'
      OBVIOUS
  <1>1. Types'
      BY DEF TInv, Types, OnReceiveDeliver, connVars, userVars, Conns, None
  <1> QED
      BY <1>1, OtherSteps DEF OnReceiveDeliver, connVars, userVars, Reachable

LEMMA TurnEndsTInv == TInv /\ (RecvTurnEnds \/ SendTurnEnds \/ UNCHANGED vars) => TInv'
  <1> SUFFICES ASSUME TInv, RecvTurnEnds \/ SendTurnEnds \/ UNCHANGED vars PROVE TInv'
      OBVIOUS
  <1> USE DEF RecvTurnEnds, SendTurnEnds, vars, connVars, userVars, recvVars
  <1>1. Types'
      BY DEF TInv, Types, Conns, None
  <1> QED
      BY <1>1, OtherSteps DEF Reachable

\* A step that inserts a connection there is, and nothing else.
LEMMA InsertStep ==
    ASSUME TInv, UNCHANGED <<connVars, packet>>, Types', NEW d \in Conns,
           table' = Insert(d, conn[d].id),
           \A c \in Conns : (c \in Reachable \/ (rPc = "push" /\ c = rConn))' =>
                            (c \in Reachable \/ (rPc = "push" /\ c = rConn)) \/ c = d
    PROVE  TInv'
  <1> USE DEF connVars
  <1>0. Types /\ TableSound
      BY DEF TInv
  <1>1. TableSound'
      BY <1>0, InsertSound DEF TableSound, Conns, Ids, None
  <1>2. CleanedClosed'
      BY DEF TInv, CleanedClosed, Conns
  <1>3. ~Wrapped' => ~Wrapped
      BY DEF Wrapped
  <1>4. ~Wrapped' => IdsDistinct' /\ PacketsNamed'
      BY <1>3 DEF TInv, IdsDistinct, PacketsNamed, Conns
  <1>5. ASSUME ~Wrapped' PROVE Listed'
    <2>1. IdsDistinct /\ Listed
        BY <1>3, <1>5 DEF TInv
    <2>2. /\ table'[conn[d].id] = d
          /\ \A i \in Ids : i # conn[d].id => table'[i] = table[i]
        BY <1>0, <2>1, InsertOwn
    <2>3. ASSUME NEW c \in Conns, Kept(c) PROVE Kept(c)'
      <3>1. conn[c].id \in Ids
          BY <1>0, ConnectionTableAssumption DEF Types, Conns, ConnType
      <3>2. conn[c].id = conn[d].id => c = d
          BY <2>1 DEF IdsDistinct
      <3> QED
          BY <2>2, <2>3, <3>1, <3>2 DEF Kept
    <2>4. Kept(d)'
        BY <2>2 DEF Kept
    <2> QED
        BY <2>1, <2>3, <2>4 DEF Listed, Conns
  <1> QED
      BY <1>1, <1>2, <1>4, <1>5 DEF TInv

LEMMA AcceptInsertTInv == TInv /\ AcceptInsert => TInv'
  <1> SUFFICES ASSUME TInv, AcceptInsert PROVE TInv'
      OBVIOUS
  <1> USE DEF AcceptInsert, connVars, recvVars
  <1>0. Types /\ TableSound /\ accepting \in Conns
      BY DEF TInv, Types
  <1>1. table' \in [Ids -> 0..MaxConns]
      BY <1>0, InsertSound
  <1>2. Types'
      BY <1>0, <1>1 DEF Types, Conns, None, Ids
  <1>3. Reachable' \subseteq Reachable \cup {accepting}
      BY DEF Reachable
  <1> QED
      BY <1>0, <1>2, <1>3, InsertStep

LEMMA OnReceiveInsertTInv == TInv /\ OnReceiveInsert => TInv'
  <1> SUFFICES ASSUME TInv, OnReceiveInsert PROVE TInv'
      OBVIOUS
  <1> USE DEF OnReceiveInsert, connVars, userVars
  <1>0. Types /\ TableSound /\ rConn \in Conns
      BY DEF TInv, Types
  <1>1. table' \in [Ids -> 0..MaxConns]
      BY <1>0, InsertSound
  <1>2. Types'
      BY <1>0, <1>1 DEF Types, Conns, None, Ids
  <1>3. Reachable' = Reachable
      BY DEF Reachable
  <1> QED
      BY <1>0, <1>2, <1>3, InsertStep

\* A step that moves packets, and nothing else.  A packet may leave "idle" only if
\* its connection is in the table.
LEMMA PacketStep ==
    ASSUME TInv, UNCHANGED <<connVars, table, incoming, userVars, recvVars>>,
           packet' \in [1..MaxConns -> PacketType],
           ~Wrapped => PacketsNamed',
           ~Wrapped => \A p \in Conns :
                packet[p].place = "idle" /\ packet'[p].place # "idle" => Kept(p)
    PROVE  TInv'
  <1> USE DEF connVars, userVars, recvVars
  <1>1. Types'
      BY DEF TInv, Types, Conns, None
  <1>2. TableSound' /\ CleanedClosed'
      BY DEF TInv, TableSound, CleanedClosed, Conns, Ids, None
  <1>3. ~Wrapped' => ~Wrapped
      BY DEF Wrapped
  <1>4. ~Wrapped' => IdsDistinct'
      BY <1>3 DEF TInv, IdsDistinct, Conns
  <1>5. ~Wrapped' => Listed'
      BY <1>3 DEF TInv, Listed, Kept, Conns, Reachable
  <1> QED
      BY <1>1, <1>2, <1>3, <1>4, <1>5 DEF TInv

\* What is in the table is there under its ID.
LEMMA InTableKept ==
    ASSUME TableSound, NEW c, c # None, InTable(c)
    PROVE  c \in Conns /\ table[conn[c].id] = c /\ conn[c].id \in Ids
  BY DEF TableSound, InTable

LEMMA WriteThreadTInv ==
    ASSUME TInv, NEW p \in Conns, WriteThread(p) PROVE TInv'
  <1> USE DEF WriteThread, connVars, userVars, recvVars
  <1>0. Types
      BY DEF TInv
  <1>1. p \in 1..MaxConns /\ packet[p] \in PacketType
      BY <1>0, ConnectionTableAssumption DEF Types, Conns
  <1>2. packet' \in [1..MaxConns -> PacketType]
      BY <1>0, <1>1 DEF Types, PacketType, Places
  <1>3. ~Wrapped => PacketsNamed'
      BY <1>0, <1>1 DEF TInv, Types, PacketsNamed, Conns, PacketType
  <1> QED
      BY <1>0, <1>2, <1>3, PacketStep DEF Types, PacketType

LEMMA CollectTInv ==
    ASSUME TInv, NEW S \in SUBSET Conns, Collect(S) PROVE TInv'
  <1> USE DEF Collect, connVars, userVars, recvVars
  <1>0. Types /\ TableSound
      BY DEF TInv
  <1>1. ASSUME NEW p \in 1..MaxConns, packet[p].place \in {"idle", "inFlight"},
               InTable(packet[p].of)
        PROVE  /\ packet[p].of \in Conns /\ conn[packet[p].of].id \in Ids
               /\ table[conn[packet[p].of].id] = packet[p].of
    <2>1. packet[p].of # None
        BY <1>0, <1>1 DEF Types, PacketType
    <2> QED
        BY <1>0, <1>1, <2>1, InTableKept
  <1>2. ASSUME NEW p \in 1..MaxConns PROVE packet'[p] \in PacketType
      BY <1>0, <1>1, ConnectionTableAssumption DEF Types, PacketType, Places, None, Ids
  <1>3. packet' \in [1..MaxConns -> PacketType]
      BY <1>2
  <1>4. ASSUME ~Wrapped, NEW p \in 1..MaxConns
        PROVE  /\ packet'[p] = packet[p]
                  \/ (packet[p].place = "sent" /\ packet'[p] = [packet[p] EXCEPT !.place = "returning"])
                  \/ /\ p \in Conns /\ table[conn[p].id] = p
                     /\ packet'[p] = [place |-> "udp", of |-> None, key |-> conn[p].id]
      BY <1>1, <1>4 DEF TInv, PacketsNamed
  <1>5. ~Wrapped => PacketsNamed'
      BY <1>0, <1>4 DEF TInv, Types, PacketsNamed, PacketType, Conns
  <1>6. ASSUME ~Wrapped, NEW p \in Conns, packet[p].place = "idle", packet'[p].place # "idle"
        PROVE Kept(p)
    <2>1. p \in 1..MaxConns
        BY <1>0, ConnectionTableAssumption DEF Types, Conns
    <2>2. packet'[p] # packet[p] /\ packet[p].place # "sent"
        BY <1>6
    <2> QED
        BY <1>4, <1>6, <2>1, <2>2 DEF Kept
  <1> QED
      BY <1>3, <1>5, <1>6, PacketStep

LEMMA ProcessSentPacketsTInv ==
    ASSUME TInv, NEW id \in Ids, ProcessSentPackets(id) PROVE TInv'
  <1> USE DEF ProcessSentPackets, connVars, userVars, recvVars
  <1>0. Types /\ TableSound
      BY DEF TInv
  <1>1. Returned(id) \in PacketType
      BY <1>0, ConnectionTableAssumption DEF Returned, Types, PacketType, Places, None, Ids
  <1>2. packet' \in [1..MaxConns -> PacketType]
      BY <1>0, <1>1 DEF Types
  <1>3. ASSUME ~Wrapped, NEW p \in 1..MaxConns, packet[p].place = "returning", packet[p].key = id
        PROVE  p \in Conns /\ \/ Returned(id).place = "context" /\ conn[p].closed
                              \/ Returned(id).place = "inFlight" /\ Returned(id).of = p
    <2>1. p \in Conns /\ id = conn[p].id /\ Kept(p)
        BY <1>3 DEF TInv, PacketsNamed, Listed
    <2>2. table[id] = None \/ table[id] = p
        BY <1>0, <1>3, <2>1 DEF TInv, TableSound, IdsDistinct
    <2> QED
        BY <2>1, <2>2 DEF Returned, Kept, Conns, None
  <1>4. ~Wrapped => PacketsNamed'
      BY <1>0, <1>3 DEF TInv, Types, PacketsNamed, Conns
  <1>5. \A p \in Conns : packet[p].place = "idle" => packet'[p].place = "idle"
      BY <1>0, ConnectionTableAssumption DEF Types, Conns
  <1> QED
      BY <1>2, <1>4, <1>5, PacketStep

\* A step that closes connections, cleans closed ones and removes cleaned ones from
\* the table: no connection changes its ID or opens again.
LEMMA ClosingStep ==
    ASSUME TInv, UNCHANGED <<ids, made, incoming, userVars, rConn>>, Types',
           rPc' = "push" => rPc = "push",
           \A c \in 1..MaxConns :
                /\ conn'[c].id = conn[c].id
                /\ conn[c].closed => conn'[c].closed
                /\ conn'[c].cleanRecv \/ conn'[c].cleanSend => conn'[c].closed,
           \A i \in Ids : table'[i] = table[i]
                          \/ (table'[i] = None /\ (table[i] # None => conn'[table[i]].closed)),
           ~Wrapped => PacketsNamed',
           \A p \in Conns : packet[p].place = "idle" => packet'[p].place = "idle"
    PROVE  TInv'
  <1> USE DEF userVars
  <1>0. Types /\ TableSound
      BY DEF TInv
  <1>1. \A c \in Conns : c \in 1..MaxConns
      BY <1>0, ConnectionTableAssumption DEF Types, Conns
  <1>2. TableSound'
      BY <1>0, <1>1 DEF TableSound, Conns, Ids, None
  <1>3. CleanedClosed'
      BY <1>1 DEF CleanedClosed, Conns
  <1>4. ~Wrapped' => ~Wrapped
      BY DEF Wrapped
  <1>5. ~Wrapped' => IdsDistinct'
      BY <1>1, <1>4 DEF TInv, IdsDistinct, Conns
  <1>6. ASSUME ~Wrapped' PROVE Listed'
    <2>1. ASSUME NEW c \in Conns, Kept(c) PROVE Kept(c)'
      <3>1. c \in 1..MaxConns /\ c # None
          BY <1>1 DEF Conns, None
      <3>2. conn[c] \in ConnType
          BY <1>0, <3>1 DEF Types
      <3>3. conn[c].id \in Ids
          BY <3>2 DEF ConnType
      <3>4. conn'[c].id = conn[c].id /\ (conn[c].closed => conn'[c].closed)
          BY <3>1
      <3> QED
          BY <2>1, <3>1, <3>3, <3>4 DEF Kept
    <2>2. Reachable' = Reachable
        BY DEF Reachable
    <2> QED
        BY <1>4, <1>6, <2>1, <2>2 DEF TInv, Listed, Conns
  <1> QED
      BY <1>2, <1>3, <1>4, <1>5, <1>6 DEF TInv

LEMMA CloseTInv ==
    ASSUME TInv, NEW c \in Conns, Close(c) PROVE TInv'
  <1> USE DEF Close, userVars, recvVars
  <1>0. Types /\ CleanedClosed
      BY DEF TInv
  <1>1. c \in 1..MaxConns /\ conn[c] \in ConnType
      BY <1>0, ConnectionTableAssumption DEF Types, Conns
  <1>2. Types'
      BY <1>0, <1>1 DEF Types, ConnType, Conns, None
  <1>3. \A d \in 1..MaxConns :
            /\ conn'[d].id = conn[d].id
            /\ conn[d].closed => conn'[d].closed
            /\ conn'[d].cleanRecv \/ conn'[d].cleanSend => conn'[d].closed
      BY <1>0, <1>1 DEF Types, ConnType, CleanedClosed
  <1>4. ~Wrapped => PacketsNamed'
      BY <1>3 DEF TInv, PacketsNamed, Conns
  <1> QED
      BY <1>2, <1>3, <1>4, ClosingStep

LEMMA ConnectionsRunTInv ==
    ASSUME TInv, NEW T \in SUBSET Conns, NEW acked \in SUBSET Conns, ConnectionsRun(T, acked)
    PROVE  TInv'
  <1> USE DEF ConnectionsRun, userVars, recvVars
  <1>0. Types /\ CleanedClosed
      BY DEF TInv
  <1>1. ASSUME NEW d \in 1..MaxConns
        PROVE  /\ conn'[d] \in ConnType
               /\ conn'[d].id = conn[d].id
               /\ conn[d].closed => conn'[d].closed
               /\ conn'[d].cleanRecv \/ conn'[d].cleanSend => conn'[d].closed
      BY <1>0 DEF Types, ConnType, CleanedClosed
  <1>2. ASSUME NEW p \in 1..MaxConns
        PROVE  /\ packet'[p] \in PacketType
               /\ \/ packet'[p] = packet[p]
                  \/ /\ packet[p].place = "inFlight" /\ packet'[p].place = "idle"
                     /\ p \in Conns /\ packet'[p].of = packet[p].of
      BY <1>0 DEF Types, PacketType, Places
  <1>3. Types'
      BY <1>0, <1>1, <1>2 DEF Types, Conns, None
  <1>4. ~Wrapped => PacketsNamed'
      BY <1>1, <1>2 DEF TInv, PacketsNamed, Conns
  <1>5. \A p \in Conns : packet[p].place = "idle" => packet'[p].place = "idle"
      BY <1>0, <1>2, ConnectionTableAssumption DEF Types, Conns
  <1> QED
      BY <1>1, <1>3, <1>4, <1>5, ClosingStep

\* What a removal does to the connections and the table.
LEMMA Cleaned ==
    ASSUME TInv, NEW now \in {CleanedSend, CleanedRecv}
    PROVE  /\ now \in [1..MaxConns -> ConnType]
           /\ \A d \in 1..MaxConns :
                /\ now[d].id = conn[d].id
                /\ conn[d].closed => now[d].closed
                /\ now[d].cleanRecv \/ now[d].cleanSend => now[d].closed
           /\ Erase(now) \in [Ids -> 0..MaxConns]
           /\ \A i \in Ids : Erase(now)[i] = table[i]
                             \/ (Erase(now)[i] = None /\ (table[i] # None => now[table[i]].closed))
  <1>0. Types /\ CleanedClosed
      BY DEF TInv
  <1>1. ASSUME NEW d \in 1..MaxConns
        PROVE  /\ now[d] \in ConnType
               /\ now[d].id = conn[d].id
               /\ conn[d].closed => now[d].closed
               /\ now[d].cleanRecv \/ now[d].cleanSend => now[d].closed
    <2>1. conn[d] \in ConnType /\ (conn[d].cleanRecv \/ conn[d].cleanSend => conn[d].closed)
        BY <1>0 DEF Types, CleanedClosed
    <2>2. CASE now = CleanedSend
      <3>1. now[d] = conn[d] \/ (conn[d].closed /\ now[d] = [conn[d] EXCEPT !.cleanSend = TRUE])
          BY <2>2 DEF CleanedSend, ToClean
      <3> QED
          BY <2>1, <3>1 DEF ConnType
    <2>3. CASE now = CleanedRecv
      <3>1. now[d] = conn[d] \/ (conn[d].closed /\ now[d] = [conn[d] EXCEPT !.cleanRecv = TRUE])
          BY <2>3 DEF CleanedRecv, ToClean
      <3> QED
          BY <2>1, <3>1 DEF ConnType
    <2> QED
        BY <2>2, <2>3
  <1>2. now \in [1..MaxConns -> ConnType]
      BY <1>1 DEF CleanedSend, CleanedRecv
  <1>3. \A i \in Ids : table[i] # None => table[i] \in 1..MaxConns
      BY <1>0, ConnectionTableAssumption DEF Types, None
  <1>4. Erase(now) \in [Ids -> 0..MaxConns]
      BY <1>0, ConnectionTableAssumption DEF Types, Erase, None
  <1>5. \A i \in Ids : Erase(now)[i] = table[i]
                       \/ (Erase(now)[i] = None /\ (table[i] # None => now[table[i]].closed))
      BY <1>1, <1>3 DEF Erase
  <1> QED
      BY <1>1, <1>2, <1>4, <1>5

LEMMA RemoveRecvTInv == TInv /\ RemoveRecvClosedConnections => TInv'
  <1> SUFFICES ASSUME TInv, RemoveRecvClosedConnections PROVE TInv'
      OBVIOUS
  <1> USE DEF RemoveRecvClosedConnections, userVars
  <1>1. Types'
      BY Cleaned DEF TInv, Types, Conns, None
  <1>2. ~Wrapped => PacketsNamed'
      BY Cleaned DEF TInv, PacketsNamed, Conns
  <1> QED
      BY <1>1, <1>2, Cleaned, ClosingStep

LEMMA RemoveSendTInv == TInv /\ RemoveSendClosedConnections => TInv'
  <1> SUFFICES ASSUME TInv, RemoveSendClosedConnections PROVE TInv'
      OBVIOUS
  <1> USE DEF RemoveSendClosedConnections, userVars, recvVars
  <1>0. Types
      BY DEF TInv
  <1>1. ASSUME NEW p \in 1..MaxConns
        PROVE  /\ packet'[p] \in PacketType
               /\ \/ packet'[p] = packet[p]
                  \/ /\ packet[p].place = "inFlight" /\ packet'[p].place = "context"
                     /\ ToClean(packet[p].of) /\ packet[p].of # None
      BY <1>0 DEF Types, PacketType, Places
  <1>2. Types'
      BY <1>0, <1>1, Cleaned DEF Types, Conns, None
  <1>3. \A p \in 1..MaxConns : packet[p].of # None /\ InTable(packet[p].of) => packet[p].of \in Conns
      BY InTableKept DEF TInv
  <1>4. ASSUME ~Wrapped PROVE PacketsNamed'
    <2>1. ASSUME NEW p \in 1..MaxConns, packet[p].place = "inFlight", ToClean(packet[p].of),
                 packet[p].of # None
          PROVE  p \in Conns /\ conn'[p].closed
        BY <1>3, <1>4, <2>1, Cleaned DEF TInv, PacketsNamed, ToClean
    <2> QED
        BY <1>1, <1>4, <2>1, Cleaned DEF TInv, PacketsNamed, Conns
  <1>5. \A p \in Conns : packet[p].place = "idle" => packet'[p].place = "idle"
      BY <1>0, <1>1, ConnectionTableAssumption DEF Types, Conns
  <1> QED
      BY <1>2, <1>4, <1>5, Cleaned, ClosingStep

\* A step that makes a connection, with the next ID, inserted at once or not yet.
LEMMA NewStep ==
    ASSUME TInv, made < MaxConns, UNCHANGED packet, Types',
           ids' = ids + 1, made' = made + 1,
           conn' = [conn EXCEPT ![made + 1] = NewConnection(GenerateID(ids + 1))],
           \/ table' = table /\ Reachable' \subseteq Reachable
           \/ /\ table' = Insert(made + 1, GenerateID(ids + 1))
              /\ Reachable' \subseteq Reachable \cup {made + 1},
           rPc' = "push" => rPc = "push", UNCHANGED rConn \/ rPc' # "push"
    PROVE  TInv'
  <1>c. PICK c : c = made + 1
      OBVIOUS
  <1>id. PICK id : id = GenerateID(ids + 1)
      OBVIOUS
  <1> USE <1>c, <1>id
  <1>0. Types /\ TableSound /\ CleanedClosed
      BY DEF TInv
  <1>1. /\ made \in Nat /\ ids \in Nat /\ c \in 1..MaxConns /\ c \notin Conns /\ c # None
        /\ Conns' = Conns \cup {c} /\ \A d \in Conns : d \in 1..MaxConns /\ d # c
      BY <1>0, ConnectionTableAssumption DEF Types, Conns, None
  <1>2. id \in Ids
      BY <1>1, GenerateIDType
  <1>3. /\ conn'[c] = NewConnection(id)
        /\ \A d \in 1..MaxConns : d # c => conn'[d] = conn[d]
      BY <1>0, <1>1 DEF Types
  <1>4. CleanedClosed'
      BY <1>0, <1>3 DEF CleanedClosed, NewConnection
  <1>5. \A i \in Ids : table'[i] = table[i] \/ (i = id /\ table[i] = None /\ table'[i] = c)
      BY <1>0, <1>2 DEF Insert, Types
  <1>6. TableSound'
    <2> SUFFICES ASSUME NEW i \in Ids, table'[i] # None
                 PROVE  table'[i] \in Conns' /\ conn'[table'[i]].id = i
        BY DEF TableSound, Ids, None
    <2>1. CASE table'[i] = table[i]
        BY <1>0, <1>1, <1>3, <2>1 DEF TableSound
    <2>2. CASE i = id /\ table'[i] = c
        BY <1>1, <1>3, <2>2 DEF NewConnection
    <2> QED
        BY <1>5, <2>1, <2>2
  <1>7. ASSUME ~Wrapped' PROVE IdsDistinct' /\ Listed' /\ PacketsNamed'
    <2>0. ids + 1 < IdSpace /\ ~Wrapped
        BY <1>1, <1>7, ConnectionTableAssumption DEF Wrapped
    <2>1. id = ids + 1
        BY <1>1, <2>0, GenerateIDExact
    <2>2. IdsDistinct /\ Listed /\ PacketsNamed
        BY <2>0 DEF TInv
    <2>3. \A d \in Conns : conn[d].id # id /\ conn[d].id \in Ids /\ conn'[d] = conn[d]
      <3>1. \A d \in Conns : conn[d] \in ConnType
          BY <1>0, <1>1 DEF Types
      <3> QED
          BY <1>1, <1>3, <2>1, <2>2, <3>1 DEF IdsDistinct, ConnType, Ids
    <2>4. IdsDistinct'
      <3>1. conn'[c].id = id /\ 1 <= id /\ id <= ids'
          BY <1>1, <1>3, <2>1 DEF NewConnection
      <3>2. \A d \in Conns : 1 <= conn'[d].id /\ conn'[d].id <= ids'
        <4>1. \A d \in Conns : conn[d].id \in Nat
            BY <2>3, ConnectionTableAssumption DEF Ids
        <4> QED
            BY <1>1, <2>2, <2>3, <4>1 DEF IdsDistinct
      <3>3. \A d, e \in Conns' : conn'[d].id = conn'[e].id => d = e
          BY <1>1, <2>2, <2>3, <3>1 DEF IdsDistinct
      <3> QED
          BY <1>1, <3>1, <3>2, <3>3 DEF IdsDistinct
    <2>5. ASSUME NEW d \in Conns, Kept(d) PROVE Kept(d)'
        BY <1>5, <2>3, <2>5 DEF Kept
    <2>6. table[id] = None
        BY <1>0, <1>2, <2>3 DEF TableSound
    <2>7. table' = Insert(c, id) => Kept(c)'
      <3>1. table' = Insert(c, id) => table'[id] = c
          BY <1>0, <1>2, <2>6 DEF Insert, Types
      <3> QED
          BY <1>3, <3>1 DEF Kept, NewConnection
    <2>8. packet[c].place = "idle"
        BY <1>1, <2>2 DEF PacketsNamed
    <2>9. c \notin Reachable /\ (rPc = "push" => c # rConn)
        BY <1>0, <1>1 DEF Types, Reachable
    <2>10. Listed'
      <3> SUFFICES ASSUME NEW d \in Conns',
                          (d \in Reachable \/ (rPc = "push" /\ d = rConn) \/ packet[d].place # "idle")'
                   PROVE  Kept(d)'
          BY DEF Listed
      <3>1. CASE d = c
        <4>1. d \in Reachable'
            BY <2>8, <2>9, <3>1
        <4> QED
            BY <2>7, <2>9, <3>1, <4>1
      <3>2. CASE d \in Conns
        <4>1. d # c
            BY <1>1, <3>2
        <4>2. d \in Reachable \/ (rPc = "push" /\ d = rConn) \/ packet[d].place # "idle"
            BY <4>1
        <4> QED
            BY <2>2, <2>5, <3>2, <4>2 DEF Listed
      <3> QED
          BY <1>1, <3>1, <3>2
    <2>11. PacketsNamed'
      <3>1. \A p \in 1..MaxConns : p \in Conns => p \in Conns' /\ conn'[p] = conn[p]
          BY <1>1, <2>3
      <3> QED
          BY <2>2, <3>1 DEF PacketsNamed
    <2> QED
        BY <2>4, <2>10, <2>11
  <1> QED
      BY <1>4, <1>6, <1>7 DEF TInv

LEMMA ConnectTInv == TInv /\ Connect => TInv'
  <1> SUFFICES ASSUME TInv, Connect PROVE TInv'
      OBVIOUS
  <1> USE DEF Connect, recvVars
  <1>0. Types
      BY DEF TInv
  <1>1. /\ made + 1 \in 1..MaxConns /\ made + 1 \in Conns' /\ Conns \subseteq Conns'
        /\ GenerateID(ids + 1) \in Ids
      BY <1>0, GenerateIDType, ConnectionTableAssumption DEF Types, Conns
  <1>2. conn' \in [1..MaxConns -> ConnType] /\ table' \in [Ids -> 0..MaxConns]
      BY <1>0, <1>1 DEF Types, ConnType, NewConnection, Insert
  <1>3. Types'
    <2>1. ids' \in Nat /\ made' \in 0..MaxConns /\ made' <= ids'
        BY <1>0, ConnectionTableAssumption DEF Types
    <2>2. incoming' \in Seq(Conns') /\ accepting' \in Conns' \cup {None} /\ held' \subseteq Conns'
      <3>1. incoming \in Seq(Conns) /\ accepting \in Conns \cup {None} /\ held \subseteq Conns
          BY <1>0 DEF Types
      <3>2. incoming \in Seq(Conns')
          BY <1>1, <3>1
      <3> QED
          BY <1>1, <3>1, <3>2
    <2>3. rConn' \in Conns' \cup {None}
        BY <1>0, <1>1 DEF Types
    <2> QED
        BY <1>0, <1>2, <2>1, <2>2, <2>3 DEF Types
  <1>4. Reachable' \subseteq Reachable \cup {made + 1}
      BY DEF Reachable
  <1> QED
      BY <1>3, <1>4, NewStep

LEMMA OnReceiveTInv ==
    ASSUME TInv, NEW syn \in BOOLEAN, NEW dst \in Ids, OnReceive(syn, dst) PROVE TInv'
  <1> USE DEF OnReceive, userVars
  <1>0. Types /\ TableSound
      BY DEF TInv
  <1>1. CASE table[dst] # None
    <2>1. table[dst] \in Conns
        BY <1>0, <1>1 DEF TableSound
    <2>2. Types'
        BY <1>0, <1>1, <2>1 DEF Types, connVars, Conns, None
    <2> QED
        BY <1>1, <2>2, OtherSteps DEF connVars, Reachable
  <1>2. CASE table[dst] = None /\ syn
    <2>1. /\ made + 1 \in 1..MaxConns /\ made + 1 \in Conns' /\ Conns \subseteq Conns'
          /\ GenerateID(ids + 1) \in Ids
        BY <1>0, <1>2, GenerateIDType, ConnectionTableAssumption DEF Types, Conns
    <2>2. conn' \in [1..MaxConns -> ConnType]
      <3>1. conn' = [conn EXCEPT ![made + 1] = NewConnection(GenerateID(ids + 1))]
          BY <1>2
      <3>2. NewConnection(GenerateID(ids + 1)) \in ConnType
          BY <2>1 DEF ConnType, NewConnection
      <3> QED
          BY <1>0, <2>1, <3>1, <3>2 DEF Types
    <2>3. Types'
        BY <1>0, <1>2, <2>1, <2>2, ConnectionTableAssumption DEF Types, Ids, None
    <2>4. Reachable' = Reachable
        BY DEF Reachable
    <2> QED
        BY <1>2, <2>3, <2>4, NewStep
  <1>3. CASE table[dst] = None /\ ~syn
    <2>1. Types'
        BY <1>0, <1>3 DEF Types, Conns, None
    <2>2. TableSound' /\ CleanedClosed'
        BY <1>3 DEF TInv, TableSound, CleanedClosed, Conns, Ids, None
    <2>3. ~Wrapped' => ~Wrapped
        BY <1>0, <1>3, ConnectionTableAssumption DEF Wrapped, Types
    <2>4. ASSUME ~Wrapped' PROVE IdsDistinct'
      <3>1. \A c \in Conns : conn[c].id \in Nat
        <4>1. \A c \in Conns : conn[c] \in ConnType
            BY <1>0, ConnectionTableAssumption DEF Types, Conns
        <4> QED
            BY <4>1, ConnectionTableAssumption DEF ConnType, Ids
      <3> QED
          BY <1>0, <1>3, <2>3, <2>4, <3>1 DEF TInv, IdsDistinct, Conns, Types
    <2>5. ~Wrapped' => Listed' /\ PacketsNamed'
        BY <1>3, <2>3 DEF TInv, Listed, Kept, Reachable, PacketsNamed, Conns
    <2> QED
        BY <2>1, <2>2, <2>4, <2>5 DEF TInv
  <1> QED
      BY <1>1, <1>2, <1>3

-----------------------------------------------------------------------------

\* Every step of the three threads keeps the invariant.
LEMMA NextTInv == TInv /\ [Next]_vars => TInv'
  <1> SUFFICES ASSUME TInv, [Next]_vars PROVE TInv'
      OBVIOUS
  <1>1. CASE SendThread
      BY <1>1, RemoveSendTInv, ConnectionsRunTInv, CollectTInv, ProcessSentPacketsTInv, TurnEndsTInv
         DEF SendThread
  <1>2. CASE RecvThread
      BY <1>2, RemoveRecvTInv, OnReceiveTInv, OnReceiveInsertTInv, OnReceivePushTInv,
         OnReceiveDeliverTInv, TurnEndsTInv DEF RecvThread
  <1>3. CASE User
      BY <1>3, ConnectTInv, AcceptTakeTInv, AcceptInsertTInv, CloseTInv DEF User
  <1>4. CASE \E p \in Conns : WriteThread(p)
      BY <1>4, WriteThreadTInv
  <1>5. CASE UNCHANGED vars
      BY <1>5, TurnEndsTInv
  <1> QED
      BY <1>1, <1>2, <1>3, <1>4, <1>5 DEF Next

LEMMA TInvAlways == Spec => []TInv
  BY InitTInv, NextTInv, PTL DEF Spec

LEMMA TInvOpen == TInv => OpenStaysInTable
  <1> SUFFICES ASSUME TInv, ~Wrapped, NEW c \in Reachable PROVE Kept(c)
      BY DEF OpenStaysInTable, Kept
  <1>1. Reachable \subseteq Conns
      BY DEF TInv, Types, Reachable
  <1> QED
      BY <1>1 DEF TInv, Listed

LEMMA TInvPackets == TInv => PacketsComeHome
  <1> SUFFICES ASSUME TInv PROVE PacketsComeHome
      OBVIOUS
  <1>1. \A p \in Conns : p \in 1..MaxConns
      BY ConnectionTableAssumption DEF TInv, Types, Conns
  <1> QED
      BY <1>1 DEF TInv, PacketsComeHome, PacketsNamed

\* However Close, the timeout, the two removals and Accept's second insertion cross, an
\* open connection that the user has or can accept is in the table, for every size of the
\* ID space, as long as GenerateID has not wrapped.
THEOREM OpenConnectionsListed == Spec => []OpenStaysInTable
  BY TInvAlways, TInvOpen, PTL

\* ProcessSentPackets gives a packet back to the connection that sent it or, when that
\* was closed and removed while the packet was with the UDP queue, to the context.
THEOREM PacketsReturned == Spec => []PacketsComeHome
  BY TInvAlways, TInvPackets, PTL
=============================================================================
