---------------------------- MODULE SendPathPeer ----------------------------
(***************************************************************************)
(* SendPath against the weakest peer the protocol allows: any transmission *)
(* may or may not arrive, and at any time a Sack may arrive that           *)
(* acknowledges some of what the peer has: old, reordered and duplicated   *)
(* Sacks are among them.                                                   *)
(***************************************************************************)
EXTENDS SendPath

VARIABLES got,           \* the packets the peer has received
          owed           \* packets it has received and not yet acked once more

peerVars == <<sendVars, got, owed>>

PeerInit == SendInit /\ got = {} /\ owed = {}

\* The Sacks a peer with the packets of g may have sent, early or late.
SacksOf(g) == {m \in [ack : 0..MaxPackets, acks : SUBSET g] : 1..m.ack \subseteq g}

\* A stage of the SendThread.
SendStep ==
    /\ \/ \E timedOut \in SUBSET inFlight : SendPackets(timedOut)
       \/ ProcessAcks
       \/ \E size \in 0..MaxPackets : GetPacketsToSend(size)
       \/ TakeSent
       \/ AddQueue
    /\ UNCHANGED <<got, owed>>

\* A WriteThread transmits a packet that UDP loses, or that reaches the peer: the
\* peer acks every arrival, also that of a duplicate.
TransmitLost(s) == Write(s) /\ UNCHANGED <<got, owed>>
TransmitOK(s)   == Write(s) /\ got' = got \cup {s} /\ owed' = owed \cup {s}

\* The ack of an arrival comes back, or is lost or dropped on the way.
AckOK(s)   == s \in owed /\ owed' = owed \ {s} /\ OnSack([ack |-> 0, acks |-> {s}]) /\ UNCHANGED got
AckLost(s) == s \in owed /\ owed' = owed \ {s} /\ UNCHANGED <<sendVars, got>>

PeerNext ==
    \/ \E d \in Data : UserSend(d) /\ UNCHANGED <<got, owed>>
    \/ SendStep
    \/ \E s \in udpSendQueue : TransmitLost(s) \/ TransmitOK(s)
    \/ \E s \in owed : AckOK(s) \/ AckLost(s)
    \/ \E m \in SacksOf(got) : OnSack(m) /\ UNCHANGED <<got, owed>>

\* The SendThread and the WriteThreads run.  The rest is what the environment
\* owes: a transmission tried for ever gets through, and so does an ack sent for
\* ever; a packet left in flight times out; and the speed controller grants packets.
PeerFairness ==
    /\ WF_peerVars(SendStep)
    /\ SF_peerVars(\E size \in 1..MaxPackets : GetPacketsToSend(size) /\ UNCHANGED <<got, owed>>)
    /\ \A s \in 1..MaxPackets :
        /\ SF_peerVars(TransmitOK(s))
        /\ SF_peerVars(AckOK(s))
        /\ SF_peerVars(\E T \in SUBSET inFlight : s \in T /\ SendPackets(T) /\ UNCHANGED <<got, owed>>)

PeerSafety == PeerInit /\ [][PeerNext]_peerVars
PeerSpec   == PeerSafety /\ PeerFairness

\* No buffer is given back to the user before the peer has its packet.
ReleasedOnlyIfGot == Released \subseteq got

\* Whatever is lost, and however acks, timeouts and resends cross, every packet
\* accepted by Send is received and its buffer comes back to the user.
AllReleased == []<>(sendUserData = <<>> /\ Unacked = {})
=============================================================================
