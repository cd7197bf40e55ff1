----------------------------- MODULE RecvPathNet -----------------------------
(***************************************************************************)
(* RecvPath against the weakest network: a copy of any packet of the       *)
(* stream may arrive at any time and any number of times.                  *)
(***************************************************************************)
EXTENDS RecvPath

CONSTANT MaxSeq          \* numbers of the stream, at most

ASSUME MaxSeqAssumption == MaxSeq \in Nat

VARIABLE handed          \* the packets the user has taken, in order

netRecvVars == <<recvVars, handed>>

NetInit == RecvInit /\ handed = <<>>

\* The ReadThreads; what they read is any packet of the stream, again and again.
Read == \E t \in ReadThreads : \E n \in 1..local[t] : ReadSocket(t, n) /\ UNCHANGED handed

Arrive(s) == AddPacketAck(s) /\ UNCHANGED handed

RecvStep == (AddPacketStore \/ OrderNext \/ OrderDone) /\ UNCHANGED handed

Take == RecvTake /\ handed' = handed \o userData

GiveBack == RecvReturn /\ UNCHANGED handed

NetNext ==
    \/ \E t \in ReadThreads : Refill(t) /\ UNCHANGED handed
    \/ Read
    \/ \E s \in 1..MaxSeq : Arrive(s)
    \/ RecvStep
    \/ GiveBack
    \/ Take
    \/ GetSelectiveAcks /\ UNCHANGED handed
    \/ \E chunk \in SUBSET acks : BuildSack(chunk) /\ UNCHANGED handed
    \/ DropAcks /\ UNCHANGED handed

\* The ReadThreads run, as packets keep being sent to their sockets, the RecvThread runs
\* and calls CheckRecvQueue after every batch of packets, the user keeps calling Recv, and
\* a packet that is missing is resent until it arrives.
NetFairness ==
    /\ WF_netRecvVars(\E t \in ReadThreads : Refill(t) /\ UNCHANGED handed)
    /\ WF_netRecvVars(Read)
    /\ WF_netRecvVars(\E s \in 1..MaxSeq : Arrive(s))
    /\ WF_netRecvVars(RecvStep)
    /\ SF_netRecvVars(OrderNext /\ UNCHANGED handed)
    /\ WF_netRecvVars(GiveBack)
    /\ WF_netRecvVars(Take)
    /\ \A s \in 1..MaxSeq : SF_netRecvVars(s \notin Got /\ Arrive(s))

NetSpec == NetInit /\ [][NetNext]_netRecvVars /\ NetFairness

\* Everything that left the ring left it in order and once: the user's packets,
\* then those in the list, then those in the RecvThread's hands, are 1, 2, 3...
HandedInOrder == handed \o userData \o ordered = [i \in 1..GetLastAck |-> i]

\* As long as what is missing keeps being resent, the user gets the whole stream:
\* neither the window nor the buffer pool stops it for good.
AllHanded == <>(Len(handed) = MaxSeq)
=============================================================================
