--------------------------- MODULE ReliableStream ---------------------------
(***************************************************************************)
(* What a connection promises its two users, for one direction: the        *)
(* packets one user hands to IConnection::Send come out of the other       *)
(* user's IConnection::Recv once each, complete and in the order of the    *)
(* calls.  Recv hands over everything that is ready, so one step may       *)
(* deliver several packets.                                                *)
(***************************************************************************)
EXTENDS Naturals, Sequences

CONSTANT Data            \* the payloads a packet can carry

VARIABLES sent,          \* payloads accepted from the sending user
          delivered      \* payloads handed to the receiving user

Init ==
    /\ sent = <<>>
    /\ delivered = <<>>

\* IConnection::Send and Send2 take packets from the user at any time.
Send ==
    /\ \E d \in Data : sent' = Append(sent, d)
    /\ UNCHANGED delivered

\* IConnection::Recv returns the next packets of the stream.
Deliver ==
    /\ \E n \in (Len(delivered) + 1)..Len(sent) : delivered' = SubSeq(sent, 1, n)
    /\ UNCHANGED sent

Next == Send \/ Deliver

Spec == Init /\ [][Next]_<<sent, delivered>>
=============================================================================
