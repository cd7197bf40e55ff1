----------------------------- MODULE MessageFraming -----------------------------
(***************************************************************************)
(* A message is written into packets by a MessageWriter and read back by a *)
(* MessageReader that is asked for values of the same sizes: numbers,      *)
(* strings and spans.  (Lists of whole packets, which go between the       *)
(* packets with values, are left out.)                                     *)
(*                                                                         *)
(* The k-th byte that is written is modelled by the number k, the bytes of *)
(* the count of packets by Count, and what was in a packet before by Old.  *)
(* A step is one turn of the loop of write or read.                        *)
(***************************************************************************)
EXTENDS Naturals, Sequences

CONSTANTS PayloadSize,  \* bytes of a packet (1300 in the code)
          CountSize,    \* bytes of the count of packets (4)
          MaxPackets,   \* packets the writer was given, of which this many are looked at
          MaxValues,    \* values in a message
          MaxSize       \* bytes of a value

VARIABLES
    phase,      \* "write" or "read"
    packets,    \* the payloads
    packet,     \* _packet of the writer, then of the reader
    offset,     \* _offset
    values,     \* the sizes of the values written
    left,       \* bytes of the current value that are to be written or read
    written,    \* bytes written so far
    got         \* the bytes read so far

vars == <<phase, packets, packet, offset, values, left, written, got>>

Count == 0
Old == MaxValues * MaxSize + 1
Min2(a, b) == IF a < b THEN a ELSE b

Init ==
    /\ phase = "write"
    /\ packets = [p \in 1..MaxPackets |-> [i \in 1..PayloadSize |-> Old]]
    /\ packet = 1 /\ offset = CountSize
    /\ values = <<>> /\ left = 0 /\ written = 0 /\ got = <<>>

\* A loop of write or read: at the end of a packet it goes to the next one.  The
\* reference to the packet it left stays as it is, as assigning one IPacket to another
\* copies nothing: the bytes go to, or come from, the packet with the number "packet".
Turn ==
    LET next == offset = PayloadSize
    IN [packet |-> IF next THEN packet + 1 ELSE packet,
        from   |-> IF next THEN 0 ELSE offset,
        size   |-> Min2(left, PayloadSize - (IF next THEN 0 ELSE offset))]

\* operator<< for a value of n bytes.
Write(n) ==
    /\ phase = "write" /\ left = 0 /\ Len(values) < MaxValues
    /\ values' = Append(values, n) /\ left' = n
    /\ UNCHANGED <<phase, packets, packet, offset, written, got>>

WriteTurn ==
    /\ phase = "write" /\ left > 0
    /\ Turn.packet <= MaxPackets
    /\ packets' = [packets EXCEPT ![packet] =
            [i \in 1..PayloadSize |->
                IF i \in (Turn.from + 1)..(Turn.from + Turn.size)
                THEN written + i - Turn.from ELSE @[i]]]
    /\ packet' = Turn.packet /\ offset' = Turn.from + Turn.size
    /\ left' = left - Turn.size /\ written' = written + Turn.size
    /\ UNCHANGED <<phase, values, got>>

\* GetWritedPackets puts the count into the first packet; the message is sent, and a
\* MessageReader made of it.
GetWritedPackets ==
    /\ phase = "write" /\ left = 0 /\ values # <<>>
    /\ phase' = "read"
    /\ packets' = [packets EXCEPT ![1] = [i \in 1..PayloadSize |-> IF i <= CountSize THEN Count ELSE @[i]]]
    /\ packet' = 1 /\ offset' = CountSize
    /\ UNCHANGED <<values, left, written, got>>

\* operator>> for the next value.
Read ==
    /\ phase = "read" /\ left = 0 /\ values # <<>>
    /\ left' = Head(values) /\ values' = Tail(values)
    /\ UNCHANGED <<phase, packets, packet, offset, written, got>>

ReadTurn ==
    /\ phase = "read" /\ left > 0
    /\ got' = got \o SubSeq(packets[packet], Turn.from + 1, Turn.from + Turn.size)
    /\ packet' = Turn.packet /\ offset' = Turn.from + Turn.size
    /\ left' = left - Turn.size
    /\ UNCHANGED <<phase, packets, values, written>>

Next == \/ \E n \in 1..MaxSize : Write(n)
        \/ WriteTurn \/ GetWritedPackets \/ Read \/ ReadTurn

Spec == Init /\ [][Next]_vars

\* What is read is what was written, byte for byte, whatever packets it is spread over.
ReadBack == \A k \in DOMAIN got : got[k] = k
=============================================================================
