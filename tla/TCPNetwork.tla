----------------------------- MODULE TCPNetwork -----------------------------
(***************************************************************************)
(* What lies between a TCPSocket and its peer: segments, their 32-bit      *)
(* sequence numbers, and a network that loses, delays, duplicates and      *)
(* reorders.  A segment stays where it is when it is received, so it may   *)
(* arrive again at any later time; losing it is a step of its own.         *)
(***************************************************************************)
EXTENDS Integers, Sequences, FiniteSets

CONSTANTS
    HalfSeq,        \* half the sequence numbers: 2^31 in the code
    MaxData,        \* bound: bytes either side sends over a connection
    MaxToPeer,      \* bound: segments on their way to the peer
    MaxToSocket     \* bound: segments on their way to the socket

ASSUME TCPNetworkAssumption ==
    /\ HalfSeq \in Nat \ {0}
    /\ MaxData \in Nat
    /\ MaxToPeer \in Nat
    /\ MaxToSocket \in Nat

VARIABLES
    toPeer,     \* segments the socket sent and the network did not lose
    toSocket    \* segments the peer sent and the network did not lose

SeqMod == 2 * HalfSeq
SeqNumber == 0 .. SeqMod - 1

\* Addition of uint32_t, and the difference of two of them cast to int32_t.
Plus(a, n) == (a + n) % SeqMod
Signed(d) == IF d % SeqMod < HalfSeq THEN d % SeqMod ELSE (d % SeqMod) - SeqMod

Flag == {"SYN", "ACK", "FIN", "RST", "PSH"}

\* The payload is the run of len bytes of the sender's stream that starts at
\* byte from: what it is, whatever the sequence number says.
Segment ==
    [flags : SUBSET Flag, seq : SeqNumber, ack : SeqNumber,
     from : 1 .. MaxData + 1, len : 0 .. MaxData]

\* The bytes of a segment's payload but the first skip, as far as the n-th after.
Bytes(seg, skip, n) == [k \in 1 .. n |-> seg.from + skip + k - 1]

\* What segs adds to the network: all of it, or none where the bound is reached.
Sent(network, segs, bound) ==
    IF Cardinality(network \cup segs) <= bound THEN network \cup segs ELSE network

NetworkInit ==
    /\ toPeer = {}
    /\ toSocket = {}

Lose ==
    \/ \E seg \in toPeer : toPeer' = toPeer \ {seg} /\ UNCHANGED toSocket
    \/ \E seg \in toSocket : toSocket' = toSocket \ {seg} /\ UNCHANGED toPeer
=============================================================================
