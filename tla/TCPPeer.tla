------------------------------- MODULE TCPPeer -------------------------------
(***************************************************************************)
(* The other end of a TCPSocket's connection.  It is not part of the       *)
(* library: it stands for any TCP that keeps to RFC 793, with whatever     *)
(* timing, and is free to retransmit, to fall silent and to reset.         *)
(*                                                                         *)
(* It counts what it sends and receives in units of the sequence space:    *)
(* unit 0 is the SYN, units 1 .. PeerData are bytes, the last is the FIN.  *)
(***************************************************************************)
EXTENDS TCPNetwork

CONSTANTS
    PeerISS,        \* its initial sequence number
    PeerData,       \* bytes it sends before its FIN
    PeerOpens,      \* whether it opens the connection (TRUE), or the socket does, or either
    PeerResets,     \* TRUE when it may reset the connection
    PartialAccept   \* TRUE when its window may cut a segment short

ASSUME TCPPeerAssumption ==
    /\ PeerISS \in SeqNumber
    /\ PeerData \in 0 .. MaxData
    /\ PeerOpens \subseteq BOOLEAN
    /\ PeerResets \in BOOLEAN
    /\ PartialAccept \in BOOLEAN

VARIABLE peer
    \* opens      whether it is the one that opens the connection
    \* irs        the socket's initial sequence number
    \* rcvd       units received in order
    \* got        the bytes among them
    \* finRcvd    whether the socket's FIN was the last of them
    \* una, nxt   units acknowledged by the socket, units sent
    \* aborted    whether it has reset the connection

PeerInit ==
    \E opens \in PeerOpens :
        peer = [opens |-> opens, irs |-> 0, rcvd |-> 0, got |-> <<>>, finRcvd |-> FALSE,
                una |-> 0, nxt |-> 0, aborted |-> FALSE]

PeerSeq(unit) == Plus(PeerISS, unit)
PeerAck == Plus(peer.irs, peer.rcvd)
FinUnit == PeerData + 1

PeerSends(seg) ==
    /\ toSocket' = Sent(toSocket, {seg}, MaxToSocket)
    /\ UNCHANGED toPeer

peerConnect ==
    /\ peer.opens
    /\ ~peer.aborted
    /\ peer.rcvd = 0
    /\ peer' = [peer EXCEPT !.nxt = 1]
    /\ PeerSends([flags |-> {"SYN"}, seq |-> PeerSeq(0), ack |-> 0, from |-> 1, len |-> 0])

peerAccept ==
    /\ ~peer.opens
    /\ ~peer.aborted
    /\ peer.rcvd > 0
    /\ peer.una = 0
    /\ peer' = [peer EXCEPT !.nxt = 1]
    /\ PeerSends([flags |-> {"SYN", "ACK"}, seq |-> PeerSeq(0), ack |-> PeerAck,
                  from |-> 1, len |-> 0])

\* A segment of n bytes from unit first on: new, or sent before; or an
\* acknowledgement alone.
peerSend(first, n, fin) ==
    /\ ~peer.aborted
    /\ peer.rcvd > 0
    /\ peer.una > 0
    /\ first \in {peer.una, peer.nxt}
    /\ first + n <= FinUnit
    /\ fin => first + n = FinUnit
    /\ LET end == first + n + IF fin THEN 1 ELSE 0
       IN  peer' = [peer EXCEPT !.nxt = IF end > @ THEN end ELSE @]
    /\ PeerSends([flags |-> {"ACK"} \cup (IF fin THEN {"FIN"} ELSE {}),
                  seq |-> PeerSeq(first), ack |-> PeerAck, from |-> first, len |-> n])

\* Nothing but an acknowledgement, once everything has been sent.
peerAcknowledge ==
    /\ ~peer.aborted
    /\ peer.rcvd > 0
    /\ peer.una > 0
    /\ peer.nxt = FinUnit + 1
    /\ UNCHANGED peer
    /\ PeerSends([flags |-> {"ACK"}, seq |-> PeerSeq(peer.nxt), ack |-> PeerAck,
                  from |-> 1, len |-> 0])

peerReset ==
    /\ PeerResets
    /\ ~peer.aborted
    /\ peer.nxt > 0
    /\ peer' = [peer EXCEPT !.aborted = TRUE]
    /\ PeerSends([flags |-> {"RST"}, seq |-> PeerSeq(peer.nxt), ack |-> 0, from |-> 1, len |-> 0])

-----------------------------------------------------------------------------
(* Receiving *)

\* The units the segment acknowledges, when it acknowledges anything new.
Unacknowledged(seg) ==
    IF "ACK" \in seg.flags
    THEN {u \in peer.una .. peer.nxt : PeerSeq(u) = seg.ack}
    ELSE {peer.una}

peerReceiveSyn(seg) ==
    /\ ~peer.aborted
    /\ peer.rcvd = 0
    /\ "SYN" \in seg.flags
    /\ peer.opens <=> "ACK" \in seg.flags
    /\ \E u \in Unacknowledged(seg) :
        peer' = [peer EXCEPT !.irs = seg.seq, !.rcvd = 1, !.una = u]
    /\ UNCHANGED <<toPeer, toSocket>>

\* The segment starts skip units before the next one expected: what it has
\* beyond them is taken, all of it unless the window is short.
peerReceive(seg) ==
    LET skip == (PeerAck - seg.seq) % SeqMod
        new == seg.len - skip
    IN  /\ ~peer.aborted
        /\ peer.rcvd > 0
        /\ "SYN" \notin seg.flags
        /\ \E u \in Unacknowledged(seg) :
            \/ /\ skip <= seg.len
               /\ ~peer.finRcvd
               /\ \E k \in IF PartialAccept THEN 0 .. new ELSE {new} :
                    LET fin == "FIN" \in seg.flags /\ k = new
                    IN  peer' = [peer EXCEPT
                            !.una = u,
                            !.got = @ \o Bytes(seg, skip, k),
                            !.finRcvd = fin,
                            !.rcvd = @ + k + IF fin THEN 1 ELSE 0]
            \/ /\ skip > seg.len \/ peer.finRcvd
               /\ peer' = [peer EXCEPT !.una = u]
        /\ UNCHANGED <<toPeer, toSocket>>

PeerNext ==
    \/ peerConnect
    \/ peerAccept
    \/ \E first \in 1 .. FinUnit, n \in 0 .. PeerData, fin \in BOOLEAN : peerSend(first, n, fin)
    \/ peerAcknowledge
    \/ peerReset
    \/ \E seg \in toPeer : peerReceiveSyn(seg) \/ peerReceive(seg)
=============================================================================
