---------------------------- MODULE TCPConnection ----------------------------
(***************************************************************************)
(* A TCPSocket, its peer, and the network between them.                    *)
(***************************************************************************)
EXTENDS TCPSocket, TCPPeer

vars == <<socket, peer, toPeer, toSocket>>

Init ==
    /\ SocketInit
    /\ PeerInit
    /\ NetworkInit

SocketNext ==
    \/ connect /\ ~peer.opens
    \/ listen /\ peer.opens
    \/ applicationCall
    \/ applicationTerminate
    \/ tick
    \/ \E seg \in toSocket : onPacketReceived(seg)

Next ==
    \/ SocketNext /\ UNCHANGED peer
    \/ PeerNext /\ UNCHANGED socket
    \/ Lose /\ UNCHANGED <<socket, peer>>

Spec == Init /\ [][Next]_vars

\* NetworkService::loop() ticks every socket for ever.
FairSpec == Spec /\ WF_vars(tick /\ UNCHANGED peer)

-----------------------------------------------------------------------------

Packets == [flags : SUBSET Flag, from : 0 .. MaxData + 1, len : 0 .. MaxData]

Sockets ==
    [state : State, stateTimer : 0 .. 255, sequenceNumber : SeqNumber, ackNumber : SeqNumber,
     nextFlags : SUBSET Flag, written : 0 .. MaxData, released : 0 .. MaxData,
     fragments : SUBSET (1 .. MaxData), received : Seq(Nat), opened : BOOLEAN,
     sent : SUBSET Segment, packet : Packets]

\* A fragment that waits lies between what was released and what was written.
SocketTypeOK(s) ==
    /\ s \in Sockets
    /\ s.released <= s.written
    /\ \A e \in s.fragments : s.released < e /\ e <= s.written

Peers ==
    [opens : BOOLEAN, irs : SeqNumber, rcvd : Nat, got : Seq(Nat), finRcvd : BOOLEAN,
     una : 0 .. FinUnit + 1, nxt : 0 .. FinUnit + 1, aborted : BOOLEAN]

(* Socket, peer and segments keep to their declared ranges.                *)
TypeOK ==
    /\ SocketTypeOK(socket)
    /\ peer \in Peers
    /\ toPeer \subseteq Segment
    /\ toSocket \subseteq Segment

InOrder(bytes) == \A k \in 1 .. Len(bytes) : bytes[k] = k

(* The peer receives the bytes the application wrote, in order, none       *)
(* twice and none missing, whatever the network does to the segments.      *)
StreamIntact == InOrder(peer.got) /\ Len(peer.got) <= socket.written

(* onReceive is handed the bytes the peer sent, in order and once each.    *)
DeliveredIntact == InOrder(socket.received) /\ Len(socket.received) <= PeerData

(* A fragment is released only when the peer has all of it: nothing that   *)
(* may have to be sent again is gone (TCPSocket.cpp:504-512).              *)
NothingReleasedTooEarly == socket.released <= Len(peer.got)

(* The peer sees the end of the stream only after all of it.               *)
FinAfterAllData == peer.finRcvd => Len(peer.got) = socket.written

(* The application is told that the peer has closed only after it was      *)
(* handed everything the peer sent.                                        *)
CloseAfterAllData ==
    socket.state \in {"CLOSE_WAIT", "LAST_ACK", "CLOSING", "TIME_WAIT"}
        => Len(socket.received) = PeerData

(* FIN_WAIT_2 and TIME_WAIT are reached only when the peer really has the  *)
(* FIN.                                                                    *)
FinAcknowledged == socket.state \in {"FIN_WAIT_2", "TIME_WAIT"} => peer.finRcvd

(* Once either side is closing, the socket ends up CLOSED, whatever the    *)
(* peer, the network and the application do: a silent peer does not hold   *)
(* it.                                                                     *)
ClosingEnds ==
    socket.state \in {"FIN_WAIT_1", "FIN_WAIT_2", "CLOSING", "LAST_ACK", "TIME_WAIT"}
        ~> socket.state = "CLOSED"

TimerRuns(s) == s.state \in TimedStates => s.stateTimer > 0

(* Every state that waits for the peer has its timer running, through all  *)
(* the ways into it and all that happens in it.                            *)
TimersRun == TimerRuns(socket)
=============================================================================
