------------------------------ MODULE TCPSocket ------------------------------
(***************************************************************************)
(* One TCPSocket (TCPSocket.h, TCPSocket.cpp, Stateful.cpp) and the        *)
(* application that overrides its callbacks.                               *)
(*                                                                         *)
(* Every method is an operator from a socket to a socket, or to the set of *)
(* sockets it may leave behind when a callback lets the application act.   *)
(* The fields `sent' and `packet' live within one handler: what it sent,   *)
(* and what is in the one global packet buffer, which an incoming segment  *)
(* shares with whatever the handler sends while it is still reading it.    *)
(*                                                                         *)
(* The buffer is abstracted to positions in the stream of bytes written:   *)
(* `released' bytes are gone, `fragments' are the ends of those that wait. *)
(***************************************************************************)
EXTENDS TCPNetwork

CONSTANTS
    ISS,        \* sequenceNumber when the socket is opened
    Timeout,    \* SCK_TIMEOUT_*, in ticks; 0 for the states without one
    TxRoom,     \* bytes of payload the transmit buffer has room for
    Writes,     \* bound: the lengths the application writes
    PushIn      \* where the application calls push(): callbacks, or "loop"

VARIABLE socket

State ==
    {"CLOSED", "LISTEN", "SYN_SENT", "SYN_RECEIVED", "ESTABLISHED", "FIN_WAIT_1",
     "FIN_WAIT_2", "CLOSE_WAIT", "CLOSING", "LAST_ACK", "TIME_WAIT"}

\* The states tick() leaves when their timer runs out.
TimedStates ==
    {"SYN_RECEIVED", "SYN_SENT", "TIME_WAIT", "CLOSING", "FIN_WAIT_2", "FIN_WAIT_1", "LAST_ACK"}

ASSUME TCPSocketAssumption ==
    /\ ISS \in SeqNumber
    /\ Timeout \in [State -> 0 .. 255]
    /\ \A st \in TimedStates : Timeout[st] > 0
    /\ TxRoom \in Nat
    /\ Writes \subseteq Nat \ {0}
    /\ PushIn \subseteq {"onConnect", "onReceive", "onClose", "loop"}

NoPacket == [flags |-> {}, from |-> 1, len |-> 0]

\* The packet buffer after a segment came in, and after a header was prepared
\* in it: the payload is then in the controller, and what lies behind the
\* header is nothing the peer sent (byte 0).
Incoming(seg) == [flags |-> seg.flags, from |-> seg.from, len |-> seg.len]
Outgone(seg) == [flags |-> seg.flags, from |-> 0, len |-> seg.len]

Fresh ==
    [state |-> "CLOSED", stateTimer |-> 0, sequenceNumber |-> ISS, ackNumber |-> 0,
     nextFlags |-> {}, written |-> 0, released |-> 0, fragments |-> {},
     received |-> <<>>, opened |-> FALSE, sent |-> {}, packet |-> NoPacket]

\* Mutant: the timer of the previous state goes on.
setState_KeepsTimer(s, st) == [s EXCEPT !.state = st]

setState(s, st) == [s EXCEPT !.state = st, !.stateTimer = Timeout[st]]

-----------------------------------------------------------------------------
(* Sending *)

\* What prepareTCPPacket puts into the header, with len bytes of payload.
Frame(s, flags, len) ==
    [flags |-> flags, seq |-> s.sequenceNumber, ack |-> s.ackNumber,
     from |-> s.released + 1, len |-> len]

sendSYN(s, ack) == [s EXCEPT !.sent = @ \cup {Frame(s, {"SYN"} \cup ack, 0)}]

Boundaries(s) == s.fragments \cup {s.released}

\* Mutant: one fragment to a frame.
FrameEnds_One(s) == {e \in s.fragments : \A f \in s.fragments : e <= f} \cup
                    {e \in {s.released} : s.fragments = {}}

\* Where the frame fillTxBuffer assembles ends: the last fragment that fits.
FrameEnds(s) ==
    {e \in Boundaries(s) :
        /\ e - s.released <= TxRoom
        /\ \A f \in Boundaries(s) : f - s.released <= TxRoom => f <= e}

\* Everything not acknowledged goes out again, from the oldest byte on.
processOutgoingBuffer(s) ==
    LET flags == IF s.fragments = {} THEN s.nextFlags ELSE s.nextFlags \cup {"ACK"} IN
    IF flags = {} THEN {s}
    ELSE {LET frame == Frame(s, flags, e - s.released)
          IN  [s EXCEPT !.sent = @ \cup {frame}, !.nextFlags = {}, !.packet = Outgone(frame)]
          : e \in FrameEnds(s)}

push(s) == processOutgoingBuffer([s EXCEPT !.nextFlags = @ \cup {"PSH"}])

-----------------------------------------------------------------------------
(* The application's calls *)

write(s, n) == [s EXCEPT !.written = @ + n, !.fragments = @ \cup {s.written + n}]

close(s) ==
    IF s.state = "CLOSE_WAIT" THEN setState(s, "LAST_ACK")
    ELSE IF s.state = "ESTABLISHED" THEN setState(s, "FIN_WAIT_1")
    ELSE s

\* Back to CLOSED; buffer.flush() drops what was not acknowledged.
terminate(s) == [setState(s, "CLOSED") EXCEPT !.fragments = {}]

\* The application writes only between onConnect and its own close().
MayWrite(s) == {n \in Writes : s.state \in {"ESTABLISHED", "CLOSE_WAIT"} /\ s.written + n <= MaxData}

\* What the application does in a callback: write, push and close, in this
\* order, or less; or give up.
Reactions(s, where) ==
    LET wrote == {s} \cup {write(s, n) : n \in MayWrite(s)}
        pushed == wrote \cup UNION {push(t) : t \in {u \in wrote : where \in PushIn}}
    IN  pushed \cup {close(t) : t \in pushed} \cup {terminate(s)}

onConnect(s) == Reactions(s, "onConnect")
onClose(s) == Reactions(s, "onClose")
onReceive(s) ==
    Reactions([s EXCEPT !.received = @ \o Bytes(s.packet, 0, s.packet.len)], "onReceive")

\* accept() answers the request; an application that does not call it leaves
\* the socket listening.
onConnectRequest(s, seg) ==
    LET asked == [s EXCEPT !.ackNumber = Plus(seg.seq, 1)]
    IN  {s, setState(sendSYN(asked, {"ACK"}), "SYN_RECEIVED")}

-----------------------------------------------------------------------------
(* Receiving *)

bytesAck(s, seg) == Signed(seg.ack - s.sequenceNumber)

\* Mutant: an old acknowledgement takes sequenceNumber back.
Acked_Old(s, seg) ==
    [s EXCEPT !.sequenceNumber = Plus(@, bytesAck(s, seg)), !.packet = Incoming(seg)]

\* The part of the handler that every segment but a reset goes through: the
\* acknowledgement number is used whether or not the ACK flag is set.
Acked(s, seg) ==
    [s EXCEPT !.sequenceNumber = IF bytesAck(s, seg) > 0 THEN Plus(@, bytesAck(s, seg)) ELSE @,
              !.packet = Incoming(seg)]

\* What is left once releaseWindow has released everything up to byte r.
Released(s, r) == [s EXCEPT !.released = r, !.fragments = {e \in @ : e > r}]

\* Mutant: one fragment more is released (>= for >).
ReleasedTo_One(s, n) ==
    {r \in Boundaries(s) :
        /\ \A e \in Boundaries(s) : e < r => e - s.released <= n
        /\ r - s.released > n \/ \A e \in Boundaries(s) : e <= r}

\* Where releaseWindow(n) may stop: a fragment is released as long as some of
\* n is left, and whole.
ReleasedTo(s, n) ==
    {r \in Boundaries(s) :
        /\ \A e \in Boundaries(s) : e < r => e - s.released < n
        /\ r - s.released >= n \/ \A e \in Boundaries(s) : e <= r}

\* Mutant: any acknowledgement counts as the one of the FIN.
FinAcked_Any(s, rest) == s.fragments = {}

\* Whether an acknowledgement that left rest over is taken for the FIN's.
FinAcked(s, rest) == rest = 1 /\ s.fragments = {}

\* The switch at the end of the handler, after onReceive: rest is what the
\* acknowledgement covered beyond the buffer.
Dispatched(s, rest) ==
    LET fin == "FIN" \in s.packet.flags
        finAcked == FinAcked(s, rest)
        ackNext(t) == [t EXCEPT !.nextFlags = @ \cup {"ACK"}]
    IN  CASE s.state = "ESTABLISHED" /\ fin ->
                onClose(setState(s, "CLOSE_WAIT"))
          [] s.state = "FIN_WAIT_1" /\ finAcked /\ fin ->
                onClose(setState(s, "TIME_WAIT"))
          [] s.state = "FIN_WAIT_1" /\ finAcked /\ ~fin ->
                {setState(s, "FIN_WAIT_2")}
          [] s.state = "FIN_WAIT_1" /\ ~finAcked /\ fin ->
                onClose(ackNext(setState(s, "CLOSING")))
          [] s.state = "CLOSING" /\ finAcked ->
                {setState(s, "TIME_WAIT")}
          [] s.state = "CLOSING" /\ ~finAcked ->
                {ackNext(s)}
          [] s.state = "FIN_WAIT_2" /\ fin ->
                onClose(ackNext(setState(s, "TIME_WAIT")))
          [] s.state = "LAST_ACK" ->
                {terminate(s)}
          [] OTHER -> {s}

\* The rest of the handler for a segment that is next in sequence.  Length and
\* flags are read from the packet buffer: a push() in onConnect or onReceive
\* has put its own there.
InSequence(s, rest) ==
    LET len == s.packet.len
        taken == [s EXCEPT !.ackNumber = Plus(@, len),
                           !.nextFlags = IF len > 0 THEN @ \cup {"ACK"} ELSE @]
        finned(t) == IF "FIN" \in t.packet.flags THEN [t EXCEPT !.ackNumber = Plus(@, 1)] ELSE t
        delivered == IF len > 0 THEN onReceive(taken) ELSE {taken}
    IN  UNION {Dispatched(finned(t), rest) : t \in delivered}

\* Mutant: the sequence number is not looked at.
Windowed_AnySeq(s, seq, n) ==
    UNION {InSequence(Released(s, r), n - (r - s.released)) : r \in ReleasedTo(s, n)}

\* Releasing what was acknowledged, and then the segment itself.
Windowed(s, seq, n) ==
    UNION {LET t == Released(s, r)
               rest == n - (r - s.released)
           IN  IF t.ackNumber # seq
               THEN {[t EXCEPT !.nextFlags = @ \cup {"ACK"}]}
               ELSE InSequence(t, rest)
           : r \in ReleasedTo(s, n)}

-----------------------------------------------------------------------------
(* Actions *)

\* The handler is done: the socket is one of S, and what it sent is on its way.
Become(S) ==
    /\ \E s \in S :
        /\ socket' = [s EXCEPT !.sent = {}, !.packet = NoPacket]
        /\ toPeer' = Sent(toPeer, s.sent, MaxToPeer)
    /\ UNCHANGED toSocket

\* Bound: a socket is opened once.
connect ==
    /\ ~socket.opened
    /\ Become({sendSYN(setState([socket EXCEPT !.ackNumber = 0, !.opened = TRUE], "SYN_SENT"), {})})

listen ==
    /\ ~socket.opened
    /\ Become({setState([socket EXCEPT !.opened = TRUE], "LISTEN")})

\* Calls from the program's loop, outside any callback.
applicationCall ==
    /\ socket.state \in {"ESTABLISHED", "CLOSE_WAIT"}
    /\ Become(Reactions(socket, "loop"))

\* The application gives the connection up.
applicationTerminate ==
    /\ socket.state # "CLOSED"
    /\ Become({terminate(socket)})

timedOut ==
    /\ socket.stateTimer = 1
    /\ socket.state \in TimedStates
    /\ Become({terminate(socket)})

\* Mutant: tick() does not count the timer down.
Counted_Never(s) == s
Counted(s) == IF s.stateTimer > 0 THEN [s EXCEPT !.stateTimer = @ - 1] ELSE s

\* The fall-through switch of tick().
Outgoing(s) ==
    CASE s.state = "SYN_SENT" -> {sendSYN(s, {})}
      [] s.state = "SYN_RECEIVED" -> {sendSYN(s, {"ACK"})}
      [] \/ s.state \in {"FIN_WAIT_1", "CLOSING"} /\ s.fragments = {}
         \/ s.state = "LAST_ACK" ->
            processOutgoingBuffer([s EXCEPT !.nextFlags = @ \cup {"FIN", "ACK"}])
      [] s.state = "FIN_WAIT_2" ->
            processOutgoingBuffer([s EXCEPT !.nextFlags = @ \cup {"ACK"}])
      [] \/ s.state \in {"FIN_WAIT_1", "CLOSING"} /\ s.fragments # {}
         \/ s.state \in {"TIME_WAIT", "ESTABLISHED"} ->
            processOutgoingBuffer(s)
      [] OTHER -> {s}

tick ==
    \/ timedOut
    \/ /\ ~(socket.stateTimer = 1 /\ socket.state \in TimedStates)
       /\ Become(Outgoing(Counted(socket)))

receiveReset(seg) ==
    /\ "RST" \in seg.flags
    /\ socket.state \notin {"CLOSED", "LISTEN"}
    /\ Become({terminate(socket)})

receiveSynAck(seg) ==
    /\ "RST" \notin seg.flags
    /\ socket.state = "SYN_SENT"
    /\ {"SYN", "ACK"} \subseteq seg.flags
    /\ LET s == Acked(socket, seg)
       IN  Become(onConnect(setState([s EXCEPT !.ackNumber = Plus(seg.seq, 1),
                                               !.nextFlags = @ \cup {"ACK"}],
                                     "ESTABLISHED")))

receiveConnectRequest(seg) ==
    /\ "RST" \notin seg.flags
    /\ socket.state = "LISTEN"
    /\ "SYN" \in seg.flags
    /\ Become(onConnectRequest(Acked(socket, seg), seg))

\* SYN_RECEIVED ignores what does not carry an ACK, its number excepted.
receiveWithoutAck(seg) ==
    /\ "RST" \notin seg.flags
    /\ socket.state = "SYN_RECEIVED"
    /\ "ACK" \notin seg.flags
    /\ Become({Acked(socket, seg)})

\* The SYN counts as one byte that is not in the buffer.
HandshakeBytes(n) == n - 1

\* SYN_RECEIVED takes any ACK for the one of its SYN.
receiveHandshakeAck(seg) ==
    /\ "RST" \notin seg.flags
    /\ socket.state = "SYN_RECEIVED"
    /\ "ACK" \in seg.flags
    /\ Become(UNION {Windowed(s, seg.seq, HandshakeBytes(bytesAck(socket, seg))) :
                     s \in onConnect(setState(Acked(socket, seg), "ESTABLISHED"))})

receiveSegment(seg) ==
    /\ "RST" \notin seg.flags
    /\ socket.state \notin {"CLOSED", "SYN_RECEIVED"}
    /\ ~(socket.state = "SYN_SENT" /\ {"SYN", "ACK"} \subseteq seg.flags)
    /\ ~(socket.state = "LISTEN" /\ "SYN" \in seg.flags)
    /\ Become(Windowed(Acked(socket, seg), seg.seq, bytesAck(socket, seg)))

onPacketReceived(seg) ==
    \/ receiveReset(seg)
    \/ receiveSynAck(seg)
    \/ receiveConnectRequest(seg)
    \/ receiveWithoutAck(seg)
    \/ receiveHandshakeAck(seg)
    \/ receiveSegment(seg)

SocketInit == socket = Fresh
=============================================================================
