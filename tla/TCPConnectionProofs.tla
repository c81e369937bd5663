------------------------- MODULE TCPConnectionProofs -------------------------
(***************************************************************************)
(* Proofs about TCPConnection, for every length of the streams and the     *)
(* timers, every sequence space and every network bound.                   *)
(*                                                                         *)
(* The first part has types, timers and whole methods of the socket. The   *)
(* second has the two streams of a connection: what the peer receives is   *)
(* what the application wrote (the invariant Together), and what the       *)
(* application is handed is what the peer sent (the invariant Taken).      *)
(* Either is inductive with TypeOK and TimersRun, and neither needs the    *)
(* other. Units of a stream have numbers modulo SeqMod; the proofs reason  *)
(* about the units and go over to their numbers by the lemmas at the       *)
(* beginning of the second part.                                           *)
(***************************************************************************)
EXTENDS TCPConnection, TLAPS

\* What every method of a socket preserves.
Sound(s) == SocketTypeOK(s) /\ TimerRuns(s)

-----------------------------------------------------------------------------
(* Sequence numbers and segments *)

(* uint32_t arithmetic stays in 32 bits.                                   *)
LEMMA PlusType ==
    ASSUME NEW a \in Int, NEW n \in Int
    PROVE  Plus(a, n) \in SeqNumber
  BY TCPNetworkAssumption DEF Plus, SeqNumber, SeqMod

LEMMA SignedType ==
    ASSUME NEW d \in Int
    PROVE  Signed(d) \in Int
  BY TCPNetworkAssumption DEF Signed, SeqMod

LEMMA BytesType ==
    ASSUME NEW seg, seg.from \in Nat, NEW skip \in Nat, NEW n \in Nat
    PROVE  Bytes(seg, skip, n) \in Seq(Nat)
<1>1. Bytes(seg, skip, n) \in [1 .. n -> Nat]
  BY DEF Bytes
<1> QED
  BY <1>1

(* The network holds segments and nothing else.                            *)
LEMMA SentType ==
    ASSUME NEW network \in SUBSET Segment, NEW segs \in SUBSET Segment, NEW bound
    PROVE  Sent(network, segs, bound) \in SUBSET Segment
  BY DEF Sent

-----------------------------------------------------------------------------
(* The methods of a socket *)

LEMMA FrameType ==
    ASSUME NEW s \in Sockets, NEW flags \in SUBSET Flag, NEW len \in 0 .. MaxData
    PROVE  Frame(s, flags, len) \in Segment
  BY TCPNetworkAssumption DEF Sockets, Frame, Segment

(* Assigning to one member keeps the types of the others.                  *)
LEMMA FieldType ==
    ASSUME NEW s \in Sockets
    PROVE  /\ \A v \in State : [s EXCEPT !.state = v] \in Sockets
           /\ \A v \in 0 .. 255 : [s EXCEPT !.stateTimer = v] \in Sockets
           /\ \A v \in SeqNumber : [s EXCEPT !.sequenceNumber = v] \in Sockets
           /\ \A v \in SeqNumber : [s EXCEPT !.ackNumber = v] \in Sockets
           /\ \A v \in SUBSET Flag : [s EXCEPT !.nextFlags = v] \in Sockets
           /\ \A v \in 0 .. MaxData : [s EXCEPT !.written = v] \in Sockets
           /\ \A v \in 0 .. MaxData : [s EXCEPT !.released = v] \in Sockets
           /\ \A v \in SUBSET (1 .. MaxData) : [s EXCEPT !.fragments = v] \in Sockets
           /\ \A v \in Seq(Nat) : [s EXCEPT !.received = v] \in Sockets
           /\ \A v \in BOOLEAN : [s EXCEPT !.opened = v] \in Sockets
           /\ \A v \in SUBSET Segment : [s EXCEPT !.sent = v] \in Sockets
           /\ \A v \in Packets : [s EXCEPT !.packet = v] \in Sockets
<1>1. ASSUME NEW v \in State PROVE [s EXCEPT !.state = v] \in Sockets
  BY Zenon DEF Sockets
<1>2. ASSUME NEW v \in 0 .. 255 PROVE [s EXCEPT !.stateTimer = v] \in Sockets
  BY Zenon DEF Sockets
<1>3. ASSUME NEW v \in SeqNumber PROVE [s EXCEPT !.sequenceNumber = v] \in Sockets
  BY Zenon DEF Sockets
<1>4. ASSUME NEW v \in SeqNumber PROVE [s EXCEPT !.ackNumber = v] \in Sockets
  BY Zenon DEF Sockets
<1>5. ASSUME NEW v \in SUBSET Flag PROVE [s EXCEPT !.nextFlags = v] \in Sockets
  BY Zenon DEF Sockets
<1>6. ASSUME NEW v \in 0 .. MaxData PROVE [s EXCEPT !.written = v] \in Sockets
  BY Zenon DEF Sockets
<1>7. ASSUME NEW v \in 0 .. MaxData PROVE [s EXCEPT !.released = v] \in Sockets
  BY Zenon DEF Sockets
<1>8. ASSUME NEW v \in SUBSET (1 .. MaxData) PROVE [s EXCEPT !.fragments = v] \in Sockets
  BY Zenon DEF Sockets
<1>9. ASSUME NEW v \in Seq(Nat) PROVE [s EXCEPT !.received = v] \in Sockets
  BY Zenon DEF Sockets
<1>10. ASSUME NEW v \in BOOLEAN PROVE [s EXCEPT !.opened = v] \in Sockets
  BY Zenon DEF Sockets
<1>11. ASSUME NEW v \in SUBSET Segment PROVE [s EXCEPT !.sent = v] \in Sockets
  BY Zenon DEF Sockets
<1>12. ASSUME NEW v \in Packets PROVE [s EXCEPT !.packet = v] \in Sockets
  BY Zenon DEF Sockets
<1> QED
  BY <1>1, <1>2, <1>3, <1>4, <1>5, <1>6, <1>7, <1>8, <1>9, <1>10, <1>11, <1>12

LEMMA SetStateSound ==
    ASSUME NEW s, SocketTypeOK(s), NEW st \in State
    PROVE  Sound(setState(s, st))
<1> DEFINE t == [s EXCEPT !.state = st]
           u == [t EXCEPT !.stateTimer = Timeout[st]]
<1>1. t \in Sockets
  BY FieldType DEF SocketTypeOK
<1>2. u = setState(s, st)
  BY DEF setState, SocketTypeOK, Sockets
<1>3. Timeout[st] \in 0 .. 255 /\ (st \in TimedStates => Timeout[st] > 0)
  BY TCPSocketAssumption
<1> HIDE DEF t
<1>4. u \in Sockets
  BY <1>1, <1>3, FieldType
<1>5. /\ setState(s, st).state = st /\ setState(s, st).stateTimer = Timeout[st]
      /\ setState(s, st).written = s.written /\ setState(s, st).released = s.released
      /\ setState(s, st).fragments = s.fragments
  BY DEF setState, SocketTypeOK, Sockets
<1> QED
  BY <1>2, <1>3, <1>4, <1>5 DEF Sound, SocketTypeOK, TimerRuns

LEMMA SendSYNSound ==
    ASSUME NEW s, Sound(s), NEW ack \in SUBSET Flag
    PROVE  Sound(sendSYN(s, ack))
<1>1. Frame(s, {"SYN"} \cup ack, 0) \in Segment
  BY FrameType, TCPNetworkAssumption DEF Sound, SocketTypeOK, Flag
<1> QED
  BY <1>1 DEF Sound, SocketTypeOK, TimerRuns, Sockets, sendSYN

LEMMA ProcessSound ==
    ASSUME NEW s, Sound(s), NEW t \in processOutgoingBuffer(s)
    PROVE  Sound(t)
<1> DEFINE flags == IF s.fragments = {} THEN s.nextFlags ELSE s.nextFlags \cup {"ACK"}
<1>1. CASE flags = {}
  BY <1>1 DEF processOutgoingBuffer
<1>2. CASE flags # {}
  <2>1. PICK e \in FrameEnds(s) :
            t = [s EXCEPT !.sent = @ \cup {Frame(s, flags, e - s.released)},
                          !.nextFlags = {},
                          !.packet = Outgone(Frame(s, flags, e - s.released))]
    BY <1>2 DEF processOutgoingBuffer
  <2>2. e - s.released \in 0 .. MaxData
    BY TCPNetworkAssumption DEF FrameEnds, Boundaries, Sound, SocketTypeOK, Sockets
  <2>3. flags \in SUBSET Flag
    BY DEF Sound, SocketTypeOK, Sockets, Flag
  <2> DEFINE frame == Frame(s, flags, e - s.released)
  <2> HIDE DEF flags
  <2>4. frame \in Segment
    BY <2>2, <2>3, FrameType DEF Sound, SocketTypeOK
  <2>5. Outgone(frame) \in Packets
    BY <2>4, TCPNetworkAssumption DEF Outgone, Packets, Segment
  <2> DEFINE u == [s EXCEPT !.sent = s.sent \cup {frame}]
             v == [u EXCEPT !.nextFlags = {}]
             w == [v EXCEPT !.packet = Outgone(frame)]
  <2>6. t = w
    BY <2>1 DEF frame, Sound, SocketTypeOK, Sockets
  <2> HIDE DEF frame
  <2>7. u \in Sockets
    <3>1. s \in Sockets
      BY DEF Sound, SocketTypeOK
    <3>2. s.sent \cup {frame} \in SUBSET Segment
      BY <2>4, <3>1 DEF Sockets
    <3> QED
      BY <3>1, <3>2, FieldType
  <2>8. /\ t.state = s.state /\ t.stateTimer = s.stateTimer /\ t.written = s.written
        /\ t.released = s.released /\ t.fragments = s.fragments
    BY <2>6 DEF Sound, SocketTypeOK, Sockets
  <2> HIDE DEF u
  <2>9. v \in Sockets
    BY <2>7, FieldType
  <2> HIDE DEF v
  <2>10. w \in Sockets
    BY <2>5, <2>9, FieldType
  <2> QED
    BY <2>6, <2>8, <2>10 DEF Sound, SocketTypeOK, TimerRuns
<1> QED
  BY <1>1, <1>2

LEMMA PushSound ==
    ASSUME NEW s, Sound(s), NEW t \in push(s)
    PROVE  Sound(t)
<1>1. Sound([s EXCEPT !.nextFlags = @ \cup {"PSH"}])
  BY DEF Sound, SocketTypeOK, TimerRuns, Sockets, Flag
<1> QED
  BY <1>1, ProcessSound DEF push

LEMMA WriteSound ==
    ASSUME NEW s, Sound(s), NEW n \in MayWrite(s)
    PROVE  Sound(write(s, n))
<1>1. n \in Nat \ {0} /\ s.written + n <= MaxData
  BY TCPSocketAssumption DEF MayWrite
<1> DEFINE w == s.written + n
<1>2. /\ w \in 0 .. MaxData /\ w \in 1 .. MaxData
      /\ s.released < w /\ s.written < w
  <2>1. s.written \in Nat /\ s.released \in Nat /\ s.released <= s.written
    BY DEF Sound, SocketTypeOK, Sockets
  <2> QED
    BY <1>1, <2>1, TCPNetworkAssumption
<1>3. write(s, n) = [s EXCEPT !.written = w, !.fragments = @ \cup {w}]
  BY DEF write, Sound, SocketTypeOK, Sockets
<1> HIDE DEF w
<1>4. s.fragments \cup {w} \in SUBSET (1 .. MaxData)
  BY <1>2 DEF Sound, SocketTypeOK, Sockets
<1>5. write(s, n) \in Sockets
  <2> DEFINE grown == [s EXCEPT !.written = w]
             both == [grown EXCEPT !.fragments = s.fragments \cup {w}]
  <2>1. s \in Sockets
    BY DEF Sound, SocketTypeOK
  <2>2. grown \in Sockets
    BY <1>2, <2>1, Zenon DEF Sockets
  <2>3. both = write(s, n)
    BY <1>3, <2>1 DEF Sockets
  <2> HIDE DEF grown
  <2>4. both \in Sockets
    BY <1>4, <2>2, Zenon DEF Sockets
  <2> QED
    BY <2>3, <2>4
<1>6. /\ write(s, n).written = w
      /\ write(s, n).fragments = s.fragments \cup {w}
      /\ write(s, n).released = s.released
      /\ write(s, n).state = s.state /\ write(s, n).stateTimer = s.stateTimer
  BY <1>3 DEF Sound, SocketTypeOK, Sockets
<1>7. /\ s.released \in Int /\ s.written \in Int /\ w \in Int
      /\ \A e \in s.fragments : e \in Int
  BY <1>2 DEF Sound, SocketTypeOK, Sockets
<1>8. /\ s.released <= w
      /\ \A e \in s.fragments \cup {w} : s.released < e /\ e <= w
  BY <1>2, <1>7 DEF Sound, SocketTypeOK
<1> QED
  BY <1>5, <1>6, <1>8 DEF Sound, SocketTypeOK, TimerRuns

LEMMA CloseSound ==
    ASSUME NEW s, Sound(s)
    PROVE  Sound(close(s))
  BY SetStateSound DEF Sound, close, State

LEMMA TerminateSound ==
    ASSUME NEW s, Sound(s)
    PROVE  Sound(terminate(s))
<1>1. Sound(setState(s, "CLOSED"))
  BY SetStateSound DEF Sound, State
<1> QED
  BY <1>1 DEF Sound, SocketTypeOK, TimerRuns, Sockets, terminate

(* Whatever the application does in a callback leaves the socket sound.    *)
LEMMA ReactionsSound ==
    ASSUME NEW s, Sound(s), NEW where, NEW t \in Reactions(s, where)
    PROVE  Sound(t)
<1> DEFINE wrote == {s} \cup {write(s, n) : n \in MayWrite(s)}
           pushed == wrote \cup UNION {push(u) : u \in {v \in wrote : where \in PushIn}}
<1>1. \A u \in wrote : Sound(u)
  BY WriteSound
<1>2. \A u \in pushed : Sound(u)
  BY <1>1, PushSound
<1>3. t \in pushed \cup {close(u) : u \in pushed} \cup {terminate(s)}
  BY DEF Reactions
<1> HIDE DEF pushed
<1> QED
  BY <1>2, <1>3, CloseSound, TerminateSound

LEMMA OnReceiveSound ==
    ASSUME NEW s, Sound(s), NEW t \in onReceive(s)
    PROVE  Sound(t)
<1>1. Bytes(s.packet, 0, s.packet.len) \in Seq(Nat)
  BY BytesType, TCPNetworkAssumption DEF Sound, SocketTypeOK, Sockets, Packets
<1>2. s.received \o Bytes(s.packet, 0, s.packet.len) \in Seq(Nat)
  BY <1>1 DEF Sound, SocketTypeOK, Sockets
<1>3. Sound([s EXCEPT !.received = @ \o Bytes(s.packet, 0, s.packet.len)])
  BY <1>2 DEF Sound, SocketTypeOK, TimerRuns, Sockets
<1> QED
  BY <1>3, ReactionsSound DEF onReceive

LEMMA AckedSound ==
    ASSUME NEW s, Sound(s), NEW seg \in Segment
    PROVE  Sound(Acked(s, seg)) /\ bytesAck(s, seg) \in Int
<1>1. s.sequenceNumber \in Int /\ seg.ack \in Int
  BY TCPNetworkAssumption DEF Sound, SocketTypeOK, Sockets, Segment, SeqNumber, SeqMod
<1>2. bytesAck(s, seg) \in Int
  BY <1>1, SignedType DEF bytesAck
<1>3. Plus(s.sequenceNumber, bytesAck(s, seg)) \in SeqNumber
  BY <1>1, <1>2, PlusType
<1>4. Incoming(seg) \in Packets
  BY TCPNetworkAssumption DEF Incoming, Packets, Segment
<1> QED
  BY <1>2, <1>3, <1>4, ZenonT(40) DEF Sound, SocketTypeOK, TimerRuns, Sockets, Acked

LEMMA ReleasedSound ==
    ASSUME NEW s, Sound(s), NEW n \in Int, NEW r \in ReleasedTo(s, n)
    PROVE  Sound(Released(s, r)) /\ n - (r - s.released) \in Int
<1>1. r \in 0 .. MaxData /\ s.released <= r /\ r <= s.written
  BY TCPNetworkAssumption DEF ReleasedTo, Boundaries, Sound, SocketTypeOK, Sockets
<1>2. Released(s, r) \in Sockets
  BY <1>1 DEF Released, Sound, SocketTypeOK, Sockets
<1>3. /\ Released(s, r).released = r
      /\ Released(s, r).fragments = {e \in s.fragments : e > r}
      /\ Released(s, r).written = s.written
      /\ Released(s, r).state = s.state /\ Released(s, r).stateTimer = s.stateTimer
  BY DEF Released, Sound, SocketTypeOK, Sockets
<1>4. \A e \in s.fragments : e \in Int
  BY DEF Sound, SocketTypeOK, Sockets
<1>5. \A e \in {f \in s.fragments : f > r} : r < e /\ e <= s.written
  BY <1>1, <1>4 DEF Sound, SocketTypeOK
<1>6. n - (r - s.released) \in Int
  BY <1>1 DEF Sound, SocketTypeOK, Sockets
<1> QED
  BY <1>1, <1>2, <1>3, <1>5, <1>6 DEF Sound, SocketTypeOK, TimerRuns

LEMMA AckNextSound ==
    ASSUME NEW s, Sound(s)
    PROVE  Sound([s EXCEPT !.nextFlags = @ \cup {"ACK"}])
  BY DEF Sound, SocketTypeOK, TimerRuns, Sockets, Flag

LEMMA SetAckSound ==
    ASSUME NEW s, Sound(s), NEW n \in SeqNumber
    PROVE  Sound([s EXCEPT !.ackNumber = n])
  BY DEF Sound, SocketTypeOK, TimerRuns, Sockets

(* The switch that ends the handler moves a sound socket to sound sockets. *)
LEMMA DispatchedSound ==
    ASSUME NEW s, Sound(s), NEW rest \in Int, NEW t \in Dispatched(s, rest)
    PROVE  Sound(t)
<1>1. \A st \in State : Sound(setState(s, st))
  BY SetStateSound DEF Sound
<1>2. \A st \in State : Sound([setState(s, st) EXCEPT !.nextFlags = @ \cup {"ACK"}])
  BY <1>1, AckNextSound
<1>3. Sound([s EXCEPT !.nextFlags = @ \cup {"ACK"}]) /\ Sound(terminate(s))
  BY AckNextSound, TerminateSound
<1>4. ASSUME NEW u, Sound(u), t \in onClose(u)
      PROVE  Sound(t)
  BY <1>4, ReactionsSound DEF onClose
<1>5. \/ \E st \in State : t \in onClose(setState(s, st))
      \/ \E st \in State : t \in onClose([setState(s, st) EXCEPT !.nextFlags = @ \cup {"ACK"}])
      \/ \E st \in State : t = setState(s, st)
      \/ t = [s EXCEPT !.nextFlags = @ \cup {"ACK"}]
      \/ t = terminate(s)
      \/ t = s
  <2>1. {"CLOSE_WAIT", "TIME_WAIT", "FIN_WAIT_2", "CLOSING"} \subseteq State
    BY DEF State
  <2> QED
    BY <2>1 DEF Dispatched
<1> QED
  BY <1>1, <1>2, <1>3, <1>4, <1>5

LEMMA InSequenceSound ==
    ASSUME NEW s, Sound(s), NEW rest \in Int, NEW t \in InSequence(s, rest)
    PROVE  Sound(t)
<1> DEFINE len == s.packet.len
           taken == [s EXCEPT !.ackNumber = Plus(@, len),
                              !.nextFlags = IF len > 0 THEN @ \cup {"ACK"} ELSE @]
           finned(u) == IF "FIN" \in u.packet.flags THEN [u EXCEPT !.ackNumber = Plus(@, 1)] ELSE u
           delivered == IF len > 0 THEN onReceive(taken) ELSE {taken}
<1>1. \A u : Sound(u) => u.ackNumber \in Int
  BY DEF Sound, SocketTypeOK, Sockets, SeqNumber
<1>2. len \in Int
  BY DEF Sound, SocketTypeOK, Sockets, Packets
<1>3. Plus(s.ackNumber, len) \in SeqNumber
  BY <1>1, <1>2, PlusType
<1>4. Sound(taken)
  BY <1>3 DEF Sound, SocketTypeOK, TimerRuns, Sockets, Flag
<1> HIDE DEF taken
<1>5. \A u \in delivered : Sound(u)
  BY <1>4, OnReceiveSound
<1>6. ASSUME NEW u, Sound(u)
      PROVE  Sound(finned(u))
  <2>1. Plus(u.ackNumber, 1) \in SeqNumber
    BY <1>1, <1>6, PlusType
  <2> QED
    BY <1>6, <2>1, SetAckSound
<1>7. PICK u \in delivered : t \in Dispatched(finned(u), rest)
  BY DEF InSequence, taken
<1> HIDE DEF delivered, finned
<1> QED
  BY <1>5, <1>6, <1>7, DispatchedSound

LEMMA WindowedSound ==
    ASSUME NEW s, Sound(s), NEW seq, NEW n \in Int, NEW t \in Windowed(s, seq, n)
    PROVE  Sound(t)
<1>1. PICK r \in ReleasedTo(s, n) :
          t \in IF Released(s, r).ackNumber # seq
                THEN {[Released(s, r) EXCEPT !.nextFlags = @ \cup {"ACK"}]}
                ELSE InSequence(Released(s, r), n - (r - s.released))
  BY DEF Windowed
<1>2. Sound(Released(s, r)) /\ n - (r - s.released) \in Int
  BY ReleasedSound
<1> DEFINE u == Released(s, r)
<1> HIDE DEF u
<1>3. CASE u.ackNumber # seq
  BY <1>1, <1>2, <1>3, AckNextSound DEF u
<1>4. CASE u.ackNumber = seq
  BY <1>1, <1>2, <1>4, InSequenceSound DEF u
<1> QED
  BY <1>3, <1>4

-----------------------------------------------------------------------------
(* The actions *)

(* A handler that leaves the socket sound keeps every type.                *)
LEMMA BecomeSound ==
    ASSUME TypeOK, TimersRun, UNCHANGED peer, NEW S, \A s \in S : Sound(s), Become(S)
    PROVE  TypeOK' /\ TimersRun'
<1>1. PICK s \in S : /\ socket' = [s EXCEPT !.sent = {}, !.packet = NoPacket]
                    /\ toPeer' = Sent(toPeer, s.sent, MaxToPeer)
  BY DEF Become
<1>2. Sound(s)
  BY <1>1
<1>3. NoPacket \in Packets
  BY TCPNetworkAssumption DEF NoPacket, Packets
<1>4. Sound(socket')
  <2> DEFINE t == [s EXCEPT !.sent = {}]
             u == [t EXCEPT !.packet = NoPacket]
  <2>1. t \in Sockets
    BY <1>2, FieldType DEF Sound, SocketTypeOK
  <2>2. u = socket'
    BY <1>1
  <2> HIDE DEF t
  <2>3. u \in Sockets
    BY <1>3, <2>1, FieldType
  <2>4. /\ socket'.state = s.state /\ socket'.stateTimer = s.stateTimer
        /\ socket'.written = s.written /\ socket'.released = s.released
        /\ socket'.fragments = s.fragments
    BY <1>1, <1>2 DEF Sound, SocketTypeOK, Sockets
  <2> QED
    BY <1>2, <2>2, <2>3, <2>4 DEF Sound, SocketTypeOK, TimerRuns
<1>5. toPeer' \subseteq Segment
  BY <1>1, <1>2, SentType DEF Sound, SocketTypeOK, Sockets, TypeOK
<1> QED
  BY <1>4, <1>5 DEF Become, TypeOK, TimersRun, Sound

LEMMA CountedSound ==
    ASSUME NEW s, Sound(s), ~(s.stateTimer = 1 /\ s.state \in TimedStates)
    PROVE  Sound(Counted(s))
<1>1. s.stateTimer \in 0 .. 255 /\ (s.state \in TimedStates => s.stateTimer > 0)
  BY DEF Sound, SocketTypeOK, TimerRuns, Sockets
<1>2. CASE s.stateTimer > 0
  <2> DEFINE t == s.stateTimer - 1
  <2>1. t \in 0 .. 255 /\ (s.state \in TimedStates => t > 0)
    BY <1>1, <1>2
  <2>2. Counted(s) = [s EXCEPT !.stateTimer = t]
    BY <1>2 DEF Counted, Sound, SocketTypeOK, Sockets
  <2> HIDE DEF t
  <2>3. Counted(s) \in Sockets
    BY <2>1, <2>2, FieldType DEF Sound, SocketTypeOK
  <2>4. /\ Counted(s).state = s.state /\ Counted(s).stateTimer = t
        /\ Counted(s).written = s.written /\ Counted(s).released = s.released
        /\ Counted(s).fragments = s.fragments
    BY <2>2 DEF Sound, SocketTypeOK, Sockets
  <2> QED
    BY <2>1, <2>3, <2>4 DEF Sound, SocketTypeOK, TimerRuns
<1>3. CASE ~(s.stateTimer > 0)
  BY <1>3 DEF Counted
<1> QED
  BY <1>2, <1>3

LEMMA OutgoingSound ==
    ASSUME NEW s, Sound(s), NEW t \in Outgoing(s)
    PROVE  Sound(t)
<1>1. Sound(sendSYN(s, {})) /\ Sound(sendSYN(s, {"ACK"}))
  BY SendSYNSound DEF Flag
<1>2. Sound([s EXCEPT !.nextFlags = @ \cup {"FIN", "ACK"}])
  BY DEF Sound, SocketTypeOK, TimerRuns, Sockets, Flag
<1>3. Sound([s EXCEPT !.nextFlags = @ \cup {"ACK"}])
  BY AckNextSound
<1>4. \/ t \in processOutgoingBuffer([s EXCEPT !.nextFlags = @ \cup {"FIN", "ACK"}])
      \/ t \in processOutgoingBuffer([s EXCEPT !.nextFlags = @ \cup {"ACK"}])
      \/ t \in processOutgoingBuffer(s)
      \/ t \in {sendSYN(s, {}), sendSYN(s, {"ACK"}), s}
  BY DEF Outgoing
<1> QED
  BY <1>1, <1>2, <1>3, <1>4, ProcessSound

LEMMA ConnectRequestSound ==
    ASSUME NEW s, Sound(s), NEW seg \in Segment, NEW t \in onConnectRequest(s, seg)
    PROVE  Sound(t)
<1> DEFINE asked == [s EXCEPT !.ackNumber = Plus(seg.seq, 1)]
<1>1. Plus(seg.seq, 1) \in SeqNumber
  BY PlusType DEF Segment, SeqNumber
<1>2. Sound(asked)
  BY <1>1, SetAckSound
<1> HIDE DEF asked
<1>3. Sound(sendSYN(asked, {"ACK"}))
  BY <1>2, SendSYNSound DEF Flag
<1>4. Sound(setState(sendSYN(asked, {"ACK"}), "SYN_RECEIVED"))
  BY <1>3, SetStateSound DEF Sound, State
<1> QED
  BY <1>4 DEF onConnectRequest, asked

(* Every segment, whatever it says, leaves the socket sound.               *)
LEMMA ReceiveSound ==
    ASSUME TypeOK, TimersRun, UNCHANGED peer, NEW seg \in Segment, onPacketReceived(seg)
    PROVE  TypeOK' /\ TimersRun'
<1>1. Sound(socket)
  BY DEF TypeOK, TimersRun, Sound
<1>2. Sound(Acked(socket, seg)) /\ bytesAck(socket, seg) \in Int
  BY <1>1, AckedSound
<1>3. CASE receiveReset(seg)
  BY <1>1, <1>3, TerminateSound, BecomeSound DEF receiveReset
<1>4. CASE receiveSynAck(seg)
  <2> DEFINE s == Acked(socket, seg)
             t == [s EXCEPT !.ackNumber = Plus(seg.seq, 1), !.nextFlags = @ \cup {"ACK"}]
  <2>1. Plus(seg.seq, 1) \in SeqNumber
    BY PlusType DEF Segment, SeqNumber
  <2>2. Sound(s)
    BY <1>2
  <2>3. receiveSynAck(seg) => Become(onConnect(setState(t, "ESTABLISHED")))
    BY DEF receiveSynAck
  <2> HIDE DEF s
  <2>4. Sound(t)
    BY <2>1, <2>2 DEF Sound, SocketTypeOK, TimerRuns, Sockets, Flag
  <2> HIDE DEF t
  <2>5. Sound(setState(t, "ESTABLISHED"))
    BY <2>4, SetStateSound DEF Sound, State
  <2>6. \A u \in onConnect(setState(t, "ESTABLISHED")) : Sound(u)
    BY <2>5, ReactionsSound DEF onConnect
  <2> QED
    BY <1>4, <2>3, <2>6, BecomeSound
<1>5. CASE receiveConnectRequest(seg)
  <2>1. \A t \in onConnectRequest(Acked(socket, seg), seg) : Sound(t)
    BY <1>2, ConnectRequestSound
  <2> QED
    BY <1>5, <2>1, BecomeSound DEF receiveConnectRequest
<1>6. CASE receiveWithoutAck(seg)
  BY <1>2, <1>6, BecomeSound DEF receiveWithoutAck
<1>7. CASE receiveHandshakeAck(seg)
  <2> DEFINE n == HandshakeBytes(bytesAck(socket, seg))
             S == onConnect(setState(Acked(socket, seg), "ESTABLISHED"))
             T == UNION {Windowed(s, seg.seq, n) : s \in S}
  <2>1. n \in Int
    BY <1>2 DEF HandshakeBytes
  <2>2. Sound(setState(Acked(socket, seg), "ESTABLISHED"))
    BY <1>2, SetStateSound DEF Sound, State
  <2>3. \A s \in S : Sound(s)
    BY <2>2, ReactionsSound DEF onConnect
  <2>4. Become(T)
    BY <1>7 DEF receiveHandshakeAck
  <2> HIDE DEF n, S
  <2>5. \A t \in T : Sound(t)
    BY <2>1, <2>3, WindowedSound
  <2> HIDE DEF T
  <2> QED
    BY <2>4, <2>5, BecomeSound
<1>8. CASE receiveSegment(seg)
  <2>1. \A t \in Windowed(Acked(socket, seg), seg.seq, bytesAck(socket, seg)) : Sound(t)
    BY <1>2, WindowedSound
  <2> QED
    BY <1>8, <2>1, BecomeSound DEF receiveSegment
<1> QED
  BY <1>3, <1>4, <1>5, <1>6, <1>7, <1>8 DEF onPacketReceived

LEMMA SocketStep ==
    ASSUME TypeOK, TimersRun, SocketNext, UNCHANGED peer
    PROVE  TypeOK' /\ TimersRun'
<1>1. Sound(socket)
  BY DEF TypeOK, TimersRun, Sound
<1>2. CASE connect
  <2> DEFINE s == [socket EXCEPT !.ackNumber = 0, !.opened = TRUE]
  <2>1. 0 \in SeqNumber
    BY TCPNetworkAssumption DEF SeqNumber, SeqMod
  <2>2. Sound(s)
    BY <1>1, <2>1 DEF Sound, SocketTypeOK, TimerRuns, Sockets
  <2>3. connect => Become({sendSYN(setState(s, "SYN_SENT"), {})})
    BY DEF connect
  <2> HIDE DEF s
  <2>4. Sound(setState(s, "SYN_SENT"))
    BY <2>2, SetStateSound DEF Sound, State
  <2>5. Sound(sendSYN(setState(s, "SYN_SENT"), {}))
    BY <2>4, SendSYNSound
  <2> QED
    BY <1>2, <2>3, <2>5, BecomeSound
<1>3. CASE listen
  <2>1. Sound([socket EXCEPT !.opened = TRUE])
    BY <1>1 DEF Sound, SocketTypeOK, TimerRuns, Sockets
  <2>2. Sound(setState([socket EXCEPT !.opened = TRUE], "LISTEN"))
    BY <2>1, SetStateSound DEF Sound, State
  <2> QED
    BY <1>3, <2>2, BecomeSound DEF listen
<1>4. CASE applicationCall
  <2>1. \A t \in Reactions(socket, "loop") : Sound(t)
    BY <1>1, ReactionsSound
  <2> QED
    BY <1>4, <2>1, BecomeSound DEF applicationCall
<1>5. CASE applicationTerminate
  BY <1>1, <1>5, TerminateSound, BecomeSound DEF applicationTerminate
<1>6. CASE tick
  <2>1. CASE timedOut
    BY <1>1, <2>1, TerminateSound, BecomeSound DEF timedOut
  <2>2. CASE ~(socket.stateTimer = 1 /\ socket.state \in TimedStates)
             /\ Become(Outgoing(Counted(socket)))
    <3>1. \A t \in Outgoing(Counted(socket)) : Sound(t)
      BY <1>1, <2>2, CountedSound, OutgoingSound
    <3> QED
      BY <2>2, <3>1, BecomeSound
  <2> QED
    BY <1>6, <2>1, <2>2 DEF tick
<1>7. CASE \E seg \in toSocket : onPacketReceived(seg)
  BY <1>7, ReceiveSound DEF TypeOK
<1> QED
  BY <1>2, <1>3, <1>4, <1>5, <1>6, <1>7 DEF SocketNext

-----------------------------------------------------------------------------
(* The peer and the network *)

LEMMA PeerSendsType ==
    ASSUME TypeOK, NEW seg \in Segment, PeerSends(seg)
    PROVE  toPeer' \subseteq Segment /\ toSocket' \subseteq Segment
  BY SentType DEF PeerSends, TypeOK

LEMMA PeerSeqType ==
    ASSUME NEW unit \in Int
    PROVE  PeerSeq(unit) \in SeqNumber
<1>1. PeerISS \in Int
  BY TCPPeerAssumption DEF SeqNumber
<1> QED
  BY <1>1, PlusType DEF PeerSeq

LEMMA PeerAckType ==
    ASSUME TypeOK
    PROVE  PeerAck \in SeqNumber
  BY PlusType DEF PeerAck, TypeOK, Peers, SeqNumber

LEMMA PeerStep ==
    ASSUME TypeOK, TimersRun, PeerNext, UNCHANGED socket
    PROVE  TypeOK' /\ TimersRun'
<1>1. SocketTypeOK(socket)' /\ TimersRun'
  BY DEF TypeOK, TimersRun, SocketTypeOK, TimerRuns
<1>2. peer \in Peers /\ PeerData \in 0 .. MaxData /\ MaxData \in Nat
  BY TCPPeerAssumption, TCPNetworkAssumption DEF TypeOK
<1>3. FinUnit \in 1 .. MaxData + 1
  BY <1>2 DEF FinUnit
<1>4. PeerAck \in SeqNumber /\ 0 \in SeqNumber
  BY PeerAckType, TCPNetworkAssumption DEF SeqNumber, SeqMod
<1>5. \A unit \in Int : PeerSeq(unit) \in SeqNumber
  BY PeerSeqType
<1>6. ASSUME NEW flags \in SUBSET Flag, NEW seq \in SeqNumber, NEW ack \in SeqNumber,
             NEW from \in 1 .. MaxData + 1, NEW len \in 0 .. MaxData
      PROVE  [flags |-> flags, seq |-> seq, ack |-> ack, from |-> from, len |-> len] \in Segment
  BY DEF Segment
<1>7. CASE peerConnect
  <2>0. peer' = [peer EXCEPT !.nxt = 1]
    BY <1>7 DEF peerConnect
  <2>1. peer' \in Peers
    BY <1>2, <1>3, <2>0 DEF Peers
  <2>2. [flags |-> {"SYN"}, seq |-> PeerSeq(0), ack |-> 0, from |-> 1, len |-> 0] \in Segment
    BY <1>2, <1>4, <1>5, <1>6 DEF Flag
  <2> QED
    BY <1>1, <1>7, <2>1, <2>2, PeerSendsType DEF peerConnect, TypeOK
<1>8. CASE peerAccept
  <2>0. peer' = [peer EXCEPT !.nxt = 1]
    BY <1>8 DEF peerAccept
  <2>1. peer' \in Peers
    BY <1>2, <1>3, <2>0 DEF Peers
  <2>2. [flags |-> {"SYN", "ACK"}, seq |-> PeerSeq(0), ack |-> PeerAck, from |-> 1, len |-> 0]
            \in Segment
    BY <1>2, <1>4, <1>5, <1>6 DEF Flag
  <2> QED
    BY <1>1, <1>8, <2>1, <2>2, PeerSendsType DEF peerAccept, TypeOK
<1>9. ASSUME NEW first \in 1 .. FinUnit, NEW n \in 0 .. PeerData, NEW fin \in BOOLEAN,
             peerSend(first, n, fin)
      PROVE  TypeOK' /\ TimersRun'
  <2> DEFINE end == first + n + IF fin THEN 1 ELSE 0
             flags == {"ACK"} \cup (IF fin THEN {"FIN"} ELSE {})
  <2>1. end \in 0 .. FinUnit + 1
    BY <1>3, <1>9 DEF peerSend
  <2>2. peer' = [peer EXCEPT !.nxt = IF end > @ THEN end ELSE @]
    BY <1>9 DEF peerSend
  <2> HIDE DEF end
  <2>3. peer' \in Peers
    BY <1>2, <2>1, <2>2 DEF Peers
  <2>4. first \in 1 .. MaxData + 1 /\ first \in Int /\ n \in 0 .. MaxData
    BY <1>2, <1>3
  <2>5. [flags |-> flags, seq |-> PeerSeq(first), ack |-> PeerAck, from |-> first, len |-> n]
            \in Segment
    BY <1>4, <1>5, <1>6, <2>4 DEF Flag
  <2> QED
    BY <1>1, <1>9, <2>3, <2>5, PeerSendsType DEF peerSend, TypeOK
<1>10. CASE peerAcknowledge
  <2>1. peer.nxt \in Int
    BY <1>2 DEF Peers
  <2>2. [flags |-> {"ACK"}, seq |-> PeerSeq(peer.nxt), ack |-> PeerAck, from |-> 1, len |-> 0]
            \in Segment
    BY <1>2, <1>4, <1>5, <1>6, <2>1 DEF Flag
  <2> QED
    BY <1>1, <1>10, <2>2, PeerSendsType DEF peerAcknowledge, TypeOK
<1>11. CASE peerReset
  <2>0. peer' = [peer EXCEPT !.aborted = TRUE]
    BY <1>11 DEF peerReset
  <2>1. peer' \in Peers
    BY <1>2, <2>0 DEF Peers
  <2>3. peer.nxt \in Int
    BY <1>2 DEF Peers
  <2>2. [flags |-> {"RST"}, seq |-> PeerSeq(peer.nxt), ack |-> 0, from |-> 1, len |-> 0]
            \in Segment
    BY <1>2, <1>4, <1>5, <1>6, <2>3 DEF Flag
  <2> QED
    BY <1>1, <1>11, <2>1, <2>2, PeerSendsType DEF peerReset, TypeOK
<1>12. ASSUME NEW seg \in Segment
       PROVE  Unacknowledged(seg) \subseteq 0 .. FinUnit + 1
  BY <1>2, <1>3 DEF Unacknowledged, Peers
<1>13. ASSUME NEW seg \in toPeer, peerReceiveSyn(seg)
       PROVE  TypeOK' /\ TimersRun'
  <2>1. seg \in Segment
    BY DEF TypeOK
  <2>2. PICK u \in Unacknowledged(seg) :
            peer' = [peer EXCEPT !.irs = seg.seq, !.rcvd = 1, !.una = u]
    BY <1>13 DEF peerReceiveSyn
  <2>3. u \in 0 .. FinUnit + 1 /\ seg.seq \in SeqNumber
    BY <1>12, <2>1 DEF Segment
  <2>4. peer' \in Peers
    BY <1>2, <2>2, <2>3 DEF Peers
  <2> QED
    BY <1>1, <1>13, <2>4 DEF peerReceiveSyn, TypeOK
<1>14. ASSUME NEW seg \in toPeer, peerReceive(seg)
       PROVE  TypeOK' /\ TimersRun'
  <2> DEFINE skip == (PeerAck - seg.seq) % SeqMod
             new == seg.len - skip
  <2>1. seg \in Segment
    BY DEF TypeOK
  <2>2. skip \in Nat
    <3>1. PeerAck - seg.seq \in Int
      BY <1>4, <2>1 DEF Segment, SeqNumber
    <3> QED
      BY <3>1, TCPNetworkAssumption DEF SeqMod
  <2>3. PICK u \in Unacknowledged(seg) :
            \/ /\ skip <= seg.len
               /\ \E k \in IF PartialAccept THEN 0 .. new ELSE {new} :
                    LET fin == "FIN" \in seg.flags /\ k = new
                    IN  peer' = [peer EXCEPT
                            !.una = u,
                            !.got = @ \o Bytes(seg, skip, k),
                            !.finRcvd = fin,
                            !.rcvd = @ + k + IF fin THEN 1 ELSE 0]
            \/ peer' = [peer EXCEPT !.una = u]
    BY <1>14 DEF peerReceive
  <2>4. u \in 0 .. FinUnit + 1
    BY <1>12, <2>1
  <2>5. CASE peer' = [peer EXCEPT !.una = u]
    <3>1. peer' \in Peers
      BY <1>2, <2>4, <2>5 DEF Peers
    <3> QED
      BY <1>1, <1>14, <3>1 DEF peerReceive, TypeOK
  <2>6. ASSUME skip <= seg.len, NEW k \in IF PartialAccept THEN 0 .. new ELSE {new},
               peer' = [peer EXCEPT
                    !.una = u,
                    !.got = @ \o Bytes(seg, skip, k),
                    !.finRcvd = ("FIN" \in seg.flags /\ k = new),
                    !.rcvd = @ + k + IF "FIN" \in seg.flags /\ k = new THEN 1 ELSE 0]
        PROVE  TypeOK' /\ TimersRun'
    <3>1. seg.len \in Nat /\ seg.from \in Nat
      BY <1>2, <2>1 DEF Segment
    <3>2. k \in Nat
      <4> HIDE DEF skip
      <4> QED
        BY <2>2, <2>6, <3>1
    <3>3. Bytes(seg, skip, k) \in Seq(Nat)
      BY <2>2, <3>1, <3>2, BytesType
    <3> DEFINE got == peer.got \o Bytes(seg, skip, k)
               rcvd == peer.rcvd + k + IF "FIN" \in seg.flags /\ k = new THEN 1 ELSE 0
               fin == "FIN" \in seg.flags /\ k = new
    <3>4. got \in Seq(Nat) /\ rcvd \in Nat /\ fin \in BOOLEAN
      BY <1>2, <3>2, <3>3 DEF Peers
    <3>5. peer' = [peer EXCEPT !.una = u, !.got = got, !.finRcvd = fin, !.rcvd = rcvd]
      BY <1>2, <2>6 DEF Peers
    <3> HIDE DEF got, rcvd, fin
    <3>6. peer' \in Peers
      BY <1>2, <2>4, <3>4, <3>5 DEF Peers
    <3> QED
      BY <1>1, <1>14, <3>6 DEF peerReceive, TypeOK
  <2> QED
    BY <2>3, <2>5, <2>6
<1> QED
  BY <1>7, <1>8, <1>9, <1>10, <1>11, <1>13, <1>14 DEF PeerNext

LEMMA NetworkStep ==
    ASSUME TypeOK, TimersRun, Lose, UNCHANGED <<socket, peer>>
    PROVE  TypeOK' /\ TimersRun'
  BY DEF TypeOK, TimersRun, SocketTypeOK, TimerRuns, Lose

-----------------------------------------------------------------------------

LEMMA TypeInit == Init => TypeOK /\ TimersRun
<1> SUFFICES ASSUME Init PROVE TypeOK /\ TimersRun
  OBVIOUS
<1>1. 0 \in SeqNumber
  BY TCPNetworkAssumption DEF SeqNumber, SeqMod
<1>2. NoPacket \in Packets
  BY TCPNetworkAssumption DEF NoPacket, Packets
<1>3. SocketTypeOK(Fresh) /\ TimerRuns(Fresh)
  BY <1>1, <1>2, TCPNetworkAssumption, TCPSocketAssumption
     DEF Fresh, SocketTypeOK, Sockets, State, TimerRuns, TimedStates
<1>4. peer \in Peers
  BY <1>1, TCPPeerAssumption DEF Init, PeerInit, Peers, FinUnit
<1> QED
  BY <1>3, <1>4 DEF Init, SocketInit, NetworkInit, TypeOK, TimersRun

LEMMA TypeStep == TypeOK /\ TimersRun /\ [Next]_vars => TypeOK' /\ TimersRun'
<1> SUFFICES ASSUME TypeOK, TimersRun, [Next]_vars PROVE TypeOK' /\ TimersRun'
  OBVIOUS
<1>1. CASE SocketNext /\ UNCHANGED peer
  BY <1>1, SocketStep
<1>2. CASE PeerNext /\ UNCHANGED socket
  BY <1>2, PeerStep
<1>3. CASE Lose /\ UNCHANGED <<socket, peer>>
  BY <1>3, NetworkStep
<1>4. CASE UNCHANGED vars
  BY <1>4 DEF vars, TypeOK, TimersRun, SocketTypeOK, TimerRuns
<1> QED
  BY <1>1, <1>2, <1>3, <1>4 DEF Next

(* Socket, peer and segments keep to their types whatever arrives, in      *)
(* whatever order, and whatever the application does in its callbacks; in  *)
(* particular a fragment that waits is never behind what was released nor  *)
(* beyond what was written.                                                *)
THEOREM TypeCorrect == Spec => []TypeOK
  BY TypeInit, TypeStep, PTL DEF Spec

(* No socket is ever in a state that waits for the peer with no timer to   *)
(* take it out again.                                                      *)
THEOREM TimersAlwaysRun == Spec => []TimersRun
  BY TypeInit, TypeStep, PTL DEF Spec

-----------------------------------------------------------------------------
(* The two streams: sequence numbers *)

LEMMA Remainder ==
    ASSUME NEW a \in Int, NEW q \in Int, NEW r \in SeqNumber, a = SeqMod * q + r
    PROVE  a % SeqMod = r
<1>1. SeqMod \in Nat \ {0} /\ r \in 0 .. SeqMod - 1
  BY TCPNetworkAssumption DEF SeqMod, SeqNumber
<1> HIDE DEF SeqMod
<1>2. /\ a % SeqMod \in 0 .. SeqMod - 1 /\ a \div SeqMod \in Int
      /\ a = SeqMod * (a \div SeqMod) + (a % SeqMod)
  BY <1>1
<1> DEFINE d == q - (a \div SeqMod)
<1>3. SeqMod * d = (a % SeqMod) - r
  BY <1>1, <1>2
<1>4. d \in Int
  BY <1>2
<1> HIDE DEF d
<1>5. ~(d >= 1)
  <2> SUFFICES ASSUME d >= 1 PROVE FALSE
    OBVIOUS
  <2>1. SeqMod * d >= SeqMod
    BY <1>1, <1>4
  <2> QED
    BY <1>1, <1>2, <1>3, <2>1
<1>6. ~(d <= -1)
  <2> SUFFICES ASSUME d <= -1 PROVE FALSE
    OBVIOUS
  <2>1. SeqMod * d <= -SeqMod
    BY <1>1, <1>4
  <2> QED
    BY <1>1, <1>2, <1>3, <2>1
<1>7. d = 0
  BY <1>4, <1>5, <1>6
<1> QED
  BY <1>1, <1>2, <1>3, <1>7

LEMMA Quotient ==
    ASSUME NEW a \in Int
    PROVE  /\ a % SeqMod \in SeqNumber
           /\ \E q \in Int : a = SeqMod * q + (a % SeqMod)
<1>1. SeqMod \in Nat \ {0}
  BY TCPNetworkAssumption DEF SeqMod
<1> HIDE DEF SeqMod
<1>2. /\ a % SeqMod \in 0 .. SeqMod - 1 /\ a \div SeqMod \in Int
      /\ a = SeqMod * (a \div SeqMod) + (a % SeqMod)
  BY <1>1
<1> QED
  BY <1>2 DEF SeqNumber

LEMMA Congruent ==
    ASSUME NEW i \in Int, NEW j \in Int, NEW k \in Int,
           NEW r \in SeqNumber, NEW c \in {0, 1}, r = k - j + SeqMod * c
    PROVE  (Plus(i, k) - Plus(i, j)) % SeqMod = r
<1>1. SeqMod \in Nat \ {0}
  BY TCPNetworkAssumption DEF SeqMod
<1>2. PICK p \in Int : i + k = SeqMod * p + Plus(i, k)
  BY Quotient DEF Plus
<1>3. PICK q \in Int : i + j = SeqMod * q + Plus(i, j)
  BY Quotient DEF Plus
<1>4. Plus(i, k) \in Int /\ Plus(i, j) \in Int /\ r \in Int
  BY Quotient DEF Plus, SeqNumber
<1> HIDE DEF SeqMod, Plus
<1>5. Plus(i, k) - Plus(i, j) = SeqMod * (q - p - c) + r
  <2>1. SeqMod * (q - p - c) = SeqMod * q - SeqMod * p - SeqMod * c
    BY <1>1
  <2>2. Plus(i, k) = i + k - SeqMod * p /\ Plus(i, j) = i + j - SeqMod * q
    BY <1>1, <1>2, <1>3, <1>4
  <2> QED
    BY <1>1, <1>4, <2>1, <2>2
<1> QED
  BY <1>4, <1>5, Remainder

(* How far apart two numbers of one stream are, as long as it is less than *)
(* half the sequence space.                                                *)
LEMMA Ahead ==
    ASSUME NEW i \in Int, NEW j \in Int, NEW k \in Int,
           -HalfSeq < k - j, k - j < HalfSeq
    PROVE  /\ Signed(Plus(i, k) - Plus(i, j)) = k - j
           /\ k >= j => (Plus(i, k) - Plus(i, j)) % SeqMod = k - j
<1>1. HalfSeq \in Nat \ {0} /\ SeqMod = 2 * HalfSeq
  BY TCPNetworkAssumption DEF SeqMod
<1>2. CASE k >= j
  <2>1. k - j \in SeqNumber /\ k - j = k - j + SeqMod * 0
    BY <1>1, <1>2 DEF SeqNumber
  <2>2. (Plus(i, k) - Plus(i, j)) % SeqMod = k - j
    BY <2>1, Congruent
  <2> HIDE DEF Plus
  <2> QED
    BY <2>2 DEF Signed
<1>3. CASE k < j
  <2>1. k - j + SeqMod \in SeqNumber /\ k - j + SeqMod = k - j + SeqMod * 1
    BY <1>1, <1>3 DEF SeqNumber
  <2>2. (Plus(i, k) - Plus(i, j)) % SeqMod = k - j + SeqMod
    BY <2>1, Congruent
  <2> QED
    BY <1>1, <1>3, <2>2 DEF Signed
<1> QED
  BY <1>2, <1>3

LEMMA AheadBy ==
    ASSUME NEW i \in Int, NEW j \in Int, NEW k \in Int, j <= k, k - j < HalfSeq,
           NEW a, a = Plus(i, k), NEW b, b = Plus(i, j)
    PROVE  (a - b) % SeqMod = k - j
<1>1. HalfSeq \in Nat \ {0} /\ SeqMod = 2 * HalfSeq
  BY TCPNetworkAssumption DEF SeqMod
<1>2. -HalfSeq < k - j /\ k >= j
  BY <1>1
<1> QED
  BY <1>2, Ahead

LEMMA PlusOnce ==
    ASSUME NEW i \in Int, NEW m \in Int, NEW n \in Int
    PROVE  Plus(Plus(i, m), n) = Plus(i, m + n)
<1>1. SeqMod \in Nat \ {0}
  BY TCPNetworkAssumption DEF SeqMod
<1>2. PICK p \in Int : i + m = SeqMod * p + Plus(i, m)
  BY Quotient DEF Plus
<1>3. PICK q \in Int : i + (m + n) = SeqMod * q + Plus(i, m + n)
  BY Quotient DEF Plus
<1>4. Plus(i, m) \in Int /\ Plus(i, m + n) \in SeqNumber
  BY Quotient DEF Plus, SeqNumber
<1>5. Plus(i, m) + n = SeqMod * (q - p) + Plus(i, m + n)
  <2> HIDE DEF SeqMod, Plus
  <2>1. Plus(i, m + n) \in Int
    BY <1>4 DEF SeqNumber
  <2> QED
    BY <1>1, <1>2, <1>3, <1>4, <2>1
<1>6. (Plus(i, m) + n) % SeqMod = Plus(i, m + n)
  BY <1>4, <1>5, Remainder
<1> QED
  BY <1>6 DEF Plus

LEMMA PlusSmall ==
    ASSUME NEW i \in Int, NEW n \in Int, i + n \in SeqNumber
    PROVE  Plus(i, n) = i + n
<1>1. i + n = SeqMod * 0 + (i + n)
  BY TCPNetworkAssumption DEF SeqMod
<1> QED
  BY <1>1, Remainder DEF Plus

(* An acknowledgement number of zero is behind every small one.            *)
LEMMA ZeroBehind ==
    ASSUME NEW a \in Int, 0 <= a, a <= HalfSeq
    PROVE  ~(Signed(0 - a) > 0)
<1>1. HalfSeq \in Nat \ {0} /\ SeqMod = 2 * HalfSeq
  BY TCPNetworkAssumption DEF SeqMod
<1>2. CASE a = 0
  <2>1. (0 - a) % SeqMod = 0
    BY <1>1, <1>2, Remainder DEF SeqNumber
  <2> QED
    BY <1>1, <2>1 DEF Signed
<1>3. CASE a > 0
  <2>1. SeqMod - a \in SeqNumber /\ 0 - a = SeqMod * (-1) + (SeqMod - a)
    BY <1>1, <1>3 DEF SeqNumber
  <2>2. (0 - a) % SeqMod = SeqMod - a
    BY <2>1, Remainder
  <2> QED
    BY <1>1, <1>3, <2>2 DEF Signed
<1> QED
  BY <1>2, <1>3

(* It takes a number from the upper half to zero.                          *)
LEMMA ZeroAhead ==
    ASSUME NEW a \in SeqNumber, a > HalfSeq
    PROVE  Signed(0 - a) > 0 /\ Plus(a, Signed(0 - a)) = 0
<1>1. HalfSeq \in Nat \ {0} /\ SeqMod = 2 * HalfSeq
  BY TCPNetworkAssumption DEF SeqMod
<1>2. SeqMod - a \in SeqNumber /\ 0 - a = SeqMod * (-1) + (SeqMod - a)
  BY <1>1 DEF SeqNumber
<1>3. (0 - a) % SeqMod = SeqMod - a
  BY <1>1, <1>2, Remainder DEF SeqNumber
<1>4. Signed(0 - a) = SeqMod - a
  <2>1. a \in Int /\ SeqMod - a < HalfSeq
    BY <1>1 DEF SeqNumber
  <2> QED
    BY <1>3, <2>1 DEF Signed
<1>5. a + (SeqMod - a) = SeqMod * 1 + 0 /\ 0 \in SeqNumber
  BY <1>1, <1>2 DEF SeqNumber
<1>6. Plus(a, SeqMod - a) = 0
  BY <1>1, <1>5, Remainder DEF Plus, SeqNumber
<1> QED
  BY <1>1, <1>4, <1>6 DEF SeqNumber

-----------------------------------------------------------------------------
(* What socket and peer know of each other *)

Got(p) == Len(p.got)

Opening == {"SYN_SENT", "SYN_RECEIVED"}

Synced ==
    {"ESTABLISHED", "FIN_WAIT_1", "FIN_WAIT_2", "CLOSE_WAIT", "CLOSING", "LAST_ACK", "TIME_WAIT"}

\* Nothing more is written.
Finished(s) ==
    s.state \in {"FIN_WAIT_1", "FIN_WAIT_2", "CLOSING", "LAST_ACK", "TIME_WAIT", "CLOSED"}

\* The first e bytes are what some of the fragments come to, those released
\* included.
Reached(s, e) == s.state = "CLOSED" \/ e \in s.fragments \/ e <= s.released

\* What is true of a segment on its way to the peer: it is a SYN, or it holds
\* whole fragments under the numbers the peer expects them under, and starts
\* no later than at what the peer wants next.
Carried(s, p, seg) ==
    /\ s.opened /\ s.state # "LISTEN"
    /\ "SYN" \in seg.flags =>
            /\ s.state \in Opening => seg.seq = s.sequenceNumber
            /\ s.state = "SYN_SENT" => "ACK" \notin seg.flags
    /\ "SYN" \notin seg.flags =>
            /\ p.rcvd > 0 /\ s.state \notin Opening
            /\ ~p.finRcvd =>
                /\ seg.seq = Plus(p.irs, seg.from)
                /\ seg.from <= Got(p) + 1
                /\ seg.from + seg.len - 1 <= s.written
                /\ Reached(s, seg.from + seg.len - 1)
                /\ "FIN" \in seg.flags /\ MaxData <= TxRoom =>
                        seg.from + seg.len - 1 = s.written /\ Finished(s)

\* What is true of a segment on its way to the socket: its number is zero in
\* the SYN that opens a connection, and otherwise names the end of a fragment
\* the peer has, or its FIN.
Acknowledges(s, p, seg) ==
    \/ "RST" \in seg.flags
    \/ seg.flags = {"SYN"} /\ p.opens /\ seg.ack = 0
    \/ /\ "ACK" \in seg.flags /\ p.rcvd > 0
       /\ "SYN" \in seg.flags => ~p.opens
       /\ "SYN" \notin seg.flags => p.una > 0
       /\ \E k \in 1 .. p.rcvd :
            /\ seg.ack = Plus(p.irs, k)
            /\ Reached(s, k - 1) \/ (p.finRcvd /\ k = s.written + 2)

\* A first number that the whole stream leaves below half the sequence space.
Low(n) == n + MaxData + 2 <= HalfSeq

\* The two sides of an open connection.
InStep(s, p) ==
    /\ s.opened /\ p.rcvd > 0 /\ s.state \in Synced \cup {"CLOSED"}
    /\ p.opens => Low(p.irs)
    /\ Got(p) \in s.released .. s.written
    /\ Reached(s, Got(p)) /\ Reached(s, s.written)
    /\ \/ s.sequenceNumber = Plus(p.irs, s.released + 1)
       \/ p.finRcvd /\ s.released = s.written /\ s.sequenceNumber = Plus(p.irs, s.written + 2)
    /\ p.finRcvd => Got(p) = s.written /\ Finished(s)
    /\ s.state \in {"FIN_WAIT_2", "TIME_WAIT"} => p.finRcvd

Unused(s) == s.written = 0 /\ s.released = 0 /\ s.fragments = {}

\* The handshake: the peer may have had the SYN.
Shaking(s, p) ==
    /\ s.opened /\ Unused(s) /\ p.rcvd <= 1 /\ p.got = <<>> /\ ~p.finRcvd
    /\ p.rcvd = 1 => p.irs = s.sequenceNumber

Ready(s, p) ==
    /\ s.state = "CLOSED" /\ ~s.opened /\ Unused(s)
    /\ p.rcvd = 0 /\ s.sequenceNumber = ISS

Over(s, p) ==
    /\ s.state = "CLOSED" /\ s.opened
    /\ s.released <= Got(p) /\ Got(p) <= s.written
    /\ p.finRcvd => Got(p) = s.written

Listening(s, p) ==
    /\ s.state = "LISTEN" /\ Shaking(s, p)
    /\ p.opens /\ p.rcvd = 0 /\ s.sequenceNumber \in {0, ISS}

Connecting(s, p) == s.state = "SYN_SENT" /\ Shaking(s, p) /\ ~p.opens /\ p.una = 0

Accepting(s, p) ==
    s.state = "SYN_RECEIVED" /\ Shaking(s, p) /\ p.opens /\ Low(s.sequenceNumber)

Situation(s, p) ==
    \/ Ready(s, p)
    \/ Over(s, p)
    \/ Listening(s, p)
    \/ Connecting(s, p)
    \/ Accepting(s, p)
    \/ s.state \in Synced /\ InStep(s, p)

\* What the peer has counted.
PeerSide(p) ==
    /\ InOrder(p.got)
    /\ p.opens \in PeerOpens
    /\ p.rcvd = 0 => p.got = <<>> /\ ~p.finRcvd /\ p.una = 0
    /\ p.rcvd > 0 => p.rcvd = 1 + Got(p) + IF p.finRcvd THEN 1 ELSE 0

\* Where the transmit buffer does not hold all the data, a FIN may go out with
\* the first frame of a backlog: what holds once the peer has it is less.
CutShort(p) == p.finRcvd /\ TxRoom < MaxData

\* The invariant: the two sides fit together, and every segment under way is
\* one that they can still make sense of.
Together ==
    /\ PeerSide(peer)
    /\ Got(peer) <= socket.written
    /\ socket.sent = {}
    /\ ~CutShort(peer) =>
        /\ Situation(socket, peer) /\ "FIN" \notin socket.nextFlags
        /\ \A seg \in toPeer : Carried(socket, peer, seg)
        /\ \A seg \in toSocket : Acknowledges(socket, peer, seg)

\* The peer's window takes every segment whole, and a connection does not use
\* more than half the sequence numbers: from ISS on (zero in the code,
\* TCPSocket.cpp:60), or from zero, where the SYN, whose acknowledgement number
\* is used although it has none, takes the number of a socket that listens.
Roomy ==
    /\ PartialAccept = FALSE
    /\ MaxData + 2 < HalfSeq
    /\ TRUE \in PeerOpens => Low(ISS) \/ ISS > HalfSeq

\* What a method may do to the socket, whatever the peer.
Grows(s, t) ==
    /\ s.written <= t.written /\ s.released <= t.released
    /\ \A e \in Nat : Reached(s, e) => Reached(t, e)
    /\ Finished(s) => Finished(t) /\ t.written = s.written

\* A socket in step with the peer, in the middle of a handler.
Fine(s, p) ==
    /\ InStep(s, p)
    /\ "FIN" \notin s.nextFlags
    /\ \A seg \in s.sent : Carried(s, p, seg)

Follows(s, t, p) == Sound(t) /\ Grows(s, t) /\ (Fine(s, p) => Fine(t, p))

-----------------------------------------------------------------------------
(* The relations *)

LEMMA Fields ==
    ASSUME NEW s, Sound(s)
    PROVE  /\ s.state \in State /\ s.sequenceNumber \in SeqNumber /\ s.sequenceNumber \in Int
           /\ s.written \in 0 .. MaxData /\ s.released \in 0 .. MaxData
           /\ s.released <= s.written
           /\ s.fragments \subseteq 1 .. MaxData /\ s.sent \subseteq Segment
           /\ \A e \in s.fragments : e \in Int /\ s.released < e /\ e <= s.written
  BY TCPNetworkAssumption DEF Sound, SocketTypeOK, Sockets, SeqNumber, SeqMod

LEMMA GrowsTrans ==
    ASSUME NEW s, NEW t, NEW u, Sound(s), Sound(t), Sound(u), Grows(s, t), Grows(t, u)
    PROVE  Grows(s, u)
<1>1. /\ s.written \in Int /\ t.written \in Int /\ u.written \in Int
      /\ s.released \in Int /\ t.released \in Int /\ u.released \in Int
  BY Fields
<1> QED
  BY <1>1 DEF Grows

LEMMA FollowsTrans ==
    ASSUME NEW s, NEW t, NEW u, NEW p, Sound(s), Follows(s, t, p), Follows(t, u, p)
    PROVE  Follows(s, u, p)
  BY GrowsTrans DEF Follows

(* A segment under way stays one that can be made sense of.                *)
LEMMA CarriedOn ==
    ASSUME NEW s, NEW t, NEW p, NEW seg \in Segment, Sound(s), Sound(t), Grows(s, t),
           Carried(s, p, seg), t.opened, t.state \in Synced \cup {"CLOSED"}
    PROVE  Carried(t, p, seg)
<1>1. /\ s.written \in Int /\ t.written \in Int /\ s.written <= t.written
      /\ seg.from \in Nat /\ seg.from >= 1 /\ seg.len \in Nat
  BY Fields, TCPNetworkAssumption DEF Segment, Grows
<1>2. t.state # "LISTEN" /\ t.state \notin Opening
  BY DEF Synced, Opening
<1> DEFINE e == seg.from + seg.len - 1
<1>3. e \in Nat
  BY <1>1
<1>4. Reached(s, e) => Reached(t, e)
  BY <1>3 DEF Grows
<1>5. Finished(s) => Finished(t) /\ t.written = s.written
  BY DEF Grows
<1> QED
  BY <1>1, <1>2, <1>4, <1>5 DEF Carried, Opening

LEMMA AcknowledgesOn ==
    ASSUME NEW s, NEW t, NEW p, NEW seg, Grows(s, t), Acknowledges(s, p, seg), p.rcvd \in Nat,
           p.finRcvd => t.written = s.written
    PROVE  Acknowledges(t, p, seg)
<1>1. ASSUME NEW k \in 1 .. p.rcvd, Reached(s, k - 1) \/ (p.finRcvd /\ k = s.written + 2)
      PROVE  Reached(t, k - 1) \/ (p.finRcvd /\ k = t.written + 2)
  <2>1. k - 1 \in Nat
    OBVIOUS
  <2> QED
    BY <1>1, <2>1 DEF Grows
<1> QED
  BY <1>1 DEF Acknowledges

-----------------------------------------------------------------------------
(* What the methods of a socket do to it *)

\* The fields that matter for the stream.
Alike(s, t) ==
    /\ t.sequenceNumber = s.sequenceNumber /\ t.written = s.written
    /\ t.released = s.released /\ t.fragments = s.fragments /\ t.opened = s.opened

LEMMA AlikeGrows ==
    ASSUME NEW s, NEW t, Sound(s), Alike(s, t), t.state \in State,
           s.state = "CLOSED" => t.state = "CLOSED", Finished(s) => Finished(t)
    PROVE  Grows(s, t)
<1>1. s.written \in Int /\ s.released \in Int
  BY Fields
<1> QED
  BY <1>1 DEF Grows, Alike, Reached

(* Members the stream does not depend on.                                  *)
LEMMA AlikeFollows ==
    ASSUME NEW s, NEW t, NEW p, Sound(s), Sound(t), Alike(s, t), t.state = s.state,
           t.sent \subseteq s.sent, "FIN" \in t.nextFlags => "FIN" \in s.nextFlags
    PROVE  Follows(s, t, p)
<1>1. Grows(s, t)
  BY Fields, AlikeGrows DEF Finished
<1>2. ASSUME Fine(s, p) PROVE Fine(t, p)
  <2>1. InStep(t, p)
    BY <1>2 DEF Fine, InStep, Alike, Reached, Finished
  <2>2. \A seg \in s.sent : Carried(t, p, seg)
    BY <1>2 DEF Fine, Carried, Alike, Reached, Finished
  <2> QED
    BY <1>2, <2>1, <2>2 DEF Fine
<1> QED
  BY <1>1, <1>2 DEF Follows

LEMMA FlagsFollow ==
    ASSUME NEW s, NEW p, Sound(s), NEW flags \in SUBSET Flag, "FIN" \in flags => "FIN" \in s.nextFlags
    PROVE  Follows(s, [s EXCEPT !.nextFlags = flags], p)
<1> DEFINE t == [s EXCEPT !.nextFlags = flags]
<1>1. s \in Sockets
  BY DEF Sound, SocketTypeOK
<1>2. t \in Sockets
  BY <1>1, FieldType
<1>3. /\ Alike(s, t) /\ t.state = s.state /\ t.sent = s.sent /\ t.nextFlags = flags
      /\ t.stateTimer = s.stateTimer
  BY <1>1 DEF Sockets, Alike
<1>4. Sound(t)
  BY <1>2, <1>3 DEF Sound, SocketTypeOK, TimerRuns, Alike
<1> HIDE DEF t
<1> QED
  BY <1>3, <1>4, AlikeFollows DEF t

LEMMA AckNextFollows ==
    ASSUME NEW s, NEW p, Sound(s)
    PROVE  Follows(s, [s EXCEPT !.nextFlags = @ \cup {"ACK"}], p)
<1>1. s.nextFlags \cup {"ACK"} \in SUBSET Flag
  BY DEF Sound, SocketTypeOK, Sockets, Flag
<1>2. [s EXCEPT !.nextFlags = @ \cup {"ACK"}] = [s EXCEPT !.nextFlags = s.nextFlags \cup {"ACK"}]
  BY DEF Sound, SocketTypeOK, Sockets
<1> QED
  BY <1>1, <1>2, FlagsFollow

(* Another state, out of which the socket was not.                         *)
LEMMA SetStateFollows ==
    ASSUME NEW s, NEW p, Sound(s), NEW st \in Synced,
           s.state # "CLOSED",
           Finished(s) => st \in {"FIN_WAIT_1", "FIN_WAIT_2", "CLOSING", "LAST_ACK", "TIME_WAIT"},
           Fine(s, p) /\ st \in {"FIN_WAIT_2", "TIME_WAIT"} => p.finRcvd
    PROVE  Follows(s, setState(s, st), p)
<1> DEFINE t == setState(s, st)
<1>1. st \in State
  BY DEF Synced, State
<1>2. Sound(t)
  BY <1>1, SetStateSound DEF Sound
<1>3. /\ t.state = st /\ Alike(s, t) /\ t.sent = s.sent /\ t.nextFlags = s.nextFlags
  BY DEF Sound, SocketTypeOK, Sockets, setState, Alike
<1> HIDE DEF t
<1>4. Finished(s) => Finished(t)
  BY <1>3 DEF Finished
<1>5. Grows(s, t)
  BY <1>1, <1>3, <1>4, AlikeGrows
<1>6. ASSUME Fine(s, p) PROVE Fine(t, p)
  <2>1. \A e : Reached(s, e) => Reached(t, e)
    BY <1>3 DEF Reached, Alike
  <2>2. InStep(t, p)
    BY <1>3, <1>4, <1>6, <2>1 DEF Fine, InStep, Alike
  <2>3. t.opened /\ t.state \in Synced \cup {"CLOSED"} /\ s.sent \subseteq Segment
    BY <2>2, Fields DEF InStep
  <2>4. \A seg \in s.sent : Carried(t, p, seg)
    BY <1>2, <1>5, <1>6, <2>3, CarriedOn DEF Fine
  <2> QED
    BY <1>3, <1>6, <2>2, <2>4 DEF Fine
<1> QED
  BY <1>2, <1>5, <1>6 DEF Follows, t

LEMMA TerminateFollows ==
    ASSUME NEW s, NEW p, Sound(s)
    PROVE  Follows(s, terminate(s), p)
<1> DEFINE t == terminate(s)
<1>1. Sound(t)
  BY TerminateSound
<1>2. /\ t.state = "CLOSED" /\ t.sequenceNumber = s.sequenceNumber /\ t.written = s.written
      /\ t.released = s.released /\ t.opened = s.opened /\ t.sent = s.sent
      /\ t.nextFlags = s.nextFlags
  BY DEF Sound, SocketTypeOK, Sockets, terminate, setState
<1> HIDE DEF t
<1>3. Grows(s, t)
  <2>1. s.written \in Int /\ s.released \in Int
    BY Fields
  <2> QED
    BY <1>2, <2>1 DEF Grows, Reached, Finished
<1>4. ASSUME Fine(s, p) PROVE Fine(t, p)
  <2>1. InStep(t, p)
    BY <1>2, <1>4 DEF Fine, InStep, Reached, Finished
  <2>2. \A seg \in s.sent : Carried(t, p, seg)
    BY <1>1, <1>2, <1>3, <1>4, <2>1, CarriedOn, Fields DEF Fine, InStep
  <2> QED
    BY <1>2, <1>4, <2>1, <2>2 DEF Fine
<1> QED
  BY <1>1, <1>3, <1>4 DEF Follows, t

(* What is sent, a FIN included, is what the peer can take: the frame ends *)
(* at the end of a fragment, and a FIN goes with the last.                 *)
LEMMA FrameCarried ==
    ASSUME NEW s, NEW p, Sound(s), InStep(s, p), NEW flags \in SUBSET Flag, NEW e \in FrameEnds(s),
           "FIN" \in flags => s.state # "CLOSED" /\ Finished(s)
    PROVE  Carried(s, p, Frame(s, flags, e - s.released))
<1> DEFINE frame == Frame(s, flags, e - s.released)
<1>1. /\ frame.flags = flags /\ frame.seq = s.sequenceNumber
      /\ frame.from = s.released + 1 /\ frame.len = e - s.released
  BY DEF Frame
<1>2. /\ s.released \in Int /\ s.written \in Int /\ MaxData \in Int /\ TxRoom \in Int
      /\ 0 <= s.released /\ s.written <= MaxData /\ s.released <= s.written
      /\ e \in Int /\ (e \in s.fragments \/ e = s.released) /\ e <= s.written
  BY Fields, TCPNetworkAssumption, TCPSocketAssumption DEF FrameEnds, Boundaries
<1> HIDE DEF frame
<1>3. frame.from + frame.len - 1 = e
  BY <1>1, <1>2
<1>4. Reached(s, e)
  BY <1>2 DEF Reached
<1>5. /\ s.opened /\ s.state # "LISTEN" /\ s.state # "SYN_SENT"
      /\ s.state \notin Opening /\ p.rcvd > 0
  BY DEF InStep, Synced, Opening
<1>6. ASSUME ~p.finRcvd
      PROVE  frame.seq = Plus(p.irs, frame.from) /\ frame.from <= Got(p) + 1
  <2>1. s.sequenceNumber = Plus(p.irs, s.released + 1) /\ s.released <= Got(p)
    BY <1>2, <1>6 DEF InStep
  <2>2. Got(p) \in Int
    BY <1>2 DEF InStep
  <2> QED
    BY <1>1, <1>2, <2>1, <2>2
<1>7. ASSUME "FIN" \in flags, MaxData <= TxRoom
      PROVE  e = s.written /\ Finished(s)
  <2>1. s.written \in Boundaries(s)
    BY <1>2, <1>7 DEF InStep, Reached, Boundaries
  <2>2. s.written - s.released <= TxRoom
    BY <1>2, <1>7
  <2>3. s.written <= e
    BY <2>1, <2>2 DEF FrameEnds
  <2> QED
    BY <1>2, <1>7, <2>3
<1> QED
  BY <1>1, <1>2, <1>3, <1>4, <1>5, <1>6, <1>7 DEF Carried, frame

(* The frame that processOutgoingBuffer sends, if any.                     *)
LEMMA ProcessFields ==
    ASSUME NEW s, Sound(s), NEW t \in processOutgoingBuffer(s)
    PROVE  /\ Alike(s, t) /\ t.state = s.state /\ "FIN" \notin t.nextFlags
           /\ \/ t.sent = s.sent
              \/ \E e \in FrameEnds(s), flags \in SUBSET Flag :
                    /\ flags = s.nextFlags \/ flags = s.nextFlags \cup {"ACK"}
                    /\ t.sent = s.sent \cup {Frame(s, flags, e - s.released)}
<1> DEFINE flags == IF s.fragments = {} THEN s.nextFlags ELSE s.nextFlags \cup {"ACK"}
<1>1. CASE flags = {}
  <2>1. t = s
    BY <1>1 DEF processOutgoingBuffer
  <2>2. "FIN" \notin s.nextFlags
    BY <1>1
  <2> QED
    BY <2>1, <2>2 DEF Alike
<1>2. CASE flags # {}
  <2>1. PICK e \in FrameEnds(s) :
            t = [s EXCEPT !.sent = @ \cup {Frame(s, flags, e - s.released)},
                          !.nextFlags = {},
                          !.packet = Outgone(Frame(s, flags, e - s.released))]
    BY <1>2 DEF processOutgoingBuffer
  <2>2. flags \in SUBSET Flag /\ (flags = s.nextFlags \/ flags = s.nextFlags \cup {"ACK"})
    BY DEF Sound, SocketTypeOK, Sockets, Flag
  <2> HIDE DEF flags
  <2>3. /\ Alike(s, t) /\ t.state = s.state /\ t.nextFlags = {}
        /\ t.sent = s.sent \cup {Frame(s, flags, e - s.released)}
    BY <2>1 DEF Sound, SocketTypeOK, Sockets, Alike
  <2> QED
    BY <2>2, <2>3
<1> QED
  BY <1>1, <1>2

LEMMA ProcessFine ==
    ASSUME NEW s, NEW p, Sound(s), NEW t \in processOutgoingBuffer(s), InStep(s, p),
           \A seg \in s.sent : Carried(s, p, seg),
           "FIN" \in s.nextFlags => s.state # "CLOSED" /\ Finished(s)
    PROVE  Fine(t, p)
<1>1. Alike(s, t) /\ t.state = s.state /\ "FIN" \notin t.nextFlags
  BY ProcessFields
<1>2. InStep(t, p)
  BY <1>1 DEF InStep, Alike, Reached, Finished
<1>3. ASSUME NEW seg, Carried(s, p, seg)
      PROVE  Carried(t, p, seg)
  BY <1>1, <1>3 DEF Carried, Alike, Reached, Finished
<1>4. \A seg \in t.sent : Carried(s, p, seg)
  <2>1. CASE t.sent = s.sent
    BY <2>1
  <2>2. ASSUME NEW e \in FrameEnds(s), NEW flags \in SUBSET Flag,
               flags = s.nextFlags \/ flags = s.nextFlags \cup {"ACK"},
               t.sent = s.sent \cup {Frame(s, flags, e - s.released)}
        PROVE  \A seg \in t.sent : Carried(s, p, seg)
    <3>1. "FIN" \in flags => s.state # "CLOSED" /\ Finished(s)
      BY <2>2
    <3>2. Carried(s, p, Frame(s, flags, e - s.released))
      BY <3>1, FrameCarried
    <3> QED
      BY <2>2, <3>2
  <2> QED
    BY <2>1, <2>2, ProcessFields
<1> QED
  BY <1>1, <1>2, <1>3, <1>4 DEF Fine

LEMMA ProcessFollows ==
    ASSUME NEW s, NEW p, Sound(s), NEW t \in processOutgoingBuffer(s)
    PROVE  Follows(s, t, p)
<1>1. Alike(s, t) /\ t.state = s.state /\ Sound(t) /\ t.state \in State
  BY ProcessFields, ProcessSound, Fields
<1>2. Grows(s, t)
  BY <1>1, AlikeGrows DEF Finished
<1>3. Fine(s, p) => Fine(t, p)
  BY ProcessFine DEF Fine
<1> QED
  BY <1>1, <1>2, <1>3 DEF Follows

LEMMA PushFollows ==
    ASSUME NEW s, NEW p, Sound(s), NEW t \in push(s)
    PROVE  Follows(s, t, p)
<1>1. s.nextFlags \cup {"PSH"} \in SUBSET Flag
  BY DEF Sound, SocketTypeOK, Sockets, Flag
<1>2. [s EXCEPT !.nextFlags = @ \cup {"PSH"}] = [s EXCEPT !.nextFlags = s.nextFlags \cup {"PSH"}]
  BY DEF Sound, SocketTypeOK, Sockets
<1> DEFINE u == [s EXCEPT !.nextFlags = @ \cup {"PSH"}]
<1>3. Follows(s, u, p)
  BY <1>1, <1>2, FlagsFollow
<1>4. t \in processOutgoingBuffer(u)
  BY DEF push
<1> HIDE DEF u
<1>5. Follows(u, t, p)
  BY <1>3, <1>4, ProcessFollows DEF Follows
<1> QED
  BY <1>3, <1>5, FollowsTrans

LEMMA WriteFollows ==
    ASSUME NEW s, NEW p, Sound(s), NEW n \in MayWrite(s)
    PROVE  Follows(s, write(s, n), p)
<1> DEFINE t == write(s, n)
<1>1. Sound(t)
  BY WriteSound
<1>2. n \in Nat \ {0} /\ s.state \in {"ESTABLISHED", "CLOSE_WAIT"}
  BY TCPSocketAssumption DEF MayWrite
<1>3. /\ t.state = s.state /\ t.sequenceNumber = s.sequenceNumber /\ t.written = s.written + n
      /\ t.released = s.released /\ t.opened = s.opened /\ t.sent = s.sent
      /\ t.nextFlags = s.nextFlags /\ t.fragments = s.fragments \cup {s.written + n}
  BY DEF Sound, SocketTypeOK, Sockets, write
<1> HIDE DEF t
<1>4. s.written \in Int /\ s.released \in Int /\ s.released <= s.written
  BY Fields
<1>5. ~Finished(s)
  BY <1>2 DEF Finished
<1>6. \A e : Reached(s, e) => Reached(t, e)
  BY <1>3 DEF Reached
<1>7. Grows(s, t)
  BY <1>2, <1>3, <1>4, <1>5, <1>6 DEF Grows
<1>8. ASSUME Fine(s, p) PROVE Fine(t, p)
  <2>1. Reached(t, t.written)
    BY <1>3 DEF Reached
  <2>2. ~p.finRcvd
    BY <1>5, <1>8 DEF Fine, InStep
  <2>3. Got(p) \in t.released .. t.written
    <3>1. Got(p) \in s.released .. s.written
      BY <1>8 DEF Fine, InStep
    <3> QED
      BY <1>2, <1>3, <1>4, <3>1
  <2>4. InStep(t, p)
    BY <1>3, <1>6, <1>8, <2>1, <2>2, <2>3 DEF Fine, InStep
  <2>5. \A seg \in s.sent : Carried(t, p, seg)
    BY <1>1, <1>7, <1>8, <2>4, CarriedOn, Fields DEF Fine, InStep
  <2> QED
    BY <1>3, <1>8, <2>4, <2>5 DEF Fine
<1> QED
  BY <1>1, <1>7, <1>8 DEF Follows, t

LEMMA ItselfFollows ==
    ASSUME NEW s, NEW p, Sound(s)
    PROVE  Follows(s, s, p)
  BY AlikeFollows DEF Alike

LEMMA CloseFollows ==
    ASSUME NEW s, NEW p, Sound(s)
    PROVE  Follows(s, close(s), p)
<1>1. CASE s.state = "CLOSE_WAIT"
  <2>1. Follows(s, setState(s, "LAST_ACK"), p)
    BY <1>1, SetStateFollows DEF Synced, Finished
  <2> QED
    BY <1>1, <2>1 DEF close
<1>2. CASE s.state = "ESTABLISHED"
  <2>1. Follows(s, setState(s, "FIN_WAIT_1"), p)
    BY <1>2, SetStateFollows DEF Synced, Finished
  <2> QED
    BY <1>2, <2>1 DEF close
<1>3. CASE s.state \notin {"CLOSE_WAIT", "ESTABLISHED"}
  BY <1>3, ItselfFollows DEF close
<1> QED
  BY <1>1, <1>2, <1>3

(* Whatever the application does in a callback.                            *)
LEMMA ReactionsFollow ==
    ASSUME NEW s, NEW p, Sound(s), NEW where, NEW t \in Reactions(s, where)
    PROVE  Follows(s, t, p)
<1> DEFINE wrote == {s} \cup {write(s, n) : n \in MayWrite(s)}
           pushed == wrote \cup UNION {push(u) : u \in {v \in wrote : where \in PushIn}}
<1>1. \A u \in wrote : Follows(s, u, p)
  BY WriteFollows, ItselfFollows
<1>2. ASSUME NEW v \in wrote, NEW u \in push(v)
      PROVE  Follows(s, u, p)
  <2>1. Follows(s, v, p)
    BY <1>1
  <2>2. Follows(v, u, p)
    BY <2>1, <1>2, PushFollows DEF Follows
  <2> QED
    BY <2>1, <2>2, FollowsTrans
<1>3. \A u \in pushed : Follows(s, u, p)
  BY <1>1, <1>2
<1>4. t \in pushed \cup {close(u) : u \in pushed} \cup {terminate(s)}
  BY DEF Reactions
<1> HIDE DEF pushed
<1>5. ASSUME NEW u \in pushed PROVE Follows(s, close(u), p)
  <2>1. Follows(s, u, p)
    BY <1>3
  <2>2. Follows(u, close(u), p)
    BY <2>1, CloseFollows DEF Follows
  <2> QED
    BY <2>1, <2>2, FollowsTrans
<1> QED
  BY <1>3, <1>4, <1>5, TerminateFollows

LEMMA OnReceiveFollows ==
    ASSUME NEW s, NEW p, Sound(s), NEW t \in onReceive(s)
    PROVE  Follows(s, t, p)
<1> DEFINE u == [s EXCEPT !.received = @ \o Bytes(s.packet, 0, s.packet.len)]
<1>1. Bytes(s.packet, 0, s.packet.len) \in Seq(Nat)
  BY BytesType, TCPNetworkAssumption DEF Sound, SocketTypeOK, Sockets, Packets
<1>2. s.received \o Bytes(s.packet, 0, s.packet.len) \in Seq(Nat)
  BY <1>1 DEF Sound, SocketTypeOK, Sockets
<1>3. Sound(u)
  BY <1>2 DEF Sound, SocketTypeOK, TimerRuns, Sockets
<1>4. Alike(s, u) /\ u.state = s.state /\ u.sent = s.sent /\ u.nextFlags = s.nextFlags
  BY DEF Alike, Sound, SocketTypeOK, Sockets
<1>5. t \in Reactions(u, "onReceive")
  BY DEF onReceive
<1> HIDE DEF u
<1>6. Follows(s, u, p)
  BY <1>3, <1>4, AlikeFollows
<1>7. Follows(u, t, p)
  BY <1>3, <1>5, ReactionsFollow
<1> QED
  BY <1>6, <1>7, FollowsTrans

(* The application is told that the peer has closed.                       *)
LEMMA OnCloseFollows ==
    ASSUME NEW s, NEW u, NEW p, Sound(s), Follows(s, u, p), NEW t \in onClose(u)
    PROVE  Follows(s, t, p)
<1>1. Follows(u, t, p)
  BY ReactionsFollow DEF Follows, onClose
<1> QED
  BY <1>1, FollowsTrans

(* The states change as the FINs of the two sides are seen: an             *)
(* acknowledgement that left one over is one of the FIN.                   *)
LEMMA DispatchedFollows ==
    ASSUME NEW s, NEW p, Sound(s), NEW rest \in Int, rest = 1 => p.finRcvd,
           NEW t \in Dispatched(s, rest)
    PROVE  Follows(s, t, p)
<1> DEFINE fin == "FIN" \in s.packet.flags
           finAcked == FinAcked(s, rest)
<1>1. finAcked => p.finRcvd
  BY DEF FinAcked
<1>2. ASSUME NEW st \in Synced, s.state # "CLOSED",
             Finished(s) => st \in {"FIN_WAIT_1", "FIN_WAIT_2", "CLOSING", "LAST_ACK", "TIME_WAIT"},
             Fine(s, p) /\ st \in {"FIN_WAIT_2", "TIME_WAIT"} => p.finRcvd
      PROVE  /\ Follows(s, setState(s, st), p)
             /\ Follows(s, [setState(s, st) EXCEPT !.nextFlags = @ \cup {"ACK"}], p)
  <2>1. Follows(s, setState(s, st), p)
    BY <1>2, SetStateFollows
  <2>2. Follows(setState(s, st), [setState(s, st) EXCEPT !.nextFlags = @ \cup {"ACK"}], p)
    BY <2>1, AckNextFollows DEF Follows
  <2> QED
    BY <2>1, <2>2, FollowsTrans
<1>3. CASE s.state = "ESTABLISHED"
  <2>1. Follows(s, setState(s, "CLOSE_WAIT"), p)
    BY <1>2, <1>3 DEF Synced, Finished
  <2>2. t \in onClose(setState(s, "CLOSE_WAIT")) \cup {s}
    BY <1>3 DEF Dispatched
  <2> QED
    BY <2>1, <2>2, OnCloseFollows, ItselfFollows
<1>4. CASE s.state = "FIN_WAIT_1"
  <2>1. finAcked => /\ Follows(s, setState(s, "TIME_WAIT"), p)
                    /\ Follows(s, setState(s, "FIN_WAIT_2"), p)
    BY <1>1, <1>2, <1>4 DEF Synced
  <2>2. Follows(s, [setState(s, "CLOSING") EXCEPT !.nextFlags = @ \cup {"ACK"}], p)
    BY <1>2, <1>4 DEF Synced
  <2>3. \/ finAcked /\ t \in onClose(setState(s, "TIME_WAIT"))
        \/ finAcked /\ t = setState(s, "FIN_WAIT_2")
        \/ t \in onClose([setState(s, "CLOSING") EXCEPT !.nextFlags = @ \cup {"ACK"}])
        \/ t = s
    <3> HIDE DEF finAcked
    <3> QED
      BY <1>4 DEF Dispatched, finAcked
  <2> HIDE DEF finAcked
  <2> QED
    BY <2>1, <2>2, <2>3, OnCloseFollows, ItselfFollows
<1>5. CASE s.state = "CLOSING"
  <2>1. finAcked => Follows(s, setState(s, "TIME_WAIT"), p)
    BY <1>1, <1>2, <1>5 DEF Synced
  <2>2. \/ finAcked /\ t = setState(s, "TIME_WAIT")
        \/ t = [s EXCEPT !.nextFlags = @ \cup {"ACK"}]
    BY <1>5 DEF Dispatched
  <2> HIDE DEF finAcked
  <2> QED
    BY <2>1, <2>2, AckNextFollows
<1>6. CASE s.state = "FIN_WAIT_2"
  <2>1. Fine(s, p) => p.finRcvd
    BY <1>6 DEF Fine, InStep
  <2>2. Follows(s, [setState(s, "TIME_WAIT") EXCEPT !.nextFlags = @ \cup {"ACK"}], p)
    BY <1>2, <1>6, <2>1 DEF Synced
  <2>3. t \in onClose([setState(s, "TIME_WAIT") EXCEPT !.nextFlags = @ \cup {"ACK"}]) \cup {s}
    BY <1>6 DEF Dispatched
  <2> QED
    BY <2>2, <2>3, OnCloseFollows, ItselfFollows
<1>7. CASE s.state = "LAST_ACK"
  <2>1. t = terminate(s)
    BY <1>7 DEF Dispatched
  <2> QED
    BY <2>1, TerminateFollows
<1>8. CASE s.state \notin {"ESTABLISHED", "FIN_WAIT_1", "CLOSING", "FIN_WAIT_2", "LAST_ACK"}
  <2>1. t = s
    BY <1>8 DEF Dispatched
  <2> QED
    BY <2>1, ItselfFollows
<1> QED
  BY <1>3, <1>4, <1>5, <1>6, <1>7, <1>8

LEMMA SetAckFollows ==
    ASSUME NEW s, NEW p, Sound(s), NEW n \in SeqNumber
    PROVE  Follows(s, [s EXCEPT !.ackNumber = n], p)
<1> DEFINE t == [s EXCEPT !.ackNumber = n]
<1>1. Sound(t)
  BY SetAckSound
<1>2. Alike(s, t) /\ t.state = s.state /\ t.sent = s.sent /\ t.nextFlags = s.nextFlags
  BY DEF Alike, Sound, SocketTypeOK, Sockets
<1> HIDE DEF t
<1> QED
  BY <1>1, <1>2, AlikeFollows DEF t

LEMMA InSequenceFollows ==
    ASSUME NEW s, NEW p, Sound(s), NEW rest \in Int, rest = 1 => p.finRcvd,
           NEW t \in InSequence(s, rest)
    PROVE  Follows(s, t, p)
<1> DEFINE len == s.packet.len
           taken == [s EXCEPT !.ackNumber = Plus(@, len),
                              !.nextFlags = IF len > 0 THEN @ \cup {"ACK"} ELSE @]
           finned(u) == IF "FIN" \in u.packet.flags THEN [u EXCEPT !.ackNumber = Plus(@, 1)] ELSE u
           delivered == IF len > 0 THEN onReceive(taken) ELSE {taken}
<1>1. \A u : Sound(u) => u.ackNumber \in Int
  BY DEF Sound, SocketTypeOK, Sockets, SeqNumber
<1>2. len \in Int
  BY DEF Sound, SocketTypeOK, Sockets, Packets
<1>3. Plus(s.ackNumber, len) \in SeqNumber
  BY <1>1, <1>2, PlusType
<1>4. Sound(taken)
  BY <1>3, ZenonT(40) DEF Sound, SocketTypeOK, TimerRuns, Sockets, Flag
<1>5. /\ Alike(s, taken) /\ taken.state = s.state /\ taken.sent = s.sent
      /\ "FIN" \in taken.nextFlags => "FIN" \in s.nextFlags
  BY DEF Alike, Sound, SocketTypeOK, Sockets
<1> HIDE DEF taken
<1>6. Follows(s, taken, p)
  BY <1>4, <1>5, AlikeFollows
<1>7. \A u \in delivered : Follows(s, u, p)
  <2>1. \A u \in onReceive(taken) : Follows(taken, u, p)
    BY <1>4, OnReceiveFollows
  <2> QED
    BY <1>6, <2>1, FollowsTrans
<1>8. ASSUME NEW u, Sound(u)
      PROVE  Follows(u, finned(u), p)
  <2>1. Plus(u.ackNumber, 1) \in SeqNumber
    BY <1>1, <1>8, PlusType
  <2>2. Follows(u, [u EXCEPT !.ackNumber = Plus(u.ackNumber, 1)], p)
    BY <1>8, <2>1, SetAckFollows
  <2>3. [u EXCEPT !.ackNumber = Plus(u.ackNumber, 1)] = [u EXCEPT !.ackNumber = Plus(@, 1)]
    BY <1>8 DEF Sound, SocketTypeOK, Sockets
  <2> QED
    BY <1>8, <2>2, <2>3, ItselfFollows
<1>9. PICK u \in delivered : t \in Dispatched(finned(u), rest)
  BY DEF InSequence, taken
<1> HIDE DEF delivered, finned
<1>10. Follows(s, u, p)
  BY <1>7
<1>11. Follows(u, finned(u), p)
  BY <1>8, <1>10 DEF Follows
<1>12. Follows(finned(u), t, p)
  BY <1>9, <1>11, DispatchedFollows DEF Follows
<1>13. Follows(s, finned(u), p)
  BY <1>10, <1>11, FollowsTrans
<1> QED
  BY <1>12, <1>13, FollowsTrans

(* The rest of the handler, once the acknowledgement has been used.        *)
LEMMA WindowedFollows ==
    ASSUME NEW s, NEW p, Sound(s), NEW seq, NEW n \in Int, NEW t \in Windowed(s, seq, n),
           \A r \in ReleasedTo(s, n) : n - (r - s.released) = 1 => p.finRcvd
    PROVE  \E r \in ReleasedTo(s, n) : Follows(Released(s, r), t, p)
<1>1. PICK r \in ReleasedTo(s, n) :
          t \in IF Released(s, r).ackNumber # seq
                THEN {[Released(s, r) EXCEPT !.nextFlags = @ \cup {"ACK"}]}
                ELSE InSequence(Released(s, r), n - (r - s.released))
  BY DEF Windowed
<1>2. Sound(Released(s, r)) /\ n - (r - s.released) \in Int
  BY ReleasedSound
<1>3. n - (r - s.released) = 1 => p.finRcvd
  OBVIOUS
<1> DEFINE u == Released(s, r)
<1> HIDE DEF u
<1>4. CASE u.ackNumber # seq
  BY <1>1, <1>2, <1>4, AckNextFollows DEF u
<1>5. CASE u.ackNumber = seq
  BY <1>1, <1>2, <1>3, <1>5, InSequenceFollows DEF u
<1> QED
  BY <1>4, <1>5 DEF u

(* Releasing fragments is no loss.                                         *)
LEMMA ReleasedGrows ==
    ASSUME NEW s, Sound(s), NEW n \in Int, NEW r \in ReleasedTo(s, n)
    PROVE  Grows(s, Released(s, r))
<1> DEFINE t == Released(s, r)
<1>1. r \in Int /\ s.released <= r /\ s.released \in Int /\ s.written \in Int
  BY Fields DEF ReleasedTo, Boundaries
<1>2. /\ t.state = s.state /\ t.written = s.written /\ t.released = r
      /\ t.fragments = {e \in s.fragments : e > r}
  BY DEF Sound, SocketTypeOK, Sockets, Released
<1> HIDE DEF t
<1>3. ASSUME NEW e \in Nat, Reached(s, e) PROVE Reached(t, e)
  BY <1>1, <1>2, <1>3 DEF Reached
<1>4. Finished(s) => Finished(t)
  BY <1>2 DEF Finished
<1> QED
  BY <1>1, <1>2, <1>3, <1>4 DEF Grows, t

-----------------------------------------------------------------------------
(* Acknowledgements *)

LEMMA NothingReleased ==
    ASSUME NEW s, Sound(s), NEW n \in Int, n <= 0, NEW r \in ReleasedTo(s, n)
    PROVE  r = s.released
<1>1. r \in Int /\ s.released \in Int /\ s.released <= r
  BY Fields DEF ReleasedTo, Boundaries
<1>2. s.released < r => s.released - s.released < n
  BY DEF ReleasedTo, Boundaries
<1> QED
  BY <1>1, <1>2

(* An acknowledgement up to the end of a fragment releases up to there.    *)
LEMMA ReleasedUpTo ==
    ASSUME NEW s, Sound(s), NEW n \in Int, n > 0, s.released + n \in s.fragments,
           NEW r \in ReleasedTo(s, n)
    PROVE  r = s.released + n
<1> DEFINE e == s.released + n
<1>1. r \in Int /\ s.released \in Int /\ e \in Int
  BY Fields DEF ReleasedTo, Boundaries
<1>2. e \in Boundaries(s)
  BY DEF Boundaries
<1>3. /\ e < r => e - s.released < n
      /\ r - s.released >= n \/ e <= r
  BY <1>2 DEF ReleasedTo
<1> QED
  BY <1>1, <1>3

(* One that is beyond the buffer empties it.                               *)
LEMMA AllReleased ==
    ASSUME NEW s, Sound(s), NEW n \in Int, n > s.written - s.released,
           s.written \in Boundaries(s), NEW r \in ReleasedTo(s, n)
    PROVE  r = s.written
<1>1. r \in Int /\ s.released \in Int /\ s.written \in Int /\ r <= s.written
  BY Fields DEF ReleasedTo, Boundaries
<1>2. r - s.released >= n \/ s.written <= r
  BY DEF ReleasedTo
<1> QED
  BY <1>1, <1>2

\* How far an acknowledgement number is from sequenceNumber.
Behind(n) == n <= 0
ToFragment(s, p, n) ==
    /\ n > 0 /\ s.released + n \in s.fragments /\ s.released + n <= Got(p)
    /\ Plus(s.sequenceNumber, n) = Plus(p.irs, s.released + n + 1)
ToFIN(s, p, n) ==
    /\ n > 0 /\ p.finRcvd /\ n = s.written - s.released + 1
    /\ Plus(s.sequenceNumber, n) = Plus(p.irs, s.written + 2)

(* What an acknowledgement can be: old, up to the end of a fragment, or    *)
(* that of the FIN.                                                        *)
LEMMA AckNumber ==
    ASSUME NEW s, NEW p \in Peers, Sound(s), PeerSide(p), Roomy, InStep(s, p), s.state \in Synced,
           NEW seg \in Segment, "RST" \notin seg.flags, Acknowledges(s, p, seg)
    PROVE  LET n == bytesAck(s, seg) IN Behind(n) \/ ToFragment(s, p, n) \/ ToFIN(s, p, n)
<1> DEFINE n == bytesAck(s, seg)
<1>1. /\ s.released \in Nat /\ s.written \in Nat /\ s.released <= s.written
      /\ s.written <= MaxData /\ MaxData \in Nat /\ HalfSeq \in Nat
  BY Fields, TCPNetworkAssumption
<1>2. p.irs \in SeqNumber /\ p.irs \in Nat /\ p.irs \in Int /\ p.rcvd \in Nat
  BY TCPNetworkAssumption DEF Peers, SeqNumber, SeqMod
<1>3. MaxData + 2 < HalfSeq
  BY DEF Roomy
<1>4. Got(p) \in Nat /\ s.released <= Got(p) /\ Got(p) <= s.written
  BY <1>1 DEF InStep
<1>5. p.rcvd = 1 + Got(p) + IF p.finRcvd THEN 1 ELSE 0
  BY DEF InStep, PeerSide
<1>6. PICK j \in Nat :
        /\ s.sequenceNumber = Plus(p.irs, j)
        /\ \/ j = s.released + 1
           \/ p.finRcvd /\ s.released = s.written /\ j = s.written + 2
  BY <1>1 DEF InStep
<1>7. CASE seg.flags = {"SYN"} /\ p.opens /\ seg.ack = 0
  <2>1. Low(p.irs)
    BY <1>7 DEF InStep
  <2>2. p.irs + j <= HalfSeq
    BY <1>1, <1>2, <1>6, <2>1 DEF Low
  <2>3. p.irs + j \in SeqNumber
    BY <1>1, <1>2, <1>3, <2>2, TCPNetworkAssumption DEF SeqNumber, SeqMod
  <2>4. s.sequenceNumber = p.irs + j
    BY <1>2, <1>6, <2>3, PlusSmall
  <2>5. ~(n > 0)
    BY <1>2, <1>7, <2>2, <2>4, ZeroBehind DEF bytesAck
  <2>6. n \in Int
    BY AckedSound
  <2> HIDE DEF n
  <2>7. Behind(n)
    BY <2>5, <2>6 DEF Behind
  <2> QED
    BY <2>7 DEF n
<1>8. ASSUME NEW k \in 1 .. p.rcvd, seg.ack = Plus(p.irs, k),
             Reached(s, k - 1) \/ (p.finRcvd /\ k = s.written + 2)
      PROVE  Behind(n) \/ ToFragment(s, p, n) \/ ToFIN(s, p, n)
  <2>1. k \in Int /\ 1 <= k /\ k <= Got(p) + 2
    BY <1>2, <1>4, <1>5
  <2>2. -HalfSeq < k - j /\ k - j < HalfSeq
    BY <1>1, <1>3, <1>4, <1>6, <2>1
  <2>3. n = k - j
    BY <1>2, <1>6, <1>8, <2>1, <2>2, Ahead DEF bytesAck
  <2> HIDE DEF n
  <2>4. CASE k <= j
    BY <1>6, <2>1, <2>3, <2>4 DEF Behind
  <2>5. CASE k > j
    <3>1. Plus(s.sequenceNumber, n) = Plus(p.irs, k)
      <4>1. Plus(Plus(p.irs, j), n) = Plus(p.irs, j + n)
        <5>1. j \in Int /\ n \in Int
          BY <1>6, <2>1, <2>3
        <5> QED
          BY <1>2, <5>1, PlusOnce
      <4>2. j + n = k
        BY <1>6, <2>1, <2>3
      <4> QED
        BY <1>6, <4>1, <4>2
    <3>2. j = s.released + 1
      BY <1>1, <1>4, <1>5, <1>6, <2>1, <2>5 DEF InStep
    <3>3. CASE Reached(s, k - 1)
      <4>1. k - 1 = s.released + n /\ n > 0 /\ k = s.released + n + 1
        BY <1>1, <2>1, <2>3, <2>5, <3>2
      <4>2. s.released + n \in s.fragments
        <5>1. s.state # "CLOSED"
          BY DEF Synced
        <5>2. ~(k - 1 <= s.released)
          BY <1>1, <2>1, <4>1, AckedSound DEF n
        <5> QED
          BY <3>3, <4>1, <5>1, <5>2 DEF Reached
      <4>3. s.released + n <= s.written
        BY <4>2, Fields
      <4>4. s.released + n <= Got(p)
        <5>1. CASE p.finRcvd
          BY <4>3, <5>1 DEF InStep
        <5>2. CASE ~p.finRcvd
          BY <1>4, <1>5, <2>1, <4>1, <5>2
        <5> QED
          BY <5>1, <5>2
      <4> QED
        BY <3>1, <4>1, <4>2, <4>4 DEF ToFragment
    <3>4. CASE p.finRcvd /\ k = s.written + 2
      <4>1. n > 0 /\ n = s.written - s.released + 1
        BY <1>1, <2>1, <2>3, <2>5, <3>2, <3>4
      <4> QED
        BY <3>1, <3>4, <4>1 DEF ToFIN
    <3> QED
      BY <1>8, <3>3, <3>4
  <2> QED
    BY <1>6, <2>1, <2>4, <2>5
<1> QED
  BY <1>7, <1>8 DEF Acknowledges

\* What acknowledging up to byte r leaves of the socket.
Settles(s, u, r, n) ==
    /\ u.state = s.state /\ u.written = s.written /\ u.opened = s.opened
    /\ u.released = r /\ u.fragments = {e \in s.fragments : e > r}
    /\ u.nextFlags = s.nextFlags /\ u.sent = s.sent
    /\ u.sequenceNumber = IF n > 0 THEN Plus(s.sequenceNumber, n) ELSE s.sequenceNumber

LEMMA SettledFields ==
    ASSUME NEW s, Sound(s), NEW seg \in Segment, NEW r
    PROVE  Settles(s, Released(Acked(s, seg), r), r, bytesAck(s, seg))
<1>1. /\ Acked(s, seg) = [s EXCEPT
            !.sequenceNumber = IF bytesAck(s, seg) > 0 THEN Plus(s.sequenceNumber, bytesAck(s, seg))
                               ELSE s.sequenceNumber,
            !.packet = Incoming(seg)]
  BY DEF Acked, Sound, SocketTypeOK, Sockets
<1> QED
  BY <1>1 DEF Settles, Released, Sound, SocketTypeOK, Sockets

(* Using the acknowledgement keeps the two sides in step, and one unit is  *)
(* left over only when the peer has the FIN.                               *)
LEMMA Settled ==
    ASSUME NEW s, NEW p \in Peers, Sound(s), PeerSide(p), Roomy, Fine(s, p), s.state \in Synced,
           NEW seg \in Segment, "RST" \notin seg.flags, Acknowledges(s, p, seg),
           NEW r \in ReleasedTo(Acked(s, seg), bytesAck(s, seg))
    PROVE  /\ Fine(Released(Acked(s, seg), r), p)
           /\ bytesAck(s, seg) - (r - s.released) = 1 => p.finRcvd
<1> DEFINE n == bytesAck(s, seg)
           a == Acked(s, seg)
           u == Released(a, r)
<1>1. Sound(a) /\ n \in Int
  BY AckedSound
<1>2. /\ a.released = s.released /\ a.fragments = s.fragments /\ a.written = s.written
      /\ a.state = s.state
  BY DEF Acked, Sound, SocketTypeOK, Sockets
<1>3. Settles(s, u, r, n)
  BY SettledFields
<1>4. Behind(n) \/ ToFragment(s, p, n) \/ ToFIN(s, p, n)
  BY AckNumber DEF Fine
<1>5. r \in ReleasedTo(a, n)
  OBVIOUS
<1>6. Grows(a, u) /\ Sound(u)
  BY <1>1, <1>5, ReleasedGrows, ReleasedSound
<1> HIDE DEF n, a, u
<1>7. /\ s.released \in Int /\ s.written \in Int /\ s.released <= s.written
      /\ s.state # "CLOSED" /\ InStep(s, p)
  BY Fields DEF Synced, Fine
<1>8. Grows(s, u)
  BY <1>2, <1>6 DEF Grows, Reached, Finished
<1>9. /\ u.released <= Got(p) /\ u.released \in Int
      /\ \/ u.sequenceNumber = Plus(p.irs, u.released + 1)
         \/ p.finRcvd /\ u.released = u.written /\ u.sequenceNumber = Plus(p.irs, u.written + 2)
      /\ n - (r - s.released) = 1 => p.finRcvd
  <2>1. CASE Behind(n)
    <3>1. r = s.released
      BY <1>1, <1>2, <1>5, <2>1, NothingReleased DEF Behind
    <3>2. n <= 0 /\ ~(n > 0)
      BY <1>1, <2>1 DEF Behind
    <3> QED
      BY <1>1, <1>3, <1>7, <3>1, <3>2 DEF Settles, InStep
  <2>2. CASE ToFragment(s, p, n)
    <3>1. r = s.released + n
      BY <1>1, <1>2, <1>5, <2>2, ReleasedUpTo DEF ToFragment
    <3> QED
      BY <1>1, <1>3, <1>7, <2>2, <3>1 DEF Settles, ToFragment
  <2>3. CASE ToFIN(s, p, n)
    <3>1. s.written \in Boundaries(a)
      BY <1>2, <1>7 DEF InStep, Reached, Boundaries
    <3>2. n > s.written - s.released
      BY <1>7, <2>3 DEF ToFIN
    <3>3. r = s.written
      BY <1>1, <1>2, <1>5, <3>1, <3>2, AllReleased
    <3>4. u.released <= Got(p)
      BY <1>3, <1>7, <2>3, <3>3 DEF InStep, Settles, ToFIN
    <3> QED
      BY <1>1, <1>3, <1>7, <2>3, <3>3, <3>4 DEF Settles, ToFIN
  <2> QED
    BY <1>4, <2>1, <2>2, <2>3
<1>10. InStep(u, p)
  <2>1. Got(p) \in u.released .. u.written
    BY <1>3, <1>7, <1>9 DEF InStep, Settles
  <2>2. Got(p) \in Nat /\ u.written \in Nat
    BY <1>3, <1>7, Fields DEF InStep, Settles
  <2>3. Reached(u, Got(p)) /\ Reached(u, u.written)
    BY <1>3, <1>7, <1>8, <2>2 DEF Grows, InStep, Settles
  <2> QED
    BY <1>3, <1>7, <1>9, <2>1, <2>3 DEF InStep, Settles, Finished
<1>11. \A sent \in u.sent : Carried(u, p, sent)
  BY <1>3, <1>6, <1>8, <1>10, CarriedOn, Fields DEF Settles, Fine, InStep
<1> QED
  BY <1>3, <1>9, <1>10, <1>11 DEF Fine, Settles, n, a, u

-----------------------------------------------------------------------------
(* The socket's steps *)

\* What a handler has to leave behind.
Leaves(t) ==
    /\ Situation(t, peer) /\ "FIN" \notin t.nextFlags /\ Got(peer) <= t.written
    /\ \A seg \in t.sent \cup toPeer : Carried(t, peer, seg)
    /\ \A seg \in toSocket : Acknowledges(t, peer, seg)

LEMMA Handled ==
    ASSUME Together, ~CutShort(peer), UNCHANGED peer,
           NEW S, Become(S), \A t \in S : Sound(t) /\ Leaves(t)
    PROVE  Together'
<1>1. PICK t \in S : /\ socket' = [t EXCEPT !.sent = {}, !.packet = NoPacket]
                    /\ toPeer' = Sent(toPeer, t.sent, MaxToPeer)
  BY DEF Become
<1>2. Sound(t) /\ Leaves(t)
  OBVIOUS
<1>3. /\ Alike(t, socket') /\ socket'.state = t.state /\ socket'.sent = {}
      /\ socket'.nextFlags = t.nextFlags
  BY <1>1, <1>2 DEF Sound, SocketTypeOK, Sockets, Alike
<1>4. toPeer' \subseteq toPeer \cup t.sent /\ toSocket' = toSocket /\ peer' = peer
  BY <1>1 DEF Become, Sent
<1> DEFINE u == socket'
<1>5. Situation(u, peer)
  <2>1. InStep(t, peer) => InStep(u, peer)
    BY <1>3 DEF InStep, Alike, Reached, Finished
  <2>2. Shaking(t, peer) => Shaking(u, peer)
    BY <1>3 DEF Shaking, Unused, Alike
  <2> QED
    BY <1>2, <1>3, <2>1, <2>2
       DEF Leaves, Situation, Ready, Over, Listening, Connecting, Accepting, Unused, Alike
<1>6. \A seg : Carried(t, peer, seg) => Carried(u, peer, seg)
  BY <1>3 DEF Carried, Alike, Reached, Finished
<1>7. \A seg : Acknowledges(t, peer, seg) => Acknowledges(u, peer, seg)
  <2>1. \A e : Reached(t, e) => Reached(u, e)
    BY <1>3 DEF Alike, Reached
  <2> QED
    BY <1>3, <2>1 DEF Acknowledges, Alike
<1>8. Got(peer) <= u.written
  BY <1>2, <1>3 DEF Leaves, Alike
<1> QED
  BY <1>2, <1>3, <1>4, <1>5, <1>6, <1>7, <1>8 DEF Together, Leaves

LEMMA HandledLate ==
    ASSUME TypeOK, Together, CutShort(peer), UNCHANGED peer,
           NEW S, Become(S), \A t \in S : Sound(t) /\ socket.written <= t.written
    PROVE  Together'
<1>1. PICK t \in S : socket' = [t EXCEPT !.sent = {}, !.packet = NoPacket]
  BY DEF Become
<1>2. Sound(t) /\ socket.written <= t.written
  OBVIOUS
<1>3. socket'.written = t.written /\ socket'.sent = {}
  BY <1>1, <1>2 DEF Sound, SocketTypeOK, Sockets
<1>4. t.written \in Int /\ socket.written \in Int /\ Got(peer) \in Int
  BY <1>2, Fields DEF TypeOK, SocketTypeOK, Sockets, Peers, Got
<1>5. Got(peer) <= socket'.written
  BY <1>2, <1>3, <1>4 DEF Together
<1> QED
  BY <1>3, <1>5 DEF Together, CutShort

(* What holds of socket and peer when the invariant does.                  *)
LEMMA Known ==
    ASSUME TypeOK, TimersRun, Together, ~CutShort(peer)
    PROVE  /\ Sound(socket) /\ peer \in Peers /\ PeerSide(peer) /\ Situation(socket, peer)
           /\ toPeer \subseteq Segment /\ toSocket \subseteq Segment
           /\ Got(peer) \in Nat /\ peer.rcvd \in Nat /\ peer.irs \in Int
           /\ socket.state \in Synced => Fine(socket, peer)
           /\ ~socket.opened => Ready(socket, peer)
           /\ peer.finRcvd /\ socket.opened => Finished(socket)
  <1>1. Sound(socket) /\ peer \in Peers /\ PeerSide(peer) /\ Situation(socket, peer)
    BY DEF TypeOK, TimersRun, Together, Sound
  <1>2. Got(peer) \in Nat /\ peer.rcvd \in Nat /\ peer.irs \in Int
    BY <1>1 DEF Peers, Got, SeqNumber
  <1>3. socket.state \in Synced => InStep(socket, peer)
    BY <1>1 DEF Situation, Ready, Over, Listening, Connecting, Accepting, Synced
  <1>4. socket.state \in Synced => Fine(socket, peer)
    BY <1>3 DEF Fine, Together
  <1>5. ~socket.opened => Ready(socket, peer)
    BY <1>1 DEF Situation, Over, Listening, Connecting, Accepting, Shaking, InStep
  <1>6. peer.finRcvd /\ socket.opened => Finished(socket)
    BY <1>1, <1>5 DEF Situation, Ready, Over, Listening, Connecting, Accepting, Shaking, InStep,
       Finished
  <1> QED
    BY <1>1, <1>2, <1>4, <1>5, <1>6 DEF TypeOK

LEMMA FineLeaves ==
    ASSUME TypeOK, TimersRun, Together, ~CutShort(peer), socket.opened,
           NEW t, Sound(t), Grows(socket, t), Fine(t, peer)
    PROVE  Leaves(t)
<1>1. /\ InStep(t, peer) /\ t.opened /\ t.state \in Synced \cup {"CLOSED"}
      /\ t.released \in Int /\ t.written \in Int
  BY Fields DEF Fine, InStep
<1>2. Situation(t, peer)
  <2>1. t.state = "CLOSED" => Over(t, peer)
    BY <1>1, Known DEF InStep, Over
  <2> QED
    BY <1>1, <2>1 DEF Situation
<1>3. \A seg \in toPeer : Carried(t, peer, seg)
  BY <1>1, CarriedOn, Known DEF Together
<1>4. \A seg \in toSocket : Acknowledges(t, peer, seg)
  <2>1. peer.finRcvd => t.written = socket.written
    BY Known DEF Grows
  <2> QED
    BY <2>1, AcknowledgesOn, Known DEF Together
<1>5. Got(peer) <= t.written
  BY <1>1, Known DEF InStep
<1> QED
  BY <1>2, <1>3, <1>4, <1>5 DEF Leaves, Fine

LEMMA TerminateLeaves ==
    ASSUME TypeOK, TimersRun, Together, ~CutShort(peer), socket.state # "CLOSED"
    PROVE  Leaves(terminate(socket))
<1> DEFINE t == terminate(socket)
<1>1. Sound(t) /\ Grows(socket, t)
  BY TerminateFollows, Known DEF Follows
<1>2. /\ t.state = "CLOSED" /\ t.written = socket.written /\ t.released = socket.released
      /\ t.opened = socket.opened /\ t.sent = socket.sent /\ t.nextFlags = socket.nextFlags
  BY DEF TypeOK, SocketTypeOK, Sockets, terminate, setState
<1> HIDE DEF t
<1>3. /\ Situation(socket, peer) /\ Sound(socket) /\ socket.opened
      /\ socket.released \in Int /\ socket.written \in Int /\ Got(peer) \in Nat
  BY Known, Fields DEF Ready
<1>4. socket.released <= Got(peer) /\ (peer.finRcvd => Got(peer) = socket.written)
  BY <1>3 DEF Situation, Ready, Over, Listening, Connecting, Accepting, Shaking, InStep, Unused
<1>5. Over(t, peer)
  BY <1>2, <1>3, <1>4 DEF Over, Together
<1>6. \A seg \in toPeer : Carried(t, peer, seg)
  BY <1>1, <1>2, <1>3, CarriedOn, Known DEF Together
<1>7. \A seg \in toSocket : Acknowledges(t, peer, seg)
  BY <1>1, <1>2, AcknowledgesOn, Known DEF Together
<1> QED
  BY <1>2, <1>5, <1>6, <1>7 DEF Leaves, Situation, Together, t

(* A handler that changes nothing the peer depends on.                     *)
LEMMA SameLeaves ==
    ASSUME TypeOK, TimersRun, Together, ~CutShort(peer), NEW t, Alike(socket, t),
           t.state = socket.state, "FIN" \notin t.nextFlags,
           \A seg \in t.sent : Carried(t, peer, seg)
    PROVE  Leaves(t)
<1>1. /\ Situation(socket, peer)
      /\ \A seg \in toPeer : Carried(socket, peer, seg)
      /\ \A seg \in toSocket : Acknowledges(socket, peer, seg)
  BY DEF Together
<1>2. Situation(t, peer)
  <2>1. InStep(socket, peer) => InStep(t, peer)
    BY DEF InStep, Alike, Reached, Finished
  <2>2. Shaking(socket, peer) => Shaking(t, peer)
    BY DEF Shaking, Unused, Alike
  <2> QED
    BY <1>1, <2>1, <2>2
       DEF Situation, Ready, Over, Listening, Connecting, Accepting, Unused, Alike
<1>3. \A seg : Carried(socket, peer, seg) => Carried(t, peer, seg)
  BY DEF Carried, Alike, Reached, Finished
<1>4. \A seg : Acknowledges(socket, peer, seg) => Acknowledges(t, peer, seg)
  <2>1. \A e : Reached(socket, e) => Reached(t, e)
    BY DEF Alike, Reached
  <2> QED
    BY <2>1 DEF Acknowledges, Alike
<1> QED
  BY <1>1, <1>2, <1>3, <1>4 DEF Leaves, Together, Alike

LEMMA SendSYNFields ==
    ASSUME NEW s, Sound(s), NEW ack
    PROVE  LET t == sendSYN(s, ack)
           IN  /\ Alike(s, t) /\ t.state = s.state /\ t.nextFlags = s.nextFlags
               /\ t.sent = s.sent \cup {Frame(s, {"SYN"} \cup ack, 0)}
  BY DEF Alike, Sound, SocketTypeOK, Sockets, sendSYN

LEMMA SYNCarried ==
    ASSUME NEW s, NEW p, NEW t, s.opened, s.state \in Opening, NEW ack \in SUBSET {"ACK"},
           s.state = "SYN_SENT" => ack = {}, t.sequenceNumber = s.sequenceNumber
    PROVE  Carried(s, p, Frame(t, {"SYN"} \cup ack, 0))
  BY DEF Carried, Frame, Opening

LEMMA CountedFields ==
    ASSUME NEW s, Sound(s)
    PROVE  /\ Alike(s, Counted(s)) /\ Counted(s).state = s.state /\ Counted(s).sent = s.sent
           /\ Counted(s).nextFlags = s.nextFlags
  BY DEF Alike, Sound, SocketTypeOK, Sockets, Counted

LEMMA OutgoingAlike ==
    ASSUME NEW s, Sound(s), NEW t \in Outgoing(s)
    PROVE  Alike(s, t) /\ t.state = s.state
<1>1. ASSUME NEW flags \in SUBSET Flag, NEW u \in processOutgoingBuffer([s EXCEPT !.nextFlags = flags])
      PROVE  Alike(s, u) /\ u.state = s.state
  <2> DEFINE v == [s EXCEPT !.nextFlags = flags]
  <2>1. v \in Sockets
    BY FieldType DEF Sound, SocketTypeOK
  <2>2. Alike(s, v) /\ v.state = s.state /\ v.stateTimer = s.stateTimer
    BY DEF Alike, Sound, SocketTypeOK, Sockets
  <2>3. Sound(v)
    BY <2>1, <2>2 DEF Sound, SocketTypeOK, TimerRuns, Alike
  <2> HIDE DEF v
  <2>4. Alike(v, u) /\ u.state = v.state
    BY <1>1, <2>3, ProcessFields DEF v
  <2> QED
    BY <2>2, <2>4 DEF Alike
<1>2. s.nextFlags \in SUBSET Flag /\ {"FIN", "ACK"} \subseteq Flag
  BY DEF Sound, SocketTypeOK, Sockets, Flag
<1>3. \/ t \in processOutgoingBuffer([s EXCEPT !.nextFlags = s.nextFlags \cup {"FIN", "ACK"}])
      \/ t \in processOutgoingBuffer([s EXCEPT !.nextFlags = s.nextFlags \cup {"ACK"}])
      \/ t \in processOutgoingBuffer(s)
      \/ t \in {sendSYN(s, {}), sendSYN(s, {"ACK"}), s}
  BY DEF Outgoing, Sound, SocketTypeOK, Sockets
<1>4. t = s => Alike(s, t)
  BY DEF Alike
<1> QED
  <2>1. CASE t \in processOutgoingBuffer([s EXCEPT !.nextFlags = s.nextFlags \cup {"FIN", "ACK"}])
    BY <1>1, <1>2, <2>1
  <2>2. CASE t \in processOutgoingBuffer([s EXCEPT !.nextFlags = s.nextFlags \cup {"ACK"}])
    <3>1. s.nextFlags \cup {"ACK"} \in SUBSET Flag
      BY <1>2
    <3> QED
      BY <1>1, <2>2, <3>1
  <2>3. CASE t \in processOutgoingBuffer(s)
    BY <2>3, ProcessFields
  <2>4. CASE t \in {sendSYN(s, {}), sendSYN(s, {"ACK"}), s}
    <3>1. \A ack : Alike(s, sendSYN(s, ack)) /\ sendSYN(s, ack).state = s.state
      BY SendSYNFields
    <3> QED
      BY <1>4, <2>4, <3>1
  <2> QED
    BY <1>3, <2>1, <2>2, <2>3, <2>4

(* A FIN is sent only once nothing more is written, and all the buffer     *)
(* holds goes before it.                                                   *)
LEMMA OutgoingFine ==
    ASSUME NEW s, NEW p, Sound(s), Fine(s, p), s.state \in Synced, NEW t \in Outgoing(s)
    PROVE  Fine(t, p)
<1>1. s.state \notin {"SYN_SENT", "SYN_RECEIVED", "CLOSED"}
  BY DEF Synced
<1>2. CASE t \in processOutgoingBuffer([s EXCEPT !.nextFlags = @ \cup {"FIN", "ACK"}])
           /\ s.state \in {"FIN_WAIT_1", "CLOSING", "LAST_ACK"}
  <2> DEFINE v == [s EXCEPT !.nextFlags = @ \cup {"FIN", "ACK"}]
  <2>1. Sound(v)
    BY DEF Sound, SocketTypeOK, TimerRuns, Sockets, Flag
  <2>2. Alike(s, v) /\ v.state = s.state /\ v.sent = s.sent
    BY DEF Alike, Sound, SocketTypeOK, Sockets
  <2>3. InStep(v, p) /\ \A seg \in v.sent : Carried(v, p, seg)
    <3>1. InStep(v, p)
      BY <2>2 DEF Fine, InStep, Alike, Reached, Finished
    <3>2. \A seg : Carried(s, p, seg) => Carried(v, p, seg)
      BY <2>2 DEF Carried, Alike, Reached, Finished
    <3> QED
      BY <2>2, <3>1, <3>2 DEF Fine
  <2>4. v.state # "CLOSED" /\ Finished(v)
    BY <1>1, <1>2, <2>2 DEF Finished
  <2> HIDE DEF v
  <2> QED
    BY <1>2, <2>1, <2>3, <2>4, ProcessFine DEF v
<1>3. CASE t \in processOutgoingBuffer([s EXCEPT !.nextFlags = @ \cup {"ACK"}])
  <2> DEFINE v == [s EXCEPT !.nextFlags = @ \cup {"ACK"}]
  <2>1. Follows(s, v, p)
    BY AckNextFollows
  <2> HIDE DEF v
  <2>2. Follows(v, t, p)
    BY <1>3, <2>1, ProcessFollows DEF Follows, v
  <2> QED
    BY <2>1, <2>2 DEF Follows
<1>4. CASE t \in processOutgoingBuffer(s)
  BY <1>4, ProcessFollows DEF Follows
<1>5. \/ t \in processOutgoingBuffer([s EXCEPT !.nextFlags = @ \cup {"FIN", "ACK"}])
            /\ s.state \in {"FIN_WAIT_1", "CLOSING", "LAST_ACK"}
      \/ t \in processOutgoingBuffer([s EXCEPT !.nextFlags = @ \cup {"ACK"}])
      \/ t \in processOutgoingBuffer(s)
      \/ t = s
  BY <1>1 DEF Outgoing
<1> QED
  BY <1>2, <1>3, <1>4, <1>5

LEMMA TickTogether ==
    ASSUME TypeOK, TimersRun, Together, tick, UNCHANGED peer
    PROVE  Together'
<1>1. Sound(socket)
  BY DEF TypeOK, TimersRun, Sound
<1>2. CASE timedOut
  <2>1. Sound(terminate(socket)) /\ Grows(socket, terminate(socket))
    BY <1>1, TerminateFollows DEF Follows
  <2>2. Become({terminate(socket)}) /\ socket.state # "CLOSED"
    BY <1>2 DEF timedOut, TimedStates
  <2>3. CASE CutShort(peer)
    BY <2>1, <2>2, <2>3, HandledLate DEF Grows
  <2>4. CASE ~CutShort(peer)
    BY <2>1, <2>2, <2>4, TerminateLeaves, Handled
  <2> QED
    BY <2>3, <2>4
<1>3. CASE ~(socket.stateTimer = 1 /\ socket.state \in TimedStates)
           /\ Become(Outgoing(Counted(socket)))
  <2> DEFINE c == Counted(socket)
  <2>1. /\ Sound(c) /\ Alike(socket, c) /\ c.state = socket.state
        /\ c.sent = socket.sent /\ c.nextFlags = socket.nextFlags
    BY <1>1, <1>3, CountedSound, CountedFields
  <2>2. Become(Outgoing(c))
    BY <1>3
  <2> HIDE DEF c
  <2>3. \A t \in Outgoing(c) : Sound(t) /\ Alike(socket, t) /\ t.state = socket.state
    BY <2>1, OutgoingSound, OutgoingAlike DEF Alike
  <2>4. CASE CutShort(peer)
    <3>1. \A t \in Outgoing(c) : socket.written <= t.written
      BY <1>1, <2>3, Fields DEF Alike
    <3> QED
      BY <2>2, <2>3, <2>4, <3>1, HandledLate
  <2>5. CASE ~CutShort(peer)
    <3>1. \A t \in Outgoing(c) : "FIN" \notin t.nextFlags /\ \A seg \in t.sent : Carried(t, peer, seg)
      <4> SUFFICES ASSUME NEW t \in Outgoing(c)
                   PROVE  "FIN" \notin t.nextFlags /\ \A seg \in t.sent : Carried(t, peer, seg)
        OBVIOUS
      <4>1. CASE socket.state \in Synced
        <5>1. Follows(socket, c, peer)
          BY <1>1, <2>1, AlikeFollows
        <5>2. Fine(c, peer)
          BY <2>5, <4>1, <5>1, Known DEF Follows
        <5> QED
          BY <2>1, <4>1, <5>2, OutgoingFine DEF Fine
      <4>2. CASE socket.state \in Opening
        <5>1. c.opened /\ socket.sent = {} /\ "FIN" \notin socket.nextFlags
          BY <2>1, <2>5, <4>2, Known DEF Together, Ready, Opening, Alike
        <5>2. PICK ack \in SUBSET {"ACK"} : t = sendSYN(c, ack) /\ (c.state = "SYN_SENT" => ack = {})
          BY <2>1, <4>2 DEF Outgoing, Opening
        <5>3. Alike(c, t) /\ t.state = c.state /\ t.nextFlags = c.nextFlags
              /\ t.sent = c.sent \cup {Frame(c, {"SYN"} \cup ack, 0)}
          BY <2>1, <5>2, SendSYNFields
        <5>4. Carried(t, peer, Frame(c, {"SYN"} \cup ack, 0))
          BY <2>1, <4>2, <5>1, <5>2, <5>3, SYNCarried DEF Alike
        <5> QED
          BY <2>1, <5>1, <5>3, <5>4
      <4>3. CASE socket.state \in {"CLOSED", "LISTEN"}
        <5>1. t = c
          BY <2>1, <4>3 DEF Outgoing
        <5> QED
          BY <2>1, <2>5, <5>1 DEF Together
      <4> QED
        BY <1>1, <4>1, <4>2, <4>3, Fields DEF State, Synced, Opening
    <3>2. \A t \in Outgoing(c) : Leaves(t)
      BY <2>3, <2>5, <3>1, SameLeaves
    <3> QED
      BY <2>2, <2>3, <2>5, <3>2, Handled
  <2> QED
    BY <2>4, <2>5
<1> QED
  BY <1>2, <1>3 DEF tick

LEMMA ConnectTogether ==
    ASSUME TypeOK, TimersRun, Together, connect, ~peer.opens, UNCHANGED peer
    PROVE  Together'
<1> DEFINE a == [socket EXCEPT !.ackNumber = 0, !.opened = TRUE]
           b == setState(a, "SYN_SENT")
           t == sendSYN(b, {})
<1>1. Sound(socket) /\ ~socket.opened
  BY DEF TypeOK, TimersRun, Sound, connect
<1>2. 0 \in SeqNumber
  BY TCPNetworkAssumption DEF SeqNumber, SeqMod
<1>3. Sound(a)
  BY <1>1, <1>2 DEF Sound, SocketTypeOK, TimerRuns, Sockets
<1>4. a.opened /\ Unused(socket) => Unused(a)
  BY <1>1 DEF Sound, SocketTypeOK, Sockets, Unused
<1>5. /\ a.written = socket.written /\ a.sequenceNumber = socket.sequenceNumber
      /\ a.sent = socket.sent /\ a.nextFlags = socket.nextFlags /\ a.opened
      /\ a.released = socket.released /\ a.fragments = socket.fragments
  BY <1>1 DEF Sound, SocketTypeOK, Sockets
<1>6. Become({t})
  BY DEF connect
<1> HIDE DEF a
<1>7. Sound(b) /\ Alike(a, b) /\ b.state = "SYN_SENT" /\ b.nextFlags = a.nextFlags /\ b.sent = a.sent
  <2>1. Sound(b)
    BY <1>3, SetStateSound DEF Sound, State
  <2> QED
    BY <1>3, <2>1 DEF setState, Alike, Sound, SocketTypeOK, Sockets
<1> HIDE DEF b
<1>8. /\ Sound(t) /\ Alike(b, t) /\ t.state = "SYN_SENT" /\ t.nextFlags = b.nextFlags
      /\ t.sent = b.sent \cup {Frame(b, {"SYN"} \cup {}, 0)}
  BY <1>7, SendSYNSound, SendSYNFields
<1> HIDE DEF t
<1>9. /\ t.written = socket.written /\ t.sequenceNumber = socket.sequenceNumber
      /\ t.nextFlags = socket.nextFlags /\ t.opened /\ t.released = socket.released
      /\ t.fragments = socket.fragments /\ t.sent = socket.sent \cup {Frame(b, {"SYN"} \cup {}, 0)}
      /\ b.sequenceNumber = t.sequenceNumber
  BY <1>5, <1>7, <1>8 DEF Alike
<1>10. CASE CutShort(peer)
  <2>1. socket.written <= t.written
    BY <1>1, <1>9, Fields
  <2> QED
    BY <1>6, <1>8, <1>10, <2>1, HandledLate
<1>11. CASE ~CutShort(peer)
  <2>1. Ready(socket, peer) /\ PeerSide(peer) /\ Together
    BY <1>1, <1>11, Known
  <2>2. toPeer = {}
    BY <1>1, <1>11 DEF Together, Carried
  <2>3. peer.rcvd = 0 /\ peer.got = <<>> /\ ~peer.finRcvd /\ peer.una = 0
    BY <2>1 DEF Ready, PeerSide
  <2>4. Connecting(t, peer)
    BY <1>8, <1>9, <2>1, <2>3 DEF Connecting, Shaking, Ready, Unused
  <2>5. Carried(t, peer, Frame(b, {"SYN"} \cup {}, 0))
    BY <1>8, <1>9, SYNCarried DEF Opening
  <2>6. \A seg \in toSocket : Acknowledges(t, peer, seg)
    BY <1>11, <2>3 DEF Together, Acknowledges
  <2>7. Leaves(t)
    BY <1>9, <1>11, <2>2, <2>4, <2>5, <2>6 DEF Leaves, Situation, Together
  <2> QED
    BY <1>6, <1>8, <1>11, <2>7, Handled
<1> QED
  BY <1>10, <1>11

LEMMA ListenTogether ==
    ASSUME TypeOK, TimersRun, Together, listen, peer.opens, UNCHANGED peer
    PROVE  Together'
<1> DEFINE a == [socket EXCEPT !.opened = TRUE]
           t == setState(a, "LISTEN")
<1>1. Sound(socket) /\ ~socket.opened
  BY DEF TypeOK, TimersRun, Sound, listen
<1>2. Sound(a)
  BY <1>1 DEF Sound, SocketTypeOK, TimerRuns, Sockets
<1>3. Sound(t)
  BY <1>2, SetStateSound DEF Sound, State
<1>4. /\ t.written = socket.written /\ t.sequenceNumber = socket.sequenceNumber
      /\ t.sent = socket.sent /\ t.nextFlags = socket.nextFlags /\ t.opened
      /\ t.released = socket.released /\ t.fragments = socket.fragments /\ t.state = "LISTEN"
  BY <1>1 DEF setState, Sound, SocketTypeOK, Sockets
<1>5. Become({t})
  BY DEF listen
<1> HIDE DEF t
<1>6. CASE CutShort(peer)
  <2>1. socket.written <= t.written
    BY <1>1, <1>4, Fields
  <2> QED
    BY <1>3, <1>5, <1>6, <2>1, HandledLate
<1>7. CASE ~CutShort(peer)
  <2>1. Ready(socket, peer) /\ PeerSide(peer)
    BY <1>1, <1>7, Known
  <2>2. toPeer = {}
    BY <1>1, <1>7 DEF Together, Carried
  <2>3. peer.rcvd = 0 /\ peer.got = <<>> /\ ~peer.finRcvd
    BY <2>1 DEF Ready, PeerSide
  <2>4. Listening(t, peer)
    BY <1>4, <2>1, <2>3 DEF Listening, Shaking, Ready, Unused
  <2>5. \A seg \in toSocket : Acknowledges(t, peer, seg)
    BY <1>7, <2>3 DEF Together, Acknowledges
  <2>6. Leaves(t)
    BY <1>4, <1>7, <2>2, <2>4, <2>5 DEF Leaves, Situation, Together
  <2> QED
    BY <1>3, <1>5, <1>7, <2>6, Handled
<1> QED
  BY <1>6, <1>7

LEMMA ApplicationTogether ==
    ASSUME TypeOK, TimersRun, Together, applicationCall \/ applicationTerminate, UNCHANGED peer
    PROVE  Together'
<1>1. Sound(socket)
  BY DEF TypeOK, TimersRun, Sound
<1>2. CASE applicationCall
  <2>1. Become(Reactions(socket, "loop")) /\ socket.state \in Synced
    BY <1>2 DEF applicationCall, Synced
  <2>2. \A t \in Reactions(socket, "loop") : Follows(socket, t, peer)
    BY <1>1, ReactionsFollow
  <2>3. CASE CutShort(peer)
    BY <2>1, <2>2, <2>3, HandledLate DEF Follows, Grows
  <2>4. CASE ~CutShort(peer)
    <3>1. Fine(socket, peer) /\ socket.opened
      BY <2>1, <2>4, Known DEF Fine, InStep
    <3>2. \A t \in Reactions(socket, "loop") : Sound(t) /\ Leaves(t)
      BY <2>2, <2>4, <3>1, FineLeaves DEF Follows
    <3> QED
      BY <2>1, <2>4, <3>2, Handled
  <2> QED
    BY <2>3, <2>4
<1>3. CASE applicationTerminate
  <2>1. Sound(terminate(socket)) /\ Grows(socket, terminate(socket))
    BY <1>1, TerminateFollows DEF Follows
  <2>2. Become({terminate(socket)}) /\ socket.state # "CLOSED"
    BY <1>3 DEF applicationTerminate
  <2>3. CASE CutShort(peer)
    BY <2>1, <2>2, <2>3, HandledLate DEF Grows
  <2>4. CASE ~CutShort(peer)
    BY <2>1, <2>2, <2>4, TerminateLeaves, Handled
  <2> QED
    BY <2>3, <2>4
<1> QED
  BY <1>2, <1>3

LEMMA AckedFields ==
    ASSUME NEW s, Sound(s), NEW seg \in Segment
    PROVE  LET t == Acked(s, seg)
               n == bytesAck(s, seg)
           IN  /\ t.state = s.state /\ t.written = s.written /\ t.released = s.released
               /\ t.fragments = s.fragments /\ t.opened = s.opened /\ t.sent = s.sent
               /\ t.nextFlags = s.nextFlags
               /\ t.sequenceNumber = IF n > 0 THEN Plus(s.sequenceNumber, n) ELSE s.sequenceNumber
  BY DEF Acked, Sound, SocketTypeOK, Sockets

LEMMA AckedGrows ==
    ASSUME NEW s, Sound(s), NEW seg \in Segment
    PROVE  Grows(s, Acked(s, seg))
<1> DEFINE t == Acked(s, seg)
<1>1. /\ t.state = s.state /\ t.written = s.written /\ t.released = s.released
      /\ t.fragments = s.fragments
  BY AckedFields
<1>2. s.written \in Int /\ s.released \in Int
  BY Fields
<1> HIDE DEF t
<1> QED
  BY <1>1, <1>2 DEF Grows, Reached, Finished, t

LEMMA WindowedGrows ==
    ASSUME NEW s, Sound(s), NEW seq, NEW n \in Int, NEW t \in Windowed(s, seq, n)
    PROVE  Grows(s, t) /\ Sound(t)
<1> DEFINE p == [finRcvd |-> TRUE]
<1>1. p.finRcvd
  OBVIOUS
<1> HIDE DEF p
<1>2. PICK r \in ReleasedTo(s, n) : Follows(Released(s, r), t, p)
  BY <1>1, WindowedFollows
<1>3. Grows(s, Released(s, r)) /\ Sound(Released(s, r))
  BY ReleasedGrows, ReleasedSound
<1> QED
  BY <1>2, <1>3, GrowsTrans DEF Follows

(* In the handshake only the socket's SYN can be acknowledged.             *)
LEMMA HandshakeNumber ==
    ASSUME TypeOK, TimersRun, Together, ~CutShort(peer), Roomy, socket.state \in Opening,
           NEW seg \in toSocket, "RST" \notin seg.flags, "ACK" \in seg.flags
    PROVE  /\ bytesAck(socket, seg) = 1
           /\ Plus(socket.sequenceNumber, 1) = Plus(peer.irs, 1)
           /\ peer.rcvd > 0 /\ Shaking(socket, peer) /\ (peer.opens => Low(peer.irs))
<1>1. Acknowledges(socket, peer, seg) /\ peer.rcvd \in Nat /\ peer.irs \in Int /\ Sound(socket)
  BY Known DEF Together
<1>2. Shaking(socket, peer) /\ (peer.opens => Low(socket.sequenceNumber))
  BY Known DEF Situation, Ready, Over, Listening, Connecting, Accepting, Opening, Synced
<1>3. peer.rcvd > 0 /\ seg.flags # {"SYN"}
  BY <1>1 DEF Acknowledges
<1>4. peer.rcvd = 1
  BY <1>1, <1>2, <1>3 DEF Shaking
<1>5. peer.irs = socket.sequenceNumber
  BY <1>2, <1>4 DEF Shaking
<1>6. PICK k \in 1 .. peer.rcvd : seg.ack = Plus(peer.irs, k)
  BY <1>1, <1>3 DEF Acknowledges
<1>7. k = 1
  BY <1>4, <1>6
<1>8. socket.sequenceNumber = Plus(peer.irs, 0)
  <2>1. socket.sequenceNumber + 0 \in SeqNumber /\ socket.sequenceNumber \in Int
    BY <1>1, Fields
  <2>2. Plus(socket.sequenceNumber, 0) = socket.sequenceNumber + 0
    BY <2>1, PlusSmall
  <2> QED
    BY <1>5, <2>1, <2>2
<1>9. -HalfSeq < 1 - 0 /\ 1 - 0 < HalfSeq
  BY TCPNetworkAssumption DEF Roomy
<1>10. Signed(Plus(peer.irs, 1) - Plus(peer.irs, 0)) = 1 - 0
  BY <1>1, <1>9, Ahead
<1>11. bytesAck(socket, seg) = 1
  BY <1>6, <1>7, <1>8, <1>10 DEF bytesAck
<1> QED
  BY <1>2, <1>3, <1>5, <1>11

(* The socket that has just been established.                              *)
LEMMA EstablishedFine ==
    ASSUME TypeOK, TimersRun, Together, ~CutShort(peer), socket.state \in Opening,
           Shaking(socket, peer), peer.rcvd > 0, peer.opens => Low(peer.irs),
           NEW v, v.state = "ESTABLISHED", v.sequenceNumber = Plus(peer.irs, 1),
           v.written = socket.written, v.released = socket.released, v.opened = socket.opened,
           v.fragments = socket.fragments, v.sent = socket.sent, "FIN" \notin v.nextFlags
    PROVE  Fine(v, peer) /\ Grows(socket, v)
<1>1. v.written = 0 /\ v.released = 0 /\ v.fragments = {} /\ v.opened /\ v.sent = {}
  BY DEF Shaking, Unused, Together
<1>2. Got(peer) = 0
  BY DEF Shaking, Got
<1>3. Plus(peer.irs, v.released + 1) = v.sequenceNumber
  BY <1>1
<1>4. InStep(v, peer)
  BY <1>1, <1>2, <1>3 DEF InStep, Synced, Reached, Shaking
<1>5. ~Finished(socket)
  BY DEF Opening, Finished
<1>6. Grows(socket, v)
  BY <1>1, <1>5 DEF Grows, Reached, Opening
<1> QED
  BY <1>1, <1>4, <1>6 DEF Fine

LEMMA SynAckTogether ==
    ASSUME TypeOK, TimersRun, Together, Roomy, NEW seg \in toSocket, receiveSynAck(seg), UNCHANGED peer
    PROVE  Together'
<1>1. Sound(socket) /\ seg \in Segment
  BY DEF TypeOK, TimersRun, Sound
<1> DEFINE s == Acked(socket, seg)
           t == [s EXCEPT !.ackNumber = Plus(seg.seq, 1), !.nextFlags = @ \cup {"ACK"}]
           v == setState(t, "ESTABLISHED")
<1>2. Become(onConnect(v)) /\ socket.state \in Opening /\ socket.state = "SYN_SENT"
      /\ "RST" \notin seg.flags /\ "ACK" \in seg.flags
  BY DEF receiveSynAck, Opening
<1>3. Plus(seg.seq, 1) \in SeqNumber
  BY <1>1, PlusType DEF Segment, SeqNumber
<1>4. Sound(s)
  BY <1>1, AckedSound
<1>5. /\ s.state = socket.state /\ s.written = socket.written /\ s.released = socket.released
      /\ s.fragments = socket.fragments /\ s.opened = socket.opened /\ s.sent = socket.sent
      /\ s.nextFlags = socket.nextFlags
      /\ bytesAck(socket, seg) = 1 => s.sequenceNumber = Plus(socket.sequenceNumber, 1)
  BY <1>1, AckedFields
<1> HIDE DEF s
<1>6. Sound(t) /\ Alike(s, t) /\ t.sent = s.sent /\ ("FIN" \in t.nextFlags => "FIN" \in s.nextFlags)
  BY <1>3, <1>4 DEF Sound, SocketTypeOK, TimerRuns, Sockets, Flag, Alike
<1> HIDE DEF t
<1>7. Sound(v)
  BY <1>6, SetStateSound DEF Sound, State
<1>8. Alike(t, v) /\ v.sent = t.sent /\ v.nextFlags = t.nextFlags /\ v.state = "ESTABLISHED"
  BY <1>6 DEF setState, Alike, Sound, SocketTypeOK, Sockets
<1> HIDE DEF v
<1>9. \A u \in onConnect(v) : Follows(v, u, peer)
  BY <1>7, ReactionsFollow DEF onConnect
<1>10. v.written = socket.written /\ v.written \in Int
  BY <1>1, <1>5, <1>6, <1>8, Fields DEF Alike
<1>11. CASE CutShort(peer)
  BY <1>2, <1>9, <1>10, <1>11, HandledLate DEF Follows, Grows
<1>12. CASE ~CutShort(peer)
  <2>1. /\ bytesAck(socket, seg) = 1 /\ Plus(socket.sequenceNumber, 1) = Plus(peer.irs, 1)
        /\ peer.rcvd > 0 /\ Shaking(socket, peer) /\ (peer.opens => Low(peer.irs))
    BY <1>2, <1>12, HandshakeNumber
  <2>2. /\ v.sequenceNumber = Plus(peer.irs, 1) /\ v.written = socket.written
        /\ v.released = socket.released /\ v.opened = socket.opened
        /\ v.fragments = socket.fragments /\ v.sent = socket.sent /\ "FIN" \notin v.nextFlags
    BY <1>5, <1>6, <1>8, <1>12, <2>1 DEF Alike, Together
  <2>3. Fine(v, peer) /\ Grows(socket, v)
    BY <1>2, <1>8, <1>12, <2>1, <2>2, EstablishedFine
  <2>4. \A u \in onConnect(v) : Sound(u) /\ Fine(u, peer) /\ Grows(socket, u)
    BY <1>1, <1>7, <1>9, <2>3, GrowsTrans DEF Follows
  <2>5. socket.opened
    BY <2>1 DEF Shaking
  <2>6. \A u \in onConnect(v) : Sound(u) /\ Leaves(u)
    BY <1>12, <2>4, <2>5, FineLeaves
  <2> QED
    BY <1>2, <1>12, <2>6, Handled
<1> QED
  BY <1>11, <1>12

LEMMA HandshakeAckTogether ==
    ASSUME TypeOK, TimersRun, Together, Roomy, NEW seg \in toSocket, receiveHandshakeAck(seg),
           UNCHANGED peer
    PROVE  Together'
<1>1. Sound(socket) /\ seg \in Segment
  BY DEF TypeOK, TimersRun, Sound
<1> DEFINE s == Acked(socket, seg)
           v == setState(s, "ESTABLISHED")
           n == HandshakeBytes(bytesAck(socket, seg))
           T == UNION {Windowed(u, seg.seq, n) : u \in onConnect(v)}
<1>2. Become(T) /\ socket.state \in Opening /\ "RST" \notin seg.flags /\ "ACK" \in seg.flags
  BY DEF receiveHandshakeAck, Opening
<1>3. Sound(s) /\ bytesAck(socket, seg) \in Int
  BY <1>1, AckedSound
<1>4. /\ s.state = socket.state /\ s.written = socket.written /\ s.released = socket.released
      /\ s.fragments = socket.fragments /\ s.opened = socket.opened /\ s.sent = socket.sent
      /\ s.nextFlags = socket.nextFlags
      /\ bytesAck(socket, seg) = 1 => s.sequenceNumber = Plus(socket.sequenceNumber, 1)
  BY <1>1, AckedFields
<1>5. n \in Int /\ (bytesAck(socket, seg) = 1 => n = 0)
  BY <1>3 DEF HandshakeBytes
<1> HIDE DEF s, n
<1>6. Sound(v)
  BY <1>3, SetStateSound DEF Sound, State
<1>7. Alike(s, v) /\ v.sent = s.sent /\ v.nextFlags = s.nextFlags /\ v.state = "ESTABLISHED"
  BY <1>3 DEF setState, Alike, Sound, SocketTypeOK, Sockets
<1> HIDE DEF v
<1>8. \A u \in onConnect(v) : Follows(v, u, peer)
  BY <1>6, ReactionsFollow DEF onConnect
<1>9. \A t \in T : \E u \in onConnect(v) : t \in Windowed(u, seg.seq, n)
  OBVIOUS
<1> HIDE DEF T
<1>10. ASSUME NEW t \in T PROVE Sound(t) /\ Grows(v, t)
  <2>1. PICK u \in onConnect(v) : t \in Windowed(u, seg.seq, n)
    BY <1>9
  <2>2. Sound(u) /\ Grows(v, u)
    BY <1>8 DEF Follows
  <2>3. Grows(u, t) /\ Sound(t)
    BY <1>5, <2>1, <2>2, WindowedGrows
  <2> QED
    BY <1>6, <2>2, <2>3, GrowsTrans
<1>11. CASE CutShort(peer)
  <2>1. v.written = socket.written
    BY <1>4, <1>7 DEF Alike
  <2> QED
    BY <1>2, <1>10, <1>11, <2>1, HandledLate DEF Grows
<1>12. CASE ~CutShort(peer)
  <2>1. /\ bytesAck(socket, seg) = 1 /\ Plus(socket.sequenceNumber, 1) = Plus(peer.irs, 1)
        /\ peer.rcvd > 0 /\ Shaking(socket, peer) /\ (peer.opens => Low(peer.irs))
    BY <1>2, <1>12, HandshakeNumber
  <2>2. /\ v.sequenceNumber = Plus(peer.irs, 1) /\ v.written = socket.written
        /\ v.released = socket.released /\ v.opened = socket.opened
        /\ v.fragments = socket.fragments /\ v.sent = socket.sent /\ "FIN" \notin v.nextFlags
    BY <1>4, <1>7, <1>12, <2>1 DEF Alike, Together
  <2>3. Fine(v, peer) /\ Grows(socket, v)
    BY <1>2, <1>7, <1>12, <2>1, <2>2, EstablishedFine
  <2>4. ASSUME NEW t \in T PROVE Fine(t, peer)
    <3>1. PICK u \in onConnect(v) : t \in Windowed(u, seg.seq, n)
      BY <1>9
    <3>2. Sound(u) /\ Fine(u, peer) /\ n = 0
      BY <1>5, <1>8, <2>1, <2>3 DEF Follows
    <3>3. \A r \in ReleasedTo(u, n) : r = u.released
      BY <1>5, <3>2, NothingReleased
    <3>4. \A r \in ReleasedTo(u, n) : ~(n - (r - u.released) = 1)
      BY <3>2, <3>3, Fields
    <3>5. PICK r \in ReleasedTo(u, n) : Follows(Released(u, r), t, peer)
      BY <1>5, <3>1, <3>2, <3>4, WindowedFollows
    <3>6. Follows(u, Released(u, r), peer)
      <4> DEFINE w == Released(u, r)
      <4>1. Sound(w)
        BY <1>5, <3>2, ReleasedSound
      <4>2. /\ w.state = u.state /\ w.sent = u.sent /\ w.nextFlags = u.nextFlags
            /\ w.released = r /\ w.fragments = {e \in u.fragments : e > r}
            /\ w.written = u.written /\ w.opened = u.opened /\ w.sequenceNumber = u.sequenceNumber
        BY <3>2 DEF Released, Sound, SocketTypeOK, Sockets
      <4> HIDE DEF w
      <4>3. u.released \in Int /\ \A e \in u.fragments : e \in Int /\ e > u.released
        BY <3>2, Fields
      <4>4. {e \in u.fragments : e > r} = u.fragments
        BY <3>3, <4>3
      <4>5. Alike(u, w)
        BY <3>3, <4>2, <4>4 DEF Alike
      <4> QED
        BY <3>2, <4>1, <4>2, <4>5, AlikeFollows DEF w
    <3> QED
      BY <3>2, <3>5, <3>6 DEF Follows
  <2>5. socket.opened
    BY <2>1 DEF Shaking
  <2>6. \A t \in T : Sound(t) /\ Leaves(t)
    BY <1>1, <1>6, <1>10, <1>12, <2>3, <2>4, <2>5, FineLeaves, GrowsTrans
  <2> QED
    BY <1>2, <1>12, <2>6, Handled
<1> QED
  BY <1>11, <1>12

LEMMA ResetTogether ==
    ASSUME TypeOK, TimersRun, Together, NEW seg \in toSocket, receiveReset(seg), UNCHANGED peer
    PROVE  Together'
<1>1. Sound(socket)
  BY DEF TypeOK, TimersRun, Sound
<1>2. Sound(terminate(socket)) /\ Grows(socket, terminate(socket))
  BY <1>1, TerminateFollows DEF Follows
<1>3. Become({terminate(socket)}) /\ socket.state # "CLOSED"
  BY DEF receiveReset
<1>4. CASE CutShort(peer)
  BY <1>2, <1>3, <1>4, HandledLate DEF Grows
<1>5. CASE ~CutShort(peer)
  BY <1>2, <1>3, <1>5, TerminateLeaves, Handled
<1> QED
  BY <1>4, <1>5

(* The number of a SYN without an acknowledgement is used like any other:  *)
(* it takes an ISS of the upper half to zero, and leaves one that has room *)
(* above it.                                                               *)
LEMMA RequestNumber ==
    ASSUME TypeOK, TimersRun, Together, ~CutShort(peer), Roomy, Listening(socket, peer),
           NEW seg \in toSocket, "RST" \notin seg.flags
    PROVE  /\ seg.flags = {"SYN"}
           /\ Acked(socket, seg).sequenceNumber \in {0, ISS} /\ Low(Acked(socket, seg).sequenceNumber)
<1>1. /\ Acknowledges(socket, peer, seg) /\ PeerSide(peer) /\ seg \in Segment /\ Sound(socket)
      /\ peer.rcvd = 0 /\ peer.opens
  BY Known DEF Together, Listening
<1>2. seg.flags = {"SYN"} /\ seg.ack = 0
  BY <1>1 DEF Acknowledges
<1>3. TRUE \in PeerOpens
  BY <1>1, Known DEF PeerSide, Peers
<1>4. HalfSeq \in Nat /\ MaxData \in Nat /\ ISS \in SeqNumber /\ ISS \in Nat /\ MaxData + 2 < HalfSeq
  BY TCPNetworkAssumption, TCPSocketAssumption DEF SeqNumber, SeqMod, Roomy
<1> DEFINE a == Acked(socket, seg)
           n == bytesAck(socket, seg)
<1>5. a.sequenceNumber = IF n > 0 THEN Plus(socket.sequenceNumber, n) ELSE socket.sequenceNumber
  BY <1>1, AckedFields
<1>6. n = Signed(0 - socket.sequenceNumber)
  BY <1>2 DEF bytesAck
<1> HIDE DEF a, n
<1>7. Low(0)
  BY <1>4 DEF Low
<1>8. CASE socket.sequenceNumber = 0
  <2>1. ~(n > 0)
    BY <1>4, <1>6, <1>8, ZeroBehind
  <2> QED
    BY <1>2, <1>5, <1>7, <1>8, <2>1 DEF a
<1>9. CASE socket.sequenceNumber = ISS /\ Low(ISS)
  <2>1. 0 <= ISS /\ ISS <= HalfSeq /\ ISS \in Int
    BY <1>4, <1>9 DEF Low
  <2>2. ~(Signed(0 - ISS) > 0)
    BY <2>1, ZeroBehind
  <2> QED
    BY <1>2, <1>5, <1>6, <1>9, <2>2 DEF a
<1>10. CASE socket.sequenceNumber = ISS /\ ISS > HalfSeq
  <2>1. Signed(0 - ISS) > 0 /\ Plus(ISS, Signed(0 - ISS)) = 0
    BY <1>4, <1>10, ZeroAhead
  <2> QED
    BY <1>2, <1>5, <1>6, <1>7, <1>10, <2>1 DEF a
<1> QED
  BY <1>3, <1>8, <1>9, <1>10 DEF Roomy, Listening

LEMMA RequestTogether ==
    ASSUME TypeOK, TimersRun, Together, Roomy, NEW seg \in toSocket, receiveConnectRequest(seg),
           UNCHANGED peer
    PROVE  Together'
<1>1. Sound(socket) /\ seg \in Segment
  BY DEF TypeOK, TimersRun, Sound
<1> DEFINE a == Acked(socket, seg)
           b == [a EXCEPT !.ackNumber = Plus(seg.seq, 1)]
           c == sendSYN(b, {"ACK"})
           t == setState(c, "SYN_RECEIVED")
<1>2. Become({a, t}) /\ socket.state = "LISTEN" /\ "RST" \notin seg.flags
  BY DEF receiveConnectRequest, onConnectRequest
<1>3. Sound(a)
  BY <1>1, AckedSound
<1>4. /\ a.state = socket.state /\ a.written = socket.written /\ a.released = socket.released
      /\ a.fragments = socket.fragments /\ a.opened = socket.opened /\ a.sent = socket.sent
      /\ a.nextFlags = socket.nextFlags
  BY <1>1, AckedFields
<1>5. Plus(seg.seq, 1) \in SeqNumber
  BY <1>1, PlusType DEF Segment, SeqNumber
<1>6. ~CutShort(peer) => (Listening(socket, peer) => a.sequenceNumber \in {0, ISS} /\ Low(a.sequenceNumber))
  BY <1>2, RequestNumber
<1> HIDE DEF a
<1>7. Sound(b) /\ Alike(a, b) /\ b.sent = a.sent /\ b.nextFlags = a.nextFlags
  <2>1. Sound(b)
    BY <1>3, <1>5, SetAckSound
  <2> QED
    BY <1>3, <2>1 DEF Alike, Sound, SocketTypeOK, Sockets
<1> HIDE DEF b
<1>8. /\ Sound(c) /\ Alike(b, c) /\ c.nextFlags = b.nextFlags
      /\ c.sent = b.sent \cup {Frame(b, {"SYN"} \cup {"ACK"}, 0)}
  <2>1. {"ACK"} \in SUBSET Flag
    BY DEF Flag
  <2> QED
    BY <1>7, <2>1, SendSYNSound, SendSYNFields
<1> HIDE DEF c
<1>9. Sound(t) /\ Alike(c, t) /\ t.sent = c.sent /\ t.nextFlags = c.nextFlags /\ t.state = "SYN_RECEIVED"
  <2>1. Sound(t)
    BY <1>8, SetStateSound DEF Sound, State
  <2> QED
    BY <1>8, <2>1 DEF setState, Alike, Sound, SocketTypeOK, Sockets
<1> HIDE DEF t
<1>10. /\ t.written = socket.written /\ t.released = socket.released
       /\ t.fragments = socket.fragments /\ t.opened = socket.opened
       /\ t.nextFlags = socket.nextFlags
       /\ t.sequenceNumber = a.sequenceNumber /\ b.sequenceNumber = a.sequenceNumber
       /\ t.sent = socket.sent \cup {Frame(b, {"SYN"} \cup {"ACK"}, 0)}
  BY <1>4, <1>7, <1>8, <1>9 DEF Alike
<1>11. CASE CutShort(peer)
  <2>1. socket.written <= a.written /\ socket.written <= t.written
    BY <1>1, <1>4, <1>10, Fields
  <2> QED
    BY <1>2, <1>3, <1>9, <1>11, <2>1, HandledLate
<1>12. CASE ~CutShort(peer)
  <2>1. Listening(socket, peer)
    BY <1>2, <1>12, Known
       DEF Situation, Ready, Over, Connecting, Accepting, Synced
  <2>2. a.sequenceNumber \in {0, ISS} /\ Low(a.sequenceNumber)
    BY <1>6, <1>12, <2>1
  <2>3. toPeer = {}
    BY <1>2, <1>12 DEF Together, Carried
  <2>4. Listening(a, peer)
    BY <1>4, <2>1, <2>2 DEF Listening, Shaking, Unused
  <2>5. Accepting(t, peer)
    BY <1>9, <1>10, <2>1, <2>2 DEF Accepting, Listening, Shaking, Unused
  <2>6. Carried(t, peer, Frame(b, {"SYN"} \cup {"ACK"}, 0))
    <3>1. t.opened /\ t.state \in Opening /\ t.state # "SYN_SENT"
      BY <1>9, <2>5 DEF Accepting, Shaking, Opening
    <3>2. {"ACK"} \in SUBSET {"ACK"}
      OBVIOUS
    <3> QED
      BY <1>10, <3>1, <3>2, SYNCarried
  <2>7. \A seg2 \in toSocket : Acknowledges(a, peer, seg2) /\ Acknowledges(t, peer, seg2)
    BY <1>12, <2>1 DEF Together, Acknowledges, Listening
  <2>8. Leaves(a)
    BY <1>4, <1>12, <2>3, <2>4, <2>7 DEF Leaves, Situation, Together
  <2>9. Leaves(t)
    BY <1>10, <1>12, <2>3, <2>5, <2>6, <2>7 DEF Leaves, Situation, Together
  <2> QED
    BY <1>2, <1>3, <1>9, <1>12, <2>8, <2>9, Handled
<1> QED
  BY <1>11, <1>12

LEMMA WithoutAckTogether ==
    ASSUME TypeOK, TimersRun, Together, Roomy, NEW seg \in toSocket, receiveWithoutAck(seg),
           UNCHANGED peer
    PROVE  Together'
<1>1. Sound(socket) /\ seg \in Segment
  BY DEF TypeOK, TimersRun, Sound
<1> DEFINE a == Acked(socket, seg)
           n == bytesAck(socket, seg)
<1>2. Become({a}) /\ socket.state = "SYN_RECEIVED" /\ "RST" \notin seg.flags /\ "ACK" \notin seg.flags
  BY DEF receiveWithoutAck
<1>3. Sound(a)
  BY <1>1, AckedSound
<1>4. /\ a.state = socket.state /\ a.written = socket.written /\ a.released = socket.released
      /\ a.fragments = socket.fragments /\ a.opened = socket.opened /\ a.sent = socket.sent
      /\ a.nextFlags = socket.nextFlags
      /\ ~(n > 0) => a.sequenceNumber = socket.sequenceNumber
  BY <1>1, AckedFields
<1>5. n = Signed(seg.ack - socket.sequenceNumber)
  BY DEF bytesAck
<1> HIDE DEF a, n
<1>6. CASE CutShort(peer)
  <2>1. socket.written <= a.written
    BY <1>1, <1>4, Fields
  <2> QED
    BY <1>2, <1>3, <1>6, <2>1, HandledLate
<1>7. CASE ~CutShort(peer)
  <2>1. Accepting(socket, peer)
    BY <1>2, <1>7, Known DEF Situation, Ready, Over, Connecting, Listening, Synced
  <2>2. seg.ack = 0
    BY <1>2, <1>7 DEF Together, Acknowledges
  <2>3. /\ socket.sequenceNumber \in Int /\ 0 <= socket.sequenceNumber
        /\ socket.sequenceNumber <= HalfSeq
    BY <1>1, <2>1, Fields, TCPNetworkAssumption DEF Accepting, Low, SeqNumber, SeqMod
  <2>4. ~(n > 0)
    BY <1>5, <2>2, <2>3, ZeroBehind
  <2>5. Leaves(a)
    BY <1>4, <1>7, <2>4, SameLeaves DEF Alike, Together
  <2> QED
    BY <1>2, <1>3, <1>7, <2>5, Handled
<1> QED
  BY <1>6, <1>7

LEMMA SegmentTogether ==
    ASSUME TypeOK, TimersRun, Together, Roomy, NEW seg \in toSocket, receiveSegment(seg), UNCHANGED peer
    PROVE  Together'
<1>1. Sound(socket) /\ seg \in Segment
  BY DEF TypeOK, TimersRun, Sound
<1> DEFINE a == Acked(socket, seg)
           n == bytesAck(socket, seg)
           T == Windowed(a, seg.seq, n)
<1>2. /\ Become(T) /\ "RST" \notin seg.flags /\ socket.state \notin {"CLOSED", "SYN_RECEIVED"}
      /\ ~(socket.state = "SYN_SENT" /\ {"SYN", "ACK"} \subseteq seg.flags)
      /\ ~(socket.state = "LISTEN" /\ "SYN" \in seg.flags)
  BY DEF receiveSegment
<1>3. Sound(a) /\ n \in Int
  BY <1>1, AckedSound
<1>4. Grows(socket, a) /\ a.released = socket.released
  BY <1>1, AckedGrows, AckedFields
<1>5. \A t \in T : Sound(t) /\ Grows(socket, t)
  <2> HIDE DEF a, n
  <2>1. \A t \in T : Sound(t) /\ Grows(a, t)
    BY <1>3, WindowedGrows
  <2> QED
    BY <1>1, <1>3, <1>4, <2>1, GrowsTrans
<1>6. CASE CutShort(peer)
  <2> HIDE DEF T
  <2> QED
    BY <1>2, <1>5, <1>6, HandledLate DEF Grows
<1>7. CASE ~CutShort(peer)
  <2>1. Acknowledges(socket, peer, seg) /\ Situation(socket, peer)
    BY <1>7 DEF Together
  <2>2. socket.state # "LISTEN"
    BY <1>2, <2>1 DEF Acknowledges, Situation, Ready, Over, Listening, Connecting, Accepting, Synced
  <2>3. socket.state # "SYN_SENT"
    <3> SUFFICES ASSUME socket.state = "SYN_SENT" PROVE FALSE
      OBVIOUS
    <3>1. Connecting(socket, peer)
      BY <2>1 DEF Situation, Ready, Over, Listening, Accepting, Synced
    <3>2. "ACK" \in seg.flags /\ "SYN" \notin seg.flags
      BY <1>2, <2>1, <3>1 DEF Acknowledges, Connecting
    <3>3. peer.una > 0 /\ peer.una = 0
      BY <1>2, <2>1, <3>1, <3>2 DEF Acknowledges, Connecting
    <3> QED
      BY <3>3
  <2>4. socket.state \in Synced
    BY <1>1, <1>2, <2>2, <2>3, Fields DEF State, Synced
  <2>5. Fine(socket, peer) /\ peer \in Peers /\ PeerSide(peer) /\ socket.opened
    BY <1>7, <2>4, Known DEF Fine, InStep
  <2>6. ASSUME NEW r \in ReleasedTo(a, n)
        PROVE  Fine(Released(a, r), peer) /\ (n - (r - socket.released) = 1 => peer.finRcvd)
    BY <1>1, <1>2, <2>1, <2>4, <2>5, Settled
  <2>7. ASSUME NEW t \in T PROVE Fine(t, peer)
    <3> HIDE DEF a, n
    <3>1. \A r \in ReleasedTo(a, n) : n - (r - a.released) = 1 => peer.finRcvd
      BY <1>4, <2>6
    <3>2. PICK r \in ReleasedTo(a, n) : Follows(Released(a, r), t, peer)
      BY <1>3, <3>1, WindowedFollows
    <3> QED
      BY <2>6, <3>2 DEF Follows
  <2> HIDE DEF T
  <2>8. \A t \in T : Sound(t) /\ Leaves(t)
    BY <1>5, <1>7, <2>5, <2>7, FineLeaves
  <2> QED
    BY <1>2, <1>7, <2>8, Handled
<1> QED
  BY <1>6, <1>7

LEMMA SocketTogether ==
    ASSUME TypeOK, TimersRun, Together, Roomy, SocketNext, UNCHANGED peer
    PROVE  Together'
<1>1. ASSUME NEW seg \in toSocket, onPacketReceived(seg)
      PROVE  Together'
  BY <1>1, ResetTogether, SynAckTogether, RequestTogether, WithoutAckTogether,
     HandshakeAckTogether, SegmentTogether DEF onPacketReceived
<1> QED
  BY <1>1, ConnectTogether, ListenTogether, ApplicationTogether, TickTogether DEF SocketNext

-----------------------------------------------------------------------------
(* The peer's steps and the network's *)

(* What the peer acknowledges is the end of a fragment or the FIN.         *)
LEMMA PeerAckKnown ==
    ASSUME TypeOK, TimersRun, Together, ~CutShort(peer), peer.rcvd > 0
    PROVE  /\ peer.rcvd \in 1 .. peer.rcvd /\ PeerAck = Plus(peer.irs, peer.rcvd)
           /\ \/ Reached(socket, peer.rcvd - 1)
              \/ peer.finRcvd /\ peer.rcvd = socket.written + 2
<1>1. /\ PeerSide(peer) /\ Situation(socket, peer) /\ Got(peer) \in Nat /\ peer.rcvd \in Nat
      /\ Sound(socket)
  BY Known
<1>2. CASE socket.state \in Opening
  <2>1. Shaking(socket, peer)
    BY <1>1, <1>2 DEF Situation, Ready, Over, Listening, Connecting, Accepting, Opening, Synced
  <2>2. peer.rcvd - 1 = 0 /\ socket.released = 0
    BY <1>1, <2>1 DEF Shaking, Unused
  <2> QED
    BY <1>1, <2>2 DEF Reached, PeerAck
<1>3. CASE socket.state \notin Opening
  <2>1. ~Ready(socket, peer) /\ ~Listening(socket, peer)
    BY DEF Ready, Listening
  <2>2. Reached(socket, Got(peer)) /\ (peer.finRcvd => Got(peer) = socket.written)
    BY <1>1, <1>3, <2>1
       DEF Situation, Over, Connecting, Accepting, Opening, InStep, Reached
  <2>3. peer.rcvd = 1 + Got(peer) + IF peer.finRcvd THEN 1 ELSE 0
    BY <1>1 DEF PeerSide
  <2>4. CASE peer.finRcvd
    BY <1>1, <2>2, <2>3, <2>4, Fields DEF PeerAck
  <2>5. CASE ~peer.finRcvd
    <3>1. peer.rcvd - 1 = Got(peer)
      BY <1>1, <2>3, <2>5
    <3> QED
      BY <1>1, <2>2, <3>1 DEF PeerAck
  <2> QED
    BY <2>4, <2>5
<1> QED
  BY <1>2, <1>3

\* The peer has changed nothing but what it has sent, or been told.
Unmoved(p, q) ==
    /\ q.opens = p.opens /\ q.irs = p.irs /\ q.rcvd = p.rcvd
    /\ q.got = p.got /\ q.finRcvd = p.finRcvd

LEMMA UnmovedTogether ==
    ASSUME TypeOK, TimersRun, Together, UNCHANGED socket, toPeer' = toPeer, Unmoved(peer, peer'),
           peer.una \in Nat, peer'.una \in Nat, peer'.una >= peer.una,
           peer'.una # peer.una => peer.rcvd > 0,
           ~CutShort(peer) /\ peer'.una # peer.una => socket.state # "SYN_SENT",
           NEW seg, toSocket' \subseteq toSocket \cup {seg},
           ~CutShort(peer) => Acknowledges(socket, peer, seg) \/ toSocket' \subseteq toSocket
    PROVE  Together'
<1> DEFINE q == peer'
<1>1. PeerSide(q) /\ Got(q) = Got(peer) /\ CutShort(q) = CutShort(peer)
  <2>1. Got(q) = Got(peer) /\ CutShort(q) = CutShort(peer)
    BY DEF Got, Unmoved, CutShort
  <2>2. PeerSide(peer) /\ q.rcvd = peer.rcvd /\ q.finRcvd = peer.finRcvd /\ q.got = peer.got
        /\ q.opens = peer.opens
    BY DEF Together, Unmoved
  <2>3. peer.rcvd = 0 => q.una = peer.una
    OBVIOUS
  <2> HIDE DEF q
  <2> QED
    BY <2>1, <2>2, <2>3 DEF PeerSide
<1>2. ASSUME ~CutShort(peer)
      PROVE  /\ Situation(socket, q)
             /\ \A sent \in toPeer : Carried(socket, q, sent)
             /\ \A sent \in toSocket' : Acknowledges(socket, q, sent)
  <2>1. Situation(socket, peer)
    BY <1>2 DEF Together
  <2>2. InStep(socket, peer) => InStep(socket, q)
    BY <1>1 DEF InStep, Unmoved
  <2>3. Shaking(socket, peer) => Shaking(socket, q)
    BY DEF Shaking, Unmoved
  <2>4. Connecting(socket, peer) => Connecting(socket, q)
    BY <1>2, <2>3 DEF Connecting, Unmoved
  <2>5. Situation(socket, q)
    BY <1>1, <2>1, <2>2, <2>3, <2>4
       DEF Situation, Ready, Over, Listening, Accepting, Unmoved
  <2>6. \A sent : Carried(socket, peer, sent) => Carried(socket, q, sent)
    BY <1>1 DEF Carried, Unmoved
  <2>7. \A sent : Acknowledges(socket, peer, sent) => Acknowledges(socket, q, sent)
    BY DEF Acknowledges, Unmoved
  <2> QED
    BY <1>2, <2>5, <2>6, <2>7 DEF Together
<1> QED
  BY <1>1, <1>2 DEF Together

LEMMA SendTogether ==
    ASSUME TypeOK, TimersRun, Together, UNCHANGED socket, NEW seg, PeerSends(seg),
           Unmoved(peer, peer'), peer'.una = peer.una,
           ~CutShort(peer) => Acknowledges(socket, peer, seg)
    PROVE  Together'
<1>1. toPeer' = toPeer /\ toSocket' \subseteq toSocket \cup {seg}
  BY DEF PeerSends, Sent
<1>2. peer.una \in Nat
  BY TCPPeerAssumption, TCPNetworkAssumption DEF TypeOK, Peers, FinUnit
<1> QED
  BY <1>1, <1>2, UnmovedTogether

(* All that the peer sends is about what it has received.                  *)
LEMMA PeerSendsTogether ==
    ASSUME TypeOK, TimersRun, Together, UNCHANGED socket,
           \/ peerConnect \/ peerAccept \/ peerAcknowledge \/ peerReset
           \/ \E first \in 1 .. FinUnit, n \in 0 .. PeerData, fin \in BOOLEAN : peerSend(first, n, fin)
    PROVE  Together'
<1>1. \A nxt : Unmoved(peer, [peer EXCEPT !.nxt = nxt]) /\ [peer EXCEPT !.nxt = nxt].una = peer.una
  BY DEF Unmoved, TypeOK, Peers
<1>2. \A aborted : Unmoved(peer, [peer EXCEPT !.aborted = aborted])
                   /\ [peer EXCEPT !.aborted = aborted].una = peer.una
  BY DEF Unmoved, TypeOK, Peers
<1>3. CASE peerConnect
  <2> DEFINE seg == [flags |-> {"SYN"}, seq |-> PeerSeq(0), ack |-> 0, from |-> 1, len |-> 0]
  <2>1. Acknowledges(socket, peer, seg)
    BY <1>3 DEF Acknowledges, peerConnect
  <2>2. PeerSends(seg) /\ peer' = [peer EXCEPT !.nxt = 1]
    BY <1>3 DEF peerConnect
  <2> HIDE DEF seg
  <2> QED
    BY <1>1, <2>1, <2>2, SendTogether
<1>4. CASE peerAccept
  <2> DEFINE seg == [flags |-> {"SYN", "ACK"}, seq |-> PeerSeq(0), ack |-> PeerAck,
                     from |-> 1, len |-> 0]
  <2>1. /\ "ACK" \in seg.flags /\ "SYN" \in seg.flags /\ seg.ack = PeerAck
        /\ PeerSends(seg) /\ peer' = [peer EXCEPT !.nxt = 1] /\ ~peer.opens /\ peer.rcvd > 0
    BY <1>4 DEF peerAccept
  <2> HIDE DEF seg
  <2>2. ~CutShort(peer) => Acknowledges(socket, peer, seg)
    BY <2>1, PeerAckKnown DEF Acknowledges
  <2> QED
    BY <1>1, <2>1, <2>2, SendTogether
<1>5. ASSUME NEW first \in 1 .. FinUnit, NEW n \in 0 .. PeerData, NEW fin \in BOOLEAN,
             peerSend(first, n, fin)
      PROVE  Together'
  <2> DEFINE seg == [flags |-> {"ACK"} \cup (IF fin THEN {"FIN"} ELSE {}),
                     seq |-> PeerSeq(first), ack |-> PeerAck, from |-> first, len |-> n]
             end == first + n + IF fin THEN 1 ELSE 0
  <2>1. /\ "ACK" \in seg.flags /\ "SYN" \notin seg.flags /\ seg.ack = PeerAck
        /\ PeerSends(seg) /\ peer.una > 0 /\ peer.rcvd > 0
        /\ \E nxt : peer' = [peer EXCEPT !.nxt = nxt]
    <3>1. peer' = [peer EXCEPT !.nxt = IF end > peer.nxt THEN end ELSE peer.nxt]
      BY <1>5 DEF peerSend, TypeOK, Peers
    <3> HIDE DEF end
    <3> QED
      BY <1>5, <3>1 DEF peerSend
  <2> HIDE DEF seg
  <2>2. ~CutShort(peer) => Acknowledges(socket, peer, seg)
    BY <2>1, PeerAckKnown DEF Acknowledges
  <2> QED
    BY <1>1, <2>1, <2>2, SendTogether
<1>6. CASE peerAcknowledge
  <2> DEFINE seg == [flags |-> {"ACK"}, seq |-> PeerSeq(peer.nxt), ack |-> PeerAck,
                     from |-> 1, len |-> 0]
  <2>1. /\ "ACK" \in seg.flags /\ "SYN" \notin seg.flags /\ seg.ack = PeerAck
        /\ PeerSends(seg) /\ peer.una > 0 /\ peer.rcvd > 0 /\ peer' = peer
    BY <1>6 DEF peerAcknowledge
  <2> HIDE DEF seg
  <2>2. ~CutShort(peer) => Acknowledges(socket, peer, seg)
    BY <2>1, PeerAckKnown DEF Acknowledges
  <2>3. Unmoved(peer, peer') /\ peer'.una = peer.una
    BY <2>1 DEF Unmoved
  <2> QED
    BY <2>1, <2>2, <2>3, SendTogether
<1>7. CASE peerReset
  <2> DEFINE seg == [flags |-> {"RST"}, seq |-> PeerSeq(peer.nxt), ack |-> 0, from |-> 1, len |-> 0]
  <2>1. Acknowledges(socket, peer, seg)
    BY DEF Acknowledges
  <2>2. PeerSends(seg) /\ peer' = [peer EXCEPT !.aborted = TRUE]
    BY <1>7 DEF peerReset
  <2> HIDE DEF seg
  <2> QED
    BY <1>2, <2>1, <2>2, SendTogether
<1> QED
  BY <1>3, <1>4, <1>5, <1>6, <1>7

LEMMA ReceiveSynTogether ==
    ASSUME TypeOK, TimersRun, Together, UNCHANGED socket, NEW seg \in toPeer, peerReceiveSyn(seg)
    PROVE  Together'
<1>1. PICK u \in Unacknowledged(seg) : peer' = [peer EXCEPT !.irs = seg.seq, !.rcvd = 1, !.una = u]
  BY DEF peerReceiveSyn
<1>2. /\ peer.rcvd = 0 /\ "SYN" \in seg.flags /\ toPeer' = toPeer /\ toSocket' = toSocket
      /\ "ACK" \notin seg.flags => u = peer.una
  BY <1>1 DEF peerReceiveSyn, Unacknowledged
<1> DEFINE q == peer'
<1>3. /\ q.irs = seg.seq /\ q.rcvd = 1 /\ q.una = u /\ q.opens = peer.opens /\ q.got = peer.got
      /\ q.finRcvd = peer.finRcvd
  BY <1>1 DEF TypeOK, Peers
<1>4. PeerSide(peer) /\ peer.got = <<>> /\ ~peer.finRcvd /\ peer.una = 0
  BY <1>2 DEF Together, PeerSide
<1> HIDE DEF q
<1>5. Got(q) = 0 /\ Got(peer) = 0
  BY <1>3, <1>4 DEF Got
<1>6. PeerSide(q) /\ ~CutShort(q) /\ ~CutShort(peer)
  BY <1>3, <1>4, <1>5 DEF PeerSide, CutShort
<1>7. Carried(socket, peer, seg) /\ Situation(socket, peer)
  BY <1>6 DEF Together
<1>8. socket.state \in Opening => seg.seq = socket.sequenceNumber
  BY <1>2, <1>7 DEF Carried
<1>9. Situation(socket, q)
  <2>1. CASE Over(socket, peer)
    BY <1>3, <1>5, <2>1 DEF Over, Situation
  <2>2. CASE Connecting(socket, peer)
    <3>1. u = 0
      BY <1>2, <1>4, <1>7, <2>2 DEF Carried, Connecting
    <3> QED
      BY <1>3, <1>8, <2>2, <3>1 DEF Connecting, Shaking, Opening, Situation
  <2>3. CASE Accepting(socket, peer)
    BY <1>3, <1>8, <2>3 DEF Accepting, Shaking, Opening, Situation
  <2> QED
    BY <1>2, <1>7, <2>1, <2>2, <2>3 DEF Situation, Ready, Listening, InStep, Carried
<1>10. \A sent \in toPeer : Carried(socket, q, sent)
  BY <1>2, <1>6 DEF Together, Carried
<1>11. \A sent \in toSocket : Acknowledges(socket, q, sent)
  BY <1>2, <1>3, <1>6 DEF Together, Acknowledges
<1> QED
  BY <1>2, <1>5, <1>6, <1>9, <1>10, <1>11 DEF Together, q

LEMMA Appended ==
    ASSUME NEW a \in Seq(Nat), NEW b \in Seq(Nat)
    PROVE  /\ a \o b \in Seq(Nat) /\ Len(a) \in Nat /\ Len(b) \in Nat /\ Len(a \o b) = Len(a) + Len(b)
           /\ \A k \in 1 .. Len(a) : (a \o b)[k] = a[k]
           /\ \A k \in 1 .. Len(b) : (a \o b)[Len(a) + k] = b[k]
  OBVIOUS

LEMMA BytesAreSequence ==
    ASSUME NEW n \in Nat, NEW bytes \in [1 .. n -> Nat]
    PROVE  bytes \in Seq(Nat) /\ Len(bytes) = n
  OBVIOUS

LEMMA InOrderAppended ==
    ASSUME NEW got \in Seq(Nat), InOrder(got), NEW n \in Nat, NEW bytes \in [1 .. n -> Nat],
           \A j \in 1 .. n : bytes[j] = Len(got) + j
    PROVE  InOrder(got \o bytes) /\ Len(got \o bytes) = Len(got) + n
<1>1. bytes \in Seq(Nat) /\ Len(bytes) = n /\ Len(got) \in Nat
  BY BytesAreSequence
<1>2. /\ Len(got \o bytes) = Len(got) + n
      /\ \A k \in 1 .. Len(got) : (got \o bytes)[k] = got[k]
      /\ \A k \in 1 .. n : (got \o bytes)[Len(got) + k] = bytes[k]
  BY <1>1, Appended
<1>3. ASSUME NEW k \in 1 .. Len(got) + n
      PROVE  (got \o bytes)[k] = k
  <2>1. CASE k <= Len(got)
    <3>1. k \in 1 .. Len(got) /\ (got \o bytes)[k] = got[k]
      BY <1>1, <1>2, <2>1
    <3> QED
      BY <3>1 DEF InOrder
  <2>2. CASE k > Len(got)
    <3>1. k - Len(got) \in 1 .. n /\ k = Len(got) + (k - Len(got))
      BY <1>1, <2>2
    <3>2. bytes[k - Len(got)] = Len(got) + (k - Len(got))
      BY <3>1
    <3>3. (got \o bytes)[Len(got) + (k - Len(got))] = bytes[k - Len(got)]
      BY <1>2, <3>1
    <3> QED
      BY <3>1, <3>2, <3>3
  <2> QED
    BY <1>1, <2>1, <2>2
<1> QED
  BY <1>2, <1>3 DEF InOrder

(* The peer takes what is new of a segment: with all it has now, it is     *)
(* again at the end of a fragment.                                         *)
LEMMA ReceiveTogether ==
    ASSUME TypeOK, TimersRun, Together, Roomy, UNCHANGED socket, NEW seg \in toPeer, peerReceive(seg)
    PROVE  Together'
<1> DEFINE skip == (PeerAck - seg.seq) % SeqMod
           new == seg.len - skip
           fin == "FIN" \in seg.flags
           q == peer'
<1>1. PICK u \in Unacknowledged(seg) :
        \/ /\ skip <= seg.len /\ ~peer.finRcvd
           /\ peer' = [peer EXCEPT !.una = u,
                                   !.got = @ \o Bytes(seg, skip, new),
                                   !.finRcvd = fin,
                                   !.rcvd = @ + new + IF fin THEN 1 ELSE 0]
        \/ peer' = [peer EXCEPT !.una = u]
  <2>1. PICK u \in Unacknowledged(seg) :
        \/ /\ skip <= seg.len /\ ~peer.finRcvd
           /\ \E k \in {new} :
                peer' = [peer EXCEPT !.una = u,
                                     !.got = @ \o Bytes(seg, skip, k),
                                     !.finRcvd = (fin /\ k = new),
                                     !.rcvd = @ + k + IF fin /\ k = new THEN 1 ELSE 0]
        \/ peer' = [peer EXCEPT !.una = u]
    BY DEF peerReceive, Roomy
  <2>2. (fin /\ new = new) = fin
    OBVIOUS
  <2> HIDE DEF skip, new, fin
  <2> QED
    BY <2>1, <2>2
<1>2. /\ peer.rcvd > 0 /\ "SYN" \notin seg.flags /\ toPeer' = toPeer /\ toSocket' = toSocket
      /\ seg \in Segment /\ peer \in Peers /\ Sound(socket)
  BY DEF peerReceive, TypeOK, TimersRun, Sound
<1>3. peer.una \in Nat /\ u \in Nat /\ u >= peer.una
  BY <1>2, TCPPeerAssumption, TCPNetworkAssumption DEF Unacknowledged, Peers, FinUnit
<1>4. ~CutShort(peer) => socket.state \notin Opening
  BY <1>2 DEF Together, Carried
<1>5. CASE peer' = [peer EXCEPT !.una = u]
  <2>1. Unmoved(peer, peer') /\ peer'.una = u
    BY <1>2, <1>5 DEF Unmoved, Peers
  <2>2. socket.state = "SYN_SENT" => socket.state \in Opening
    BY DEF Opening
  <2> QED
    BY <1>2, <1>3, <1>4, <2>1, <2>2, UnmovedTogether
<1>6. CASE /\ skip <= seg.len /\ ~peer.finRcvd
           /\ peer' = [peer EXCEPT !.una = u,
                                   !.got = @ \o Bytes(seg, skip, new),
                                   !.finRcvd = fin,
                                   !.rcvd = @ + new + IF fin THEN 1 ELSE 0]
  <2>1. ~CutShort(peer) /\ PeerSide(peer) /\ Got(peer) \in Nat
    BY <1>2, <1>6, Known DEF CutShort, Together, Peers, Got
  <2>2. /\ seg.seq = Plus(peer.irs, seg.from) /\ seg.from <= Got(peer) + 1
        /\ seg.from + seg.len - 1 <= socket.written
        /\ Reached(socket, seg.from + seg.len - 1)
        /\ fin /\ MaxData <= TxRoom => seg.from + seg.len - 1 = socket.written /\ Finished(socket)
    BY <1>2, <1>6, <2>1 DEF Together, Carried
  <2>3. /\ seg.from \in Nat /\ seg.len \in Nat /\ seg.from >= 1 /\ seg.len <= MaxData
        /\ MaxData \in Nat /\ HalfSeq \in Nat /\ peer.irs \in Int /\ peer.rcvd \in Nat
        /\ socket.written \in Nat /\ socket.written <= MaxData /\ TxRoom \in Nat
    BY <1>2, Fields, TCPNetworkAssumption, TCPSocketAssumption DEF Segment, Peers, SeqNumber, SeqMod
  <2>4. peer.rcvd = Got(peer) + 1
    BY <1>2, <1>6, <2>1 DEF PeerSide
  <2>5. skip = (Got(peer) + 1) - seg.from
    <3>1. /\ -HalfSeq < (Got(peer) + 1) - seg.from /\ (Got(peer) + 1) - seg.from < HalfSeq
          /\ seg.from <= Got(peer) + 1 /\ Got(peer) + 1 \in Int /\ seg.from \in Int
      BY <2>1, <2>2, <2>3 DEF Together, Roomy
    <3>2. PeerAck = Plus(peer.irs, Got(peer) + 1) /\ seg.seq = Plus(peer.irs, seg.from)
      BY <2>2, <2>4 DEF PeerAck
    <3> QED
      BY <2>3, <3>1, <3>2, AheadBy
  <2> HIDE DEF skip
  <2>6. new \in Nat /\ skip \in Nat /\ Got(peer) + new = seg.from + seg.len - 1
    BY <1>6, <2>1, <2>2, <2>3, <2>5
  <2> HIDE DEF new, fin
  <2>7. /\ q.opens = peer.opens /\ q.irs = peer.irs /\ q.una = u
        /\ q.rcvd = peer.rcvd + new + (IF fin THEN 1 ELSE 0)
        /\ q.got = peer.got \o Bytes(seg, skip, new) /\ q.finRcvd = fin
    BY <1>2, <1>6 DEF Peers
  <2> HIDE DEF q
  <2>8. InOrder(q.got) /\ Got(q) = Got(peer) + new
    <3>1. Bytes(seg, skip, new) \in [1 .. new -> Nat]
      BY <2>3, <2>6 DEF Bytes
    <3>2. \A j \in 1 .. new : Bytes(seg, skip, new)[j] = Len(peer.got) + j
      BY <2>1, <2>3, <2>5 DEF Bytes, Got
    <3>3. peer.got \in Seq(Nat) /\ InOrder(peer.got)
      BY <1>2, <2>1 DEF Peers, PeerSide
    <3>4. /\ InOrder(peer.got \o Bytes(seg, skip, new))
          /\ Len(peer.got \o Bytes(seg, skip, new)) = Len(peer.got) + new
      <4> DEFINE bytes == Bytes(seg, skip, new)
      <4>1. bytes \in [1 .. new -> Nat] /\ \A j \in 1 .. new : bytes[j] = Len(peer.got) + j
        BY <3>1, <3>2
      <4>2. new \in Nat
        BY <2>6
      <4> HIDE DEF bytes
      <4>3. InOrder(peer.got \o bytes) /\ Len(peer.got \o bytes) = Len(peer.got) + new
        BY <3>3, <4>1, <4>2, InOrderAppended, Zenon
      <4> QED
        BY <4>3 DEF bytes
    <3> QED
      BY <2>7, <3>4 DEF Got
  <2>9. PeerSide(q)
    <3>1. q.rcvd > 0 /\ q.rcvd = 1 + Got(q) + IF q.finRcvd THEN 1 ELSE 0
      BY <2>1, <2>4, <2>6, <2>7, <2>8
    <3> QED
      BY <2>1, <2>7, <2>8, <3>1 DEF PeerSide
  <2>10. /\ Got(q) <= socket.written /\ Got(q) \in Nat /\ Got(peer) <= Got(q) /\ Reached(socket, Got(q))
         /\ q.rcvd \in Nat /\ q.rcvd > 0 /\ peer.rcvd \in Nat /\ peer.rcvd <= q.rcvd
    <3>1. q.rcvd \in Nat /\ q.rcvd > 0 /\ peer.rcvd \in Nat /\ peer.rcvd <= q.rcvd
      <4>1. PICK r, g, x : r = peer.rcvd /\ g = Got(peer) /\ x = IF fin THEN 1 ELSE 0
        OBVIOUS
      <4>2. r \in Nat /\ g \in Nat /\ new \in Nat /\ x \in 0 .. 1 /\ r = g + 1
        BY <2>1, <2>4, <2>6, <4>1
      <4>3. q.rcvd = r + new + x
        BY <2>7, <4>1
      <4> QED
        BY <4>1, <4>2, <4>3
    <3> QED
      BY <2>1, <2>2, <2>6, <2>8, <3>1
  <2>11. ASSUME ~CutShort(q)
         PROVE  /\ Situation(socket, q)
                /\ \A sent \in toPeer : Carried(socket, q, sent)
                /\ \A sent \in toSocket : Acknowledges(socket, q, sent)
    <3>1. fin => Got(q) = socket.written /\ Finished(socket)
      BY <2>2, <2>3, <2>6, <2>7, <2>8, <2>11 DEF CutShort
    <3>2. ASSUME Over(socket, peer) PROVE Situation(socket, q)
      <4>1. socket.released <= Got(q)
        BY <1>2, <2>1, <2>10, <3>2, Fields DEF Over
      <4>2. Over(socket, q)
        BY <2>7, <2>10, <3>1, <3>2, <4>1 DEF Over
      <4> QED
        BY <4>2 DEF Situation
    <3>3. ASSUME socket.state \in Synced, InStep(socket, peer) PROVE Situation(socket, q)
      <4>1. Got(q) \in socket.released .. socket.written
        BY <1>2, <2>1, <2>10, <3>3, Fields DEF InStep
      <4>2. q.rcvd > 0
        BY <2>10
      <4>3. InStep(socket, q)
        BY <1>6, <2>7, <2>10, <3>1, <3>3, <4>1, <4>2 DEF InStep
      <4> QED
        BY <3>3, <4>3 DEF Situation
    <3>4. Situation(socket, q)
      <4>1. Situation(socket, peer) /\ Carried(socket, peer, seg)
        BY <2>1 DEF Together
      <4> QED
        BY <1>2, <1>4, <2>1, <3>2, <3>3, <4>1
           DEF Situation, Ready, Listening, Connecting, Accepting, Opening, Carried
    <3>5. \A sent \in toPeer : Carried(socket, q, sent)
      <4> SUFFICES ASSUME NEW sent \in toPeer PROVE Carried(socket, q, sent)
        OBVIOUS
      <4>1. Carried(socket, peer, sent) /\ sent.from \in Nat
        BY <1>2, <2>1, TCPNetworkAssumption DEF Together, TypeOK, Segment
      <4>2. q.rcvd > 0
        BY <2>10
      <4>3. sent.from <= Got(peer) + 1 => sent.from <= Got(q) + 1
        BY <2>1, <2>10, <4>1
      <4> QED
        BY <1>6, <2>7, <4>1, <4>2, <4>3 DEF Carried
    <3>6. \A sent \in toSocket : Acknowledges(socket, q, sent)
      <4> SUFFICES ASSUME NEW sent \in toSocket PROVE Acknowledges(socket, q, sent)
        OBVIOUS
      <4>1. Acknowledges(socket, peer, sent)
        BY <2>1 DEF Together
      <4>2. q.rcvd > 0 /\ \A k \in 1 .. peer.rcvd : k \in 1 .. q.rcvd
        BY <2>10
      <4>3. peer.una > 0 => q.una > 0
        BY <1>3, <2>7
      <4> QED
        BY <1>6, <2>7, <4>1, <4>2, <4>3 DEF Acknowledges
    <3> QED
      BY <3>4, <3>5, <3>6
  <2> QED
    BY <1>2, <2>1, <2>9, <2>10, <2>11 DEF Together, q
<1> QED
  BY <1>1, <1>5, <1>6

LEMMA PeerTogether ==
    ASSUME TypeOK, TimersRun, Together, Roomy, PeerNext, UNCHANGED socket
    PROVE  Together'
  BY PeerSendsTogether, ReceiveSynTogether, ReceiveTogether DEF PeerNext

LEMMA TogetherInit == Init => Together
<1> SUFFICES ASSUME Init PROVE Together
  OBVIOUS
<1>1. /\ socket = Fresh /\ toPeer = {} /\ toSocket = {}
      /\ peer.opens \in PeerOpens /\ peer.rcvd = 0 /\ peer.got = <<>> /\ ~peer.finRcvd
      /\ peer.una = 0
  BY DEF Init, SocketInit, PeerInit, NetworkInit
<1>2. Got(peer) = 0
  BY <1>1 DEF Got
<1>3. PeerSide(peer)
  BY <1>1 DEF PeerSide, InOrder
<1>4. Ready(socket, peer)
  BY <1>1 DEF Fresh, Ready, Unused
<1> QED
  BY <1>1, <1>2, <1>3, <1>4 DEF Fresh, Together, Situation

LEMMA TogetherStep ==
    ASSUME Roomy, TypeOK, TimersRun, Together, [Next]_vars
    PROVE  Together'
<1>1. CASE SocketNext /\ UNCHANGED peer
  BY <1>1, SocketTogether
<1>2. CASE PeerNext /\ UNCHANGED socket
  BY <1>2, PeerTogether
<1>3. CASE Lose /\ UNCHANGED <<socket, peer>>
  <2>1. toPeer' \subseteq toPeer /\ toSocket' \subseteq toSocket
    BY <1>3 DEF Lose
  <2> QED
    BY <1>3, <2>1 DEF Together
<1>4. CASE UNCHANGED vars
  BY <1>4 DEF vars, Together
<1> QED
  BY <1>1, <1>2, <1>3, <1>4 DEF Next

LEMMA TogetherAlways ==
    ASSUME Roomy
    PROVE  Spec => [](TypeOK /\ TimersRun /\ Together)
<1>1. Init => TypeOK /\ TimersRun /\ Together
  BY TypeInit, TogetherInit
<1>2. TypeOK /\ TimersRun /\ Together /\ [Next]_vars => (TypeOK /\ TimersRun /\ Together)'
  BY TypeStep, TogetherStep
<1> QED
  BY <1>1, <1>2, PTL DEF Spec

(* What the peer receives is the stream the application wrote, from its    *)
(* first byte on, in order, no byte twice and none missing: whatever the   *)
(* network loses, repeats or reorders, however often tick() sends all that *)
(* waits again, and whatever the application does in its callbacks.        *)
THEOREM StreamIsIntact ==
    ASSUME Roomy
    PROVE  Spec => []StreamIntact
<1>1. Together => StreamIntact
  BY DEF Together, PeerSide, StreamIntact, Got
<1> QED
  BY <1>1, TogetherAlways, PTL

\* The invariant where the transmit buffer holds all the data.
LEMMA WholeSituation ==
    ASSUME MaxData <= TxRoom, Together
    PROVE  Situation(socket, peer)
  BY TCPNetworkAssumption, TCPSocketAssumption DEF Together, CutShort

(* No fragment leaves the buffer before the peer has every byte of it, so  *)
(* whatever has to be sent again is still there to send.                   *)
THEOREM ReleasedIsReceived ==
    ASSUME Roomy, MaxData <= TxRoom
    PROVE  Spec => []NothingReleasedTooEarly
<1>1. TypeOK /\ TimersRun /\ Together => NothingReleasedTooEarly
  <2> SUFFICES ASSUME TypeOK, TimersRun, Together PROVE NothingReleasedTooEarly
    OBVIOUS
  <2>1. ~CutShort(peer)
    BY TCPNetworkAssumption, TCPSocketAssumption DEF CutShort
  <2>2. Situation(socket, peer) /\ socket.released \in Nat /\ Got(peer) \in Nat
    BY <2>1, Known, Fields
  <2> QED
    BY <2>2
       DEF Situation, Ready, Over, Listening, Connecting, Accepting, Shaking, Unused, InStep,
           Got, NothingReleasedTooEarly
<1> QED
  BY <1>1, TogetherAlways, PTL

(* The peer sees the end of the stream only once it has all the bytes that *)
(* were written, although the FIN may be sent while fragments wait.        *)
THEOREM FinComesLast ==
    ASSUME Roomy, MaxData <= TxRoom
    PROVE  Spec => []FinAfterAllData
<1>1. Together => FinAfterAllData
  <2> SUFFICES ASSUME Together, peer.finRcvd PROVE Got(peer) = socket.written
    BY DEF FinAfterAllData, Got
  <2>1. Situation(socket, peer) /\ PeerSide(peer)
    BY WholeSituation DEF Together
  <2> QED
    BY <2>1
       DEF Situation, Ready, Over, Listening, Connecting, Accepting, Shaking, InStep, PeerSide
<1> QED
  BY <1>1, TogetherAlways, PTL

(* The socket enters FIN_WAIT_2 and TIME_WAIT only once the peer really    *)
(* has its FIN: no acknowledgement of data, old or new, passes for the     *)
(* FIN's.                                                                  *)
THEOREM FinIsAcknowledged ==
    ASSUME Roomy, MaxData <= TxRoom
    PROVE  Spec => []FinAcknowledged
<1>1. Together => FinAcknowledged
  <2> SUFFICES ASSUME Together, socket.state \in {"FIN_WAIT_2", "TIME_WAIT"} PROVE peer.finRcvd
    BY DEF FinAcknowledged
  <2>1. Situation(socket, peer)
    BY WholeSituation
  <2> QED
    BY <2>1 DEF Situation, Ready, Over, Listening, Connecting, Accepting, InStep
<1> QED
  BY <1>1, TogetherAlways, PTL


-----------------------------------------------------------------------------
(* What the socket takes of the peer's stream *)

\* The states after the peer's FIN.
Ended == {"CLOSE_WAIT", "LAST_ACK", "CLOSING", "TIME_WAIT"}

\* How far a socket has come that is open: what it expects next is unit n.
Expects(s, n) == s.ackNumber = PeerSeq(n)

InPart(s) == InOrder(s.received) /\ Len(s.received) <= PeerData

Handed(s) ==
    /\ InPart(s)
    /\ "FIN" \notin s.nextFlags
    /\ s.state \in Ended => Len(s.received) = PeerData /\ Expects(s, PeerData + 2)
    /\ s.state \in Synced \ Ended => Expects(s, Len(s.received) + 1)
    /\ s.state = "SYN_RECEIVED" => Expects(s, 1)
    /\ ~s.opened \/ s.state \in Opening \cup {"LISTEN"} => s.received = <<>>
    /\ ~s.opened => s.state = "CLOSED"

\* A segment of bytes whose first is the peer's unit u, as numbered.
Starts(seg, u) ==
    /\ seg.seq = PeerSeq(u)
    /\ seg.len > 0 => seg.from = u /\ u + seg.len <= PeerData + 1
    /\ "FIN" \in seg.flags => u + seg.len = PeerData + 1

\* A segment of the peer's: a reset, the SYN, or some of its bytes under their
\* own numbers, the last of them with the FIN.
Offered(seg) ==
    \/ "RST" \in seg.flags
    \/ /\ "SYN" \in seg.flags
       /\ "ACK" \in seg.flags \/ peer.opens
       /\ seg.seq = PeerSeq(0)
    \/ /\ "SYN" \notin seg.flags
       /\ \E u \in 1 .. PeerData + 2 : Starts(seg, u)

\* The peer has heard nothing that it could acknowledge.
Unheard(s) == ~s.opened \/ s.state \in {"LISTEN", "SYN_SENT"}

Taken ==
    /\ socket.sent = {}
    /\ Handed(socket)
    /\ \A seg \in toSocket : Offered(seg)
    /\ Unheard(socket) =>
        /\ peer.una = 0
        /\ socket.state = "SYN_SENT" => ~peer.opens
        /\ \A seg \in toPeer : "ACK" \notin seg.flags
        /\ \A seg \in toSocket : "SYN" \in seg.flags \/ "RST" \in seg.flags

\* A push() in onConnect overwrites the segment that is being handled; and no
\* two of the peer's units have the same number.
Separate == "onConnect" \notin PushIn /\ PeerData + 2 < SeqMod

LEMMA PeerSeqOnce ==
    ASSUME Separate, NEW u \in 0 .. PeerData + 2, NEW v \in 0 .. PeerData + 2,
           PeerSeq(u) = PeerSeq(v)
    PROVE  u = v
<1>1. PeerISS \in Int /\ PeerData \in Nat /\ SeqMod \in Nat \ {0} /\ PeerData + 2 < SeqMod
  BY TCPPeerAssumption, TCPNetworkAssumption DEF SeqNumber, SeqMod, Separate
<1> HIDE DEF SeqMod
<1>2. ASSUME NEW j \in 0 .. PeerData + 2, NEW k \in 0 .. PeerData + 2,
             PeerSeq(j) = PeerSeq(k), j < k
      PROVE  FALSE
  <2>1. j \in Int /\ k \in Int /\ k - j \in SeqNumber /\ k - j = k - j + SeqMod * 0
    BY <1>1, <1>2 DEF SeqNumber
  <2>2. (PeerSeq(k) - PeerSeq(j)) % SeqMod = k - j
    BY <1>1, <2>1, Congruent DEF PeerSeq
  <2>3. PeerSeq(j) \in Int /\ PeerSeq(k) \in Int
    BY <2>1, PeerSeqType DEF SeqNumber
  <2>4. PeerSeq(k) - PeerSeq(j) = 0 /\ 0 = SeqMod * 0 + 0 /\ 0 \in SeqNumber
    BY <1>1, <1>2, <2>3 DEF SeqNumber
  <2>5. (PeerSeq(k) - PeerSeq(j)) % SeqMod = 0
    BY <2>4, Remainder
  <2> QED
    BY <1>2, <2>1, <2>2, <2>5
<1>3. u \in Int /\ v \in Int
  BY <1>1
<1> QED
  BY <1>2, <1>3

LEMMA PeerSeqPlus ==
    ASSUME NEW u \in Int, NEW n \in Int
    PROVE  Plus(PeerSeq(u), n) = PeerSeq(u + n)
  BY PlusOnce, TCPPeerAssumption DEF PeerSeq, SeqNumber

-----------------------------------------------------------------------------
(* What the methods leave alone *)

Moves(s, t) ==
    \/ t.state \in {s.state, "CLOSED"}
    \/ s.state = "CLOSE_WAIT" /\ t.state = "LAST_ACK"
    \/ s.state = "ESTABLISHED" /\ t.state = "FIN_WAIT_1"

Keeps(s, t) ==
    /\ t.received = s.received /\ t.ackNumber = s.ackNumber /\ t.opened = s.opened
    /\ Moves(s, t)
    /\ "FIN" \notin s.nextFlags =>
        /\ "FIN" \notin t.nextFlags
        /\ "FIN" \in t.packet.flags => "FIN" \in s.packet.flags

LEMMA KeepsTrans ==
    ASSUME NEW s, NEW t, NEW u, Keeps(s, t), Keeps(t, u)
    PROVE  Keeps(s, u)
  BY DEF Keeps, Moves

LEMMA ItselfKeeps ==
    ASSUME NEW s
    PROVE  Keeps(s, s)
  BY DEF Keeps, Moves

LEMMA ProcessKeeps ==
    ASSUME NEW s, Sound(s), NEW t \in processOutgoingBuffer(s)
    PROVE  Keeps(s, t) /\ t.state = s.state
<1> DEFINE flags == IF s.fragments = {} THEN s.nextFlags ELSE s.nextFlags \cup {"ACK"}
<1>1. CASE flags = {}
  <2>1. t = s
    BY <1>1 DEF processOutgoingBuffer
  <2> QED
    BY <2>1, ItselfKeeps
<1>2. CASE flags # {}
  <2>1. PICK e \in FrameEnds(s) :
            t = [s EXCEPT !.sent = @ \cup {Frame(s, flags, e - s.released)},
                          !.nextFlags = {},
                          !.packet = Outgone(Frame(s, flags, e - s.released))]
    BY <1>2 DEF processOutgoingBuffer
  <2>2. "FIN" \notin s.nextFlags => "FIN" \notin flags
    OBVIOUS
  <2> HIDE DEF flags
  <2>3. /\ t.received = s.received /\ t.ackNumber = s.ackNumber /\ t.opened = s.opened
        /\ t.state = s.state /\ t.nextFlags = {}
        /\ t.packet = Outgone(Frame(s, flags, e - s.released))
    BY <2>1 DEF Sound, SocketTypeOK, Sockets
  <2>4. t.packet.flags = flags
    BY <2>3 DEF Outgone, Frame
  <2> QED
    BY <2>2, <2>3, <2>4 DEF Keeps, Moves
<1> QED
  BY <1>1, <1>2

LEMMA PushKeeps ==
    ASSUME NEW s, Sound(s), NEW t \in push(s)
    PROVE  Keeps(s, t)
<1> DEFINE u == [s EXCEPT !.nextFlags = @ \cup {"PSH"}]
<1>1. /\ u.received = s.received /\ u.ackNumber = s.ackNumber /\ u.opened = s.opened
      /\ u.state = s.state /\ u.nextFlags = s.nextFlags \cup {"PSH"} /\ u.packet = s.packet
  BY DEF Sound, SocketTypeOK, Sockets
<1>2. Sound(u)
  <2>1. s.nextFlags \cup {"PSH"} \in SUBSET Flag
    BY DEF Sound, SocketTypeOK, Sockets, Flag
  <2>2. u = [s EXCEPT !.nextFlags = s.nextFlags \cup {"PSH"}]
    BY DEF Sound, SocketTypeOK, Sockets
  <2> QED
    BY <2>1, <2>2, FlagsFollow DEF Follows
<1>3. t \in processOutgoingBuffer(u)
  BY DEF push
<1> HIDE DEF u
<1>4. Keeps(s, u)
  BY <1>1 DEF Keeps, Moves
<1>5. Keeps(u, t)
  BY <1>2, <1>3, ProcessKeeps
<1> QED
  BY <1>4, <1>5, KeepsTrans

LEMMA WriteKeeps ==
    ASSUME NEW s, Sound(s), NEW n
    PROVE  Keeps(s, write(s, n)) /\ write(s, n).packet = s.packet
<1> DEFINE t == write(s, n)
<1>1. /\ t.received = s.received /\ t.ackNumber = s.ackNumber /\ t.opened = s.opened
      /\ t.state = s.state /\ t.nextFlags = s.nextFlags /\ t.packet = s.packet
  BY DEF Sound, SocketTypeOK, Sockets, write
<1> HIDE DEF t
<1> QED
  BY <1>1 DEF Keeps, Moves, t

LEMMA SetStateFields ==
    ASSUME NEW s, Sound(s), NEW st
    PROVE  /\ setState(s, st).received = s.received /\ setState(s, st).ackNumber = s.ackNumber
           /\ setState(s, st).opened = s.opened /\ setState(s, st).state = st
           /\ setState(s, st).nextFlags = s.nextFlags /\ setState(s, st).packet = s.packet
           /\ setState(s, st).sent = s.sent
  BY DEF Sound, SocketTypeOK, Sockets, setState

LEMMA CloseKeeps ==
    ASSUME NEW s, Sound(s)
    PROVE  Keeps(s, close(s)) /\ close(s).packet = s.packet
<1>1. CASE s.state = "CLOSE_WAIT"
  BY <1>1, SetStateFields DEF close, Keeps, Moves
<1>2. CASE s.state = "ESTABLISHED"
  BY <1>2, SetStateFields DEF close, Keeps, Moves
<1>3. CASE s.state \notin {"CLOSE_WAIT", "ESTABLISHED"}
  BY <1>3, ItselfKeeps DEF close
<1> QED
  BY <1>1, <1>2, <1>3

LEMMA TerminateKeeps ==
    ASSUME NEW s, Sound(s)
    PROVE  /\ Keeps(s, terminate(s)) /\ terminate(s).packet = s.packet
           /\ terminate(s).state = "CLOSED"
<1> DEFINE t == terminate(s)
<1>1. /\ t.received = s.received /\ t.ackNumber = s.ackNumber /\ t.opened = s.opened
      /\ t.state = "CLOSED" /\ t.nextFlags = s.nextFlags /\ t.packet = s.packet
  BY DEF Sound, SocketTypeOK, Sockets, terminate, setState
<1> HIDE DEF t
<1> QED
  BY <1>1 DEF Keeps, Moves, t

LEMMA ReactionsKeep ==
    ASSUME NEW s, Sound(s), NEW where, NEW t \in Reactions(s, where)
    PROVE  Keeps(s, t) /\ (where \notin PushIn => t.packet = s.packet)
<1> DEFINE wrote == {s} \cup {write(s, n) : n \in MayWrite(s)}
           pushed == wrote \cup UNION {push(u) : u \in {v \in wrote : where \in PushIn}}
           Well(u) == Sound(u) /\ Keeps(s, u) /\ (where \notin PushIn => u.packet = s.packet)
<1>1. \A u \in wrote : Well(u)
  BY WriteKeeps, WriteSound, ItselfKeeps
<1>2. ASSUME NEW v \in wrote, NEW u \in push(v), where \in PushIn
      PROVE  Well(u)
  <2>1. Sound(v) /\ Keeps(s, v)
    BY <1>1
  <2>2. Sound(u) /\ Keeps(v, u)
    BY <2>1, <1>2, PushKeeps, PushSound
  <2> QED
    BY <1>2, <2>1, <2>2, KeepsTrans
<1>3. \A u \in pushed : Well(u)
  <2> HIDE DEF Well
  <2> QED
    BY <1>1, <1>2
<1>4. t \in pushed \cup {close(u) : u \in pushed} \cup {terminate(s)}
  BY DEF Reactions
<1> HIDE DEF pushed
<1>5. ASSUME NEW u \in pushed PROVE Well(u) /\ Well(close(u))
  <2>1. Well(u)
    BY <1>3
  <2>2. Keeps(u, close(u)) /\ close(u).packet = u.packet /\ Sound(close(u))
    BY <2>1, CloseKeeps, CloseSound
  <2> QED
    BY <2>1, <2>2, KeepsTrans
<1> QED
  BY <1>4, <1>5, TerminateKeeps

-----------------------------------------------------------------------------
(* The handler *)

\* A socket whose connection was opened.
Held(s) == Handed(s) /\ s.opened /\ s.state \in Synced \cup {"CLOSED"}

LEMMA HeldKept ==
    ASSUME NEW s, NEW t, Held(s), Keeps(s, t)
    PROVE  Held(t)
<1>1. /\ t.received = s.received /\ t.ackNumber = s.ackNumber /\ t.opened
      /\ "FIN" \notin t.nextFlags
  BY DEF Held, Handed, Keeps
<1>2. CASE t.state = s.state
  BY <1>1, <1>2 DEF Held, Handed, InPart, Expects
<1>3. CASE t.state = "CLOSED"
  BY <1>1, <1>3 DEF Held, Handed, InPart, Synced, Ended, Opening
<1>4. CASE s.state = "CLOSE_WAIT" /\ t.state = "LAST_ACK"
  BY <1>1, <1>4 DEF Held, Handed, InPart, Expects, Synced, Ended, Opening
<1>5. CASE s.state = "ESTABLISHED" /\ t.state = "FIN_WAIT_1"
  BY <1>1, <1>5 DEF Held, Handed, InPart, Expects, Synced, Ended, Opening
<1> QED
  BY <1>2, <1>3, <1>4, <1>5 DEF Keeps, Moves

LEMMA AckNextKeeps ==
    ASSUME NEW s, Sound(s)
    PROVE  Keeps(s, [s EXCEPT !.nextFlags = @ \cup {"ACK"}])
<1> DEFINE t == [s EXCEPT !.nextFlags = @ \cup {"ACK"}]
<1>1. /\ t.received = s.received /\ t.ackNumber = s.ackNumber /\ t.opened = s.opened
      /\ t.state = s.state /\ t.nextFlags = s.nextFlags \cup {"ACK"} /\ t.packet = s.packet
  BY DEF Sound, SocketTypeOK, Sockets
<1> HIDE DEF t
<1> QED
  BY <1>1 DEF Keeps, Moves, t

\* A socket that has counted the segment, its FIN included, and not yet
\* changed its state for it.
Came(s) ==
    /\ InPart(s) /\ "FIN" \notin s.nextFlags
    /\ s.opened /\ s.state \in Synced \cup {"CLOSED"}
    /\ s.state \in Ended => "FIN" \notin s.packet.flags
    /\ s.state \in Ended \/ "FIN" \in s.packet.flags =>
            Len(s.received) = PeerData /\ Expects(s, PeerData + 2)
    /\ s.state \in Synced \ Ended /\ "FIN" \notin s.packet.flags =>
            Expects(s, Len(s.received) + 1)

\* The state it changes to is one after the peer's FIN if and only if the
\* segment has the FIN or the state was one before.
LEMMA CameHeld ==
    ASSUME NEW s, Sound(s), Came(s), NEW st \in Synced,
           st \in Ended <=> s.state \in Ended \/ "FIN" \in s.packet.flags, s.state # "CLOSED"
    PROVE  /\ Held(setState(s, st)) /\ Sound(setState(s, st))
           /\ Held([setState(s, st) EXCEPT !.nextFlags = @ \cup {"ACK"}])
           /\ Sound([setState(s, st) EXCEPT !.nextFlags = @ \cup {"ACK"}])
<1> DEFINE t == setState(s, st)
<1>1. /\ t.received = s.received /\ t.ackNumber = s.ackNumber /\ t.opened = s.opened
      /\ t.state = st /\ t.nextFlags = s.nextFlags
  BY SetStateFields
<1>2. Sound(t)
  BY SetStateSound DEF Sound, Synced, State
<1> HIDE DEF t
<1>3. Held(t)
  BY <1>1 DEF Held, Handed, Came, InPart, Expects, Synced, Ended, Opening
<1>4. Held([t EXCEPT !.nextFlags = @ \cup {"ACK"}]) /\ Sound([t EXCEPT !.nextFlags = @ \cup {"ACK"}])
  BY <1>2, <1>3, AckNextKeeps, AckNextSound, HeldKept
<1> QED
  BY <1>2, <1>3, <1>4 DEF t

LEMMA OnCloseHeld ==
    ASSUME NEW s, Sound(s), Held(s), NEW t \in onClose(s)
    PROVE  Held(t)
  BY ReactionsKeep, HeldKept DEF onClose

LEMMA DispatchedHeld ==
    ASSUME NEW s, Sound(s), Came(s), NEW rest, NEW t \in Dispatched(s, rest)
    PROVE  Held(t)
<1> DEFINE fin == "FIN" \in s.packet.flags
           finAcked == FinAcked(s, rest)
           InState(st) == {setState(s, st), [setState(s, st) EXCEPT !.nextFlags = @ \cup {"ACK"}]}
<1>1. ~fin \/ s.state = "CLOSED" => Held(s)
  BY DEF Held, Handed, Came, InPart, Synced, Ended, Opening
<1>2. ASSUME NEW st \in Synced, st \in Ended <=> s.state \in Ended \/ fin, s.state # "CLOSED",
             NEW u \in InState(st)
      PROVE  Held(u) /\ \A v \in onClose(u) : Held(v)
  <2>1. /\ Held(setState(s, st)) /\ Sound(setState(s, st))
        /\ Held([setState(s, st) EXCEPT !.nextFlags = @ \cup {"ACK"}])
        /\ Sound([setState(s, st) EXCEPT !.nextFlags = @ \cup {"ACK"}])
    BY <1>2, CameHeld
  <2>2. Held(u) /\ Sound(u)
    BY <1>2, <2>1, Zenon
  <2> QED
    BY <2>2, OnCloseHeld
<1>3. ASSUME NEW st \in Synced, st \in Ended <=> s.state \in Ended \/ fin, s.state # "CLOSED",
             \/ t \in InState(st)
             \/ \E u \in InState(st) : t \in onClose(u)
      PROVE  Held(t)
  BY <1>2, <1>3
<1>4. CASE s.state = "ESTABLISHED"
  <2>1. \/ fin /\ t \in onClose(setState(s, "CLOSE_WAIT"))
        \/ ~fin /\ t = s
    BY <1>4 DEF Dispatched
  <2> QED
    BY <1>1, <1>3, <1>4, <2>1 DEF Synced, Ended
<1>5. CASE s.state = "FIN_WAIT_1"
  <2>1. \/ fin /\ t \in onClose(setState(s, "TIME_WAIT"))
        \/ ~fin /\ t = setState(s, "FIN_WAIT_2")
        \/ fin /\ t \in onClose([setState(s, "CLOSING") EXCEPT !.nextFlags = @ \cup {"ACK"}])
        \/ ~fin /\ t = s
    <3> HIDE DEF finAcked
    <3> QED
      BY <1>5 DEF Dispatched, finAcked
  <2> QED
    BY <1>1, <1>3, <1>5, <2>1 DEF Synced, Ended
<1>6. CASE s.state = "CLOSING"
  <2>1. \/ t = setState(s, "TIME_WAIT")
        \/ t = [s EXCEPT !.nextFlags = @ \cup {"ACK"}]
    <3> HIDE DEF finAcked
    <3> QED
      BY <1>6 DEF Dispatched, finAcked
  <2>2. Held([s EXCEPT !.nextFlags = @ \cup {"ACK"}])
    BY <1>1, <1>6, AckNextKeeps, HeldKept DEF Came, Ended
  <2> QED
    BY <1>3, <1>6, <2>1, <2>2 DEF Synced, Ended
<1>7. CASE s.state = "FIN_WAIT_2"
  <2>1. \/ fin /\ t \in onClose([setState(s, "TIME_WAIT") EXCEPT !.nextFlags = @ \cup {"ACK"}])
        \/ ~fin /\ t = s
    BY <1>7 DEF Dispatched
  <2> QED
    BY <1>1, <1>3, <1>7, <2>1 DEF Synced, Ended
<1>8. CASE s.state = "LAST_ACK"
  <2>1. t = terminate(s)
    BY <1>8 DEF Dispatched
  <2>2. Held(s)
    BY <1>1, <1>8 DEF Came, Ended
  <2> QED
    BY <2>1, <2>2, TerminateKeeps, HeldKept
<1>9. CASE s.state \notin {"ESTABLISHED", "FIN_WAIT_1", "CLOSING", "FIN_WAIT_2", "LAST_ACK"}
  <2>1. t = s
    BY <1>9 DEF Dispatched
  <2>2. ~fin \/ s.state = "CLOSED"
    BY <1>9 DEF Came, Synced, Ended
  <2> QED
    BY <1>1, <2>1, <2>2
<1> QED
  BY <1>4, <1>5, <1>6, <1>7, <1>8, <1>9

\* A socket that knows what it expects next, be it closed by now.
Awaits(s) == Held(s) /\ (s.state \notin Ended => Expects(s, Len(s.received) + 1))

LEMMA NextUnit ==
    ASSUME Separate, NEW s, Sound(s), Awaits(s), NEW u \in 1 .. PeerData + 2,
           s.ackNumber = PeerSeq(u)
    PROVE  IF s.state \in Ended THEN u = PeerData + 2 ELSE u = Len(s.received) + 1
<1>1. PeerData \in Nat /\ Len(s.received) \in Nat /\ Len(s.received) <= PeerData
  BY TCPPeerAssumption, TCPNetworkAssumption
     DEF Awaits, Held, Handed, InPart, Sound, SocketTypeOK, Sockets
<1>2. /\ u \in 0 .. PeerData + 2 /\ PeerData + 2 \in 0 .. PeerData + 2
      /\ Len(s.received) + 1 \in 0 .. PeerData + 2
  BY <1>1
<1>3. CASE s.state \in Ended
  <2>1. PeerSeq(u) = PeerSeq(PeerData + 2)
    BY <1>3 DEF Awaits, Held, Handed, Expects
  <2> QED
    BY <1>2, <1>3, <2>1, PeerSeqOnce
<1>4. CASE s.state \notin Ended
  <2>1. PeerSeq(u) = PeerSeq(Len(s.received) + 1)
    BY <1>4 DEF Awaits, Expects
  <2> QED
    BY <1>2, <1>4, <2>1, PeerSeqOnce
<1> QED
  BY <1>3, <1>4

(* What the segment brings is appended, and counted with its FIN: a push() *)
(* in onReceive may hide the FIN, never make one up.                       *)
LEMMA InSequenceHeld ==
    ASSUME Separate, NEW s, Sound(s), Awaits(s), NEW seg \in Segment, s.packet = Incoming(seg),
           NEW u \in 1 .. PeerData + 2, Starts(seg, u), s.ackNumber = seg.seq,
           NEW rest, NEW t \in InSequence(s, rest)
    PROVE  Held(t)
<1> DEFINE len == s.packet.len
           taken == [s EXCEPT !.ackNumber = Plus(@, len),
                              !.nextFlags = IF len > 0 THEN @ \cup {"ACK"} ELSE @]
           finned(v) == IF "FIN" \in v.packet.flags THEN [v EXCEPT !.ackNumber = Plus(@, 1)] ELSE v
           delivered == IF len > 0 THEN onReceive(taken) ELSE {taken}
           Arrived(v) ==
                /\ InPart(v) /\ "FIN" \notin v.nextFlags
                /\ v.opened /\ v.state \in Synced \cup {"CLOSED"}
                /\ IF v.state \in Ended THEN u = PeerData + 2 /\ len = 0 /\ Len(v.received) = PeerData
                   ELSE Len(v.received) + 1 = u + len
                /\ Expects(v, u + len)
                /\ "FIN" \in v.packet.flags => u + len = PeerData + 1
<1>1. PICK v \in delivered : t \in Dispatched(finned(v), rest)
  BY DEF InSequence
<1>2. /\ PeerData \in Nat /\ MaxData \in Nat /\ u \in Nat /\ u <= PeerData + 2
      /\ s.received \in Seq(Nat) /\ Len(s.received) \in Nat /\ seg.from \in Nat
  BY TCPPeerAssumption, TCPNetworkAssumption DEF Sound, SocketTypeOK, Sockets, Segment
<1>3. /\ len = seg.len /\ len \in Nat /\ s.packet.from = seg.from
      /\ s.packet.flags = seg.flags
  BY <1>2 DEF Incoming, Segment
<1>4. IF s.state \in Ended THEN u = PeerData + 2 ELSE u = Len(s.received) + 1
  BY NextUnit DEF Starts
<1>5. s.state \in Ended => len = 0
  BY <1>2, <1>3, <1>4 DEF Starts
<1>6. /\ taken.received = s.received /\ taken.ackNumber = Plus(s.ackNumber, len)
      /\ taken.opened = s.opened /\ taken.state = s.state /\ taken.packet = s.packet
      /\ taken.nextFlags = IF len > 0 THEN s.nextFlags \cup {"ACK"} ELSE s.nextFlags
  BY DEF Sound, SocketTypeOK, Sockets
<1>7. Expects(taken, u + len)
  BY <1>2, <1>3, <1>6, PeerSeqPlus DEF Starts, Expects
<1>8. Sound(taken)
  <2> DEFINE flags == IF len > 0 THEN s.nextFlags \cup {"ACK"} ELSE s.nextFlags
             n == Plus(s.ackNumber, len)
  <2>1. s \in Sockets
    BY DEF Sound, SocketTypeOK
  <2>2. n \in SeqNumber /\ flags \in SUBSET Flag
    BY <1>3, <2>1, PlusType DEF Sockets, SeqNumber, Flag
  <2>3. taken = [[s EXCEPT !.ackNumber = n] EXCEPT !.nextFlags = flags]
    BY <2>1 DEF Sockets
  <2> HIDE DEF n, flags, taken
  <2>4. Sound([s EXCEPT !.ackNumber = n])
    BY <2>2, SetAckSound
  <2>5. /\ "FIN" \in flags => "FIN" \in [s EXCEPT !.ackNumber = n].nextFlags
    <3>1. [s EXCEPT !.ackNumber = n].nextFlags = s.nextFlags
      BY <2>1 DEF Sockets
    <3> QED
      BY <3>1 DEF flags
  <2> QED
    BY <2>2, <2>3, <2>4, <2>5, FlagsFollow DEF Follows
<1> HIDE DEF taken, len
<1>9. ASSUME len > 0, NEW w \in onReceive(taken)
      PROVE  Sound(w) /\ Arrived(w)
  <2> DEFINE bytes == Bytes(taken.packet, 0, taken.packet.len)
             had == [taken EXCEPT !.received = @ \o bytes]
  <2>1. bytes \in [1 .. len -> Nat] /\ \A j \in 1 .. len : bytes[j] = Len(s.received) + j
    <3>1. bytes = [k \in 1 .. len |-> seg.from + 0 + k - 1]
      BY <1>3, <1>6 DEF Bytes, len
    <3>2. seg.from = Len(s.received) + 1
      BY <1>2, <1>3, <1>4, <1>5, <1>9 DEF Starts
    <3> HIDE DEF bytes
    <3> QED
      BY <1>2, <1>3, <3>1, <3>2
  <2>2. InOrder(s.received) /\ Len(s.received) <= PeerData /\ "FIN" \notin s.nextFlags
    BY DEF Awaits, Held, Handed, InPart
  <2> HIDE DEF bytes
  <2>3. /\ InOrder(s.received \o bytes) /\ Len(s.received \o bytes) = Len(s.received) + len
        /\ s.received \o bytes \in Seq(Nat)
    <3>1. bytes \in Seq(Nat)
      BY <1>3, <2>1, BytesAreSequence, Zenon
    <3>2. InOrder(s.received \o bytes) /\ Len(s.received \o bytes) = Len(s.received) + len
      BY <1>2, <1>3, <2>1, <2>2, InOrderAppended, Zenon
    <3>3. s.received \o bytes \in Seq(Nat)
      BY <1>2, <3>1, Appended, Zenon
    <3> QED
      BY <3>2, <3>3
  <2>4. /\ had.received = s.received \o bytes /\ had.ackNumber = taken.ackNumber
        /\ had.opened = s.opened /\ had.state = s.state /\ had.packet = s.packet
        /\ "FIN" \notin had.nextFlags
    BY <1>6, <1>8, <2>2 DEF Sound, SocketTypeOK, Sockets
  <2>5. Sound(had)
    <3>1. taken \in Sockets /\ had = [taken EXCEPT !.received = s.received \o bytes]
      BY <1>6, <1>8 DEF Sound, SocketTypeOK, Sockets
    <3>2. had \in Sockets
      BY <2>3, <3>1, FieldType
    <3>3. /\ had.state = taken.state /\ had.stateTimer = taken.stateTimer
          /\ had.written = taken.written /\ had.released = taken.released
          /\ had.fragments = taken.fragments
      BY <3>1 DEF Sockets
    <3> HIDE DEF had
    <3> QED
      BY <1>8, <3>2, <3>3 DEF Sound, SocketTypeOK, TimerRuns
  <2>6. w \in Reactions(had, "onReceive")
    BY DEF onReceive, bytes
  <2> HIDE DEF had
  <2>7. Sound(w) /\ Keeps(had, w)
    BY <2>5, <2>6, ReactionsKeep, ReactionsSound
  <2>8. /\ w.received = s.received \o bytes /\ w.ackNumber = taken.ackNumber /\ w.opened
        /\ "FIN" \notin w.nextFlags /\ ("FIN" \in w.packet.flags => "FIN" \in seg.flags)
    BY <1>3, <2>4, <2>7 DEF Keeps, Awaits, Held
  <2>9. s.state \notin Ended /\ w.state \notin Ended /\ w.state \in Synced \cup {"CLOSED"}
    <3>1. s.state \notin Ended /\ s.state \in Synced \cup {"CLOSED"}
      BY <1>3, <1>5, <1>9 DEF Awaits, Held
    <3> QED
      BY <2>4, <2>7, <3>1 DEF Keeps, Moves, Synced, Ended
  <2>10. Len(w.received) + 1 = u + len /\ Len(w.received) <= PeerData
    <3>1. u = Len(s.received) + 1 /\ u + len <= PeerData + 1
      BY <1>3, <1>4, <1>9, <2>9 DEF Starts
    <3>2. Len(w.received) = Len(s.received) + len
      BY <2>3, <2>8
    <3> DEFINE had1 == Len(s.received)
               has == Len(w.received)
    <3>3. had1 \in Nat /\ len \in Nat /\ PeerData \in Nat
      BY <1>2, <1>3
    <3>4. u = had1 + 1 /\ u + len <= PeerData + 1 /\ has = had1 + len
      BY <3>1, <3>2, Zenon
    <3> HIDE DEF had1, has
    <3>5. has + 1 = u + len /\ has <= PeerData
      BY <3>3, <3>4
    <3> QED
      BY <3>5, Zenon DEF has
  <2>11. "FIN" \in w.packet.flags => u + len = PeerData + 1
    BY <1>3, <2>8 DEF Starts
  <2> QED
    BY <1>7, <2>3, <2>7, <2>8, <2>9, <2>10, <2>11 DEF InPart, Expects
<1>10. ASSUME ~(len > 0)
       PROVE  Arrived(taken)
  <2>1. len = 0 /\ u + len = u /\ taken.nextFlags = s.nextFlags
    BY <1>2, <1>3, <1>6, <1>10
  <2>2. IF s.state \in Ended THEN Len(s.received) = PeerData ELSE Len(s.received) + 1 = u
    BY <1>2, <1>4 DEF Awaits, Held, Handed
  <2> QED
    BY <1>3, <1>4, <1>6, <1>7, <2>1, <2>2 DEF Starts, Awaits, Held, Handed, InPart
<1>11. Sound(v) /\ Arrived(v)
  BY <1>1, <1>8, <1>9, <1>10
<1>12. Sound(finned(v)) /\ Came(finned(v))
  <2>1. CASE "FIN" \in v.packet.flags
    <3> DEFINE f == [v EXCEPT !.ackNumber = Plus(@, 1)]
    <3>1. /\ f.received = v.received /\ f.ackNumber = Plus(v.ackNumber, 1) /\ f.opened = v.opened
          /\ f.state = v.state /\ f.packet = v.packet /\ f.nextFlags = v.nextFlags
      BY <1>11 DEF Sound, SocketTypeOK, Sockets
    <3>2. Sound(f)
      <4>1. Plus(v.ackNumber, 1) \in SeqNumber
        BY <1>11, PlusType DEF Sound, SocketTypeOK, Sockets, SeqNumber
      <4>2. f = [v EXCEPT !.ackNumber = Plus(v.ackNumber, 1)]
        BY <1>11 DEF Sound, SocketTypeOK, Sockets
      <4> QED
        BY <1>11, <4>1, <4>2, SetAckSound
    <3> HIDE DEF f
    <3>3. u + len = PeerData + 1 /\ v.state \notin Ended
      BY <1>2, <1>3, <1>11, <2>1
    <3>4. Expects(f, PeerData + 2)
      <4>1. u + len \in Int /\ (u + len) + 1 = PeerData + 2
        BY <1>2, <1>3, <3>3
      <4>2. Plus(PeerSeq(u + len), 1) = PeerSeq((u + len) + 1)
        BY <4>1, PeerSeqPlus
      <4> QED
        BY <1>11, <3>1, <4>1, <4>2 DEF Expects
    <3>5. v.received \in Seq(Nat) /\ Len(v.received) = PeerData
      BY <1>2, <1>3, <1>11, <3>3 DEF Sound, SocketTypeOK, Sockets
    <3>6. Came(f)
      BY <1>11, <2>1, <3>1, <3>3, <3>4, <3>5 DEF Came, InPart
    <3> QED
      BY <2>1, <3>2, <3>6 DEF f
  <2>2. CASE "FIN" \notin v.packet.flags
    <3>1. v.state \notin Ended => Expects(v, Len(v.received) + 1)
      BY <1>11
    <3>2. v.state \in Ended => Expects(v, PeerData + 2) /\ Len(v.received) = PeerData
      BY <1>2, <1>11
    <3> QED
      BY <1>11, <2>2, <3>1, <3>2 DEF Came
  <2> QED
    BY <2>1, <2>2
<1> QED
  BY <1>1, <1>12, DispatchedHeld

LEMMA ReleasedKeeps ==
    ASSUME NEW s, Sound(s), NEW r
    PROVE  /\ Keeps(s, Released(s, r)) /\ Released(s, r).state = s.state
           /\ Released(s, r).packet = s.packet
<1> DEFINE t == Released(s, r)
<1>1. /\ t.received = s.received /\ t.ackNumber = s.ackNumber /\ t.opened = s.opened
      /\ t.state = s.state /\ t.nextFlags = s.nextFlags /\ t.packet = s.packet
  BY DEF Sound, SocketTypeOK, Sockets, Released
<1> HIDE DEF t
<1> QED
  BY <1>1 DEF Keeps, Moves, t

LEMMA WindowedHeld ==
    ASSUME Separate, NEW s, Sound(s), Awaits(s), NEW seg \in Segment, s.packet = Incoming(seg),
           NEW u \in 1 .. PeerData + 2, Starts(seg, u),
           NEW n \in Int, NEW t \in Windowed(s, seg.seq, n)
    PROVE  Held(t)
<1>1. PICK r \in ReleasedTo(s, n) :
          t \in IF Released(s, r).ackNumber # seg.seq
                THEN {[Released(s, r) EXCEPT !.nextFlags = @ \cup {"ACK"}]}
                ELSE InSequence(Released(s, r), n - (r - s.released))
  BY DEF Windowed
<1> DEFINE v == Released(s, r)
<1>2. /\ Sound(v) /\ Keeps(s, v) /\ v.state = s.state /\ v.packet = Incoming(seg)
  BY ReleasedSound, ReleasedKeeps
<1> HIDE DEF v
<1>3. Awaits(v)
  <2>1. Held(v)
    BY <1>2, HeldKept DEF Awaits
  <2> QED
    BY <1>2, <2>1 DEF Awaits, Keeps, Expects
<1>4. CASE v.ackNumber # seg.seq
  <2>1. t = [v EXCEPT !.nextFlags = @ \cup {"ACK"}]
    BY <1>1, <1>4 DEF v
  <2> QED
    BY <1>2, <1>3, <2>1, AckNextKeeps, HeldKept DEF Awaits
<1>5. CASE v.ackNumber = seg.seq
  <2>1. t \in InSequence(v, n - (r - s.released))
    BY <1>1, <1>5 DEF v
  <2> QED
    BY <1>2, <1>3, <1>5, <2>1, InSequenceHeld
<1> QED
  BY <1>4, <1>5

LEMMA WindowedTaken ==
    ASSUME Separate, NEW s, Sound(s), Awaits(s), NEW seg \in Segment, s.packet = Incoming(seg),
           Offered(seg), "RST" \notin seg.flags,
           NEW n \in Int, NEW t \in Windowed(s, seg.seq, n)
    PROVE  Held(t)
<1>1. CASE "SYN" \in seg.flags
  <2>1. PeerData \in Nat /\ Len(s.received) \in Nat /\ Len(s.received) <= PeerData
    BY TCPPeerAssumption, TCPNetworkAssumption
       DEF Awaits, Held, Handed, InPart, Sound, SocketTypeOK, Sockets
  <2>2. PICK k \in 1 .. PeerData + 2 : s.ackNumber = PeerSeq(k)
    <3>1. PeerData + 2 \in 1 .. PeerData + 2 /\ Len(s.received) + 1 \in 1 .. PeerData + 2
      BY <2>1
    <3> QED
      BY <3>1 DEF Awaits, Held, Handed, Expects
  <2>3. seg.seq = PeerSeq(0) /\ 0 \in 0 .. PeerData + 2 /\ k \in 0 .. PeerData + 2 /\ k # 0
    BY <1>1, <2>1 DEF Offered
  <2>4. s.ackNumber # seg.seq
    BY <2>2, <2>3, PeerSeqOnce
  <2>5. PICK r \in ReleasedTo(s, n) :
            t \in IF Released(s, r).ackNumber # seg.seq
                  THEN {[Released(s, r) EXCEPT !.nextFlags = @ \cup {"ACK"}]}
                  ELSE InSequence(Released(s, r), n - (r - s.released))
    BY DEF Windowed
  <2> DEFINE v == Released(s, r)
  <2>6. Sound(v) /\ Keeps(s, v)
    BY ReleasedSound, ReleasedKeeps
  <2>7. Held(v) /\ v.ackNumber # seg.seq
    BY <2>4, <2>6, HeldKept DEF Awaits, Keeps
  <2>8. t = [v EXCEPT !.nextFlags = @ \cup {"ACK"}]
    BY <2>5, <2>7
  <2> HIDE DEF v
  <2> QED
    BY <2>6, <2>7, <2>8, AckNextKeeps, HeldKept
<1>2. CASE "SYN" \notin seg.flags
  BY <1>2, WindowedHeld DEF Offered
<1> QED
  BY <1>1, <1>2

-----------------------------------------------------------------------------
(* The steps *)

\* What a handler has to leave behind.
Takes(t) ==
    /\ Sound(t) /\ Handed(t)
    /\ Unheard(t) =>
        /\ Unheard(socket)
        /\ t.state = "SYN_SENT" => ~peer.opens
        /\ \A seg \in t.sent : "ACK" \notin seg.flags

LEMMA HeldTakes ==
    ASSUME NEW t, Sound(t), Held(t)
    PROVE  Takes(t)
  BY DEF Takes, Held, Unheard, Synced

LEMMA TakesTaken ==
    ASSUME Taken, UNCHANGED peer, NEW S, Become(S), \A t \in S : Takes(t)
    PROVE  Taken'
<1>1. PICK t \in S : /\ socket' = [t EXCEPT !.sent = {}, !.packet = NoPacket]
                    /\ toPeer' = Sent(toPeer, t.sent, MaxToPeer)
  BY DEF Become
<1>2. Takes(t)
  OBVIOUS
<1> DEFINE q == socket'
<1>3. /\ q.received = t.received /\ q.ackNumber = t.ackNumber /\ q.opened = t.opened
      /\ q.state = t.state /\ q.nextFlags = t.nextFlags /\ q.sent = {}
  BY <1>1, <1>2 DEF Takes, Sound, SocketTypeOK, Sockets
<1>4. toPeer' \subseteq toPeer \cup t.sent /\ toSocket' = toSocket /\ peer' = peer
  BY <1>1 DEF Become, Sent
<1> HIDE DEF q
<1>5. Handed(q)
  BY <1>2, <1>3 DEF Takes, Handed, InPart, Expects
<1>6. \A seg \in toSocket' : Offered(seg)'
  BY <1>4 DEF Taken, Offered, Starts
<1>7. Unheard(q) =>
        /\ Unheard(socket) /\ (q.state = "SYN_SENT" => ~peer.opens)
        /\ \A seg \in toPeer' : "ACK" \notin seg.flags
  BY <1>2, <1>3, <1>4 DEF Takes, Unheard, Taken
<1> QED
  BY <1>3, <1>4, <1>5, <1>6, <1>7 DEF Taken, q

LEMMA SocketKnown ==
    ASSUME TypeOK, TimersRun, Taken
    PROVE  /\ Sound(socket) /\ Handed(socket) /\ socket.sent = {}
           /\ socket.state \in State
           /\ socket.opened /\ socket.state \in Synced \cup {"CLOSED"} => Held(socket)
           /\ socket.state # "CLOSED" => socket.opened
  BY DEF TypeOK, TimersRun, Sound, Taken, Held, Handed, SocketTypeOK, Sockets

LEMMA SameHanded ==
    ASSUME NEW s, NEW t, Handed(s), t.received = s.received, t.ackNumber = s.ackNumber,
           t.opened = s.opened, t.state = s.state, "FIN" \notin t.nextFlags
    PROVE  Handed(t)
  BY DEF Handed, InPart, Expects

LEMMA TerminatedTakes ==
    ASSUME TypeOK, TimersRun, Taken, socket.state # "CLOSED"
    PROVE  Takes(terminate(socket))
<1> DEFINE t == terminate(socket)
<1>1. Sound(socket) /\ Handed(socket) /\ socket.opened
  BY SocketKnown
<1>2. Keeps(socket, t) /\ t.state = "CLOSED" /\ Sound(t)
  BY <1>1, TerminateKeeps, TerminateSound
<1> HIDE DEF t
<1>3. Held(t)
  BY <1>1, <1>2 DEF Held, Handed, InPart, Keeps, Synced, Ended, Opening
<1> QED
  BY <1>2, <1>3, HeldTakes DEF t

LEMMA ConnectTaken ==
    ASSUME TypeOK, TimersRun, Taken, connect, ~peer.opens, UNCHANGED peer
    PROVE  Taken'
<1> DEFINE a == [socket EXCEPT !.ackNumber = 0, !.opened = TRUE]
           b == setState(a, "SYN_SENT")
           t == sendSYN(b, {})
<1>1. Sound(socket) /\ Handed(socket) /\ socket.sent = {} /\ ~socket.opened
  BY SocketKnown DEF connect
<1>2. /\ a.received = socket.received /\ a.opened /\ a.nextFlags = socket.nextFlags
      /\ a.sent = {} /\ SocketTypeOK(a) /\ a \in Sockets
  <2>1. /\ a.received = socket.received /\ a.opened /\ a.nextFlags = socket.nextFlags
        /\ a.sent = {} /\ a.released = socket.released /\ a.written = socket.written
        /\ a.fragments = socket.fragments
    BY <1>1 DEF Sound, SocketTypeOK, Sockets
  <2>2. [socket EXCEPT !.ackNumber = 0] \in Sockets
    <3>1. 0 \in SeqNumber
      BY TCPNetworkAssumption DEF SeqNumber, SeqMod
    <3> QED
      BY <1>1, <3>1, FieldType DEF Sound, SocketTypeOK
  <2>3. a = [[socket EXCEPT !.ackNumber = 0] EXCEPT !.opened = TRUE]
    BY <1>1 DEF Sound, SocketTypeOK, Sockets
  <2>4. a \in Sockets
    BY <2>2, <2>3, FieldType
  <2> HIDE DEF a
  <2> QED
    BY <1>1, <2>1, <2>4 DEF Sound, SocketTypeOK
<1> HIDE DEF a
<1>3. Sound(b)
  BY <1>2, SetStateSound DEF State
<1>4. /\ b.received = a.received /\ b.opened /\ b.nextFlags = a.nextFlags
      /\ b.sent = {} /\ b.state = "SYN_SENT"
  BY <1>2 DEF Sockets, setState
<1> HIDE DEF b
<1>5. Sound(t)
  BY <1>3, SendSYNSound
<1>6. /\ t.received = b.received /\ t.opened = b.opened /\ t.nextFlags = b.nextFlags
      /\ t.state = b.state /\ t.sent = {Frame(b, {"SYN"} \cup {}, 0)}
  BY <1>3, <1>4 DEF sendSYN, Sound, SocketTypeOK, Sockets
<1> HIDE DEF t
<1>7. Handed(t)
  BY <1>1, <1>2, <1>4, <1>6 DEF Handed, InPart, Synced, Ended, Opening
<1>8. \A seg \in t.sent : "ACK" \notin seg.flags
  BY <1>6 DEF Frame
<1>9. Takes(t)
  BY <1>1, <1>5, <1>7, <1>8 DEF Takes, Unheard
<1>10. Become({t})
  BY DEF connect, t, b, a
<1> QED
  BY <1>9, <1>10, TakesTaken

LEMMA ListenTaken ==
    ASSUME TypeOK, TimersRun, Taken, listen, UNCHANGED peer
    PROVE  Taken'
<1> DEFINE a == [socket EXCEPT !.opened = TRUE]
           t == setState(a, "LISTEN")
<1>1. Sound(socket) /\ Handed(socket) /\ socket.sent = {} /\ ~socket.opened
  BY SocketKnown DEF listen
<1>2. /\ a.received = socket.received /\ a.opened /\ a.nextFlags = socket.nextFlags
      /\ a.sent = {} /\ SocketTypeOK(a) /\ a \in Sockets
  BY <1>1 DEF Sound, SocketTypeOK, Sockets
<1> HIDE DEF a
<1>3. Sound(t)
  BY <1>2, SetStateSound DEF State
<1>4. /\ t.received = a.received /\ t.opened /\ t.nextFlags = a.nextFlags
      /\ t.sent = {} /\ t.state = "LISTEN"
  BY <1>2 DEF Sockets, setState
<1> HIDE DEF t
<1>5. Handed(t)
  BY <1>1, <1>2, <1>4 DEF Handed, InPart, Synced, Ended, Opening
<1>6. Takes(t)
  BY <1>1, <1>3, <1>4, <1>5 DEF Takes, Unheard
<1>7. Become({t})
  BY DEF listen, t, a
<1> QED
  BY <1>6, <1>7, TakesTaken

LEMMA ApplicationTaken ==
    ASSUME TypeOK, TimersRun, Taken, applicationCall, UNCHANGED peer
    PROVE  Taken'
<1>1. Sound(socket) /\ Held(socket) /\ Become(Reactions(socket, "loop"))
  BY SocketKnown DEF applicationCall, Synced
<1>2. ASSUME NEW t \in Reactions(socket, "loop") PROVE Takes(t)
  BY <1>1, ReactionsKeep, ReactionsSound, HeldKept, HeldTakes
<1> QED
  BY <1>1, <1>2, TakesTaken

LEMMA TerminateTaken ==
    ASSUME TypeOK, TimersRun, Taken, UNCHANGED peer,
           socket.state # "CLOSED", Become({terminate(socket)})
    PROVE  Taken'
  BY TerminatedTakes, TakesTaken

\* What tick() sends, if anything.
LEMMA OutgoingKeeps ==
    ASSUME NEW s, Sound(s), "FIN" \notin s.nextFlags, NEW t \in Outgoing(s)
    PROVE  /\ t.received = s.received /\ t.ackNumber = s.ackNumber /\ t.opened = s.opened
           /\ t.state = s.state /\ "FIN" \notin t.nextFlags
           /\ s.state \in {"CLOSED", "LISTEN"} => t.sent = s.sent
           /\ s.state = "SYN_SENT" => t.sent = s.sent \cup {Frame(s, {"SYN"} \cup {}, 0)}
<1>1. CASE s.state \in {"SYN_SENT", "SYN_RECEIVED"}
  <2>1. PICK ack \in {{}, {"ACK"}} : t = sendSYN(s, ack) /\ (s.state = "SYN_SENT" => ack = {})
    BY <1>1 DEF Outgoing
  <2>2. /\ t.received = s.received /\ t.ackNumber = s.ackNumber /\ t.opened = s.opened
        /\ t.state = s.state /\ t.nextFlags = s.nextFlags
        /\ t.sent = s.sent \cup {Frame(s, {"SYN"} \cup ack, 0)}
    BY <2>1 DEF Sound, SocketTypeOK, Sockets, sendSYN
  <2> QED
    BY <1>1, <2>1, <2>2
<1>2. CASE s.state \in Synced \ {"CLOSE_WAIT"}
  <2>1. ASSUME NEW flags \in SUBSET Flag,
               NEW u \in processOutgoingBuffer([s EXCEPT !.nextFlags = flags])
        PROVE  /\ u.received = s.received /\ u.ackNumber = s.ackNumber /\ u.opened = s.opened
               /\ u.state = s.state /\ "FIN" \notin u.nextFlags
    <3> DEFINE v == [s EXCEPT !.nextFlags = flags]
    <3>1. v \in Sockets
      BY FieldType DEF Sound, SocketTypeOK
    <3>2. /\ Alike(s, v) /\ v.state = s.state /\ v.stateTimer = s.stateTimer
          /\ v.received = s.received /\ v.ackNumber = s.ackNumber
      BY DEF Alike, Sound, SocketTypeOK, Sockets
    <3>3. Sound(v)
      BY <3>1, <3>2 DEF Sound, SocketTypeOK, TimerRuns, Alike
    <3> HIDE DEF v
    <3>4. Keeps(v, u) /\ u.state = v.state /\ "FIN" \notin u.nextFlags
      BY <2>1, <3>3, ProcessKeeps, ProcessFields DEF v
    <3> QED
      BY <3>2, <3>4 DEF Alike, Keeps
  <2>2. PICK flags \in SUBSET Flag : t \in processOutgoingBuffer([s EXCEPT !.nextFlags = flags])
    <3>1. /\ s.nextFlags \in SUBSET Flag /\ s.nextFlags \cup {"ACK"} \in SUBSET Flag
          /\ s.nextFlags \cup {"FIN", "ACK"} \in SUBSET Flag
      BY DEF Sound, SocketTypeOK, Sockets, Flag
    <3>2. /\ [s EXCEPT !.nextFlags = s.nextFlags] = s
          /\ \A more : [s EXCEPT !.nextFlags = @ \cup more] = [s EXCEPT !.nextFlags = s.nextFlags \cup more]
      BY DEF Sound, SocketTypeOK, Sockets
    <3>3. \/ t \in processOutgoingBuffer([s EXCEPT !.nextFlags = s.nextFlags \cup {"FIN", "ACK"}])
          \/ t \in processOutgoingBuffer([s EXCEPT !.nextFlags = s.nextFlags \cup {"ACK"}])
          \/ t \in processOutgoingBuffer([s EXCEPT !.nextFlags = s.nextFlags])
      BY <1>2, <3>2 DEF Outgoing, Synced
    <3> QED
      BY <3>1, <3>3
  <2> QED
    BY <1>2, <2>1, <2>2 DEF Synced
<1>3. CASE s.state \in {"CLOSED", "LISTEN", "CLOSE_WAIT"}
  <2>1. t = s
    BY <1>3 DEF Outgoing
  <2> QED
    BY <1>3, <2>1
<1>4. s.state \in State
  BY DEF Sound, SocketTypeOK, Sockets
<1> QED
  BY <1>1, <1>2, <1>3, <1>4 DEF State, Synced

LEMMA TickTaken ==
    ASSUME TypeOK, TimersRun, Taken, tick, UNCHANGED peer
    PROVE  Taken'
<1>1. CASE timedOut
  BY <1>1, TerminateTaken DEF timedOut, TimedStates
<1>2. CASE ~(socket.stateTimer = 1 /\ socket.state \in TimedStates)
           /\ Become(Outgoing(Counted(socket)))
  <2> DEFINE c == Counted(socket)
  <2>1. Sound(socket) /\ Handed(socket) /\ socket.sent = {}
    BY SocketKnown
  <2>2. /\ c.received = socket.received /\ c.ackNumber = socket.ackNumber
        /\ c.opened = socket.opened /\ c.state = socket.state /\ c.sent = socket.sent
        /\ c.nextFlags = socket.nextFlags /\ Sound(c)
    <3>1. /\ c.received = socket.received /\ c.ackNumber = socket.ackNumber
          /\ c.opened = socket.opened
      BY <2>1 DEF Sound, SocketTypeOK, Sockets, Counted
    <3> QED
      BY <1>2, <2>1, <3>1, CountedFields, CountedSound
  <2> HIDE DEF c
  <2>3. ASSUME NEW t \in Outgoing(c) PROVE Takes(t)
    <3>1. "FIN" \notin c.nextFlags
      BY <2>1, <2>2 DEF Handed
    <3>2. /\ t.received = c.received /\ t.ackNumber = c.ackNumber /\ t.opened = c.opened
          /\ t.state = c.state /\ "FIN" \notin t.nextFlags
          /\ c.state \in {"CLOSED", "LISTEN"} => t.sent = c.sent
          /\ c.state = "SYN_SENT" => t.sent = c.sent \cup {Frame(c, {"SYN"} \cup {}, 0)}
      BY <2>2, <2>3, <3>1, OutgoingKeeps
    <3>3. Handed(t)
      BY <2>1, <2>2, <3>2, SameHanded
    <3>4. Unheard(t) => Unheard(socket) /\ \A seg \in t.sent : "ACK" \notin seg.flags
      <4>1. Unheard(t) => c.state \in {"CLOSED", "LISTEN", "SYN_SENT"}
        BY <2>1, <2>2, <3>2 DEF Unheard, Handed
      <4>2. "ACK" \notin Frame(c, {"SYN"} \cup {}, 0).flags
        BY DEF Frame
      <4> QED
        BY <2>1, <2>2, <3>2, <4>1, <4>2 DEF Unheard
    <3>5. t.state = "SYN_SENT" => ~peer.opens
      BY <2>2, <3>2 DEF Taken, Unheard
    <3> QED
      BY <2>2, <2>3, <3>3, <3>4, <3>5, OutgoingSound DEF Takes
  <2>4. Become(Outgoing(c))
    BY <1>2 DEF c
  <2> QED
    BY <2>3, <2>4, TakesTaken
<1> QED
  BY <1>1, <1>2 DEF tick

LEMMA AckedKeeps ==
    ASSUME NEW s, Sound(s), NEW seg
    PROVE  /\ Acked(s, seg).received = s.received /\ Acked(s, seg).ackNumber = s.ackNumber
           /\ Acked(s, seg).opened = s.opened /\ Acked(s, seg).state = s.state
           /\ Acked(s, seg).nextFlags = s.nextFlags /\ Acked(s, seg).sent = s.sent
           /\ Acked(s, seg).packet = Incoming(seg)
  BY DEF Sound, SocketTypeOK, Sockets, Acked

\* The acknowledgement of a SYN.
LEMMA AfterSYN ==
    ASSUME NEW seg \in Segment, Offered(seg), "SYN" \in seg.flags, "RST" \notin seg.flags
    PROVE  Plus(seg.seq, 1) = PeerSeq(1) /\ Plus(seg.seq, 1) \in SeqNumber
<1>1. seg.seq = PeerSeq(0)
  BY DEF Offered
<1>2. Plus(PeerSeq(0), 1) = PeerSeq(0 + 1) /\ 0 + 1 = 1
  BY PeerSeqPlus
<1>3. PeerSeq(1) \in SeqNumber
  BY PeerSeqType
<1> QED
  BY <1>1, <1>2, <1>3

LEMMA SynAckTaken ==
    ASSUME TypeOK, TimersRun, Taken, UNCHANGED peer, NEW seg \in toSocket, receiveSynAck(seg)
    PROVE  Taken'
<1> DEFINE a == Acked(socket, seg)
           b == [a EXCEPT !.ackNumber = Plus(seg.seq, 1), !.nextFlags = @ \cup {"ACK"}]
           c == setState(b, "ESTABLISHED")
<1>1. /\ Sound(socket) /\ Handed(socket) /\ socket.opened /\ socket.state = "SYN_SENT"
      /\ seg \in Segment /\ Offered(seg) /\ "SYN" \in seg.flags /\ "RST" \notin seg.flags
  BY SocketKnown DEF receiveSynAck, TypeOK, Taken
<1>2. Plus(seg.seq, 1) = PeerSeq(1) /\ Plus(seg.seq, 1) \in SeqNumber
  BY <1>1, AfterSYN
<1>3. /\ a.received = socket.received /\ a.opened = socket.opened
      /\ a.state = socket.state /\ a.nextFlags = socket.nextFlags /\ Sound(a)
  BY <1>1, AckedKeeps, AckedSound
<1> HIDE DEF a
<1>4. /\ b.received = socket.received /\ b.opened /\ b.ackNumber = Plus(seg.seq, 1)
      /\ b.nextFlags = socket.nextFlags \cup {"ACK"}
  BY <1>1, <1>3 DEF Sound, SocketTypeOK, Sockets
<1>5. Sound(b)
  <2>1. [a EXCEPT !.ackNumber = Plus(seg.seq, 1)] = [a EXCEPT !.ackNumber = PeerSeq(1)]
    BY <1>2
  <2>2. Sound([a EXCEPT !.ackNumber = Plus(seg.seq, 1)])
    BY <1>2, <1>3, SetAckSound
  <2>3. b = [[a EXCEPT !.ackNumber = Plus(seg.seq, 1)] EXCEPT !.nextFlags = @ \cup {"ACK"}]
    BY <1>3 DEF Sound, SocketTypeOK, Sockets
  <2> QED
    BY <2>2, <2>3, AckNextSound
<1> HIDE DEF b
<1>6. /\ c.received = b.received /\ c.opened = b.opened /\ c.ackNumber = b.ackNumber
      /\ c.nextFlags = b.nextFlags /\ c.state = "ESTABLISHED"
  BY <1>5, SetStateFields
<1>7. Sound(c)
  BY <1>5, SetStateSound DEF Sound, State
<1> HIDE DEF c
<1>8. Held(c)
  BY <1>1, <1>2, <1>4, <1>6 DEF Held, Handed, InPart, Expects, Synced, Ended, Opening
<1>9. ASSUME NEW t \in onConnect(c) PROVE Takes(t)
  BY <1>7, <1>8, <1>9, ReactionsKeep, ReactionsSound, HeldKept, HeldTakes DEF onConnect
<1>10. Become(onConnect(c))
  BY DEF receiveSynAck, c, b, a
<1> QED
  BY <1>9, <1>10, TakesTaken

LEMMA RequestTaken ==
    ASSUME TypeOK, TimersRun, Taken, UNCHANGED peer, NEW seg \in toSocket, receiveConnectRequest(seg)
    PROVE  Taken'
<1> DEFINE a == Acked(socket, seg)
           b == [a EXCEPT !.ackNumber = Plus(seg.seq, 1)]
           c == sendSYN(b, {"ACK"})
           d == setState(c, "SYN_RECEIVED")
<1>1. /\ Sound(socket) /\ Handed(socket) /\ socket.opened /\ socket.state = "LISTEN"
      /\ seg \in Segment /\ Offered(seg) /\ "SYN" \in seg.flags /\ "RST" \notin seg.flags
      /\ socket.sent = {}
  BY SocketKnown DEF receiveConnectRequest, TypeOK, Taken
<1>2. Plus(seg.seq, 1) = PeerSeq(1) /\ Plus(seg.seq, 1) \in SeqNumber
  BY <1>1, AfterSYN
<1>3. /\ a.received = socket.received /\ a.opened = socket.opened /\ a.sent = {}
      /\ a.ackNumber = socket.ackNumber
      /\ a.state = socket.state /\ a.nextFlags = socket.nextFlags /\ Sound(a)
  BY <1>1, AckedKeeps, AckedSound
<1> HIDE DEF a
<1>4. /\ b.received = socket.received /\ b.opened /\ b.ackNumber = PeerSeq(1)
      /\ b.nextFlags = socket.nextFlags /\ Sound(b)
  <2>1. Sound(b)
    BY <1>2, <1>3, SetAckSound
  <2> QED
    BY <1>1, <1>2, <1>3, <2>1 DEF Sound, SocketTypeOK, Sockets
<1> HIDE DEF b
<1>5. /\ c.received = b.received /\ c.opened = b.opened /\ c.ackNumber = b.ackNumber
      /\ c.nextFlags = b.nextFlags /\ Sound(c)
  <2>1. Sound(c)
    BY <1>4, SendSYNSound DEF Flag
  <2> QED
    BY <1>4, <2>1 DEF sendSYN, Sound, SocketTypeOK, Sockets
<1> HIDE DEF c
<1>6. /\ d.received = c.received /\ d.opened = c.opened /\ d.ackNumber = c.ackNumber
      /\ d.nextFlags = c.nextFlags /\ d.state = "SYN_RECEIVED" /\ Sound(d)
  BY <1>5, SetStateFields, SetStateSound DEF Sound, State
<1> HIDE DEF d
<1>7. Takes(d)
  <2>1. Handed(d)
    BY <1>1, <1>4, <1>5, <1>6 DEF Handed, InPart, Expects, Synced, Ended, Opening
  <2> QED
    BY <1>4, <1>5, <1>6, <2>1 DEF Takes, Unheard
<1>8. Takes(a)
  <2>1. Handed(a)
    BY <1>1, <1>3, SameHanded DEF Handed
  <2> QED
    BY <1>1, <1>3, <2>1 DEF Takes, Unheard
<1>9. Become({a, d})
  BY DEF receiveConnectRequest, onConnectRequest, d, c, b, a
<1> QED
  BY <1>7, <1>8, <1>9, TakesTaken

LEMMA WithoutAckTaken ==
    ASSUME TypeOK, TimersRun, Taken, UNCHANGED peer, NEW seg \in toSocket, receiveWithoutAck(seg)
    PROVE  Taken'
<1> DEFINE a == Acked(socket, seg)
<1>1. /\ Sound(socket) /\ Handed(socket) /\ socket.opened /\ socket.state = "SYN_RECEIVED"
      /\ seg \in Segment
  BY SocketKnown DEF receiveWithoutAck, TypeOK
<1>2. /\ a.received = socket.received /\ a.opened = socket.opened
      /\ a.ackNumber = socket.ackNumber
      /\ a.state = socket.state /\ a.nextFlags = socket.nextFlags /\ Sound(a)
  BY <1>1, AckedKeeps, AckedSound
<1>3. Become({a})
  BY DEF receiveWithoutAck
<1> HIDE DEF a
<1>4. Handed(a)
  BY <1>1, <1>2, SameHanded DEF Handed
<1>5. Takes(a)
  BY <1>1, <1>2, <1>4 DEF Takes, Unheard
<1> QED
  BY <1>3, <1>5, TakesTaken

LEMMA HandshakeAckTaken ==
    ASSUME Separate, TypeOK, TimersRun, Taken, UNCHANGED peer, NEW seg \in toSocket,
           receiveHandshakeAck(seg)
    PROVE  Taken'
<1> DEFINE a == Acked(socket, seg)
           b == setState(a, "ESTABLISHED")
           n == HandshakeBytes(bytesAck(socket, seg))
<1>1. /\ Sound(socket) /\ Handed(socket) /\ socket.opened /\ socket.state = "SYN_RECEIVED"
      /\ seg \in Segment /\ Offered(seg) /\ "RST" \notin seg.flags
  BY SocketKnown DEF receiveHandshakeAck, TypeOK, Taken
<1>2. /\ a.received = socket.received /\ a.opened = socket.opened
      /\ a.ackNumber = socket.ackNumber /\ a.packet = Incoming(seg)
      /\ a.nextFlags = socket.nextFlags /\ Sound(a) /\ bytesAck(socket, seg) \in Int
  BY <1>1, AckedKeeps, AckedSound
<1>3. n \in Int
  BY <1>2 DEF HandshakeBytes
<1>4. Become(UNION {Windowed(s, seg.seq, n) : s \in onConnect(b)})
  BY DEF receiveHandshakeAck
<1> HIDE DEF a, n
<1>5. /\ b.received = a.received /\ b.opened = a.opened /\ b.ackNumber = a.ackNumber
      /\ b.nextFlags = a.nextFlags /\ b.state = "ESTABLISHED" /\ b.packet = a.packet /\ Sound(b)
  BY <1>2, SetStateFields, SetStateSound DEF Sound, State
<1> HIDE DEF b
<1>6. b.received = <<>> /\ Expects(b, 1) /\ Held(b)
  BY <1>1, <1>2, <1>5 DEF Held, Handed, InPart, Expects, Synced, Ended, Opening
<1>7. ASSUME NEW s \in onConnect(b), NEW t \in Windowed(s, seg.seq, n) PROVE Takes(t)
  <2>1. Sound(s) /\ Keeps(b, s) /\ s.packet = b.packet
    BY <1>5, <1>7, ReactionsKeep, ReactionsSound DEF onConnect, Separate
  <2>2. Held(s) /\ Expects(s, Len(s.received) + 1)
    <3>1. s.received = <<>> /\ Expects(s, 1)
      BY <1>6, <2>1 DEF Keeps, Expects
    <3> QED
      BY <1>6, <2>1, <3>1, HeldKept
  <2>3. Held(t)
    BY <1>1, <1>2, <1>3, <1>5, <1>7, <2>1, <2>2, WindowedTaken DEF Awaits
  <2>4. Sound(t)
    BY <1>3, <1>7, <2>1, WindowedSound
  <2> QED
    BY <2>3, <2>4, HeldTakes
<1> QED
  BY <1>4, <1>7, TakesTaken

LEMMA SegmentTaken ==
    ASSUME Separate, TypeOK, TimersRun, Taken, UNCHANGED peer, NEW seg \in toSocket,
           receiveSegment(seg)
    PROVE  Taken'
<1> DEFINE a == Acked(socket, seg)
           n == bytesAck(socket, seg)
<1>1. /\ Sound(socket) /\ Handed(socket) /\ socket.opened /\ seg \in Segment
      /\ Offered(seg) /\ "RST" \notin seg.flags /\ socket.state \in State
      /\ socket.state \notin {"CLOSED", "SYN_RECEIVED"}
  BY SocketKnown DEF receiveSegment, TypeOK, Taken
<1>2. socket.state \notin {"LISTEN", "SYN_SENT"}
  BY <1>1 DEF Taken, Unheard, receiveSegment, Offered
<1>3. Held(socket)
  BY <1>1, <1>2 DEF Held, State, Synced
<1>4. /\ a.received = socket.received /\ a.opened = socket.opened
      /\ a.ackNumber = socket.ackNumber /\ a.packet = Incoming(seg) /\ a.state = socket.state
      /\ a.nextFlags = socket.nextFlags /\ Sound(a) /\ n \in Int
  BY <1>1, AckedKeeps, AckedSound
<1>5. Become(Windowed(a, seg.seq, n))
  BY DEF receiveSegment
<1> HIDE DEF a, n
<1>6. Awaits(a)
  BY <1>1, <1>3, <1>4 DEF Awaits, Held, Handed, InPart, Expects, Synced, Ended
<1>7. ASSUME NEW t \in Windowed(a, seg.seq, n) PROVE Takes(t)
  BY <1>1, <1>4, <1>6, WindowedTaken, WindowedSound, HeldTakes
<1> QED
  BY <1>5, <1>7, TakesTaken

LEMMA SocketTaken ==
    ASSUME Separate, TypeOK, TimersRun, Taken, SocketNext, UNCHANGED peer
    PROVE  Taken'
<1>1. CASE connect /\ ~peer.opens
  BY <1>1, ConnectTaken
<1>2. CASE listen
  BY <1>2, ListenTaken
<1>3. CASE applicationCall
  BY <1>3, ApplicationTaken
<1>4. CASE applicationTerminate
  BY <1>4, TerminateTaken DEF applicationTerminate
<1>5. CASE tick
  BY <1>5, TickTaken
<1>6. ASSUME NEW seg \in toSocket, onPacketReceived(seg)
      PROVE  Taken'
  <2>1. CASE receiveReset(seg)
    BY <2>1, TerminateTaken DEF receiveReset
  <2> QED
    BY <1>6, <2>1, SynAckTaken, RequestTaken, WithoutAckTaken, HandshakeAckTaken, SegmentTaken
       DEF onPacketReceived
<1> QED
  BY <1>1, <1>2, <1>3, <1>4, <1>5, <1>6 DEF SocketNext

LEMMA PeerSendsTaken ==
    ASSUME Taken, UNCHANGED socket, NEW seg, PeerSends(seg), Offered(seg),
           peer'.opens = peer.opens, peer'.una = peer.una,
           Unheard(socket) => "SYN" \in seg.flags \/ "RST" \in seg.flags
    PROVE  Taken'
<1>1. toPeer' = toPeer /\ toSocket' \subseteq toSocket \cup {seg}
  BY DEF PeerSends, Sent
<1>2. \A other : Offered(other) => Offered(other)'
  BY DEF Offered, Starts
<1> QED
  BY <1>1, <1>2 DEF Taken

LEMMA PeerTaken ==
    ASSUME TypeOK, Taken, PeerNext, UNCHANGED socket
    PROVE  Taken'
<1>1. peer \in Peers /\ PeerData \in Nat
  BY TCPPeerAssumption, TCPNetworkAssumption DEF TypeOK
<1>2. peer.una > 0 => ~Unheard(socket)
  BY DEF Taken
<1>3. CASE peerConnect
  <2> DEFINE seg == [flags |-> {"SYN"}, seq |-> PeerSeq(0), ack |-> 0, from |-> 1, len |-> 0]
  <2>1. PeerSends(seg) /\ Offered(seg) /\ peer'.opens = peer.opens /\ peer'.una = peer.una
    BY <1>1, <1>3 DEF peerConnect, Offered, Peers
  <2> QED
    BY <2>1, PeerSendsTaken
<1>4. CASE peerAccept
  <2> DEFINE seg == [flags |-> {"SYN", "ACK"}, seq |-> PeerSeq(0), ack |-> PeerAck, from |-> 1, len |-> 0]
  <2>1. PeerSends(seg) /\ Offered(seg) /\ peer'.opens = peer.opens /\ peer'.una = peer.una
    BY <1>1, <1>4 DEF peerAccept, Offered, Peers
  <2> QED
    BY <2>1, PeerSendsTaken
<1>5. ASSUME NEW first \in 1 .. FinUnit, NEW n \in 0 .. PeerData, NEW fin \in BOOLEAN,
             peerSend(first, n, fin)
      PROVE  Taken'
  <2> DEFINE seg == [flags |-> {"ACK"} \cup (IF fin THEN {"FIN"} ELSE {}),
                     seq |-> PeerSeq(first), ack |-> PeerAck, from |-> first, len |-> n]
  <2>1. PeerSends(seg) /\ peer'.opens = peer.opens /\ peer'.una = peer.una /\ peer.una > 0
    BY <1>1, <1>5 DEF peerSend, Peers
  <2>2. Offered(seg)
    <3>1. /\ "SYN" \notin seg.flags /\ seg.seq = PeerSeq(first) /\ seg.len = n /\ seg.from = first
          /\ "FIN" \in seg.flags => fin
      OBVIOUS
    <3>2. /\ first \in 1 .. PeerData + 2 /\ first + n <= PeerData + 1
          /\ fin => first + n = PeerData + 1
      BY <1>1, <1>5 DEF peerSend, FinUnit
    <3> HIDE DEF seg
    <3> QED
      BY <3>1, <3>2 DEF Offered, Starts
  <2> QED
    BY <1>2, <2>1, <2>2, PeerSendsTaken
<1>6. CASE peerAcknowledge
  <2> DEFINE seg == [flags |-> {"ACK"}, seq |-> PeerSeq(peer.nxt), ack |-> PeerAck, from |-> 1, len |-> 0]
  <2>1. PeerSends(seg) /\ peer' = peer /\ peer.una > 0 /\ peer.nxt = FinUnit + 1
    BY <1>6 DEF peerAcknowledge
  <2>2. Offered(seg)
    <3>1. "SYN" \notin seg.flags /\ seg.seq = PeerSeq(peer.nxt) /\ seg.len = 0 /\ "FIN" \notin seg.flags
      OBVIOUS
    <3>2. peer.nxt \in 1 .. PeerData + 2
      BY <1>1, <2>1 DEF FinUnit
    <3> HIDE DEF seg
    <3> QED
      BY <3>1, <3>2 DEF Offered, Starts
  <2> QED
    BY <1>2, <2>1, <2>2, PeerSendsTaken
<1>7. CASE peerReset
  <2> DEFINE seg == [flags |-> {"RST"}, seq |-> PeerSeq(peer.nxt), ack |-> 0, from |-> 1, len |-> 0]
  <2>1. PeerSends(seg) /\ Offered(seg) /\ peer'.opens = peer.opens /\ peer'.una = peer.una
    BY <1>1, <1>7 DEF peerReset, Offered, Peers
  <2> QED
    BY <2>1, PeerSendsTaken
<1>8. ASSUME NEW seg \in toPeer, peerReceiveSyn(seg) \/ peerReceive(seg)
      PROVE  Taken'
  <2>1. PICK u \in Unacknowledged(seg) : peer'.una = u
    BY <1>1, <1>8 DEF peerReceiveSyn, peerReceive, Peers
  <2>2. peer'.opens = peer.opens /\ UNCHANGED <<toPeer, toSocket>>
    BY <1>1, <1>8 DEF peerReceiveSyn, peerReceive, Peers
  <2>3. Unheard(socket) => peer'.una = 0
    BY <2>1 DEF Taken, Unacknowledged
  <2>4. \A other : Offered(other) => Offered(other)'
    BY <2>2 DEF Offered, Starts
  <2> QED
    BY <2>2, <2>3, <2>4 DEF Taken
<1> QED
  BY <1>3, <1>4, <1>5, <1>6, <1>7, <1>8 DEF PeerNext

LEMMA TakenInit == Init => Taken
<1> SUFFICES ASSUME Init PROVE Taken
  OBVIOUS
<1>1. socket = Fresh /\ toPeer = {} /\ toSocket = {} /\ peer.una = 0
  BY DEF Init, SocketInit, PeerInit, NetworkInit
<1>2. PeerData \in Nat
  BY TCPPeerAssumption, TCPNetworkAssumption
<1>3. Handed(socket)
  BY <1>1, <1>2 DEF Fresh, Handed, InPart, InOrder, Synced, Ended, Opening
<1> QED
  BY <1>1, <1>3 DEF Fresh, Taken

LEMMA TakenStep ==
    ASSUME Separate, TypeOK, TimersRun, Taken, [Next]_vars
    PROVE  Taken'
<1>1. CASE SocketNext /\ UNCHANGED peer
  BY <1>1, SocketTaken
<1>2. CASE PeerNext /\ UNCHANGED socket
  BY <1>2, PeerTaken
<1>3. CASE Lose /\ UNCHANGED <<socket, peer>>
  <2>1. toPeer' \subseteq toPeer /\ toSocket' \subseteq toSocket
    BY <1>3 DEF Lose
  <2>2. \A seg : Offered(seg) => Offered(seg)'
    BY <1>3 DEF Offered, Starts
  <2> QED
    BY <1>3, <2>1, <2>2 DEF Taken
<1>4. CASE UNCHANGED vars
  BY <1>4 DEF vars, Taken, Offered, Starts
<1> QED
  BY <1>1, <1>2, <1>3, <1>4 DEF Next

LEMMA TakenAlways ==
    ASSUME Separate
    PROVE  Spec => [](TypeOK /\ TimersRun /\ Taken)
<1>1. Init => TypeOK /\ TimersRun /\ Taken
  BY TypeInit, TakenInit
<1>2. TypeOK /\ TimersRun /\ Taken /\ [Next]_vars => (TypeOK /\ TimersRun /\ Taken)'
  BY TypeStep, TakenStep
<1> QED
  BY <1>1, <1>2, PTL DEF Spec

(* What the application is handed is what the peer sent, from its first    *)
(* byte on, in order and once each, however the segments are lost,         *)
(* repeated, reordered or cut, and whether or not it calls push(), close() *)
(* or terminate() while a segment is handled.                              *)
THEOREM DeliveredIsIntact ==
    ASSUME Separate
    PROVE  Spec => []DeliveredIntact
<1>1. Taken => DeliveredIntact
  BY DEF Taken, Handed, InPart, DeliveredIntact
<1> QED
  BY <1>1, TakenAlways, PTL

(* The socket is in a state after the peer's FIN only when the application *)
(* has been handed every byte that came before it.                         *)
THEOREM CloseComesLast ==
    ASSUME Separate
    PROVE  Spec => []CloseAfterAllData
<1>1. Taken => CloseAfterAllData
  BY DEF Taken, Handed, Ended, CloseAfterAllData
<1> QED
  BY <1>1, TakenAlways, PTL
=============================================================================
