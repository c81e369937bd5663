------------------------------- MODULE Socket -------------------------------
(***************************************************************************)
(* What UDP and TCP sockets share (Socket.cpp): the ways to write to the   *)
(* socket's buffer, a pattern with substitutions among them, and the       *)
(* checksums of the frame that fillTxBuffer then makes of the fragments,   *)
(* combined from those stored with them without reading the payload again. *)
(***************************************************************************)
EXTENDS Checksum, SequencesExt

CONSTANTS
    BufSize,        \* sizeof(buf) of the pattern writer: 16
    HeaderSize,     \* sizeof(BufferHeader): 6
    FrameRoom,      \* payload that fits in the transmit buffer
    MaxRoom,        \* bound: free space of the shared buffer
    MaxArgument,    \* bound: the longest String or block written at once
    MaxAsked        \* bound: characters of one call

ASSUME SocketAssumption ==
    /\ BufSize \in Nat \ {0}
    /\ {HeaderSize, FrameRoom, MaxRoom, MaxArgument, MaxAsked} \subseteq Nat

VARIABLES
    fragments,  \* the fragments of this socket in the shared buffer
    room,       \* what one more fragment may hold
    writing,    \* write(pattern, ...) is running
    buf,        \* its characters that are not written yet
    bytes,      \* what the running, or last, call has stored so far
    frame,      \* the payload and checksum fillTxBuffer just made, if it did
    before,     \* history: what the buffer held when that call began
    wanted      \* history: what that call was asked to write so far

stored == <<fragments, room, bytes>>
socketVars == <<fragments, room, writing, buf, bytes, frame, before, wanted>>

-----------------------------------------------------------------------------
NoFrame == [data |-> <<>>, checksum |-> 0]

\* Writing

Argument == UNION {[1 .. n -> Byte] : n \in 0 .. MaxArgument}

\* SharedBuffer::write of data into b: what does not fit is left out, and
\* nothing is stored of nothing.
Put(b, data) ==
    LET fragment == SubSeq(data, 1, Min({Len(data), b.room}))
    IN  IF fragment = <<>> THEN b
        ELSE [fragments |-> Append(b.fragments, fragment),
              room      |-> Max({0, b.room - Len(fragment) - HeaderSize}),
              bytes     |-> b.bytes + Len(fragment)]

\* The buffer after several blocks are written one behind the other.
PutAll(done, datas) ==
    LET b == FoldLeft(Put, [fragments |-> fragments, room |-> room, bytes |-> done], datas)
    IN  /\ fragments' = b.fragments
        /\ room' = b.room
        /\ bytes' = b.bytes

\* write(len, data), write(String) or write<T>(message).
writeData(data) ==
    /\ ~writing
    /\ PutAll(0, <<data>>)
    /\ before' = FlattenSeq(fragments)
    /\ wanted' = data
    /\ frame' = NoFrame
    /\ UNCHANGED <<writing, buf>>

\* write(pattern, ...) begins.
patternBegin ==
    /\ ~writing
    /\ writing' = TRUE
    /\ buf' = <<>>
    /\ bytes' = 0
    /\ before' = FlattenSeq(fragments)
    /\ wanted' = <<>>
    /\ frame' = NoFrame
    /\ UNCHANGED <<fragments, room>>

\* Mutant: the last place of buf is never used, and its character is lost.
patternChar_Short(c) ==
    /\ writing
    /\ Len(wanted) < MaxAsked
    /\ wanted' = Append(wanted, c)
    /\ IF Len(buf) + 1 = BufSize
       THEN PutAll(bytes, <<buf>>) /\ buf' = <<>>
       ELSE buf' = Append(buf, c) /\ UNCHANGED stored
    /\ UNCHANGED <<writing, frame, before>>

\* A character of the pattern, %% among them, which stands for a %.
patternChar(c) ==
    /\ writing
    /\ Len(wanted) < MaxAsked
    /\ wanted' = Append(wanted, c)
    /\ IF Len(buf) + 1 = BufSize
       THEN PutAll(bytes, <<Append(buf, c)>>) /\ buf' = <<>>
       ELSE buf' = Append(buf, c) /\ UNCHANGED stored
    /\ UNCHANGED <<writing, frame, before>>

\* A % of the pattern: the next argument is written in its place.
substitute(argument) ==
    /\ writing
    /\ Len(wanted) + Len(argument) <= MaxAsked
    /\ PutAll(bytes, <<buf, argument>>)
    /\ buf' = <<>>
    /\ wanted' = wanted \o argument
    /\ UNCHANGED <<writing, frame, before>>

\* The end of the pattern.
patternEnd ==
    /\ writing
    /\ PutAll(bytes, <<buf>>)
    /\ writing' = FALSE
    /\ buf' = <<>>
    /\ UNCHANGED <<frame, before, wanted>>

-----------------------------------------------------------------------------
\* Sending

\* How many fragments go into a frame: up to count, as long as the next one
\* fits behind the others.
Fitting(count) ==
    Max({n \in 0 .. Min({count, Len(fragments)}) :
            Len(FlattenSeq(SubSeq(fragments, 1, n))) <= FrameRoom})

\* One round of fillTxBuffer: a fragment, stored with its checksum, is copied
\* behind the others.
copyFragment(f, fragment) ==
    [data     |-> f.data \o fragment,
     checksum |-> addAt(f.checksum, calc(fragment), Len(f.data) % 2 = 1)]

fillTxBuffer(count) ==
    /\ ~writing
    /\ frame' = FoldLeft(copyFragment, NoFrame, SubSeq(fragments, 1, Fitting(count)))
    /\ bytes' = 0
    /\ before' = FlattenSeq(fragments)
    /\ wanted' = <<>>
    /\ UNCHANGED <<fragments, room, writing, buf>>

\* Between two calls fragments are released, and other buffers take or free
\* room.
bufferChanges ==
    /\ ~writing
    /\ \E n \in 0 .. Len(fragments), r \in 0 .. MaxRoom :
        LET kept == SubSeq(fragments, n + 1, Len(fragments))
        IN  /\ Len(FlattenSeq(kept)) + r <= MaxRoom
            /\ fragments' = kept
            /\ room' = r
            /\ before' = FlattenSeq(kept)
    /\ bytes' = 0
    /\ wanted' = <<>>
    /\ frame' = NoFrame
    /\ UNCHANGED <<writing, buf>>

Protocol == {"UDP", "TCP", "TCP with options"}

\* Options are in the SYN of this code, and in any segment of a peer. Bytes of
\* the packet around the payload: what they are does not matter, how
\* many does. The checksum stands apart.
Addresses == <<1, 2 % ByteBase>>
Header(protocol) ==
    CASE protocol = "UDP" -> <<3 % ByteBase, 1>>
      [] protocol = "TCP" -> <<1, 2 % ByteBase, 3 % ByteBase, 1>>
      [] protocol = "TCP with options" -> <<1, 2 % ByteBase, 3 % ByteBase, 1, 1, 3 % ByteBase>>
Number(protocol) == IF protocol = "UDP" THEN ByteBase - 1 ELSE 1

Not(word) == WordMod - 1 - word
InBytes(word) == <<word % ByteBase, word \div ByteBase>>

\* The addresses, the protocol and the length, most significant byte first.
calcPseudoHeaderChecksum(addresses, protocol, length) ==
    add(calc(addresses),
        calc(<<0, Number(protocol), length \div ByteBase, length % ByteBase>>))

\* calcTCPChecksum and calcUDPChecksum, over a header with its checksum field.
calcFrameChecksum(addresses, protocol, header, length, dataChecksum) ==
    Not(add(add(calcPseudoHeaderChecksum(addresses, protocol, length + Len(header)),
                calc(header)),
            dataChecksum))

\* The packet sent with the payload of the frame: its checksum is computed
\* with a zero in the field.
Packet(protocol) ==
    LET header == Header(protocol)
        checksum == calcFrameChecksum(Addresses, protocol, header \o <<0, 0>>,
                                      Len(frame.data), frame.checksum)
    IN  [addresses |-> Addresses,
         protocol  |-> protocol,
         header    |-> header \o InBytes(checksum),
         data      |-> frame.data]

\* Mutant: the options are taken to be outside header and data.
verifyUDPTCPChecksum_Options(p) ==
    LET size == Len(Header(IF p.protocol = "UDP" THEN "UDP" ELSE "TCP")) + 2
    IN  0 = calcFrameChecksum(p.addresses, p.protocol, SubSeq(p.header, 1, size),
                              Len(p.data), calc(p.data))

\* What the receiver makes of a packet. The end of longer TCP headers, their
\* options, is data to it.
verifyUDPTCPChecksum(p) ==
    LET size == Len(Header(IF p.protocol = "UDP" THEN "UDP" ELSE "TCP")) + 2
        bytesOf == p.header \o p.data
        data == SubSeq(bytesOf, size + 1, Len(bytesOf))
    IN  0 = calcFrameChecksum(p.addresses, p.protocol, SubSeq(bytesOf, 1, size),
                              Len(data), calc(data))

-----------------------------------------------------------------------------

SocketInit ==
    /\ fragments = <<>>
    /\ room \in 0 .. MaxRoom
    /\ writing = FALSE
    /\ buf = <<>>
    /\ bytes = 0
    /\ frame = NoFrame
    /\ before = <<>>
    /\ wanted = <<>>

SocketNext ==
    \/ \E argument \in Argument : writeData(argument) \/ substitute(argument)
    \/ \E c \in Byte : patternChar(c)
    \/ patternBegin
    \/ patternEnd
    \/ \E count \in 1 .. Len(fragments) : fillTxBuffer(count)
    \/ bufferChanges

SocketSpec == SocketInit /\ [][SocketNext]_socketVars

-----------------------------------------------------------------------------

(* A call stores what it was asked to write, in order and nothing else; it *)
(* tells how much of it, and leaves out an end only when there is no room: *)
(* nothing behind the first byte left out is stored.                       *)
PatternWritten ==
    /\ FlattenSeq(fragments) = before \o SubSeq(wanted, 1, bytes)
    /\ room > 0 => bytes + Len(buf) = Len(wanted)

(* However the payload was cut into fragments, at odd places or even, the  *)
(* combined checksum is that of the bytes that go out.                     *)
ChecksumOfFrame == frame.checksum = calc(frame.data)

\* The packets a change of one byte makes of p.
Changed(p) ==
    (UNION {{[p EXCEPT ![part][i] = b] : i \in DOMAIN p[part], b \in Byte} :
                part \in {"addresses", "header", "data"}}) \ {p}

(* The receiver accepts what the sender makes of a payload, with the       *)
(* checksum in front of it, and no packet with one byte changed.           *)
FrameVerified ==
    \A protocol \in Protocol :
        LET p == Packet(protocol)
        IN  /\ verifyUDPTCPChecksum(p)
            /\ \A q \in Changed(p) : ~verifyUDPTCPChecksum(q)
=============================================================================
