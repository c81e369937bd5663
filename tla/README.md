# A verification development for EtherDune

EtherDune is a TCP/IP stack for an 8-bit Arduino with an ENC28J60 Ethernet
controller. It has no threads and one packet buffer: everything happens in
`NetworkService::loop()`, which handles one incoming frame, and ticks every
service ten times a second. What makes it hard is not parallelism but *order*:
a handler runs callbacks that call back into the library, every handler reads
and writes the same packet buffer, all sockets share one ring of outgoing data,
and the network loses, delays, repeats and reorders what is sent.

This directory holds TLA+ models of the stack, configurations that check them
with TLC, and proofs that TLAPS checks. The models are translated from `src/`;
`PROJECT.json` gives, for each definition, the lines it stands for.

## 1. Inventory

| Component | State | Operations | Must be correct in |
|---|---|---|---|
| SharedBuffer (`SharedBuffer.cpp`, `List.cpp`) | the ring in the controller's memory; `head`, `usedSpace` shared; `nextRead`, `lastWritten` per instance; the list of instances | `write`, `release`, `flush`, `fillTxBuffer`, construction, destruction | no write over data someone still has to send; no space lost; each instance is a FIFO of its own; frames byte for byte |
| TCPSocket (`TCPSocket.cpp`, `Stateful.cpp`) | state and its timer, sequence and acknowledgement number, flags for the next segment, its part of the SharedBuffer | `connect`, `listen`, `accept`, `write`, `push`, `close`, `terminate`, `tick`, `onPacketReceived`, and the application's callbacks | both streams intact and in order; nothing released before the peer has it; FIN after the data; every closing state ends |
| Checksum (`Checksum.cpp`) | none | `add`, `calc`, and the combination of fragments' checksums | equal to the checksum of the whole frame |
| ARP (`ARP.cpp`) | a table of a few entries with a time to live, a minute timer | `whoHas`, `processARPReply`, `tick`, replies to others | one entry per host, the latest answer, expiry, eviction of the oldest |
| Socket (`Socket.cpp`) | the buffer it shares with TCPSocket and UDPSocket | every `write()`, with patterns and substitutions; pseudo-header, checksum and verification | what is stored is a prefix of what was asked; a good packet is accepted, a changed one is not |
| UDPSocket (`UDPSocket.cpp`) | its buffer, whether a datagram waits for ARP | `write`, `send`, `tick` | nothing lost or sent twice; the wait ends |
| DNS (`DNS.cpp`, `NetworkService::notifyOnDNSResolve`) | queries in its buffer, one timer | `resolve`, `onReceive`, `tick` | each query timed; answers reach who asked; it comes to rest |
| HTTPClient (`HTTPClient.cpp`) | id it waits for, address, patterns of the response | `request`, `onDNSResolve`, `onConnect`, `onReceive`, `onClose` | takes only its own answer, wherever the response is cut |
| DHCP (`DHCP.cpp`) | state, timer, attempts, renewal timer, address | `dhcpSetup` (blocks, turning the loop), `onReceive`, `tick` | `dhcpSetup` returns; requests what was offered; renews in time |
| NetworkService (`NetworkService.cpp`) | list of services, millisecond clock | `loop`, `processIncomingPackets`, `sendIPPacket`, `notifyOnDNSResolve` | each service called once per walk, also when the list changes; walks end |
| TCPListener (`TCPListener.h`) | an array of sockets over one port | `onConnectRequest`, hand-out of free sockets | one socket per connection, also when reused |
| HTTPServer (`HTTPServer.cpp`) | stage of the request, patterns, remaining content | parse of a request cut into segments anywhere; the response, begun in any callback | same result wherever it is cut; nothing of the last connection; an answered socket becomes free |
| ENC28J60 (`ENC28J60.cpp`) | the controller's receive ring, the pointer to the next frame, the selected bank | `begin`, `loadSample`, `loadAll`, `release`, `packetSend`, `moveMem` | frames whole, once and in order; all space given back; no register of a wrong bank |
| ICMP (`ICMP*.cpp`) | the packet buffer | echo requests answered, sent, replies taken | a reply carries its request's data back |
| `inet.h`, `config.h`, `HTTPConstants.h`, examples | none of their own | | |

How they interact. `loop()` calls `tick()` of every service in its list and
offers it each frame, the newest service first: the sockets of a
TCPListener are asked before the listener. A TCPSocket, a UDPSocket and through them DNS and DHCP
write into the SharedBuffer and build their header in the *same* packet buffer
an incoming segment is being read from. `sendIPPacket` asks ARP for the next
hop; on a miss it sends an ARP request and says so: a UDPSocket waits for the
answer, a TCPSocket relies on its next tick. A DNS response is announced to
every service; an HTTPClient that waits for its id connects its TCPSocket.
Callbacks (`onConnect`, `onReceive`, `onClose`, `onConnectRequest`,
`onDNSResolve`) run in the middle of a handler, which reads its fields and the
packet buffer again afterwards.

What can go wrong and is hard to reach with a test is listed, at its line, in
`PROJECT.json` under `hazards`.

## 2. The modules

| Module | Models | How |
|---|---|---|
| `SharedBuffer` | the ring and its instances | one cell of `mem` is a part of a header or a byte; a header takes two cells, so that it can be split by the end of the ring. `write`, `release`, `flush`, `construct`, `destroy` are the methods. The contents of a header that was run over are arbitrary. |
| `PrivateFifos` | what SharedBuffer promises: a queue of fragments per instance | abstract specification |
| `SharedBufferReads` | reading back: the chain of headers, `fillTxBuffer`, the copy by `moveMem` | the refinement `Fifos == INSTANCE PrivateFifos WITH queue <-` what the ring decodes to, `newest <-` what `lastWritten` points at (so that a write that is lost is no stuttering step) |
| `Checksum` | the one's complement sum with carry, byte swap, fragments | operators over bytes of base `ByteBase` |
| `Socket` | `write` of blocks, Strings and patterns; the frame made of fragments, its checksum and packet; the receiver's verification | the pattern writer is a step per character, with `buf` its 16 bytes; `room` is what the shared buffer has for one more fragment |
| `TCPNetwork` | segments, `uint32_t` numbers, a network that loses, delays, duplicates and reorders | external, the arithmetic and the header excepted |
| `TCPPeer` | the other end: any TCP that keeps to RFC 793 | external |
| `TCPSocket` | a socket and its application | each method is an operator from a socket to the sockets it may leave; callbacks are sets of reactions, so that a handler is one step with the application's calls *inside* it |
| `TCPConnection` | the three together | composition and properties |
| `HTTPServer` | the parser and the writer of a response, with the application of `HTTPServerDemo_MultipleClients.ino` | operators on a socket, one per method; a text is a sequence of symbols, each a character or a run that the code treats alike |
| `HTTPClient` | the scan of a response, with the application of `HTTPClientDemo_REST.ino` | operators, over the same symbols |
| `WebServer` | a TCPListener of HTTPServers, asked by HTTPClients | composes the two above; the state machine of section 2.1 |
| `ARP` | the table | operators and invariants, without a next-state relation |
| `UDPSocket` | sockets that send through ARP, replies and announcements of hosts | extends `ARP`; a tick visits all sockets and then the table, as `loop()` does |
| `DNSClient` | the resolver, the HTTPClients' use of it, a name server | `out`, in each action that sends, is whether the next hop is known |
| `DHCPClient` | the client, `dhcpSetup`, servers, network | `setup = "running"` is the loop in `dhcpSetup`; its condition is looked at between rounds (`InLoop`) |
| `PacketQueue` | what the controller and its driver promise: frames in order, once, as much of each as is asked for | abstract specification |
| `ENC28J60` | the chip's receive ring and the driver; the bank of every register access | the refinement `Frames == INSTANCE PacketQueue WITH queue <-` the frames that the ring's headers chain. The chip receives between any two steps; `release` is two steps, its pointer and its count |
| `NetworkService` | `loop()` over `PacketQueue`: the walks of the list of services | each call of a service is a step, and may construct or destroy others |
| `ICMP` | the two ICMP services on that list, with the sketch `PingTest` | extends `NetworkService` |
| `MC*` | values for TLC | |
| `*Proofs` | theorems | section 5 |

Details that matter for fidelity:

- *The packet buffer.* In `TCPSocket`, the field `packet` is what the handler
  sees when it reads the buffer again after a callback: a `push()` in a callback
  replaces it by the header of what was sent. `Bytes` of an overwritten packet
  are marked 0, a byte the peer never sends. In `DHCPClient` the REQUEST is
  built over the OFFER, in `ICMP` the reply over the request.
- *The buffer of a TCPSocket* is abstracted to positions in its stream
  (`released`, and the ends of waiting `fragments`); that a SharedBuffer
  instance behaves like such a queue is what `SharedBufferReads` shows.
- *Widths.* Sequence numbers are modulo `2 * HalfSeq` with the signed difference
  of the code; DHCP's `attempts` and `renewalTimer` are modulo `ByteMod` and
  `TimerMod`; `DefaultRenewal` is computed modulo `IntMod`, as an `unsigned int`
  of the supported boards; a TTL is a signed byte whose unused value is -2;
  `httpMethod` is a byte and `contentLength` 16 bits; the length that is
  copied of an echo reply is a byte.
- *Undefined contents.* Space of the receive ring that was given back is blank
  at once: a driver that still read it would read nothing it could use.
- *History variables* (said so in each module) record what was sent, learned,
  offered, called or stated. No guard of a modelled operation reads them, but
  for the bounds.

### 2.1 What WebServer takes from TCPConnection

`TCPConnection` shows, for one connection, that data arrives in order and
whole, that the FIN comes behind it and that every closing state ends.
`WebServer` starts from there: a segment carries the next symbols of the stream,
as many as it likes; a connection breaks at any time, on either side; the closing
states are one. What it adds is what needs several sockets: to whom a segment
goes (`Handles`: the first service of the list whose guard takes it, the
listener for whatever no socket takes), a SYN that comes at any time and again,
`accept(listener)` of the first socket that is CLOSED, and the state that a
socket keeps from one connection to the next.

Simplifications: a TCPSocket always knows the MAC address of its peer (a miss is
a lost frame); a socket connects from CLOSED only; the application of a
TCPSocket writes between `onConnect` and its own `close()`; no fragment is longer
than the transmit buffer; the room of DNS in the SharedBuffer is a constant; the
application of an HTTPServer answers at once, in one of the callbacks, as the
examples do.

## 3. The runs

| Run | Asks | Bounds and why they suffice |
|---|---|---|
| SharedBuffer | are the ring's space and contents right, and does it implement private FIFOs? | 3 instances, of which the oldest (as the `TCPListener` in its program) never writes; capacity 9 cells, fragments to 3: three fragments and their headers already wrap in every position, full, and with headers and payloads split |
| Socket | is what is stored what was asked, and is the checksum right at both ends? | bytes of base 3, `buf` of 2 bytes, calls of 3 characters with arguments of up to 2, room for 5: a pattern overflows `buf` before, at and behind a substitution, and the buffer fills up at each place; frames to 4 bytes of fragments at odd and even places; all three kinds of header |
| TCPConnection | do handshake, data and closing work, for a socket that accepts and for one that connects? | 2 bytes out, 1 byte in, sequence numbers modulo 16 that start at 14 and 15 and wrap in the handshake or the data; 1 segment on its way to the peer and 2 to the socket, so that old and new ones overtake each other; timers of 2 ticks; resets |
| TCPClosing | do fragments of different lengths leave together and go together, and does closing end? | 3 bytes in fragments of 1 and 2, 1 segment each way, fairness of `tick` only |
| TCPShortWindow (violation) | ... also when the peer takes part of a fragment? | one fragment of 2 bytes, a peer that takes 1 |
| WebServer | is each connection served by one socket, each request parsed alike wherever it is cut, each client told its own answer, and does an answered socket return? | 2 sockets, 2 connections that may be opened again and again, one of which carries a request in pieces cut anywhere and the other in one (`Uncut`; what one parser does with a cut does not depend on the other); requests with and without headers and with a body; applications that answer in any callback or never |
| HTTPRequestEnd (violation) | is the end of a request announced behind its body? | one socket, one request |
| UDPSocket | is the ARP table right when there are more hosts than entries, is everything sent once and in order, and does the wait end? | 3 hosts, 2 entries that live 2 minutes, 2 sockets, one with two fragments and two datagrams, 2 MAC addresses, transmit buffer for 2 fragments |
| DNSClient | does each client get its own answer, and does the resolver rest? | 2 clients, 2 names, 3 queries, room for 2, 2 messages each way |
| DHCPClient | are requests, leases, timers and attempts right, and do waits end? | 2 servers, leases shorter and longer than a timer of 4 values, attempts modulo 8 that wrap, 2 messages each way |
| ENC28J60 | are frames handled whole, once and in order, is space given back, is every register met? | a ring of 12 cells, frames of 1 to 4, a sample of 1 and a buffer of 3: a ring full and empty, headers and data at every place of it, frames shorter than the sample, as long as the buffer and longer; bad frames; resets |
| ICMP | is every service called once per walk, do walks end, is an echo answered with its data? | 5 services, 2 of them there from the first and 3 that come and go; 2 frames that wait; an echo request that fits, with padding, one whose length a byte does not hold, and one that does not fit |

What the main properties say is in the comment above each. Every property of a
passing run has a mutant, a definition changed as a plausible bug would change
it, for which TLC finds the property violated.

Deadlock is checked but in the three TCP runs, where socket and peer may both be
through: closed, reset and silent.

**Fairness.** Only what the code's scheduling gives: `NetworkService::loop()`
runs for ever and ticks every service (`WF(tick)`, `WF(socketEnds(i))`), a program
that calls it goes on in it (`WF(loop)` in ICMP), and `dhcpSetup()` goes on when
its loop has ended. No message need ever arrive: the closing states of TCP, an
answered HTTPServer, the rest of DNS, and DHCP's `dhcpSetup` and REQUESTs end by
timers alone. The one exception is `SendEnds`, whose wait for ARP has no timer
in the code: a host that is asked for ever answers some time (`SF(reply)`). Even
then the wait need not end while more hosts than entries are heard of, because
their replies may take the entry before the next tick, each time; so the
property has a premise, `Settles`: from some time on no live entry is given
to another host.

## 4. Where code and comments disagree

Two are shown by a run with a counterexample (`findings` in `PROJECT.json`):

- a partial acknowledgement releases a whole fragment (`TCPSocket.cpp:507`,
  against the assertion in 510);
- `HTTPServer.cpp:131` takes the number of every header *but* Content-Length for
  the length of the body (`strcasecmp_P` is zero for equal strings), so
  `onRequestEnd` comes at the empty line in front of the body, or not at all
  (`HTTPServer.h:32`: "called after all the body has been received").

Others were met while the models were written, and are kept out of the passing
runs by their constants, or not claimed by any property.

SharedBuffer and sockets:

- `SharedBuffer.cpp:178`: the recount of `release()` ends at the item without a
  next one, so the backlog of the oldest instance is never counted, against
  `SharedBuffer.h:134-136`. It is harmless as long as the oldest never writes;
  `SpaceAccounted` and the theorem are about all others.
- `TCPSocket.cpp:448`: in LAST_ACK any segment that is next in sequence ends the
  connection, not only the acknowledgement of the FIN (`config.h:165`).
- `TCPSocket.cpp:326`: an acknowledgement in a segment that is then dropped as
  out of sequence (357-362) is counted, and FIN_WAIT_1 (404) then waits for it
  in vain, until its timeout. That timeout of 6 seconds also cuts short a long
  response to a slow client.
- `TCPSocket.cpp:394`: CLOSE_WAIT has a timeout in `config.h:163` and none in
  the code; an application that does not close keeps the socket for ever, as
  does one in ESTABLISHED whose client falls silent before it is answered.
- `TCPSocket.cpp:364`: a `push()` in `onConnect` of an accepted connection, when
  the segment that completes the handshake has data, overwrites the packet
  buffer before its length is read. The runs have `PushIn` without `onConnect`.
- `TCPSocket.cpp:262`: in LAST_ACK the FIN goes out with the first frame of a
  backlog that needs two. `TxRoom` of the runs holds the whole backlog.
- `UDPSocket.cpp:47`: `send()` while a datagram waits for ARP is refused, and
  what it was to send is merged with the one that waits. `NothingLost` says only
  that each fragment goes out once and in order.
- `UDPSocket.cpp:92`: a datagram longer than the transmit buffer loses its rest,
  which is flushed with it. `TxRoom` of the runs holds all that is written.
- `Socket.cpp:229`: a datagram without a checksum (zero, which UDP allows) is
  rejected, when verification is enabled.

ARP, DNS and DHCP:

- `ARP.cpp:101`: use refreshes an entry, so one in use is never asked for again
  (`config.h:178` speaks of freshness). `IdleExpires` says what the code does.
- `DNS.cpp:75`: two names with the same 16-bit checksum are answered for each
  other. The runs and the theorem have distinct ids.
- `DNS.cpp:106`: when the timer gives a query up, the next one becomes the front
  without being sent, and the timer may give it up, too, though `config.h:187`
  speaks of a time to wait for its answer.
- `HTTPClient.cpp:75`: a second `request()` for another host connects to the
  address of the first; nor does it empty the buffer or the socket's state.
- `DHCP.cpp:154`: an ACK is taken from any server.
- `DHCP.cpp:55`: the last attempt of `dhcpSetup()` is made and given up at once.
- `config.h:292`: the default lease of 7200 s (`config.h:217`) is renewed after
  56 s when an `int` has 16 bits, because `7200 * 1000` wraps.

HTTP:

- `HTTPConstants.h:39`: `HTTP_METHOD_OPTIONS` is 44, but the sum that the parser
  makes of "OPTIONS" is 58.
- A request without a header line never has two line ends in a row counted from
  the first (`HTTPServer.cpp:152` resets the count behind it): `onBodyBegin` and
  `onRequestEnd` never come. Likewise a response without a header, as the 404 of
  the demo: its empty line completes no `\r\n\r\n` for the HTTPClient
  (`HTTPClient.cpp:140` sets the pattern behind the status line), so its body is
  read as headers. `OwnAnswer` says the page is whole only once its body began.
- `HTTPServer.h:34-35` lets an application answer in any callback, but the loop
  goes on behind an answer in `onHeaderReceived` (`HTTPServer.cpp:135`), and may
  make further callbacks, or go back to an earlier stage where the body begins.
  `AnswersIn` of the runs is without it.
- `HTTPServer.h:71-83`: the query string shares its memory with the names and
  values of headers: an application that answers later must copy it.
- `HTTPClient.cpp:139`: `terminate()` in `onResponseReceived` does not stop the
  scan; callbacks go on for the rest of the segment.

ENC28J60, dispatch and ICMP:

- `ENC28J60.cpp`: `begin()` sets bits of MACON3 with an operation the chip has
  for ETH registers only; the wait for the clock negates before it masks;
  `packetSend` does not wait for a frame that is being sent. `moveMem`'s and
  `hardwareChecksum`'s wrap at the end of the receive ring is off by one, but
  nothing copies from there.
- `ENC28J60.cpp:412`: `nextPacketPtr - 1` wraps to a number above RXSTOP_INIT
  because an `int` has 16 bits; where it has 32, it would be -1.
- `NetworkService.cpp:99`: a service that destroys itself in a call leaves the
  walk to read its freed `nextItem`. The model's services destroy others only.
- `ICMPPingAutoReply.cpp:35`: the length of the packet is cut to a byte: of an
  echo request of more than 255 bytes, headers included, the end of the reply is
  not what `writeBuf` put there. `EchoIntact` is about the shorter ones.
- `ICMPPinger.cpp:27`: any host's reply is taken, and of a short one stale bytes
  are compared. `ICMP.cpp:26` looks neither at the frame's type nor at where it
  is addressed to.
- Sketches: the NTP client's calendar has days "32", and its NTICKS may not fit
  its byte; ChatServer says "left" of who never joined.

## 5. What is proved

All for every value of the constants, from the assumptions named in the modules
that declare them (ranges of the constants; nothing about the state) and, where
the table says so, from hypotheses of the theorem.

| Theorem | Says |
|---|---|
| `SharedBufferProofs!TypeCorrect`, `SpaceIsAccounted`, `AllSpaceReturns` | the ring's indices keep to their ranges; `usedSpace` covers the backlog of every instance but the oldest; once all instances are empty it is zero |
| `SharedBufferProofs!AlwaysThreaded`, `FifosImplemented` | the fragments of the instances lie in the ring side by side, each header leading to the next; the ring implements `PrivateFifos`, if the oldest instance never writes (`OldestNeverWrites`) |
| `SharedBufferProofs!FramesArePrefixes` | what `fillTxBuffer` copies for an instance is the longest run of whole fragments that there is room for, byte for byte, wherever the ring ends |
| `TCPConnectionProofs!TypeCorrect`, `TimersAlwaysRun` | socket, peer and network keep to their ranges; each state that waits has its timer running |
| `TCPConnectionProofs!StreamIsIntact` | the peer receives what was written, in order, none twice and none missing, if `Roomy` |
| `TCPConnectionProofs!ReleasedIsReceived`, `FinComesLast`, `FinIsAcknowledged` | nothing is released before the peer has it; the FIN comes behind the data; FIN_WAIT_2 and TIME_WAIT are entered once the peer has the FIN; if `Roomy` and the transmit buffer holds the data |
| `TCPConnectionProofs!DeliveredIsIntact`, `CloseComesLast` | the application is handed what the peer sent, in order and once, and sees the peer's FIN behind it, if `Separate` |
| `UDPSocketProofs!OneEntryEach`, `AnswersAreLatest`, `IdleEntriesExpire`, `OldestIsEvicted` | the four properties of the ARP table |
| `UDPSocketProofs!NothingIsLost` | each fragment written is in one datagram or still in the buffer, in order, if `MaxWrites <= TxRoom` |
| `UDPSocketProofs!WritesAreStored` | what a `write` of any kind stores is what it was asked to, in order, and leaves out an end only |
| `UDPSocketProofs!ChecksumsCombine` | the checksum combined from the fragments' is that of the payload in one piece, however it was cut |
| `UDPSocketProofs!SentIsVerified` | the receiver accepts each packet the sender makes, and none with one byte changed |
| `DNSClientProofs!TypeCorrect`, `QueuedAreTimed`, `AnswersAreOwn` | the resolver's types and timer; and, *if ids are distinct*, that a client takes only its own answer |
| `DHCPClientProofs!TypeCorrect`, `TimersAlwaysRun`, `RequestsAreOffered`, `RenewedOnTime` | the client's types and timer, what a REQUEST names, and when a lease is renewed |
| `WebServerProofs!OneSocketEach` | no connection is ever served by two sockets |
| `WebServerProofs!CallbacksAreOfText` | wherever a request is cut into segments, the callbacks up to the answer are those of its text, in order and in time |
| `WebServerProofs!AnswersAreOwn` | what a client is told is the answer to its own request: the status, and as much of the page as came |
| `ICMPProofs!EachCalledOnce` | in a walk of the list of services each one that lives when it begins, and stays, is called once, and no other, whatever the calls construct and destroy |
| `ICMPProofs!EchoIsIntact` | the reply to an echo request goes back to its sender with the request's data, if `WholeFrames` |
| `ENC28J60Proofs!RingGivenBack` | once no frame waits, the chip has all of its ring but two cells |
| `ENC28J60Proofs!QueueImplemented` | the driver and the chip implement `PacketQueue`: each frame is handled once, whole and in order, and none is overwritten |
| `ENC28J60Proofs!EveryRegisterHit` | no access meets a register of another bank |

The hypotheses are where the code needs them:

- `Roomy` has three parts. The peer takes whole segments: of one that it takes
  in part the code releases all (section 4, TCPShortWindow). The stream is
  shorter than half the sequence space: differences of sequence numbers are
  signed. And when the peer opens, the socket's first sequence number is small
  or lies in the upper half; the code's is 0 (`TCPSocket.cpp:60`). This is because
  the code reads the acknowledgement number of segments without an ACK, too: a
  repeated SYN carries 0, which must not look like one of the socket's numbers
  that is still to come.
- `MaxData <= TxRoom`: in LAST_ACK the FIN goes with the first frame of a backlog
  that needs two (section 4). `StreamIsIntact` holds without it.
- `Separate`: no `push()` in `onConnect`, which would overwrite the segment in hand
  (section 4); and the peer's stream does not go round the sequence space.
- `MaxWrites <= TxRoom`, for datagrams: `send` puts as much of the backlog into a
  datagram as the transmit buffer holds, and flushes the rest
  (`UDPSocket.cpp:92`). The run has it, too.
- `RequestsAssumption` (an assumption of `WebServer` itself): a request that has a
  body has a header, and the application does not answer in `onHeaderReceived`.
  Of other requests the parser makes something else (section 4): without a
  header the body never begins, and behind an answer in `onHeaderReceived` the
  loop goes on.
- `WholeFrames`: every good frame on the network holds at least the data that its
  headers say it has. Of one that does not, the reply is completed with what the
  buffer held before.

The arguments:

- *SharedBuffer.* `TypeOK` is inductive, and so is `TypeOK /\ SpaceAccounted`:
  the recount of `release` yields at least the distance of every tail it looks at
  (`RecountCovers`), a write moves `head` away from each tail by no more than it
  adds to `usedSpace` (`BacklogGrows`), and an instance that was empty starts
  with just what it wrote (`BacklogOfFirst`). `AllFreeWhenEmpty` needs that an
  instance without a fragment to read has forgotten its last one, too
  (`Forgotten`): a later write would else hang its fragment on one that is gone,
  and stay empty while space is used.
- *SharedBuffer implements PrivateFifos.* The invariant is `Threaded`: there is a
  layout, a sequence of headers per instance, whose fragments lie within the
  used space, one behind the other, with the fragments of different instances
  apart; each header's `nextIndex` is the next of the sequence, `nextRead` its
  first and `lastWritten` its last. Distances are counted back from `head`
  (`BackFrom`), so that the ring's end does not matter. Each operation takes a
  layout to one whose queues changed in one of four ways (`Leads`): grown by one
  fragment, shortened by one, emptied, or not at all. A layout determines what is
  decoded: the chain that is followed from `nextRead` is the layout's sequence.
  That is an induction over the number of hops; the library's induction
  theorems cannot be used here, but the least element of a set of naturals can
  (`LeastOf` and `UpTo`, from `WFMin`).
- *What is copied from the ring.* The loop of `fillTxBuffer` is a fold over the
  fragments of the layout that `Threaded` says there is; its state behind n of
  them is the first n joined up (`Filled`, `Joined`), as long as they fit.
- *TCPConnection.* Each operator from a socket to its successors preserves
  `Sound` (a fragment lies between `released` and `written`; a timed state has a
  timer), proved as one lemma per method; the actions compose them.
- *The stream to the peer.* The invariant is `Together`: what the peer has is a
  stream without a gap (`PeerSide`); the states of the two sides fit
  (`Situation`, a case for each phase of a connection) and, once it is set up,
  `InStep`: the peer has at least what was released and at most what was written,
  up to the end of a fragment, and the socket's sequence number is that of the
  first unit that waits. For each segment that is under way, however old,
  `Carried` says that it starts no later than at what the peer wants next, under
  the number the peer expects it under, and ends with a fragment; `Acknowledges`
  that the number it acknowledges is one the peer has reached and, again, the end
  of a fragment. Sequence numbers are taken for the units they stand for only
  where the distance is known to be below half the space.
- *The stream to the application.* The invariant is `Taken`, which does not need
  `Together`: what was handed over is a prefix of the peer's stream whose length
  the acknowledgement number tells (`Handed`), each segment under way carries
  the bytes of its place (`Offered`), and as long as the socket has said nothing
  (`Unheard`) the peer has sent nothing but SYNs and resets. A callback may
  replace the packet buffer; what the handler still takes from it then is
  covered by a lemma per method.
- *WebServer.* The list is asked newest first, and the listener is constructed
  before its sockets: it is asked last (`ListenerIsLast`), so that it is given a
  SYN only when no socket has its connection. A socket that it then opens is the
  only one (`AcceptKeepsOne`), and no other step opens one or changes its remote.
- *Requests and answers.* The invariant is `Orderly`: what a socket's parser holds
  is told by how many symbols of its client's request it was given (`Serves`: in
  the method, the query, header k, the body, or answered), and what a client's
  reader holds by how many symbols of the answer came (`Reads`); a socket that has
  answered keeps the rest of that answer. So segments compose: a character takes
  the parser from one symbol to the next (`HeadGoes`), and a segment from any
  place to any other (`OnReceiveIs`); likewise the reader (`HeadReads`,
  `ClientReceivesIs`). Both loops are folds. The library defines a fold by a
  recursive function over sets of indices: that there is one is an induction
  over the length (`FoldExists`, by `UpTo`), and its values on the first indices
  are the loop's states (`FoldSteps`). A closed socket may hold anything of the
  parser of the request before: `onConnect` resets all that `Serves` speaks of.
- *UDPSocket.* The four properties need each other. A reply finds "the" entry of
  its host only because there is one; the history of a host can be compared with
  its entry for the same reason; and eviction is by age because TTL and idle
  time add up to a constant. `TableSound` states them of any table, so that the
  table between the sockets' ticks and the aging is covered, too.
- *Datagrams.* `NothingLost` flattens a sequence of datagrams, and the prover
  cannot expand the library's fold. `Joins` says by its elements what a flattened
  sequence is: each datagram begins where the one before it ends. The invariant
  `AllKept` says that the datagrams and the buffer so join up to what was written;
  that `FlattenSeq` yields just that (`JoinedIsFlat`) is an induction over the
  number of datagrams, by `UpTo` again.
- *What writing stores.* The theorems about Socket are in `UDPSocketProofs`, too,
  because they rest on its lemmas about flattened sequences. `Writes` says that
  there are bytes `done` that, with those still in `buf`, are what the call was
  asked to write, and that of `done` the buffer holds all, or as much as there was
  room for (`Held`). One `Put` behind another keeps this (`TwoPut`): the second
  finds room only if the first was stored whole. So does the fold of `PutAll`, for
  any number of blocks.
- *Checksums.* `add` is addition modulo `WordMod - 1`, except that zero has two
  forms: a sum is 0 only if both its operands are. So it is associative and
  commutative, and `swap`, which multiplies by `ByteBase` in that arithmetic,
  distributes over it. A checksum is then the sum of its bytes, each weighted by
  whether its place is odd (`Sums`), and the sum of joined data is that of its
  parts, the second one turned if it starts at an odd place: `addAt`. For frames
  of any number of fragments the folds of `fillTxBuffer` follow (`FoldSteps`).
- *Verification.* With the checksum in its field the words of a packet add up to
  all ones (`VerifyIs`), wherever the verifier ends the header: options come
  behind an even number of bytes. In such a sum each byte is determined by the
  others, since a change of one byte moves it by less than `WordMod - 1`
  (`OneByte`): so any such change shows. Nothing here bounds the lengths:
  `CalcFour` takes the pseudo-header's to be any number.
- *Dispatch.* `CalledOnce` compares the services from the one the walk is at on
  with those that lived when it began and were not called. It needs that no
  service is on the list twice (`Walking`): each is added by its constructor, and
  those of `Fixed` are distinct. Whatever a call does to the list
  (`CallLeaves`), the old services that are left keep their order, and new ones
  come in front of them: so the walk goes on to the next old one that is left.
- *Echoes.* The invariant `InHand` follows a frame from the queue into the
  buffer: as long as a packet is handled, the sample and what may be loaded
  behind it are the beginning of one whole frame, cut at the buffer's size. The
  reply then holds as many cells of it as the request's headers say.
- *The controller.* The invariant is `Ordered`: there is a sequence of frames, and
  of the places where they lie (`Layout`), so that each frame is stored behind its
  header, each header leads to the next place, the first is where the driver takes
  the next frame to be, and the last ends at the chip's write pointer. A place is
  told by how far the write pointer is ahead of it (`Dist`), so that the ring's
  end does not matter. `Accounted` says that what the driver keeps (`Used`) covers
  the frames that wait (`Gap`), and by how much at each stage of the handling:
  strictly while a frame is in hand, by one cell at most once its space is given
  back, which is `SpaceReturned`. The chip writes, and the release clears, only
  where `Used` does not reach (`KeptUpTo`), so that the chain stays (`ChainKept`);
  a frame received extends it at its end (`ChainGrows`), one taken in hand leaves
  it at its beginning (`ChainDrops`). What the headers lead to is what was stored
  (`ReadBack`, an induction over the frames by `UpTo`). The assumption that a
  place is a 16-bit number is needed: `release` computes `nextPacketPtr - 1` in
  16 bits and compares it with the ring's end. That a frame has data is assumed of
  the network, whose shortest frame has 60 bytes.
- *The controller's banks.* The invariant is that the driver knows the bank that
  is selected (`Selected`). A sequence of accesses keeps it if each selects its
  bank, needs none, or meets a register of the bank that the one before it
  selected (`Proper`, `StaysAgreed`): `MACON3` behind `MACON2` is the only one of
  the last kind. Behind a reset of the chip its bank is 0 whatever the driver
  takes it to be; the first access that selects a bank makes that good.
- *DNSClient.* `OwnAnswerTaken` is not inductive: it needs that a client that
  waits does so for the name of its request (`WaitsForHost`), which in turn
  needs that a client with an address does not wait.
- *DHCPClient.* `RenewsOnTime` needs that the seconds held and the seconds left
  add up to what was stated (`LeaseCounted`); `RequestsOffered` needs that
  OFFERs under way were offered (`OffersKept`).

Only model-checked is all liveness (`ClosingEnds`, `AnsweredSocketReturns`,
`SendEnds`, `ResolverRests`, `SetupEnds`, `RequestEnds`, `LoopReturns`), which the
prover does not reach. Every invariant and every action property of a passing run
is stated by a theorem.

## 6. Not modelled, and the plan

Not modelled: pure I/O (SPI transfers, the values of registers), logging, the
text of HTTP and DNS messages and DHCP options; `sameLAN`; the wrap of the
millisecond clock; limits on the lengths of queries and headers; connections
over an ARP table that forgets the peer; a `connect()` on a socket in use; and
of the example sketches those whose calls their class's model lets an
application make anyway.

What is left of the plan:

1. Compositions: TCPSocket over ARP, where a segment's flags are gone though it
   was not sent (`TCPSocket.cpp:480`); UDPSocket over SharedBuffer, with
   fragments longer than the transmit buffer (`SharedBuffer.cpp:226`).
2. `connect()` on a socket in use (`TCPSocket.cpp:71`).
