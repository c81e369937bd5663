-------------------------------- MODULE ICMP --------------------------------
(***************************************************************************)
(* The two ICMP services (ICMP.cpp) on the list of NetworkService: the one *)
(* that answers echo requests (ICMPPingAutoReply.cpp), and the one that    *)
(* sends them and is told of the replies (ICMPPinger.cpp), as the sketch   *)
(* PingTest drives it.                                                     *)
(*                                                                         *)
(* A frame begins with its headers, one cell: whose it is, where it goes,  *)
(* where it comes from, and how many cells of data it says it has. Whether *)
(* a MAC address is known (ARP) may be either at every send.               *)
(***************************************************************************)
EXTENDS NetworkService

CONSTANTS
    ICMPPingAutoReply,  \* the service that answers
    ICMPPinger,         \* the service that asks
    ByteMod,            \* values of a uint8_t: 256 bytes, here cells
    PING_PERIOD,        \* of the sketch, in ticks
    PingLength,         \* ICMP_PING_DATA_LENGTH
    Mark,               \* a cell of 0x79
    Garbage,            \* a cell of which nothing is known
    Local,              \* localIP
    Target,             \* the host the sketch pings
    MaxPings            \* bound: echo requests of this host on their way

ASSUME ICMPAssumption ==
    /\ {ICMPPingAutoReply, ICMPPinger} \subseteq ToSet(Fixed)
    /\ Resolver \notin {ICMPPingAutoReply, ICMPPinger}
    /\ {ByteMod, PING_PERIOD} \subseteq Nat \ {0}
    /\ PingLength \in Nat

VARIABLES
    timer,      \* of the sketch
    pings,      \* echo requests, or their replies, on their way
    echoed      \* history: the last request answered and its reply, as sent

icmpVars == <<timer, pings, echoed>>
vars == <<loopVars, icmpVars>>

Headers(to, from, owner, length) ==
    [owner |-> owner, to |-> to, from |-> from, length |-> length]

\* The packet in the buffer, with all there is room for loaded.
Loaded == packet \o rest

-----------------------------------------------------------------------------
\* Answering

\* Mutant: the source is set first, and read as the destination then.
prepareIPPacket_Source(headers) == [headers EXCEPT !.to = Local, !.from = Local]

\* prepareIPPacket(packet.ip.sourceIP): the destination is set first, since it
\* is read from where the source is to be.
prepareIPPacket(headers) == [headers EXCEPT !.to = headers.from, !.from = Local]

\* sendIPPacket((uint8_t)packet.ip.totalLength), headers included.
Copied(headers) == (1 + headers.length) % ByteMod

\* What goes out: as many cells as the headers say, but only those copied to
\* the transmit buffer are the packet's.
Reply ==
    <<prepareIPPacket(packet[1])>>
        \o [i \in 1 .. packet[1].length |->
                IF i < Copied(packet[1]) /\ i < Len(Loaded) THEN Loaded[i + 1] ELSE Garbage]

\* The checksum is wrong, or no MAC address is known, or the reply is sent. The
\* checksum is over as many cells as the headers say, loaded or not.
answerEcho ==
    /\ walk = "packet" /\ service = ICMPPingAutoReply
    /\ packet[1].owner = service
    /\ echoed' \in {echoed, [request |-> Loaded, reply |-> Reply]}
    /\ handled
    /\ walkEnds
    /\ UNCHANGED <<activeServices, timer, pings>>

-----------------------------------------------------------------------------
\* Asking

\* ping, to which a MAC address may not be known.
ping == pings' \in {pings, Min({pings + 1, MaxPings})}

\* tick of the sketch.
pingerTicks ==
    /\ walk = "tick" /\ service = ICMPPinger
    /\ IF timer = 1
       THEN timer' = PING_PERIOD /\ ping
       ELSE timer' = timer - 1 /\ UNCHANGED pings
    /\ walkOn(activeServices)
    /\ UNCHANGED <<queueVars, turn, echoed>>

\* Cells compared with the mark that the packet brought: behind a short one is
\* what the buffer held before.
Compared == SubSeq(Tail(Loaded), 1, PingLength)

\* A reply that is not ours, or with a wrong checksum, is dropped ...
dropReply ==
    /\ walk = "packet" /\ service = ICMPPinger
    /\ packet[1].owner = service
    /\ handled
    /\ walkEnds
    /\ UNCHANGED <<activeServices, icmpVars>>

\* ... and another one reported by onPingReply, which may do anything.
reportReply ==
    /\ walk = "packet" /\ service = ICMPPinger
    /\ packet[1].owner = service
    /\ \A i \in DOMAIN Compared : Compared[i] = Mark
    /\ handled
    /\ activeServices' \in ListsAfter(service)
    /\ walkEnds
    /\ UNCHANGED icmpVars

\* The host that is pinged answers, or its answer is lost.
targetAnswers ==
    /\ pings > 0
    /\ pings' = pings - 1
    /\ \/ arrive([data |-> <<Headers(Local, Target, ICMPPinger, PingLength)>>
                                \o [i \in 1 .. PingLength |-> Mark],
                  ok   |-> TRUE])
       \/ UNCHANGED loopVars
    /\ UNCHANGED <<timer, echoed>>

-----------------------------------------------------------------------------

\* The steps of loop that are not those of an ICMP service.
otherSteps ==
    /\ \/ nothingToHandle
       \/ loadSample
       \/ dropPacket
       \/ processIncomingPacket
       \/ declinePacket
       \/ service \notin {ICMPPingAutoReply, ICMPPinger} /\ takePacket
       \/ notifyOnDNSResolve
       \/ nobodysPacket
       \/ ticksDue
       \/ loopReturns
       \/ ~(walk = "tick" /\ service = ICMPPinger) /\ call
       \/ allTicked
       \/ allNotified
    /\ UNCHANGED icmpVars

loop ==
    \/ otherSteps
    \/ answerEcho
    \/ pingerTicks
    \/ dropReply
    \/ reportReply

\* setup: the sketch starts to ping.
Init ==
    /\ LoopInit
    /\ timer = PING_PERIOD
    /\ pings \in {0, 1}
    /\ echoed = <<>>

Next ==
    \/ loop
    \/ targetAnswers
    \/ \E f \in Frame : arrive(f) /\ UNCHANGED icmpVars
    \/ restart /\ timer' = PING_PERIOD /\ ping /\ UNCHANGED echoed

\* The program calls loop again and again, and every step of it is done.
Spec == Init /\ [][Next]_vars /\ WF_vars(loop)

-----------------------------------------------------------------------------

(* The reply to an echo request that fits in the buffer, and whose length a *)
(* byte holds, goes back to where it came from, with the same data.         *)
EchoIntact ==
    echoed # <<>> =>
        LET request == echoed.request
            length == request[1].length
        IN  1 + length <= BufferSize /\ 1 + length < ByteMod =>
                /\ echoed.reply[1] = Headers(request[1].from, Local, ICMPPingAutoReply, length)
                /\ Tail(echoed.reply) = SubSeq(Tail(request), 1, length)
=============================================================================
