----------------------------- MODULE UDPSocket -----------------------------
(***************************************************************************)
(* UDPSockets (UDPSocket.h, UDPSocket.cpp), each bound to one remote host, *)
(* and the part of NetworkService they send through: sendIPPacket asks ARP *)
(* for the MAC address, and a datagram whose host is not in the table      *)
(* waits in the socket's buffer until a tick finds it there.               *)
(*                                                                         *)
(* A host is the next hop: the gateway for a remote host outside the LAN.  *)
(***************************************************************************)
EXTENDS ARP, Sequences, SequencesExt

CONSTANTS
    Sockets,
    remoteHost,     \* per socket, the host its datagrams go to
    TxRoom,         \* fragments the transmit buffer has room for
    MaxWrites,      \* bound: fragments written to a socket
    MaxSends        \* bound: calls of send() per socket

ASSUME UDPSocketAssumption ==
    /\ remoteHost \in [Sockets -> Hosts]
    /\ TxRoom \in Nat
    /\ MaxWrites \in [Sockets -> Nat]
    /\ MaxSends \in [Sockets -> Nat]

VARIABLES
    buffer,     \* per socket, the fragments written and not flushed
    sending,    \* per socket, whether a datagram waits to be sent
    asked,      \* hosts an ARP request is on its way to, or answered with delay
    written,    \* history: per socket, the number of fragments written
    sends,      \* history: per socket, the calls of send()
    datagrams   \* history: per socket, the datagrams that went out

udpVars == <<buffer, sending, asked, written, sends, datagrams>>
vars == <<arpVars, udpVars>>

\* Mutant: the buffer is flushed whether or not the datagram went out.
Kept_Never(s) == <<>>

\* What stays in the buffer when sendIPPacket finds no MAC address.
Kept(s) == buffer[s]

\* fillTxBuffer: the fragments there is room for.
Filled(s) == SubSeq(buffer[s], 1, IF Len(buffer[s]) < TxRoom THEN Len(buffer[s]) ELSE TxRoom)

\* sendPacket of every socket in S, one after the other: those whose host is
\* in the table send and flush, the others ask for it.
sendPackets(S) ==
    LET out == {s \in S : Resolved(remoteHost[s])}
    IN  /\ sending' = [s \in Sockets |-> IF s \in S THEN s \notin out ELSE sending[s]]
        /\ datagrams' = [s \in Sockets |->
                IF s \in out THEN Append(datagrams[s], Filled(s)) ELSE datagrams[s]]
        /\ buffer' = [s \in Sockets |->
                IF s \in out THEN <<>> ELSE IF s \in S THEN Kept(s) ELSE buffer[s]]
        /\ asked' = asked \cup {remoteHost[s] : s \in S \ out}

\* The table and the history once the hosts of S have been looked up.
TableUsed(S) ==
    Refreshed(arpTable, {Answer(h) : h \in {g \in {remoteHost[s] : s \in S} : Resolved(g)}})
IdleUsed(S) ==
    [h \in Hosts |-> IF Resolved(h) /\ h \in {remoteHost[s] : s \in S} THEN 0 ELSE idle[h]]

-----------------------------------------------------------------------------

\* Socket::write: one fragment more for the datagram that is being built.
write(s) ==
    /\ written[s] < MaxWrites[s]
    /\ written' = [written EXCEPT ![s] = @ + 1]
    /\ buffer' = [buffer EXCEPT ![s] = Append(@, written[s] + 1)]
    /\ UNCHANGED <<arpVars, sending, asked, sends, datagrams>>

\* send() while the previous datagram still waits does nothing.
sendRefused(s) ==
    /\ sending[s]
    /\ UNCHANGED <<arpVars, buffer, sending, asked, datagrams>>

sendAccepted(s) ==
    /\ ~sending[s]
    /\ sendPackets({s})
    /\ arpTable' = TableUsed({s})
    /\ idle' = IdleUsed({s})
    /\ UNCHANGED <<minuteTimer, learned>>

send(s) ==
    /\ buffer[s] # <<>>
    /\ sends[s] < MaxSends[s]
    /\ sends' = [sends EXCEPT ![s] = @ + 1]
    /\ sendRefused(s) \/ sendAccepted(s)
    /\ UNCHANGED written

Waiting == {s \in Sockets : sending[s]}

\* Mutant: only the first of the waiting sockets has its turn.
Ticked_One == {s \in Waiting : s = CHOOSE t \in Sockets : TRUE}

\* The sockets that try again: every service is ticked.
Ticked == Waiting

\* The part of NetworkService::loop() that ticks the services, ARP last.
tick ==
    /\ sendPackets(Ticked)
    /\ arpTick(TableUsed(Ticked), IdleUsed(Ticked))
    /\ UNCHANGED <<learned, written, sends>>

\* A host answers a request, with the MAC address it has then.
reply(h, m) ==
    /\ h \in asked
    /\ processARPReply(h, m)
    /\ asked' = asked \ {h}
    /\ UNCHANGED <<buffer, sending, written, sends, datagrams>>

\* A host announces its MAC address unasked.
announce(h, m) ==
    /\ processARPReply(h, m)
    /\ UNCHANGED udpVars

loseRequest(h) ==
    /\ h \in asked
    /\ asked' = asked \ {h}
    /\ UNCHANGED <<arpVars, buffer, sending, written, sends, datagrams>>

Init ==
    /\ ARPInit
    /\ buffer = [s \in Sockets |-> <<>>]
    /\ sending = [s \in Sockets |-> FALSE]
    /\ asked = {}
    /\ written = [s \in Sockets |-> 0]
    /\ sends = [s \in Sockets |-> 0]
    /\ datagrams = [s \in Sockets |-> <<>>]

Next ==
    \/ \E s \in Sockets : write(s) \/ send(s)
    \/ tick
    \/ \E h \in Hosts, m \in MACs : reply(h, m) \/ announce(h, m)
    \/ \E h \in Hosts : loseRequest(h)

Spec == Init /\ [][Next]_vars

\* NetworkService::loop() ticks for ever, and a host that is asked again and
\* again answers in the end.
FairSpec ==
    /\ Spec
    /\ WF_vars(tick)
    /\ \A h \in Hosts : SF_vars(\E m \in MACs : reply(h, m))

-----------------------------------------------------------------------------

(* However long the host is unknown, whatever else is sent and whatever    *)
(* the table forgets meanwhile: each fragment written is in one datagram   *)
(* or still in the buffer, and they are in order.                          *)
NothingLost ==
    \A s \in Sockets :
        FlattenSeq(datagrams[s]) \o buffer[s] = [k \in 1 .. written[s] |-> k]

(* A reply makes room by overwriting an entry nobody needs: it never takes *)
(* a live one while another is unused, expired or idle for longer.         *)
OldestEvicted ==
    [][\A i \in Slots : Live(i) /\ arpTable'[i].ip # arpTable[i].ip
            => \A j \in Slots : Live(j) /\ idle[arpTable[j].ip] <= idle[arpTable[i].ip]]_vars

(* A datagram that waits for its host is sent in the end, if from some     *)
(* time on no live entry of the table is given to another host: while      *)
(* more hosts than entries are heard of, a reply may be evicted before the *)
(* next tick of the socket that waits for it, again and again.             *)
Settles == <>[][\A i \in Slots : Live(i) => arpTable'[i].ip = arpTable[i].ip]_vars
SendEnds == Settles => \A s \in Sockets : sending[s] ~> ~sending[s]
=============================================================================
