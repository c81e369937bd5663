------------------------------ MODULE WebServer ------------------------------
(***************************************************************************)
(* A TCPListener of HTTPServers (TCPListener.h; the server is the one of   *)
(* HTTPServerDemo_MultipleClients.ino), asked by HTTPClients.              *)
(*                                                                         *)
(* What a connection carries arrives in order and whole, in segments cut   *)
(* anywhere, or not at all once a side has given up: TCPConnection shows   *)
(* how TCPSocket does that. SYNs are sent again and arrive at any time,    *)
(* however late. The states that close a connection are one here, CLOSING, *)
(* that the socket leaves for CLOSED by its timer or by the last segment.  *)
(***************************************************************************)
EXTENDS HTTPClient

CONSTANTS
    Connections,    \* remote address and port of each connection
    Uncut,          \* bound: those that carry all there is in one segment
    MAX_CLIENTS,    \* sockets of the listener
    Listener,       \* the listener itself
    Requests,       \* bound: what each client may ask
    AnswersIn,      \* the callbacks an application may answer in, or "never"
    Nobody          \* remote of a socket that was never used

ASSUME WebServerAssumption ==
    /\ Uncut \subseteq Connections
    /\ Nobody \notin Connections
    /\ MAX_CLIENTS \in Nat \ {0}
    /\ Listener \notin 1 .. MAX_CLIENTS

\* Any request that has a header if it has a body. onReceive goes on after an
\* answer in onHeaderReceived, and would ask for another at the next header.
ASSUME RequestsAssumption ==
    /\ \A c \in Connections : \A r \in Requests[c] :
        /\ r.method \in Seq(Nat)
        /\ r.query \in STRING
        /\ r.headers \in Seq({"header"} \X STRING \X Nat)
        /\ r.body \in Seq(Seq(STRING))
        /\ r.headers = <<>> => r.body = <<>>
        /\ r # Nobody
    /\ AnswersIn \subseteq
            {"onRequest", "onBodyBegin", "onBodyReceived", "onRequestEnd", "never"}

VARIABLES
    clients,    \* the sockets of the listener
    remote,     \* remoteIP and remotePort of each
    peers       \* the side of each connection that connects

vars == <<clients, remote, peers>>

Sockets == 1 .. MAX_CLIENTS

\* A request as it is sent.
RequestLine(asked) ==
    [i \in DOMAIN asked.method |-> Method(asked.method[i])] \o <<SP, Query(asked.query)>>
        \o EndOfLine
HeaderLines(headers) == FoldLeft(LAMBDA text, h : text \o <<h>> \o EndOfLine, <<>>, headers)
Written(asked) ==
    RequestLine(asked) \o HeaderLines(asked.headers) \o EndOfLine \o asked.body

\* The socket's state, what it received and had acknowledged, what waits to
\* be sent; HTTPServer's parser, and a record of the callbacks it makes.
Unused ==
    [state |-> "CLOSED", received |-> 0, released |-> 0, buffer |-> <<>>,
     stage |-> HTTP_SERVER_STAGE_INIT, crlfcount |-> 0, contentLength |-> 0, httpMethod |-> 0,
     requestSignaled |-> FALSE, scanned |-> <<>>, query |-> "",
     answersIn |-> "never", heard |-> <<>>, body |-> <<>>]

\* The same of a peer, of whose request `sent' is acknowledged; HTTPClient's
\* reader, and a record of the page it reads.
Idle ==
    [state |-> "CLOSED", asked |-> Nobody, sent |-> 0, received |-> 0,
     statusSignaled |-> FALSE, bodySignaled |-> FALSE, seen |-> <<>>, statusCode |-> 0,
     page |-> <<>>, ended |-> FALSE]

Open(s) == s.state \in {"SYN_RECEIVED", "ESTABLISHED", "CLOSING"}

\* terminate(): what waits is dropped, what the parser holds stays. The
\* record of its callbacks ends.
terminated(s) ==
    [s EXCEPT !.state = "CLOSED", !.buffer = <<>>, !.query = "", !.heard = <<>>,
              !.body = <<>>, !.answersIn = "never"]

-----------------------------------------------------------------------------
\* The service that a segment is for

\* Mutant: the listener is constructed behind its clients.
activeServices_ListenerFirst == <<Listener>> \o Reverse([i \in Sockets |-> i])

\* A service is added in front of the others: the listener's base is
\* constructed before its clients.
activeServices == Reverse(<<Listener>> \o [i \in Sockets |-> i])

\* onPacketReceived: the guard, for a segment from c.
Takes(service, c) ==
    \/ service = Listener
    \/ remote[service] = c /\ Open(clients[service])

\* processIncomingPacket: the first service that takes the segment.
Handles(service, c) ==
    \E k \in DOMAIN activeServices :
        /\ activeServices[k] = service
        /\ Takes(service, c)
        /\ \A l \in 1 .. k - 1 : ~ Takes(activeServices[l], c)

Update(i, s) == clients' = [clients EXCEPT ![i] = s]

UpdatePeer(c, p) == peers' = [peers EXCEPT ![c] = p]

-----------------------------------------------------------------------------
\* TCPListener

accept(i, c) ==
    /\ Update(i, [clients[i] EXCEPT !.state = "SYN_RECEIVED", !.received = 0, !.released = 0])
    /\ remote' = [remote EXCEPT ![i] = c]

\* The first socket that is closed takes the connection; onNoMoreConnections
\* does nothing when there is none.
onConnectRequest(c) ==
    LET free == {i \in Sockets : clients[i].state = "CLOSED"}
    IN  IF free = {} THEN UNCHANGED <<clients, remote>>
        ELSE \E i \in free : (\A j \in free : i <= j) /\ accept(i, c)

\* A SYN arrives, a first one or another. A socket that has the connection
\* already finds no ACK in it, or the wrong number.
receiveSyn(c) ==
    /\ peers[c].asked # Nobody
    /\ IF Handles(Listener, c) THEN onConnectRequest(c) ELSE UNCHANGED <<clients, remote>>
    /\ UNCHANGED peers

\* The connection is there, and the application decides where it will answer.
Established(s, where) ==
    IF s.state = "SYN_RECEIVED"
    THEN [onConnect([s EXCEPT !.state = "ESTABLISHED"]) EXCEPT !.answersIn = where]
    ELSE s

\* A segment with the next symbols of the request up to the k-th, or none: in
\* SYN_RECEIVED its ACK opens the connection, whichever it was meant for.
receiveSegment(i, c, k, where) ==
    LET s == Established(clients[i], where)
        data == SubSeq(Written(peers[c].asked), peers[c].sent + 1, k)
        next == IF data = <<>> THEN s ELSE onReceive([s EXCEPT !.received = k], data)
        inSequence == s.received = peers[c].sent
    IN  /\ Handles(i, c)
        /\ Update(i, IF inSequence THEN next ELSE s)
        /\ UpdatePeer(c, [peers[c] EXCEPT !.sent = IF inSequence THEN k ELSE @])
        /\ UNCHANGED remote

\* FIN after the whole request: onClose.
receiveFin(i, c, where) ==
    LET s == Established(clients[i], where)
    IN  /\ Handles(i, c)
        /\ peers[c].state = "CLOSING"
        /\ peers[c].sent = Len(Written(peers[c].asked))
        /\ Update(i, IF s.received = peers[c].sent THEN onClose(s) ELSE s)
        /\ UNCHANGED <<remote, peers>>

receiveReset(i, c) ==
    /\ Handles(i, c)
    /\ peers[c].state = "CLOSED"
    /\ Update(i, terminated(clients[i]))
    /\ UNCHANGED <<remote, peers>>

\* The timer of a state that waits, or the last segment of a connection.
socketEnds(i) ==
    /\ clients[i].state \in {"SYN_RECEIVED", "CLOSING"}
    /\ Update(i, terminated(clients[i]))
    /\ UNCHANGED <<remote, peers>>

-----------------------------------------------------------------------------
\* The peers

request(c, r) ==
    /\ peers[c].asked = Nobody
    /\ UpdatePeer(c, [Idle EXCEPT !.state = "SYN_SENT", !.asked = r])
    /\ UNCHANGED <<clients, remote>>

\* The socket that answers c, if there is one.
Serving(c) == {i \in Sockets : remote[i] = c /\ Open(clients[i])}

peerConnects(c) ==
    /\ peers[c].state = "SYN_SENT"
    /\ \E i \in Serving(c) : clients[i].state = "SYN_RECEIVED"
    /\ UpdatePeer(c, ClientConnected([peers[c] EXCEPT !.state = "ESTABLISHED"]))
    /\ UNCHANGED <<clients, remote>>

\* A segment with the first n symbols that wait arrives and is acknowledged.
peerReceives(i, c, n) ==
    LET s == clients[i]
    IN  /\ peers[c].state \in {"ESTABLISHED", "CLOSING"} /\ ~peers[c].ended
        /\ s.buffer # <<>>
        /\ s.released = peers[c].received
        /\ UpdatePeer(c, ClientReceives([peers[c] EXCEPT !.received = @ + n], SubSeq(s.buffer, 1, n)))
        /\ Update(i, [s EXCEPT !.released = @ + n, !.buffer = SubSeq(@, n + 1, Len(@))])
        /\ UNCHANGED remote

\* FIN_WAIT_1 sends its FIN once nothing waits.
finDue(s) == s.state = "CLOSING" /\ s.buffer = <<>>

peerReceivesFin(i, c) ==
    /\ peers[c].state \in {"ESTABLISHED", "CLOSING"} /\ ~peers[c].ended
    /\ finDue(clients[i])
    /\ clients[i].released = peers[c].received
    /\ UpdatePeer(c, ClientClosed(peers[c]))
    /\ UNCHANGED <<clients, remote>>

\* Its timers, the last segment, or it gives up and says nothing. What it
\* read is of no use any more.
peerEnds(c) ==
    /\ peers[c].state # "CLOSED"
    /\ UpdatePeer(c, [Idle EXCEPT !.asked = peers[c].asked])
    /\ UNCHANGED <<clients, remote>>

-----------------------------------------------------------------------------

Init ==
    /\ clients = [i \in Sockets |-> Unused]
    /\ remote = [i \in Sockets |-> Nobody]
    /\ peers = [c \in Connections |-> Idle]

\* Where a segment of c may end that begins behind from.
Cuts(c, from, to) == IF c \in Uncut THEN {to} ELSE from + 1 .. to

\* What c sends, or a reset in its name, is for one of the sockets.
Sends(i, c) ==
    /\ peers[c].state \in {"ESTABLISHED", "CLOSING"}
    /\ \E where \in AnswersIn :
        \/ \E k \in {peers[c].sent} \union Cuts(c, peers[c].sent, Len(Written(peers[c].asked))) :
            receiveSegment(i, c, k, where)
        \/ receiveFin(i, c, where)

Hears(i, c) ==
    /\ i \in Serving(c)
    /\ \/ \E n \in Cuts(c, 0, Len(clients[i].buffer)) : peerReceives(i, c, n)
       \/ peerReceivesFin(i, c)

Next ==
    \/ \E c \in Connections :
        \/ \E r \in Requests[c] : request(c, r)
        \/ receiveSyn(c) \/ peerConnects(c) \/ peerEnds(c)
    \/ \E i \in Sockets, c \in Connections : Sends(i, c) \/ receiveReset(i, c) \/ Hears(i, c)
    \/ \E i \in Sockets : socketEnds(i)

Spec == Init /\ [][Next]_vars

\* A timer runs out sooner or later.
FairSpec == Spec /\ \A i \in Sockets : WF_vars(socketEnds(i))
-----------------------------------------------------------------------------

(* However often its SYN arrives, and in whatever state its socket is then, *)
(* a connection is served by one socket (TCPListener::onConnectRequest).    *)
OneSocketPerRemote ==
    \A i, j \in Sockets :
        Open(clients[i]) /\ Open(clients[j]) /\ remote[i] = remote[j] => i = j

\* Where line k of a request ends: 0 is its first line, the others are headers.
LineEnd(asked, k) ==
    Len(RequestLine(asked) \o HeaderLines(SubSeq(asked.headers, 1, k)))

\* The callbacks that a request is worth. Without any header it has no body.
Calls(asked) ==
    <<<<"onRequest", asked.query>>>>
        \o [k \in DOMAIN asked.headers |-> <<"onHeaderReceived", asked.headers[k][2]>>]
        \o (IF asked.headers = <<>> THEN <<>> ELSE <<<<"onBodyBegin">>>>)

\* How many symbols of it the k-th callback takes.
Due(asked, k) ==
    IF k <= Len(asked.headers) + 1 THEN LineEnd(asked, k - 1) ELSE LineEnd(asked, k - 2) + 2

Body(asked, n) == SubSeq(asked.body, 1, n + Len(asked.body) - Len(Written(asked)))

(* However a request is cut into segments, the callbacks up to the answer   *)
(* are those of its text: onRequest with the query, onHeaderReceived with   *)
(* each header, onBodyBegin behind them and every byte of the body, once,   *)
(* in order and in time, and onRequestEnd behind them                       *)
(* (HTTPServer::onReceive).                                                 *)
CutsDoNotMatter ==
    \A i \in {j \in Sockets : clients[j].state \in {"ESTABLISHED", "CLOSING"}} :
        LET s == clients[i]
            asked == peers[remote[i]].asked
            calls == Calls(asked)
            due == {k \in DOMAIN calls : Due(asked, k) <= s.received}
        IN  /\ \A k \in DOMAIN s.heard :
                s.heard[k] = IF k \in DOMAIN calls THEN calls[k] ELSE <<"onRequestEnd">>
            /\ DOMAIN s.heard \intersect DOMAIN calls \subseteq due
            /\ IsPrefix(s.body, Body(asked, s.received))
            /\ ~Answered(s) =>
                due \subseteq DOMAIN s.heard /\ s.body = Body(asked, s.received)

MethodOf(asked) == FoldLeft(LAMBDA sum, n : sum + n, 0, asked.method) % MethodMod

(* What a client is told is the answer to its own request, whatever its     *)
(* socket served before and whenever connections broke: the status, as much *)
(* of the page as came, and all of it when the server closed (the reuse of  *)
(* HTTPServers by TCPListener, HTTPClient::onReceive and onClose).          *)
OwnAnswer ==
    \A c \in Connections :
        LET p == peers[c]
            code == StatusFor(MethodOf(p.asked), p.asked.query)
        IN  p.statusCode # 0 =>
                /\ p.statusCode = code
                /\ IsPrefix(p.page, Page(code))
                /\ p.ended /\ p.bodySignaled => p.page = Page(code)

(* A socket that has answered serves others again, whatever becomes of the  *)
(* client (HTTPServer::endResponse, TCPSocket::tick).                       *)
AnsweredSocketReturns ==
    \A i \in Sockets :
        (clients[i].state \in {"ESTABLISHED", "CLOSING"} /\ Answered(clients[i]))
            ~> (clients[i].state = "CLOSED")

(* HTTPServer.h: onRequestEnd is "called after all the body has been        *)
(* received".                                                               *)
RequestEndsAfterBody ==
    \A i \in {j \in Sockets : clients[j].state = "ESTABLISHED"} :
        Contains(clients[i].heard, <<"onRequestEnd">>) =>
            clients[i].body = peers[remote[i]].asked.body
=============================================================================
