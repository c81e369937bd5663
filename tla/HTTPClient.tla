------------------------------ MODULE HTTPClient ------------------------------
(***************************************************************************)
(* HTTPClient (HTTPClient.h, HTTPClient.cpp) with the application of       *)
(* HTTPClientDemo_REST.ino: it gives up on any status but 200 and closes   *)
(* the connection once it has read the temperature. A response is a        *)
(* sequence of the symbols of HTTPServer, in segments cut anywhere.        *)
(*                                                                         *)
(* request() and onDNSResolve() are in DNSClient.                          *)
(***************************************************************************)
EXTENDS HTTPServer

\* TCPSocket::terminate, as seen from the application.
terminate(c) == [c EXCEPT !.state = "CLOSED"]

\* onConnect: the patterns are set anew, and the request is written.
ClientConnected(c) ==
    [c EXCEPT !.statusSignaled = FALSE, !.bodySignaled = FALSE, !.seen = <<>>, !.statusCode = 0]

\* The sketch: the connection is ended at a status it has no use for.
onResponseReceived(c, code) ==
    LET told == [c EXCEPT !.statusCode = code]
    IN  IF code = 200 THEN told ELSE terminate(told)

\* onBodyReceived of the sketch: it closes when the pattern signals.
pageReceived(c, data) ==
    LET told == [c EXCEPT !.page = @ \o data]
        found == Contains(data, Text("temp")) /\ ~Contains(c.page, Text("temp"))
    IN  IF found THEN close(told) ELSE told

\* One character of the response's head. What the application did in
\* onResponseReceived does not stop the scan.
scanHead(loop, symbol) ==
    LET c == loop.client
        line == Append(c.seen, symbol)
        scanning == [c EXCEPT !.seen = line]
        next == IF ~c.statusSignaled /\ EndsWith(line, <<"status", "\r", "\n">>)
                THEN onResponseReceived([c EXCEPT !.statusSignaled = TRUE, !.seen = <<>>],
                                        line[Len(line) - 2][2])
                ELSE [scanning EXCEPT !.bodySignaled =
                        c.statusSignaled /\ EndsWith(line, <<"\r", "\n", "\r", "\n">>)]
    IN  IF c.bodySignaled THEN loop
        ELSE [client |-> next, rest |-> Tail(loop.rest)]

\* onReceive
ClientReceives(c, data) ==
    LET loop == FoldLeft(scanHead, [client |-> c, rest |-> data], data)
    IN  IF c.bodySignaled THEN pageReceived(c, data)
        ELSE IF loop.client.bodySignaled THEN pageReceived(loop.client, loop.rest)
        ELSE loop.client

\* onClose, and onResponseEnd from it.
ClientClosed(c) == [close(c) EXCEPT !.ended = TRUE]
=============================================================================
