------------------------------ MODULE HTTPServer ------------------------------
(***************************************************************************)
(* HTTPServer (HTTPServer.h, HTTPServer.cpp): the parser of a request that *)
(* arrives in segments cut anywhere, and the writing of a response from    *)
(* within one of its callbacks, as HTTPServerDemo_MultipleClients.ino does *)
(* it. Every method is an operator on a socket; `heard' and `body' record  *)
(* the callbacks it made.                                                  *)
(*                                                                         *)
(* A request or response is a sequence of symbols, each a character or a   *)
(* run of characters that the code treats alike.                           *)
(***************************************************************************)
EXTENDS Integers, SequencesExt

CONSTANTS
    GET,        \* HTTP_METHOD_GET
    MethodMod,  \* 2 ^ 8: httpMethod is a byte
    LengthMod   \* 2 ^ 16: contentLength

ASSUME HTTPServerAssumption == MethodMod \in Nat \ {0} /\ LengthMod \in Nat \ {0}

HTTP_SERVER_STAGE_INIT == 0
HTTP_SERVER_STAGE_QUERY_STRING == 2
HTTP_SERVER_STAGE_HEADERS == 3
HTTP_SERVER_STAGE_BODY == 4
HTTP_SERVER_STAGE_RESPONSE == 5
HTTP_SERVER_STAGE_RESPONSE_BODY == 6
HTTP_SERVER_STAGE_RESPONSE_END == 7

CR == <<"\r">>
LF == <<"\n">>
SP == <<" ">>
EndOfLine == <<CR, LF>>
Method(n) == <<"method", n>>                \* a character that adds n to httpMethod
Query(q) == <<"query", q>>                  \* the query string and " HTTP/1.1"
Header(name, n) == <<"header", name, n>>    \* "name: value", atoi(value) = n
Status(code) == <<"status", code>>          \* "HTTP/1.1 code message"
Text(t) == <<"text", t>>                    \* a piece of a body

EndsWith(symbols, kinds) ==
    /\ Len(symbols) >= Len(kinds)
    /\ \A i \in DOMAIN kinds : symbols[Len(symbols) - Len(kinds) + i][1] = kinds[i]

Answered(s) == s.stage >= HTTP_SERVER_STAGE_RESPONSE

-----------------------------------------------------------------------------
\* The response

write(s, symbols) == [s EXCEPT !.buffer = @ \o symbols]

beginResponse(s, code) ==
    write([s EXCEPT !.stage = HTTP_SERVER_STAGE_RESPONSE], <<Status(code)>> \o EndOfLine)

writeHeader(s, name) == write(s, <<Header(name, 0)>> \o EndOfLine)

beginResponseBody(s) ==
    write([s EXCEPT !.stage = HTTP_SERVER_STAGE_RESPONSE_BODY], EndOfLine)

\* TCPSocket::close of a connection that is open.
close(s) == [s EXCEPT !.state = IF @ = "ESTABLISHED" THEN "CLOSING" ELSE @]

\* Mutant: the connection stays open.
endResponse_Open(s) ==
    [IF s.stage < HTTP_SERVER_STAGE_RESPONSE_BODY THEN beginResponseBody(s) ELSE s
        EXCEPT !.stage = HTTP_SERVER_STAGE_RESPONSE_END]

endResponse(s) ==
    [close(IF s.stage < HTTP_SERVER_STAGE_RESPONSE_BODY THEN beginResponseBody(s) ELSE s)
        EXCEPT !.stage = HTTP_SERVER_STAGE_RESPONSE_END]

\* The sketch's answer, by method and query.
StatusFor(httpMethod, query) ==
    IF httpMethod # GET THEN 405
    ELSE IF query = "/" THEN 200
    ELSE IF query = "/favicon.ico" THEN 302 ELSE 404

Headers(code) == IF code = 404 THEN <<>> ELSE <<Header("Name", 0)>>

Page(code) ==
    CASE code = 200 -> <<Text("temp"), Text("rest")>>
      [] code = 302 -> <<>>
      [] OTHER -> <<Text("error")>>

\* The sketch's onRequest. A redirection has no body of its own: endResponse
\* ends the headers.
respond(s) ==
    LET code == StatusFor(s.httpMethod, s.query)
        begun == beginResponse(s, code)
        headed == IF Headers(code) = <<>> THEN begun ELSE writeHeader(begun, "Name")
    IN  endResponse(IF code = 302 THEN headed ELSE write(beginResponseBody(headed), Page(code)))

-----------------------------------------------------------------------------
\* The request

\* Mutant: the method of the previous request stays.
resetParser_KeepsMethod(s) ==
    [s EXCEPT !.contentLength = 0, !.crlfcount = 0, !.stage = HTTP_SERVER_STAGE_INIT,
              !.requestSignaled = FALSE, !.scanned = <<>>, !.heard = <<>>, !.body = <<>>]

\* The scanner looks for the request pattern again; the record of callbacks
\* begins anew.
resetParser(s) ==
    [s EXCEPT !.contentLength = 0, !.crlfcount = 0, !.stage = HTTP_SERVER_STAGE_INIT,
              !.httpMethod = 0,
              !.requestSignaled = FALSE, !.scanned = <<>>, !.heard = <<>>, !.body = <<>>]

onConnect(s) == resetParser(s)

onClose(s) == close(s)

\* A callback: the application notes it, and answers in the one it chose.
Called(s, callback) ==
    LET told == [s EXCEPT !.heard = Append(@, callback)]
    IN  IF callback[1] = s.answersIn THEN respond(told) ELSE told

onBodyReceived(s, data) ==
    LET told == [s EXCEPT !.body = @ \o data]
    IN  IF s.answersIn = "onBodyReceived" THEN respond(told) ELSE told

\* Body bytes, if only none, and the end of the request when the count of
\* what is to come is at zero.
receiveBody(s, data) ==
    LET told == onBodyReceived(s, data)
        counted == [told EXCEPT !.contentLength = (@ - Len(data)) % LengthMod]
    IN  IF Answered(told) THEN told
        ELSE IF counted.contentLength = 0 THEN Called(counted, <<"onRequestEnd">>)
        ELSE counted

\* A character of the method, or the space after it.
scanMethod(s, c) ==
    IF c = SP THEN [s EXCEPT !.stage = HTTP_SERVER_STAGE_QUERY_STRING]
    ELSE [s EXCEPT !.httpMethod = (@ + c[2]) % MethodMod]

\* FlowScanner: the request pattern signals at the end of its line. An
\* application that answers in onRequest leaves the parser there.
scanQuery(s, c) ==
    LET line == Append(s.scanned, c)
        query == line[Len(line) - 2][2]
        signaled == [s EXCEPT !.requestSignaled = TRUE, !.query = query]
        asked == Called(signaled, <<"onRequest", query>>)
    IN  IF ~EndsWith(line, <<"query", "\r", "\n">>) THEN [s EXCEPT !.scanned = line]
        ELSE IF Answered(asked) THEN asked
        ELSE [asked EXCEPT !.crlfcount = 0, !.scanned = <<>>, !.stage = HTTP_SERVER_STAGE_HEADERS]

\* strcasecmp_P is zero, that is false, for the one name that matters.
scanHeader(s, c) ==
    LET line == Append(s.scanned, c)
        header == line[Len(line) - 2]
        measured == IF header[2] # "Content-Length"
                    THEN [s EXCEPT !.contentLength = header[3] % LengthMod] ELSE s
    IN  IF ~EndsWith(line, <<"header", "\r", "\n">>) THEN [s EXCEPT !.scanned = line]
        ELSE [Called(measured, <<"onHeaderReceived", header[2]>>) EXCEPT !.scanned = <<>>]

\* Four line ends begin the body; any other character starts the count over.
scanLines(s, c) ==
    LET counted == [s EXCEPT !.crlfcount = IF c \in {CR, LF} THEN @ + 1 ELSE 0]
    IN  IF counted.crlfcount = 4
        THEN Called([counted EXCEPT !.stage = HTTP_SERVER_STAGE_BODY], <<"onBodyBegin">>)
        ELSE scanHeader(counted, c)

\* One character, unless the loop has returned: at an answer in onRequest and
\* where the body begins, but not at an answer in onHeaderReceived.
scanCharacter(loop, c) ==
    LET s == loop.socket
        next == IF s.requestSignaled THEN scanLines(s, c)
                ELSE IF s.stage = HTTP_SERVER_STAGE_QUERY_STRING THEN scanQuery(s, c)
                ELSE scanMethod(s, c)
    IN  IF loop.done THEN loop
        ELSE [socket |-> next,
              rest |-> Tail(loop.rest),
              done |-> next.crlfcount = 4 \/ (~s.requestSignaled /\ Answered(next))]

scanned(s, data) == FoldLeft(scanCharacter, [socket |-> s, rest |-> data, done |-> FALSE], data)

\* Mutant: onBodyReceived is given the whole segment.
onReceive_WholeSegment(s, data) ==
    IF Answered(s) THEN s
    ELSE IF s.crlfcount = 4 THEN receiveBody(s, data)
    ELSE LET loop == scanned(s, data)
         IN  IF Answered(loop.socket) \/ loop.socket.crlfcount # 4 THEN loop.socket
             ELSE receiveBody(loop.socket, data)

\* rest is what the segment holds of the body already.
onReceive(s, data) ==
    IF Answered(s) THEN s
    ELSE IF s.crlfcount = 4 THEN receiveBody(s, data)
    ELSE LET loop == scanned(s, data)
         IN  IF Answered(loop.socket) \/ loop.socket.crlfcount # 4 THEN loop.socket
             ELSE receiveBody(loop.socket, loop.rest)
=============================================================================
