----------------------------- MODULE MCWebServer -----------------------------
(* A request for the page, one for its icon without any header, and one    *)
(* with two headers and a body, which the sketch does not allow.           *)
EXTENDS WebServer

CONSTANTS c1, c2

page == [method |-> <<230>>, query |-> "/", headers |-> <<Header("Host", 0)>>, body |-> <<>>]
icon == [method |-> <<230>>, query |-> "/favicon.ico", headers |-> <<>>, body |-> <<>>]
form ==
    [method |-> <<165, 169>>, query |-> "/", body |-> <<CR, Text("form")>>,
     headers |-> <<Header("Content-Length", 2), Header("Host", 192)>>]

MCRequests == [c \in Connections |-> IF c = c1 THEN {page, form} ELSE {icon}]
JustForm == [c \in Connections |-> {[form EXCEPT !.headers = <<Head(@)>>]}]
=============================================================================
