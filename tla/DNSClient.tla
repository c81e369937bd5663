----------------------------- MODULE DNSClient -----------------------------
(***************************************************************************)
(* The DNS resolver (DNS.h, DNS.cpp), the HTTPClients that wait for its    *)
(* answers (HTTPClient.cpp:68-97), and a name server behind a network that *)
(* loses, delays and duplicates.                                           *)
(*                                                                         *)
(* A query is a fragment in the resolver's buffer.  The one at the front   *)
(* is sent, again whenever send() is called, and released by the next      *)
(* response, whichever query that belongs to, or by the timer.             *)
(***************************************************************************)
EXTENDS Integers, Sequences, FiniteSets

CONSTANTS
    Clients,        \* HTTPClients
    Names,          \* host names; also stands for the address of each
    Unresolved,     \* the address 0.0.0.0
    IdOf,           \* per name, the checksum that identifies its query
    Reachable,      \* what asking ARP for the next hop may yield: found or not
    Room,           \* queries the shared buffer has room for
    QueryTimeout,   \* DNS_TIMEOUT_QUERY, in ticks
    MaxQueries,     \* bound: calls of resolve()
    MaxInFlight     \* bound: messages on their way in each direction

ASSUME DNSClientAssumption ==
    /\ Unresolved \notin Names
    /\ IdOf \in [Names -> Nat \ {0}]
    /\ Reachable \subseteq BOOLEAN
    /\ Room \in Nat
    /\ QueryTimeout \in 1 .. 255
    /\ MaxQueries \in Nat
    /\ MaxInFlight \in Nat

VARIABLES
    queue,          \* the buffer: queries written and not released
    timer,
    sending,        \* whether the front query waits for the next hop's MAC address
    toServer,       \* names asked for, on their way
    toClient,       \* responses on their way
    DNSid,          \* per client, the id it waits for, or 0
    host,           \* per client, the name of its request
    remoteIP,       \* per client, the address it connects to
    queries,        \* history: the number of queries written
    sent,           \* history: which of them have been sent
    resolved        \* history: per client, <<host, address>> when an answer was taken

clientVars == <<DNSid, host, remoteIP, resolved>>
vars == <<queue, timer, sending, toServer, toClient, queries, sent, clientVars>>

Response == [name : Names, id : {IdOf[n] : n \in Names}, ok : BOOLEAN]

Carried(network, msgs) ==
    IF Cardinality(network \cup msgs) <= MaxInFlight THEN network \cup msgs ELSE network

\* Mutant: with nothing to send it goes on trying.
sendPacket_KeepsTrying(q, out) ==
    \/ /\ out /\ q # <<>>
       /\ sending' = FALSE
       /\ toServer' = Carried(toServer, {Head(q).name})
       /\ sent' = sent \cup {Head(q).number}
    \/ /\ ~out \/ q = <<>>
       /\ sending' = TRUE
       /\ UNCHANGED <<toServer, sent>>

\* DNSClient::sendPacket() with the queries q in the buffer; out tells whether
\* the next hop is in the ARP table.
sendPacket(q, out) ==
    \/ /\ out /\ q # <<>>
       /\ sending' = FALSE
       /\ toServer' = Carried(toServer, {Head(q).name})
       /\ sent' = sent \cup {Head(q).number}
    \/ /\ ~out \/ q = <<>>
       /\ sending' = (q # <<>>)
       /\ UNCHANGED <<toServer, sent>>

nothingSent == UNCHANGED <<sending, toServer, sent>>

\* UDPSocket::send() sends nothing when a datagram waits already.
send(q, out) ==
    IF sending THEN nothingSent ELSE sendPacket(q, out)

Released(q) == IF q = <<>> THEN q ELSE Tail(q)

-----------------------------------------------------------------------------
(* The application's requests *)

\* resolve(): the query is written, when there is room, and the front one sent.
resolve(name, out) ==
    /\ queries < MaxQueries
    /\ queries' = queries + 1
    /\ queue' = IF Len(queue) < Room
                THEN Append(queue, [name |-> name, number |-> queries'])
                ELSE queue
    /\ timer' = QueryTimeout
    /\ send(queue', out)
    /\ UNCHANGED toClient

\* HTTPClient::request() for the first time.
requestByName(c, name, out) ==
    /\ remoteIP[c] = Unresolved
    /\ host' = [host EXCEPT ![c] = name]
    /\ DNSid' = [DNSid EXCEPT ![c] = IdOf[name]]
    /\ resolve(name, out)
    /\ UNCHANGED <<remoteIP, resolved>>

\* request() once an address is known.
requestByAddress(c, name) ==
    /\ remoteIP[c] # Unresolved
    /\ host' = [host EXCEPT ![c] = name]
    /\ UNCHANGED <<queue, timer, sending, toServer, toClient, queries, sent, DNSid, remoteIP, resolved>>

-----------------------------------------------------------------------------
(* Responses *)

\* Mutant: whoever waits for anything takes the answer.
Takers_All(resp) == {c \in Clients : resp.ok /\ DNSid[c] # 0}

\* The clients whose onDNSResolve takes the response.
Takers(resp) == {c \in Clients : resp.ok /\ DNSid[c] = resp.id}

notifyOnDNSResolve(resp) ==
    LET takers == Takers(resp)
        taken == [c \in Clients |-> IF c \in takers THEN {<<host[c], resp.name>>} ELSE {}]
    IN  /\ DNSid' = [c \in Clients |-> IF c \in takers THEN 0 ELSE DNSid[c]]
        /\ remoteIP' = [c \in Clients |-> IF c \in takers THEN resp.name ELSE remoteIP[c]]
        /\ resolved' = [c \in Clients |-> resolved[c] \cup taken[c]]
        /\ UNCHANGED host

\* The front query is released and the next one sent.
onReceive(resp, out) ==
    /\ notifyOnDNSResolve(resp)
    /\ queue' = Released(queue)
    /\ IF queue' = <<>> THEN nothingSent ELSE send(queue', out)
    /\ UNCHANGED <<timer, toClient, queries>>

-----------------------------------------------------------------------------
(* Time *)

\* Mutant: the timer stops after the first timeout.
TimedOut_Stops == 0
TimedOut == QueryTimeout

Counted(t) == IF t > 0 THEN t - 1 ELSE t

\* tick(): the front query is given up when the timer runs out, and what waits
\* for the next hop is tried again.
tick(out) ==
    /\ queue' = IF timer = 1 THEN Released(queue) ELSE queue
    /\ timer' = IF timer = 1 THEN TimedOut ELSE Counted(timer)
    /\ IF sending THEN sendPacket(queue', out) ELSE nothingSent
    /\ UNCHANGED <<toClient, queries, clientVars>>

-----------------------------------------------------------------------------
(* The name server and the network *)

respond(name, ok) ==
    /\ name \in toServer
    /\ toClient' = Carried(toClient, {[name |-> name, id |-> IdOf[name], ok |-> ok]})
    /\ UNCHANGED <<queue, timer, sending, toServer, queries, sent, clientVars>>

lose ==
    /\ \/ \E name \in toServer : toServer' = toServer \ {name} /\ UNCHANGED toClient
       \/ \E resp \in toClient : toClient' = toClient \ {resp} /\ UNCHANGED toServer
    /\ UNCHANGED <<queue, timer, sending, queries, sent, clientVars>>

Init ==
    /\ queue = <<>>
    /\ timer = 0
    /\ sending = FALSE
    /\ toServer = {}
    /\ toClient = {}
    /\ DNSid = [c \in Clients |-> 0]
    /\ host \in [Clients -> Names]
    /\ remoteIP = [c \in Clients |-> Unresolved]
    /\ queries = 0
    /\ sent = {}
    /\ resolved = [c \in Clients |-> {}]

Next ==
    \/ \E c \in Clients, name \in Names, out \in Reachable : requestByName(c, name, out)
    \/ \E c \in Clients, name \in Names : requestByAddress(c, name)
    \/ \E resp \in toClient, out \in Reachable : onReceive(resp, out)
    \/ \E out \in Reachable : tick(out)
    \/ \E name \in Names, ok \in BOOLEAN : respond(name, ok)
    \/ lose

Spec == Init /\ [][Next]_vars

\* NetworkService::loop() ticks the resolver for ever.
FairSpec == Spec /\ WF_vars(\E out \in Reachable : tick(out))

-----------------------------------------------------------------------------

(* The variables keep to their ranges.                                     *)
TypeOK ==
    /\ queue \in Seq([name : Names, number : 1 .. MaxQueries])
    /\ timer \in 0 .. QueryTimeout
    /\ sending \in BOOLEAN
    /\ toServer \subseteq Names
    /\ toClient \subseteq Response
    /\ DNSid \in [Clients -> {IdOf[n] : n \in Names} \cup {0}]
    /\ host \in [Clients -> Names]
    /\ remoteIP \in [Clients -> Names \cup {Unresolved}]
    /\ queries \in 0 .. MaxQueries
    /\ sent \subseteq 1 .. MaxQueries
    /\ resolved \in [Clients -> SUBSET (Names \X Names)]

(* No query waits without a timer that will give it up: the buffer they    *)
(* all share gets its space back (DNS.cpp:100-111).                        *)
QueuedIsTimed == queue # <<>> => timer > 0

(* A client takes only the answer for the name it asked for last, however  *)
(* late, reordered or repeated the responses, and whatever the other       *)
(* clients ask (HTTPClient.cpp:84).                                        *)
OwnAnswerTaken == \A c \in Clients : \A pair \in resolved[c] : pair[1] = pair[2]

(* The resolver comes to rest whatever the network loses: nothing is left  *)
(* in the buffer and nothing waits to be sent.                             *)
ResolverRests == (queue # <<>> \/ sending) ~> (queue = <<>> /\ ~sending)
=============================================================================
