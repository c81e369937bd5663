-------------------------- MODULE DNSClientProofs --------------------------
(***************************************************************************)
(* Proofs about DNSClient, for any clients, names, identifiers and         *)
(* timeouts, and for a buffer of any size.                                 *)
(***************************************************************************)
EXTENDS DNSClient, SequenceTheorems, TLAPS

Queries == [name : Names, number : 1 .. MaxQueries]

\* A response carries the id of its name.
ResponsesMatch == \A resp \in toClient : resp.id = IdOf[resp.name]

\* A client that waits, waits for the name of its request, and waits no more
\* once it has an address.
WaitsForHost ==
    \A c \in Clients :
        /\ DNSid[c] # 0 => DNSid[c] = IdOf[host[c]]
        /\ remoteIP[c] # Unresolved => DNSid[c] = 0

Timed == TypeOK /\ QueuedIsTimed

Sound == Timed /\ ResponsesMatch /\ WaitsForHost

\* Different names have different checksums.
IdsAreDistinct == \A m, n \in Names : IdOf[m] = IdOf[n] => m = n

-----------------------------------------------------------------------------
(* Operators *)

(* The network adds nothing but the messages it is given.                  *)
LEMMA CarriedBound ==
    ASSUME NEW network, NEW msgs
    PROVE  Carried(network, msgs) \subseteq network \cup msgs
BY DEF Carried

(* Releasing the front query leaves queries, and an empty buffer empty.    *)
LEMMA ReleasedType ==
    ASSUME NEW q \in Seq(Queries)
    PROVE  Released(q) \in Seq(Queries) /\ (Released(q) # <<>> => q # <<>>)
BY HeadTailProperties DEF Released

(* What is sent is the front query.                                        *)
LEMMA SendPacketType ==
    ASSUME NEW q \in Seq(Queries), NEW out, sendPacket(q, out),
           toServer \in SUBSET Names, sent \in SUBSET (1 .. MaxQueries)
    PROVE  /\ sending' \in BOOLEAN
           /\ toServer' \in SUBSET Names
           /\ sent' \in SUBSET (1 .. MaxQueries)
<1>1. CASE out /\ q # <<>>
  <2>1. Head(q) \in Queries
    BY <1>1, HeadTailProperties
  <2>2. Head(q).name \in Names /\ Head(q).number \in 1 .. MaxQueries
    BY <2>1 DEF Queries
  <2>3. /\ sending' = FALSE
        /\ toServer' = Carried(toServer, {Head(q).name})
        /\ sent' = sent \cup {Head(q).number}
    BY <1>1 DEF sendPacket
  <2>4. Carried(toServer, {Head(q).name}) \subseteq toServer \cup {Head(q).name}
    BY CarriedBound
  <2>5. toServer' \in SUBSET Names
    BY <2>2, <2>3, <2>4
  <2>6. sending' \in BOOLEAN /\ sent' \in SUBSET (1 .. MaxQueries)
    BY <2>2, <2>3
  <2> QED BY <2>5, <2>6
<1>2. CASE ~out \/ q = <<>>
  BY <1>2 DEF sendPacket
<1> QED BY <1>1, <1>2

\* What every action has to keep of the variables that sending concerns.
SendingTyped ==
    /\ sending \in BOOLEAN
    /\ toServer \in SUBSET Names
    /\ sent \in SUBSET (1 .. MaxQueries)

LEMMA SendType ==
    ASSUME TypeOK, NEW q \in Seq(Queries), NEW out, send(q, out)
    PROVE  SendingTyped'
BY SendPacketType DEF TypeOK, send, nothingSent, SendingTyped

-----------------------------------------------------------------------------

LEMMA SoundInit == Init => Sound
<1> SUFFICES ASSUME Init PROVE Sound
  OBVIOUS
<1>1. <<>> \in Seq(Queries) /\ 0 \in 0 .. QueryTimeout /\ 0 \in 0 .. MaxQueries
  BY DNSClientAssumption
<1>2. TypeOK
  BY <1>1 DEF Init, TypeOK, Queries
<1> QED BY <1>2 DEF Init, Sound, Timed, QueuedIsTimed, ResponsesMatch, WaitsForHost

(* resolve() starts the timer, whether or not there was room.              *)
LEMMA ResolveSound ==
    ASSUME Sound, NEW name \in Names, NEW out, resolve(name, out)
    PROVE  /\ queue' \in Seq(Queries) /\ timer' \in 1 .. QueryTimeout
           /\ SendingTyped' /\ toClient' = toClient /\ queries' \in 0 .. MaxQueries
<1>1. queries' \in 1 .. MaxQueries
  BY DNSClientAssumption DEF Sound, Timed, TypeOK, resolve
<1>2. [name |-> name, number |-> queries'] \in Queries
  BY <1>1 DEF Queries
<1>3. queue \in Seq(Queries)
  BY DEF Sound, Timed, TypeOK, Queries
<1>4. queue' \in Seq(Queries)
  BY <1>2, <1>3, AppendProperties DEF resolve
<1>5. SendingTyped'
  BY <1>4, SendType DEF resolve, Sound, Timed
<1> QED BY <1>1, <1>4, <1>5, DNSClientAssumption DEF resolve

(* A response releases the front query and leaves the timer alone.         *)
LEMMA OnReceiveSound ==
    ASSUME Sound, NEW resp \in toClient, NEW out, onReceive(resp, out)
    PROVE  Sound'
<1>1. resp \in Response /\ resp.name \in Names /\ resp.id = IdOf[resp.name]
  BY DEF Sound, Timed, TypeOK, Response, ResponsesMatch
<1>2. queue \in Seq(Queries)
  BY DEF Sound, Timed, TypeOK, Queries
<1>3. queue' \in Seq(Queries) /\ (queue' # <<>> => queue # <<>>)
  BY <1>2, ReleasedType DEF onReceive
<1>4. SendingTyped'
  BY <1>3, SendType DEF onReceive, nothingSent, SendingTyped, Sound, Timed, TypeOK
<1>5. timer' = timer /\ toClient' = toClient /\ queries' = queries
  BY DEF onReceive
<1>6. notifyOnDNSResolve(resp)
  BY DEF onReceive
<1>7. /\ DNSid' = [c \in Clients |-> IF c \in Takers(resp) THEN 0 ELSE DNSid[c]]
      /\ remoteIP' = [c \in Clients |-> IF c \in Takers(resp) THEN resp.name ELSE remoteIP[c]]
      /\ host' = host
  BY <1>6 DEF notifyOnDNSResolve
<1>8. /\ DNSid' \in [Clients -> {IdOf[n] : n \in Names} \cup {0}]
      /\ remoteIP' \in [Clients -> Names \cup {Unresolved}]
  BY <1>1, <1>7 DEF Sound, Timed, TypeOK
<1>9. resolved' \in [Clients -> SUBSET (Names \X Names)]
  <2>1. \A c \in Clients : host[c] \in Names /\ resolved[c] \in SUBSET (Names \X Names)
    BY DEF Sound, Timed, TypeOK
  <2> QED BY <1>1, <1>6, <2>1 DEF notifyOnDNSResolve
<1>10. TypeOK'
  BY <1>3, <1>4, <1>5, <1>7, <1>8, <1>9 DEF Sound, Timed, TypeOK, SendingTyped, Queries
<1>11. QueuedIsTimed' /\ ResponsesMatch'
  BY <1>3, <1>5 DEF Sound, Timed, QueuedIsTimed, ResponsesMatch
<1>12. WaitsForHost'
  <2> SUFFICES ASSUME NEW c \in Clients
               PROVE  /\ DNSid'[c] # 0 => DNSid'[c] = IdOf[host[c]]
                      /\ remoteIP'[c] # Unresolved => DNSid'[c] = 0
    BY <1>7 DEF WaitsForHost
  <2> QED BY <1>7 DEF Sound, WaitsForHost
<1> QED BY <1>10, <1>11, <1>12 DEF Sound, Timed

(* When the timer runs out it starts again, so it runs as long as a query  *)
(* waits.                                                                  *)
LEMMA TickSound ==
    ASSUME Sound, NEW out, tick(out)
    PROVE  Sound'
<1>1. queue \in Seq(Queries) /\ timer \in 0 .. QueryTimeout
  BY DEF Sound, Timed, TypeOK, Queries
<1>2. queue' \in Seq(Queries) /\ (queue' # <<>> => queue # <<>>)
  BY <1>1, ReleasedType DEF tick
<1>3. timer' \in 0 .. QueryTimeout /\ (timer > 0 => timer' > 0)
  BY <1>1, DNSClientAssumption DEF tick, TimedOut, Counted
<1>4. SendingTyped'
  BY <1>2, SendPacketType DEF tick, nothingSent, SendingTyped, Sound, Timed, TypeOK
<1>5. UNCHANGED <<toClient, queries, clientVars>>
  BY DEF tick
<1>6. TypeOK'
  BY <1>2, <1>3, <1>4, <1>5 DEF Sound, Timed, TypeOK, SendingTyped, Queries, clientVars
<1> QED BY <1>2, <1>3, <1>5, <1>6 DEF Sound, Timed, QueuedIsTimed, ResponsesMatch, WaitsForHost, clientVars

LEMMA SoundStep == Sound /\ [Next]_vars => Sound'
<1> SUFFICES ASSUME Sound, [Next]_vars PROVE Sound'
  OBVIOUS
<1>1. ASSUME NEW c \in Clients, NEW name \in Names, NEW out, requestByName(c, name, out)
      PROVE  Sound'
  <2>1. resolve(name, out)
    BY <1>1 DEF requestByName
  <2>2. /\ queue' \in Seq(Queries) /\ timer' \in 1 .. QueryTimeout
        /\ SendingTyped' /\ toClient' = toClient /\ queries' \in 0 .. MaxQueries
    BY <2>1, ResolveSound
  <2>3. /\ host' = [host EXCEPT ![c] = name]
        /\ DNSid' = [DNSid EXCEPT ![c] = IdOf[name]]
        /\ remoteIP[c] = Unresolved
        /\ UNCHANGED <<remoteIP, resolved>>
    BY <1>1 DEF requestByName
  <2>4. /\ host' \in [Clients -> Names]
        /\ DNSid' \in [Clients -> {IdOf[n] : n \in Names} \cup {0}]
    BY <2>3 DEF Sound, Timed, TypeOK
  <2>5. timer' \in 0 .. QueryTimeout /\ timer' > 0
    BY <2>2, DNSClientAssumption
  <2>6. TypeOK' /\ QueuedIsTimed'
    BY <2>2, <2>3, <2>4, <2>5 DEF Sound, Timed, TypeOK, QueuedIsTimed, SendingTyped, Queries
  <2>7. ResponsesMatch'
    BY <2>2 DEF Sound, ResponsesMatch
  <2>8. WaitsForHost'
    BY <2>3 DEF Sound, Timed, TypeOK, WaitsForHost
  <2> QED BY <2>6, <2>7, <2>8 DEF Sound, Timed
<1>2. ASSUME NEW c \in Clients, NEW name \in Names, requestByAddress(c, name)
      PROVE  Sound'
  <2>1. /\ remoteIP[c] # Unresolved /\ host' = [host EXCEPT ![c] = name]
        /\ UNCHANGED <<queue, timer, sending, toServer, toClient, queries, sent, DNSid, remoteIP, resolved>>
    BY <1>2 DEF requestByAddress
  <2>2. TypeOK'
    BY <2>1 DEF Sound, Timed, TypeOK
  <2>3. WaitsForHost'
    BY <2>1 DEF Sound, Timed, TypeOK, WaitsForHost
  <2> QED BY <2>1, <2>2, <2>3 DEF Sound, Timed, QueuedIsTimed, ResponsesMatch
<1>3. ASSUME NEW name \in Names, NEW ok \in BOOLEAN, respond(name, ok)
      PROVE  Sound'
  <2> DEFINE resp == [name |-> name, id |-> IdOf[name], ok |-> ok]
  <2>1. resp \in Response /\ resp.id = IdOf[resp.name]
    BY DEF Response
  <2>2. toClient' \subseteq toClient \cup {resp}
    BY <1>3, CarriedBound DEF respond
  <2>3. UNCHANGED <<queue, timer, sending, toServer, queries, sent, clientVars>>
    BY <1>3 DEF respond
  <2>4. toClient' \subseteq Response /\ ResponsesMatch'
    BY <2>1, <2>2 DEF Sound, Timed, TypeOK, ResponsesMatch
  <2> QED BY <2>3, <2>4 DEF Sound, Timed, TypeOK, QueuedIsTimed, WaitsForHost, clientVars
<1>4. CASE lose
  <2>1. /\ toServer' \subseteq toServer /\ toClient' \subseteq toClient
        /\ UNCHANGED <<queue, timer, sending, queries, sent, clientVars>>
    BY <1>4 DEF lose
  <2> QED BY <2>1 DEF Sound, Timed, TypeOK, QueuedIsTimed, ResponsesMatch, WaitsForHost, clientVars
<1>5. CASE UNCHANGED vars
  BY <1>5 DEF Sound, Timed, TypeOK, QueuedIsTimed, ResponsesMatch, WaitsForHost, vars, clientVars
<1> QED BY <1>1, <1>2, <1>3, <1>4, <1>5, OnReceiveSound, TickSound DEF Next

LEMMA SoundAlways == Spec => []Sound
BY SoundInit, SoundStep, PTL DEF Spec

(* The resolver's and the clients' variables keep to their ranges.         *)
THEOREM TypeCorrect == Spec => []TypeOK
BY SoundAlways, PTL DEF Sound, Timed

(* As long as a query is in the buffer there is a timer that will give it  *)
(* up (DNS.cpp:100-111).                                                   *)
THEOREM QueuedAreTimed == Spec => []QueuedIsTimed
BY SoundAlways, PTL DEF Sound, Timed

-----------------------------------------------------------------------------
(* Answers *)

LEMMA OwnStep ==
    ASSUME IdsAreDistinct, Sound, OwnAnswerTaken, [Next]_vars
    PROVE  OwnAnswerTaken'
<1>1. ASSUME NEW resp \in toClient, NEW out, onReceive(resp, out)
      PROVE  OwnAnswerTaken'
  <2>1. /\ resp.name \in Names /\ resp.id = IdOf[resp.name]
        /\ \A c \in Clients : host[c] \in Names
    BY DEF Sound, Timed, TypeOK, Response, ResponsesMatch
  <2>2. resp.id # 0
    BY <2>1, DNSClientAssumption
  <2>3. \A c \in Takers(resp) : host[c] = resp.name
    BY <2>1, <2>2 DEF Sound, WaitsForHost, Takers, IdsAreDistinct
  <2>4. \A c \in Clients :
            resolved'[c] \subseteq resolved[c] \cup
                                   (IF c \in Takers(resp) THEN {<<host[c], resp.name>>} ELSE {})
    BY <1>1 DEF onReceive, notifyOnDNSResolve
  <2>5. ASSUME NEW c \in Clients, NEW pair \in resolved'[c]
        PROVE  pair[1] = pair[2]
    <3>1. CASE pair \in resolved[c]
      BY <3>1 DEF OwnAnswerTaken
    <3>2. CASE pair \notin resolved[c]
      BY <3>2, <2>3, <2>4, <2>5
    <3> QED BY <3>1, <3>2
  <2> QED BY <2>5 DEF OwnAnswerTaken
<1>2. CASE resolved' = resolved
  BY <1>2 DEF OwnAnswerTaken
<1>3. \/ resolved' = resolved
      \/ \E resp \in toClient, out \in Reachable : onReceive(resp, out)
  BY DEF Next, vars, clientVars, requestByName, requestByAddress, tick, respond, lose
<1> QED BY <1>1, <1>2, <1>3

(* Provided that no two names have the same checksum, an HTTPClient takes  *)
(* only the answer for the name it asked for last, however late, repeated  *)
(* or reordered the responses are, and whatever other clients ask.         *)
THEOREM AnswersAreOwn == IdsAreDistinct => (Spec => []OwnAnswerTaken)
<1> SUFFICES ASSUME IdsAreDistinct PROVE Spec => []OwnAnswerTaken
  OBVIOUS
<1>1. Init => OwnAnswerTaken
  BY DEF Init, OwnAnswerTaken
<1>2. Sound /\ OwnAnswerTaken /\ [Next]_vars => OwnAnswerTaken'
  BY OwnStep
<1> QED BY <1>1, <1>2, SoundAlways, PTL DEF Spec
=============================================================================
