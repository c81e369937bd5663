-------------------------- MODULE DHCPClientProofs --------------------------
(***************************************************************************)
(* Proofs about DHCPClient, for any servers, addresses, timeouts, widths   *)
(* of the timers and number of attempts.                                   *)
(***************************************************************************)
EXTENDS DHCPClient, TLAPS

-----------------------------------------------------------------------------
(* The strengthening *)

\* What an OFFER on its way says was offered.
OffersKept == \A msg \in toClient : msg.type = "OFFER" => <<msg.server, msg.ip>> \in offers

\* The seconds a lease may still last: a timer that starts at zero wraps.
Left == IF renewalTimer = 0 THEN TimerMod ELSE renewalTimer

\* A lease's seconds, gone and to come, are what the server stated, and never
\* more than the timer can count.
LeaseCounted ==
    state = "BOUND" =>
        /\ held + Left <= TimerMod
        /\ stated # 0 => held + renewalTimer = Fitted(stated) /\ renewalTimer > 0

Sound == TypeOK /\ TimersRun /\ RequestsOffered /\ OffersKept /\ LeaseCounted

-----------------------------------------------------------------------------
(* Operators *)

(* The network adds nothing but the message it is given.                   *)
LEMMA CarriedBound ==
    ASSUME NEW network, NEW msg
    PROVE  Carried(network, msg) \subseteq network \cup {msg}
BY DEF Carried

(* The default renewal time fits the timer.                                *)
LEMMA DefaultType == DefaultRenewal \in 0 .. TimerMod - 1
<1> DEFINE seconds == (DefaultRenewalS * 1000) % IntMod
<1>1. seconds \in Nat
  BY DHCPClientAssumption
<1>2. seconds \div BoundTimeoutMs \in Nat
  BY <1>1, DHCPClientAssumption
<1>3. (seconds \div BoundTimeoutMs) % TimerMod \in 0 .. TimerMod - 1
  BY <1>2, DHCPClientAssumption
<1> QED BY <1>3 DEF DefaultRenewal

(* A renewal time that was stated loads the timer with at least a second   *)
(* and no more than it can hold.                                           *)
LEMMA FittedType ==
    ASSUME NEW seconds \in RenewalTimes
    PROVE  Fitted(seconds) \in 1 .. TimerMod - 1
BY DHCPClientAssumption DEF Fitted

LEMMA AttemptedType ==
    ASSUME NEW n \in 0 .. ByteMod - 1
    PROVE  Attempted(n) \in 0 .. ByteMod - 1
BY DHCPClientAssumption DEF Attempted

-----------------------------------------------------------------------------
(* Parts of several actions *)

\* What the network's variables contribute to Sound.
NetworkSound ==
    /\ toServers \subseteq Discover \cup Request
    /\ toClient \subseteq Reply
    /\ offers \subseteq Servers \X Addresses
    /\ RequestsOffered
    /\ OffersKept

(* A DISCOVER leaves every REQUEST on its way as it was.                   *)
LEMMA DiscoverSound ==
    ASSUME TypeOK, RequestsOffered, OffersKept, sendDHCPDiscover
    PROVE  NetworkSound'
<1> DEFINE msg == [type |-> "DISCOVER", server |-> None, ip |-> localIP]
<1>1. msg \in Discover /\ msg.type = "DISCOVER"
  BY DEF TypeOK, Discover
<1>2. toServers' \subseteq toServers \cup {msg}
  BY CarriedBound DEF sendDHCPDiscover
<1>3. toClient' = toClient /\ offers' = offers
  BY DEF sendDHCPDiscover
<1>4. toServers' \subseteq Discover \cup Request
  BY <1>1, <1>2 DEF TypeOK
<1>5. RequestsOffered'
  BY <1>1, <1>2, <1>3 DEF RequestsOffered
<1> QED BY <1>3, <1>4, <1>5 DEF TypeOK, OffersKept, NetworkSound

\* What initDHCP establishes.
Restarted ==
    /\ attempts \in 0 .. ByteMod - 1
    /\ state = "SELECTING"
    /\ stateTimer \in 1 .. 255
    /\ NetworkSound

LEMMA InitDHCPSound ==
    ASSUME TypeOK, RequestsOffered, OffersKept, NEW n \in 0 .. ByteMod - 1, initDHCP(n)
    PROVE  Restarted'
BY DiscoverSound, AttemptedType, DHCPClientAssumption DEF initDHCP, setState, Restarted

(* Sound is made of the parts that an action changes and those it leaves.  *)
LEMMA SoundFromParts ==
    ASSUME Restarted', renewalTimer' \in 0 .. TimerMod - 1, localIP' \in Addresses \cup {None},
           setup' \in {"none", "running", "succeeded", "failed"}, setups' \in 0 .. MaxSetups,
           stated' \in RenewalTimes \cup {0}, held' \in 0 .. TimerMod
    PROVE  Sound'
BY DEF Restarted, NetworkSound, Sound, TypeOK, TimersRun, LeaseCounted

-----------------------------------------------------------------------------

LEMMA SoundInit == Init => Sound
<1> SUFFICES ASSUME Init PROVE Sound
  OBVIOUS
<1>1. TypeOK
  <2>1. 0 \in 0 .. 255 /\ 0 \in 0 .. ByteMod - 1 /\ 0 \in 0 .. TimerMod - 1
        /\ 0 \in 0 .. MaxSetups /\ 0 \in 0 .. TimerMod
    BY DHCPClientAssumption
  <2> QED BY <2>1 DEF Init, TypeOK
<1>2. TimersRun /\ LeaseCounted
  BY DEF Init, TimersRun, LeaseCounted
<1>3. RequestsOffered /\ OffersKept
  BY DEF Init, RequestsOffered, OffersKept
<1> QED BY <1>1, <1>2, <1>3 DEF Sound

(* An OFFER: the REQUEST names what was offered.                           *)
LEMMA OfferSound ==
    ASSUME Sound, NEW msg \in toClient, receiveOffer(msg), UNCHANGED <<setup, setups>>
    PROVE  Sound'
<1>1. msg \in Reply /\ msg.type = "OFFER" /\ <<msg.server, msg.ip>> \in offers
  BY DEF Sound, TypeOK, receiveOffer, OffersKept
<1> DEFINE req == Requested(msg)
<1>2. req \in Request /\ req.server = msg.server /\ req.ip = msg.ip
  BY <1>1 DEF Request, Reply, Requested
<1>3. toServers' \subseteq toServers \cup {req}
  BY CarriedBound DEF receiveOffer
<1>4. toServers' \subseteq Discover \cup Request
  BY <1>2, <1>3 DEF Sound, TypeOK
<1>5. RequestsOffered'
  BY <1>1, <1>2, <1>3 DEF Sound, RequestsOffered, receiveOffer
<1>6. state' = "REQUESTING" /\ stateTimer' \in 1 .. 255
  BY DHCPClientAssumption DEF receiveOffer, setState
<1>7. TypeOK'
  BY <1>4, <1>6 DEF Sound, TypeOK, receiveOffer, leaseVars
<1>8. OffersKept'
  BY DEF Sound, OffersKept, receiveOffer
<1> QED BY <1>5, <1>6, <1>7, <1>8 DEF Sound, TimersRun, LeaseCounted

(* An ACK: the timer holds what was stated, or the default.                *)
LEMMA AckSound ==
    ASSUME Sound, NEW msg \in toClient, receiveAck(msg), UNCHANGED <<setup, setups>>
    PROVE  Sound'
<1>1. msg \in Reply
  BY DEF Sound, TypeOK
<1>2. msg.renewal \in RenewalTimes \cup {0} /\ msg.ip \in Addresses
  BY <1>1 DEF Reply
<1>3. state' = "BOUND" /\ stateTimer' \in 1 .. 255
  BY DHCPClientAssumption DEF receiveAck, setState
<1>4. renewalTimer' \in 0 .. TimerMod - 1
  BY <1>2, FittedType, DefaultType DEF receiveAck
<1>5. stated' # 0 => renewalTimer' = Fitted(stated') /\ renewalTimer' > 0
  <2>1. stated' = msg.renewal
    BY DEF receiveAck
  <2>2. CASE msg.renewal = 0
    BY <2>1, <2>2
  <2>3. CASE msg.renewal # 0
    <3>1. msg.renewal \in RenewalTimes /\ renewalTimer' = Fitted(msg.renewal)
      BY <2>3, <1>2 DEF receiveAck
    <3>2. Fitted(msg.renewal) \in 1 .. TimerMod - 1
      BY <3>1, FittedType
    <3> QED BY <2>1, <3>1, <3>2, DHCPClientAssumption
  <2> QED BY <2>2, <2>3
<1>6. held' = 0
  BY DEF receiveAck
<1>7. TypeOK'
  BY <1>2, <1>3, <1>4, <1>6, DHCPClientAssumption DEF Sound, TypeOK, receiveAck, networkVars
<1>8. LeaseCounted'
  <2>1. Left' \in 1 .. TimerMod
    BY <1>4, DHCPClientAssumption DEF Left
  <2>2. held' + Left' <= TimerMod /\ held' + renewalTimer' = renewalTimer'
    <3>1. \A n \in 0 .. TimerMod : 0 + n <= TimerMod /\ 0 + n = n
      BY DHCPClientAssumption
    <3>2. Left' \in 0 .. TimerMod /\ renewalTimer' \in 0 .. TimerMod
      BY <1>4, <2>1, DHCPClientAssumption
    <3> QED BY <1>6, <3>1, <3>2, Zenon
  <2> QED BY <1>5, <2>2 DEF LeaseCounted, Fitted
<1>9. RequestsOffered' /\ OffersKept'
  BY DEF Sound, RequestsOffered, OffersKept, receiveAck, networkVars
<1> QED BY <1>3, <1>7, <1>8, <1>9 DEF Sound, TimersRun

(* A second of a lease.                                                    *)
LEMMA SecondSound ==
    ASSUME Sound, leaseSecond, UNCHANGED <<setup, setups>>
    PROVE  Sound'
<1>1. /\ state = "BOUND"
      /\ renewalTimer' = Left - 1
      /\ renewalTimer' \in 0 .. TimerMod - 1
      /\ held' = held + 1
      /\ held + Left <= TimerMod
      /\ held \in 0 .. TimerMod
      /\ Left \in 1 .. TimerMod
  <2>1. state = "BOUND" /\ held' = held + 1 /\ renewalTimer' = (renewalTimer - 1) % TimerMod
    BY DEF leaseSecond
  <2>2. renewalTimer \in 0 .. TimerMod - 1 /\ held \in 0 .. TimerMod /\ held + Left <= TimerMod
    BY <2>1 DEF Sound, TypeOK, LeaseCounted
  <2>3. Left \in 1 .. TimerMod
    BY <2>2, DHCPClientAssumption DEF Left
  <2>4. (renewalTimer - 1) % TimerMod = Left - 1
    <3>1. CASE renewalTimer = 0
      BY <3>1, DHCPClientAssumption, (0 - 1) % TimerMod = TimerMod - 1 DEF Left
    <3>2. CASE renewalTimer # 0
      <4>1. renewalTimer - 1 \in 0 .. TimerMod - 1
        BY <3>2, <2>2, DHCPClientAssumption
      <4> QED BY <3>2, <4>1, DHCPClientAssumption DEF Left
    <3> QED BY <3>1, <3>2
  <2> QED BY <2>1, <2>2, <2>3, <2>4, DHCPClientAssumption
<1>2. held' \in 0 .. TimerMod
  BY <1>1, DHCPClientAssumption
<1>3. localIP' = localIP /\ stated' = stated
  BY DEF leaseSecond
<1>4. CASE renewalTimer' > 0 /\ stateTimer' = BoundTimeout
           /\ UNCHANGED <<state, attempts, networkVars>>
  <2>1. TypeOK'
    BY <1>1, <1>2, <1>3, <1>4, DHCPClientAssumption DEF Sound, TypeOK, networkVars
  <2>2. LeaseCounted'
    <3>1. held' + Left' <= TimerMod
      BY <1>1, <1>4, DHCPClientAssumption DEF Left
    <3>2. ASSUME stated' # 0
          PROVE  held' + renewalTimer' = Fitted(stated') /\ renewalTimer' > 0
      BY <3>2, <1>1, <1>3, <1>4, DHCPClientAssumption DEF Sound, TypeOK, LeaseCounted, Left, Fitted
    <3> QED BY <3>1, <3>2 DEF LeaseCounted
  <2>3. RequestsOffered' /\ OffersKept' /\ TimersRun'
    BY <1>4, DHCPClientAssumption DEF Sound, RequestsOffered, OffersKept, TimersRun, networkVars
  <2> QED BY <2>1, <2>2, <2>3 DEF Sound
<1>5. CASE renewalTimer' = 0 /\ initDHCP(attempts)
  <2>1. Restarted'
    BY <1>5, InitDHCPSound DEF Sound, TypeOK
  <2> QED BY <2>1, <1>1, <1>2, <1>3, SoundFromParts DEF Sound, TypeOK
<1> QED BY <1>4, <1>5 DEF leaseSecond

(* The countdown of every other tick.                                      *)
LEMMA CountDownSound ==
    ASSUME Sound, countDown, UNCHANGED <<setup, setups>>
    PROVE  Sound'
<1>1. NetworkSound'
  <2>1. CASE state = "SELECTING"
    BY <2>1, DiscoverSound DEF countDown, Sound
  <2>2. CASE state # "SELECTING"
    BY <2>2 DEF countDown, Sound, TypeOK, networkVars, NetworkSound, RequestsOffered, OffersKept
  <2> QED BY <2>1, <2>2
<1>2. stateTimer' \in 0 .. 255
  BY DEF countDown, Sound, TypeOK
<1>3. TimersRun'
  <2>1. ASSUME state # "INIT"
        PROVE  state \in Expiring \cup {"BOUND"} /\ stateTimer # 1 /\ stateTimer > 0
    BY <2>1 DEF countDown, Sound, TypeOK, TimersRun, Expiring
  <2> QED BY <2>1 DEF countDown, Sound, TypeOK, TimersRun
<1>4. TypeOK'
  BY <1>1, <1>2 DEF NetworkSound, countDown, Sound, TypeOK, leaseVars
<1>5. LeaseCounted'
  BY DEF countDown, Sound, LeaseCounted, Left, Fitted, leaseVars
<1> QED BY <1>1, <1>3, <1>4, <1>5 DEF Sound, NetworkSound

(* A server's answer: an OFFER is recorded when it is made.                *)
LEMMA ServeSound ==
    ASSUME Sound, NEW msg \in toServers, serve(msg)
    PROVE  Sound'
<1>1. PICK answer \in Answers(msg) :
        /\ toClient' = Carried(toClient, answer)
        /\ offers' = offers \cup (IF answer.type = "OFFER" THEN {<<answer.server, answer.ip>>} ELSE {})
  BY DEF serve
<1>2. answer \in Reply
  BY DEF Answers, Reply
<1>3. toClient' \subseteq toClient \cup {answer}
  BY <1>1, CarriedBound
<1>4. offers \subseteq offers' /\ offers' \subseteq Servers \X Addresses
  BY <1>1, <1>2 DEF Sound, TypeOK, Reply
<1>5. toClient' \subseteq Reply
  BY <1>2, <1>3 DEF Sound, TypeOK
<1>6. OffersKept'
  BY <1>1, <1>3, <1>4 DEF Sound, OffersKept
<1>7. RequestsOffered'
  BY <1>4 DEF Sound, RequestsOffered, serve
<1>8. TypeOK'
  BY <1>4, <1>5 DEF Sound, TypeOK, serve, clientVars, leaseVars
<1>9. TimersRun' /\ LeaseCounted'
  BY DEF Sound, TimersRun, LeaseCounted, Left, Fitted, serve, clientVars, leaseVars
<1> QED BY <1>6, <1>7, <1>8, <1>9 DEF Sound

LEMMA LoseSound ==
    ASSUME Sound, lose
    PROVE  Sound'
<1>1. toServers' \subseteq toServers /\ toClient' \subseteq toClient /\ offers' = offers
  BY DEF lose
<1>2. TypeOK'
  BY <1>1 DEF Sound, TypeOK, lose, clientVars, leaseVars
<1>3. RequestsOffered' /\ OffersKept'
  BY <1>1 DEF Sound, RequestsOffered, OffersKept
<1>4. TimersRun' /\ LeaseCounted'
  BY DEF Sound, TimersRun, LeaseCounted, Left, Fitted, lose, clientVars, leaseVars
<1> QED BY <1>2, <1>3, <1>4 DEF Sound

-----------------------------------------------------------------------------

LEMMA SoundStep == Sound /\ [Next]_vars => Sound'
<1> SUFFICES ASSUME Sound, [Next]_vars PROVE Sound'
  OBVIOUS
<1>1. CASE dhcpSetup
  <2>1. Restarted'
    BY <1>1, InitDHCPSound, DHCPClientAssumption DEF dhcpSetup, Sound
  <2>2. setups' \in 0 .. MaxSetups /\ setup' = "running"
    BY <1>1, DHCPClientAssumption DEF dhcpSetup, Sound, TypeOK
  <2> QED BY <1>1, <2>1, <2>2, SoundFromParts DEF dhcpSetup, Sound, TypeOK, leaseVars
<1>2. CASE dhcpSetupReturns
  <2>1. setup' \in {"succeeded", "failed"}
    BY <1>2 DEF dhcpSetupReturns
  <2>2. UNCHANGED <<clientVars, networkVars, setups, leaseVars>>
    BY <1>2 DEF dhcpSetupReturns
  <2>3. TypeOK'
    BY <2>1, <2>2 DEF Sound, TypeOK, clientVars, networkVars, leaseVars
  <2> QED BY <2>2, <2>3 DEF Sound, TimersRun, RequestsOffered, OffersKept, LeaseCounted, Left, Fitted,
                            clientVars, networkVars, leaseVars
<1>3. ASSUME NEW msg \in toClient, onReceive(msg)
      PROVE  Sound'
  <2>1. UNCHANGED <<setup, setups>>
    BY <1>3 DEF onReceive
  <2>2. CASE receiveNack(msg)
    <3>1. Restarted'
      BY <2>2, InitDHCPSound DEF receiveNack, Sound, TypeOK
    <3> QED BY <2>1, <2>2, <3>1, SoundFromParts DEF receiveNack, Sound, TypeOK, leaseVars
  <2> QED BY <1>3, <2>1, <2>2, OfferSound, AckSound DEF onReceive
<1>4. CASE tick
  <2>1. UNCHANGED <<setup, setups>>
    BY <1>4 DEF tick
  <2>2. CASE expired
    <3>1. Restarted'
      BY <2>2, InitDHCPSound DEF expired, Sound, TypeOK
    <3> QED BY <2>1, <2>2, <3>1, SoundFromParts DEF expired, Sound, TypeOK, leaseVars
  <2> QED BY <1>4, <2>1, <2>2, SecondSound, CountDownSound DEF tick
<1>5. CASE UNCHANGED vars
  BY <1>5 DEF Sound, TypeOK, TimersRun, RequestsOffered, OffersKept, LeaseCounted, Left, Fitted,
              vars, clientVars, networkVars, leaseVars
<1> QED BY <1>1, <1>2, <1>3, <1>4, <1>5, ServeSound, LoseSound DEF Next

LEMMA SoundAlways == Spec => []Sound
BY SoundInit, SoundStep, PTL DEF Spec

(* Whatever the servers and the network do, the variables of the client    *)
(* keep to the ranges of their declarations in DHCP.h.                     *)
THEOREM TypeCorrect == Spec => []TypeOK
BY SoundAlways, PTL DEF Sound

(* From the first dhcpSetup on there is a timer that will move the client  *)
(* on, through every way into a state and all that happens in it.          *)
THEOREM TimersAlwaysRun == Spec => []TimersRun
BY SoundAlways, PTL DEF Sound

(* Every REQUEST on its way names an address that its server did offer.    *)
THEOREM RequestsAreOffered == Spec => []RequestsOffered
BY SoundAlways, PTL DEF Sound

(* A lease whose renewal time was stated is renewed after exactly as many  *)
(* seconds, or as many as the timer can count when that is less.           *)
THEOREM RenewedOnTime == Spec => RenewsOnTime
<1>1. Sound /\ [Next]_vars
        => [state = "BOUND" /\ leaseSecond /\ state' # "BOUND" /\ stated # 0
                => held' = IF stated < TimerMod THEN stated ELSE TimerMod - 1]_vars
  <2> SUFFICES ASSUME Sound, state = "BOUND", leaseSecond, state' # "BOUND", stated # 0
               PROVE  held' = IF stated < TimerMod THEN stated ELSE TimerMod - 1
    OBVIOUS
  <2>1. held + renewalTimer = Fitted(stated) /\ renewalTimer > 0
    BY DEF Sound, LeaseCounted
  <2>2. renewalTimer' = 0 /\ held' = held + 1 /\ renewalTimer' = (renewalTimer - 1) % TimerMod
    BY DEF leaseSecond
  <2>3. renewalTimer \in 1 .. TimerMod - 1 /\ held \in 0 .. TimerMod
    BY <2>1 DEF Sound, TypeOK
  <2>4. renewalTimer - 1 \in 0 .. TimerMod - 1
    BY <2>3, DHCPClientAssumption
  <2>5. renewalTimer - 1 = 0
    <3>1. (renewalTimer - 1) % TimerMod = renewalTimer - 1
      BY <2>4, DHCPClientAssumption
    <3> QED BY <2>2, <3>1
  <2> QED BY <2>1, <2>2, <2>3, <2>5 DEF Fitted
<1> QED BY <1>1, SoundAlways, PTL DEF Spec, RenewsOnTime
=============================================================================
