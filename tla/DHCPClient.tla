----------------------------- MODULE DHCPClient -----------------------------
(***************************************************************************)
(* The DHCP client (DHCP.h, DHCP.cpp) and the servers on its LAN.          *)
(*                                                                         *)
(* Its datagrams are broadcast, so sendIPPacket never waits for ARP and    *)
(* what is written is on its way when the handler returns.  The DISCOVER   *)
(* and the REQUEST are built in the one global packet buffer, over the     *)
(* OFFER that is being answered: the handler copies what it needs first.   *)
(***************************************************************************)
EXTENDS Integers, FiniteSets

CONSTANTS
    Servers,
    Addresses,          \* addresses the servers hand out
    None,               \* 0.0.0.0, and what a zeroed packet holds
    SelectingTimeout,   \* DHCP_TIMEOUT_SELECTING, in ticks
    RequestingTimeout,  \* DHCP_TIMEOUT_REQUESTING, in ticks
    BoundTimeout,       \* DHCP_TIMEOUT_BOUND, in ticks: one second
    MaxAttempts,        \* DHCP_MAX_ATTEMPTS
    DefaultRenewalS,    \* DHCP_DEFAULT_RENEWAL_TIMER_S
    BoundTimeoutMs,     \* DHCP_TIMEOUT_BOUND_MS
    ByteMod,            \* values of attempts, a uint8_t
    IntMod,             \* values of an unsigned int: 2^16 on the AVR
    TimerMod,           \* values of renewalTimer, a uint16_t
    RenewalTimes,       \* bound: renewal times the servers state, in seconds
    MaxInFlight,        \* bound: messages on their way in each direction
    MaxSetups           \* bound: calls of dhcpSetup

ASSUME DHCPClientAssumption ==
    /\ None \notin Addresses
    /\ SelectingTimeout \in 1 .. 255
    /\ RequestingTimeout \in 1 .. 255
    /\ BoundTimeout \in 1 .. 255
    /\ ByteMod \in Nat \ {0, 1}
    /\ MaxAttempts \in 1 .. ByteMod - 1
    /\ DefaultRenewalS \in Nat \ {0}
    /\ BoundTimeoutMs \in Nat \ {0}
    /\ IntMod \in Nat \ {0}
    /\ TimerMod \in Nat \ {0, 1}
    /\ RenewalTimes \subseteq Nat \ {0}
    /\ MaxInFlight \in Nat
    /\ MaxSetups \in Nat

VARIABLES
    state,
    stateTimer,
    attempts,
    renewalTimer,
    localIP,
    setup,          \* whether dhcpSetup() is running, or what it returned
    toServers,      \* DISCOVERs and REQUESTs on their way
    toClient,       \* OFFERs, ACKs and NACKs on their way
    offers,         \* history: <<server, address>> ever offered
    setups,         \* history: calls of dhcpSetup
    stated,         \* history: the renewal time in the ACK that was taken, 0 for none
    held            \* history: seconds since that ACK

clientVars == <<state, stateTimer, attempts, renewalTimer, localIP>>
networkVars == <<toServers, toClient, offers>>
leaseVars == <<stated, held>>
vars == <<clientVars, setup, networkVars, setups, leaseVars>>

Discover == [type : {"DISCOVER"}, server : {None}, ip : Addresses \cup {None}]
Request == [type : {"REQUEST"}, server : Servers \cup {None}, ip : Addresses \cup {None}]
Reply == [type : {"OFFER", "ACK", "NACK"}, server : Servers, ip : Addresses,
          renewal : RenewalTimes \cup {0}]

Carried(network, msg) ==
    IF Cardinality(network \cup {msg}) <= MaxInFlight THEN network \cup {msg} ELSE network

setState(st, timeout) ==
    /\ state' = st
    /\ stateTimer' = timeout

\* DHCP_DEFAULT_RENEWAL_TIMER, a uint16_t computed in an unsigned int
\* (config.h:292).
DefaultRenewal == (((DefaultRenewalS * 1000) % IntMod) \div BoundTimeoutMs) % TimerMod

sendDHCPDiscover ==
    /\ toServers' = Carried(toServers, [type |-> "DISCOVER", server |-> None, ip |-> localIP])
    /\ UNCHANGED <<toClient, offers>>

\* Mutant: starting over is not counted as an attempt.
Attempted_Free(n) == n

\* Mutant: the counter has no width.
Attempted_NoWrap(n) == n - 1

\* One attempt less, as uint8_t.
Attempted(n) == (n - 1) % ByteMod

\* initDHCP() with n attempts left.
initDHCP(n) ==
    /\ attempts' = Attempted(n)
    /\ sendDHCPDiscover
    /\ setState("SELECTING", SelectingTimeout)

-----------------------------------------------------------------------------
(* dhcpSetup *)

dhcpSetup ==
    /\ setup # "running"
    /\ setups < MaxSetups
    /\ setups' = setups + 1
    /\ setup' = "running"
    /\ initDHCP(MaxAttempts)
    /\ UNCHANGED <<renewalTimer, localIP, leaseVars>>

\* The condition of its loop, looked at before every round of net::loop().
Ended == attempts = 0 \/ state = "BOUND"

dhcpSetupReturns ==
    /\ setup = "running"
    /\ Ended
    /\ setup' = IF state = "BOUND" THEN "succeeded" ELSE "failed"
    /\ UNCHANGED <<clientVars, networkVars, setups, leaseVars>>

\* A round of net::loop(), which dhcpSetup turns while it runs and the program
\* at any other time.
InLoop == setup = "running" => ~Ended

-----------------------------------------------------------------------------
(* onReceive *)

\* Mutant: the OFFER is read after the REQUEST was prepared over it.
Requested_Late(msg) == [type |-> "REQUEST", server |-> msg.server, ip |-> None]

\* The REQUEST for what was offered.
Requested(msg) == [type |-> "REQUEST", server |-> msg.server, ip |-> msg.ip]

receiveOffer(msg) ==
    /\ state = "SELECTING"
    /\ msg.type = "OFFER"
    /\ toServers' = Carried(toServers, Requested(msg))
    /\ setState("REQUESTING", RequestingTimeout)
    /\ UNCHANGED <<attempts, renewalTimer, localIP, toClient, offers, leaseVars>>

\* Mutant: a renewal time that does not fit is truncated.
Fitted_Truncated(seconds) == seconds % TimerMod
Fitted(seconds) == IF seconds < TimerMod THEN seconds ELSE TimerMod - 1

\* An ACK from whichever server, that has the options the client needs (one
\* that has not is not looked at).
receiveAck(msg) ==
    /\ state = "REQUESTING"
    /\ msg.type = "ACK"
    /\ renewalTimer' = IF msg.renewal = 0 THEN DefaultRenewal ELSE Fitted(msg.renewal)
    /\ localIP' = msg.ip
    /\ setState("BOUND", BoundTimeout)
    /\ stated' = msg.renewal
    /\ held' = 0
    /\ UNCHANGED <<attempts, networkVars>>

receiveNack(msg) ==
    /\ state = "REQUESTING"
    /\ msg.type = "NACK"
    /\ initDHCP(attempts)
    /\ UNCHANGED <<renewalTimer, localIP, leaseVars>>

onReceive(msg) ==
    /\ InLoop
    /\ receiveOffer(msg) \/ receiveAck(msg) \/ receiveNack(msg)
    /\ UNCHANGED <<setup, setups>>

-----------------------------------------------------------------------------
(* tick *)

\* Mutant: a REQUEST without an answer is not given up.
Expiring_NotRequest == {"SELECTING"}

\* The states that start over when their timer runs out.
Expiring == {"SELECTING", "REQUESTING"}

expired ==
    /\ stateTimer = 1
    /\ state \in Expiring
    /\ initDHCP(attempts)
    /\ UNCHANGED <<renewalTimer, localIP, leaseVars>>

\* One second of a lease less; the last one starts over.
leaseSecond ==
    /\ stateTimer = 1
    /\ state = "BOUND"
    /\ renewalTimer' = (renewalTimer - 1) % TimerMod
    /\ held' = held + 1
    /\ \/ /\ renewalTimer' > 0
          /\ stateTimer' = BoundTimeout
          /\ UNCHANGED <<state, attempts, networkVars>>
       \/ /\ renewalTimer' = 0
          /\ initDHCP(attempts)
    /\ UNCHANGED <<localIP, stated>>

\* Every tick in SELECTING sends the DISCOVER again.
countDown ==
    /\ ~(stateTimer = 1 /\ state \in Expiring \cup {"BOUND"})
    /\ stateTimer' = IF stateTimer > 0 THEN stateTimer - 1 ELSE 0
    /\ IF state = "SELECTING" THEN sendDHCPDiscover ELSE UNCHANGED networkVars
    /\ UNCHANGED <<state, attempts, renewalTimer, localIP, leaseVars>>

tick ==
    /\ InLoop
    /\ expired \/ leaseSecond \/ countDown
    /\ UNCHANGED <<setup, setups>>

-----------------------------------------------------------------------------
(* The servers and the network, which may lose, delay and duplicate *)

Answers(msg) ==
    IF msg.type = "DISCOVER"
    THEN [type : {"OFFER"}, server : Servers, ip : Addresses, renewal : {0}]
    ELSE [type : {"ACK"}, server : {msg.server} \cap Servers, ip : {msg.ip} \cap Addresses,
          renewal : RenewalTimes \cup {0}]
         \cup [type : {"NACK"}, server : {msg.server} \cap Servers, ip : {msg.ip} \cap Addresses,
               renewal : {0}]

serve(msg) ==
    /\ \E answer \in Answers(msg) :
        /\ toClient' = Carried(toClient, answer)
        /\ offers' = offers \cup (IF answer.type = "OFFER" THEN {<<answer.server, answer.ip>>} ELSE {})
    /\ UNCHANGED <<clientVars, setup, setups, leaseVars, toServers>>

lose ==
    /\ \/ \E msg \in toServers : toServers' = toServers \ {msg} /\ UNCHANGED toClient
       \/ \E msg \in toClient : toClient' = toClient \ {msg} /\ UNCHANGED toServers
    /\ UNCHANGED <<clientVars, setup, setups, leaseVars, offers>>

Init ==
    /\ state = "INIT"
    /\ stateTimer = 0
    /\ attempts = 0
    /\ renewalTimer = 0
    /\ localIP = None
    /\ setup = "none"
    /\ toServers = {}
    /\ toClient = {}
    /\ offers = {}
    /\ setups = 0
    /\ stated = 0
    /\ held = 0

Next ==
    \/ dhcpSetup
    \/ dhcpSetupReturns
    \/ \E msg \in toClient : onReceive(msg)
    \/ tick
    \/ \E msg \in toServers : serve(msg)
    \/ lose

Spec == Init /\ [][Next]_vars

\* The program turns its loop, or dhcpSetup does, for ever.
FairSpec == Spec /\ WF_vars(tick) /\ WF_vars(dhcpSetupReturns)

-----------------------------------------------------------------------------

(* The variables keep to their ranges.                                     *)
TypeOK ==
    /\ state \in {"INIT", "SELECTING", "REQUESTING", "BOUND"}
    /\ stateTimer \in 0 .. 255
    /\ attempts \in 0 .. ByteMod - 1
    /\ renewalTimer \in 0 .. TimerMod - 1
    /\ localIP \in Addresses \cup {None}
    /\ setup \in {"none", "running", "succeeded", "failed"}
    /\ toServers \subseteq Discover \cup Request
    /\ toClient \subseteq Reply
    /\ offers \subseteq Servers \X Addresses
    /\ setups \in 0 .. MaxSetups
    /\ stated \in RenewalTimes \cup {0}
    /\ held \in 0 .. TimerMod

(* From the first dhcpSetup on there is always a timer that will move the  *)
(* client on: no lost datagram leaves it waiting for ever.                 *)
TimersRun == state # "INIT" => stateTimer > 0

(* A REQUEST names a server and the address that this server did offer,    *)
(* although it is built in the packet buffer over the OFFER                *)
(* (DHCP.cpp:127-143).                                                     *)
RequestsOffered == \A msg \in toServers : msg.type = "REQUEST" => <<msg.server, msg.ip>> \in offers

(* A lease is renewed exactly when the server said, or as late as the      *)
(* 16-bit timer can count when that is sooner.                             *)
RenewsOnTime ==
    [][state = "BOUND" /\ leaseSecond /\ state' # "BOUND" /\ stated # 0
        => held' = IF stated < TimerMod THEN stated ELSE TimerMod - 1]_vars

(* dhcpSetup() returns, whatever the servers and the network do.           *)
SetupEnds == setup = "running" ~> setup # "running"

(* Each REQUEST is answered or given up.                                   *)
RequestEnds == state = "REQUESTING" ~> state # "REQUESTING"
=============================================================================
