--------------------------- MODULE NetworkService ---------------------------
(***************************************************************************)
(* NetworkService::loop (NetworkService.cpp), over the queue of frames     *)
(* that ENC28J60 implements: the list of services (List.cpp), which is     *)
(* walked to find the owner of a packet, to tick every service and to tell *)
(* every service of a DNS answer, while the service that is called may     *)
(* construct or destroy others. Every call is a step, and frames arrive    *)
(* between any two.                                                        *)
(*                                                                         *)
(* A service is destroyed by others only: one that destroys itself in a    *)
(* call leaves the walk to read its freed nextItem.                        *)
(***************************************************************************)
EXTENDS Integers, SequencesExt

CONSTANTS
    Service,        \* services, constructed or not
    Fixed,          \* those that are there from the first, in the list's order
    Resolver,       \* the service that tells the others of DNS answers
    Null,           \* no service
    SampleSize,     \* EtherDune_SAMPLE_SIZE: here, the headers
    BufferSize,     \* EtherDune_BUFFER_SIZE
    Frame,          \* frames on the network
    MaxQueue        \* bound: frames that wait

ASSUME NetworkServiceAssumption ==
    /\ Fixed \in Seq(Service) /\ IsInjective(Fixed)
    /\ Resolver \in Service
    /\ Null \notin Service
    /\ {SampleSize, BufferSize} \subseteq Nat \ {0}

VARIABLES
    queue,          \* frames received and not yet looked at
    packet,         \* what is loaded of the frame in hand
    rest,           \* what may yet be loaded of it
    turn,           \* where loop is: to look for a frame, at one, or at the ticks
    activeServices, \* the list of services, from the first on
    service,        \* the service the walk is at
    walk,           \* what the list is walked for
    called,         \* history: the services this walk has called
    awake           \* history: the services alive since this walk began

queueVars == <<queue, packet, rest>>
walkVars == <<service, walk, called, awake>>
loopVars == <<queueVars, turn, activeServices, walkVars>>

Queue == INSTANCE PacketQueue

Alive == ToSet(activeServices)

\* The services behind s in the list, and s.
FromOn(s) ==
    LET i == SelectInSeq(activeServices, LAMBDA t : t = s)
    IN  IF i = 0 THEN {} ELSE ToSet(SubSeq(activeServices, i, Len(activeServices)))

First(list) == IF list = <<>> THEN Null ELSE Head(list)

\* nextItem of s.
NextItem(list, s) ==
    LET i == SelectInSeq(list, LAMBDA t : t = s)
    IN  IF i \in 1 .. Len(list) - 1 THEN list[i + 1] ELSE Null

\* Mutant: a service is added behind the others.
add_Last(list, s) == Append(list, s)

add(list, s) == <<s>> \o list

remove(list, s) == RemoveFirst(list, s)

\* What a call of s leaves of the list: another service is destroyed, one is
\* constructed, both or nothing.
ListsAfter(s) ==
    LET destroyed == {activeServices}
            \union {remove(activeServices, t) : t \in Alive \ ({s} \union ToSet(Fixed))}
    IN  destroyed \union UNION {{add(list, t) : t \in Service \ Alive} : list \in destroyed}

-----------------------------------------------------------------------------
\* Walks

walkBegins(purpose) ==
    /\ walk' = purpose
    /\ service' = First(activeServices)
    /\ called' = {}
    /\ awake' = Alive

walkEnds ==
    /\ walk' = "none"
    /\ service' = Null
    /\ called' = {}
    /\ awake' = {}

\* Mutant: the next service is looked up before this one is called.
walkOn_Early(list) ==
    /\ activeServices' = list
    /\ service' = NextItem(activeServices, service)
    /\ called' = called \union {service}
    /\ awake' = awake \intersect ToSet(list)
    /\ UNCHANGED walk

\* The service is called, leaves the list like this, and the walk goes on.
walkOn(list) ==
    /\ activeServices' = list
    /\ service' = NextItem(list, service)
    /\ called' = called \union {service}
    /\ awake' = awake \intersect ToSet(list)
    /\ UNCHANGED walk

-----------------------------------------------------------------------------
\* loop

arrive(f) ==
    /\ Len(queue) < MaxQueue
    /\ Queue!Arrive(f)
    /\ UNCHANGED <<turn, activeServices, walkVars>>

\* loadSample: nothing has come, or a frame that is to be skipped.
nothingToHandle ==
    /\ turn = "look"
    /\ \/ queue = <<>> /\ UNCHANGED queueVars
       \/ Queue!Take /\ ~Head(queue).ok
    /\ turn' = "timer"
    /\ UNCHANGED <<activeServices, walkVars>>

loadSample ==
    /\ turn = "look"
    /\ Queue!Take
    /\ Head(queue).ok
    /\ turn' = "packet"
    /\ UNCHANGED <<activeServices, walkVars>>

\* The packet is handled, and its space released.
handled == Queue!Done /\ turn' = "timer"

\* processIncomingPacket: a packet with a wrong IP checksum is dropped.
dropPacket ==
    /\ turn = "packet" /\ walk = "none"
    /\ handled
    /\ UNCHANGED <<activeServices, walkVars>>

processIncomingPacket ==
    /\ turn = "packet" /\ walk = "none"
    /\ walkBegins("packet")
    /\ UNCHANGED <<queueVars, turn, activeServices>>

\* onPacketReceived of a service that has no use for the packet.
declinePacket ==
    /\ walk = "packet" /\ service # Null
    /\ packet[1].owner # service
    /\ walkOn(activeServices)
    /\ UNCHANGED <<queueVars, turn>>

\* onPacketReceived of the owner, who may load the rest and call back.
takePacket ==
    /\ walk = "packet" /\ service # Null
    /\ packet[1].owner = service
    /\ service # Resolver
    /\ handled
    /\ activeServices' \in ListsAfter(service)
    /\ walkEnds

\* The resolver tells every service of an answer.
notifyOnDNSResolve ==
    /\ walk = "packet" /\ service = Resolver
    /\ packet[1].owner = service
    /\ Queue!LoadAll
    /\ walkBegins("resolve")
    /\ UNCHANGED <<turn, activeServices>>

nobodysPacket ==
    /\ walk = "packet" /\ service = Null
    /\ handled
    /\ walkEnds
    /\ UNCHANGED activeServices

\* The ticks are due, or not yet.
ticksDue ==
    /\ turn = "timer"
    /\ turn' = "ticks"
    /\ walkBegins("tick")
    /\ UNCHANGED <<queueVars, activeServices>>

loopReturns ==
    /\ turn = "timer"
    /\ turn' = "look"
    /\ UNCHANGED <<queueVars, activeServices, walkVars>>

\* tick or onDNSResolve of a service.
call ==
    /\ walk \in {"tick", "resolve"} /\ service # Null
    /\ \E list \in ListsAfter(service) : walkOn(list)
    /\ UNCHANGED <<queueVars, turn>>

allTicked ==
    /\ walk = "tick" /\ service = Null
    /\ turn' = "look"
    /\ walkEnds
    /\ UNCHANGED <<queueVars, activeServices>>

allNotified ==
    /\ walk = "resolve" /\ service = Null
    /\ handled
    /\ walkEnds
    /\ UNCHANGED activeServices

\* The microcontroller restarts.
restart ==
    /\ Queue!Restart
    /\ turn' = "look"
    /\ activeServices' = Fixed
    /\ walkEnds

LoopInit ==
    /\ Queue!Init
    /\ turn = "look"
    /\ activeServices = Fixed
    /\ service = Null
    /\ walk = "none"
    /\ called = {}
    /\ awake = {}

-----------------------------------------------------------------------------

(* A walk calls every service once: those it has not called yet and that    *)
(* still live are exactly those from the one it is at on. A service that a  *)
(* call constructs waits for the next walk, one that a call destroys is     *)
(* never called again.                                                      *)
CalledOnce ==
    /\ service # Null => service \in Alive
    /\ walk # "none" => FromOn(service) = awake \ called

(* A walk comes to its end, whatever the calls construct and destroy: loop  *)
(* comes back to look for a frame.                                          *)
LoopReturns == (turn # "look") ~> (turn = "look")
=============================================================================
