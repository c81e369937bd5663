-------------------------------- MODULE ARP --------------------------------
(***************************************************************************)
(* The ARP table (ARP.h, ARP.cpp): a handful of entries that map hosts to  *)
(* MAC addresses, refreshed by use, aged once a minute, and overwritten    *)
(* from the one closest to expiry when there are more hosts than entries.  *)
(*                                                                         *)
(* `learned' and `idle' are history: what the last reply of a host said,   *)
(* and the minutes since then or since its last use.                       *)
(***************************************************************************)
EXTENDS Integers

CONSTANTS
    Hosts,          \* IP addresses on the LAN
    Nobody,         \* 254.254.254.254, which memset leaves in an unused entry
    MACs,           \* MAC addresses
    TableLength,    \* ARP_TABLE_LENGTH
    MaxTTL,         \* MAX_ARP_TTL, in minutes
    MinuteTicks     \* ticks to the minute

\* status_TTL of an unused entry: one byte 0xFE, as int8_t.
UnusedTTL == -2

ASSUME ARPAssumption ==
    /\ Nobody \notin Hosts
    /\ MACs # {}
    /\ TableLength \in Nat \ {0}
    /\ MaxTTL \in Nat \ {0}
    /\ MinuteTicks \in Nat \ {0}

VARIABLES
    arpTable,       \* the entries, in the order of their addresses
    minuteTimer,    \* ticks to the next minute
    learned,        \* history: per host, the MAC address in its last reply
    idle            \* history: per host, minutes since its last reply or use

arpVars == <<arpTable, minuteTimer, learned, idle>>

Slots == 1 .. TableLength

Live(i) == arpTable[i].ttl > 0

\* The entries whoHas(h) may answer from; it takes the last.
Answers(h) == {i \in Slots : arpTable[i].ip = h /\ Live(i)}
Resolved(h) == Answers(h) # {}
Answer(h) == CHOOSE i \in Answers(h) : \A j \in Answers(h) : j <= i

\* Mutant: an entry that is used does not become younger.
Refreshed_Not(table, used) == table

\* The table after whoHas has found every slot in used.
Refreshed(table, used) ==
    [i \in Slots |-> IF i \in used THEN [table[i] EXCEPT !.ttl = MaxTTL] ELSE table[i]]

\* The table a minute later.
Aged(table) ==
    [i \in Slots |-> IF table[i].ttl > 0 THEN [table[i] EXCEPT !.ttl = @ - 1] ELSE table[i]]

\* Bound: the history does not count beyond the life of an entry.
Older(n) == IF n <= MaxTTL THEN n + 1 ELSE n

\* ARPService::tick(), on the table that the services before it left behind.
arpTick(table, idled) ==
    IF minuteTimer = 1
    THEN /\ minuteTimer' = MinuteTicks
         /\ arpTable' = Aged(table)
         /\ idle' = [h \in Hosts |-> Older(idled[h])]
    ELSE /\ minuteTimer' = minuteTimer - 1
         /\ arpTable' = table
         /\ idle' = idled

-----------------------------------------------------------------------------
(* processARPReply *)

\* Entries with the lowest TTL among those from slot i on, if it does not
\* exceed that of a fresh entry.
Oldest(from) ==
    {i \in from : arpTable[i].ttl <= MaxTTL /\ \A j \in from : arpTable[i].ttl <= arpTable[j].ttl}

\* Mutant: the scan goes on behind the entry of the sender.
Selected_NoBreak(h) == {i \in Oldest(Slots) : \A j \in Oldest(Slots) : i <= j}

\* Mutant: the first entry that is not fresher than a new one is taken.
Selected_First(h) ==
    IF \E i \in Slots : arpTable[i].ip = h
    THEN {i \in Slots : arpTable[i].ip = h}
    ELSE {i \in Slots : \A j \in Slots : j <= i}

\* The entry the reply of h goes to: the scan runs down from the last entry,
\* stops at the one of h, and keeps the last it saw of the lowest ones.
Selected(h) ==
    LET own == {i \in Slots : arpTable[i].ip = h}
    IN  IF own # {}
        THEN {i \in own : \A j \in own : j <= i}
        ELSE {i \in Oldest(Slots) : \A j \in Oldest(Slots) : i <= j}

processARPReply(h, m) ==
    /\ \E i \in Selected(h) :
        arpTable' = [arpTable EXCEPT ![i] = [ip |-> h, mac |-> m, ttl |-> MaxTTL]]
    /\ learned' = [learned EXCEPT ![h] = m]
    /\ idle' = [idle EXCEPT ![h] = 0]
    /\ UNCHANGED minuteTimer

-----------------------------------------------------------------------------

ARPInit ==
    \E m \in MACs :
        /\ arpTable = [i \in Slots |-> [ip |-> Nobody, mac |-> m, ttl |-> UnusedTTL]]
        /\ minuteTimer = MinuteTicks
        /\ learned = [h \in Hosts |-> m]
        /\ idle = [h \in Hosts |-> 0]

-----------------------------------------------------------------------------

Entries == [ip : Hosts \cup {Nobody}, mac : MACs, ttl : (0 .. MaxTTL) \cup {UnusedTTL}]

(* No host has two entries, live or expired: a reply always finds the one  *)
(* it has to replace (ARP.cpp:152-156).                                    *)
OneEntryPerHost ==
    \A i, j \in Slots : arpTable[i].ip = arpTable[j].ip /\ arpTable[i].ip \in Hosts => i = j

(* whoHas never answers with a MAC address that a later reply of the host  *)
(* has superseded.                                                         *)
LatestAnswered == \A i \in Slots : Live(i) => arpTable[i].mac = learned[arpTable[i].ip]

(* An entry lives MaxTTL minutes from its last reply or use, no more and   *)
(* no less.                                                                *)
IdleExpires == \A i \in Slots : Live(i) => arpTable[i].ttl + idle[arpTable[i].ip] = MaxTTL
=============================================================================
