-------------------------- MODULE UDPSocketProofs --------------------------
(***************************************************************************)
(* Proofs about the ARP table as UDPSockets use it, and about what the     *)
(* sockets send, for any number of hosts, entries and sockets, and any     *)
(* time to live; and about the Socket they are made from: what its calls   *)
(* store, and the checksums of what it sends, for bytes of any base,       *)
(* buffers of any size and calls of any length.                            *)
(***************************************************************************)
EXTENDS UDPSocket, Socket, WellFoundedInduction, TLAPS

-----------------------------------------------------------------------------
(* The invariant, of any table and history *)

EntriesOK(table) ==
    /\ table \in [Slots -> Entries]
    /\ \A i \in Slots : table[i].ip = Nobody <=> table[i].ttl = UnusedTTL

OneEach(table) ==
    \A i, j \in Slots : table[i].ip = table[j].ip /\ table[i].ip \in Hosts => i = j

Latest(table, macs) == \A i \in Slots : table[i].ttl > 0 => table[i].mac = macs[table[i].ip]

Expiring(table, idled) ==
    \A i \in Slots : table[i].ttl > 0 => table[i].ttl + idled[table[i].ip] = MaxTTL

TableSound(table, idled, macs) ==
    /\ EntriesOK(table)
    /\ idled \in [Hosts -> 0 .. MaxTTL + 1]
    /\ macs \in [Hosts -> MACs]
    /\ OneEach(table)
    /\ Latest(table, macs)
    /\ Expiring(table, idled)

Sound == TableSound(arpTable, idle, learned) /\ minuteTimer \in 1 .. MinuteTicks

(* A live entry belongs to a host.                                         *)
LEMMA LiveHost ==
    ASSUME NEW table, EntriesOK(table), NEW i \in Slots, table[i].ttl > 0
    PROVE  table[i].ip \in Hosts
<1>1. table[i] \in Entries
  BY DEF EntriesOK
<1>2. table[i].ip \in Hosts \cup {Nobody} /\ table[i].ttl # UnusedTTL
  BY <1>1 DEF Entries, UnusedTTL
<1> QED BY <1>2 DEF EntriesOK

-----------------------------------------------------------------------------
(* What the services do to the table *)

(* The one entry of a host that is asked for is refreshed, and so is what  *)
(* is known of its age; no other is touched.                               *)
LEMMA UsedSound ==
    ASSUME Sound, NEW S \in SUBSET Sockets
    PROVE  TableSound(TableUsed(S), IdleUsed(S), learned)
<1> DEFINE asks == {remoteHost[s] : s \in S}
           used == {Answer(h) : h \in {g \in asks : Resolved(g)}}
<1>1. EntriesOK(arpTable) /\ OneEach(arpTable)
  BY DEF Sound, TableSound
<1>2. \A i \in Slots : Live(i) => arpTable[i].ip \in Hosts
  BY <1>1, LiveHost DEF Live
<1>3. asks \subseteq Hosts
  BY UDPSocketAssumption
<1>4. \A i \in Slots : Live(i) => Answers(arpTable[i].ip) = {i}
  BY <1>1, <1>2 DEF Answers, OneEach
<1>5. \A i \in Slots : Live(i) => Answer(arpTable[i].ip) = i
  BY <1>4, ARPAssumption DEF Answer, Slots
<1>6. \A h \in Hosts : Resolved(h) => \E i \in Slots : Live(i) /\ arpTable[i].ip = h
  BY DEF Resolved, Answers
<1>7. \A i \in Slots : i \in used <=> Live(i) /\ arpTable[i].ip \in asks
  <2>1. ASSUME NEW i \in Slots, i \in used
        PROVE  Live(i) /\ arpTable[i].ip \in asks
    <3>1. PICK h \in asks : Resolved(h) /\ i = Answer(h)
      BY <2>1
    <3>2. PICK j \in Slots : Live(j) /\ arpTable[j].ip = h
      BY <3>1, <1>3, <1>6
    <3>3. i = j
      BY <3>1, <3>2, <1>5
    <3> QED BY <3>1, <3>2, <3>3
  <2>2. ASSUME NEW i \in Slots, Live(i), arpTable[i].ip \in asks
        PROVE  i \in used
    <3>1. Resolved(arpTable[i].ip)
      BY <2>2, <1>4 DEF Resolved
    <3> QED BY <2>2, <3>1, <1>5
  <2> QED BY <2>1, <2>2
<1> DEFINE table == TableUsed(S)
           idled == IdleUsed(S)
<1>8. table = [i \in Slots |-> IF i \in used THEN [arpTable[i] EXCEPT !.ttl = MaxTTL] ELSE arpTable[i]]
  BY DEF TableUsed, Refreshed
<1>9. idled = [h \in Hosts |-> IF Resolved(h) /\ h \in asks THEN 0 ELSE idle[h]]
  BY DEF IdleUsed
<1> HIDE DEF table, idled, used, asks
<1>10. \A i \in Slots :
          /\ table[i] \in Entries
          /\ table[i].ip = arpTable[i].ip /\ table[i].mac = arpTable[i].mac
          /\ table[i].ttl = IF i \in used THEN MaxTTL ELSE arpTable[i].ttl
  BY <1>1, <1>8, ARPAssumption DEF EntriesOK, Entries
<1>11. EntriesOK(table)
  <2>1. table \in [Slots -> Entries]
    BY <1>8, <1>10
  <2>2. \A i \in Slots : table[i].ttl = UnusedTTL <=> arpTable[i].ttl = UnusedTTL
    BY <1>7, <1>10, ARPAssumption DEF UnusedTTL, Live
  <2> QED BY <2>1, <2>2, <1>1, <1>10 DEF EntriesOK
<1>12. idled \in [Hosts -> 0 .. MaxTTL + 1]
  BY <1>9, ARPAssumption DEF Sound, TableSound
<1>13. OneEach(table)
  BY <1>1, <1>10 DEF OneEach
<1>14. \A i \in Slots : table[i].ttl > 0 <=> Live(i)
  BY <1>7, <1>10, ARPAssumption DEF Live
<1>15. Latest(table, learned)
  BY <1>10, <1>14 DEF Latest, Sound, TableSound, Live
<1>16. Expiring(table, idled)
  <2> SUFFICES ASSUME NEW i \in Slots, Live(i)
               PROVE  table[i].ttl + idled[table[i].ip] = MaxTTL
    BY <1>14 DEF Expiring
  <2>1. arpTable[i].ip \in Hosts /\ Resolved(arpTable[i].ip)
    BY <1>2, <1>4 DEF Resolved
  <2>2. CASE i \in used
    BY <2>1, <2>2, <1>7, <1>9, <1>10, ARPAssumption
  <2>3. CASE i \notin used
    <3>1. arpTable[i].ttl + idle[arpTable[i].ip] = MaxTTL
      BY DEF Sound, TableSound, Expiring, Live
    <3>2. idled[arpTable[i].ip] = idle[arpTable[i].ip]
      BY <2>1, <2>3, <1>7, <1>9
    <3> QED BY <2>3, <3>1, <3>2, <1>10
  <2> QED BY <2>2, <2>3
<1> QED BY <1>11, <1>12, <1>13, <1>15, <1>16 DEF TableSound, Sound, table, idled

(* A minute takes one from the life of every live entry, and adds one to   *)
(* the time its host has been idle.                                        *)
LEMMA AgedSound ==
    ASSUME NEW table, NEW idled, NEW macs, TableSound(table, idled, macs)
    PROVE  TableSound(Aged(table), [h \in Hosts |-> Older(idled[h])], macs)
<1> DEFINE aged == Aged(table)
           older == [h \in Hosts |-> Older(idled[h])]
<1>1. \A i \in Slots : table[i] \in Entries
  BY DEF TableSound, EntriesOK
<1>2. \A i \in Slots :
          /\ aged[i] \in Entries
          /\ aged[i].ip = table[i].ip /\ aged[i].mac = table[i].mac
          /\ aged[i].ttl = IF table[i].ttl > 0 THEN table[i].ttl - 1 ELSE table[i].ttl
  BY <1>1, ARPAssumption DEF Aged, Entries, UnusedTTL
<1>3. EntriesOK(aged)
  <2>1. aged \in [Slots -> Entries]
    BY <1>2 DEF Aged
  <2>2. \A i \in Slots : aged[i].ttl = UnusedTTL <=> table[i].ttl = UnusedTTL
    BY <1>1, <1>2, ARPAssumption DEF Entries, UnusedTTL
  <2> QED BY <2>1, <2>2, <1>2 DEF EntriesOK, TableSound
<1>4. \A i \in Slots : aged[i].ttl > 0 => table[i].ttl > 0
  BY <1>1, <1>2, ARPAssumption DEF Entries, UnusedTTL
<1>5. older \in [Hosts -> 0 .. MaxTTL + 1]
  BY ARPAssumption DEF TableSound, Older
<1>6. Expiring(aged, older)
  <2> SUFFICES ASSUME NEW i \in Slots, aged[i].ttl > 0
               PROVE  aged[i].ttl + older[aged[i].ip] = MaxTTL
    BY DEF Expiring
  <2>1. table[i].ttl > 0 /\ table[i].ip \in Hosts
    BY <1>4, LiveHost DEF TableSound
  <2>2. table[i].ttl + idled[table[i].ip] = MaxTTL
    BY <2>1 DEF TableSound, Expiring
  <2>3. table[i].ttl \in 1 .. MaxTTL /\ idled[table[i].ip] \in 0 .. MaxTTL + 1
    BY <2>1, <1>1, ARPAssumption DEF TableSound, Entries, UnusedTTL
  <2>4. older[table[i].ip] = idled[table[i].ip] + 1
    BY <2>1, <2>2, <2>3, ARPAssumption DEF Older
  <2>5. aged[i].ttl = table[i].ttl - 1 /\ aged[i].ip = table[i].ip
    BY <2>1, <1>2
  <2> HIDE DEF aged, older
  <2> QED BY <2>2, <2>3, <2>4, <2>5, ARPAssumption
<1> HIDE DEF aged, older
<1>7. OneEach(aged) /\ Latest(aged, macs)
  BY <1>2, <1>4 DEF TableSound, OneEach, Latest
<1> QED BY <1>3, <1>5, <1>6, <1>7 DEF TableSound, aged, older

(* A reply replaces the entry of its host, or one of another host when it  *)
(* has none.                                                               *)
LEMMA ReplySound ==
    ASSUME Sound, NEW h \in Hosts, NEW m \in MACs, processARPReply(h, m)
    PROVE  Sound'
<1>1. PICK i \in Selected(h) :
          arpTable' = [arpTable EXCEPT ![i] = [ip |-> h, mac |-> m, ttl |-> MaxTTL]]
  BY DEF processARPReply
<1>2. i \in Slots
  BY DEF Selected, Oldest
<1>3. \A j \in Slots : arpTable[j].ip = h => j = i
  BY DEF Selected, Sound, TableSound, OneEach
<1>4. h # Nobody /\ MaxTTL # UnusedTTL /\ MaxTTL > 0
  BY ARPAssumption DEF UnusedTTL
<1>5. /\ learned' = [learned EXCEPT ![h] = m] /\ idle' = [idle EXCEPT ![h] = 0]
      /\ minuteTimer' = minuteTimer
  BY DEF processARPReply
<1>6. \A j \in Slots :
          arpTable'[j] = IF j = i THEN [ip |-> h, mac |-> m, ttl |-> MaxTTL] ELSE arpTable[j]
  BY <1>1, <1>2 DEF Sound, TableSound, EntriesOK
<1>7. EntriesOK(arpTable)'
  <2>1. [ip |-> h, mac |-> m, ttl |-> MaxTTL] \in Entries
    BY ARPAssumption DEF Entries
  <2>2. arpTable' \in [Slots -> Entries]
    BY <2>1, <1>1, <1>2 DEF Sound, TableSound, EntriesOK
  <2> QED BY <2>2, <1>4, <1>6 DEF Sound, TableSound, EntriesOK, Slots
<1>8. idle' \in [Hosts -> 0 .. MaxTTL + 1] /\ learned' \in [Hosts -> MACs]
  BY <1>5, ARPAssumption DEF Sound, TableSound
<1>9. OneEach(arpTable)'
  BY <1>3, <1>6 DEF Sound, TableSound, OneEach, Slots
<1>10. \A j \in Slots : j # i /\ arpTable[j].ttl > 0 => arpTable[j].ip \in Hosts \ {h}
  BY <1>3, LiveHost DEF Sound, TableSound
<1>11. Latest(arpTable, learned)'
  <2> SUFFICES ASSUME NEW j \in Slots, arpTable'[j].ttl > 0
               PROVE  arpTable'[j].mac = learned'[arpTable'[j].ip]
    BY DEF Latest, Slots
  <2>1. CASE j = i
    BY <2>1, <1>5, <1>6 DEF Sound, TableSound
  <2>2. CASE j # i
    BY <2>2, <1>5, <1>6, <1>10 DEF Sound, TableSound, Latest
  <2> QED BY <2>1, <2>2
<1>12. Expiring(arpTable, idle)'
  <2> SUFFICES ASSUME NEW j \in Slots, arpTable'[j].ttl > 0
               PROVE  arpTable'[j].ttl + idle'[arpTable'[j].ip] = MaxTTL
    BY DEF Expiring, Slots
  <2>1. CASE j = i
    BY <2>1, <1>5, <1>6, ARPAssumption DEF Sound, TableSound
  <2>2. CASE j # i
    BY <2>2, <1>5, <1>6, <1>10 DEF Sound, TableSound, Expiring
  <2> QED BY <2>1, <2>2
<1> QED BY <1>5, <1>7, <1>8, <1>9, <1>11, <1>12 DEF Sound, TableSound

-----------------------------------------------------------------------------
(* The table in every state *)

LEMMA SoundInit == Init => Sound
<1> SUFFICES ASSUME Init PROVE Sound
  OBVIOUS
<1>1. PICK m \in MACs :
          /\ arpTable = [i \in Slots |-> [ip |-> Nobody, mac |-> m, ttl |-> UnusedTTL]]
          /\ minuteTimer = MinuteTicks
          /\ learned = [h \in Hosts |-> m]
          /\ idle = [h \in Hosts |-> 0]
  BY DEF Init, ARPInit
<1>2. \A i \in Slots : arpTable[i].ip = Nobody /\ arpTable[i].ttl = UnusedTTL /\ arpTable[i] \in Entries
  BY <1>1 DEF Entries
<1>3. arpTable \in [Slots -> Entries]
  BY <1>1, <1>2
<1>4. OneEach(arpTable) /\ Latest(arpTable, learned) /\ Expiring(arpTable, idle)
  BY <1>2, ARPAssumption DEF OneEach, Latest, Expiring, UnusedTTL
<1>5. idle \in [Hosts -> 0 .. MaxTTL + 1] /\ learned \in [Hosts -> MACs]
      /\ minuteTimer \in 1 .. MinuteTicks
  BY <1>1, ARPAssumption
<1> QED BY <1>2, <1>3, <1>4, <1>5 DEF Sound, TableSound, EntriesOK

LEMMA SoundStep == Sound /\ [Next]_vars => Sound'
<1> SUFFICES ASSUME Sound, [Next]_vars PROVE Sound'
  OBVIOUS
<1>1. CASE UNCHANGED arpVars
  BY <1>1 DEF Sound, arpVars, TableSound, EntriesOK, OneEach, Latest, Expiring, Slots
<1>2. ASSUME NEW s \in Sockets, send(s)
      PROVE  Sound'
  <2>1. CASE sendRefused(s)
    BY <2>1, <1>1 DEF sendRefused
  <2>2. CASE sendAccepted(s)
    <3>1. arpTable' = TableUsed({s}) /\ idle' = IdleUsed({s}) /\ UNCHANGED <<minuteTimer, learned>>
      BY <2>2 DEF sendAccepted
    <3>2. TableSound(TableUsed({s}), IdleUsed({s}), learned)
      BY UsedSound
    <3> QED BY <3>1, <3>2 DEF Sound
  <2> QED BY <1>2, <2>1, <2>2 DEF send
<1>3. CASE tick
  <2> DEFINE table == TableUsed(Ticked)
             idled == IdleUsed(Ticked)
  <2>1. TableSound(table, idled, learned)
    BY UsedSound DEF Ticked, Waiting
  <2>2. arpTick(table, idled) /\ learned' = learned
    BY <1>3 DEF tick
  <2> HIDE DEF table, idled
  <2>3. CASE minuteTimer = 1
    <3>1. minuteTimer' = MinuteTicks /\ arpTable' = Aged(table)
          /\ idle' = [h \in Hosts |-> Older(idled[h])]
      BY <2>2, <2>3 DEF arpTick
    <3>2. TableSound(Aged(table), [h \in Hosts |-> Older(idled[h])], learned)
      BY <2>1, AgedSound
    <3> QED BY <2>2, <3>1, <3>2, ARPAssumption DEF Sound
  <2>4. CASE minuteTimer # 1
    <3>1. minuteTimer' = minuteTimer - 1 /\ arpTable' = table /\ idle' = idled
      BY <2>2, <2>4 DEF arpTick
    <3>2. minuteTimer' \in 1 .. MinuteTicks
      BY <2>4, <3>1, ARPAssumption DEF Sound
    <3> QED BY <2>1, <2>2, <3>1, <3>2 DEF Sound
  <2> QED BY <2>3, <2>4
<1>4. ASSUME NEW h \in Hosts, NEW m \in MACs, reply(h, m) \/ announce(h, m)
      PROVE  Sound'
  BY <1>4, ReplySound DEF reply, announce
<1>5. \/ UNCHANGED arpVars
      \/ \E s \in Sockets : send(s)
      \/ tick
      \/ \E h \in Hosts, m \in MACs : reply(h, m) \/ announce(h, m)
  BY DEF Next, vars, write, loseRequest
<1> QED BY <1>1, <1>2, <1>3, <1>4, <1>5

LEMMA SoundAlways == Spec => []Sound
BY SoundInit, SoundStep, PTL DEF Spec

-----------------------------------------------------------------------------
(* The theorems *)

(* No host ever has two entries, so a reply always replaces the one there  *)
(* is (ARP.cpp:152-156).                                                   *)
THEOREM OneEntryEach == Spec => []OneEntryPerHost
<1>1. Sound => OneEntryPerHost
  BY DEF Sound, TableSound, OneEach, OneEntryPerHost
<1> QED BY <1>1, SoundAlways, PTL

(* whoHas answers with what the last reply of the host said.               *)
THEOREM AnswersAreLatest == Spec => []LatestAnswered
<1>1. Sound => LatestAnswered
  BY DEF Sound, TableSound, Latest, LatestAnswered, Live
<1> QED BY <1>1, SoundAlways, PTL

(* An entry lives as many minutes after its last reply or use as           *)
(* MAX_ARP_TTL says, no more and no less.                                  *)
THEOREM IdleEntriesExpire == Spec => []IdleExpires
<1>1. Sound => IdleExpires
  BY DEF Sound, TableSound, Expiring, IdleExpires, Live
<1> QED BY <1>1, SoundAlways, PTL

(* A live entry is overwritten only when all are live and none has been    *)
(* idle for longer (ARP.cpp:146-160).                                      *)
THEOREM OldestIsEvicted == Spec => OldestEvicted
<1>1. ASSUME Sound, [Next]_vars, NEW i \in Slots, Live(i), arpTable'[i].ip # arpTable[i].ip
      PROVE  \A j \in Slots : Live(j) /\ idle[arpTable[j].ip] <= idle[arpTable[i].ip]
  <2>1. \A S \in SUBSET Sockets : \A j \in Slots : TableUsed(S)[j].ip = arpTable[j].ip
    BY DEF TableUsed, Refreshed, Sound, TableSound, EntriesOK, Entries
  <2>2. \A table \in [Slots -> Entries] : \A j \in Slots : Aged(table)[j].ip = table[j].ip
    BY DEF Aged, Entries
  <2>3. ~tick
    <3>1. TableUsed(Ticked) \in [Slots -> Entries]
      BY <1>1, UsedSound DEF Ticked, Waiting, TableSound, EntriesOK
    <3>2. Ticked \in SUBSET Sockets
      BY DEF Ticked, Waiting
    <3> QED BY <1>1, <2>1, <2>2, <3>1, <3>2 DEF tick, arpTick
  <2>4. \A s \in Sockets : ~send(s)
    BY <1>1, <2>1 DEF send, sendRefused, sendAccepted, arpVars
  <2>5. PICK h \in Hosts, m \in MACs : processARPReply(h, m)
    BY <1>1, <2>3, <2>4 DEF Next, vars, arpVars, write, loseRequest, reply, announce
  <2>6. i \in Oldest(Slots)
    <3>1. PICK k \in Selected(h) :
              arpTable' = [arpTable EXCEPT ![k] = [ip |-> h, mac |-> m, ttl |-> MaxTTL]]
      BY <2>5 DEF processARPReply
    <3>2. k = i /\ arpTable'[i].ip = h
      BY <1>1, <3>1 DEF Sound, TableSound, EntriesOK
    <3>3. arpTable[i].ip # h
      BY <1>1, <3>2
    <3> QED BY <3>1, <3>2, <3>3 DEF Selected
  <2>7. \A j \in Slots : arpTable[i].ttl <= arpTable[j].ttl
    BY <2>6 DEF Oldest
  <2>8. \A j \in Slots : arpTable[j].ttl \in (0 .. MaxTTL) \cup {UnusedTTL}
    BY <1>1 DEF Sound, TableSound, EntriesOK, Entries
  <2>9. \A j \in Slots : Live(j)
    BY <1>1, <2>7, <2>8, ARPAssumption DEF Live, UnusedTTL
  <2>10. \A j \in Slots : arpTable[j].ip \in Hosts /\ arpTable[j].ttl + idle[arpTable[j].ip] = MaxTTL
    BY <1>1, <2>9, LiveHost DEF Sound, TableSound, Expiring, Live
  <2>11. \A j \in Slots : idle[arpTable[j].ip] \in 0 .. MaxTTL + 1
    BY <1>1, <2>10 DEF Sound, TableSound
  <2>12. ASSUME NEW j \in Slots
         PROVE  idle[arpTable[j].ip] <= idle[arpTable[i].ip]
    BY <2>7, <2>8, <2>10, <2>11, ARPAssumption DEF UnusedTTL
  <2> QED BY <2>9, <2>12
<1>2. Sound /\ [Next]_vars
        => [\A i \in Slots : Live(i) /\ arpTable'[i].ip # arpTable[i].ip
                => \A j \in Slots : Live(j) /\ idle[arpTable[j].ip] <= idle[arpTable[i].ip]]_vars
  BY <1>1
<1> QED BY <1>2, SoundAlways, PTL DEF Spec, OldestEvicted

-----------------------------------------------------------------------------
(* What was sent and what waits *)

(* A set of naturals that has 0 and, with each number up to n, the next    *)
(* one, has all of them: from that a set of naturals has a least element.  *)
LEMMA UpTo ==
    ASSUME NEW n \in Nat, NEW S, 0 \in S, \A k \in 1 .. n : k - 1 \in S => k \in S
    PROVE  0 .. n \subseteq S
<1> DEFINE T == {k \in 0 .. n : k \notin S}
           R == {ss \in Nat \X Nat : ss[1] < ss[2]}
<1>1. SUFFICES ASSUME T # {} PROVE FALSE
  OBVIOUS
<1>2. IsWellFoundedOn(R, Nat)
  BY NatLessThanWellFounded DEF OpToRel
<1>3. \A x, y \in Nat : y < x => <<y, x>> \in R
  OBVIOUS
<1>4. T \in SUBSET Nat
  OBVIOUS
<1> HIDE DEF R
<1>5. PICK x \in T : \A y \in T : ~ (<<y, x>> \in R)
  <2> HIDE DEF T
  <2> QED BY <1>1, <1>2, <1>4, WFMin
<1>6. \A y \in T : ~ (y < x)
  BY <1>3, <1>4, <1>5
<1>7. x \in 1 .. n /\ x - 1 \in 0 .. n /\ x - 1 < x
  OBVIOUS
<1> QED BY <1>6, <1>7

\* w is the datagrams of d, one behind the other, as far as each of them.
Joins(d, w) ==
    \E f \in [1 .. Len(d) -> Seq(Nat)] :
        /\ \A i \in 1 .. Len(d) : f[i] = IF i = 1 THEN d[i] ELSE f[i - 1] \o d[i]
        /\ w = IF d = <<>> THEN <<>> ELSE f[Len(d)]

(* There is only one such: what FlattenSeq comes to.                       *)
LEMMA JoinedIsFlat ==
    ASSUME NEW d \in Seq(Seq(Nat)), NEW w, Joins(d, w)
    PROVE  FlattenSeq(d) = w
<1>1. CASE d = <<>>
  BY <1>1 DEF FlattenSeq, Joins
<1>2. CASE d # <<>>
  <2>1. Len(d) \in Nat /\ Len(d) # 0
    BY <1>2
  <2>2. PICK f \in [1 .. Len(d) -> Seq(Nat)] :
            /\ \A i \in 1 .. Len(d) : f[i] = IF i = 1 THEN d[i] ELSE f[i - 1] \o d[i]
            /\ w = f[Len(d)]
    BY <1>2 DEF Joins
  <2>3. f = [i \in 1 .. Len(d) |-> IF i = 1 THEN d[i] ELSE f[i - 1] \o d[i]]
    BY <2>2
  <2> DEFINE flatten == CHOOSE g : g = [i \in 1 .. Len(d) |-> IF i = 1 THEN d[i] ELSE g[i - 1] \o d[i]]
  <2>4. flatten = [i \in 1 .. Len(d) |-> IF i = 1 THEN d[i] ELSE flatten[i - 1] \o d[i]]
    BY <2>3, Zenon
  <2>5. FlattenSeq(d) = flatten[Len(d)]
    BY <2>1, Zenon DEF FlattenSeq
  <2> HIDE DEF flatten
  <2> DEFINE S == {k \in 0 .. Len(d) : k > 0 => flatten[k] = f[k]}
  <2>6. 0 \in S
    BY <2>1
  <2>7. ASSUME NEW k \in 1 .. Len(d), k - 1 \in S PROVE k \in S
    <3>1. flatten[k] = IF k = 1 THEN d[k] ELSE flatten[k - 1] \o d[k]
      BY <2>4
    <3>2. k # 1 => k - 1 > 0
      OBVIOUS
    <3>3. k # 1 => flatten[k - 1] = f[k - 1]
      BY <2>7, <3>2
    <3>4. flatten[k] = f[k]
      BY <2>2, <3>1, <3>3
    <3> QED BY <3>4
  <2> HIDE DEF S
  <2>8. Len(d) \in S
    <3>1. 0 .. Len(d) \subseteq S
      BY <2>1, <2>6, <2>7, UpTo
    <3>2. Len(d) \in 0 .. Len(d)
      BY <2>1
    <3> QED BY <3>1, <3>2
  <2> QED BY <2>1, <2>2, <2>5, <2>8 DEF S
<1> QED BY <1>1, <1>2

(* One datagram more.                                                      *)
LEMMA JoinsOneMore ==
    ASSUME NEW d \in Seq(Seq(Nat)), NEW w \in Seq(Nat), Joins(d, w), NEW x \in Seq(Nat)
    PROVE  Joins(Append(d, x), w \o x)
<1> DEFINE n == Len(d)
           e == Append(d, x)
<1>1. PICK f \in [1 .. n -> Seq(Nat)] :
          /\ \A i \in 1 .. n : f[i] = IF i = 1 THEN d[i] ELSE f[i - 1] \o d[i]
          /\ w = IF d = <<>> THEN <<>> ELSE f[n]
  BY DEF Joins
<1>2. n \in Nat /\ Len(e) = n + 1 /\ e # <<>> /\ e[n + 1] = x /\ \A i \in 1 .. n : e[i] = d[i]
  <2>1. n \in Nat /\ Len(e) = n + 1 /\ e[n + 1] = x
    OBVIOUS
  <2>2. \A i \in 1 .. n : e[i] = d[i]
    OBVIOUS
  <2>3. e # <<>>
    <3>1. Len(<<>>) = 0 /\ n + 1 # 0
      BY <2>1
    <3> HIDE DEF e, n
    <3> QED BY <2>1, <3>1, Zenon
  <2> QED BY <2>1, <2>2, <2>3
<1>3. d = <<>> <=> n = 0
  OBVIOUS
<1> DEFINE g == [i \in 1 .. n + 1 |-> IF i = n + 1 THEN w \o x ELSE f[i]]
<1>4. g \in [1 .. n + 1 -> Seq(Nat)] /\ g[n + 1] = w \o x /\ \A i \in 1 .. n : g[i] = f[i]
  BY <1>2
<1> HIDE DEF g, e, n
<1>5. ASSUME NEW i \in 1 .. n PROVE g[i] = IF i = 1 THEN e[i] ELSE g[i - 1] \o e[i]
  <2>1. i # 1 => i - 1 \in 1 .. n
    BY <1>2
  <2> QED BY <1>1, <1>2, <1>4, <2>1
<1>6. g[n + 1] = IF n + 1 = 1 THEN e[n + 1] ELSE g[(n + 1) - 1] \o e[n + 1]
  <2>1. CASE n = 0
    <3>1. w = <<>> /\ <<>> \o x = x
      BY <1>1, <1>3, <2>1
    <3> QED BY <1>2, <1>4, <2>1, <3>1
  <2>2. CASE n # 0
    <3>1. n \in 1 .. n /\ n + 1 # 1 /\ (n + 1) - 1 = n
      BY <1>2, <2>2
    <3>2. w = g[n]
      BY <1>1, <1>3, <1>4, <2>2, <3>1
    <3> QED BY <1>2, <1>4, <3>1, <3>2
  <2> QED BY <2>1, <2>2
<1>7. \A i \in 1 .. n + 1 : g[i] = IF i = 1 THEN e[i] ELSE g[i - 1] \o e[i]
  <2> DEFINE goesOn(i) == g[i] = IF i = 1 THEN e[i] ELSE g[i - 1] \o e[i]
  <2>1. \A i \in 1 .. n + 1 : i \in 1 .. n \/ i = n + 1
    BY <1>2
  <2>2. \A i \in 1 .. n : goesOn(i)
    BY <1>5
  <2>3. goesOn(n + 1)
    BY <1>6
  <2> HIDE DEF goesOn
  <2>4. \A i \in 1 .. n + 1 : goesOn(i)
    BY <2>1, <2>2, <2>3
  <2> QED BY <2>4 DEF goesOn
<1>8. Joins(e, w \o x)
  BY <1>2, <1>4, <1>7 DEF Joins
<1> QED BY <1>8 DEF e

\* The fragments of a socket are in the datagrams d or wait in b, in the order
\* in which all n of them were written.
Ordered(d, b, n) ==
    \E w \in Seq(Nat) : Joins(d, w) /\ w \o b = [k \in 1 .. n |-> k]

\* The invariant behind NothingLost.
AllKept ==
    /\ datagrams \in [Sockets -> Seq(Seq(Nat))]
    /\ buffer \in [Sockets -> Seq(Nat)]
    /\ written \in [Sockets -> Nat]
    /\ \A s \in Sockets :
            written[s] <= MaxWrites[s] /\ Ordered(datagrams[s], buffer[s], written[s])

(* What waits is no longer than what was written, so the transmit buffer   *)
(* has room for all of it.                                                 *)
LEMMA FilledIsAll ==
    ASSUME \A s \in Sockets : MaxWrites[s] <= TxRoom, AllKept, NEW s \in Sockets
    PROVE  Filled(s) = buffer[s]
<1> DEFINE b == buffer[s]
<1>1. PICK w \in Seq(Nat) : w \o b = [k \in 1 .. written[s] |-> k]
  BY DEF AllKept, Ordered
<1>2. b \in Seq(Nat) /\ written[s] \in Nat /\ written[s] <= MaxWrites[s]
  BY DEF AllKept
<1>3. Len(w \o b) = Len(w) + Len(b) /\ Len(w) \in Nat /\ Len(b) \in Nat
  BY <1>2
<1>4. Len([k \in 1 .. written[s] |-> k]) = written[s]
  BY <1>2
<1>5. Len(b) <= TxRoom
  BY <1>1, <1>2, <1>3, <1>4, UDPSocketAssumption
<1>6. (IF Len(b) < TxRoom THEN Len(b) ELSE TxRoom) = Len(b)
  BY <1>3, <1>5, UDPSocketAssumption
<1>7. SubSeq(b, 1, Len(b)) = b
  BY <1>2
<1> QED BY <1>6, <1>7 DEF Filled

(* The sockets of S send all that waits, or wait on.                       *)
LEMMA SentKept ==
    ASSUME \A s \in Sockets : MaxWrites[s] <= TxRoom, AllKept,
           NEW S \in SUBSET Sockets, sendPackets(S), written' = written
    PROVE  AllKept'
<1>1. /\ \A s \in Sockets : datagrams[s] \in Seq(Seq(Nat)) /\ buffer[s] \in Seq(Nat)
      /\ \A s \in Sockets : Filled(s) = buffer[s]
  BY FilledIsAll DEF AllKept
<1>2. PICK out \in SUBSET S :
          /\ datagrams' = [s \in Sockets |->
                IF s \in out THEN Append(datagrams[s], Filled(s)) ELSE datagrams[s]]
          /\ buffer' = [s \in Sockets |->
                IF s \in out THEN <<>> ELSE IF s \in S THEN Kept(s) ELSE buffer[s]]
  BY DEF sendPackets
<1>3. \A s \in Sockets :
          /\ datagrams'[s] = IF s \in out THEN Append(datagrams[s], buffer[s]) ELSE datagrams[s]
          /\ buffer'[s] = IF s \in out THEN <<>> ELSE buffer[s]
  BY <1>1, <1>2 DEF Kept
<1>4. \A s \in Sockets : datagrams'[s] \in Seq(Seq(Nat)) /\ buffer'[s] \in Seq(Nat)
  <2>1. \A d, b : d \in Seq(Seq(Nat)) /\ b \in Seq(Nat) => Append(d, b) \in Seq(Seq(Nat))
    OBVIOUS
  <2>2. <<>> \in Seq(Nat)
    OBVIOUS
  <2> SUFFICES ASSUME NEW s \in Sockets
               PROVE  datagrams'[s] \in Seq(Seq(Nat)) /\ buffer'[s] \in Seq(Nat)
    OBVIOUS
  <2>3. Append(datagrams[s], buffer[s]) \in Seq(Seq(Nat))
    BY <1>1, <2>1
  <2> QED BY <1>1, <1>3, <2>2, <2>3, Zenon
<1>5. datagrams' \in [Sockets -> Seq(Seq(Nat))] /\ buffer' \in [Sockets -> Seq(Nat)]
  BY <1>2, <1>4
<1>6. ASSUME NEW s \in Sockets PROVE Ordered(datagrams'[s], buffer'[s], written[s])
  <2>1. PICK w \in Seq(Nat) : Joins(datagrams[s], w) /\ w \o buffer[s] = [k \in 1 .. written[s] |-> k]
    BY DEF AllKept, Ordered
  <2>2. CASE s \in out
    <3>1. Joins(Append(datagrams[s], buffer[s]), w \o buffer[s])
      BY <1>1, <2>1, JoinsOneMore
    <3>2. w \o buffer[s] \in Seq(Nat) /\ (w \o buffer[s]) \o <<>> = w \o buffer[s]
      BY <1>1
    <3> QED BY <1>3, <2>1, <2>2, <3>1, <3>2 DEF Ordered
  <2>3. CASE s \notin out
    BY <1>3, <2>1, <2>3 DEF Ordered
  <2> QED BY <2>2, <2>3
<1> QED BY <1>5, <1>6 DEF AllKept

LEMMA OneBehind ==
    ASSUME NEW w \in Seq(Nat), NEW b \in Seq(Nat), NEW n \in Nat
    PROVE  w \o Append(b, n) = Append(w \o b, n)
<1> DEFINE l == w \o Append(b, n)
           r == Append(w \o b, n)
<1>1. l \in Seq(Nat) /\ r \in Seq(Nat) /\ Len(l) = Len(w) + Len(b) + 1 /\ Len(r) = Len(l)
  OBVIOUS
<1>2. ASSUME NEW i \in 1 .. Len(w) + Len(b) + 1 PROVE l[i] = r[i]
  <2>1. CASE i <= Len(w)
    BY <2>1
  <2>2. CASE i > Len(w) /\ i <= Len(w) + Len(b)
    BY <2>2
  <2>3. CASE i = Len(w) + Len(b) + 1
    BY <2>3
  <2> QED BY <2>1, <2>2, <2>3
<1> HIDE DEF l, r
<1>3. l = r
  BY <1>1, <1>2
<1> QED BY <1>3 DEF l, r

LEMMA KeptInit == Init => AllKept
<1> SUFFICES ASSUME Init PROVE AllKept
  OBVIOUS
<1>1. Joins(<<>>, <<>>)
  <2> DEFINE f == [i \in 1 .. 0 |-> <<>>]
  <2>1. Len(<<>>) = 0 /\ \A i \in 1 .. 0 : FALSE
    OBVIOUS
  <2>2. f \in [1 .. 0 -> Seq(Nat)]
    BY <2>1
  <2> HIDE DEF f
  <2> QED BY <2>1, <2>2 DEF Joins
<1>2. <<>> \o <<>> = [k \in 1 .. 0 |-> k] /\ <<>> \in Seq(Nat)
  OBVIOUS
<1>3. Ordered(<<>>, <<>>, 0)
  BY <1>1, <1>2 DEF Ordered
<1> QED BY <1>3, UDPSocketAssumption DEF Init, AllKept

LEMMA KeptStep ==
    ASSUME \A s \in Sockets : MaxWrites[s] <= TxRoom
    PROVE  AllKept /\ [Next]_vars => AllKept'
<1> SUFFICES ASSUME AllKept, [Next]_vars PROVE AllKept'
  OBVIOUS
<1>1. CASE UNCHANGED <<buffer, written, datagrams>>
  BY <1>1 DEF AllKept, Ordered
<1>2. ASSUME NEW s \in Sockets, write(s) PROVE AllKept'
  <2>1. /\ written[s] < MaxWrites[s] /\ written' = [written EXCEPT ![s] = @ + 1]
        /\ buffer' = [buffer EXCEPT ![s] = Append(@, written[s] + 1)] /\ datagrams' = datagrams
    BY <1>2 DEF write
  <2>2. written[s] \in Nat /\ buffer[s] \in Seq(Nat) /\ MaxWrites[s] \in Nat
    BY UDPSocketAssumption DEF AllKept
  <2>3. PICK w \in Seq(Nat) :
            Joins(datagrams[s], w) /\ w \o buffer[s] = [k \in 1 .. written[s] |-> k]
    BY DEF AllKept, Ordered
  <2>4. w \o Append(buffer[s], written[s] + 1) = Append(w \o buffer[s], written[s] + 1)
    <3>1. written[s] + 1 \in Nat
      BY <2>2
    <3> QED BY <2>2, <3>1, OneBehind
  <2>5. ASSUME NEW n \in Nat
        PROVE  Append([k \in 1 .. n |-> k], n + 1) = [k \in 1 .. n + 1 |-> k]
    OBVIOUS
  <2>6. Ordered(datagrams[s], Append(buffer[s], written[s] + 1), written[s] + 1)
    <3>1. Append(w \o buffer[s], written[s] + 1) = [k \in 1 .. written[s] + 1 |-> k]
      BY <2>2, <2>3, <2>5
    <3> QED BY <2>3, <2>4, <3>1, Zenon DEF Ordered
  <2>7. \A t \in Sockets :
            /\ written'[t] = IF t = s THEN written[s] + 1 ELSE written[t]
            /\ buffer'[t] = IF t = s THEN Append(buffer[s], written[s] + 1) ELSE buffer[t]
    BY <2>1 DEF AllKept
  <2>8. \A t \in Sockets : written'[t] <= MaxWrites[t] /\ Ordered(datagrams'[t], buffer'[t], written'[t])
    BY <2>1, <2>2, <2>6, <2>7 DEF AllKept
  <2>9. written' \in [Sockets -> Nat] /\ buffer' \in [Sockets -> Seq(Nat)]
    BY <2>1, <2>2 DEF AllKept
  <2> QED BY <2>1, <2>8, <2>9 DEF AllKept
<1>3. ASSUME NEW s \in Sockets, send(s) PROVE AllKept'
  <2>1. CASE sendRefused(s)
    BY <1>1, <1>3, <2>1 DEF send, sendRefused
  <2>2. CASE sendAccepted(s)
    BY <1>3, <2>2, SentKept DEF send, sendAccepted
  <2> QED BY <1>3, <2>1, <2>2 DEF send
<1>4. CASE tick
  BY <1>4, SentKept DEF tick, Ticked, Waiting
<1>5. \/ UNCHANGED <<buffer, written, datagrams>>
      \/ \E s \in Sockets : write(s) \/ send(s)
      \/ tick
  BY DEF Next, vars, udpVars, reply, announce, loseRequest
<1> QED BY <1>1, <1>2, <1>3, <1>4, <1>5

(* Whatever the network and the table forget, and however often send() is  *)
(* refused: every fragment goes out once, in the order it was written, or  *)
(* waits.  Of more than the transmit buffer holds the rest is flushed with *)
(* what is sent (UDPSocket.cpp:92).                                        *)
THEOREM NothingIsLost ==
    ASSUME \A s \in Sockets : MaxWrites[s] <= TxRoom
    PROVE  Spec => []NothingLost
<1>1. AllKept => NothingLost
  <2> SUFFICES ASSUME AllKept, NEW s \in Sockets
               PROVE  FlattenSeq(datagrams[s]) \o buffer[s] = [k \in 1 .. written[s] |-> k]
    BY DEF NothingLost
  <2>1. PICK w \in Seq(Nat) :
            Joins(datagrams[s], w) /\ w \o buffer[s] = [k \in 1 .. written[s] |-> k]
    BY DEF AllKept, Ordered
  <2>2. FlattenSeq(datagrams[s]) = w
    BY <2>1, JoinedIsFlat DEF AllKept
  <2> QED BY <2>1, <2>2
<1>2. AllKept /\ [Next]_vars => AllKept'
  BY KeptStep
<1> QED BY <1>1, <1>2, KeptInit, PTL DEF Spec

-----------------------------------------------------------------------------
(* The checksum: a sum of words with the carry brought round *)

Word == 0 .. WordMod - 1

LEMMA WordModIs == WordMod \in Nat /\ WordMod > 3 /\ ByteBase \in Nat /\ ByteBase > 1
  BY ChecksumAssumption DEF WordMod

(* The sum, with the carry brought round.                                  *)
LEMMA AddIs ==
    ASSUME NEW a \in Word, NEW b \in Word
    PROVE  /\ add(a, b) \in Word
           /\ add(a, b) = IF a + b < WordMod THEN a + b ELSE a + b - (WordMod - 1)
<1> DEFINE W == WordMod
           sum == (a + b) % W
<1>1. W \in Nat /\ W > 3 /\ a \in 0 .. W - 1 /\ b \in 0 .. W - 1
  BY WordModIs DEF Word
<1>2. add(a, b) = IF sum < b THEN (sum + 1) % W ELSE sum
  BY DEF add
<1> HIDE DEF W
<1>3. CASE a + b < W
  <2>1. sum = a + b
    BY <1>1, <1>3
  <2> QED BY <1>1, <1>2, <1>3, <2>1 DEF Word, W
<1>4. CASE ~ (a + b < W)
  <2>1. sum = a + b - W
    BY <1>1, <1>4
  <2> QED BY <1>1, <1>2, <1>4, <2>1 DEF Word, W
<1> QED BY <1>3, <1>4

(* Its laws, where a word of zeros and one of ones are not the same.       *)
LEMMA AddLaws ==
    ASSUME NEW a \in Word, NEW b \in Word, NEW c \in Word
    PROVE  /\ add(a, b) = add(b, a)
           /\ add(add(a, b), c) = add(a, add(b, c))
           /\ add(0, a) = a /\ add(a, 0) = a
<1> DEFINE W == WordMod
           S == 0 .. W - 1
           x == add(a, b)
           y == add(b, c)
<1>1. W \in Nat /\ W > 3 /\ a \in S /\ b \in S /\ c \in S /\ 0 \in S
  BY WordModIs DEF Word
<1>2. /\ x \in S /\ x = IF a + b < W THEN a + b ELSE a + b - (W - 1)
      /\ y \in S /\ y = IF b + c < W THEN b + c ELSE b + c - (W - 1)
  BY AddIs DEF Word
<1>3. /\ add(x, c) = IF x + c < W THEN x + c ELSE x + c - (W - 1)
      /\ add(a, y) = IF a + y < W THEN a + y ELSE a + y - (W - 1)
      /\ add(b, a) = IF b + a < W THEN b + a ELSE b + a - (W - 1)
      /\ add(0, a) = IF 0 + a < W THEN 0 + a ELSE 0 + a - (W - 1)
      /\ add(a, 0) = IF a + 0 < W THEN a + 0 ELSE a + 0 - (W - 1)
  <2> HIDE DEF x, y
  <2>1. \A u, v \in S : add(u, v) = IF u + v < W THEN u + v ELSE u + v - (W - 1)
    BY AddIs DEF Word
  <2> HIDE DEF W
  <2> QED BY <1>1, <1>2, <2>1
<1> HIDE DEF W, x, y
<1>4. x = add(b, a)
  BY <1>1, <1>2, <1>3
<1>5. add(x, c) = add(a, y)
  BY <1>1, <1>2, <1>3
<1>6. add(0, a) = a /\ add(a, 0) = a
  BY <1>1, <1>3
<1> QED BY <1>4, <1>5, <1>6 DEF x, y

(* What makes a sum of ones only is one word and no other.                 *)
LEMMA OnlyOne ==
    ASSUME NEW a \in Word, NEW b \in 0 .. WordMod - 2, NEW c \in 0 .. WordMod - 2,
           add(a, b) = WordMod - 1, add(a, c) = WordMod - 1
    PROVE  b = c
<1> DEFINE W == WordMod
<1>1. W \in Nat /\ W > 3 /\ a \in 0 .. W - 1 /\ b \in 0 .. W - 2 /\ c \in 0 .. W - 2
  BY WordModIs DEF Word
<1>2. b \in Word /\ c \in Word
  BY <1>1 DEF Word
<1>3. /\ W - 1 = IF a + b < W THEN a + b ELSE a + b - (W - 1)
      /\ W - 1 = IF a + c < W THEN a + c ELSE a + c - (W - 1)
  BY <1>2, AddIs
<1> HIDE DEF W
<1> QED BY <1>1, <1>3

(* The bytes of a word, the other way round.                               *)
LEMMA WordIs ==
    ASSUME NEW x \in Word
    PROVE  /\ x % ByteBase \in Byte /\ x \div ByteBase \in Byte
           /\ x = (x % ByteBase) + ByteBase * (x \div ByteBase)
<1> DEFINE B == ByteBase
           q == x \div B
           r == x % B
<1>1. B \in Nat /\ B > 1 /\ x \in Nat
  BY ChecksumAssumption DEF Word, WordMod
<1>2. r \in 0 .. B - 1 /\ q \in Nat /\ x = B * q + r
  <2> HIDE DEF B
  <2> QED BY <1>1
<1>3. q \in 0 .. B - 1
  <2>1. x < B * B
    BY <1>1 DEF Word, WordMod
  <2> HIDE DEF B, q, r
  <2>2. ASSUME q >= B PROVE FALSE
    <3> DEFINE bb == B * B
               bq == B * q
    <3>1. bq >= bb /\ bb \in Int /\ bq \in Int
      BY <1>1, <1>2, <2>2
    <3>2. x < bb /\ x = bq + r
      BY <1>2, <2>1
    <3> HIDE DEF bb, bq
    <3> QED BY <1>1, <1>2, <3>1, <3>2
  <2> QED BY <1>1, <1>2, <2>2
<1> QED BY <1>1, <1>2, <1>3 DEF Byte

LEMMA BytesMake ==
    ASSUME NEW l \in Byte, NEW h \in Byte
    PROVE  /\ l + ByteBase * h \in Word
           /\ (l + ByteBase * h) % ByteBase = l /\ (l + ByteBase * h) \div ByteBase = h
<1> DEFINE B == ByteBase
           x == l + B * h
<1>1. B \in Nat /\ B > 1 /\ l \in 0 .. B - 1 /\ h \in 0 .. B - 1
  BY ChecksumAssumption DEF Byte
<1>2. B * h \in Nat /\ B * h <= B * (B - 1) /\ B * (B - 1) = B * B - B
  <2> HIDE DEF B
  <2> QED BY <1>1
<1>3. x \in Word
  <2>1. x \in 0 .. B * B - 1
    <3>1. B * B \in Nat
      BY <1>1
    <3> QED BY <1>1, <1>2, <3>1
  <2> QED BY <2>1 DEF Word, WordMod
<1>4. x % B = l /\ x \div B = h
  <2> DEFINE q == x \div B
             r == x % B
  <2>1. x \in Nat
    BY <1>1, <1>2
  <2>2. q \in Nat /\ r \in 0 .. B - 1 /\ x = B * q + r
    <3> HIDE DEF B, x
    <3> QED BY <1>1, <2>1
  <2>3. B * (q - h) = l - r
    <3>1. B * q - B * h = l - r
      <4> HIDE DEF q, r
      <4> QED BY <1>1, <1>2, <2>2
    <3> HIDE DEF B, q, r
    <3> QED BY <1>1, <2>2, <3>1
  <2> HIDE DEF B, q, r
  <2>4. q - h = 0
    <3>1. ASSUME q - h >= 1 PROVE FALSE
      <4>1. B * (q - h) >= B
        BY <1>1, <2>2, <3>1
      <4> QED BY <1>1, <2>2, <2>3, <4>1
    <3>2. ASSUME q - h <= -1 PROVE FALSE
      <4>1. B * (q - h) <= -B
        BY <1>1, <2>2, <3>2
      <4> QED BY <1>1, <2>2, <2>3, <4>1
    <3> QED BY <1>1, <2>2, <3>1, <3>2
  <2>5. l - r = 0
    BY <1>1, <2>3, <2>4
  <2> QED BY <1>1, <2>2, <2>4, <2>5 DEF q, r
<1> QED BY <1>3, <1>4

LEMMA SwapIs ==
    ASSUME NEW x \in Word
    PROVE  /\ swap(x) \in Word
           /\ swap(x) = 0 <=> x = 0
           /\ \E h \in Byte : swap(x) = ByteBase * x - (WordMod - 1) * h
<1> DEFINE B == ByteBase
           l == x % B
           h == x \div B
<1>1. B \in Nat /\ B > 1 /\ l \in Byte /\ h \in Byte /\ x = l + B * h /\ swap(x) = l * B + h
  BY ChecksumAssumption, WordIs DEF swap
<1> HIDE DEF l, h
<1>2. l \in 0 .. B - 1 /\ h \in 0 .. B - 1
  BY <1>1 DEF Byte
<1>3. l * B + h = h + B * l
  BY <1>1, <1>2
<1>4. swap(x) \in Word
  BY <1>1, <1>3, BytesMake
<1>5. l * B + h = 0 <=> l + B * h = 0
  <2> HIDE DEF B
  <2>1. l * B \in Nat /\ B * h \in Nat /\ l * B >= l /\ B * h >= h
    BY <1>1, <1>2
  <2>2. (l = 0 => l * B = 0) /\ (h = 0 => B * h = 0)
    BY <1>1, <1>2
  <2> QED BY <1>1, <1>2, <2>1, <2>2
<1>6. swap(x) = B * x - (WordMod - 1) * h
  <2>1. WordMod = B * B
    BY DEF WordMod
  <2>2. l * B + h = B * (l + B * h) - (B * B - 1) * h
    <3> HIDE DEF B
    <3> QED BY <1>1, <1>2
  <2> QED BY <1>1, <2>1, <2>2
<1> QED BY <1>1, <1>4, <1>5, <1>6

(* Turning the bytes of a sum round is the sum of the words turned round,  *)
(* for the carry of the high byte is brought round to the low one.         *)
LEMMA SwapAdds ==
    ASSUME NEW x \in Word, NEW y \in Word
    PROVE  swap(add(x, y)) = add(swap(x), swap(y))
<1> DEFINE B == ByteBase
           M == WordMod - 1
           z == add(x, y)
           u == swap(z)
           sx == swap(x)
           sy == swap(y)
           v == add(sx, sy)
<1>1. B \in Nat /\ M \in Nat /\ M > 2
  BY WordModIs
<1>2. x \in 0 .. M /\ y \in 0 .. M /\ sx \in 0 .. M /\ sy \in 0 .. M
  BY SwapIs, WordModIs DEF Word
<1>3. z \in 0 .. M /\ \E e \in {0, 1} : z = x + y - M * e
  <2>1. z \in Word /\ z = IF x + y < WordMod THEN x + y ELSE x + y - (WordMod - 1)
    BY AddIs
  <2>2. z = x + y - M * 0 \/ z = x + y - M * 1
    BY <1>1, <1>2, <2>1
  <2> HIDE DEF z
  <2> QED BY <2>1, <2>2, WordModIs DEF Word
<1>4. v \in 0 .. M /\ \E e \in {0, 1} : v = sx + sy - M * e
  <2>1. v \in Word /\ v = IF sx + sy < WordMod THEN sx + sy ELSE sx + sy - (WordMod - 1)
    BY AddIs, SwapIs
  <2>2. v = sx + sy - M * 0 \/ v = sx + sy - M * 1
    <3> HIDE DEF sx, sy
    <3> QED BY <1>1, <1>2, <2>1
  <2> HIDE DEF v
  <2> QED BY <2>1, <2>2, WordModIs DEF Word
<1>5. /\ z = IF x + y <= M THEN x + y ELSE x + y - M
      /\ v = IF sx + sy <= M THEN sx + sy ELSE sx + sy - M
  <2>1. z = IF x + y < WordMod THEN x + y ELSE x + y - (WordMod - 1)
    BY AddIs
  <2>2. v = IF sx + sy < WordMod THEN sx + sy ELSE sx + sy - (WordMod - 1)
    BY AddIs, SwapIs
  <2>3. (x + y < WordMod <=> x + y <= M) /\ (sx + sy < WordMod <=> sx + sy <= M)
    BY <1>2, WordModIs
  <2> QED BY <2>1, <2>2, <2>3
<1>6. /\ u \in 0 .. M /\ (u = 0 <=> z = 0) /\ (sx = 0 <=> x = 0) /\ (sy = 0 <=> y = 0)
      /\ \E h \in Byte : u = B * z - M * h
      /\ \E h \in Byte : sx = B * x - M * h
      /\ \E h \in Byte : sy = B * y - M * h
  <2>1. z \in Word
    BY AddIs
  <2> HIDE DEF z
  <2>2. u \in Word
    BY <2>1, SwapIs
  <2> QED BY <2>1, <2>2, SwapIs, WordModIs DEF Word
<1> HIDE DEF B, M, z, u, v, sx, sy
<1>7. (z = 0 <=> x = 0 /\ y = 0) /\ (v = 0 <=> sx = 0 /\ sy = 0)
  BY <1>1, <1>2, <1>5
<1>8. u = 0 <=> v = 0
  BY <1>6, <1>7
<1>9. PICK k \in Int : u - v = M * k
  <2>1. PICK e \in {0, 1} : z = x + y - M * e
    BY <1>3
  <2>2. PICK f \in {0, 1} : v = sx + sy - M * f
    BY <1>4
  <2>3. PICK h \in Byte : u = B * z - M * h
    BY <1>6
  <2>4. PICK i \in Byte : sx = B * x - M * i
    BY <1>6
  <2>5. PICK j \in Byte : sy = B * y - M * j
    BY <1>6
  <2>6. e \in Int /\ f \in Int /\ h \in Int /\ i \in Int /\ j \in Int
    BY <2>1, <2>2, ChecksumAssumption DEF Byte
  <2>7. B * (x + y - M * e) - M * h - ((B * x - M * i) + (B * y - M * j) - M * f)
            = M * (((i + j) + f) - h - B * e)
    BY <1>1, <1>2, <2>6
  <2>8. ((i + j) + f) - h - B * e \in Int
    BY <1>1, <2>6
  <2> QED BY <2>1, <2>2, <2>3, <2>4, <2>5, <2>7, <2>8
<1>10. k = 0 \/ k >= 1 \/ k <= -1
  BY <1>9
<1>11. ASSUME k >= 1 PROVE FALSE
  <2>1. M * k >= M
    BY <1>1, <1>9, <1>11
  <2>2. u = M /\ v = 0
    BY <1>1, <1>4, <1>6, <1>9, <2>1
  <2> QED BY <1>1, <1>8, <2>2
<1>12. ASSUME k <= -1 PROVE FALSE
  <2>1. M * k <= -M
    BY <1>1, <1>9, <1>12
  <2>2. u = 0 /\ v = M
    BY <1>1, <1>4, <1>6, <1>9, <2>1
  <2> QED BY <1>1, <1>8, <2>2
<1>13. u = v
  BY <1>1, <1>4, <1>6, <1>9, <1>10, <1>11, <1>12
<1> QED BY <1>13 DEF u, v, z, sx, sy

-----------------------------------------------------------------------------
(* The checksum of data, and of data cut in two *)

\* What a byte at a place adds to a checksum.
Weight(i, x) == IF i % 2 = 1 THEN x ELSE ByteBase * x

\* g is the checksums of the beginnings of d.
Sums(d, g) ==
    /\ g \in [0 .. Len(d) -> Word]
    /\ g[0] = 0
    /\ \A i \in 1 .. Len(d) : g[i] = add(g[i - 1], Weight(i, d[i]))

LEMMA WeightIs ==
    ASSUME NEW i \in Nat, NEW x \in Byte
    PROVE  Weight(i, x) \in 0 .. WordMod - 2 /\ Weight(i, x) \in Word
<1> DEFINE B == ByteBase
<1>1. B \in Nat /\ B > 1 /\ x \in 0 .. B - 1
  BY ChecksumAssumption DEF Byte
<1>2. B * x \in Nat /\ B * x <= B * (B - 1)
  <2> HIDE DEF B
  <2> QED BY <1>1
<1>3. B * (B - 1) = B * B - B
  <2> HIDE DEF B
  <2> QED BY <1>1
<1>4. WordMod = B * B /\ WordMod > 3 /\ WordMod \in Nat
  BY WordModIs DEF WordMod
<1>5. x <= B * x
  <2> HIDE DEF B
  <2> QED BY <1>1
<1> DEFINE bx == B * x
           bb == B * B
<1>6. bx \in Nat /\ bx <= bb - B /\ x <= bx /\ WordMod = bb
  BY <1>2, <1>3, <1>4, <1>5
<1>7. Weight(i, x) = x \/ Weight(i, x) = bx
  BY DEF Weight
<1> HIDE DEF B, bx, bb
<1> QED BY <1>1, <1>4, <1>6, <1>7 DEF Word

LEMMA SumsExist ==
    ASSUME NEW d \in Seq(Byte)
    PROVE  \E g : Sums(d, g)
<1> DEFINE n == Len(d)
           goes(g, k) == /\ g \in [0 .. k -> Word]
                         /\ g[0] = 0
                         /\ \A i \in 1 .. k : g[i] = add(g[i - 1], Weight(i, d[i]))
           S == {k \in 0 .. n : \E g : goes(g, k)}
<1>1. n \in Nat /\ \A i \in 1 .. n : d[i] \in Byte
  OBVIOUS
<1>2. 0 \in S
  <2> DEFINE g == [i \in 0 .. 0 |-> 0]
  <2>1. g \in [0 .. 0 -> Word] /\ g[0] = 0
    BY WordModIs DEF Word
  <2>2. \A i \in 1 .. 0 : g[i] = add(g[i - 1], Weight(i, d[i]))
    OBVIOUS
  <2>3. goes(g, 0)
    BY <2>1, <2>2
  <2>4. 0 \in 0 .. n
    BY <1>1
  <2> HIDE DEF goes, n
  <2> QED BY <2>3, <2>4
<1>3. ASSUME NEW k \in 1 .. n, k - 1 \in S PROVE k \in S
  <2>1. PICK g : goes(g, k - 1)
    BY <1>3
  <2> DEFINE x == add(g[k - 1], Weight(k, d[k]))
             h == [i \in 0 .. k |-> IF i = k THEN x ELSE g[i]]
  <2>2. g[k - 1] \in Word /\ Weight(k, d[k]) \in Word
    <3>1. g[k - 1] \in Word
      BY <2>1
    <3>2. k \in Nat /\ d[k] \in Byte
      BY <1>1
    <3> QED BY <3>1, <3>2, WeightIs
  <2>3. x \in Word
    BY <2>2, AddIs
  <2> HIDE DEF x
  <2>4. h \in [0 .. k -> Word] /\ h[k] = x /\ \A i \in 0 .. k - 1 : h[i] = g[i]
    BY <2>1, <2>3
  <2> HIDE DEF h
  <2>5. h[0] = 0
    BY <2>1, <2>4
  <2>6. ASSUME NEW i \in 1 .. k PROVE h[i] = add(h[i - 1], Weight(i, d[i]))
    <3>1. i - 1 \in 0 .. k - 1 /\ (i = k \/ i \in 1 .. k - 1)
      OBVIOUS
    <3>2. CASE i = k
      BY <2>4, <3>1, <3>2 DEF x
    <3>3. CASE i \in 1 .. k - 1
      BY <2>1, <2>4, <3>1, <3>3
    <3> QED BY <3>1, <3>2, <3>3
  <2>7. goes(h, k)
    BY <2>4, <2>5, <2>6
  <2> HIDE DEF goes
  <2> QED BY <2>7
<1> HIDE DEF S
<1>4. n \in S
  <2>1. 0 .. n \subseteq S
    BY <1>1, <1>2, <1>3, UpTo
  <2> QED BY <1>1, <2>1
<1> QED BY <1>4 DEF S, Sums

(* The checksum of data, two bytes at a time, is that of one byte after    *)
(* the other.                                                              *)
LEMMA CalcIs ==
    ASSUME NEW d \in Seq(Byte), NEW g, Sums(d, g)
    PROVE  calc(d) = g[Len(d)]
<1> DEFINE n == Len(d)
           m == n \div 2
           pair(k) == d[2 * k - 1] + ByteBase * d[2 * k]
           sum == CHOOSE s : s = [k \in 0 .. m |-> IF k = 0 THEN 0 ELSE add(s[k - 1], pair(k))]
           f == [k \in 0 .. m |-> g[2 * k]]
<1>1. n \in Nat /\ m \in Nat /\ 2 * m <= n /\ (n % 2 = 1 => n = 2 * m + 1) /\ (n % 2 # 1 => n = 2 * m)
  OBVIOUS
<1>2. calc(d) = IF n % 2 = 1 THEN add(sum[m], d[n]) ELSE sum[m]
  BY Zenon DEF calc
<1>3. g \in [0 .. n -> Word] /\ g[0] = 0 /\ \A i \in 1 .. n : g[i] = add(g[i - 1], Weight(i, d[i]))
  BY DEF Sums
<1> HIDE DEF m
<1>4. ASSUME NEW k \in 1 .. m PROVE f[k] = add(f[k - 1], pair(k))
  <2> DEFINE i == 2 * k - 1
  <2>1. k \in 0 .. m /\ k - 1 \in 0 .. m /\ i \in 1 .. n /\ i + 1 \in 1 .. n /\ i + 1 = 2 * k /\ i - 1 = 2 * (k - 1)
    BY <1>1
  <2>2. i % 2 = 1 /\ (i + 1) % 2 # 1 /\ (i + 1) - 1 = i
    BY <1>1
  <2>3. f[k] = g[i + 1] /\ f[k - 1] = g[i - 1] /\ pair(k) = d[i] + ByteBase * d[i + 1]
    BY <2>1
  <2> HIDE DEF i, f, pair
  <2>4. g[i] = add(g[i - 1], d[i]) /\ g[i + 1] = add(g[i], ByteBase * d[i + 1])
    BY <1>3, <2>1, <2>2 DEF Weight
  <2>5. d[i] \in Byte /\ d[i + 1] \in Byte /\ g[i - 1] \in Word
    <3>1. \A l \in 1 .. n : d[l] \in Byte
      OBVIOUS
    <3>2. i - 1 \in 0 .. n
      BY <1>1, <2>1
    <3> HIDE DEF n
    <3> QED BY <1>3, <2>1, <3>1, <3>2
  <2>6. d[i] \in Word /\ ByteBase * d[i + 1] \in Word
    <3>1. Weight(i, d[i]) = d[i] /\ Weight(i + 1, d[i + 1]) = ByteBase * d[i + 1]
      BY <2>2 DEF Weight
    <3>2. i \in Nat /\ i + 1 \in Nat
      BY <1>1, <2>1
    <3> QED BY <2>5, <3>1, <3>2, WeightIs
  <2>7. add(d[i], ByteBase * d[i + 1]) = d[i] + ByteBase * d[i + 1]
    <3>1. d[i] + ByteBase * d[i + 1] \in Word
      BY <2>5, BytesMake
    <3>2. d[i] + ByteBase * d[i + 1] < WordMod
      BY <3>1, WordModIs DEF Word
    <3> QED BY <2>6, <3>2, AddIs
  <2> QED BY <2>3, <2>4, <2>5, <2>6, <2>7, AddLaws
<1>5. f = [k \in 0 .. m |-> IF k = 0 THEN 0 ELSE add(f[k - 1], pair(k))]
  <2>1. f[0] = 0
    BY <1>1, <1>3
  <2>2. \A k \in 0 .. m : k = 0 \/ k \in 1 .. m
    BY <1>1
  <2>3. \A k \in 0 .. m : f[k] = IF k = 0 THEN 0 ELSE add(f[k - 1], pair(k))
    <3> HIDE DEF f, pair
    <3> QED BY <1>4, <2>1, <2>2
  <2>4. f = [k \in 0 .. m |-> f[k]]
    OBVIOUS
  <2> HIDE DEF f, pair
  <2> QED BY <2>3, <2>4, Zenon
<1>6. sum = [k \in 0 .. m |-> IF k = 0 THEN 0 ELSE add(sum[k - 1], pair(k))]
  <2> HIDE DEF f, pair
  <2> QED BY <1>5, Zenon
<1> HIDE DEF sum
<1> DEFINE S == {k \in 0 .. m : sum[k] = f[k]}
<1>7. 0 \in S
  <2>1. sum[0] = 0 /\ f[0] = 0
    BY <1>1, <1>3, <1>6
  <2> QED BY <1>1, <2>1
<1>8. ASSUME NEW k \in 1 .. m, k - 1 \in S PROVE k \in S
  <2> HIDE DEF f, pair
  <2>1. sum[k] = add(sum[k - 1], pair(k))
    <3>1. k \in 0 .. m /\ k # 0
      BY <1>1
    <3> QED BY <1>6, <3>1
  <2> QED BY <1>4, <1>8, <2>1
<1> HIDE DEF S
<1>9. sum[m] = g[2 * m]
  <2>1. 0 .. m \subseteq S
    BY <1>1, <1>7, <1>8, UpTo
  <2>2. m \in S
    BY <1>1, <2>1
  <2> QED BY <1>1, <2>2 DEF S
<1>10. CASE n % 2 = 1
  <2>1. n \in 1 .. n /\ n - 1 = 2 * m
    BY <1>1, <1>10
  <2>2. g[n] = add(g[2 * m], d[n])
    BY <1>3, <1>10, <2>1 DEF Weight
  <2> QED BY <1>2, <1>9, <1>10, <2>2
<1>11. CASE n % 2 # 1
  BY <1>1, <1>2, <1>9, <1>11
<1> QED BY <1>10, <1>11

(* The words of one byte.                                                  *)
LEMMA SwapByte ==
    ASSUME NEW x \in Byte
    PROVE  swap(x) = ByteBase * x /\ swap(ByteBase * x) = x
<1> DEFINE B == ByteBase
<1>1. B \in Nat /\ B > 1 /\ x \in 0 .. B - 1 /\ 0 \in Byte
  BY ChecksumAssumption DEF Byte
<1>2. x + B * 0 = x /\ 0 + B * x = B * x
  BY <1>1
<1>3. (x + B * 0) % B = x /\ (x + B * 0) \div B = 0
  BY <1>1, BytesMake
<1>4. (0 + B * x) % B = 0 /\ (0 + B * x) \div B = x
  BY <1>1, BytesMake
<1>5. swap(x) = x * B + 0 /\ swap(B * x) = 0 * B + x
  BY <1>2, <1>3, <1>4 DEF swap
<1>6. x * B + 0 = B * x /\ 0 * B + x = x
  <2> HIDE DEF B
  <2> QED BY <1>1
<1> QED BY <1>5, <1>6

Turned(odd, x) == IF odd THEN swap(x) ELSE x

LEMMA WeightTurned ==
    ASSUME NEW n \in Nat, NEW j \in Nat, NEW x \in Byte
    PROVE  Weight(n + j, x) = Turned(n % 2 = 1, Weight(j, x))
<1>1. CASE n % 2 = 1
  <2>1. (n + j) % 2 = 1 <=> j % 2 # 1
    BY <1>1
  <2> QED BY <1>1, <2>1, SwapByte DEF Weight, Turned
<1>2. CASE n % 2 # 1
  <2>1. (n + j) % 2 = 1 <=> j % 2 = 1
    BY <1>2
  <2> QED BY <1>2, <2>1 DEF Weight, Turned
<1> QED BY <1>1, <1>2

LEMMA TurnedAdds ==
    ASSUME NEW odd, NEW x \in Word, NEW y \in Word
    PROVE  /\ Turned(odd, x) \in Word
           /\ Turned(odd, add(x, y)) = add(Turned(odd, x), Turned(odd, y))
  BY SwapIs, SwapAdds DEF Turned

(* The checksum of data is a word, nothing has the checksum 0, and one     *)
(* byte has its own.                                                       *)
LEMMA CalcWord ==
    ASSUME NEW d \in Seq(Byte)
    PROVE  calc(d) \in Word
<1>1. PICK g : Sums(d, g)
  BY SumsExist
<1>2. calc(d) = g[Len(d)]
  BY <1>1, CalcIs
<1>3. Len(d) \in 0 .. Len(d) /\ g \in [0 .. Len(d) -> Word]
  BY <1>1 DEF Sums
<1> QED BY <1>2, <1>3

LEMMA CalcEmpty == calc(<<>>) = 0
<1>1. <<>> \in Seq(Byte) /\ Len(<<>>) = 0
  OBVIOUS
<1>2. PICK g : Sums(<<>>, g)
  BY <1>1, SumsExist
<1> QED BY <1>1, <1>2, CalcIs DEF Sums

LEMMA CalcOne ==
    ASSUME NEW x \in Byte
    PROVE  calc(<<x>>) = x
<1>1. <<x>> \in Seq(Byte) /\ Len(<<x>>) = 1 /\ <<x>>[1] = x
  OBVIOUS
<1>2. PICK g : Sums(<<x>>, g)
  BY <1>1, SumsExist
<1>3. g[0] = 0 /\ g[1] = add(g[0], Weight(1, x))
  BY <1>1, <1>2 DEF Sums
<1>4. Weight(1, x) = x /\ x \in Word
  BY WeightIs DEF Weight
<1>5. g[1] = x
  BY <1>3, <1>4, AddLaws
<1> QED BY <1>1, <1>2, <1>5, CalcIs

(* The checksum of data cut in two: of the first part, and of the second   *)
(* where it starts.                                                        *)
LEMMA CalcJoined ==
    ASSUME NEW a \in Seq(Byte), NEW b \in Seq(Byte)
    PROVE  calc(a \o b) = addAt(calc(a), calc(b), Len(a) % 2 = 1)
<1> DEFINE n == Len(a)
           m == Len(b)
           odd == n % 2 = 1
           c == a \o b
<1>1. /\ n \in Nat /\ m \in Nat /\ c \in Seq(Byte) /\ Len(c) = n + m
      /\ \A i \in 1 .. n : c[i] = a[i]
      /\ \A j \in 1 .. m : c[n + j] = b[j] /\ b[j] \in Byte
  OBVIOUS
<1>2. PICK g : Sums(a, g)
  BY SumsExist
<1>3. PICK h : Sums(b, h)
  BY SumsExist
<1> DEFINE A == g[n]
           behind(j) == add(A, Turned(odd, h[j]))
           f == [i \in 0 .. n + m |-> IF i <= n THEN g[i] ELSE behind(i - n)]
<1>4. /\ g \in [0 .. n -> Word] /\ g[0] = 0 /\ \A i \in 1 .. n : g[i] = add(g[i - 1], Weight(i, a[i]))
      /\ h \in [0 .. m -> Word] /\ h[0] = 0 /\ \A j \in 1 .. m : h[j] = add(h[j - 1], Weight(j, b[j]))
  BY <1>2, <1>3 DEF Sums
<1> HIDE DEF c, m, n, odd
<1>5. A \in Word /\ 0 \in Word
  <2>1. n \in 0 .. n
    BY <1>1
  <2> QED BY <1>4, <2>1, WordModIs DEF Word
<1> HIDE DEF A
<1>6. \A j \in 0 .. m : behind(j) \in Word
  BY <1>4, <1>5, TurnedAdds, AddIs
<1>7. behind(0) = A
  <2>1. Turned(odd, 0) = 0
    BY <1>5, SwapIs DEF Turned
  <2> QED BY <1>4, <1>5, <2>1, AddLaws
<1> HIDE DEF behind
<1>8. ASSUME NEW j \in 1 .. m PROVE behind(j) = add(behind(j - 1), Weight(n + j, b[j]))
  <2>1. j - 1 \in 0 .. m /\ j \in Nat /\ b[j] \in Byte
    BY <1>1
  <2> DEFINE u == h[j - 1]
             w == Weight(j, b[j])
  <2>2. u \in Word /\ w \in Word /\ h[j] = add(u, w)
    BY <1>4, <2>1, WeightIs
  <2>3. Weight(n + j, b[j]) = Turned(odd, w)
    BY <1>1, <2>1, WeightTurned DEF odd
  <2>4. behind(j) = add(A, Turned(odd, add(u, w))) /\ behind(j - 1) = add(A, Turned(odd, u))
    BY <2>2 DEF behind
  <2> HIDE DEF u, w
  <2>5. Turned(odd, u) \in Word /\ Turned(odd, w) \in Word /\ Turned(odd, add(u, w)) = add(Turned(odd, u), Turned(odd, w))
    BY <2>2, TurnedAdds
  <2> QED BY <1>5, <2>3, <2>4, <2>5, AddLaws
<1>9. /\ f \in [0 .. n + m -> Word]
      /\ \A i \in 0 .. n : f[i] = g[i]
      /\ \A j \in 0 .. m : f[n + j] = behind(j)
  <2>1. \A i \in 0 .. n + m : f[i] \in Word
    <3>1. \A i \in 0 .. n + m : i <= n => g[i] \in Word
      BY <1>1, <1>4
    <3>2. \A i \in 0 .. n + m : ~ (i <= n) => behind(i - n) \in Word
      BY <1>1, <1>6
    <3> QED BY <3>1, <3>2
  <2>2. \A i \in 0 .. n : f[i] = g[i]
    BY <1>1
  <2>3. ASSUME NEW j \in 0 .. m PROVE f[n + j] = behind(j)
    <3>1. CASE j = 0
      <4>1. n + j = n /\ n \in 0 .. n /\ f[n] = g[n]
        BY <1>1, <3>1, <2>2
      <4> QED BY <1>7, <3>1, <4>1 DEF A
    <3>2. CASE j # 0
      <4>1. n + j \in 0 .. n + m /\ ~ (n + j <= n) /\ (n + j) - n = j
        BY <1>1, <3>2
      <4> QED BY <4>1
    <3> QED BY <3>1, <3>2
  <2>4. f \in [0 .. n + m -> Word]
    BY <2>1
  <2> HIDE DEF f
  <2> QED BY <2>2, <2>3, <2>4
<1> HIDE DEF f
<1>10. ASSUME NEW i \in 1 .. n + m PROVE f[i] = add(f[i - 1], Weight(i, c[i]))
  <2>1. CASE i <= n
    <3>1. i \in 1 .. n /\ i - 1 \in 0 .. n /\ i \in 0 .. n
      BY <1>1, <2>1
    <3> QED BY <1>1, <1>4, <1>9, <3>1
  <2>2. CASE ~ (i <= n)
    <3> DEFINE j == i - n
    <3>1. j \in 1 .. m /\ j \in 0 .. m /\ j - 1 \in 0 .. m /\ n + j = i /\ n + (j - 1) = i - 1
      BY <1>1, <2>2
    <3>2. f[i] = behind(j) /\ f[i - 1] = behind(j - 1) /\ c[i] = b[j]
      <4> HIDE DEF j
      <4> QED BY <1>1, <1>9, <3>1
    <3> HIDE DEF j
    <3> QED BY <1>8, <3>1, <3>2
  <2> QED BY <2>1, <2>2
<1>11. Sums(c, f)
  <2>1. f[0] = 0
    BY <1>1, <1>4, <1>9
  <2> QED BY <1>1, <1>9, <1>10, <2>1 DEF Sums
<1>12. calc(c) = f[n + m] /\ calc(a) = A /\ calc(b) = h[m]
  <2>1. calc(c) = f[n + m]
    BY <1>1, <1>11, CalcIs
  <2> QED BY <1>2, <1>3, <2>1, CalcIs DEF A, n, m
<1>13. f[n + m] = behind(m)
  BY <1>1, <1>9
<1> QED BY <1>12, <1>13 DEF c, behind, Turned, addAt, odd, n

-----------------------------------------------------------------------------
(* The bytes of fragments, and the folds of Socket *)

(* Whatever sequences there are have such a one.                           *)
LEMMA AllJoin ==
    ASSUME NEW d \in Seq(Seq(Nat))
    PROVE  \E w \in Seq(Nat) : Joins(d, w)
<1> DEFINE n == Len(d)
           S == {k \in 0 .. n : \E w \in Seq(Nat) : Joins(SubSeq(d, 1, k), w)}
<1>1. n \in Nat /\ \A k \in 1 .. n : d[k] \in Seq(Nat)
  OBVIOUS
<1>2. 0 \in S
  <2>1. SubSeq(d, 1, 0) = <<>> /\ <<>> \in Seq(Nat) /\ 0 \in 0 .. n
    BY <1>1
  <2>2. [i \in 1 .. 0 |-> <<>>] \in [1 .. 0 -> Seq(Nat)] /\ Len(<<>>) = 0 /\ 1 .. 0 = {}
    OBVIOUS
  <2>3. Joins(<<>>, <<>>)
    BY <2>2 DEF Joins
  <2> QED BY <2>1, <2>3
<1>3. ASSUME NEW k \in 1 .. n, k - 1 \in S PROVE k \in S
  <2> DEFINE e == SubSeq(d, 1, k - 1)
  <2>1. PICK w \in Seq(Nat) : Joins(e, w)
    BY <1>3
  <2>2. e \in Seq(Seq(Nat)) /\ d[k] \in Seq(Nat) /\ SubSeq(d, 1, k) = Append(e, d[k])
    BY <1>1
  <2> HIDE DEF e
  <2>3. w \o d[k] \in Seq(Nat) /\ Joins(SubSeq(d, 1, k), w \o d[k])
    <3>1. w \o d[k] \in Seq(Nat)
      BY <2>1, <2>2
    <3>2. Joins(Append(e, d[k]), w \o d[k])
      BY <2>1, <2>2, JoinsOneMore, Zenon
    <3> QED BY <2>2, <3>1, <3>2, Zenon
  <2>4. k \in 0 .. n
    OBVIOUS
  <2> QED BY <2>3, <2>4
<1> HIDE DEF S
<1>4. n \in S
  <2>1. 0 .. n \subseteq S
    BY <1>1, <1>2, <1>3, UpTo
  <2> QED BY <1>1, <2>1
<1>5. SubSeq(d, 1, n) = d
  OBVIOUS
<1> QED BY <1>4, <1>5 DEF S

(* The bytes of fragments, and of one more.                                *)
LEMMA FlatGrows ==
    ASSUME NEW d \in Seq(Seq(Nat)), NEW x \in Seq(Nat)
    PROVE  FlattenSeq(d) \in Seq(Nat) /\ FlattenSeq(Append(d, x)) = FlattenSeq(d) \o x
<1>1. PICK w \in Seq(Nat) : Joins(d, w)
  BY AllJoin
<1>2. Append(d, x) \in Seq(Seq(Nat)) /\ Joins(Append(d, x), w \o x)
  BY <1>1, JoinsOneMore
<1> QED BY <1>1, <1>2, JoinedIsFlat

LEMMA MaxIs ==
    ASSUME NEW n \in Nat, NEW s \in SUBSET (0 .. n), NEW x \in s, \A y \in s : x >= y
    PROVE  Max(s) = x
<1>1. Max(s) \in s /\ \A y \in s : Max(s) >= y
  BY Zenon DEF Max
<1>2. Max(s) >= x /\ x >= Max(s)
  BY <1>1
<1>3. x \in 0 .. n /\ Max(s) \in 0 .. n
  BY <1>1
<1> QED
  BY <1>2, <1>3


\* One step of each fold of Socket.
Fold(kind, acc, x) ==
    CASE kind = "put" -> Put(acc, x)
      [] kind = "copy" -> copyFragment(acc, x)

\* g has what the fold makes of each part of the first k members of seq.
Folds(g, kind, base, seq, k) ==
    g = [s \in SUBSET (1 .. k) |->
            IF s = {} THEN base ELSE Fold(kind, g[s \ {Max(s)}], seq[Max(s)])]

LEMMA FoldExists ==
    ASSUME NEW n \in Nat, NEW kind, NEW base, NEW seq
    PROVE  \E g : Folds(g, kind, base, seq, n)
<1> DEFINE S == {k \in 0 .. n : \E g : Folds(g, kind, base, seq, k)}
<1>1. 0 \in S
  <2> DEFINE g == [s \in SUBSET (1 .. 0) |-> base]
  <2>1. SUBSET (1 .. 0) = {{}}
    OBVIOUS
  <2>2. Folds(g, kind, base, seq, 0)
    BY <2>1 DEF Folds
  <2> QED
    BY <2>2
<1>2. ASSUME NEW k \in 1 .. n, k - 1 \in S PROVE k \in S
  <2>1. PICK g : Folds(g, kind, base, seq, k - 1)
    BY <1>2
  <2> DEFINE value(s, f) == IF s = {} THEN base ELSE Fold(kind, f[s \ {Max(s)}], seq[Max(s)])
             h == [s \in SUBSET (1 .. k) |->
                     IF k \in s THEN Fold(kind, g[s \ {k}], seq[k]) ELSE g[s]]
  <2>2. ASSUME NEW s \in SUBSET (1 .. k) PROVE h[s] = value(s, h)
    <3>1. CASE k \in s
      <4>1. Max(s) = k
        <5>1. k \in Nat /\ \A y \in s : k >= y
          OBVIOUS
        <5> QED
          BY <3>1, <5>1, MaxIs
      <4>2. s \ {k} \in SUBSET (1 .. k) /\ s \ {k} \in SUBSET (1 .. k - 1) /\ k \notin s \ {k}
        OBVIOUS
      <4>3. h[s] = Fold(kind, g[s \ {k}], seq[k])
        BY <3>1
      <4>4. h[s \ {k}] = g[s \ {k}]
        BY <4>2
      <4> HIDE DEF h
      <4> QED
        BY <3>1, <4>1, <4>3, <4>4
    <3>2. CASE k \notin s
      <4>1. s \in SUBSET (1 .. k - 1)
        BY <3>2
      <4>2. s \ {Max(s)} \in SUBSET (1 .. k) /\ k \notin s \ {Max(s)}
        BY <3>2, Zenon
      <4>3. h[s] = g[s] /\ h[s \ {Max(s)}] = g[s \ {Max(s)}]
        BY <3>2, <4>2, Zenon
      <4>4. g[s] = value(s, g)
        BY <2>1, <4>1 DEF Folds
      <4> HIDE DEF h
      <4> QED
        BY <4>3, <4>4
    <3> QED
      BY <3>1, <3>2
  <2>3. h = [s \in SUBSET (1 .. k) |-> h[s]]
    OBVIOUS
  <2> HIDE DEF h
  <2>4. Folds(h, kind, base, seq, k)
    BY <2>2, <2>3 DEF Folds
  <2> QED
    BY <2>4
<1> HIDE DEF S
<1>3. n \in S
  BY <1>1, <1>2, UpTo
<1> QED
  BY <1>3 DEF S

\* f has what the fold makes of the first k members of seq.
Steps(f, kind, base, seq) ==
    /\ f[0] = base
    /\ \A k \in 1 .. Len(seq) : f[k] = Fold(kind, f[k - 1], seq[k])

\* The fold of seq is result.
Folded(kind, base, seq, result) ==
    \E f : Steps(f, kind, base, seq) /\ result = f[Len(seq)]

LEMMA FoldSteps ==
    ASSUME NEW seq, Len(seq) \in Nat, NEW kind, NEW base, NEW g,
           Folds(g, kind, base, seq, Len(seq))
    PROVE  Folded(kind, base, seq, g[1 .. Len(seq)])
<1> DEFINE n == Len(seq)
           f == [k \in 0 .. n |-> g[1 .. k]]
<1>1. f[0] = base
  <2>1. 1 .. 0 = {} /\ 1 .. 0 \in SUBSET (1 .. n) /\ 0 \in 0 .. n
    OBVIOUS
  <2> QED
    BY <2>1 DEF Folds
<1>2. ASSUME NEW k \in 1 .. n PROVE f[k] = Fold(kind, f[k - 1], seq[k])
  <2>1. 1 .. k \in SUBSET (0 .. n) /\ 1 .. k \in SUBSET (1 .. n) /\ k \in 1 .. k /\ \A y \in 1 .. k : k >= y
    OBVIOUS
  <2>2. 1 .. k # {} /\ (1 .. k) \ {k} = 1 .. k - 1
    <3>1. k \in Nat
      OBVIOUS
    <3>2. (1 .. k) \ {k} = 1 .. k - 1
      BY <3>1
    <3> QED
      BY <2>1, <3>2
  <2>3. Max(1 .. k) = k
    BY <2>1, MaxIs
  <2>4. g[1 .. k] = Fold(kind, g[(1 .. k) \ {k}], seq[k])
    BY <2>1, <2>2, <2>3, Zenon DEF Folds
  <2>5. f[k] = g[1 .. k] /\ f[k - 1] = g[1 .. k - 1]
    OBVIOUS
  <2> HIDE DEF f
  <2> QED
    BY <2>2, <2>4, <2>5
<1>3. f[n] = g[1 .. n]
  OBVIOUS
<1> QED
  BY <1>1, <1>2, <1>3 DEF Steps, Folded


LEMMA PutFolded ==
    ASSUME NEW b, NEW datas, Len(datas) \in Nat, DOMAIN datas = 1 .. Len(datas)
    PROVE  Folded("put", b, datas, FoldLeft(Put, b, datas))
<1> DEFINE g == CHOOSE g : g = [s \in SUBSET DOMAIN datas |->
                  IF s = {} THEN b ELSE Put(g[s \ {Max(s)}], datas[Max(s)])]
<1>1. FoldLeft(Put, b, datas) = g[DOMAIN datas]
  BY ZenonT(60) DEF FoldLeft, MapThenFoldSet
<1>2. \A f, s : Fold("put", f[s \ {Max(s)}], datas[Max(s)]) = Put(f[s \ {Max(s)}], datas[Max(s)])
  BY Zenon DEF Fold
<1>3. PICK h : Folds(h, "put", b, datas, Len(datas))
  BY FoldExists
<1>4. h = [s \in SUBSET DOMAIN datas |->
                  IF s = {} THEN b ELSE Put(h[s \ {Max(s)}], datas[Max(s)])]
  BY <1>2, <1>3, Zenon DEF Folds
<1>5. g = [s \in SUBSET DOMAIN datas |->
                  IF s = {} THEN b ELSE Put(g[s \ {Max(s)}], datas[Max(s)])]
  BY <1>4, Zenon
<1> HIDE DEF g
<1>6. Folds(g, "put", b, datas, Len(datas))
  BY <1>2, <1>5, Zenon DEF Folds
<1> QED
  BY <1>1, <1>6, FoldSteps

LEMMA CopyFolded ==
    ASSUME NEW f0, NEW seq, Len(seq) \in Nat, DOMAIN seq = 1 .. Len(seq)
    PROVE  Folded("copy", f0, seq, FoldLeft(copyFragment, f0, seq))
<1> DEFINE g == CHOOSE g : g = [s \in SUBSET DOMAIN seq |->
                  IF s = {} THEN f0 ELSE copyFragment(g[s \ {Max(s)}], seq[Max(s)])]
<1>1. FoldLeft(copyFragment, f0, seq) = g[DOMAIN seq]
  BY ZenonT(60) DEF FoldLeft, MapThenFoldSet
<1>2. \A f, s : Fold("copy", f[s \ {Max(s)}], seq[Max(s)]) = copyFragment(f[s \ {Max(s)}], seq[Max(s)])
  BY Zenon DEF Fold
<1>3. PICK h : Folds(h, "copy", f0, seq, Len(seq))
  BY FoldExists
<1>4. h = [s \in SUBSET DOMAIN seq |->
                  IF s = {} THEN f0 ELSE copyFragment(h[s \ {Max(s)}], seq[Max(s)])]
  BY <1>2, <1>3, Zenon DEF Folds
<1>5. g = [s \in SUBSET DOMAIN seq |->
                  IF s = {} THEN f0 ELSE copyFragment(g[s \ {Max(s)}], seq[Max(s)])]
  BY <1>4, Zenon
<1> HIDE DEF g
<1>6. Folds(g, "copy", f0, seq, Len(seq))
  BY <1>2, <1>5, Zenon DEF Folds
<1> QED
  BY <1>1, <1>6, FoldSteps

-----------------------------------------------------------------------------
(* What writing stores *)

(* Sequences put one behind the other, and cut.                            *)
LEMMA CutBefore ==
    ASSUME NEW S, NEW a \in Seq(S), NEW b \in Seq(S), NEW n \in 0 .. Len(a)
    PROVE  SubSeq(a \o b, 1, n) = SubSeq(a, 1, n)
  OBVIOUS

LEMMA CutBehind ==
    ASSUME NEW S, NEW a \in Seq(S), NEW b \in Seq(S), NEW n \in 0 .. Len(b)
    PROVE  SubSeq(a \o b, 1, Len(a) + n) = a \o SubSeq(b, 1, n)
  OBVIOUS

LEMMA BehindBoth ==
    ASSUME NEW S, NEW a \in Seq(S), NEW b \in Seq(S), NEW c \in Seq(S)
    PROVE  (a \o b) \o c = a \o (b \o c)
  OBVIOUS

LEMMA BytesBehindBoth ==
    \A a, b, c \in Seq(Byte) : (a \o b) \o c = a \o (b \o c)
BY BehindBoth

LEMMA SmallerOf ==
    ASSUME NEW m \in Nat, NEW n \in Nat
    PROVE  Min({m, n}) = IF m <= n THEN m ELSE n
<1>1. \E x \in {m, n} : \A y \in {m, n} : x <= y
  OBVIOUS
<1>2. Min({m, n}) \in {m, n} /\ \A y \in {m, n} : Min({m, n}) <= y
  BY <1>1, Zenon DEF Min
<1> QED BY <1>2

LEMMA LargerOf ==
    ASSUME NEW m \in Int, NEW n \in Int
    PROVE  Max({m, n}) = IF m >= n THEN m ELSE n
<1>1. \E x \in {m, n} : \A y \in {m, n} : x >= y
  OBVIOUS
<1>2. Max({m, n}) \in {m, n} /\ \A y \in {m, n} : Max({m, n}) >= y
  BY <1>1, Zenon DEF Max
<1> QED BY <1>2

\* b holds what was there, base, and of what was written since, w, all that
\* there was room for.
Held(b, base, w) ==
    /\ b \in [fragments : Seq(Seq(Byte)), room : Nat, bytes : Nat]
    /\ b.bytes <= Len(w)
    /\ FlattenSeq(b.fragments) = base \o SubSeq(w, 1, b.bytes)
    /\ b.room > 0 => b.bytes = Len(w)

LEMMA BytesAreNaturals ==
    /\ \A q \in Seq(Byte) : q \in Seq(Nat)
    /\ \A d \in Seq(Seq(Byte)) : d \in Seq(Seq(Nat))
<1>1. ASSUME NEW q \in Seq(Byte) PROVE q \in Seq(Nat)
  BY ChecksumAssumption DEF Byte
<1>2. ASSUME NEW d \in Seq(Seq(Byte)) PROVE d \in Seq(Seq(Nat))
  BY <1>1
<1> QED BY <1>1, <1>2

LEMMA PutHolds ==
    ASSUME NEW base \in Seq(Byte), NEW w \in Seq(Byte), NEW data \in Seq(Byte),
           NEW b, Held(b, base, w)
    PROVE  Held(Put(b, data), base, w \o data)
<1> DEFINE n == Min({Len(data), b.room})
           fragment == SubSeq(data, 1, n)
<1>1. /\ b \in [fragments : Seq(Seq(Byte)), room : Nat, bytes : Nat]
      /\ FlattenSeq(b.fragments) = base \o SubSeq(w, 1, b.bytes)
  BY DEF Held
<1>8. /\ b.bytes <= Len(w) /\ (b.room > 0 => b.bytes = Len(w))
      /\ Len(data) \in Nat /\ Len(w) \in Nat /\ b.room \in Nat /\ b.bytes \in Nat
  <2>1. b.bytes <= Len(w) /\ (b.room > 0 => b.bytes = Len(w))
    BY DEF Held
  <2>2. b.room \in Nat /\ b.bytes \in Nat
    BY <1>1
  <2>3. Len(data) \in Nat /\ Len(w) \in Nat
    OBVIOUS
  <2> QED BY <2>1, <2>2, <2>3
<1>2. n = (IF Len(data) <= b.room THEN Len(data) ELSE b.room) /\ n \in 0 .. Len(data) /\ n <= b.room
  <2>1. n = IF Len(data) <= b.room THEN Len(data) ELSE b.room
    BY <1>8, SmallerOf, Zenon
  <2> HIDE DEF n
  <2> QED BY <1>8, <2>1
<1>3. Put(b, data) = IF fragment = <<>> THEN b
                     ELSE [fragments |-> Append(b.fragments, fragment),
                           room      |-> Max({0, b.room - Len(fragment) - HeaderSize}),
                           bytes     |-> b.bytes + Len(fragment)]
  BY DEF Put
<1> HIDE DEF n
<1>4. fragment \in Seq(Byte) /\ Len(fragment) = n /\ (fragment = <<>> <=> n = 0)
  <2>1. fragment \in Seq(Byte) /\ Len(fragment) = n
    BY <1>2
  <2>2. Len(<<>>) = 0 /\ \A q \in Seq(Byte) : Len(q) = 0 => q = <<>>
    OBVIOUS
  <2> HIDE DEF fragment
  <2> QED BY <2>1, <2>2
<1>5. w \o data \in Seq(Byte) /\ Len(w \o data) = Len(w) + Len(data)
  OBVIOUS
<1> HIDE DEF fragment
<1>6. CASE n = 0
  <2>1. Put(b, data) = b
    BY <1>3, <1>4, <1>6
  <2>2. b.bytes <= Len(w \o data) /\ (b.room > 0 => b.bytes = Len(w \o data))
    BY <1>2, <1>5, <1>6, <1>8
  <2>3. SubSeq(w \o data, 1, b.bytes) = SubSeq(w, 1, b.bytes)
    <3>1. b.bytes \in 0 .. Len(w)
      BY <1>8
    <3> QED BY <3>1, CutBefore
  <2> QED BY <1>1, <2>1, <2>2, <2>3 DEF Held
<1>7. CASE n # 0
  <2> DEFINE room1 == Max({0, b.room - n - HeaderSize})
             put == [fragments |-> Append(b.fragments, fragment), room |-> room1, bytes |-> b.bytes + n]
  <2>1. Put(b, data) = put
    BY <1>3, <1>4, <1>7
  <2>2. b.bytes = Len(w) /\ b.bytes + n \in Nat /\ b.bytes + n <= Len(w \o data)
    BY <1>2, <1>5, <1>7, <1>8
  <2>3. room1 \in Nat /\ (room1 > 0 => b.bytes + n = Len(w \o data))
    <3>1. HeaderSize \in Nat
      BY SocketAssumption
    <3>2. b.room - n - HeaderSize \in Int
      BY <1>2, <1>8, <3>1
    <3>3. room1 = IF 0 >= b.room - n - HeaderSize THEN 0 ELSE b.room - n - HeaderSize
      BY <3>2, LargerOf
    <3> HIDE DEF room1
    <3> DEFINE r == b.room
               left == r - n - HeaderSize
    <3>4. r \in Nat /\ n \in Nat /\ n <= r /\ n <= Len(data) /\ (n # r => n = Len(data))
      BY <1>2, <1>8
    <3>5. room1 = IF 0 >= left THEN 0 ELSE left
      BY <3>3
    <3> HIDE DEF r
    <3>6. room1 \in Nat /\ (room1 > 0 => n = Len(data))
      BY <3>1, <3>4, <3>5
    <3> QED BY <1>5, <2>2, <3>6
  <2>4. Append(b.fragments, fragment) \in Seq(Seq(Byte))
    <3>1. b.fragments \in Seq(Seq(Byte))
      BY <1>1
    <3> QED BY <1>4, <3>1
  <2> HIDE DEF room1
  <2>5. put \in [fragments : Seq(Seq(Byte)), room : Nat, bytes : Nat]
    BY <2>2, <2>3, <2>4
  <2>6. FlattenSeq(Append(b.fragments, fragment)) = base \o SubSeq(w \o data, 1, b.bytes + n)
    <3>1. b.fragments \in Seq(Seq(Nat)) /\ fragment \in Seq(Nat)
      <4>1. b.fragments \in Seq(Seq(Byte))
        BY <1>1
      <4> QED BY <1>4, <4>1, BytesAreNaturals
    <3>2. FlattenSeq(Append(b.fragments, fragment)) = FlattenSeq(b.fragments) \o fragment
      BY <3>1, FlatGrows
    <3>3. SubSeq(w, 1, b.bytes) = w
      BY <2>2
    <3>4. SubSeq(w \o data, 1, b.bytes + n) = w \o fragment
        <4>1. SubSeq(w \o data, 1, Len(w) + n) = w \o SubSeq(data, 1, n)
        BY <1>2, CutBehind
      <4> QED BY <2>2, <4>1 DEF fragment
    <3>5. (base \o w) \o fragment = base \o (w \o fragment)
      <4>1. base \in Seq(Byte) /\ w \in Seq(Byte) /\ fragment \in Seq(Byte)
        BY <1>4
      <4> HIDE DEF fragment
      <4> QED BY <4>1, BytesBehindBoth, Zenon
    <3> QED BY <1>1, <3>2, <3>3, <3>4, <3>5, Zenon
  <2>7. put.fragments = Append(b.fragments, fragment) /\ put.room = room1 /\ put.bytes = b.bytes + n
    OBVIOUS
  <2> HIDE DEF put
  <2>8. Held(put, base, w \o data)
    BY <2>2, <2>3, <2>5, <2>6, <2>7 DEF Held
  <2> QED BY <2>1, <2>8
<1> QED BY <1>6, <1>7

(* The writing of one block, and of two.                                   *)
LEMMA PutOne ==
    ASSUME NEW b, NEW x \in Seq(Byte)
    PROVE  FoldLeft(Put, b, <<x>>) = Put(b, x)
<1> DEFINE datas == <<x>>
<1>1. Len(datas) = 1 /\ DOMAIN datas = 1 .. 1 /\ datas[1] = x
  OBVIOUS
<1>2. Folded("put", b, datas, FoldLeft(Put, b, datas))
  BY <1>1, PutFolded
<1>3. PICK f : f[0] = b /\ f[1] = Fold("put", f[0], x) /\ FoldLeft(Put, b, datas) = f[1]
  BY <1>1, <1>2 DEF Folded, Steps
<1> QED BY <1>3 DEF Fold

LEMMA PutTwo ==
    ASSUME NEW b, NEW x \in Seq(Byte), NEW y \in Seq(Byte)
    PROVE  FoldLeft(Put, b, <<x, y>>) = Put(Put(b, x), y)
<1> DEFINE datas == <<x, y>>
<1>1. Len(datas) = 2 /\ DOMAIN datas = 1 .. 2 /\ datas[1] = x /\ datas[2] = y
  OBVIOUS
<1>2. Folded("put", b, datas, FoldLeft(Put, b, datas))
  BY <1>1, PutFolded
<1>3. PICK f : Steps(f, "put", b, datas) /\ FoldLeft(Put, b, datas) = f[2]
  BY <1>1, <1>2 DEF Folded
<1>4. f[0] = b /\ f[1] = Fold("put", f[0], x) /\ f[2] = Fold("put", f[1], y)
  <2>1. f[0] = b /\ \A k \in 1 .. 2 : f[k] = Fold("put", f[k - 1], datas[k])
    BY <1>1, <1>3 DEF Steps
  <2> HIDE DEF datas
  <2> QED BY <1>1, <2>1
<1> QED BY <1>3, <1>4 DEF Fold

LEMMA FlatBytes ==
    ASSUME NEW d \in Seq(Seq(Byte))
    PROVE  FlattenSeq(d) \in Seq(Byte)
<1> DEFINE n == Len(d)
           S == {k \in 0 .. n : FlattenSeq(SubSeq(d, 1, k)) \in Seq(Byte)}
<1>1. n \in Nat /\ d \in Seq(Seq(Nat)) /\ \A q \in Seq(Byte) : q \in Seq(Nat)
  <2>1. n \in Nat
    OBVIOUS
  <2> QED BY <2>1, BytesAreNaturals
<1>2. 0 \in S
  <2>1. SubSeq(d, 1, 0) = <<>> /\ 0 \in 0 .. n /\ <<>> \in Seq(Byte) /\ Len(<<>>) = 0
    BY <1>1
  <2>2. FlattenSeq(<<>>) = <<>>
    BY <2>1 DEF FlattenSeq
  <2> QED BY <2>1, <2>2
<1>3. ASSUME NEW k \in 1 .. n, k - 1 \in S PROVE k \in S
  <2> DEFINE e == SubSeq(d, 1, k - 1)
  <2>1. e \in Seq(Seq(Byte)) /\ e \in Seq(Seq(Nat)) /\ d[k] \in Seq(Byte) /\ SubSeq(d, 1, k) = Append(e, d[k])
    BY <1>1
  <2>2. FlattenSeq(e) \in Seq(Byte) /\ k \in 0 .. n
    BY <1>3
  <2> HIDE DEF e
  <2>3. d[k] \in Seq(Nat)
    BY <1>1, <2>1
  <2>4. FlattenSeq(Append(e, d[k])) = FlattenSeq(e) \o d[k]
    BY <2>1, <2>3, FlatGrows
  <2>5. FlattenSeq(e) \o d[k] \in Seq(Byte)
    BY <2>1, <2>2
  <2>6. FlattenSeq(SubSeq(d, 1, k)) \in Seq(Byte)
    BY <2>1, <2>4, <2>5, Zenon
  <2> QED BY <2>2, <2>6
<1> HIDE DEF S
<1>4. n \in S
  <2>1. 0 .. n \subseteq S
    BY <1>1, <1>2, <1>3, UpTo
  <2> QED BY <1>1, <2>1
<1>5. SubSeq(d, 1, n) = d
  OBVIOUS
<1> QED BY <1>4, <1>5 DEF S

LEMMA MaxExists ==
    ASSUME NEW n \in Nat, NEW T \in SUBSET (0 .. n), 0 \in T
    PROVE  Max(T) \in T
<1> DEFINE S == {k \in 0 .. n : \E x \in T : x <= k /\ \A y \in T : y <= k => y <= x}
<1>1. 0 \in S
  OBVIOUS
<1>2. ASSUME NEW k \in 1 .. n, k - 1 \in S PROVE k \in S
  <2>1. PICK x \in T : x <= k - 1 /\ \A y \in T : y <= k - 1 => y <= x
    BY <1>2
  <2>2. CASE k \in T
    BY <2>2
  <2>3. CASE k \notin T
    <3>1. \A y \in T : y <= k => y <= x
      <4>1. \A y \in T : y <= k => y <= k - 1
        BY <2>3
      <4> QED BY <2>1, <4>1
    <3>2. x <= k /\ k \in 0 .. n
      BY <2>1
    <3> QED BY <3>1, <3>2
  <2> QED BY <2>2, <2>3
<1> HIDE DEF S
<1>3. n \in S
  <2>1. 0 .. n \subseteq S
    BY <1>1, <1>2, UpTo
  <2> QED BY <2>1
<1>4. \E x \in T : \A y \in T : x >= y
  <2>1. PICK x \in T : \A y \in T : y <= n => y <= x
    BY <1>3 DEF S
  <2>2. \A y \in T : x >= y
    BY <2>1
  <2> QED BY <2>2
<1> QED BY <1>4, Zenon DEF Max

(* No more fragments go into a frame than there are.                       *)
LEMMA FittingIs ==
    ASSUME fragments \in Seq(Seq(Byte)), NEW count \in Nat
    PROVE  Fitting(count) \in 0 .. Len(fragments)
<1> DEFINE m == Min({count, Len(fragments)})
           T == {n \in 0 .. m : Len(FlattenSeq(SubSeq(fragments, 1, n))) <= FrameRoom}
<1>1. Len(fragments) \in Nat
  OBVIOUS
<1>2. m \in Nat /\ m <= Len(fragments)
  <2>1. m = IF count <= Len(fragments) THEN count ELSE Len(fragments)
    BY <1>1, SmallerOf, Zenon
  <2> HIDE DEF m
  <2> QED BY <1>1, <2>1
<1>3. Fitting(count) = Max(T)
  BY DEF Fitting
<1> HIDE DEF m
<1>4. 0 \in T
  <2>1. SubSeq(fragments, 1, 0) = <<>> /\ Len(<<>>) = 0 /\ 0 \in 0 .. m
    BY <1>2
  <2>2. FlattenSeq(<<>>) = <<>>
    BY <2>1 DEF FlattenSeq
  <2>3. FrameRoom \in Nat
    BY SocketAssumption
  <2>4. Len(FlattenSeq(SubSeq(fragments, 1, 0))) <= FrameRoom
    <3>1. Len(FlattenSeq(SubSeq(fragments, 1, 0))) = 0
      BY <2>1, <2>2, Zenon
    <3> QED BY <2>3, <3>1
  <2> QED BY <2>1, <2>4, Zenon
<1>5. T \in SUBSET (0 .. m)
  OBVIOUS
<1> HIDE DEF T
<1>6. Max(T) \in 0 .. m
  BY <1>2, <1>4, <1>5, MaxExists
<1> QED BY <1>1, <1>2, <1>3, <1>6

\* The checksum kept of what is copied is that of the bytes.
Agrees(f) == f.data \in Seq(Byte) /\ f.checksum = calc(f.data)

LEMMA CopyAgrees ==
    ASSUME NEW f, Agrees(f), NEW fragment \in Seq(Byte)
    PROVE  Agrees(copyFragment(f, fragment))
<1>1. f.data \in Seq(Byte) /\ f.checksum = calc(f.data)
  BY DEF Agrees
<1>2. calc(f.data \o fragment) = addAt(f.checksum, calc(fragment), Len(f.data) % 2 = 1)
  BY <1>1, CalcJoined
<1>3. f.data \o fragment \in Seq(Byte)
  BY <1>1
<1> QED BY <1>2, <1>3 DEF Agrees, copyFragment

LEMMA CopiesAgree ==
    ASSUME NEW seq \in Seq(Seq(Byte))
    PROVE  Agrees(FoldLeft(copyFragment, NoFrame, seq))
<1> DEFINE n == Len(seq)
<1>1. n \in Nat /\ DOMAIN seq = 1 .. n /\ \A k \in 1 .. n : seq[k] \in Seq(Byte)
  OBVIOUS
<1>2. Folded("copy", NoFrame, seq, FoldLeft(copyFragment, NoFrame, seq))
  BY <1>1, CopyFolded
<1>3. PICK f : Steps(f, "copy", NoFrame, seq) /\ FoldLeft(copyFragment, NoFrame, seq) = f[n]
  BY <1>2 DEF Folded
<1>4. f[0] = NoFrame /\ \A k \in 1 .. n : f[k] = copyFragment(f[k - 1], seq[k])
  BY <1>3 DEF Steps, Fold
<1> HIDE DEF n
<1> DEFINE S == {k \in 0 .. n : Agrees(f[k])}
<1>5. 0 \in S
  <2>1. Agrees(NoFrame)
    BY CalcEmpty DEF Agrees, NoFrame
  <2> QED BY <1>1, <1>4, <2>1
<1>6. ASSUME NEW k \in 1 .. n, k - 1 \in S PROVE k \in S
  <2>1. Agrees(f[k - 1]) /\ seq[k] \in Seq(Byte) /\ f[k] = copyFragment(f[k - 1], seq[k]) /\ k \in 0 .. n
    BY <1>1, <1>4, <1>6
  <2> QED BY <2>1, CopyAgrees
<1> HIDE DEF S
<1>7. n \in S
  <2>1. 0 .. n \subseteq S
    BY <1>1, <1>5, <1>6, UpTo
  <2> QED BY <1>1, <2>1
<1> QED BY <1>3, <1>7 DEF S

-----------------------------------------------------------------------------
(* The invariant of Socket *)

\* done is what was written, buf what is not written yet, of what the call was
\* asked to write.
Writes ==
    /\ writing \in BOOLEAN
    /\ buf \in Seq(Byte)
    /\ ~writing => buf = <<>>
    /\ before \in Seq(Byte)
    /\ \E done \in Seq(Byte) :
            /\ wanted = done \o buf
            /\ Held([fragments |-> fragments, room |-> room, bytes |-> bytes], before, done)

Intact == Writes /\ Agrees(frame)

(* A call begins with what the buffer holds.                               *)
LEMMA CallBegins ==
    ASSUME NEW d \in Seq(Seq(Byte)), NEW r \in Nat
    PROVE  /\ FlattenSeq(d) \in Seq(Byte)
           /\ Held([fragments |-> d, room |-> r, bytes |-> 0], FlattenSeq(d), <<>>)
<1> DEFINE F == FlattenSeq(d)
           b == [fragments |-> d, room |-> r, bytes |-> 0]
<1>1. F \in Seq(Byte)
  BY FlatBytes
<1>2. b \in [fragments : Seq(Seq(Byte)), room : Nat, bytes : Nat]
  OBVIOUS
<1>3. b.bytes = 0 /\ b.fragments = d /\ Len(<<>>) = 0
  OBVIOUS
<1>4. F \o SubSeq(<<>>, 1, 0) = F
  <2> HIDE DEF F
  <2> QED BY <1>1
<1> HIDE DEF b
<1>5. Held(b, F, <<>>)
  BY <1>2, <1>3, <1>4 DEF Held
<1> QED BY <1>1, <1>5 DEF b

LEMMA HeldTypes ==
    ASSUME Writes
    PROVE  fragments \in Seq(Seq(Byte)) /\ room \in Nat /\ bytes \in Nat /\ wanted \in Seq(Byte)
<1> DEFINE b == [fragments |-> fragments, room |-> room, bytes |-> bytes]
<1>1. PICK done \in Seq(Byte) : wanted = done \o buf /\ Held(b, before, done)
  BY DEF Writes
<1>2. b \in [fragments : Seq(Seq(Byte)), room : Nat, bytes : Nat]
  BY <1>1 DEF Held
<1>3. b.fragments \in Seq(Seq(Byte)) /\ b.room \in Nat /\ b.bytes \in Nat
  <2> HIDE DEF b
  <2> QED BY <1>2
<1>4. buf \in Seq(Byte)
  BY DEF Writes
<1> QED BY <1>1, <1>3, <1>4

LEMMA IntactInit == SocketInit => Intact
<1> SUFFICES ASSUME SocketInit PROVE Intact
  OBVIOUS
<1>1. /\ fragments = <<>> /\ room \in Nat /\ writing = FALSE /\ buf = <<>> /\ bytes = 0
      /\ frame = NoFrame /\ before = <<>> /\ wanted = <<>>
  <2>1. \A r \in 0 .. MaxRoom : r \in Nat
    BY SocketAssumption
  <2> QED BY <2>1 DEF SocketInit
<1>2. FlattenSeq(<<>>) = <<>> /\ <<>> \in Seq(Seq(Byte)) /\ <<>> \in Seq(Byte) /\ <<>> \o <<>> = <<>>
  <2>1. Len(<<>>) = 0
    OBVIOUS
  <2>2. FlattenSeq(<<>>) = <<>>
    BY <2>1 DEF FlattenSeq
  <2> QED BY <2>2
<1>3. Held([fragments |-> <<>>, room |-> room, bytes |-> 0], <<>>, <<>>)
  BY <1>1, <1>2, CallBegins
<1>4. Agrees(NoFrame)
  BY <1>2, CalcEmpty DEF Agrees, NoFrame
<1>5. Writes
  BY <1>1, <1>2, <1>3 DEF Writes
<1> QED BY <1>1, <1>4, <1>5 DEF Intact

(* A block is written behind what the call has written before, and a       *)
(* second behind the first.                                                *)
LEMMA OnePut ==
    ASSUME NEW base \in Seq(Byte), NEW done \in Seq(Byte), NEW n, NEW x \in Seq(Byte),
           Held([fragments |-> fragments, room |-> room, bytes |-> n], base, done),
           PutAll(n, <<x>>)
    PROVE  Held([fragments |-> fragments', room |-> room', bytes |-> bytes'], base, done \o x)
<1> DEFINE b == [fragments |-> fragments, room |-> room, bytes |-> n]
           c == Put(b, x)
<1>1. c = FoldLeft(Put, b, <<x>>)
  BY PutOne
<1>2. fragments' = c.fragments /\ room' = c.room /\ bytes' = c.bytes
  BY <1>1 DEF PutAll
<1>3. Held(c, base, done \o x)
  BY PutHolds
<1>4. c \in [fragments : Seq(Seq(Byte)), room : Nat, bytes : Nat]
  BY <1>3 DEF Held
<1>5. c = [fragments |-> c.fragments, room |-> c.room, bytes |-> c.bytes]
  <2> HIDE DEF c
  <2> QED BY <1>4
<1> QED BY <1>2, <1>3, <1>5

LEMMA TwoPut ==
    ASSUME NEW base \in Seq(Byte), NEW done \in Seq(Byte), NEW n, NEW x \in Seq(Byte), NEW y \in Seq(Byte),
           Held([fragments |-> fragments, room |-> room, bytes |-> n], base, done),
           PutAll(n, <<x, y>>)
    PROVE  Held([fragments |-> fragments', room |-> room', bytes |-> bytes'], base, (done \o x) \o y)
<1> DEFINE b == [fragments |-> fragments, room |-> room, bytes |-> n]
           c == Put(Put(b, x), y)
<1>1. c = FoldLeft(Put, b, <<x, y>>)
  BY PutTwo
<1>2. fragments' = c.fragments /\ room' = c.room /\ bytes' = c.bytes
  BY <1>1 DEF PutAll
<1>3. Held(c, base, (done \o x) \o y)
  <2>1. done \o x \in Seq(Byte)
    OBVIOUS
  <2>2. Held(Put(b, x), base, done \o x)
    BY PutHolds
  <2> HIDE DEF b
  <2> QED BY <2>1, <2>2, PutHolds
<1>4. c \in [fragments : Seq(Seq(Byte)), room : Nat, bytes : Nat]
  BY <1>3 DEF Held
<1>5. c = [fragments |-> c.fragments, room |-> c.room, bytes |-> c.bytes]
  <2> HIDE DEF c
  <2> QED BY <1>4
<1> QED BY <1>2, <1>3, <1>5

LEMMA AppendBehind ==
    ASSUME NEW a \in Seq(Byte), NEW b \in Seq(Byte), NEW c \in Byte
    PROVE  Append(b, c) \in Seq(Byte) /\ Append(a \o b, c) = a \o Append(b, c)
<1> DEFINE u == Append(a \o b, c)
           v == a \o Append(b, c)
<1>1. /\ a \o b \in Seq(Byte) /\ Append(b, c) \in Seq(Byte) /\ Len(a) \in Nat /\ Len(b) \in Nat
      /\ Len(a \o b) = Len(a) + Len(b) /\ Len(Append(b, c)) = Len(b) + 1
  OBVIOUS
<1>2. u \in Seq(Byte) /\ v \in Seq(Byte) /\ Len(u) = Len(a) + Len(b) + 1 /\ Len(v) = Len(a) + Len(b) + 1
  BY <1>1
<1>3. ASSUME NEW i \in 1 .. Len(a) + Len(b) + 1 PROVE u[i] = v[i]
  BY <1>1
<1> HIDE DEF u, v
<1>4. u = v
  BY <1>1, <1>2, <1>3
<1> QED BY <1>1, <1>4 DEF u, v

LEMMA ArgumentIsBytes ==
    ASSUME NEW x \in Argument
    PROVE  x \in Seq(Byte)
<1>1. PICK n \in 0 .. MaxArgument : x \in [1 .. n -> Byte]
  BY DEF Argument
<1>2. n \in Nat
  BY <1>1, SocketAssumption
<1> QED BY <1>1, <1>2

LEMMA IntactStep == Intact /\ [SocketNext]_socketVars => Intact'
<1> SUFFICES ASSUME Intact, [SocketNext]_socketVars PROVE Intact'
  OBVIOUS
<1> DEFINE now == [fragments |-> fragments, room |-> room, bytes |-> bytes]
           then == [fragments |-> fragments', room |-> room', bytes |-> bytes']
<1>1. /\ writing \in BOOLEAN /\ buf \in Seq(Byte) /\ (~writing => buf = <<>>) /\ before \in Seq(Byte)
      /\ Agrees(frame) /\ Agrees(NoFrame)
  BY CalcEmpty DEF Intact, Writes, Agrees, NoFrame
<1>2. PICK done \in Seq(Byte) : wanted = done \o buf /\ Held(now, before, done)
  BY DEF Intact, Writes
<1>3. fragments \in Seq(Seq(Byte)) /\ room \in Nat /\ bytes \in Nat /\ wanted \in Seq(Byte)
  BY HeldTypes DEF Intact
<1>4. /\ FlattenSeq(fragments) \in Seq(Byte)
      /\ Held([fragments |-> fragments, room |-> room, bytes |-> 0], FlattenSeq(fragments), <<>>)
  BY <1>3, CallBegins
<1>5. <<>> \in Seq(Byte) /\ \A x \in Seq(Byte) : <<>> \o x = x /\ x \o <<>> = x
  OBVIOUS
<1>6. ASSUME writing' \in BOOLEAN, buf' \in Seq(Byte), ~writing' => buf' = <<>>, before' \in Seq(Byte),
             NEW d \in Seq(Byte), wanted' = d \o buf', Held(then, before', d), Agrees(frame')
      PROVE  Intact'
  <2>1. Writes'
    BY <1>6 DEF Writes
  <2>2. Agrees(frame)'
    BY <1>6 DEF Agrees
  <2> QED BY <2>1, <2>2 DEF Intact
<1> HIDE DEF now, then
<1>7. ASSUME NEW x \in Argument, writeData(x) PROVE Intact'
  <2>1. /\ PutAll(0, <<x>>) /\ before' = FlattenSeq(fragments) /\ wanted' = x /\ frame' = NoFrame
        /\ writing' = writing /\ buf' = buf /\ ~writing
    BY <1>7 DEF writeData
  <2>2. x \in Seq(Byte)
    BY ArgumentIsBytes
  <2>3. Held(then, FlattenSeq(fragments), <<>> \o x)
    BY <1>4, <1>5, <2>1, <2>2, OnePut DEF then
  <2> QED BY <1>1, <1>4, <1>5, <1>6, <2>1, <2>2, <2>3
<1>8. ASSUME patternBegin PROVE Intact'
  <2>1. /\ before' = FlattenSeq(fragments) /\ wanted' = <<>> /\ frame' = NoFrame /\ bytes' = 0
        /\ writing' = TRUE /\ buf' = <<>> /\ fragments' = fragments /\ room' = room
    BY <1>8 DEF patternBegin
  <2>2. Held(then, FlattenSeq(fragments), <<>>)
    BY <1>4, <2>1 DEF then
  <2> QED BY <1>1, <1>4, <1>5, <1>6, <2>1, <2>2
<1>9. ASSUME NEW c \in Byte, patternChar(c) PROVE Intact'
  <2>1. writing /\ writing' = writing /\ frame' = frame /\ before' = before /\ wanted' = Append(wanted, c)
    BY <1>9 DEF patternChar
  <2>2. Append(buf, c) \in Seq(Byte) /\ Append(wanted, c) = done \o Append(buf, c)
    <3>1. Append(buf, c) \in Seq(Byte) /\ Append(done \o buf, c) = done \o Append(buf, c)
      BY <1>1, AppendBehind
    <3> QED BY <1>2, <3>1
  <2>3. CASE PutAll(bytes, <<Append(buf, c)>>) /\ buf' = <<>>
    <3>1. Held(then, before, done \o Append(buf, c))
      BY <1>1, <1>2, <2>2, <2>3, OnePut DEF now, then
    <3>2. done \o Append(buf, c) \in Seq(Byte)
      BY <2>2
    <3> QED BY <1>1, <1>5, <1>6, <2>1, <2>2, <2>3, <3>1, <3>2
  <2>4. CASE buf' = Append(buf, c) /\ UNCHANGED stored
    <3>1. Held(then, before, done)
      BY <1>2, <2>4 DEF now, then, stored
    <3> QED BY <1>1, <1>6, <2>1, <2>2, <2>4, <3>1
  <2> QED BY <1>9, <2>3, <2>4 DEF patternChar
<1>10. ASSUME NEW x \in Argument, substitute(x) PROVE Intact'
  <2>1. /\ writing /\ writing' = writing /\ frame' = frame /\ before' = before /\ wanted' = wanted \o x
        /\ PutAll(bytes, <<buf, x>>) /\ buf' = <<>>
    BY <1>10 DEF substitute
  <2>2. x \in Seq(Byte)
    BY ArgumentIsBytes
  <2>3. Held(then, before, (done \o buf) \o x)
    BY <1>1, <1>2, <2>1, <2>2, TwoPut DEF now, then
  <2>4. (done \o buf) \o x \in Seq(Byte)
    BY <1>1, <2>2
  <2> QED BY <1>1, <1>2, <1>5, <1>6, <2>1, <2>3, <2>4
<1>11. ASSUME patternEnd PROVE Intact'
  <2>1. /\ writing' = FALSE /\ frame' = frame /\ before' = before /\ wanted' = wanted
        /\ PutAll(bytes, <<buf>>) /\ buf' = <<>>
    BY <1>11 DEF patternEnd
  <2>2. Held(then, before, done \o buf)
    BY <1>1, <1>2, <2>1, OnePut DEF now, then
  <2>3. done \o buf \in Seq(Byte)
    BY <1>1
  <2> QED BY <1>1, <1>2, <1>5, <1>6, <2>1, <2>2, <2>3
<1>12. ASSUME NEW count \in 1 .. Len(fragments), fillTxBuffer(count) PROVE Intact'
  <2> DEFINE seq == SubSeq(fragments, 1, Fitting(count))
  <2>1. /\ frame' = FoldLeft(copyFragment, NoFrame, seq)
        /\ before' = FlattenSeq(fragments) /\ wanted' = <<>> /\ bytes' = 0
        /\ writing' = writing /\ buf' = buf /\ fragments' = fragments /\ room' = room /\ ~writing
    BY <1>12 DEF fillTxBuffer
  <2>2. seq \in Seq(Seq(Byte))
    <3>1. Fitting(count) \in 0 .. Len(fragments)
      BY <1>3, FittingIs
    <3> QED BY <1>3, <3>1
  <2> HIDE DEF seq
  <2>3. Agrees(frame')
    BY <2>1, <2>2, CopiesAgree
  <2>4. Held(then, FlattenSeq(fragments), <<>>)
    BY <1>4, <2>1 DEF then
  <2> QED BY <1>1, <1>4, <1>5, <1>6, <2>1, <2>3, <2>4
<1>13. ASSUME bufferChanges PROVE Intact'
  <2>1. /\ ~writing /\ wanted' = <<>> /\ bytes' = 0 /\ frame' = NoFrame
        /\ writing' = writing /\ buf' = buf
    BY <1>13 DEF bufferChanges
  <2>2. PICK n \in 0 .. Len(fragments), r \in 0 .. MaxRoom :
            /\ fragments' = SubSeq(fragments, n + 1, Len(fragments))
            /\ room' = r
            /\ before' = FlattenSeq(SubSeq(fragments, n + 1, Len(fragments)))
    BY <1>13 DEF bufferChanges
  <2> DEFINE kept == SubSeq(fragments, n + 1, Len(fragments))
  <2>3. kept \in Seq(Seq(Byte))
    BY <1>3, <2>2
  <2>4. r \in Nat
    BY <2>2, SocketAssumption
  <2>5. fragments' = kept /\ before' = FlattenSeq(kept)
    BY <2>2
  <2> HIDE DEF kept
  <2>6. FlattenSeq(kept) \in Seq(Byte) /\ Held(then, FlattenSeq(kept), <<>>)
    BY <2>1, <2>2, <2>3, <2>4, <2>5, CallBegins DEF then
  <2> QED BY <1>1, <1>5, <1>6, <2>1, <2>5, <2>6
<1>14. ASSUME UNCHANGED socketVars PROVE Intact'
  <2>1. then = now
    BY <1>14 DEF then, now, socketVars
  <2> QED BY <1>1, <1>2, <1>6, <1>14, <2>1 DEF socketVars
<1> QED BY <1>7, <1>8, <1>9, <1>10, <1>11, <1>12, <1>13, <1>14 DEF SocketNext

LEMMA IntactAlways == SocketSpec => []Intact
<1> QED BY IntactInit, IntactStep, PTL DEF SocketSpec

(* A call stores what it was asked to write, in order and nothing else,    *)
(* and leaves out an end only.                                             *)
THEOREM WritesAreStored == SocketSpec => []PatternWritten
<1>1. Intact => PatternWritten
  <2> SUFFICES ASSUME Intact PROVE PatternWritten
    OBVIOUS
  <2> DEFINE now == [fragments |-> fragments, room |-> room, bytes |-> bytes]
  <2>1. PICK done \in Seq(Byte) : wanted = done \o buf /\ Held(now, before, done)
    BY DEF Intact, Writes
  <2>2. now.fragments = fragments /\ now.room = room /\ now.bytes = bytes
    OBVIOUS
  <2> HIDE DEF now
  <2>3. /\ bytes <= Len(done) /\ FlattenSeq(fragments) = before \o SubSeq(done, 1, bytes)
        /\ (room > 0 => bytes = Len(done))
    BY <2>1, <2>2 DEF Held
  <2>4. bytes \in 0 .. Len(done) /\ buf \in Seq(Byte)
    <3>1. Writes /\ buf \in Seq(Byte)
      BY Zenon DEF Intact, Writes
    <3>2. bytes \in Nat
      BY <3>1, HeldTypes
    <3>3. Len(done) \in Nat
      OBVIOUS
    <3> QED BY <2>3, <3>1, <3>2, <3>3
  <2>5. SubSeq(wanted, 1, bytes) = SubSeq(done, 1, bytes)
    BY <2>1, <2>4, CutBefore
  <2>6. Len(wanted) = Len(done) + Len(buf)
    BY <2>1, <2>4
  <2> QED BY <2>3, <2>5, <2>6 DEF PatternWritten
<1> QED BY <1>1, IntactAlways, PTL

(* However the payload was cut into fragments, the combined checksum is    *)
(* that of the bytes that go out.                                          *)
THEOREM ChecksumsCombine == SocketSpec => []ChecksumOfFrame
<1>1. Intact => ChecksumOfFrame
  BY DEF Intact, Agrees, ChecksumOfFrame
<1> QED BY <1>1, IntactAlways, PTL

-----------------------------------------------------------------------------
(* What is sent, and what is made of it *)

(* The pseudo header may say any length.                                   *)
LEMMA AddIsWord ==
    ASSUME NEW a \in Nat, NEW b \in Nat
    PROVE  add(a, b) \in Word
<1> DEFINE W == WordMod
           s == (a + b) % W
<1>1. W \in Nat /\ W > 3
  BY WordModIs
<1>2. add(a, b) = IF s < b THEN (s + 1) % W ELSE s
  BY DEF add
<1> HIDE DEF W
<1>3. a + b \in Nat
  OBVIOUS
<1>4. s \in 0 .. W - 1
  BY <1>1, <1>3
<1> HIDE DEF s
<1>5. (s + 1) % W \in 0 .. W - 1
  <2>1. s + 1 \in Nat
    BY <1>1, <1>4
  <2> QED BY <1>1, <2>1
<1> QED BY <1>2, <1>4, <1>5 DEF Word, W

LEMMA CalcFour ==
    ASSUME NEW x \in Nat, NEW y \in Nat, NEW z \in Nat, NEW w \in Nat
    PROVE  calc(<<x, y, z, w>>) \in Word
<1> DEFINE d == <<x, y, z, w>>
           pair(k) == d[2 * k - 1] + ByteBase * d[2 * k]
           sum == CHOOSE s : s = [k \in 0 .. 2 |-> IF k = 0 THEN 0 ELSE add(s[k - 1], pair(k))]
           f == [k \in 0 .. 2 |-> IF k = 0 THEN 0 ELSE IF k = 1 THEN add(0, pair(1)) ELSE add(add(0, pair(1)), pair(2))]
<1>1. Len(d) = 4 /\ 4 \div 2 = 2 /\ 4 % 2 # 1
  OBVIOUS
<1>2. calc(d) = sum[2]
  <2>1. calc(d) = IF Len(d) % 2 = 1
                  THEN add((CHOOSE s : s = [k \in 0 .. Len(d) \div 2 |-> IF k = 0 THEN 0 ELSE add(s[k - 1], pair(k))])[Len(d) \div 2], d[Len(d)])
                  ELSE (CHOOSE s : s = [k \in 0 .. Len(d) \div 2 |-> IF k = 0 THEN 0 ELSE add(s[k - 1], pair(k))])[Len(d) \div 2]
    BY Zenon DEF calc
  <2> HIDE DEF d
  <2> QED BY <1>1, <2>1, Zenon
<1>3. pair(1) \in Nat /\ pair(2) \in Nat
  <2>1. d[1] = x /\ d[2] = y /\ d[3] = z /\ d[4] = w
    OBVIOUS
  <2> HIDE DEF d
  <2>2. pair(1) = x + ByteBase * y /\ pair(2) = z + ByteBase * w
    BY <2>1
  <2>3. ByteBase * y \in Nat /\ ByteBase * w \in Nat
    BY WordModIs
  <2> HIDE DEF pair
  <2> QED BY <2>2, <2>3
<1> HIDE DEF d, pair
<1>4. f = [k \in 0 .. 2 |-> IF k = 0 THEN 0 ELSE add(f[k - 1], pair(k))]
  <2>1. f[0] = 0 /\ f[1] = add(f[0], pair(1)) /\ f[2] = add(f[1], pair(2))
    OBVIOUS
  <2>2. f = [k \in 0 .. 2 |-> f[k]]
    OBVIOUS
  <2> HIDE DEF f
  <2>3. \A k \in 0 .. 2 : f[k] = IF k = 0 THEN 0 ELSE add(f[k - 1], pair(k))
    <3>1. \A k \in 0 .. 2 : k = 0 \/ k = 1 \/ k = 2
      OBVIOUS
    <3> QED BY <2>1, <3>1
  <2> QED BY <2>2, <2>3, Zenon
<1> HIDE DEF f
<1>5. sum = [k \in 0 .. 2 |-> IF k = 0 THEN 0 ELSE add(sum[k - 1], pair(k))]
  BY <1>4, Zenon
<1> HIDE DEF sum
<1>6. sum[0] = 0 /\ sum[1] = add(sum[0], pair(1)) /\ sum[2] = add(sum[1], pair(2))
  BY <1>5
<1>7. sum[1] \in Word /\ \A u \in Word : u \in Nat
  BY <1>3, <1>6, AddIsWord, WordModIs DEF Word
<1>8. sum[2] \in Word
  BY <1>3, <1>6, <1>7, AddIsWord
<1> QED BY <1>2, <1>8 DEF d

LEMMA JoinedIs ==
    ASSUME NEW a \in Seq(Byte), NEW b \in Seq(Byte)
    PROVE  /\ a \o b \in Seq(Byte) /\ Len(a \o b) = Len(a) + Len(b)
           /\ \A k \in 1 .. Len(a) : (a \o b)[k] = a[k]
           /\ \A k \in 1 .. Len(b) : (a \o b)[Len(a) + k] = b[k]
  OBVIOUS

LEMMA CalcTwo ==
    ASSUME NEW x \in Byte, NEW y \in Byte
    PROVE  calc(<<x, y>>) = x + ByteBase * y
<1>1. <<x>> \in Seq(Byte) /\ <<y>> \in Seq(Byte) /\ <<x>> \o <<y>> = <<x, y>> /\ Len(<<x>>) = 1 /\ 1 % 2 = 1
  <2>1. <<x>> \in Seq(Byte) /\ <<y>> \in Seq(Byte) /\ Len(<<x>>) = 1
    OBVIOUS
  <2>2. <<x>> \o <<y>> = <<x, y>>
    <3> DEFINE c == <<x>> \o <<y>>
               e == <<x, y>>
    <3>1. /\ c \in Seq(Byte) /\ Len(c) = Len(<<x>>) + Len(<<y>>)
          /\ \A k \in 1 .. Len(<<x>>) : c[k] = <<x>>[k]
          /\ \A k \in 1 .. Len(<<y>>) : c[Len(<<x>>) + k] = <<y>>[k]
      BY <2>1, JoinedIs, Zenon
    <3>2. Len(<<x>>) = 1 /\ Len(<<y>>) = 1 /\ <<x>>[1] = x /\ <<y>>[1] = y
      OBVIOUS
    <3>3. e \in Seq(Byte) /\ Len(e) = 2 /\ e[1] = x /\ e[2] = y
      OBVIOUS
    <3> HIDE DEF c, e
    <3>4. Len(c) = 2 /\ c[1] = x /\ c[2] = y
      <4>1. c[1] = <<x>>[1]
        <5>1. 1 \in 1 .. Len(<<x>>)
          BY <3>2
        <5> QED BY <3>1, <5>1, Zenon
      <4>2. c[Len(<<x>>) + 1] = <<y>>[1]
        <5>1. 1 \in 1 .. Len(<<y>>)
          BY <3>2
        <5> QED BY <3>1, <5>1, Zenon
      <4>3. Len(<<x>>) + 1 = 2 /\ Len(<<x>>) + Len(<<y>>) = 2
        BY <3>2
      <4> QED BY <3>1, <3>2, <4>1, <4>2, <4>3, Zenon
    <3>5. \A k \in 1 .. 2 : c[k] = e[k]
      BY <3>3, <3>4
    <3>6. c = e
      BY <3>1, <3>3, <3>4, <3>5
    <3> QED BY <3>6 DEF c, e
  <2>3. 1 % 2 = 1
    OBVIOUS
  <2> QED BY <2>1, <2>2, <2>3
<1>2. calc(<<x>> \o <<y>>) = addAt(calc(<<x>>), calc(<<y>>), Len(<<x>>) % 2 = 1)
  BY <1>1, CalcJoined
<1>3. calc(<<x, y>>) = addAt(x, y, TRUE)
  BY <1>1, <1>2, CalcOne
<1>4. calc(<<x, y>>) = add(x, ByteBase * y)
  BY <1>3, SwapByte DEF addAt
<1>5. x \in Word /\ ByteBase * y \in Word
  <2>1. Weight(1, x) = x /\ Weight(2, y) = ByteBase * y
    BY DEF Weight
  <2> QED BY <2>1, WeightIs
<1>6. x + ByteBase * y \in Word
  BY BytesMake
<1>7. x + ByteBase * y < WordMod
  BY <1>6, WordModIs DEF Word
<1> QED BY <1>4, <1>5, <1>7, AddIs

(* One byte of data is one word of its checksum.                           *)
LEMMA OneByte ==
    ASSUME NEW s \in Seq(Byte), NEW i \in 1 .. Len(s)
    PROVE  \E r \in Word : \A x \in Byte :
                /\ [s EXCEPT ![i] = x] \in Seq(Byte) /\ Len([s EXCEPT ![i] = x]) = Len(s)
                /\ calc([s EXCEPT ![i] = x]) = add(r, Weight(i, x))
<1> DEFINE n == i - 1
           u == SubSeq(s, 1, n)
           v == SubSeq(s, i + 1, Len(s))
           behind == Turned(i % 2 = 1, calc(v))
           r == add(calc(u), behind)
<1>1. /\ n \in Nat /\ i = n + 1 /\ i \in Nat /\ Len(s) \in Nat
      /\ u \in Seq(Byte) /\ Len(u) = n /\ v \in Seq(Byte)
  OBVIOUS
<1>2. calc(u) \in Word /\ behind \in Word /\ r \in Word
  <2>1. calc(u) \in Word /\ calc(v) \in Word
    BY <1>1, CalcWord
  <2> HIDE DEF u, v
  <2>2. behind \in Word
    BY <2>1, TurnedAdds
  <2> HIDE DEF behind
  <2> QED BY <2>1, <2>2, AddIs
<1>3. ASSUME NEW x \in Byte
      PROVE  /\ [s EXCEPT ![i] = x] \in Seq(Byte) /\ Len([s EXCEPT ![i] = x]) = Len(s)
             /\ calc([s EXCEPT ![i] = x]) = add(r, Weight(i, x))
  <2> DEFINE t == [s EXCEPT ![i] = x]
             w == u \o <<x>>
  <2>1. t \in Seq(Byte) /\ Len(t) = Len(s)
    OBVIOUS
  <2>2. t = w \o v
    <3>1. /\ w \in Seq(Byte) /\ Len(w) = i /\ w[i] = x /\ \A k \in 1 .. n : w[k] = s[k]
          /\ Len(v) = Len(s) - i /\ \A k \in 1 .. Len(s) - i : v[k] = s[i + k]
      <4>1. Len(w) = i /\ w \in Seq(Byte)
        BY <1>1
      <4>2. w[i] = x
        BY <1>1
      <4>3. \A k \in 1 .. n : w[k] = s[k]
        BY <1>1
      <4>4. Len(v) = Len(s) - i /\ \A k \in 1 .. Len(s) - i : v[k] = s[i + k]
        OBVIOUS
      <4> QED BY <4>1, <4>2, <4>3, <4>4
    <3>2. /\ t \in Seq(Byte) /\ Len(t) = Len(s) /\ t[i] = x
          /\ \A k \in 1 .. Len(s) : k # i => t[k] = s[k]
      OBVIOUS
    <3> HIDE DEF u, v, w, t, n
    <3> DEFINE j == w \o v
    <3>3. /\ j \in Seq(Byte) /\ Len(j) = Len(s)
          /\ \A k \in 1 .. i : j[k] = w[k]
          /\ \A k \in 1 .. Len(s) - i : j[i + k] = v[k]
      <4>1. j \in Seq(Byte) /\ Len(j) = Len(w) + Len(v)
        BY <1>1, <3>1, JoinedIs, Zenon
      <4>2. \A k \in 1 .. Len(w) : j[k] = w[k]
        BY <1>1, <3>1, JoinedIs, Zenon
      <4>3. \A k \in 1 .. Len(v) : j[Len(w) + k] = v[k]
        BY <1>1, <3>1, JoinedIs, Zenon
      <4>4. Len(w) = i /\ Len(v) = Len(s) - i /\ Len(w) + Len(v) = Len(s)
        BY <1>1, <3>1
      <4> HIDE DEF j
      <4> QED BY <4>1, <4>2, <4>3, <4>4
    <3> HIDE DEF j
    <3>4. ASSUME NEW k \in 1 .. Len(s) PROVE t[k] = j[k]
      <4>1. CASE k < i
        <5>1. k \in 1 .. n /\ k \in 1 .. i
          BY <1>1, <4>1
        <5> QED BY <3>1, <3>2, <3>3, <4>1, <5>1
      <4>2. CASE k = i
        BY <1>1, <3>1, <3>2, <3>3, <4>2
      <4>3. CASE k > i
        <5>1. k - i \in 1 .. Len(s) - i /\ i + (k - i) = k
          BY <1>1, <4>3
        <5>2. j[i + (k - i)] = v[k - i] /\ v[k - i] = s[i + (k - i)]
          <6> DEFINE l == k - i
          <6>1. l \in 1 .. Len(s) - i
            BY <5>1
          <6> HIDE DEF l
          <6>2. j[i + l] = v[l] /\ v[l] = s[i + l]
            BY <3>1, <3>3, <6>1, Zenon
          <6> QED BY <6>2 DEF l
        <5>3. t[k] = s[k]
          BY <3>2, <4>3
        <5>4. j[k] = s[k]
          BY <5>1, <5>2, Zenon
        <5> QED BY <5>3, <5>4, Zenon
      <4> QED BY <1>1, <4>1, <4>2, <4>3
    <3>5. t = j
      BY <3>2, <3>3, <3>4
    <3> QED BY <3>5 DEF j
  <2>3. <<x>> \in Seq(Byte) /\ w \in Seq(Byte) /\ Len(w) = i
    BY <1>1
  <2> HIDE DEF u, v, t, n
  <2>4. calc(w) = addAt(calc(u), x, n % 2 = 1)
    <3>1. calc(u \o <<x>>) = addAt(calc(u), calc(<<x>>), Len(u) % 2 = 1)
      BY <1>1, <2>3, CalcJoined
    <3>2. calc(<<x>>) = x
      BY CalcOne
    <3> QED BY <1>1, <3>1, <3>2
  <2>5. calc(w) = add(calc(u), Weight(i, x))
    <3>1. Weight(1, x) = x /\ 1 \in Nat
      BY DEF Weight
    <3>2. Weight(n + 1, x) = Turned(n % 2 = 1, Weight(1, x))
      BY <1>1, <3>1, WeightTurned
    <3> QED BY <1>1, <2>4, <3>1, <3>2 DEF Turned, addAt
  <2> HIDE DEF w
  <2>6. calc(w \o v) = addAt(calc(w), calc(v), i % 2 = 1)
    BY <1>1, <2>3, CalcJoined
  <2>7. calc(t) = add(add(calc(u), Weight(i, x)), behind)
    BY <2>2, <2>5, <2>6 DEF behind, Turned, addAt
  <2>8. Weight(i, x) \in Word
    BY <1>1, WeightIs
  <2> HIDE DEF behind
  <2>9. add(add(calc(u), Weight(i, x)), behind) = add(r, Weight(i, x))
    <3> DEFINE cu == calc(u)
               wt == Weight(i, x)
    <3>1. cu \in Word /\ wt \in Word /\ behind \in Word
      BY <1>2, <2>8
    <3> HIDE DEF cu, wt
    <3>2. add(add(cu, wt), behind) = add(cu, add(wt, behind)) /\ add(wt, behind) = add(behind, wt)
          /\ add(add(cu, behind), wt) = add(cu, add(behind, wt))
      BY <3>1, AddLaws
    <3> QED BY <3>2 DEF cu, wt
  <2> QED BY <2>1, <2>7, <2>9 DEF t
<1> HIDE DEF r
<1> QED BY <1>2, <1>3

PseudoOf(protocol, length) ==
    calc(<<0, Number(protocol), length \div ByteBase, length % ByteBase>>)

\* The checksum of all that verifyUDPTCPChecksum looks at, part by part.
Whole(addresses, protocol, header, data) ==
    add(add(add(calc(addresses), PseudoOf(protocol, Len(header) + Len(data))), calc(header)), calc(data))


LEMMA RestIs ==
    ASSUME NEW s \in Seq(Byte), NEW i \in 0 .. Len(s)
    PROVE  Len(SubSeq(s, i + 1, Len(s))) = Len(s) - i
  OBVIOUS

LEMMA PseudoWord ==
    ASSUME NEW protocol \in Protocol, NEW length \in Nat
    PROVE  PseudoOf(protocol, length) \in Word
<1>1. ByteBase \in Nat /\ ByteBase > 1
  BY ChecksumAssumption
<1>2. Number(protocol) \in Nat
  BY <1>1 DEF Number
<1>3. length \div ByteBase \in Nat /\ length % ByteBase \in Nat
  BY <1>1
<1> QED BY <1>2, <1>3, CalcFour DEF PseudoOf

(* Headers are of bytes, two to a word, and no shorter than those the      *)
(* receiver expects.                                                       *)
LEMMA HeaderIs ==
    ASSUME NEW protocol \in Protocol
    PROVE  /\ Header(protocol) \in Seq(Byte)
           /\ Len(Header(protocol)) \in Nat /\ Len(Header(protocol)) % 2 = 0
           /\ Len(Header(IF protocol = "UDP" THEN "UDP" ELSE "TCP")) \in Nat
           /\ Len(Header(IF protocol = "UDP" THEN "UDP" ELSE "TCP")) % 2 = 0
           /\ Len(Header(IF protocol = "UDP" THEN "UDP" ELSE "TCP")) <= Len(Header(protocol))
<1>1. 1 \in Byte /\ 2 % ByteBase \in Byte /\ 3 % ByteBase \in Byte
  BY ChecksumAssumption DEF Byte
<1> DEFINE two == 2 % ByteBase
           three == 3 % ByteBase
<1>2. /\ Header("UDP") = <<three, 1>>
      /\ Header("TCP") = <<1, two, three, 1>>
      /\ Header("TCP with options") = <<1, two, three, 1, 1, three>>
  BY DEF Header
<1>3. two \in Byte /\ three \in Byte
  BY <1>1
<1> HIDE DEF two, three
<1>4. Header("UDP") \in Seq(Byte) /\ Len(Header("UDP")) = 2
  <2>1. <<three, 1>> \in Seq(Byte)
    BY <1>1, <1>3
  <2>2. Len(<<three, 1>>) = 2
    OBVIOUS
  <2> QED BY <1>2, <2>1, <2>2, Zenon
<1>5. Header("TCP") \in Seq(Byte) /\ Len(Header("TCP")) = 4
  <2>1. <<1, two, three, 1>> \in Seq(Byte)
    BY <1>1, <1>3
  <2>2. Len(<<1, two, three, 1>>) = 4
    OBVIOUS
  <2> QED BY <1>2, <2>1, <2>2, Zenon
<1>6. Header("TCP with options") \in Seq(Byte) /\ Len(Header("TCP with options")) = 6
  <2>1. <<1, two, three, 1, 1, three>> \in Seq(Byte)
    BY <1>1, <1>3
  <2>2. Len(<<1, two, three, 1, 1, three>>) = 6
    OBVIOUS
  <2> QED BY <1>2, <2>1, <2>2, Zenon
<1>7. protocol = "UDP" \/ protocol = "TCP" \/ protocol = "TCP with options"
  BY DEF Protocol
<1>8. /\ {2, 4, 6} \subseteq Nat /\ 2 % 2 = 0 /\ 4 % 2 = 0 /\ 6 % 2 = 0
      /\ 2 <= 2 /\ 4 <= 4 /\ 4 <= 6
  OBVIOUS
<1> DEFINE kind == IF protocol = "UDP" THEN "UDP" ELSE "TCP"
<1>9. CASE protocol = "UDP"
  <2>1. kind = "UDP"
    BY <1>9
  <2> HIDE DEF kind
  <2> QED BY <1>4, <1>8, <1>9, <2>1, Zenon
<1>10. CASE protocol = "TCP"
  <2>1. kind = "TCP"
    BY <1>10
  <2> HIDE DEF kind
  <2> QED BY <1>5, <1>8, <1>10, <2>1, Zenon
<1>11. CASE protocol = "TCP with options"
  <2>1. kind = "TCP"
    BY <1>11
  <2> HIDE DEF kind
  <2> QED BY <1>5, <1>6, <1>8, <1>11, <2>1, Zenon
<1> QED BY <1>7, <1>9, <1>10, <1>11

(* The receiver accepts what sums to ones only, wherever it takes the      *)
(* header to end.                                                          *)
LEMMA VerifyIs ==
    ASSUME NEW a \in Seq(Byte), NEW protocol \in Protocol, NEW h \in Seq(Byte), NEW d \in Seq(Byte),
           Len(h) = Len(Header(protocol)) + 2,
           NEW p, p.addresses = a, p.protocol = protocol, p.header = h, p.data = d
    PROVE  verifyUDPTCPChecksum(p) <=> Whole(a, protocol, h, d) = WordMod - 1
<1> DEFINE size == Len(Header(IF protocol = "UDP" THEN "UDP" ELSE "TCP")) + 2
           b == h \o d
           head == SubSeq(b, 1, size)
           rest == SubSeq(b, size + 1, Len(b))
           x == add(calc(a), PseudoOf(protocol, Len(h) + Len(d)))
           sum == add(add(x, calc(head)), calc(rest))
<1>1. verifyUDPTCPChecksum(p) <=> 0 = calcFrameChecksum(a, protocol, head, Len(rest), calc(rest))
  BY DEF verifyUDPTCPChecksum
<1>2. /\ size \in Nat /\ size % 2 = 0 /\ Len(h) \in Nat /\ Len(h) % 2 = 0 /\ size <= Len(h) /\ Len(d) \in Nat
  <2> DEFINE m == Len(Header(IF protocol = "UDP" THEN "UDP" ELSE "TCP"))
             n == Len(Header(protocol))
  <2>1. m \in Nat /\ n \in Nat /\ m % 2 = 0 /\ n % 2 = 0 /\ m <= n /\ size = m + 2 /\ Len(h) = n + 2
    BY HeaderIs
  <2> HIDE DEF m, n, size
  <2>2. (m + 2) % 2 = 0 /\ (n + 2) % 2 = 0
    BY <2>1
  <2>3. Len(d) \in Nat
    OBVIOUS
  <2> QED BY <2>1, <2>2, <2>3
<1> HIDE DEF size
<1>3. b \in Seq(Byte) /\ Len(b) = Len(h) + Len(d)
  OBVIOUS
<1> HIDE DEF b
<1>4. /\ head \in Seq(Byte) /\ Len(head) = size /\ rest \in Seq(Byte) /\ Len(rest) = Len(b) - size
  <2>1. size \in Nat /\ Len(b) \in Nat /\ size <= Len(b)
    <3> DEFINE m == Len(h)
               n == Len(d)
    <3>1. size \in Nat /\ m \in Nat /\ n \in Nat /\ size <= m /\ Len(b) = m + n
      BY <1>2, <1>3, Zenon
    <3> HIDE DEF m, n
    <3> QED BY <3>1
  <2>2. head \in Seq(Byte) /\ Len(head) = size
    BY <1>3, <2>1
  <2>3. rest \in Seq(Byte) /\ Len(rest) = Len(b) - size
    <3>1. rest \in Seq(Byte)
      BY <1>3, <2>1
    <3>2. Len(rest) = Len(b) - size
      <4>1. size \in 0 .. Len(b)
        BY <2>1
      <4> QED BY <1>3, <4>1, RestIs
    <3> QED BY <3>1, <3>2
  <2> QED BY <2>2, <2>3
<1>5. head \o rest = b
  <2> DEFINE c == head \o rest
  <2>1. \A k \in 1 .. size : head[k] = b[k]
    BY <1>2, <1>3
  <2>2. \A k \in 1 .. Len(b) - size : rest[k] = b[size + k]
    BY <1>2, <1>3
  <2> HIDE DEF head, rest
  <2>3. /\ c \in Seq(Byte) /\ Len(c) = Len(head) + Len(rest)
        /\ \A k \in 1 .. Len(head) : c[k] = head[k]
        /\ \A k \in 1 .. Len(rest) : c[Len(head) + k] = rest[k]
    BY <1>4, JoinedIs, Zenon
  <2> HIDE DEF c
  <2>4. Len(c) = Len(b)
    BY <1>2, <1>3, <1>4, <2>3
  <2>5. ASSUME NEW k \in 1 .. Len(b) PROVE c[k] = b[k]
    <3>1. CASE k <= size
      BY <1>2, <1>4, <2>1, <2>3, <3>1
    <3>2. CASE ~ (k <= size)
      <4>1. k - size \in 1 .. Len(b) - size /\ size + (k - size) = k
        BY <1>2, <1>3, <3>2
      <4>2. c[size + (k - size)] = rest[k - size] /\ rest[k - size] = b[size + (k - size)]
        BY <1>4, <2>2, <2>3, <4>1
      <4> QED BY <4>1, <4>2
    <3> QED BY <3>1, <3>2
  <2>6. c = b
    <3>1. b \in Seq(Byte) /\ c \in Seq(Byte)
      BY <1>3, <2>3
    <3> QED BY <2>4, <2>5, <3>1
  <2> QED BY <2>6 DEF c
<1> HIDE DEF head, rest
<1>6. calcFrameChecksum(a, protocol, head, Len(rest), calc(rest)) = WordMod - 1 - sum
  <2>1. Len(rest) + Len(head) = Len(h) + Len(d)
    BY <1>2, <1>3, <1>4
  <2> QED BY <2>1 DEF calcFrameChecksum, calcPseudoHeaderChecksum, Not, PseudoOf
<1>7. /\ calc(a) \in Word /\ calc(h) \in Word /\ calc(d) \in Word /\ calc(head) \in Word /\ calc(rest) \in Word
      /\ x \in Word
  <2>1. /\ calc(a) \in Word /\ calc(h) \in Word /\ calc(d) \in Word /\ calc(head) \in Word /\ calc(rest) \in Word
    BY <1>4, CalcWord
  <2>2. PseudoOf(protocol, Len(h) + Len(d)) \in Word
    BY <1>2, PseudoWord
  <2> QED BY <2>1, <2>2, AddIs
<1>8. calc(b) = add(calc(head), calc(rest)) /\ calc(b) = add(calc(h), calc(d))
  <2>1. calc(head \o rest) = addAt(calc(head), calc(rest), Len(head) % 2 = 1)
    BY <1>4, CalcJoined
  <2>2. calc(h \o d) = addAt(calc(h), calc(d), Len(h) % 2 = 1)
    BY CalcJoined
  <2> QED BY <1>2, <1>4, <1>5, <2>1, <2>2 DEF addAt, b
<1> HIDE DEF x
<1>9. sum = Whole(a, protocol, h, d)
  <2>1. sum = add(x, add(calc(head), calc(rest)))
    BY <1>7, AddLaws
  <2>2. add(add(x, calc(h)), calc(d)) = add(x, add(calc(h), calc(d)))
    BY <1>7, AddLaws
  <2> QED BY <1>8, <2>1, <2>2 DEF Whole, x
<1>10. sum \in Word
  BY <1>7, AddIs
<1> HIDE DEF sum
<1>11. 0 = WordMod - 1 - sum <=> sum = WordMod - 1
  BY <1>10, WordModIs DEF Word
<1> QED BY <1>1, <1>6, <1>9, <1>11

(* Four words added in any order.                                          *)
LEMMA AddFour ==
    ASSUME NEW a \in Word, NEW p \in Word, NEW h \in Word, NEW d \in Word
    PROVE  /\ add(add(add(a, p), h), d) = add(add(add(p, h), d), a)
           /\ add(add(add(a, p), h), d) = add(add(add(a, p), d), h)
           /\ add(add(a, p), h) \in Word /\ add(add(add(a, p), h), d) \in Word
<1>1. \A x, y \in Word : add(x, y) \in Word
  BY AddIs
<1>2. \A x, y \in Word : add(x, y) = add(y, x)
  BY AddLaws
<1>3. \A x, y, z \in Word : add(add(x, y), z) = add(x, add(y, z))
  BY AddLaws
<1> DEFINE ap == add(a, p)
           ph == add(p, h)
           hd == add(h, d)
<1>4. ap \in Word /\ ph \in Word /\ hd \in Word
  BY <1>1
<1>5. add(ap, h) \in Word /\ add(ap, d) \in Word /\ add(ph, d) \in Word
  BY <1>1, <1>4
<1>6. add(add(ap, h), d) = add(ap, hd) /\ add(add(ap, d), h) = add(ap, add(d, h)) /\ add(d, h) = hd
  BY <1>2, <1>3, <1>4
<1>7. add(ap, hd) = add(a, add(p, hd)) /\ add(p, hd) = add(ph, d)
  BY <1>3, <1>4
<1>8. add(a, add(ph, d)) = add(add(ph, d), a)
  BY <1>2, <1>5
<1>9. add(add(ap, h), d) \in Word
  BY <1>1, <1>5
<1> QED BY <1>5, <1>6, <1>7, <1>8, <1>9

(* With a byte of a part changed, the whole sums to ones no longer.        *)
LEMMA ChangeShows ==
    ASSUME NEW s \in Seq(Byte), NEW i \in 1 .. Len(s), NEW b \in Byte, NEW rest \in Word,
           add(rest, calc(s)) = WordMod - 1, add(rest, calc([s EXCEPT ![i] = b])) = WordMod - 1
    PROVE  [s EXCEPT ![i] = b] = s
<1>1. PICK r \in Word : \A x \in Byte : calc([s EXCEPT ![i] = x]) = add(r, Weight(i, x))
  BY OneByte
<1>2. s[i] \in Byte /\ [s EXCEPT ![i] = s[i]] = s /\ i \in Nat
  OBVIOUS
<1>3. calc(s) = add(r, Weight(i, s[i])) /\ calc([s EXCEPT ![i] = b]) = add(r, Weight(i, b))
  BY <1>1, <1>2
<1> DEFINE u == Weight(i, s[i])
           v == Weight(i, b)
           o == add(rest, r)
<1>4. u \in 0 .. WordMod - 2 /\ v \in 0 .. WordMod - 2 /\ u \in Word /\ v \in Word
  BY <1>2, WeightIs
<1>5. o \in Word
  BY AddIs
<1> HIDE DEF u, v
<1>6. add(rest, add(r, u)) = add(o, u) /\ add(rest, add(r, v)) = add(o, v)
  BY <1>4, AddLaws
<1> HIDE DEF o
<1>7. add(o, u) = WordMod - 1 /\ add(o, v) = WordMod - 1
  BY <1>3, <1>6 DEF u, v
<1>8. u = v
  BY <1>4, <1>5, <1>7, OnlyOne
<1>9. s[i] = b
  <2>1. CASE i % 2 = 1
    BY <1>8, <2>1 DEF u, v, Weight
  <2>2. CASE i % 2 # 1
    <3>1. ByteBase * s[i] = ByteBase * b
      BY <1>8, <2>2 DEF u, v, Weight
    <3>2. swap(ByteBase * s[i]) = s[i] /\ swap(ByteBase * b) = b
      BY <1>2, SwapByte
    <3> QED BY <3>1, <3>2
  <2> QED BY <2>1, <2>2
<1> QED BY <1>2, <1>9

(* What is sent sums to ones.                                              *)
LEMMA PacketIs ==
    ASSUME Agrees(frame), NEW protocol \in Protocol
    PROVE  LET p == Packet(protocol)
           IN  /\ p = [addresses |-> p.addresses, protocol |-> protocol, header |-> p.header, data |-> p.data]
               /\ p.addresses \in Seq(Byte) /\ p.header \in Seq(Byte) /\ p.data \in Seq(Byte)
               /\ Len(p.header) = Len(Header(protocol)) + 2
               /\ Whole(p.addresses, protocol, p.header, p.data) = WordMod - 1
<1> DEFINE g == Header(protocol)
           d == frame.data
           n == Len(d) + Len(g) + 2
           x == add(calc(Addresses), PseudoOf(protocol, n))
           sum == add(add(x, calc(g)), calc(d))
           c == WordMod - 1 - sum
           h == g \o InBytes(c)
           p == Packet(protocol)
<1>1. d \in Seq(Byte) /\ Len(d) \in Nat /\ frame.checksum = calc(d)
  BY DEF Agrees
<1>2. g \in Seq(Byte) /\ Len(g) \in Nat /\ Len(g) % 2 = 0
  BY HeaderIs
<1>3. 0 \in Byte /\ 1 \in Byte /\ 2 % ByteBase \in Byte
  BY ChecksumAssumption DEF Byte
<1>4. Addresses \in Seq(Byte)
  BY <1>3 DEF Addresses
<1>5. <<0, 0>> \in Seq(Byte) /\ Len(<<0, 0>>) = 2 /\ calc(<<0, 0>>) = 0
  <2>1. calc(<<0, 0>>) = 0 + ByteBase * 0
    BY <1>3, CalcTwo
  <2>2. 0 + ByteBase * 0 = 0
    BY ChecksumAssumption
  <2>3. <<0, 0>> \in Seq(Byte)
    BY <1>3
  <2>4. Len(<<0, 0>>) = 2
    OBVIOUS
  <2> QED BY <2>1, <2>2, <2>3, <2>4
<1> HIDE DEF g, d
<1>6. calc(g) \in Word /\ calc(d) \in Word /\ calc(Addresses) \in Word /\ n \in Nat /\ x \in Word
  <2>1. calc(g) \in Word /\ calc(d) \in Word /\ calc(Addresses) \in Word
    BY <1>1, <1>2, <1>4, CalcWord
  <2>2. n \in Nat
    BY <1>1, <1>2
  <2> HIDE DEF n
  <2>3. PseudoOf(protocol, n) \in Word
    BY <2>2, PseudoWord
  <2> QED BY <2>1, <2>2, <2>3, AddIs
<1>7. calc(g \o <<0, 0>>) = calc(g) /\ Len(g \o <<0, 0>>) = Len(g) + 2
  <2>1. calc(g \o <<0, 0>>) = addAt(calc(g), 0, Len(g) % 2 = 1)
    BY <1>2, <1>5, CalcJoined
  <2>2. add(calc(g), 0) = calc(g)
    BY <1>6, AddLaws
  <2>3. Len(g \o <<0, 0>>) = Len(g) + Len(<<0, 0>>)
    BY <1>2, <1>5, JoinedIs, Zenon
  <2> QED BY <1>2, <1>5, <2>1, <2>2, <2>3 DEF addAt
<1> HIDE DEF x
<1>8. sum \in Word
  BY <1>6, AddIs
<1> HIDE DEF sum
<1>9. c \in Word
  BY <1>8, WordModIs DEF Word
<1>10. calcFrameChecksum(Addresses, protocol, g \o <<0, 0>>, Len(d), calc(d)) = c
  <2>1. calcFrameChecksum(Addresses, protocol, g \o <<0, 0>>, Len(d), calc(d))
          = WordMod - 1 - add(add(add(calc(Addresses), PseudoOf(protocol, Len(d) + Len(g \o <<0, 0>>))),
                                  calc(g \o <<0, 0>>)), calc(d))
    BY Zenon DEF calcFrameChecksum, calcPseudoHeaderChecksum, Not, PseudoOf
  <2>2. Len(d) + Len(g \o <<0, 0>>) = n
    BY <1>1, <1>2, <1>7
  <2> HIDE DEF n
  <2> QED BY <1>7, <2>1, <2>2, Zenon DEF c, sum, x
<1>11. p = [addresses |-> Addresses, protocol |-> protocol, header |-> h, data |-> d]
  BY <1>1, <1>10 DEF Packet, g, d
<1> HIDE DEF c, p
<1>12. InBytes(c) \in Seq(Byte) /\ Len(InBytes(c)) = 2 /\ calc(InBytes(c)) = c
  <2>1. c % ByteBase \in Byte /\ c \div ByteBase \in Byte /\ c = (c % ByteBase) + ByteBase * (c \div ByteBase)
    BY <1>9, WordIs
  <2> DEFINE lo == c % ByteBase
             hi == c \div ByteBase
  <2>2. InBytes(c) = <<lo, hi>>
    BY DEF InBytes
  <2>3. lo \in Byte /\ hi \in Byte /\ c = lo + ByteBase * hi
    BY <2>1
  <2> HIDE DEF lo, hi
  <2>4. <<lo, hi>> \in Seq(Byte)
    BY <2>3
  <2>5. Len(<<lo, hi>>) = 2
    OBVIOUS
  <2>6. calc(<<lo, hi>>) = c
    BY <2>3, CalcTwo
  <2> QED BY <2>2, <2>4, <2>5, <2>6
<1>13. h \in Seq(Byte) /\ Len(h) = Len(g) + 2 /\ calc(h) = add(calc(g), c)
  <2>1. h \in Seq(Byte) /\ Len(h) = Len(g) + Len(InBytes(c))
    BY <1>2, <1>12, JoinedIs, Zenon
  <2>2. calc(h) = addAt(calc(g), calc(InBytes(c)), Len(g) % 2 = 1)
    BY <1>2, <1>12, CalcJoined
  <2> QED BY <1>2, <1>12, <2>1, <2>2 DEF addAt
<1> HIDE DEF h
<1>14. Whole(Addresses, protocol, h, d) = WordMod - 1
  <2>1. Len(h) + Len(d) = n
    BY <1>1, <1>2, <1>13
  <2>2. Whole(Addresses, protocol, h, d) = add(add(x, add(calc(g), c)), calc(d))
    BY <1>13, <2>1 DEF Whole, x
  <2>3. add(add(x, add(calc(g), c)), calc(d)) = add(sum, c)
    <3> DEFINE y == add(x, calc(g))
    <3>1. y \in Word
      BY <1>6, AddIs
    <3>2. add(x, add(calc(g), c)) = add(y, c)
      BY <1>6, <1>9, AddLaws
    <3>3. sum = add(y, calc(d))
      BY DEF sum
    <3> HIDE DEF y
    <3>4. add(add(y, c), calc(d)) = add(y, add(c, calc(d))) /\ add(c, calc(d)) = add(calc(d), c)
      BY <1>6, <1>9, <3>1, AddLaws
    <3>5. add(add(y, calc(d)), c) = add(y, add(calc(d), c))
      BY <1>6, <1>9, <3>1, AddLaws
    <3> QED BY <3>2, <3>3, <3>4, <3>5
  <2>4. add(sum, c) = WordMod - 1
    <3>1. sum + c = WordMod - 1 /\ sum + c < WordMod
      BY <1>8, WordModIs DEF c, Word
    <3> QED BY <1>8, <1>9, <3>1, AddIs
  <2> QED BY <2>2, <2>3, <2>4
<1>15. p.addresses = Addresses /\ p.protocol = protocol /\ p.header = h /\ p.data = d
  BY <1>11
<1>16. p = [addresses |-> p.addresses, protocol |-> protocol, header |-> p.header, data |-> p.data]
  BY <1>11, <1>15
<1>17. Len(p.header) = Len(Header(protocol)) + 2
  BY <1>13, <1>15 DEF g
<1> QED BY <1>1, <1>4, <1>13, <1>14, <1>15, <1>16, <1>17 DEF p

(* The receiver accepts what is sent, and nothing with one byte changed.   *)
LEMMA PacketVerified ==
    ASSUME Agrees(frame), NEW protocol \in Protocol
    PROVE  LET p == Packet(protocol)
           IN  /\ verifyUDPTCPChecksum(p)
               /\ \A q \in Changed(p) : ~verifyUDPTCPChecksum(q)
<1> DEFINE p == Packet(protocol)
           a == p.addresses
           h == p.header
           d == p.data
           w == PseudoOf(protocol, Len(h) + Len(d))
<1>1. /\ p = [addresses |-> a, protocol |-> protocol, header |-> h, data |-> d]
      /\ a \in Seq(Byte) /\ h \in Seq(Byte) /\ d \in Seq(Byte)
      /\ Len(h) = Len(Header(protocol)) + 2
      /\ Whole(a, protocol, h, d) = WordMod - 1
  BY PacketIs, Zenon
<1> HIDE DEF p
<1>2. p.protocol = protocol
  BY <1>1
<1>3. verifyUDPTCPChecksum(p)
  BY <1>1, <1>2, VerifyIs
<1>4. calc(a) \in Word /\ calc(h) \in Word /\ calc(d) \in Word /\ w \in Word
  <2>1. Len(h) + Len(d) \in Nat
    BY <1>1
  <2> QED BY <1>1, <2>1, CalcWord, PseudoWord
<1>5. ASSUME NEW q \in Changed(p), verifyUDPTCPChecksum(q) PROVE FALSE
  <2>1. PICK part \in {"addresses", "header", "data"} :
            \E i \in DOMAIN p[part], b \in Byte : q = [p EXCEPT ![part][i] = b]
    BY <1>5 DEF Changed
  <2>2. PICK i \in DOMAIN p[part], b \in Byte : q = [p EXCEPT ![part][i] = b]
    BY <2>1
  <2>3. q # p
    BY <1>5 DEF Changed
  <2> DEFINE s == p[part]
             t == [s EXCEPT ![i] = b]
  <2>4. s \in Seq(Byte) /\ i \in 1 .. Len(s)
    <3>1. s \in Seq(Byte)
      BY <1>1, <2>1
    <3> HIDE DEF s
    <3> QED BY <2>2, <3>1 DEF s
  <2>5. t \in Seq(Byte) /\ Len(t) = Len(s)
    BY <2>4
  <2>6. q = [p EXCEPT ![part] = t]
    BY <2>2
  <2>7. t # s
    BY <1>1, <2>1, <2>3, <2>6
  <2>8. ASSUME NEW rest \in Word, add(rest, calc(s)) = WordMod - 1, add(rest, calc(t)) = WordMod - 1
        PROVE  FALSE
    <3> HIDE DEF s
    <3> QED BY <2>2, <2>4, <2>7, <2>8, ChangeShows
  <2> HIDE DEF t
  <2>9. calc(t) \in Word
    BY <2>5, CalcWord
  <2>10. CASE part = "addresses"
    <3>1. s = a /\ q.addresses = t /\ q.protocol = protocol /\ q.header = h /\ q.data = d
      BY <1>1, <2>6, <2>10
    <3>2. Whole(t, protocol, h, d) = WordMod - 1
      BY <1>1, <1>5, <2>5, <3>1, VerifyIs
    <3> DEFINE rest == add(add(w, calc(h)), calc(d))
    <3>3. rest \in Word /\ Whole(a, protocol, h, d) = add(rest, calc(a)) /\ Whole(t, protocol, h, d) = add(rest, calc(t))
      <4>1. rest \in Word
        BY <1>4, AddIs
      <4>2. Whole(a, protocol, h, d) = add(add(add(calc(a), w), calc(h)), calc(d))
        BY DEF Whole
      <4>3. Whole(t, protocol, h, d) = add(add(add(calc(t), w), calc(h)), calc(d))
        BY DEF Whole
      <4> HIDE DEF w
      <4> QED BY <1>4, <2>9, <4>1, <4>2, <4>3, AddFour
    <3> HIDE DEF rest
    <3> QED BY <1>1, <2>8, <3>1, <3>2, <3>3
  <2>11. CASE part = "header"
    <3>1. s = h /\ q.addresses = a /\ q.protocol = protocol /\ q.header = t /\ q.data = d
      BY <1>1, <2>6, <2>11
    <3>2. Len(t) = Len(h) /\ Whole(a, protocol, t, d) = WordMod - 1
      BY <1>1, <1>5, <2>5, <3>1, VerifyIs
    <3> DEFINE rest == add(add(calc(a), w), calc(d))
    <3>3. rest \in Word /\ Whole(a, protocol, h, d) = add(rest, calc(h)) /\ Whole(a, protocol, t, d) = add(rest, calc(t))
      <4>1. rest \in Word
        BY <1>4, AddIs
      <4>2. Whole(a, protocol, h, d) = add(add(add(calc(a), w), calc(h)), calc(d))
        BY DEF Whole
      <4>3. Whole(a, protocol, t, d) = add(add(add(calc(a), w), calc(t)), calc(d))
        BY <3>2 DEF Whole
      <4> HIDE DEF w
      <4> QED BY <1>4, <2>9, <4>1, <4>2, <4>3, AddFour
    <3> HIDE DEF rest
    <3> QED BY <1>1, <2>8, <3>1, <3>2, <3>3
  <2>12. CASE part = "data"
    <3>1. s = d /\ q.addresses = a /\ q.protocol = protocol /\ q.header = h /\ q.data = t
      BY <1>1, <2>6, <2>12
    <3>2. Len(t) = Len(d) /\ Whole(a, protocol, h, t) = WordMod - 1
      BY <1>1, <1>5, <2>5, <3>1, VerifyIs
    <3> DEFINE rest == add(add(calc(a), w), calc(h))
    <3>3. rest \in Word /\ Whole(a, protocol, h, d) = add(rest, calc(d)) /\ Whole(a, protocol, h, t) = add(rest, calc(t))
      <4>1. rest \in Word
        BY <1>4, AddIs
      <4>2. Whole(a, protocol, h, d) = add(add(add(calc(a), w), calc(h)), calc(d))
        BY DEF Whole
      <4>3. Whole(a, protocol, h, t) = add(add(add(calc(a), w), calc(h)), calc(t))
        BY <3>2 DEF Whole
      <4> QED BY <4>1, <4>2, <4>3
    <3> HIDE DEF rest
    <3> QED BY <1>1, <2>8, <3>1, <3>2, <3>3
  <2> QED BY <2>1, <2>10, <2>11, <2>12
<1> QED BY <1>3, <1>5 DEF p

(* The receiver accepts what the sender makes of any payload it is given,  *)
(* and no packet with one byte changed.                                    *)
THEOREM SentIsVerified == SocketSpec => []FrameVerified
<1>1. Intact => FrameVerified
  BY PacketVerified, Zenon DEF Intact, FrameVerified
<1> QED BY <1>1, IntactAlways, PTL
=============================================================================
