--------------------------- MODULE WebServerProofs ---------------------------
(***************************************************************************)
(* Proofs about WebServer, for any connections and requests, and a         *)
(* listener with any number of sockets: that no two sockets serve one      *)
(* connection, that the callbacks of a request are those of its text       *)
(* wherever it is cut, and that a client reads the answer to its own.      *)
(***************************************************************************)
EXTENDS WebServer, SequenceTheorems, WellFoundedInduction, TLAPS

Sound ==
    /\ DOMAIN clients = Sockets
    /\ DOMAIN remote = Sockets
    /\ OneSocketPerRemote

(* The listener is asked last: it handles what no socket takes.            *)
LEMMA ListenerIsLast ==
    ASSUME NEW c, Handles(Listener, c), NEW i \in Sockets
    PROVE  ~ Takes(i, c)
<1> DEFINE array == <<Listener>> \o [j \in Sockets |-> j]
           n == MAX_CLIENTS + 1
<1>1. MAX_CLIENTS \in Nat /\ Listener \notin 1 .. MAX_CLIENTS
  BY WebServerAssumption
<1>2. <<Listener>> \in Seq({Listener} \union Sockets) /\ [j \in Sockets |-> j] \in Seq({Listener} \union Sockets)
  BY <1>1 DEF Sockets
<1>3. Len(array) = n /\ array[1] = Listener /\ \A j \in Sockets : array[j + 1] = j
  BY <1>1, <1>2 DEF Sockets
<1>4. activeServices = [k \in 1 .. n |-> array[(n - k) + 1]]
  BY <1>3 DEF activeServices, Reverse
<1>5. PICK k \in DOMAIN activeServices :
        activeServices[k] = Listener /\ \A l \in 1 .. k - 1 : ~ Takes(activeServices[l], c)
  BY DEF Handles
<1> HIDE DEF array
<1>6. k = n
  <2>1. k \in 1 .. n
    BY <1>4, <1>5
  <2>2. CASE k # n
    <3>1. (n - k) \in Sockets
      BY <1>1, <2>1, <2>2 DEF Sockets
    <3>2. activeServices[k] = array[(n - k) + 1]
      BY <1>4, <2>1
    <3>3. activeServices[k] \in Sockets
      BY <3>1, <3>2, <1>3
    <3> QED BY <3>3, <1>5, <1>1 DEF Sockets
  <2> QED BY <2>2
<1>7. (n - i) \in 1 .. k - 1 /\ activeServices[n - i] = i
  <2>1. (n - i) \in 1 .. k - 1
    BY <1>1, <1>6 DEF Sockets
  <2>2. activeServices[n - i] = array[(n - (n - i)) + 1]
    BY <2>1, <1>1, <1>4, <1>6
  <2>3. (n - (n - i)) + 1 = i + 1
    BY <1>1 DEF Sockets
  <2> QED BY <2>1, <2>2, <2>3, <1>3
<1> QED BY <1>5, <1>7

(* Opening a socket for a connection that none has keeps one to each.      *)
LEMMA AcceptKeepsOne ==
    ASSUME Sound, NEW c, NEW i \in Sockets, accept(i, c),
           \A j \in Sockets : ~ Takes(j, c)
    PROVE  Sound'
<1>1. /\ DOMAIN clients' = Sockets /\ DOMAIN remote' = Sockets
      /\ remote'[i] = c
      /\ \A j \in Sockets \ {i} : clients'[j] = clients[j] /\ remote'[j] = remote[j]
  BY DEF Sound, accept, Update
<1>2. \A j \in Sockets \ {i} : ~ (Open(clients'[j]) /\ remote'[j] = c)
  BY <1>1 DEF Takes
<1> QED BY <1>1, <1>2 DEF Sound, OneSocketPerRemote

(* A step that changes a socket which is open leaves each its own.         *)
LEMMA UpdateKeepsOne ==
    ASSUME Sound, NEW i \in Sockets, Open(clients[i]), NEW s, Update(i, s), UNCHANGED remote
    PROVE  Sound'
<1>1. /\ DOMAIN clients' = Sockets
      /\ \A j \in Sockets \ {i} : clients'[j] = clients[j]
  BY DEF Sound, Update
<1>2. \A j \in Sockets : Open(clients'[j]) => Open(clients[j])
  BY <1>1
<1> QED BY <1>1, <1>2 DEF Sound, OneSocketPerRemote

LEMMA HandledIsOpen ==
    ASSUME NEW i \in Sockets, NEW c, Handles(i, c)
    PROVE  Open(clients[i])
BY WebServerAssumption DEF Handles, Takes, Sockets

LEMMA InitIsSound == Init => Sound
<1> SUFFICES ASSUME Init PROVE Sound
  OBVIOUS
<1>1. Unused.state = "CLOSED"
  BY DEF Unused
<1>2. \A i \in Sockets : ~ Open(clients[i])
  BY <1>1 DEF Init, Open
<1> QED BY <1>2 DEF Init, Sound, OneSocketPerRemote

LEMMA SoundIsInvariant == Sound /\ [Next]_vars => Sound'
<1> SUFFICES ASSUME Sound, [Next]_vars PROVE Sound'
  OBVIOUS
<1>1. ASSUME UNCHANGED <<clients, remote>> PROVE Sound'
  BY <1>1 DEF Sound, OneSocketPerRemote
<1>2. ASSUME NEW c \in Connections, NEW r, request(c, r) PROVE Sound'
  BY <1>2, <1>1 DEF request
<1>3. ASSUME NEW c \in Connections, receiveSyn(c) PROVE Sound'
  <2>1. CASE Handles(Listener, c) /\ ~ UNCHANGED <<clients, remote>>
    <3>1. PICK i \in Sockets : accept(i, c)
      BY <1>3, <2>1 DEF receiveSyn, onConnectRequest
    <3> QED BY <3>1, <2>1, AcceptKeepsOne, ListenerIsLast
  <2>2. CASE UNCHANGED <<clients, remote>>
    BY <2>2, <1>1
  <2> QED BY <1>3, <2>1, <2>2 DEF receiveSyn
<1>4. ASSUME NEW c \in Connections, peerConnects(c) \/ peerEnds(c) PROVE Sound'
  BY <1>4, <1>1 DEF peerConnects, peerEnds
<1>5. ASSUME NEW i \in Sockets, NEW c \in Connections, Sends(i, c) PROVE Sound'
  <2>1. ASSUME NEW k, NEW where, receiveSegment(i, c, k, where) PROVE Sound'
    BY <2>1, HandledIsOpen, UpdateKeepsOne DEF receiveSegment
  <2>2. ASSUME NEW where, receiveFin(i, c, where) PROVE Sound'
    BY <2>2, HandledIsOpen, UpdateKeepsOne DEF receiveFin
  <2> QED BY <1>5, <2>1, <2>2 DEF Sends
<1>6. ASSUME NEW i \in Sockets, NEW c \in Connections, receiveReset(i, c) PROVE Sound'
  BY <1>6, HandledIsOpen, UpdateKeepsOne DEF receiveReset
<1>7. ASSUME NEW i \in Sockets, NEW c \in Connections, Hears(i, c) PROVE Sound'
  <2>1. Open(clients[i])
    BY <1>7 DEF Hears, Serving
  <2>2. ASSUME NEW n, peerReceives(i, c, n) PROVE Sound'
    BY <2>1, <2>2, UpdateKeepsOne DEF peerReceives
  <2>3. ASSUME peerReceivesFin(i, c) PROVE Sound'
    BY <2>3, <1>1 DEF peerReceivesFin
  <2> QED BY <1>7, <2>2, <2>3 DEF Hears
<1>8. ASSUME NEW i \in Sockets, socketEnds(i) PROVE Sound'
  <2>1. Open(clients[i])
    BY <1>8 DEF socketEnds, Open
  <2> QED BY <1>8, <2>1, UpdateKeepsOne DEF socketEnds
<1>9. CASE UNCHANGED vars
  BY <1>9, <1>1 DEF vars
<1> QED BY <1>2, <1>3, <1>4, <1>5, <1>6, <1>7, <1>8, <1>9 DEF Next

(* However often and however late SYNs arrive, no two sockets serve the    *)
(* same connection: the listener sees those only that no socket takes.     *)
THEOREM OneSocketEach == Spec => []OneSocketPerRemote
<1>1. Sound => OneSocketPerRemote
  BY DEF Sound
<1> QED BY <1>1, InitIsSound, SoundIsInvariant, PTL DEF Spec

-----------------------------------------------------------------------------
(* Folds. The library defines them by a recursive function on the sets of   *)
(* indices of a sequence; that there is such a function is an induction     *)
(* over the length.                                                         *)

\* One step of each fold of the model.
Fold(kind, acc, x) ==
    CASE kind = "lines" -> acc \o <<x>> \o EndOfLine
      [] kind = "method" -> acc + x
      [] kind = "request" -> scanCharacter(acc, x)
      [] kind = "response" -> scanHead(acc, x)

LEMMA LeastOf ==
    ASSUME NEW T \in SUBSET Nat, T # {}
    PROVE  \E x \in T : \A y \in T : x <= y
<1> DEFINE R == {ss \in Nat \X Nat : ss[1] < ss[2]}
<1>1. IsWellFoundedOn(R, Nat)
  BY NatLessThanWellFounded DEF OpToRel
<1>2. \A x, y \in Nat : y < x => <<y, x>> \in R
  OBVIOUS
<1> HIDE DEF R
<1>3. PICK x \in T : \A y \in T : ~ (<<y, x>> \in R)
  BY <1>1, WFMin
<1>4. \A y \in T : ~ (y < x)
  BY <1>2, <1>3
<1>5. \A y \in T : x <= y
  BY <1>4
<1> QED
  BY <1>5

(* Induction up to n, for a set.                                           *)
LEMMA UpTo ==
    ASSUME NEW n \in Nat, NEW S, 0 \in S, \A k \in 1 .. n : k - 1 \in S => k \in S
    PROVE  0 .. n \subseteq S
<1> DEFINE T == {k \in 0 .. n : k \notin S}
<1>1. SUFFICES ASSUME T # {} PROVE FALSE
  OBVIOUS
<1>2. PICK x \in T : \A y \in T : x <= y
  <2>1. T \in SUBSET Nat
    OBVIOUS
  <2> HIDE DEF T
  <2> QED
    BY <1>1, <2>1, LeastOf
<1>3. x \in 1 .. n /\ x - 1 \in 0 .. n /\ ~(x <= x - 1)
  OBVIOUS
<1>4. x - 1 \in S
  BY <1>2, <1>3
<1> QED
  BY <1>3, <1>4

LEMMA MaxIs ==
    ASSUME NEW n \in Nat, NEW s \in SUBSET (0 .. n), NEW x \in s, \A y \in s : x >= y
    PROVE  Max(s) = x
<1>1. Max(s) \in s /\ \A y \in s : Max(s) >= y
  BY Zenon DEF Max
<1>2. Max(s) >= x /\ x >= Max(s)
  BY <1>1
<1>3. x \in 0 .. n /\ Max(s) \in 0 .. n
  BY <1>1
<1> QED
  BY <1>2, <1>3

\* g has what the fold makes of each part of the first k members of seq.
Folds(g, kind, base, seq, k) ==
    g = [s \in SUBSET (1 .. k) |->
            IF s = {} THEN base ELSE Fold(kind, g[s \ {Max(s)}], seq[Max(s)])]

LEMMA FoldExists ==
    ASSUME NEW n \in Nat, NEW kind, NEW base, NEW seq
    PROVE  \E g : Folds(g, kind, base, seq, n)
<1> DEFINE S == {k \in 0 .. n : \E g : Folds(g, kind, base, seq, k)}
<1>1. 0 \in S
  <2> DEFINE g == [s \in SUBSET (1 .. 0) |-> base]
  <2>1. SUBSET (1 .. 0) = {{}}
    OBVIOUS
  <2>2. Folds(g, kind, base, seq, 0)
    BY <2>1 DEF Folds
  <2> QED
    BY <2>2
<1>2. ASSUME NEW k \in 1 .. n, k - 1 \in S PROVE k \in S
  <2>1. PICK g : Folds(g, kind, base, seq, k - 1)
    BY <1>2
  <2> DEFINE value(s, f) == IF s = {} THEN base ELSE Fold(kind, f[s \ {Max(s)}], seq[Max(s)])
             h == [s \in SUBSET (1 .. k) |->
                     IF k \in s THEN Fold(kind, g[s \ {k}], seq[k]) ELSE g[s]]
  <2>2. ASSUME NEW s \in SUBSET (1 .. k) PROVE h[s] = value(s, h)
    <3>1. CASE k \in s
      <4>1. Max(s) = k
        <5>1. k \in Nat /\ \A y \in s : k >= y
          OBVIOUS
        <5> QED
          BY <3>1, <5>1, MaxIs
      <4>2. s \ {k} \in SUBSET (1 .. k) /\ s \ {k} \in SUBSET (1 .. k - 1) /\ k \notin s \ {k}
        OBVIOUS
      <4>3. h[s] = Fold(kind, g[s \ {k}], seq[k])
        BY <3>1
      <4>4. h[s \ {k}] = g[s \ {k}]
        BY <4>2
      <4> HIDE DEF h
      <4> QED
        BY <3>1, <4>1, <4>3, <4>4
    <3>2. CASE k \notin s
      <4>1. s \in SUBSET (1 .. k - 1)
        BY <3>2
      <4>2. s \ {Max(s)} \in SUBSET (1 .. k) /\ k \notin s \ {Max(s)}
        BY <3>2, Zenon
      <4>3. h[s] = g[s] /\ h[s \ {Max(s)}] = g[s \ {Max(s)}]
        BY <3>2, <4>2, Zenon
      <4>4. g[s] = value(s, g)
        BY <2>1, <4>1 DEF Folds
      <4> HIDE DEF h
      <4> QED
        BY <4>3, <4>4
    <3> QED
      BY <3>1, <3>2
  <2>3. h = [s \in SUBSET (1 .. k) |-> h[s]]
    OBVIOUS
  <2> HIDE DEF h
  <2>4. Folds(h, kind, base, seq, k)
    BY <2>2, <2>3 DEF Folds
  <2> QED
    BY <2>4
<1> HIDE DEF S
<1>3. n \in S
  BY <1>1, <1>2, UpTo
<1> QED
  BY <1>3 DEF S

\* f has what the fold makes of the first k members of seq.
Steps(f, kind, base, seq) ==
    /\ f[0] = base
    /\ \A k \in 1 .. Len(seq) : f[k] = Fold(kind, f[k - 1], seq[k])

\* The fold of seq is result.
Folded(kind, base, seq, result) ==
    \E f : Steps(f, kind, base, seq) /\ result = f[Len(seq)]

LEMMA FoldSteps ==
    ASSUME NEW seq, Len(seq) \in Nat, NEW kind, NEW base, NEW g,
           Folds(g, kind, base, seq, Len(seq))
    PROVE  Folded(kind, base, seq, g[1 .. Len(seq)])
<1> DEFINE n == Len(seq)
           f == [k \in 0 .. n |-> g[1 .. k]]
<1>1. f[0] = base
  <2>1. 1 .. 0 = {} /\ 1 .. 0 \in SUBSET (1 .. n) /\ 0 \in 0 .. n
    OBVIOUS
  <2> QED
    BY <2>1 DEF Folds
<1>2. ASSUME NEW k \in 1 .. n PROVE f[k] = Fold(kind, f[k - 1], seq[k])
  <2>1. 1 .. k \in SUBSET (0 .. n) /\ 1 .. k \in SUBSET (1 .. n) /\ k \in 1 .. k /\ \A y \in 1 .. k : k >= y
    OBVIOUS
  <2>2. 1 .. k # {} /\ (1 .. k) \ {k} = 1 .. k - 1
    <3>1. k \in Nat
      OBVIOUS
    <3>2. (1 .. k) \ {k} = 1 .. k - 1
      BY <3>1
    <3> QED
      BY <2>1, <3>2
  <2>3. Max(1 .. k) = k
    BY <2>1, MaxIs
  <2>4. g[1 .. k] = Fold(kind, g[(1 .. k) \ {k}], seq[k])
    BY <2>1, <2>2, <2>3, Zenon DEF Folds
  <2>5. f[k] = g[1 .. k] /\ f[k - 1] = g[1 .. k - 1]
    OBVIOUS
  <2> HIDE DEF f
  <2> QED
    BY <2>2, <2>4, <2>5
<1>3. f[n] = g[1 .. n]
  OBVIOUS
<1> QED
  BY <1>1, <1>2, <1>3 DEF Steps, Folded

LEMMA LinesFolded ==
    ASSUME NEW headers, Len(headers) \in Nat, DOMAIN headers = 1 .. Len(headers)
    PROVE  Folded("lines", <<>>, headers, HeaderLines(headers))
<1> DEFINE g == CHOOSE g : g = [s \in SUBSET DOMAIN headers |->
                  IF s = {} THEN <<>> ELSE g[s \ {Max(s)}] \o <<headers[Max(s)]>> \o EndOfLine]
<1>1. HeaderLines(headers) = g[DOMAIN headers]
  BY ZenonT(60) DEF HeaderLines, FoldLeft, MapThenFoldSet
<1>2. \A f, s : Fold("lines", f[s \ {Max(s)}], headers[Max(s)]) = f[s \ {Max(s)}] \o <<headers[Max(s)]>> \o EndOfLine
  BY DEF Fold
<1>3. PICK h : Folds(h, "lines", <<>>, headers, Len(headers))
  BY FoldExists
<1>4. h = [s \in SUBSET DOMAIN headers |->
                  IF s = {} THEN <<>> ELSE h[s \ {Max(s)}] \o <<headers[Max(s)]>> \o EndOfLine]
  BY <1>2, <1>3, Zenon DEF Folds
<1>5. g = [s \in SUBSET DOMAIN headers |->
                  IF s = {} THEN <<>> ELSE g[s \ {Max(s)}] \o <<headers[Max(s)]>> \o EndOfLine]
  BY <1>4, Zenon
<1> HIDE DEF g
<1>6. Folds(g, "lines", <<>>, headers, Len(headers))
  BY <1>2, <1>5, Zenon DEF Folds
<1> QED
  BY <1>1, <1>6, FoldSteps

LEMMA MethodFolded ==
    ASSUME NEW asked, Len(asked.method) \in Nat, DOMAIN asked.method = 1 .. Len(asked.method)
    PROVE  \E sum : Folded("method", 0, asked.method, sum) /\ MethodOf(asked) = sum % MethodMod
<1> DEFINE seq == asked.method
           g == CHOOSE g : g = [s \in SUBSET DOMAIN seq |->
                  IF s = {} THEN 0 ELSE g[s \ {Max(s)}] + seq[Max(s)]]
<1>1. MethodOf(asked) = g[DOMAIN seq] % MethodMod
  BY ZenonT(60) DEF MethodOf, FoldLeft, MapThenFoldSet
<1>2. \A f, s : Fold("method", f[s \ {Max(s)}], seq[Max(s)]) = f[s \ {Max(s)}] + seq[Max(s)]
  BY Zenon DEF Fold
<1>3. PICK h : Folds(h, "method", 0, seq, Len(seq))
  BY FoldExists
<1>4. h = [s \in SUBSET DOMAIN seq |->
                  IF s = {} THEN 0 ELSE h[s \ {Max(s)}] + seq[Max(s)]]
  BY <1>2, <1>3, Zenon DEF Folds
<1>5. g = [s \in SUBSET DOMAIN seq |->
                  IF s = {} THEN 0 ELSE g[s \ {Max(s)}] + seq[Max(s)]]
  BY <1>4, Zenon
<1> HIDE DEF g
<1>6. Folds(g, "method", 0, seq, Len(seq))
  BY <1>2, <1>5, Zenon DEF Folds
<1> QED
  BY <1>1, <1>6, FoldSteps

LEMMA RequestFolded ==
    ASSUME NEW s, NEW data, Len(data) \in Nat, DOMAIN data = 1 .. Len(data)
    PROVE  Folded("request", [socket |-> s, rest |-> data, done |-> FALSE], data, scanned(s, data))
<1> DEFINE base == [socket |-> s, rest |-> data, done |-> FALSE]
           g == CHOOSE g : g = [d \in SUBSET DOMAIN data |->
                  IF d = {} THEN base ELSE scanCharacter(g[d \ {Max(d)}], data[Max(d)])]
<1>1. scanned(s, data) = g[DOMAIN data]
  BY ZenonT(60) DEF scanned, FoldLeft, MapThenFoldSet
<1>2. \A f, d : Fold("request", f[d \ {Max(d)}], data[Max(d)]) = scanCharacter(f[d \ {Max(d)}], data[Max(d)])
  BY Zenon DEF Fold
<1>3. PICK h : Folds(h, "request", base, data, Len(data))
  BY FoldExists
<1>4. h = [d \in SUBSET DOMAIN data |->
                  IF d = {} THEN base ELSE scanCharacter(h[d \ {Max(d)}], data[Max(d)])]
  BY <1>2, <1>3, Zenon DEF Folds
<1>5. g = [d \in SUBSET DOMAIN data |->
                  IF d = {} THEN base ELSE scanCharacter(g[d \ {Max(d)}], data[Max(d)])]
  BY <1>4, Zenon
<1> HIDE DEF g
<1>6. Folds(g, "request", base, data, Len(data))
  BY <1>2, <1>5, Zenon DEF Folds
<1> QED
  BY <1>1, <1>6, FoldSteps

LEMMA ResponseFolded ==
    ASSUME NEW c, NEW data, Len(data) \in Nat, DOMAIN data = 1 .. Len(data)
    PROVE  \E loop :
             /\ Folded("response", [client |-> c, rest |-> data], data, loop)
             /\ ClientReceives(c, data) =
                  IF c.bodySignaled THEN pageReceived(c, data)
                  ELSE IF loop.client.bodySignaled THEN pageReceived(loop.client, loop.rest)
                  ELSE loop.client
<1> DEFINE base == [client |-> c, rest |-> data]
           g == CHOOSE g : g = [d \in SUBSET DOMAIN data |->
                  IF d = {} THEN base ELSE scanHead(g[d \ {Max(d)}], data[Max(d)])]
           loop == g[DOMAIN data]
<1>1. ClientReceives(c, data) =
                  IF c.bodySignaled THEN pageReceived(c, data)
                  ELSE IF loop.client.bodySignaled THEN pageReceived(loop.client, loop.rest)
                  ELSE loop.client
  BY ZenonT(60) DEF ClientReceives, FoldLeft, MapThenFoldSet
<1>2. \A f, d : Fold("response", f[d \ {Max(d)}], data[Max(d)]) = scanHead(f[d \ {Max(d)}], data[Max(d)])
  BY Zenon DEF Fold
<1>3. PICK h : Folds(h, "response", base, data, Len(data))
  BY FoldExists
<1>4. h = [d \in SUBSET DOMAIN data |->
                  IF d = {} THEN base ELSE scanHead(h[d \ {Max(d)}], data[Max(d)])]
  BY <1>2, <1>3, Zenon DEF Folds
<1>5. g = [d \in SUBSET DOMAIN data |->
                  IF d = {} THEN base ELSE scanHead(g[d \ {Max(d)}], data[Max(d)])]
  BY <1>4, Zenon
<1> HIDE DEF g
<1>6. Folds(g, "response", base, data, Len(data))
  BY <1>2, <1>5, Zenon DEF Folds
<1> QED
  BY <1>1, <1>6, FoldSteps

-----------------------------------------------------------------------------
(* The text of a request                                                    *)

Symbol ==
    {CR, LF, SP} \union ({"method"} \X Nat) \union ({"query"} \X STRING)
        \union ({"header"} \X STRING \X Nat) \union Seq(STRING)

\* u is s and t behind it, of m and n members.
Behind(u, s, t, m, n) ==
    /\ m \in Nat /\ n \in Nat /\ Len(u) = m + n
    /\ \A i \in 1 .. m : u[i] = s[i]
    /\ \A i \in 1 .. n : u[m + i] = t[i]

LEMMA Joined ==
    ASSUME NEW S, NEW s \in Seq(S), NEW t \in Seq(S), NEW m, Len(s) = m, NEW n, Len(t) = n,
           NEW u, u = s \o t
    PROVE  u \in Seq(S) /\ Behind(u, s, t, m, n)
<1>1. m \in Nat /\ n \in Nat /\ u \in Seq(S) /\ Len(u) = m + n
  <2>1. Len(s) \in Nat /\ Len(t) \in Nat
    OBVIOUS
  <2>2. s \o t \in Seq(S)
    OBVIOUS
  <2>3. Len(s \o t) = Len(s) + Len(t)
    BY ConcatProperties, Zenon
  <2> QED
    BY <2>1, <2>2, <2>3
<1>2. \A i \in 1 .. m + n : (s \o t)[i] = IF i <= m THEN s[i] ELSE t[i - m]
  OBVIOUS
<1>3. \A i \in 1 .. m : i \in 1 .. m + n /\ i <= m
  BY <1>1
<1>4. \A i \in 1 .. n : m + i \in 1 .. m + n /\ ~(m + i <= m) /\ (m + i) - m = i
  BY <1>1
<1>5. ASSUME NEW i \in 1 .. n PROVE u[m + i] = t[i]
  BY <1>2, <1>4, Zenon
<1>6. ASSUME NEW i \in 1 .. m PROVE u[i] = s[i]
  BY <1>2, <1>3, Zenon
<1> QED
  BY <1>1, <1>5, <1>6 DEF Behind

\* A request as RequestsAssumption has it.
Asked(asked) ==
    /\ asked.method \in Seq(Nat)
    /\ asked.query \in STRING
    /\ asked.headers \in Seq({"header"} \X STRING \X Nat)
    /\ asked.body \in Seq(Seq(STRING))
    /\ asked.headers = <<>> => asked.body = <<>>

\* Every header is followed by an end of line.
InLines(text, headers, k) ==
    /\ text \in Seq(Symbol)
    /\ Len(text) = 3 * k
    /\ \A i \in 1 .. k : text[3 * i - 2] = headers[i] /\ text[3 * i - 1] = CR /\ text[3 * i] = LF

LEMMA EndOfLineIs ==
    EndOfLine \in Seq(Symbol) /\ Len(EndOfLine) = 2 /\ EndOfLine[1] = CR /\ EndOfLine[2] = LF
<1>1. CR \in Symbol /\ LF \in Symbol
  BY DEF Symbol
<1> HIDE DEF CR, LF
<1> QED
  BY <1>1 DEF EndOfLine

LEMMA OneMoreLine ==
    ASSUME NEW text, NEW headers, NEW k \in Nat, NEW more, InLines(text, headers, k),
           headers[k + 1] \in Symbol, more = text \o <<headers[k + 1]>> \o EndOfLine
    PROVE  InLines(more, headers, k + 1)
<1> DEFINE x == headers[k + 1]
           t == text \o <<x>>
<1>1. text \in Seq(Symbol) /\ Len(text) = 3 * k
  BY DEF InLines
<1>2. <<x>> \in Seq(Symbol) /\ Len(<<x>>) = 1 /\ <<x>>[1] = x
  OBVIOUS
<1> HIDE DEF x
<1>3. t \in Seq(Symbol) /\ Behind(t, text, <<x>>, 3 * k, 1)
  BY <1>1, <1>2, Joined
<1>4. more = t \o EndOfLine
  BY DEF x
<1> HIDE DEF t
<1>5. more \in Seq(Symbol) /\ Behind(more, t, EndOfLine, 3 * k + 1, 2)
  <2>1. Len(t) = 3 * k + 1
    BY <1>3 DEF Behind
  <2> QED
    BY <2>1, <1>3, <1>4, EndOfLineIs, Joined
<1>6. more[3 * k + 1] = x /\ more[3 * k + 2] = CR /\ more[3 * k + 3] = LF
  <2>1. t[3 * k + 1] = x
    BY <1>2, <1>3 DEF Behind
  <2> QED
    <3>1. 3 * k + 1 \in 1 .. 3 * k + 1 /\ (3 * k + 1) + 1 = 3 * k + 2 /\ (3 * k + 1) + 2 = 3 * k + 3
      OBVIOUS
    <3>2. more[3 * k + 1] = t[3 * k + 1]
      BY <3>1, <1>5 DEF Behind
    <3>3. more[(3 * k + 1) + 1] = EndOfLine[1] /\ more[(3 * k + 1) + 2] = EndOfLine[2]
      <4>1. 1 \in 1 .. 2 /\ 2 \in 1 .. 2
        OBVIOUS
      <4> QED
        BY <4>1, <1>5, Zenon DEF Behind
    <3> QED
      BY <2>1, <3>1, <3>2, <3>3, EndOfLineIs
<1>7. ASSUME NEW i \in 1 .. k + 1
      PROVE  more[3 * i - 2] = headers[i] /\ more[3 * i - 1] = CR /\ more[3 * i] = LF
  <2>1. CASE i = k + 1
    <3>1. 3 * i - 2 = 3 * k + 1 /\ 3 * i - 1 = 3 * k + 2 /\ 3 * i = 3 * k + 3
      BY <2>1
    <3> QED
      BY <2>1, <3>1, <1>6 DEF x
  <2>2. CASE i # k + 1
    <3>1. i \in 1 .. k /\ 3 * i - 2 \in 1 .. 3 * k /\ 3 * i - 1 \in 1 .. 3 * k /\ 3 * i \in 1 .. 3 * k
      BY <2>2
    <3>2. text[3 * i - 2] = headers[i] /\ text[3 * i - 1] = CR /\ text[3 * i] = LF
      BY <3>1 DEF InLines
    <3>3. \A j \in 1 .. 3 * k : more[j] = text[j]
      BY <1>3, <1>5 DEF Behind
    <3> QED
      BY <3>1, <3>2, <3>3
  <2> QED
    BY <2>1, <2>2
<1> QED
  <2>1. Len(more) = 3 * (k + 1)
    <3>1. Len(more) = (3 * k + 1) + 2
      BY <1>5 DEF Behind
    <3> QED
      BY <3>1
  <2> QED
    BY <2>1, <1>5, <1>7 DEF InLines

LEMMA HeaderLinesAre ==
    ASSUME NEW headers \in Seq({"header"} \X STRING \X Nat)
    PROVE  InLines(HeaderLines(headers), headers, Len(headers))
<1> DEFINE n == Len(headers)
<1>1. n \in Nat /\ DOMAIN headers = 1 .. n /\ \A k \in 1 .. n : headers[k] \in Symbol
  <2>1. \A k \in 1 .. n : headers[k] \in {"header"} \X STRING \X Nat
    OBVIOUS
  <2> QED
    BY <2>1 DEF Symbol
<1> HIDE DEF n
<1>2. PICK f : Steps(f, "lines", <<>>, headers) /\ HeaderLines(headers) = f[n]
  <2>1. Folded("lines", <<>>, headers, HeaderLines(headers))
    BY <1>1, LinesFolded DEF n
  <2> QED
    BY <2>1 DEF Folded, n
<1> DEFINE S == {k \in 0 .. n : InLines(f[k], headers, k)}
<1>3. 0 \in S
  <2>1. f[0] = <<>>
    BY <1>2 DEF Steps
  <2>2. InLines(<<>>, headers, 0)
    BY DEF InLines
  <2> QED
    BY <2>1, <2>2, <1>1
<1>4. ASSUME NEW k \in 1 .. n, k - 1 \in S PROVE k \in S
  <2>1. f[k] = f[k - 1] \o <<headers[k]>> \o EndOfLine
    BY <1>2, Zenon DEF Steps, Fold, n
  <2>2. k - 1 \in Nat /\ (k - 1) + 1 = k /\ headers[k] \in Symbol
    BY <1>1
  <2>3. InLines(f[k], headers, (k - 1) + 1)
    BY <1>4, <2>1, <2>2, OneMoreLine
  <2> QED
    BY <2>2, <2>3
<1> HIDE DEF S
<1>5. 0 .. n \subseteq S
  <2>1. n \in Nat
    BY <1>1
  <2> QED
    BY <2>1, <1>3, <1>4, UpTo
<1>6. n \in S
  BY <1>1, <1>5
<1> QED
  BY <1>2, <1>6 DEF S, n

\* Where the first line, the head and all of a request end.
FirstEnd(asked) == Len(asked.method) + 4
HeadEnd(asked) == FirstEnd(asked) + 3 * Len(asked.headers)

FirstLine(text, asked) ==
    /\ \A i \in 1 .. Len(asked.method) : text[i] = Method(asked.method[i])
    /\ text[Len(asked.method) + 1] = SP
    /\ text[Len(asked.method) + 2] = Query(asked.query)
    /\ text[Len(asked.method) + 3] = CR
    /\ text[Len(asked.method) + 4] = LF

LEMMA RequestLineIs ==
    ASSUME NEW asked, Asked(asked)
    PROVE  /\ RequestLine(asked) \in Seq(Symbol)
           /\ Len(RequestLine(asked)) = FirstEnd(asked)
           /\ FirstLine(RequestLine(asked), asked)
<1> DEFINE n == Len(asked.method)
           name == [i \in DOMAIN asked.method |-> Method(asked.method[i])]
           query == <<SP, Query(asked.query)>>
           most == name \o query
<1>1. n \in Nat /\ DOMAIN asked.method = 1 .. n /\ \A i \in 1 .. n : asked.method[i] \in Nat
  BY DEF Asked
<1>2. name \in Seq(Symbol) /\ Len(name) = n /\ \A i \in 1 .. n : name[i] = Method(asked.method[i])
  <2>1. \A i \in 1 .. n : Method(asked.method[i]) \in Symbol
    BY <1>1 DEF Method, Symbol
  <2> QED
    BY <1>1, <2>1
<1>3. query \in Seq(Symbol) /\ Len(query) = 2 /\ query[1] = SP /\ query[2] = Query(asked.query)
  <2>1. SP \in Symbol
    BY DEF Symbol
  <2>2. Query(asked.query) \in Symbol
    BY DEF Asked, Query, Symbol
  <2> HIDE DEF SP
  <2> QED
    BY <2>1, <2>2
<1> HIDE DEF name, query
<1>4. most \in Seq(Symbol) /\ Behind(most, name, query, n, 2)
  BY <1>2, <1>3, Joined
<1>5. RequestLine(asked) = most \o EndOfLine
  BY DEF RequestLine, name, query
<1> HIDE DEF most
<1>6. RequestLine(asked) \in Seq(Symbol) /\ Behind(RequestLine(asked), most, EndOfLine, n + 2, 2)
  <2>1. Len(most) = n + 2
    BY <1>4 DEF Behind
  <2> QED
    BY <2>1, <1>4, <1>5, EndOfLineIs, Joined
<1>7. \A i \in 1 .. n : RequestLine(asked)[i] = Method(asked.method[i])
  BY <1>1, <1>2, <1>4, <1>6 DEF Behind
<1>8. RequestLine(asked)[n + 1] = SP /\ RequestLine(asked)[n + 2] = Query(asked.query)
  <2>1. most[n + 1] = SP /\ most[n + 2] = Query(asked.query)
    BY <1>3, <1>4 DEF Behind
  <2>2. \A i \in 1 .. n + 2 : RequestLine(asked)[i] = most[i]
    BY <1>6 DEF Behind
  <2> HIDE DEF n
  <2>3. n + 1 \in 1 .. n + 2 /\ n + 2 \in 1 .. n + 2
    BY <1>1
  <2> QED
    BY <2>1, <2>2, <2>3
<1>9. RequestLine(asked)[n + 3] = CR /\ RequestLine(asked)[n + 4] = LF
  <2>1. (n + 2) + 1 = n + 3 /\ (n + 2) + 2 = n + 4
    BY <1>1
  <2> QED
    BY <2>1, <1>6, EndOfLineIs DEF Behind
<1> QED
  BY <1>1, <1>6, <1>7, <1>8, <1>9 DEF FirstLine, FirstEnd, Behind

\* text is what asked is written as.
IsText(text, asked) ==
    /\ text \in Seq(Symbol)
    /\ Len(text) = HeadEnd(asked) + 2 + Len(asked.body)
    /\ FirstLine(text, asked)
    /\ \A k \in 1 .. Len(asked.headers) :
        /\ text[FirstEnd(asked) + (3 * k - 2)] = asked.headers[k]
        /\ text[FirstEnd(asked) + (3 * k - 1)] = CR
        /\ text[FirstEnd(asked) + 3 * k] = LF
    /\ text[HeadEnd(asked) + 1] = CR /\ text[HeadEnd(asked) + 2] = LF
    /\ \A i \in 1 .. Len(asked.body) : text[HeadEnd(asked) + 2 + i] = asked.body[i]

LEMMA Places ==
    ASSUME NEW m \in Nat, NEW h \in Nat
    PROVE  /\ \A i \in 1 .. m + 3 * h : i \in 1 .. m + 3 * h + 2
           /\ \A i \in 1 .. m : i \in 1 .. m + 3 * h
           /\ \A i \in 1 .. 3 * h : m + i \in 1 .. m + 3 * h
           /\ m + 3 * h + 1 \in 1 .. m + 3 * h + 2
           /\ m + 3 * h + 2 \in 1 .. m + 3 * h + 2
  OBVIOUS

LEMMA WrittenIs ==
    ASSUME NEW asked, Asked(asked)
    PROVE  IsText(Written(asked), asked)
<1> DEFINE first == RequestLine(asked)
           lines == HeaderLines(asked.headers)
           m == FirstEnd(asked)
           h == Len(asked.headers)
           b == Len(asked.body)
           one == first \o lines
           two == one \o EndOfLine
           all == two \o asked.body
<1>1. /\ m \in Nat /\ h \in Nat /\ b \in Nat /\ Len(asked.method) \in Nat /\ m = Len(asked.method) + 4
      /\ HeadEnd(asked) = m + 3 * h
  BY DEF Asked, FirstEnd, HeadEnd
<1>2. first \in Seq(Symbol) /\ Len(first) = m /\ FirstLine(first, asked)
  BY RequestLineIs
<1>3. InLines(lines, asked.headers, h)
  BY HeaderLinesAre DEF Asked
<1>4. lines \in Seq(Symbol) /\ Len(lines) = 3 * h
  BY <1>3 DEF InLines
<1>5. asked.body \in Seq(Symbol) /\ Len(asked.body) = b
  <2>1. asked.body \in Seq(Seq(STRING)) /\ Seq(STRING) \subseteq Symbol
    BY DEF Asked, Symbol
  <2> QED
    BY <2>1, SeqMonotonic
<1>6. Written(asked) = all
  BY DEF Written
<1> HIDE DEF first, lines, m, h, b
<1>7. one \in Seq(Symbol) /\ Behind(one, first, lines, m, 3 * h)
  BY <1>2, <1>4, Joined
<1> HIDE DEF one
<1>8. two \in Seq(Symbol) /\ Behind(two, one, EndOfLine, m + 3 * h, 2)
  <2>1. Len(one) = m + 3 * h
    BY <1>7 DEF Behind
  <2> QED
    BY <2>1, <1>7, EndOfLineIs, Joined
<1> HIDE DEF two
<1>9. all \in Seq(Symbol) /\ Behind(all, two, asked.body, m + 3 * h + 2, b)
  <2>1. Len(two) = m + 3 * h + 2
    BY <1>8 DEF Behind
  <2> QED
    BY <2>1, <1>8, <1>5, Joined
<1> HIDE DEF all
<1>10. \A i \in 1 .. m + 3 * h : all[i] = one[i]
  <2>1. \A i \in 1 .. m + 3 * h : i \in 1 .. m + 3 * h + 2
    BY <1>1, Places
  <2>2. \A i \in 1 .. m + 3 * h + 2 : all[i] = two[i]
    BY <1>9 DEF Behind
  <2>3. \A i \in 1 .. m + 3 * h : two[i] = one[i]
    BY <1>8 DEF Behind
  <2> QED
    BY <2>1, <2>2, <2>3, Zenon
<1>11. (\A i \in 1 .. m : all[i] = first[i]) /\ \A i \in 1 .. 3 * h : all[m + i] = lines[i]
  <2>1. /\ \A i \in 1 .. m : i \in 1 .. m + 3 * h
        /\ \A i \in 1 .. 3 * h : m + i \in 1 .. m + 3 * h
    BY <1>1, Places
  <2>2. (\A i \in 1 .. m : one[i] = first[i]) /\ \A i \in 1 .. 3 * h : one[m + i] = lines[i]
    BY <1>7 DEF Behind
  <2> QED
    BY <2>1, <2>2, <1>10, Zenon
<1>12. all[m + 3 * h + 1] = CR /\ all[m + 3 * h + 2] = LF
  <2>1. two[m + 3 * h + 1] = CR /\ two[m + 3 * h + 2] = LF
    BY <1>8, EndOfLineIs DEF Behind
  <2> QED
    <3>1. m + 3 * h + 1 \in 1 .. m + 3 * h + 2 /\ m + 3 * h + 2 \in 1 .. m + 3 * h + 2
      BY <1>1, Places
    <3>2. \A i \in 1 .. m + 3 * h + 2 : all[i] = two[i]
      BY <1>9 DEF Behind
    <3> QED
      BY <2>1, <3>1, <3>2, Zenon
<1>13. FirstLine(all, asked)
  <2>1. /\ Len(asked.method) + 1 \in 1 .. m /\ Len(asked.method) + 2 \in 1 .. m
        /\ Len(asked.method) + 3 \in 1 .. m /\ Len(asked.method) + 4 \in 1 .. m
        /\ \A i \in 1 .. Len(asked.method) : i \in 1 .. m
    BY <1>1
  <2> QED
    BY <2>1, <1>2, <1>11 DEF FirstLine
<1>14. ASSUME NEW k \in 1 .. h
       PROVE  /\ all[m + (3 * k - 2)] = asked.headers[k]
              /\ all[m + (3 * k - 1)] = CR
              /\ all[m + 3 * k] = LF
  <2>1. 3 * k - 2 \in 1 .. 3 * h /\ 3 * k - 1 \in 1 .. 3 * h /\ 3 * k \in 1 .. 3 * h
    BY <1>1
  <2> QED
    BY <2>1, <1>3, <1>11 DEF InLines
<1> QED
  BY <1>1, <1>6, <1>9, <1>12, <1>13, <1>14 DEF IsText, Behind, m, h, b

-----------------------------------------------------------------------------
(* The answer                                                               *)

Fields ==
    {"state", "received", "released", "buffer", "stage", "crlfcount", "contentLength",
     "httpMethod", "requestSignaled", "scanned", "query", "answersIn", "heard", "body"}

\* t is s, but for what an answer changes.
Frame(s, t) ==
    /\ DOMAIN t = Fields
    /\ \A f \in Fields \ {"state", "stage", "buffer"} : t[f] = s[f]

\* What the sketch answers.
Begun(code) == <<>> \o (<<Status(code)>> \o EndOfLine)
Headed(code) ==
    IF Headers(code) = <<>> THEN Begun(code) ELSE Begun(code) \o (<<Header("Name", 0)>> \o EndOfLine)
Reply(code) ==
    IF code = 302 THEN Headed(code) \o EndOfLine ELSE (Headed(code) \o EndOfLine) \o Page(code)

\* u is t, with symbols behind what waits.
Wrote(s, t, u, symbols) ==
    Frame(s, u) /\ u.buffer = t.buffer \o symbols /\ u.stage = t.stage /\ u.state = t.state

LEMMA WriteIs ==
    ASSUME NEW s, NEW t, Frame(s, t), NEW symbols
    PROVE  Wrote(s, t, write(t, symbols), symbols)
<1> DEFINE u == write(t, symbols)
<1>1. DOMAIN u = Fields /\ u.buffer = t.buffer \o symbols /\ u.stage = t.stage /\ u.state = t.state
  BY DEF Frame, write, Fields
<1>2. ASSUME NEW f \in Fields \ {"state", "stage", "buffer"} PROVE u[f] = t[f]
  BY DEF write, Frame
<1> HIDE DEF u
<1>3. \A f \in Fields \ {"state", "stage", "buffer"} : u[f] = s[f]
  BY <1>2 DEF Frame
<1>4. Frame(s, u)
  BY <1>1, <1>3 DEF Frame
<1> QED
  BY <1>1, <1>4, Zenon DEF Wrote, u

LEMMA StageIs ==
    ASSUME NEW s, NEW t, Frame(s, t), NEW v, NEW u, u = [t EXCEPT !.stage = v]
    PROVE  Frame(s, u) /\ u.buffer = t.buffer /\ u.stage = v /\ u.state = t.state
<1>1. DOMAIN u = Fields /\ u.buffer = t.buffer /\ u.stage = v /\ u.state = t.state
  BY DEF Frame, Fields
<1>2. ASSUME NEW f \in Fields \ {"state", "stage", "buffer"} PROVE u[f] = t[f]
  BY DEF Frame
<1>3. \A f \in Fields \ {"state", "stage", "buffer"} : u[f] = s[f]
  BY <1>2 DEF Frame
<1>4. Frame(s, u)
  BY <1>1, <1>3 DEF Frame
<1> QED
  BY <1>1, <1>4

LEMMA CloseIs ==
    ASSUME NEW s, NEW t, Frame(s, t), NEW u, u = close(t)
    PROVE  /\ Frame(s, u) /\ u.buffer = t.buffer /\ u.stage = t.stage
           /\ u.state = IF t.state = "ESTABLISHED" THEN "CLOSING" ELSE t.state
<1>1. /\ DOMAIN u = Fields /\ u.buffer = t.buffer /\ u.stage = t.stage
      /\ u.state = IF t.state = "ESTABLISHED" THEN "CLOSING" ELSE t.state
  BY DEF Frame, Fields, close
<1>2. ASSUME NEW f \in Fields \ {"state", "stage", "buffer"} PROVE u[f] = t[f]
  BY DEF Frame, close
<1>3. \A f \in Fields \ {"state", "stage", "buffer"} : u[f] = s[f]
  BY <1>2 DEF Frame
<1>4. Frame(s, u)
  BY <1>1, <1>3 DEF Frame
<1> QED
  BY <1>1, <1>4

Connected(s) == s.state \in {"ESTABLISHED", "CLOSING"}

(* The answer is written into a buffer that is empty, as a whole.          *)
LEMMA RespondIs ==
    ASSUME NEW s, DOMAIN s = Fields, s.buffer = <<>>, Connected(s)
    PROVE  /\ Frame(s, respond(s)) /\ Answered(respond(s)) /\ Connected(respond(s))
           /\ respond(s).buffer = Reply(StatusFor(s.httpMethod, s.query))
<1> DEFINE code == StatusFor(s.httpMethod, s.query)
           s1 == [s EXCEPT !.stage = HTTP_SERVER_STAGE_RESPONSE]
           begun == beginResponse(s, code)
           headed == IF Headers(code) = <<>> THEN begun ELSE writeHeader(begun, "Name")
           s2 == [headed EXCEPT !.stage = HTTP_SERVER_STAGE_RESPONSE_BODY]
           s3 == beginResponseBody(headed)
           s4 == IF code = 302 THEN headed ELSE write(s3, Page(code))
           s5 == IF s4.stage < HTTP_SERVER_STAGE_RESPONSE_BODY THEN beginResponseBody(s4) ELSE s4
           s6 == close(s5)
           s7 == [s6 EXCEPT !.stage = HTTP_SERVER_STAGE_RESPONSE_END]
<1>1. respond(s) = s7
  BY Zenon DEF respond, endResponse
<1>2. Frame(s, s)
  BY DEF Frame
<1>3. Frame(s, s1) /\ s1.buffer = <<>> /\ s1.stage = 5 /\ s1.state = s.state
  BY <1>2, StageIs DEF HTTP_SERVER_STAGE_RESPONSE
<1>4. begun = write(s1, <<Status(code)>> \o EndOfLine)
  BY Zenon DEF beginResponse
<1> HIDE DEF s1, code
<1>5. Frame(s, begun) /\ begun.buffer = Begun(code) /\ begun.stage = 5 /\ begun.state = s.state
  <2>1. Wrote(s, s1, begun, (<<Status(code)>> \o EndOfLine))
    BY <1>3, <1>4, WriteIs, Zenon
  <2> QED
    BY <2>1, <1>3, Zenon DEF Begun, Wrote
<1> HIDE DEF begun
<1>6. Frame(s, headed) /\ headed.buffer = Headed(code) /\ headed.stage = 5 /\ headed.state = s.state
  <2>1. CASE Headers(code) = <<>>
    BY <2>1, <1>5 DEF Headed
  <2>2. CASE Headers(code) # <<>>
    <3>1. headed = write(begun, <<Header("Name", 0)>> \o EndOfLine)
      BY <2>2 DEF writeHeader
    <3> QED
      <4>1. Wrote(s, begun, headed, (<<Header("Name", 0)>> \o EndOfLine))
        BY <3>1, <1>5, WriteIs, Zenon
      <4> QED
        BY <4>1, <2>2, <1>5, Zenon DEF Headed, Wrote
  <2> QED
    BY <2>1, <2>2
<1> HIDE DEF headed
<1>7. Frame(s, s2) /\ s2.buffer = Headed(code) /\ s2.stage = 6 /\ s2.state = s.state
  BY <1>6, StageIs DEF HTTP_SERVER_STAGE_RESPONSE_BODY
<1>8. s3 = write(s2, EndOfLine)
  BY Zenon DEF beginResponseBody
<1> HIDE DEF s2
<1>9. Frame(s, s3) /\ s3.buffer = Headed(code) \o EndOfLine /\ s3.stage = 6 /\ s3.state = s.state
  <2>1. Wrote(s, s2, s3, EndOfLine)
    BY <1>7, <1>8, WriteIs, Zenon
  <2> QED
    BY <2>1, <1>7, Zenon DEF Wrote
<1>10. Frame(s, s5) /\ s5.buffer = Reply(code) /\ s5.state = s.state
  <2>1. CASE code = 302
    <3>1. s4 = headed
      BY <2>1
    <3>2. s4.stage < HTTP_SERVER_STAGE_RESPONSE_BODY
      BY <3>1, <1>6 DEF HTTP_SERVER_STAGE_RESPONSE_BODY
    <3>3. s5 = s3
      BY <3>1, <3>2, Zenon
    <3> HIDE DEF s3, s4, s5
    <3> QED
      BY <2>1, <3>3, <1>9, Zenon DEF Reply, Wrote
  <2>2. CASE code # 302
    <3>1. s4 = write(s3, Page(code))
      BY <2>2
    <3> HIDE DEF s3, s4
    <3>2. Frame(s, s4) /\ s4.buffer = Reply(code) /\ s4.stage = 6 /\ s4.state = s.state
      <4>1. Wrote(s, s3, s4, Page(code))
        BY <3>1, <1>9, WriteIs, Zenon
      <4>2. Frame(s, s4) /\ s4.buffer = s3.buffer \o Page(code) /\ s4.stage = s3.stage
            /\ s4.state = s3.state
        BY <4>1 DEF Wrote
      <4>3. Reply(code) = (Headed(code) \o EndOfLine) \o Page(code)
        BY <2>2 DEF Reply
      <4> QED
        BY <4>2, <4>3, <1>9, Zenon
    <3>3. s5 = s4
      BY <3>2 DEF HTTP_SERVER_STAGE_RESPONSE_BODY
    <3> HIDE DEF s5
    <3> QED
      BY <3>2, <3>3, Zenon
  <2> QED
    BY <2>1, <2>2
<1> HIDE DEF s3, s4, s5
<1>11. /\ Frame(s, s6) /\ s6.buffer = Reply(code)
       /\ s6.state = IF s.state = "ESTABLISHED" THEN "CLOSING" ELSE s.state
  BY <1>10, CloseIs
<1> HIDE DEF s6
<1>12. Frame(s, s7) /\ s7.buffer = Reply(code) /\ s7.stage = 7 /\ s7.state = s6.state
  BY <1>11, StageIs DEF HTTP_SERVER_STAGE_RESPONSE_END
<1> HIDE DEF s7
<1> QED
  BY <1>1, <1>11, <1>12 DEF code, Answered, HTTP_SERVER_STAGE_RESPONSE, Connected

-----------------------------------------------------------------------------
(* What HTTPServer has made of the first symbols of a request               *)

Callback ==
    ({"onRequest", "onHeaderReceived"} \X STRING) \union {<<"onBodyBegin">>, <<"onRequestEnd">>}

\* How much of a request the k-th callback takes.
Place(asked, k) ==
    IF k <= Len(asked.headers) + 1 THEN FirstEnd(asked) + 3 * (k - 1) ELSE HeadEnd(asked) + 2

\* The first k callbacks, and no other.
Told(heard, asked, k) ==
    /\ heard \in Seq(Callback)
    /\ Len(heard) = k
    /\ \A i \in 1 .. k : heard[i] = Calls(asked)[i]

\* The callbacks, each when its text is there; onRequestEnd behind them.
InTime(heard, asked, n) ==
    /\ heard \in Seq(Callback)
    /\ \A i \in 1 .. Len(heard) :
        /\ i <= Len(Calls(asked)) => heard[i] = Calls(asked)[i] /\ Place(asked, i) <= n
        /\ i > Len(Calls(asked)) => heard[i] = <<"onRequestEnd">>

\* A beginning of the body that n symbols of the request have.
Part(body, asked, n) ==
    \E j \in 0 .. Len(asked.body) :
        body = SubSeq(asked.body, 1, j) /\ (j = 0 \/ HeadEnd(asked) + 2 + j <= n)

\* The sums of the method's characters.
SumsOf(f, asked) ==
    Steps(f, "method", 0, asked.method) /\ MethodOf(asked) = f[Len(asked.method)] % MethodMod
Sums(asked) == CHOOSE f : SumsOf(f, asked)

\* line is the j symbols of asked behind the first from.
Line(line, asked, from, j) ==
    /\ line \in Seq(Symbol)
    /\ Len(line) = j
    /\ \A i \in 1 .. j : line[i] = Written(asked)[from + i]

\* A socket that received k symbols and has not answered.
Unanswered(s, k) ==
    /\ DOMAIN s = Fields
    /\ Connected(s)
    /\ s.received = k /\ s.released = 0 /\ s.buffer = <<>>
    /\ s.answersIn \in AnswersIn

InMethod(s, asked, n) ==
    /\ n \in 0 .. Len(asked.method)
    /\ s.stage = HTTP_SERVER_STAGE_INIT /\ s.requestSignaled = FALSE /\ s.crlfcount = 0
    /\ Line(s.scanned, asked, n, 0)
    /\ s.httpMethod = Sums(asked)[n] % MethodMod
    /\ Told(s.heard, asked, 0) /\ s.body = <<>>

InQuery(s, asked, n) ==
    /\ n \in Len(asked.method) + 1 .. Len(asked.method) + 3
    /\ s.stage = HTTP_SERVER_STAGE_QUERY_STRING /\ s.requestSignaled = FALSE /\ s.crlfcount = 0
    /\ Line(s.scanned, asked, Len(asked.method) + 1, n - (Len(asked.method) + 1))
    /\ s.httpMethod = MethodOf(asked)
    /\ Told(s.heard, asked, 0) /\ s.body = <<>>

\* The line ends in a row, j symbols behind header k; 0 is the first line.
LineEnds(asked, k, j) ==
    IF k < Len(asked.headers) /\ j > 0 THEN j - 1 ELSE (IF k = 0 THEN 0 ELSE 2) + j

InHeader(s, asked, k, j) ==
    /\ k = Len(asked.headers) /\ k > 0 => j < 2
    /\ s.stage = HTTP_SERVER_STAGE_HEADERS /\ s.requestSignaled = TRUE
    /\ s.crlfcount = LineEnds(asked, k, j)
    /\ Line(s.scanned, asked, FirstEnd(asked) + 3 * k, j)
    /\ s.httpMethod = MethodOf(asked) /\ s.query = asked.query
    /\ Told(s.heard, asked, k + 1) /\ s.body = <<>>

InHeaders(s, asked, n) ==
    \E k \in 0 .. Len(asked.headers), j \in 0 .. 2 :
        n = FirstEnd(asked) + 3 * k + j /\ InHeader(s, asked, k, j)

InBody(s, asked, n) ==
    /\ asked.headers # <<>>
    /\ n \in HeadEnd(asked) + 2 .. HeadEnd(asked) + 2 + Len(asked.body)
    /\ s.stage = HTTP_SERVER_STAGE_BODY /\ s.requestSignaled = TRUE /\ s.crlfcount = 4
    /\ s.httpMethod = MethodOf(asked) /\ s.query = asked.query
    /\ InTime(s.heard, asked, n) /\ Len(s.heard) >= Len(Calls(asked))
    /\ s.body = SubSeq(asked.body, 1, n - (HeadEnd(asked) + 2))

InHead(s, asked, n) == InMethod(s, asked, n) \/ InQuery(s, asked, n) \/ InHeaders(s, asked, n)

\* What the client is told.
ReplyTo(asked) == Reply(StatusFor(MethodOf(asked), asked.query))

AnsweredAt(s, asked, n, k) ==
    /\ DOMAIN s = Fields
    /\ Connected(s) /\ Answered(s)
    /\ s.received = k
    /\ s.released \in 0 .. Len(ReplyTo(asked))
    /\ s.buffer = SubSeq(ReplyTo(asked), s.released + 1, Len(ReplyTo(asked)))
    /\ InTime(s.heard, asked, n)
    /\ Part(s.body, asked, n)

-----------------------------------------------------------------------------
(* The method's sum modulo its width, and the calls of a request            *)

LEMMA SumsAre ==
    ASSUME NEW asked, Asked(asked)
    PROVE  SumsOf(Sums(asked), asked)
<1>1. Len(asked.method) \in Nat /\ DOMAIN asked.method = 1 .. Len(asked.method)
  BY DEF Asked
<1>2. \E f : SumsOf(f, asked)
  <2>1. PICK sum : Folded("method", 0, asked.method, sum) /\ MethodOf(asked) = sum % MethodMod
    BY <1>1, MethodFolded
  <2> QED
    BY <2>1, Zenon DEF Folded, SumsOf
<1> QED
  BY <1>2, Zenon DEF Sums

LEMMA SumType ==
    ASSUME NEW asked, Asked(asked)
    PROVE  \A n \in 0 .. Len(asked.method) : Sums(asked)[n] \in Nat
<1> DEFINE m == Len(asked.method)
           f == Sums(asked)
           S == {n \in 0 .. m : f[n] \in Nat}
<1>1. m \in Nat /\ \A k \in 1 .. m : asked.method[k] \in Nat
  BY DEF Asked
<1>2. f[0] = 0 /\ \A k \in 1 .. m : f[k] = f[k - 1] + asked.method[k]
  <2>1. Steps(f, "method", 0, asked.method)
    BY SumsAre, Zenon DEF SumsOf
  <2> HIDE DEF f
  <2> QED
    BY <2>1 DEF Steps, Fold
<1> HIDE DEF m, f
<1>3. 0 \in S
  BY <1>1, <1>2
<1>4. ASSUME NEW k \in 1 .. m, k - 1 \in S PROVE k \in S
  BY <1>1, <1>2, <1>4
<1> HIDE DEF S
<1>5. 0 .. m \subseteq S
  <2>1. m \in Nat
    BY <1>1
  <2> QED
    BY <2>1, <1>3, <1>4, UpTo
<1> QED
  BY <1>5 DEF S, m, f

LEMMA Remainder ==
    ASSUME NEW a \in Int, NEW q \in Int, NEW r \in 0 .. MethodMod - 1, a = MethodMod * q + r
    PROVE  a % MethodMod = r
<1>1. MethodMod \in Nat \ {0}
  BY HTTPServerAssumption
<1>2. /\ a % MethodMod \in 0 .. MethodMod - 1 /\ a \div MethodMod \in Int
      /\ a = MethodMod * (a \div MethodMod) + (a % MethodMod)
  BY <1>1
<1> DEFINE d == q - (a \div MethodMod)
<1>3. MethodMod * d = (a % MethodMod) - r
  BY <1>1, <1>2
<1>4. d \in Int
  BY <1>2
<1> HIDE DEF d
<1>5. ~(d >= 1)
  <2> SUFFICES ASSUME d >= 1 PROVE FALSE
    OBVIOUS
  <2>1. MethodMod * d >= MethodMod
    BY <1>1, <1>4
  <2> QED
    BY <1>1, <1>2, <1>3, <2>1
<1>6. ~(d <= -1)
  <2> SUFFICES ASSUME d <= -1 PROVE FALSE
    OBVIOUS
  <2>1. MethodMod * d <= -MethodMod
    BY <1>1, <1>4
  <2> QED
    BY <1>1, <1>2, <1>3, <2>1
<1>7. d = 0
  BY <1>4, <1>5, <1>6
<1> QED
  BY <1>1, <1>2, <1>3, <1>7

(* A byte can be summed up modulo its range at every step.                 *)
LEMMA ByteSum ==
    ASSUME NEW a \in Nat, NEW x \in Nat
    PROVE  ((a % MethodMod) + x) % MethodMod = (a + x) % MethodMod
<1> DEFINE M == MethodMod
           b == (a % M) + x
           q == a \div M
           p == b \div M
           r == b % M
<1>1. M \in Nat \ {0}
  BY HTTPServerAssumption
<1>2. a % M \in 0 .. M - 1 /\ q \in Int /\ a = M * q + (a % M)
  BY <1>1
<1>3. b \in Int
  BY <1>2
<1>4. r \in 0 .. M - 1 /\ p \in Int /\ b = M * p + r
  <2> HIDE DEF b
  <2> QED
    BY <1>1, <1>3
<1>5. a + x = M * q + (M * p + r)
  <2>1. M * q \in Int
    BY <1>1, <1>2
  <2>2. a + x = M * q + b
    BY <1>2, <2>1
  <2> QED
    BY <1>4, <2>2
<1> HIDE DEF b, p, q, r
<1>6. a + x = M * (q + p) + r /\ q + p \in Int
  BY <1>1, <1>2, <1>4, <1>5
<1>7. (a + x) % M = r
  BY <1>4, <1>6, Remainder
<1> QED
  BY <1>7 DEF r, b

LEMMA CallsAre ==
    ASSUME NEW asked, Asked(asked)
    PROVE  /\ Calls(asked) \in Seq(Callback)
           /\ Len(Calls(asked)) = Len(asked.headers) + IF asked.headers = <<>> THEN 1 ELSE 2
           /\ Calls(asked)[1] = <<"onRequest", asked.query>>
           /\ \A k \in 1 .. Len(asked.headers) :
                Calls(asked)[k + 1] = <<"onHeaderReceived", asked.headers[k][2]>>
           /\ asked.headers # <<>> => Calls(asked)[Len(asked.headers) + 2] = <<"onBodyBegin">>
<1> DEFINE h == Len(asked.headers)
           first == <<<<"onRequest", asked.query>>>>
           middle == [k \in DOMAIN asked.headers |-> <<"onHeaderReceived", asked.headers[k][2]>>]
           one == first \o middle
           last == IF asked.headers = <<>> THEN <<>> ELSE <<<<"onBodyBegin">>>>
           b == IF asked.headers = <<>> THEN 0 ELSE 1
<1>1. h \in Nat /\ DOMAIN asked.headers = 1 .. h /\ asked.query \in STRING
      /\ \A k \in 1 .. h : asked.headers[k][2] \in STRING
  <2>1. \A k \in 1 .. h : asked.headers[k] \in {"header"} \X STRING \X Nat
    BY DEF Asked
  <2> QED
    BY <2>1 DEF Asked
<1>2. first \in Seq(Callback) /\ Len(first) = 1 /\ first[1] = <<"onRequest", asked.query>>
  <2>1. <<"onRequest", asked.query>> \in Callback
    BY <1>1 DEF Callback
  <2> QED
    BY <2>1
<1>3. /\ middle \in Seq(Callback) /\ Len(middle) = h
      /\ \A k \in 1 .. h : middle[k] = <<"onHeaderReceived", asked.headers[k][2]>>
  <2>1. \A k \in 1 .. h : <<"onHeaderReceived", asked.headers[k][2]>> \in Callback
    BY <1>1 DEF Callback
  <2> HIDE DEF h
  <2> QED
    BY <1>1, <2>1
<1>4. last \in Seq(Callback) /\ Len(last) = b /\ (b = 1 => last[1] = <<"onBodyBegin">>)
  <2>1. <<"onBodyBegin">> \in Callback
    BY DEF Callback
  <2> QED
    BY <2>1
<1>5. Calls(asked) = one \o last
  BY DEF Calls
<1> HIDE DEF first, middle, last, h
<1>6. one \in Seq(Callback) /\ Behind(one, first, middle, 1, h)
  BY <1>2, <1>3, Joined
<1> HIDE DEF one
<1>7. Calls(asked) \in Seq(Callback) /\ Behind(Calls(asked), one, last, 1 + h, b)
  <2>1. Len(one) = 1 + h
    BY <1>6 DEF Behind
  <2> QED
    BY <2>1, <1>4, <1>5, <1>6, Joined
<1>8. Len(Calls(asked)) = (1 + h) + b /\ \A i \in 1 .. 1 + h : Calls(asked)[i] = one[i]
  BY <1>7 DEF Behind
<1>9. b = 1 => Calls(asked)[(1 + h) + 1] = <<"onBodyBegin">>
  BY <1>7, <1>4 DEF Behind
<1>10. one[1] = first[1] /\ \A k \in 1 .. h : one[1 + k] = middle[k]
  BY <1>6 DEF Behind
<1>11. 1 \in 1 .. 1 + h /\ \A k \in 1 .. h : k + 1 \in 1 .. 1 + h /\ k + 1 = 1 + k
  BY <1>1
<1>12. Calls(asked)[1] = <<"onRequest", asked.query>>
  BY <1>2, <1>8, <1>10, <1>11
<1>13. \A k \in 1 .. h : Calls(asked)[k + 1] = <<"onHeaderReceived", asked.headers[k][2]>>
  BY <1>3, <1>8, <1>10, <1>11
<1>14. (1 + h) + 1 = h + 2 /\ (1 + h) + 0 = h + 1 /\ (b = 0 \/ b = 1)
  BY <1>1
<1> QED
  BY <1>7, <1>8, <1>9, <1>12, <1>13, <1>14 DEF h

-----------------------------------------------------------------------------
(* The parser, a character at a time                                        *)

LEMMA LineGrows ==
    ASSUME NEW asked, Asked(asked), NEW from \in Nat, NEW j \in Nat, NEW line,
           Line(line, asked, from, j), from + j < Len(Written(asked))
    PROVE  Line(Append(line, Written(asked)[from + j + 1]), asked, from, j + 1)
<1> DEFINE c == Written(asked)[from + j + 1]
           more == Append(line, c)
<1>1. c \in Symbol
  <2>1. Written(asked) \in Seq(Symbol)
    BY WrittenIs DEF IsText
  <2>2. from + j + 1 \in 1 .. Len(Written(asked))
    BY <2>1
  <2> QED
    BY <2>1, <2>2, ElementOfSeq
<1>2. line \in Seq(Symbol) /\ Len(line) = j /\ \A i \in 1 .. j : line[i] = Written(asked)[from + i]
  BY DEF Line
<1> HIDE DEF c
<1>3. /\ more \in Seq(Symbol) /\ Len(more) = j + 1 /\ more[j + 1] = c
      /\ \A i \in 1 .. j : more[i] = line[i]
  BY <1>1, <1>2
<1>4. ASSUME NEW i \in 1 .. j + 1 PROVE more[i] = Written(asked)[from + i]
  <2>1. CASE i = j + 1
    <3>1. from + i = from + j + 1
      BY <2>1
    <3> QED
      BY <2>1, <3>1, <1>3 DEF c
  <2>2. CASE i # j + 1
    <3>1. i \in 1 .. j
      BY <2>2
    <3> QED
      BY <3>1, <1>2, <1>3
  <2> QED
    BY <2>1, <2>2
<1> QED
  BY <1>3, <1>4 DEF Line, c

LEMMA LineBegins ==
    ASSUME NEW asked, NEW from
    PROVE  Line(<<>>, asked, from, 0)
BY DEF Line

LEMMA ToldGrows ==
    ASSUME NEW asked, Asked(asked), NEW heard, NEW k \in Nat, Told(heard, asked, k),
           k < Len(Calls(asked))
    PROVE  Told(Append(heard, Calls(asked)[k + 1]), asked, k + 1)
<1> DEFINE c == Calls(asked)[k + 1]
           more == Append(heard, c)
<1>1. c \in Callback
  <2>1. Calls(asked) \in Seq(Callback)
    BY CallsAre
  <2>2. k + 1 \in 1 .. Len(Calls(asked))
    BY <2>1
  <2> QED
    BY <2>1, <2>2, ElementOfSeq
<1>2. heard \in Seq(Callback) /\ Len(heard) = k /\ \A i \in 1 .. k : heard[i] = Calls(asked)[i]
  BY DEF Told
<1> HIDE DEF c
<1>3. /\ more \in Seq(Callback) /\ Len(more) = k + 1 /\ more[k + 1] = c
      /\ \A i \in 1 .. k : more[i] = heard[i]
  BY <1>1, <1>2
<1>4. ASSUME NEW i \in 1 .. k + 1 PROVE more[i] = Calls(asked)[i]
  <2>1. CASE i = k + 1
    BY <2>1, <1>3 DEF c
  <2>2. CASE i # k + 1
    <3>1. i \in 1 .. k
      BY <2>2
    <3> QED
      BY <3>1, <1>2, <1>3
  <2> QED
    BY <2>1, <2>2
<1> QED
  BY <1>3, <1>4 DEF Told, c

LEMMA Stages ==
    /\ HTTP_SERVER_STAGE_INIT = 0 /\ HTTP_SERVER_STAGE_QUERY_STRING = 2
    /\ HTTP_SERVER_STAGE_HEADERS = 3 /\ HTTP_SERVER_STAGE_BODY = 4 /\ HTTP_SERVER_STAGE_RESPONSE = 5
BY DEF HTTP_SERVER_STAGE_INIT, HTTP_SERVER_STAGE_QUERY_STRING, HTTP_SERVER_STAGE_HEADERS,
       HTTP_SERVER_STAGE_BODY, HTTP_SERVER_STAGE_RESPONSE

LEMMA Lengths ==
    ASSUME NEW asked, Asked(asked)
    PROVE  /\ Len(asked.method) \in Nat /\ Len(asked.headers) \in Nat /\ Len(asked.body) \in Nat
           /\ FirstEnd(asked) = Len(asked.method) + 4
           /\ HeadEnd(asked) = FirstEnd(asked) + 3 * Len(asked.headers)
           /\ Len(Written(asked)) = HeadEnd(asked) + 2 + Len(asked.body)
           /\ FirstEnd(asked) \in Nat /\ HeadEnd(asked) \in Nat /\ Len(Written(asked)) \in Nat
           /\ HeadEnd(asked) + 2 \in Nat
           /\ asked.headers = <<>> <=> Len(asked.headers) = 0
           /\ asked.headers = <<>> => Len(asked.body) = 0
<1>1. Len(asked.method) \in Nat /\ Len(asked.headers) \in Nat /\ Len(asked.body) \in Nat
  BY DEF Asked
<1>2. Len(Written(asked)) = HeadEnd(asked) + 2 + Len(asked.body)
  BY WrittenIs DEF IsText
<1>3. asked.headers = <<>> <=> Len(asked.headers) = 0
  BY DEF Asked
<1>4. asked.headers = <<>> => Len(asked.body) = 0
  BY DEF Asked
<1>5. FirstEnd(asked) = Len(asked.method) + 4 /\ HeadEnd(asked) = FirstEnd(asked) + 3 * Len(asked.headers)
  BY DEF FirstEnd, HeadEnd
<1>6. FirstEnd(asked) \in Nat
  BY <1>1, <1>5
<1>7. HeadEnd(asked) \in Nat /\ HeadEnd(asked) + 2 \in Nat
  <2> DEFINE h == Len(asked.headers)
             f == FirstEnd(asked)
  <2>1. h \in Nat /\ f \in Nat /\ HeadEnd(asked) = f + 3 * h
    BY <1>1, <1>5, <1>6
  <2> HIDE DEF h, f
  <2> QED
    BY <2>1
<1>8. Len(Written(asked)) \in Nat
  BY <1>1, <1>2, <1>7
<1> QED
  BY <1>1, <1>2, <1>3, <1>4, <1>5, <1>6, <1>7, <1>8

LEMMA FirstInText ==
    ASSUME NEW asked, Asked(asked)
    PROVE  Len(asked.method) + 4 <= Len(Written(asked)) /\ Len(Written(asked)) \in Nat
<1> DEFINE m == Len(asked.method)
           h == Len(asked.headers)
           b == Len(asked.body)
<1>1. m \in Nat /\ h \in Nat /\ b \in Nat
  BY Lengths
<1>2. Len(Written(asked)) = ((m + 4) + 3 * h) + 2 + b
  BY Lengths
<1> HIDE DEF m, h, b
<1>3. m + 4 <= Len(Written(asked)) /\ Len(Written(asked)) \in Nat
  BY <1>1, <1>2
<1> QED
  BY <1>3 DEF m

LEMMA MethodGrows ==
    ASSUME NEW asked, Asked(asked), NEW s, NEW k, Unanswered(s, k), NEW n, InMethod(s, asked, n),
           n < Len(asked.method), NEW t, t = scanMethod(s, Written(asked)[n + 1])
    PROVE  Unanswered(t, k) /\ InMethod(t, asked, n + 1)
<1> DEFINE m == Len(asked.method)
           x == asked.method[n + 1]
<1>1. m \in Nat /\ n \in 0 .. m /\ n + 1 \in 1 .. m /\ x \in Nat
  <2>1. m \in Nat /\ n \in 0 .. m
    BY Lengths DEF InMethod
  <2>2. n + 1 \in 1 .. m
    BY <2>1
  <2> QED
    BY <2>1, <2>2 DEF Asked
<1>2. Written(asked)[n + 1] = Method(x)
  BY <1>1, WrittenIs DEF IsText, FirstLine
<1>3. Method(x) # SP /\ Method(x)[2] = x
  BY DEF Method, SP
<1>4. t = [s EXCEPT !.httpMethod = (s.httpMethod + x) % MethodMod]
  BY <1>2, <1>3 DEF scanMethod
<1>5. DOMAIN t = Fields /\ t.httpMethod = (s.httpMethod + x) % MethodMod
      /\ \A f \in Fields \ {"httpMethod"} : t[f] = s[f]
  BY <1>4 DEF Unanswered, Fields
<1>6. t.httpMethod = Sums(asked)[n + 1] % MethodMod
  <2>1. Sums(asked)[n] \in Nat
    BY <1>1, SumType
  <2>2. Sums(asked)[n + 1] = Sums(asked)[n] + x
    <3>1. Steps(Sums(asked), "method", 0, asked.method)
      BY SumsAre DEF SumsOf
    <3>2. (n + 1) - 1 = n
      BY <1>1
    <3> QED
      BY <1>1, <3>1, <3>2 DEF Steps, Fold
  <2>3. s.httpMethod = Sums(asked)[n] % MethodMod
    BY DEF InMethod
  <2> QED
    BY <1>1, <1>5, <2>1, <2>2, <2>3, ByteSum
<1>7. Unanswered(t, k)
  BY <1>5 DEF Unanswered, Connected, Fields
<1>8. /\ t.stage = s.stage /\ t.requestSignaled = s.requestSignaled /\ t.crlfcount = s.crlfcount
      /\ t.scanned = s.scanned /\ t.heard = s.heard /\ t.body = s.body
  BY <1>5 DEF Fields
<1>9. Line(t.scanned, asked, n + 1, 0)
  BY <1>8 DEF InMethod, Line
<1>10. n + 1 \in 0 .. m
  BY <1>1
<1> QED
  BY <1>6, <1>7, <1>8, <1>9, <1>10 DEF InMethod

LEMMA MethodEnds ==
    ASSUME NEW asked, Asked(asked), NEW s, NEW k, Unanswered(s, k),
           InMethod(s, asked, Len(asked.method)),
           NEW t, t = scanMethod(s, Written(asked)[Len(asked.method) + 1])
    PROVE  Unanswered(t, k) /\ InQuery(t, asked, Len(asked.method) + 1)
<1> DEFINE m == Len(asked.method)
<1>1. m \in Nat
  BY Lengths
<1>2. Written(asked)[m + 1] = SP
  BY WrittenIs DEF IsText, FirstLine
<1>3. t = [s EXCEPT !.stage = HTTP_SERVER_STAGE_QUERY_STRING]
  BY <1>2 DEF scanMethod
<1>4. DOMAIN t = Fields /\ t.stage = HTTP_SERVER_STAGE_QUERY_STRING
      /\ \A f \in Fields \ {"stage"} : t[f] = s[f]
  BY <1>3 DEF Unanswered, Fields
<1>5. Unanswered(t, k)
  BY <1>4 DEF Unanswered, Connected, Fields
<1>6. /\ t.httpMethod = s.httpMethod /\ t.requestSignaled = s.requestSignaled
      /\ t.crlfcount = s.crlfcount /\ t.scanned = s.scanned /\ t.heard = s.heard /\ t.body = s.body
  BY <1>4 DEF Fields
<1>7. t.httpMethod = MethodOf(asked)
  BY <1>6, SumsAre DEF InMethod, SumsOf
<1>8. Line(t.scanned, asked, m + 1, 0) /\ (m + 1) - (m + 1) = 0 /\ m + 1 \in m + 1 .. m + 3
  BY <1>1, <1>6 DEF InMethod, Line
<1> QED
  BY <1>4, <1>5, <1>6, <1>7, <1>8 DEF InMethod, InQuery

LEMMA ShortLine ==
    ASSUME NEW line, Len(line) \in Nat, Len(line) < 3, NEW a, NEW b, NEW c
    PROVE  ~EndsWith(line, <<a, b, c>>)
BY DEF EndsWith

LEMMA WholeLine ==
    ASSUME NEW line, Len(line) = 3, line[2] = CR, line[3] = LF, NEW a, line[1][1] = a
    PROVE  EndsWith(line, <<a, "\r", "\n">>) /\ line[Len(line) - 2] = line[1]
BY DEF EndsWith, CR, LF

LEMMA QueryGrows ==
    ASSUME NEW asked, Asked(asked), NEW s, NEW k, Unanswered(s, k), NEW n, InQuery(s, asked, n),
           n < Len(asked.method) + 3, NEW t, t = scanQuery(s, Written(asked)[n + 1])
    PROVE  Unanswered(t, k) /\ InQuery(t, asked, n + 1)
<1> DEFINE m == Len(asked.method)
           j == n - (m + 1)
           line == Append(s.scanned, Written(asked)[n + 1])
<1>1. m \in Nat /\ j \in Nat /\ j < 2 /\ n + 1 \in m + 1 .. m + 3 /\ (m + 1) + j = n
      /\ (n + 1) - (m + 1) = j + 1
  <2>1. m \in Nat /\ n \in m + 1 .. m + 3 /\ n < m + 3
    BY Lengths DEF InQuery
  <2> HIDE DEF m
  <2>2. m \in Int /\ n \in Int /\ m + 1 <= n /\ n <= m + 3 /\ n < m + 3
    BY <2>1
  <2> QED
    BY <2>1, <2>2
<1>2. n < Len(Written(asked))
  <2>1. m + 4 <= Len(Written(asked))
    BY FirstInText
  <2>2. Len(Written(asked)) \in Nat
    BY FirstInText
  <2> QED
    BY <1>1, <2>1, <2>2
<1>3. Line(s.scanned, asked, m + 1, j)
  BY DEF InQuery
<1> HIDE DEF j
<1>4. Line(line, asked, m + 1, j + 1)
  <2>1. m + 1 \in Nat /\ (m + 1) + j < Len(Written(asked)) /\ (m + 1) + j + 1 = n + 1
    BY <1>1, <1>2
  <2>2. Line(Append(s.scanned, Written(asked)[(m + 1) + j + 1]), asked, m + 1, j + 1)
    BY <1>1, <1>3, <2>1, LineGrows
  <2> QED
    BY <2>1, <2>2
<1>5. t = [s EXCEPT !.scanned = line]
  <2>1. Len(line) \in Nat /\ Len(line) < 3
    BY <1>1, <1>4 DEF Line
  <2>2. ~EndsWith(line, <<"query", "\r", "\n">>)
    BY <2>1, ShortLine
  <2> QED
    BY <2>2 DEF scanQuery
<1> HIDE DEF line
<1>6. DOMAIN t = Fields /\ t.scanned = line /\ \A f \in Fields \ {"scanned"} : t[f] = s[f]
  BY <1>5 DEF Unanswered, Fields
<1>7. Unanswered(t, k)
  BY <1>6 DEF Unanswered, Connected, Fields
<1>8. /\ t.httpMethod = s.httpMethod /\ t.requestSignaled = s.requestSignaled
      /\ t.crlfcount = s.crlfcount /\ t.stage = s.stage /\ t.heard = s.heard /\ t.body = s.body
  BY <1>6 DEF Fields
<1> QED
  BY <1>1, <1>4, <1>6, <1>7, <1>8 DEF InQuery

-----------------------------------------------------------------------------
(* What an answer consists of                                               *)

Codes == {200, 302, 404, 405}

Answer ==
    {CR, LF, Header("Name", 0), Text("temp"), Text("rest"), Text("error")}
        \union {Status(code) : code \in Codes}

LEMMA StatusType == ASSUME NEW m, NEW q PROVE StatusFor(m, q) \in Codes
BY DEF StatusFor, Codes

\* text is the answer with this status.
ReplyIs(text, code) ==
    /\ text \in Seq(Answer)
    /\ text[1] = Status(code) /\ text[2] = CR /\ text[3] = LF
    /\ code = 404 => Len(text) = 6 /\ text[4] = CR /\ text[5] = LF /\ text[6] = Text("error")
    /\ code # 404 =>
        /\ Len(text) = 8 + Len(Page(code))
        /\ text[4] = Header("Name", 0) /\ text[5] = CR /\ text[6] = LF
        /\ text[7] = CR /\ text[8] = LF
        /\ \A i \in 1 .. Len(Page(code)) : text[8 + i] = Page(code)[i]

LEMMA PageIs ==
    ASSUME NEW code \in Codes
    PROVE  /\ Page(code) \in Seq(Answer) /\ Len(Page(code)) \in Nat
           /\ code = 200 => Len(Page(code)) = 2 /\ Page(code)[1] = Text("temp")
           /\ code = 302 => Page(code) = <<>>
           /\ code = 404 => Len(Page(code)) = 1 /\ Page(code)[1] = Text("error")
<1>1. Text("temp") \in Answer /\ Text("rest") \in Answer /\ Text("error") \in Answer
  BY DEF Answer
<1>2. CASE code = 200
  <2>1. Page(code) = <<Text("temp"), Text("rest")>>
    BY <1>2 DEF Page
  <2>2. /\ <<Text("temp"), Text("rest")>> \in Seq(Answer) /\ Len(<<Text("temp"), Text("rest")>>) = 2
        /\ <<Text("temp"), Text("rest")>>[1] = Text("temp")
    BY <1>1
  <2>3. Page(code) \in Seq(Answer) /\ Len(Page(code)) = 2 /\ Page(code)[1] = Text("temp")
    BY <2>1, <2>2, Zenon
  <2> QED
    BY <1>2, <2>3
<1>3. CASE code = 302
  <2>1. Page(code) = <<>>
    BY <1>3 DEF Page
  <2>2. <<>> \in Seq(Answer) /\ Len(<<>>) \in Nat
    OBVIOUS
  <2>3. Page(code) \in Seq(Answer) /\ Len(Page(code)) \in Nat
    BY <2>1, <2>2, Zenon
  <2> QED
    BY <1>3, <2>1, <2>3
<1>4. CASE code # 200 /\ code # 302
  <2>1. Page(code) = <<Text("error")>>
    BY <1>4 DEF Page
  <2> QED
    BY <1>1, <1>4, <2>1
<1> QED
  BY <1>2, <1>3, <1>4

LEMMA ReplyHas ==
    ASSUME NEW code \in Codes
    PROVE  ReplyIs(Reply(code), code)
<1> DEFINE name == Header("Name", 0)
           end == <<CR, LF>>
           status == <<Status(code)>> \o EndOfLine
           header == <<name>> \o EndOfLine
           h == IF code = 404 THEN 3 ELSE 6
<1>1. CR \in Answer /\ LF \in Answer /\ name \in Answer /\ Status(code) \in Answer
  BY DEF Answer
<1> HIDE DEF name
<1>2. EndOfLine \in Seq(Answer) /\ Len(EndOfLine) = 2 /\ EndOfLine[1] = CR /\ EndOfLine[2] = LF
  BY <1>1 DEF EndOfLine
<1>3. <<>> \in Seq(Answer) /\ Len(<<>>) = 0
  OBVIOUS
<1>4. /\ status \in Seq(Answer) /\ Len(status) = 3
      /\ status[1] = Status(code) /\ status[2] = CR /\ status[3] = LF
  <2>1. <<Status(code)>> \in Seq(Answer) /\ Len(<<Status(code)>>) = 1 /\ <<Status(code)>>[1] = Status(code)
    BY <1>1
  <2>2. status \in Seq(Answer) /\ Behind(status, <<Status(code)>>, EndOfLine, 1, 2)
    BY <1>2, <2>1, Joined
  <2> HIDE DEF status
  <2> QED
    BY <1>2, <2>1, <2>2 DEF Behind
<1>5. /\ header \in Seq(Answer) /\ Len(header) = 3
      /\ header[1] = name /\ header[2] = CR /\ header[3] = LF
  <2>1. <<name>> \in Seq(Answer) /\ Len(<<name>>) = 1 /\ <<name>>[1] = name
    BY <1>1
  <2>2. header \in Seq(Answer) /\ Behind(header, <<name>>, EndOfLine, 1, 2)
    BY <1>2, <2>1, Joined
  <2> HIDE DEF header
  <2> QED
    BY <1>2, <2>1, <2>2 DEF Behind
<1>6. Begun(code) = status
  BY <1>4, ConcatEmptySeq DEF Begun
<1>7. Headers(code) = <<>> <=> code = 404
  BY DEF Headers
<1>8. /\ Headed(code) \in Seq(Answer) /\ Len(Headed(code)) = h
      /\ Headed(code)[1] = Status(code) /\ Headed(code)[2] = CR /\ Headed(code)[3] = LF
      /\ code # 404 => Headed(code)[4] = name /\ Headed(code)[5] = CR /\ Headed(code)[6] = LF
  <2>1. CASE code = 404
    <3>1. Headed(code) = status
      BY <2>1, <1>6, <1>7, Zenon DEF Headed
    <3> HIDE DEF status
    <3> QED
      BY <2>1, <3>1, <1>4
  <2>2. CASE code # 404
    <3>1. Headed(code) = status \o header
      BY <2>2, <1>6, <1>7, Zenon DEF Headed, name
    <3> HIDE DEF status, header
    <3>2. Headed(code) \in Seq(Answer) /\ Behind(Headed(code), status, header, 3, 3)
      BY <3>1, <1>4, <1>5, Joined
    <3> QED
      BY <2>2, <3>2, <1>4, <1>5 DEF Behind
  <2> QED
    BY <2>1, <2>2
<1> DEFINE head == Headed(code) \o EndOfLine
<1>9. head \in Seq(Answer) /\ Behind(head, Headed(code), EndOfLine, h, 2)
  <2> HIDE DEF h
  <2>1. Headed(code) \in Seq(Answer) /\ Len(Headed(code)) = h
    BY <1>8
  <2>2. EndOfLine \in Seq(Answer) /\ Len(EndOfLine) = 2
    BY <1>2
  <2> QED
    BY <2>1, <2>2, Joined
<1> HIDE DEF head, status, header
<1>10. /\ Len(head) = h + 2
       /\ head[1] = Status(code) /\ head[2] = CR /\ head[3] = LF
       /\ code = 404 => head[4] = CR /\ head[5] = LF
       /\ code # 404 => /\ head[4] = name /\ head[5] = CR /\ head[6] = LF
                        /\ head[7] = CR /\ head[8] = LF
  <2>1. h \in {3, 6} /\ (code = 404 => h = 3) /\ (code # 404 => h = 6)
    OBVIOUS
  <2> HIDE DEF h
  <2> QED
    BY <2>1, <1>2, <1>8, <1>9 DEF Behind
<1>11. CASE code = 302
  <2>1. Reply(code) = head
    BY <1>11 DEF Reply, head
  <2>2. Len(Page(code)) = 0
    BY <1>11, PageIs
  <2>3. /\ h = 6 /\ Len(head) = h + 2
        /\ head[1] = Status(code) /\ head[2] = CR /\ head[3] = LF
        /\ head[4] = name /\ head[5] = CR /\ head[6] = LF
        /\ head[7] = CR /\ head[8] = LF
    BY <1>10, <1>11
  <2>4. Len(head) = 8 + Len(Page(code)) /\ 1 .. Len(Page(code)) = {}
    BY <2>2, <2>3
  <2> HIDE DEF h
  <2> QED
    BY <1>9, <1>11, <2>1, <2>3, <2>4 DEF ReplyIs, name
<1>12. CASE code # 302
  <2>1. Reply(code) = head \o Page(code)
    BY <1>12 DEF Reply, head
  <2>2. Page(code) \in Seq(Answer) /\ Len(Page(code)) \in Nat
    BY PageIs
  <2> DEFINE n == Len(Page(code))
  <2>3. Reply(code) \in Seq(Answer) /\ Behind(Reply(code), head, Page(code), h + 2, n)
    <3> HIDE DEF h
    <3>1. Len(head) = h + 2
      BY <1>10
    <3> QED
      BY <1>9, <2>1, <2>2, <3>1, Joined
  <2>4. n = Len(Page(code))
    OBVIOUS
  <2> HIDE DEF n
  <2>5. CASE code = 404
    <3>1. n = 1 /\ Page(code)[1] = Text("error")
      BY <2>4, <2>5, PageIs
    <3>2. Behind(Reply(code), head, Page(code), 5, 1)
      BY <2>3, <2>5, <3>1
    <3> QED
      BY <1>10, <2>3, <2>5, <3>1, <3>2 DEF ReplyIs, Behind
  <2>6. CASE code # 404
    <3>1. Behind(Reply(code), head, Page(code), 8, n)
      BY <2>3, <2>6
    <3> QED
      BY <1>10, <2>3, <2>4, <2>6, <3>1 DEF ReplyIs, Behind, name
  <2> QED
    BY <2>5, <2>6
<1> QED
  BY <1>11, <1>12

-----------------------------------------------------------------------------
(* The parser's callbacks                                                   *)

LEMMA ReplyToIs ==
    ASSUME NEW asked
    PROVE  /\ ReplyIs(ReplyTo(asked), StatusFor(MethodOf(asked), asked.query))
           /\ Len(ReplyTo(asked)) \in Nat /\ ReplyTo(asked) \in Seq(Answer)
<1>1. ReplyIs(ReplyTo(asked), StatusFor(MethodOf(asked), asked.query))
  BY StatusType, ReplyHas DEF ReplyTo
<1>2. ReplyTo(asked) \in Seq(Answer)
  BY <1>1 DEF ReplyIs
<1> QED
  BY <1>1, <1>2

\* All of an answer's terms but that the socket answers.
Ready(s, asked, n, k) ==
    /\ Unanswered(s, k)
    /\ s.httpMethod = MethodOf(asked) /\ s.query = asked.query
    /\ InTime(s.heard, asked, n) /\ Part(s.body, asked, n)

\* t is s, that has answered.
Replied(t, s, asked, n, k) == AnsweredAt(t, asked, n, k) /\ t.crlfcount = s.crlfcount

LEMMA Answers ==
    ASSUME NEW asked, NEW n, NEW k, NEW s, Ready(s, asked, n, k)
    PROVE  Replied(respond(s), s, asked, n, k)
<1> DEFINE t == respond(s)
           R == ReplyTo(asked)
<1>1. /\ Frame(s, t) /\ Answered(t) /\ Connected(t)
      /\ t.buffer = Reply(StatusFor(s.httpMethod, s.query))
  BY RespondIs DEF Ready, Unanswered
<1> HIDE DEF t
<1>2. t.buffer = R
  BY <1>1, Zenon DEF Ready, ReplyTo
<1>3. R \in Seq(Answer) /\ Len(R) \in Nat
  BY ReplyToIs
<1> HIDE DEF R
<1>4. /\ DOMAIN t = Fields /\ t.received = s.received /\ t.released = s.released
      /\ t.heard = s.heard /\ t.body = s.body /\ t.crlfcount = s.crlfcount
  BY <1>1 DEF Frame, Fields
<1>5. t.received = k /\ t.released = 0
  BY <1>4 DEF Ready, Unanswered
<1>6. R = SubSeq(R, 0 + 1, Len(R)) /\ 0 \in 0 .. Len(R)
  <2>1. SubSeq(R, 1, Len(R)) = R
    BY <1>3, SubSeqFull
  <2> QED
    BY <2>1, <1>3
<1>7. t.released \in 0 .. Len(R) /\ t.buffer = SubSeq(R, t.released + 1, Len(R))
  BY <1>2, <1>5, <1>6, Zenon
<1>8. InTime(t.heard, asked, n) /\ Part(t.body, asked, n)
  BY <1>4, Zenon DEF Ready
<1> QED
  BY <1>1, <1>4, <1>5, <1>7, <1>8, Zenon DEF AnsweredAt, Replied, R, t

(* A callback is noted, and the application answers in it or does not.     *)
LEMMA CalledIs ==
    ASSUME NEW asked, NEW n, NEW k, NEW s, NEW callback,
           NEW told, told = [s EXCEPT !.heard = Append(@, callback)], Ready(told, asked, n, k)
    PROVE  Called(s, callback) = told \/ Replied(Called(s, callback), told, asked, n, k)
<1>0. \A u : Ready(u, asked, n, k) => Replied(respond(u), u, asked, n, k)
  BY Answers
<1>1. CASE callback[1] = s.answersIn
  <2>1. Called(s, callback) = respond(told)
    BY <1>1 DEF Called
  <2>2. Replied(respond(told), told, asked, n, k)
    BY <1>0
  <2> QED
    BY <2>1, <2>2
<1>2. CASE callback[1] # s.answersIn
  BY <1>2 DEF Called
<1> QED
  BY <1>1, <1>2

LEMMA ToldInTime ==
    ASSUME NEW asked, Asked(asked), NEW heard, NEW k \in Nat, Told(heard, asked, k),
           k <= Len(Calls(asked)), NEW n \in Nat, \A i \in 1 .. k : Place(asked, i) <= n
    PROVE  InTime(heard, asked, n)
<1>1. Len(Calls(asked)) \in Nat
  BY CallsAre
<1>2. \A i \in 1 .. k : i <= Len(Calls(asked)) /\ ~(i > Len(Calls(asked)))
  BY <1>1
<1> QED
  BY <1>2, Zenon DEF Told, InTime

LEMMA NoBodyYet ==
    ASSUME NEW asked, Asked(asked), NEW n, NEW body, body = <<>>
    PROVE  Part(body, asked, n)
<1>1. 0 \in 0 .. Len(asked.body)
  BY Lengths
<1>2. SubSeq(asked.body, 1, 0) = <<>>
  BY SubSeqEmpty
<1> QED
  BY <1>1, <1>2 DEF Part

(* The end of the first line: onRequest.                                   *)
LEMMA QueryEnds ==
    ASSUME NEW asked, Asked(asked), NEW s, NEW k, Unanswered(s, k),
           InQuery(s, asked, Len(asked.method) + 3),
           NEW t, t = scanQuery(s, Written(asked)[Len(asked.method) + 4])
    PROVE  \/ Unanswered(t, k) /\ InHeader(t, asked, 0, 0)
           \/ AnsweredAt(t, asked, FirstEnd(asked), k) /\ t.crlfcount = 0
<1> DEFINE m == Len(asked.method)
           W == Written(asked)
           line == Append(s.scanned, W[m + 4])
           q == line[Len(line) - 2][2]
           callback == <<"onRequest", q>>
           signaled == [s EXCEPT !.requestSignaled = TRUE, !.query = q]
           told == [signaled EXCEPT !.heard = Append(@, callback)]
           called == Called(signaled, callback)
           next == [called EXCEPT !.crlfcount = 0, !.scanned = <<>>,
                                  !.stage = HTTP_SERVER_STAGE_HEADERS]
<1>1. m \in Nat /\ m + 4 <= Len(W) /\ Len(W) \in Nat
  BY Lengths, FirstInText
<1>2. W[m + 2] = Query(asked.query) /\ W[m + 3] = CR /\ W[m + 4] = LF
  BY WrittenIs DEF IsText, FirstLine
<1>3. Line(line, asked, m + 1, 3)
  <2>1. Line(s.scanned, asked, m + 1, 2)
    <3>1. (m + 3) - (m + 1) = 2
      BY <1>1
    <3> QED
      BY <3>1 DEF InQuery
  <2>2. m + 1 \in Nat /\ 2 \in Nat /\ (m + 1) + 2 < Len(W) /\ (m + 1) + 2 + 1 = m + 4
    BY <1>1
  <2>3. Line(Append(s.scanned, W[(m + 1) + 2 + 1]), asked, m + 1, 2 + 1)
    BY <2>1, <2>2, LineGrows
  <2> QED
    BY <2>2, <2>3
<1> HIDE DEF line
<1>4. Len(line) = 3 /\ line[1] = Query(asked.query) /\ line[2] = CR /\ line[3] = LF
  <2>1. (m + 1) + 1 = m + 2 /\ (m + 1) + 2 = m + 3 /\ (m + 1) + 3 = m + 4
    BY <1>1
  <2>2. Len(line) = 3 /\ \A i \in 1 .. 3 : line[i] = W[(m + 1) + i]
    BY <1>3 DEF Line
  <2>3. 1 \in 1 .. 3 /\ 2 \in 1 .. 3 /\ 3 \in 1 .. 3
    OBVIOUS
  <2> QED
    BY <1>2, <2>1, <2>2, <2>3, Zenon
<1>5. line[1][1] = "query" /\ line[1][2] = asked.query
  BY <1>4 DEF Query
<1>6. EndsWith(line, <<"query", "\r", "\n">>) /\ q = asked.query
  <2>1. EndsWith(line, <<"query", "\r", "\n">>) /\ line[Len(line) - 2] = line[1]
    BY <1>4, <1>5, WholeLine
  <2> QED
    BY <2>1, <1>5
<1>7. t = IF Answered(called) THEN called ELSE next
  BY <1>6, Zenon DEF scanQuery, line
<1> HIDE DEF q
<1>8. callback = Calls(asked)[1]
  BY <1>6, CallsAre
<1>9. 0 < Len(Calls(asked)) /\ Len(Calls(asked)) \in Nat
  <2>1. Len(asked.headers) \in Nat
    BY Lengths
  <2>2. /\ asked.headers = <<>> => Len(Calls(asked)) = Len(asked.headers) + 1
        /\ asked.headers # <<>> => Len(Calls(asked)) = Len(asked.headers) + 2
    BY CallsAre
  <2> QED
    BY <2>1, <2>2
<1> HIDE DEF callback
<1>10. /\ DOMAIN told = Fields /\ told.requestSignaled = TRUE /\ told.query = asked.query
       /\ told.heard = Append(s.heard, callback)
       /\ \A f \in Fields \ {"requestSignaled", "query", "heard"} : told[f] = s[f]
  BY <1>6 DEF Unanswered, Fields
<1> HIDE DEF told
<1>11. Unanswered(told, k)
  BY <1>10 DEF Unanswered, Connected, Fields
<1>12. told.httpMethod = MethodOf(asked) /\ told.crlfcount = 0 /\ told.body = <<>>
       /\ told.stage = HTTP_SERVER_STAGE_QUERY_STRING
  BY <1>10 DEF InQuery, Fields
<1>13. Told(told.heard, asked, 1)
  <2>1. Told(s.heard, asked, 0)
    BY DEF InQuery
  <2>2. Told(Append(s.heard, Calls(asked)[0 + 1]), asked, 0 + 1)
    BY <2>1, <1>9, ToldGrows
  <2> QED
    BY <2>2, <1>8, <1>10
<1>14. Ready(told, asked, FirstEnd(asked), k)
  <2>1. FirstEnd(asked) \in Nat
    BY <1>1 DEF FirstEnd
  <2>2. \A i \in 1 .. 1 : Place(asked, i) <= FirstEnd(asked)
    <3>1. Len(asked.headers) \in Nat
      BY Lengths
    <3>2. Place(asked, 1) = FirstEnd(asked)
      BY <2>1, <3>1 DEF Place
    <3> QED
      BY <2>1, <3>2
  <2>3. InTime(told.heard, asked, FirstEnd(asked))
    BY <1>9, <1>13, <2>1, <2>2, ToldInTime
  <2>4. Part(told.body, asked, FirstEnd(asked))
    BY <1>12, NoBodyYet
  <2> QED
    BY <1>10, <1>11, <1>12, <2>3, <2>4 DEF Ready
<1>15. called = told \/ Replied(called, told, asked, FirstEnd(asked), k)
  <2> HIDE DEF signaled
  <2>1. told = [signaled EXCEPT !.heard = Append(@, callback)]
    BY DEF told
  <2> QED
    BY <2>1, <1>14, CalledIs
<1>16. CASE called = told
  <2>1. ~Answered(called)
    BY <1>12, <1>16, Stages DEF Answered
  <2>2. t = [told EXCEPT !.crlfcount = 0, !.scanned = <<>>, !.stage = HTTP_SERVER_STAGE_HEADERS]
    BY <1>7, <1>16, <2>1
  <2>3. /\ DOMAIN t = Fields /\ t.crlfcount = 0 /\ t.scanned = <<>>
        /\ t.stage = HTTP_SERVER_STAGE_HEADERS
        /\ \A f \in Fields \ {"crlfcount", "scanned", "stage"} : t[f] = told[f]
    BY <2>2, <1>10 DEF Fields
  <2>4. Unanswered(t, k)
    BY <1>11, <2>3 DEF Unanswered, Connected, Fields
  <2>5. /\ t.requestSignaled = TRUE /\ t.query = asked.query /\ t.httpMethod = MethodOf(asked)
        /\ t.heard = told.heard /\ t.body = <<>>
    BY <2>3, <1>10, <1>12 DEF Fields
  <2>6. LineEnds(asked, 0, 0) = 0
    BY DEF LineEnds
  <2>7. Line(t.scanned, asked, FirstEnd(asked) + 3 * 0, 0)
    BY <2>3, LineBegins
  <2>8. Told(t.heard, asked, 0 + 1)
    BY <2>5, <1>13
  <2> QED
    BY <2>3, <2>4, <2>5, <2>6, <2>7, <2>8 DEF InHeader
<1>17. CASE Replied(called, told, asked, FirstEnd(asked), k)
  <2> HIDE DEF called
  <2>1. t = called
    BY <1>7, <1>17 DEF AnsweredAt, Replied
  <2> QED
    BY <2>1, <1>12, <1>17 DEF Replied
<1> QED
  BY <1>15, <1>16, <1>17

(* The symbols behind the first line.                                      *)
LEMMA HeaderSymbols ==
    ASSUME NEW asked, Asked(asked), NEW k \in 0 .. Len(asked.headers), NEW from,
           from = FirstEnd(asked) + 3 * k
    PROVE  /\ from \in Nat
           /\ k < Len(asked.headers) =>
                /\ from + 3 <= HeadEnd(asked)
                /\ Written(asked)[from + 1] = asked.headers[k + 1]
                /\ Written(asked)[from + 2] = CR
                /\ Written(asked)[from + 3] = LF
           /\ k = Len(asked.headers) =>
                from = HeadEnd(asked) /\ Written(asked)[from + 1] = CR /\ Written(asked)[from + 2] = LF
           /\ from + 2 <= Len(Written(asked)) /\ Len(Written(asked)) \in Nat
<1> DEFINE W == Written(asked)
           h == Len(asked.headers)
           m == FirstEnd(asked)
           e == HeadEnd(asked)
<1>1. h \in Nat /\ m \in Nat /\ e = m + 3 * h /\ Len(asked.body) \in Nat
      /\ Len(W) = e + 2 + Len(asked.body)
  BY Lengths
<1>2. \A i \in 1 .. h : W[m + (3 * i - 2)] = asked.headers[i] /\ W[m + (3 * i - 1)] = CR /\ W[m + 3 * i] = LF
  BY WrittenIs DEF IsText
<1>3. W[e + 1] = CR /\ W[e + 2] = LF
  BY WrittenIs DEF IsText
<1> HIDE DEF W, h, m, e
<1>4. k \in 0 .. h /\ from = m + 3 * k
  BY DEF h, m
<1>5. from \in Nat /\ from + 2 <= Len(W) /\ Len(W) \in Nat
  <2>1. k \in Nat /\ k <= h
    BY <1>1, <1>4
  <2>2. from \in Nat
    BY <1>1, <1>4, <2>1
  <2>3. from <= e /\ e \in Nat
    BY <1>1, <1>4, <2>1
  <2> DEFINE b == Len(asked.body)
  <2>4. b \in Nat /\ Len(W) = e + 2 + b
    BY <1>1
  <2> HIDE DEF b
  <2> QED
    BY <2>2, <2>3, <2>4
<1>6. ASSUME k < h
      PROVE  from + 3 <= e /\ W[from + 1] = asked.headers[k + 1] /\ W[from + 2] = CR /\ W[from + 3] = LF
  <2>1. k + 1 \in 1 .. h /\ m + (3 * (k + 1) - 2) = from + 1 /\ m + (3 * (k + 1) - 1) = from + 2
        /\ m + 3 * (k + 1) = from + 3 /\ from + 3 <= e
    BY <1>1, <1>4, <1>6
  <2>2. /\ W[m + (3 * (k + 1) - 2)] = asked.headers[k + 1] /\ W[m + (3 * (k + 1) - 1)] = CR
        /\ W[m + 3 * (k + 1)] = LF
    BY <1>2, <2>1, Zenon
  <2> QED
    BY <2>1, <2>2
<1>7. ASSUME k = h
      PROVE  from = e /\ W[from + 1] = CR /\ W[from + 2] = LF
  BY <1>1, <1>3, <1>4, <1>7
<1> QED
  BY <1>5, <1>6, <1>7 DEF W, h, e

LEMMA HeaderType ==
    ASSUME NEW asked, Asked(asked), NEW k \in 1 .. Len(asked.headers)
    PROVE  /\ asked.headers[k] # CR /\ asked.headers[k] # LF
           /\ asked.headers[k][1] = "header" /\ asked.headers[k][2] \in STRING
<1>1. asked.headers[k] \in {"header"} \X STRING \X Nat
  BY DEF Asked
<1> QED
  BY <1>1 DEF CR, LF

LEMMA NextTwo ==
    ASSUME NEW from \in Nat, NEW j \in 0 .. 1
    PROVE  (j = 0 /\ from + j + 1 = from + 1) \/ (j = 1 /\ from + j + 1 = from + 2)
<1>1. j = 0 \/ j = 1
  OBVIOUS
<1>2. CASE j = 0
  <2>1. from + 0 + 1 = from + 1
    OBVIOUS
  <2> QED
    BY <1>2, <2>1, Zenon
<1>3. CASE j = 1
  <2>1. from + 1 + 1 = from + 2
    OBVIOUS
  <2> QED
    BY <1>3, <2>1
<1> QED
  BY <1>1, <1>2, <1>3

(* A symbol of a line that goes on.                                        *)
LEMMA HeaderGrows ==
    ASSUME NEW asked, Asked(asked), NEW s, NEW n, Unanswered(s, n),
           NEW k \in 0 .. Len(asked.headers), NEW j \in 0 .. 1, InHeader(s, asked, k, j),
           k = Len(asked.headers) /\ k > 0 => j = 0,
           NEW t, t = scanLines(s, Written(asked)[FirstEnd(asked) + 3 * k + j + 1])
    PROVE  Unanswered(t, n) /\ InHeader(t, asked, k, j + 1) /\ t.crlfcount # 4
<1> DEFINE h == Len(asked.headers)
           from == FirstEnd(asked) + 3 * k
           c == Written(asked)[from + j + 1]
           line == Append(s.scanned, c)
           counted == [s EXCEPT !.crlfcount = IF c \in {CR, LF} THEN @ + 1 ELSE 0]
<1>1. h \in Nat /\ from \in Nat /\ from + j < Len(Written(asked))
  <2>1. from \in Nat /\ from + 2 <= Len(Written(asked)) /\ Len(Written(asked)) \in Nat
    BY HeaderSymbols
  <2> HIDE DEF from
  <2>2. j = 0 \/ j = 1
    OBVIOUS
  <2> QED
    BY <2>1, <2>2, Lengths
<1>2. Line(line, asked, from, j + 1)
  <2>1. Line(s.scanned, asked, from, j)
    BY DEF InHeader
  <2> HIDE DEF from
  <2> QED
    BY <1>1, <2>1, LineGrows
<1>3. c \in {CR, LF} <=> k = h \/ j = 1
  <2>1. CASE k = h
    <3>1. Written(asked)[from + 1] = CR /\ Written(asked)[from + 2] = LF
      BY <2>1, HeaderSymbols
    <3>2. (j = 0 /\ from + j + 1 = from + 1) \/ (j = 1 /\ from + j + 1 = from + 2)
      BY <1>1, NextTwo
    <3> HIDE DEF from
    <3> QED
      BY <2>1, <3>1, <3>2
  <2>2. CASE k < h
    <3>1. Written(asked)[from + 1] = asked.headers[k + 1] /\ Written(asked)[from + 2] = CR
      BY <2>2, HeaderSymbols
    <3>2. (j = 0 /\ from + j + 1 = from + 1) \/ (j = 1 /\ from + j + 1 = from + 2)
      BY <1>1, NextTwo
    <3>3. asked.headers[k + 1] # CR /\ asked.headers[k + 1] # LF
      <4>1. k + 1 \in 1 .. Len(asked.headers)
        BY <1>1, <2>2
      <4> QED
        BY <4>1, HeaderType
    <3> HIDE DEF from
    <3> QED
      BY <2>2, <3>1, <3>2, <3>3
  <2> QED
    BY <1>1, <2>1, <2>2
<1>4. t = IF counted.crlfcount = 4 THEN Called([counted EXCEPT !.stage = HTTP_SERVER_STAGE_BODY], <<"onBodyBegin">>)
          ELSE scanHeader(counted, c)
  BY Zenon DEF scanLines
<1> HIDE DEF c
<1>5. /\ DOMAIN counted = Fields /\ \A f \in Fields \ {"crlfcount"} : counted[f] = s[f]
      /\ counted.crlfcount = IF c \in {CR, LF} THEN s.crlfcount + 1 ELSE 0
  BY DEF Unanswered, Fields
<1> HIDE DEF counted
<1>6. counted.crlfcount = LineEnds(asked, k, j + 1) /\ counted.crlfcount # 4
  <2>1. s.crlfcount = LineEnds(asked, k, j)
    BY DEF InHeader
  <2>2. CASE k = h
    <3>1. s.crlfcount = (IF k = 0 THEN 0 ELSE 2) + j
      BY <1>1, <2>1, <2>2 DEF LineEnds
    <3>2. counted.crlfcount = s.crlfcount + 1
      BY <1>3, <1>5, <2>2
    <3>3. LineEnds(asked, k, j + 1) = (IF k = 0 THEN 0 ELSE 2) + (j + 1)
      BY <1>1, <2>2 DEF LineEnds
    <3> QED
      BY <1>1, <2>2, <3>1, <3>2, <3>3
  <2>3. CASE k < h
    <3>1. CASE j = 0
      BY <1>1, <1>3, <1>5, <2>3, <3>1 DEF LineEnds
    <3>2. CASE j = 1
      BY <1>1, <1>3, <1>5, <2>1, <2>3, <3>2 DEF LineEnds
    <3> QED
      BY <3>1, <3>2
  <2> QED
    BY <1>1, <2>2, <2>3
<1>7. t = [counted EXCEPT !.scanned = line]
  <2>1. counted.scanned = s.scanned
    BY <1>5 DEF Fields
  <2>2. Len(line) \in Nat /\ Len(line) < 3
    BY <1>2 DEF Line
  <2>3. ~EndsWith(line, <<"header", "\r", "\n">>)
    BY <2>2, ShortLine
  <2>4. scanHeader(counted, c) = [counted EXCEPT !.scanned = line]
    BY <2>1, <2>3 DEF scanHeader
  <2> QED
    BY <1>4, <1>6, <2>4
<1> HIDE DEF line
<1>8. DOMAIN t = Fields /\ t.scanned = line /\ \A f \in Fields \ {"scanned"} : t[f] = counted[f]
  BY <1>5, <1>7 DEF Fields
<1>9. /\ t.crlfcount = counted.crlfcount
      /\ \A f \in Fields \ {"scanned", "crlfcount"} : t[f] = s[f]
  BY <1>5, <1>8 DEF Fields
<1>10. Unanswered(t, n)
  BY <1>8, <1>9 DEF Unanswered, Connected, Fields
<1>11. /\ t.stage = s.stage /\ t.requestSignaled = s.requestSignaled /\ t.httpMethod = s.httpMethod
       /\ t.query = s.query /\ t.heard = s.heard /\ t.body = s.body
  BY <1>9 DEF Fields
<1>12. k = Len(asked.headers) /\ k > 0 => j + 1 < 2
  OBVIOUS
<1> QED
  BY <1>2, <1>6, <1>8, <1>9, <1>10, <1>11, <1>12 DEF InHeader

(* The end of a header's line: onHeaderReceived.                           *)
LEMMA HeaderEnds ==
    ASSUME NEW asked, Asked(asked), NEW s, NEW n, Unanswered(s, n),
           NEW k \in 0 .. Len(asked.headers), k < Len(asked.headers), InHeader(s, asked, k, 2),
           NEW t, t = scanLines(s, Written(asked)[FirstEnd(asked) + 3 * k + 3])
    PROVE  Unanswered(t, n) /\ InHeader(t, asked, k + 1, 0) /\ t.crlfcount # 4
<1> DEFINE h == Len(asked.headers)
           from == FirstEnd(asked) + 3 * k
           c == Written(asked)[from + 3]
           line == Append(s.scanned, c)
           header == line[Len(line) - 2]
           counted == [s EXCEPT !.crlfcount = IF c \in {CR, LF} THEN @ + 1 ELSE 0]
           measured == IF header[2] # "Content-Length"
                       THEN [counted EXCEPT !.contentLength = header[3] % LengthMod] ELSE counted
           callback == <<"onHeaderReceived", header[2]>>
           told == [measured EXCEPT !.heard = Append(@, callback)]
<1>1. h \in Nat /\ k \in Nat /\ k + 1 \in 1 .. h
  BY Lengths
<1>2. /\ from \in Nat /\ from + 3 <= Len(Written(asked)) /\ Len(Written(asked)) \in Nat
      /\ Written(asked)[from + 1] = asked.headers[k + 1] /\ Written(asked)[from + 2] = CR /\ c = LF
  <2>1. /\ from \in Nat /\ from + 3 <= HeadEnd(asked) /\ Len(Written(asked)) \in Nat
        /\ Written(asked)[from + 1] = asked.headers[k + 1] /\ Written(asked)[from + 2] = CR /\ c = LF
    BY HeaderSymbols
  <2>2. Len(Written(asked)) = HeadEnd(asked) + 2 + Len(asked.body) /\ Len(asked.body) \in Nat
        /\ HeadEnd(asked) \in Nat
    BY Lengths
  <2> HIDE DEF from, c
  <2> QED
    BY <2>1, <2>2
<1>3. Line(line, asked, from, 3)
  <2>1. Line(s.scanned, asked, from, 2)
    BY DEF InHeader
  <2> HIDE DEF from
  <2>2. from + 2 < Len(Written(asked)) /\ from + 2 + 1 = from + 3 /\ 2 \in Nat /\ 2 + 1 = 3
    BY <1>2
  <2>3. Line(Append(s.scanned, Written(asked)[from + 2 + 1]), asked, from, 2 + 1)
    BY <1>2, <2>1, <2>2, LineGrows
  <2> QED
    BY <2>2, <2>3
<1> HIDE DEF line, from, c
<1>4. Len(line) = 3 /\ line[1] = asked.headers[k + 1] /\ line[2] = CR /\ line[3] = LF
  <2>1. Len(line) = 3 /\ \A i \in 1 .. 3 : line[i] = Written(asked)[from + i]
    BY <1>3 DEF Line
  <2>2. 1 \in 1 .. 3 /\ 2 \in 1 .. 3 /\ 3 \in 1 .. 3
    OBVIOUS
  <2> QED
    BY <1>2, <2>1, <2>2, Zenon DEF c
<1>5. line[1][1] = "header"
  BY <1>1, <1>4, HeaderType
<1>6. EndsWith(line, <<"header", "\r", "\n">>) /\ header = asked.headers[k + 1]
  <2>1. EndsWith(line, <<"header", "\r", "\n">>) /\ line[Len(line) - 2] = line[1]
    BY <1>4, <1>5, WholeLine
  <2> QED
    BY <2>1, <1>4
<1>7. /\ DOMAIN counted = Fields /\ \A f \in Fields \ {"crlfcount"} : counted[f] = s[f]
      /\ counted.crlfcount = s.crlfcount + 1
  BY <1>2 DEF Unanswered, Fields
<1>8. t = IF counted.crlfcount = 4 THEN Called([counted EXCEPT !.stage = HTTP_SERVER_STAGE_BODY], <<"onBodyBegin">>)
          ELSE scanHeader(counted, c)
  BY Zenon DEF scanLines, from, c
<1> HIDE DEF counted
<1>9. counted.crlfcount = 2
  BY <1>1, <1>7 DEF InHeader, LineEnds
<1>10. t = [Called(measured, callback) EXCEPT !.scanned = <<>>]
  <2>1. counted.scanned = s.scanned
    BY <1>7 DEF Fields
  <2>2. scanHeader(counted, c) = [Called(measured, callback) EXCEPT !.scanned = <<>>]
    BY <1>6, <2>1, Zenon DEF scanHeader, line
  <2> QED
    BY <1>8, <1>9, <2>2
<1> HIDE DEF header
<1>11. /\ DOMAIN measured = Fields
       /\ \A f \in Fields \ {"contentLength"} : measured[f] = counted[f]
  BY <1>7 DEF Fields
<1> HIDE DEF measured
<1>12. Called(measured, callback) = told
  <2>1. measured.answersIn = s.answersIn
    BY <1>7, <1>11 DEF Fields
  <2>2. s.answersIn # "onHeaderReceived"
    BY RequestsAssumption DEF Unanswered
  <2>3. callback[1] = "onHeaderReceived"
    OBVIOUS
  <2> HIDE DEF callback
  <2> QED
    BY <2>1, <2>2, <2>3 DEF Called
<1>13. callback = Calls(asked)[(k + 1) + 1]
  BY <1>1, <1>6, CallsAre
<1> HIDE DEF callback
<1>14. t = [told EXCEPT !.scanned = <<>>]
  BY <1>10, <1>12
<1>15. /\ DOMAIN told = Fields /\ told.heard = Append(measured.heard, callback)
       /\ \A f \in Fields \ {"heard"} : told[f] = measured[f]
  BY <1>11 DEF Fields
<1> HIDE DEF told
<1>16. /\ DOMAIN t = Fields /\ t.scanned = <<>> /\ t.heard = told.heard
       /\ \A f \in Fields \ {"scanned"} : t[f] = told[f]
  BY <1>14, <1>15 DEF Fields
<1>17. /\ t.crlfcount = 2 /\ t.heard = Append(s.heard, callback)
       /\ \A f \in Fields \ {"scanned", "crlfcount", "contentLength", "heard"} : t[f] = s[f]
  <2>1. t.crlfcount = counted.crlfcount /\ measured.heard = s.heard
    BY <1>7, <1>11, <1>15, <1>16 DEF Fields
  <2>2. ASSUME NEW f \in Fields \ {"scanned", "crlfcount", "contentLength", "heard"}
        PROVE  t[f] = s[f]
    BY <1>7, <1>11, <1>15, <1>16
  <2> QED
    BY <1>9, <1>15, <1>16, <2>1, <2>2
<1>18. Unanswered(t, n)
  BY <1>16, <1>17 DEF Unanswered, Connected, Fields
<1>19. /\ t.stage = s.stage /\ t.requestSignaled = s.requestSignaled /\ t.httpMethod = s.httpMethod
       /\ t.query = s.query /\ t.body = s.body
  BY <1>17 DEF Fields
<1>20. Told(t.heard, asked, (k + 1) + 1)
  <2>1. k + 1 \in Nat /\ k + 1 < Len(Calls(asked))
    <3>1. Len(Calls(asked)) = h + 2
      <4>1. asked.headers # <<>>
        BY <1>1, Lengths
      <4> QED
        BY <4>1, CallsAre
    <3> QED
      BY <1>1, <3>1
  <2>2. Told(s.heard, asked, k + 1)
    BY DEF InHeader
  <2> QED
    BY <1>13, <1>17, <2>1, <2>2, ToldGrows
<1>21. LineEnds(asked, k + 1, 0) = 2 /\ Line(t.scanned, asked, FirstEnd(asked) + 3 * (k + 1), 0)
  BY <1>1, <1>16, LineBegins DEF LineEnds
<1> QED
  BY <1>17, <1>18, <1>19, <1>20, <1>21 DEF InHeader

LEMMA PlaceIs ==
    ASSUME NEW asked, Asked(asked), NEW i \in 1 .. Len(asked.headers) + 2
    PROVE  Place(asked, i) \in Nat /\ Place(asked, i) <= HeadEnd(asked) + 2
<1> DEFINE h == Len(asked.headers)
           m == FirstEnd(asked)
           e == HeadEnd(asked)
<1>1. h \in Nat /\ m \in Nat /\ e = m + 3 * h
  BY Lengths
<1>2. Place(asked, i) = IF i <= h + 1 THEN m + 3 * (i - 1) ELSE e + 2
  BY DEF Place
<1> HIDE DEF h, m, e
<1>3. i \in 1 .. h + 2
  BY DEF h
<1>4. Place(asked, i) \in Nat /\ Place(asked, i) <= e + 2
  BY <1>1, <1>2, <1>3
<1> QED
  BY <1>4 DEF e

(* The end of the line behind the headers: onBodyBegin.                    *)
LEMMA BodyBegins ==
    ASSUME NEW asked, Asked(asked), asked.headers # <<>>, NEW s, NEW n, Unanswered(s, n),
           InHeader(s, asked, Len(asked.headers), 1),
           NEW t, t = scanLines(s, Written(asked)[HeadEnd(asked) + 2])
    PROVE  /\ t.crlfcount = 4
           /\ \/ Unanswered(t, n) /\ InBody(t, asked, HeadEnd(asked) + 2)
              \/ AnsweredAt(t, asked, HeadEnd(asked) + 2, n)
<1> DEFINE h == Len(asked.headers)
           e == HeadEnd(asked) + 2
           callback == <<"onBodyBegin">>
           begun == [s EXCEPT !.crlfcount = 4, !.stage = HTTP_SERVER_STAGE_BODY]
           told == [begun EXCEPT !.heard = Append(@, callback)]
<1>1. /\ h \in Nat /\ h > 0 /\ e \in Nat /\ Len(Calls(asked)) = h + 2 /\ Len(asked.body) \in Nat
      /\ Calls(asked)[h + 2] = callback /\ Written(asked)[e] = LF
  <2>1. h \in Nat /\ h > 0 /\ HeadEnd(asked) \in Nat /\ Len(asked.body) \in Nat
    BY Lengths
  <2>2. Written(asked)[HeadEnd(asked) + 2] = LF
    BY WrittenIs DEF IsText
  <2>3. Len(Calls(asked)) = h + 2 /\ Calls(asked)[h + 2] = callback
    BY CallsAre
  <2> QED
    BY <2>1, <2>2, <2>3
<1> HIDE DEF h, e
<1>2. s.crlfcount = 3
  BY <1>1 DEF InHeader, LineEnds, h
<1>3. t = Called(begun, callback)
  <2> DEFINE c == Written(asked)[HeadEnd(asked) + 2]
             counted == [s EXCEPT !.crlfcount = IF c \in {CR, LF} THEN @ + 1 ELSE 0]
  <2>1. c \in {CR, LF}
    BY <1>1 DEF e
  <2> HIDE DEF c
  <2>2. counted = [s EXCEPT !.crlfcount = 4] /\ counted.crlfcount = 4
    BY <1>2, <2>1 DEF Unanswered, Fields
  <2>3. t = IF counted.crlfcount = 4
            THEN Called([counted EXCEPT !.stage = HTTP_SERVER_STAGE_BODY], <<"onBodyBegin">>)
            ELSE scanHeader(counted, c)
    BY Zenon DEF scanLines, c
  <2> HIDE DEF counted
  <2> QED
    BY <2>2, <2>3, Zenon
<1>4. /\ DOMAIN told = Fields /\ told.crlfcount = 4 /\ told.stage = HTTP_SERVER_STAGE_BODY
      /\ told.heard = Append(s.heard, callback)
      /\ \A f \in Fields \ {"crlfcount", "stage", "heard"} : told[f] = s[f]
  BY DEF Unanswered, Fields
<1>5. \A u : u = [begun EXCEPT !.heard = Append(@, callback)] /\ Ready(u, asked, e, n)
                => Called(begun, callback) = u \/ Replied(Called(begun, callback), u, asked, e, n)
  BY CalledIs
<1>6. told = [begun EXCEPT !.heard = Append(@, callback)]
  OBVIOUS
<1> HIDE DEF begun, told, callback
<1>7. Unanswered(told, n)
  BY <1>4 DEF Unanswered, Connected, Fields
<1>8. /\ told.requestSignaled = TRUE /\ told.httpMethod = MethodOf(asked)
      /\ told.query = asked.query /\ told.body = <<>>
  BY <1>4 DEF InHeader, Fields
<1>9. Told(told.heard, asked, h + 2)
  <2>1. Told(s.heard, asked, h + 1)
    BY DEF InHeader, h
  <2>2. h + 1 \in Nat /\ h + 1 < Len(Calls(asked)) /\ (h + 1) + 1 = h + 2
    BY <1>1
  <2>3. Told(Append(s.heard, Calls(asked)[(h + 1) + 1]), asked, (h + 1) + 1)
    BY <2>1, <2>2, ToldGrows
  <2> QED
    BY <1>1, <1>4, <2>2, <2>3
<1>10. InTime(told.heard, asked, e)
  <2>1. \A i \in 1 .. h + 2 : Place(asked, i) <= e
    BY PlaceIs DEF h, e
  <2>2. h + 2 \in Nat /\ h + 2 <= Len(Calls(asked))
    BY <1>1
  <2> QED
    BY <1>1, <1>9, <2>1, <2>2, ToldInTime
<1>11. Ready(told, asked, e, n)
  <2>1. Part(told.body, asked, e)
    BY <1>8, NoBodyYet
  <2> QED
    BY <1>7, <1>8, <1>10, <2>1 DEF Ready
<1>12. t = told \/ Replied(t, told, asked, e, n)
  BY <1>3, <1>5, <1>6, <1>11
<1>13. CASE t = told
  <2>1. e \in HeadEnd(asked) + 2 .. HeadEnd(asked) + 2 + Len(asked.body)
        /\ e - (HeadEnd(asked) + 2) = 0
    BY <1>1 DEF e
  <2>2. Len(t.heard) >= Len(Calls(asked))
    BY <1>1, <1>9, <1>13 DEF Told
  <2>3. t.body = SubSeq(asked.body, 1, e - (HeadEnd(asked) + 2))
    <3>1. SubSeq(asked.body, 1, 0) = <<>>
      BY SubSeqEmpty
    <3> QED
      BY <1>8, <1>13, <2>1, <3>1
  <2>4. InBody(t, asked, e)
    BY <1>4, <1>8, <1>10, <1>13, <2>1, <2>2, <2>3 DEF InBody
  <2> QED
    BY <1>4, <1>7, <1>13, <2>4 DEF e
<1>14. CASE Replied(t, told, asked, e, n)
  BY <1>4, <1>14 DEF Replied, e
<1> QED
  BY <1>12, <1>13, <1>14

-----------------------------------------------------------------------------
(* The loop over a segment's characters                                     *)

Scanned(s, c) ==
    IF s.requestSignaled THEN scanLines(s, c)
    ELSE IF s.stage = HTTP_SERVER_STAGE_QUERY_STRING THEN scanQuery(s, c)
    ELSE scanMethod(s, c)

\* t is the next socket of the loop, behind n symbols; s the one before it.
Goes(t, s, asked, n, k) ==
    \/ /\ Unanswered(t, k) /\ InHead(t, asked, n)
       /\ t.crlfcount # 4 /\ ~Answered(t)
    \/ Unanswered(t, k) /\ n = HeadEnd(asked) + 2 /\ InBody(t, asked, n) /\ ~Answered(t)
    \/ AnsweredAt(t, asked, n, k) /\ (t.crlfcount = 4 \/ ~s.requestSignaled)

LEMMA Silent ==
    ASSUME NEW s, NEW asked, NEW n, InHead(s, asked, n) \/ InBody(s, asked, n)
    PROVE  ~Answered(s)
BY Stages DEF InHead, InBody, InMethod, InQuery, InHeaders, InHeader, Answered

LEMMA InMethodGoes ==
    ASSUME NEW asked, Asked(asked), NEW s, NEW k, Unanswered(s, k), NEW n,
           InMethod(s, asked, n), NEW t, t = Scanned(s, Written(asked)[n + 1])
    PROVE  Goes(t, s, asked, n + 1, k)
<1> DEFINE m == Len(asked.method)
           c == Written(asked)[n + 1]
<1>1. m \in Nat /\ n \in 0 .. m
  BY Lengths DEF InMethod
<1>2. t = scanMethod(s, c)
  BY Stages DEF InMethod, Scanned
<1>3. \A u : InMethod(u, asked, n + 1) \/ InQuery(u, asked, n + 1) => u.crlfcount # 4 /\ ~Answered(u)
  <2>1. \A u : InMethod(u, asked, n + 1) \/ InQuery(u, asked, n + 1) => u.crlfcount = 0
    BY Zenon DEF InMethod, InQuery
  <2>2. \A u : InMethod(u, asked, n + 1) \/ InQuery(u, asked, n + 1) => ~Answered(u)
    BY Silent, Zenon DEF InHead
  <2> QED
    BY <2>1, <2>2
<1>4. CASE n < m
  <2>1. Unanswered(t, k) /\ InMethod(t, asked, n + 1)
    BY <1>2, <1>4, MethodGrows
  <2> QED
    BY <1>3, <2>1, Zenon DEF Goes, InHead
<1>5. CASE n = m
  <2>1. t = scanMethod(s, Written(asked)[m + 1]) /\ InMethod(s, asked, m)
    BY <1>2, <1>5
  <2>2. Unanswered(t, k) /\ InQuery(t, asked, m + 1)
    BY <2>1, MethodEnds
  <2> QED
    BY <1>3, <1>5, <2>2, Zenon DEF Goes, InHead
<1> QED
  BY <1>1, <1>4, <1>5

LEMMA InQueryGoes ==
    ASSUME NEW asked, Asked(asked), NEW s, NEW k, Unanswered(s, k), NEW n,
           InQuery(s, asked, n), NEW t, t = Scanned(s, Written(asked)[n + 1])
    PROVE  Goes(t, s, asked, n + 1, k)
<1> DEFINE m == Len(asked.method)
           c == Written(asked)[n + 1]
<1>1. m \in Nat /\ n \in m + 1 .. m + 3
  BY Lengths DEF InQuery
<1>2. t = scanQuery(s, c) /\ s.requestSignaled = FALSE
  BY Stages DEF InQuery, Scanned
<1>4. CASE n < m + 3
  <2>1. Unanswered(t, k) /\ InQuery(t, asked, n + 1)
    BY <1>2, <1>4, QueryGrows
  <2>2. t.crlfcount # 4 /\ ~Answered(t)
    BY <2>1, Stages DEF InQuery, Answered
  <2> QED
    BY <2>1, <2>2, Zenon DEF Goes, InHead
<1>5. CASE n = m + 3
  <2>1. n + 1 = m + 4 /\ FirstEnd(asked) = n + 1
    BY <1>1, <1>5 DEF FirstEnd
  <2>2. t = scanQuery(s, Written(asked)[m + 4]) /\ InQuery(s, asked, m + 3)
    BY <1>2, <1>5, <2>1
  <2>3. \/ Unanswered(t, k) /\ InHeader(t, asked, 0, 0)
        \/ AnsweredAt(t, asked, FirstEnd(asked), k) /\ t.crlfcount = 0
    BY <2>2, QueryEnds
  <2>4. CASE Unanswered(t, k) /\ InHeader(t, asked, 0, 0)
    <3>1. t.crlfcount # 4 /\ ~Answered(t)
      BY <2>4, Stages DEF InHeader, Answered, LineEnds
    <3>2. InHeaders(t, asked, n + 1)
      <4>1. 0 \in 0 .. Len(asked.headers) /\ 0 \in 0 .. 2 /\ n + 1 = FirstEnd(asked) + 3 * 0 + 0
        BY <1>1, <2>1, Lengths
      <4> QED
        BY <2>4, <4>1 DEF InHeaders
    <3> QED
      BY <2>4, <3>1, <3>2, Zenon DEF Goes, InHead
  <2>5. CASE AnsweredAt(t, asked, FirstEnd(asked), k) /\ t.crlfcount = 0
    <3>1. AnsweredAt(t, asked, n + 1, k)
      BY <2>1, <2>5
    <3> QED
      BY <1>2, <3>1 DEF Goes
  <2> QED
    BY <2>3, <2>4, <2>5
<1> QED
  BY <1>1, <1>4, <1>5

LEMMA InHeadersGoes ==
    ASSUME NEW asked, Asked(asked), NEW s, NEW k, Unanswered(s, k), NEW n, n < Len(Written(asked)),
           InHeaders(s, asked, n), NEW t, t = Scanned(s, Written(asked)[n + 1])
    PROVE  Goes(t, s, asked, n + 1, k)
<1> DEFINE h == Len(asked.headers)
           m == FirstEnd(asked)
           e == HeadEnd(asked)
<1>1. PICK l \in 0 .. h, j \in 0 .. 2 : n = m + 3 * l + j /\ InHeader(s, asked, l, j)
  BY DEF InHeaders
<1>2. /\ h \in Nat /\ m \in Nat /\ e = m + 3 * h /\ l \in 0 .. h /\ j \in 0 .. 2
      /\ Len(Written(asked)) = e + 2 + Len(asked.body)
      /\ h = 0 => Len(asked.body) = 0
  BY Lengths
<1>3. t = scanLines(s, Written(asked)[n + 1])
  BY <1>1 DEF InHeader, Scanned
<1>4. l = h /\ h > 0 => j < 2
  BY <1>1 DEF InHeader
<1>5. \A a \in 0 .. h, b \in 0 .. 2 :
        n + 1 = m + 3 * a + b /\ Unanswered(t, k) /\ InHeader(t, asked, a, b) /\ t.crlfcount # 4
            => Goes(t, s, asked, n + 1, k)
  <2> SUFFICES ASSUME NEW a \in 0 .. h, NEW b \in 0 .. 2, n + 1 = m + 3 * a + b,
                      Unanswered(t, k), InHeader(t, asked, a, b), t.crlfcount # 4
               PROVE  Goes(t, s, asked, n + 1, k)
    OBVIOUS
  <2>1. InHeaders(t, asked, n + 1)
    BY DEF InHeaders
  <2>2. InHead(t, asked, n + 1)
    BY <2>1 DEF InHead
  <2>3. ~Answered(t)
    BY <2>2, Silent
  <2> QED
    BY <2>2, <2>3, Zenon DEF Goes
<1>6. CASE j = 2
  <2>1. l < h
    <3> SUFFICES ASSUME l = h PROVE FALSE
      BY <1>2
    <3>1. h = 0
      BY <1>2, <1>4, <1>6
    <3>2. n = m + 2 /\ Len(Written(asked)) = m + 2 /\ m \in Nat
      <4>1. n = m + 3 * l + j /\ l = 0 /\ j = 2 /\ m \in Nat
        BY <1>1, <1>2, <1>6, <3>1
      <4>2. e = m + 3 * h /\ h = 0 /\ Len(asked.body) = 0 /\ Len(Written(asked)) = e + 2 + Len(asked.body)
        BY <1>2, <3>1
      <4> HIDE DEF m, h, e
      <4>3. n = m + 2
        BY <4>1
      <4>4. e = m
        BY <4>1, <4>2
      <4>5. Len(Written(asked)) = m + 2 + 0
        BY <4>2, <4>4
      <4> QED
        BY <4>1, <4>3, <4>5
    <3> HIDE DEF m, h, e
    <3> QED
      BY <3>2
  <2>2. l + 1 \in 0 .. h /\ 0 \in 0 .. 2 /\ n + 1 = m + 3 * (l + 1) + 0 /\ n + 1 = m + 3 * l + 3
    <3> HIDE DEF m, h
    <3> QED
      BY <1>1, <1>2, <1>6, <2>1
  <2>3. InHeader(s, asked, l, 2) /\ t = scanLines(s, Written(asked)[m + 3 * l + 3])
    BY <1>1, <1>3, <1>6, <2>2
  <2>4. Unanswered(t, k) /\ InHeader(t, asked, l + 1, 0) /\ t.crlfcount # 4
    BY <2>1, <2>3, HeaderEnds
  <2> QED
    BY <1>5, <2>2, <2>4
<1>7. CASE j # 2 /\ l = h /\ h > 0 /\ j = 1
  <2>1. n + 1 = e + 2
    <3> HIDE DEF m, h, e
    <3> QED
      BY <1>1, <1>2, <1>7
  <2>2. InHeader(s, asked, h, 1) /\ t = scanLines(s, Written(asked)[e + 2])
    BY <1>1, <1>3, <1>7, <2>1
  <2>3. asked.headers # <<>>
    BY <1>7, Lengths
  <2>4. t.crlfcount = 4 /\ ((Unanswered(t, k) /\ InBody(t, asked, e + 2)) \/ AnsweredAt(t, asked, e + 2, k))
    <3>1. /\ t.crlfcount = 4
          /\ \/ Unanswered(t, k) /\ InBody(t, asked, e + 2)
             \/ AnsweredAt(t, asked, e + 2, k)
      BY <2>2, <2>3, BodyBegins
    <3> QED
      BY <3>1
  <2>5. CASE Unanswered(t, k) /\ InBody(t, asked, e + 2)
    <3>1. ~Answered(t)
      BY <2>5, Silent
    <3> QED
      BY <2>1, <2>5, <3>1 DEF Goes
  <2>6. CASE AnsweredAt(t, asked, e + 2, k)
    BY <2>1, <2>4, <2>6 DEF Goes
  <2> QED
    BY <2>4, <2>5, <2>6
<1>8. CASE j # 2 /\ ~(l = h /\ h > 0 /\ j = 1)
  <2>1. j \in 0 .. 1 /\ j + 1 \in 0 .. 2 /\ n + 1 = m + 3 * l + (j + 1) /\ n + 1 = m + 3 * l + j + 1
    <3> HIDE DEF m, h
    <3> QED
      BY <1>1, <1>2, <1>8
  <2>2. l = h /\ l > 0 => j = 0
    BY <1>8, <2>1
  <2>3. t = scanLines(s, Written(asked)[m + 3 * l + j + 1])
    BY <1>3, <2>1
  <2>4. Unanswered(t, k) /\ InHeader(t, asked, l, j + 1) /\ t.crlfcount # 4
    BY <1>1, <2>1, <2>2, <2>3, HeaderGrows
  <2> QED
    BY <1>5, <2>1, <2>4
<1> QED
  BY <1>6, <1>7, <1>8

LEMMA HeadGoes ==
    ASSUME NEW asked, Asked(asked), NEW s, NEW k, Unanswered(s, k), NEW n, n < Len(Written(asked)),
           InHead(s, asked, n), NEW t, t = Scanned(s, Written(asked)[n + 1])
    PROVE  Goes(t, s, asked, n + 1, k)
BY InMethodGoes, InQueryGoes, InHeadersGoes DEF InHead

\* The loop behind n symbols of asked, if it has not returned, and if it has.
Scanning(loop, asked, n, k, rest) ==
    /\ loop.done = FALSE
    /\ Unanswered(loop.socket, k) /\ InHead(loop.socket, asked, n)
    /\ loop.rest = rest

Stopped(loop, asked, n, k, rest) ==
    /\ loop.done = TRUE
    /\ \/ /\ Unanswered(loop.socket, k) /\ n = HeadEnd(asked) + 2 /\ InBody(loop.socket, asked, n)
          /\ loop.rest = rest
       \/ AnsweredAt(loop.socket, asked, n, k)

LEMMA LoopGoes ==
    ASSUME NEW asked, Asked(asked), NEW k, NEW n, n < Len(Written(asked)), NEW rest, NEW loop,
           Scanning(loop, asked, n, k, rest),
           NEW next, next = scanCharacter(loop, Written(asked)[n + 1])
    PROVE  Scanning(next, asked, n + 1, k, Tail(rest)) \/ Stopped(next, asked, n + 1, k, Tail(rest))
<1> DEFINE s == loop.socket
           t == Scanned(s, Written(asked)[n + 1])
           done == t.crlfcount = 4 \/ (~s.requestSignaled /\ Answered(t))
<1>1. Unanswered(s, k) /\ InHead(s, asked, n) /\ loop.done = FALSE /\ loop.rest = rest
  BY DEF Scanning
<1>2. Goes(t, s, asked, n + 1, k)
  BY <1>1, HeadGoes
<1>3. next = [socket |-> t, rest |-> Tail(rest), done |-> done]
  BY <1>1, Zenon DEF scanCharacter, Scanned
<1> HIDE DEF t
<1>4. next.socket = t /\ next.rest = Tail(rest) /\ next.done = done /\ done \in BOOLEAN
  BY <1>3
<1>5. CASE Unanswered(t, k) /\ InHead(t, asked, n + 1) /\ t.crlfcount # 4 /\ ~Answered(t)
  <2>1. done = FALSE
    BY <1>5
  <2> HIDE DEF done
  <2> QED
    BY <1>4, <1>5, <2>1 DEF Scanning
<1>6. CASE Unanswered(t, k) /\ n + 1 = HeadEnd(asked) + 2 /\ InBody(t, asked, n + 1)
  <2>1. done = TRUE
    BY <1>6 DEF InBody
  <2> HIDE DEF done
  <2> QED
    BY <1>4, <1>6, <2>1, Zenon DEF Stopped
<1>7. CASE AnsweredAt(t, asked, n + 1, k) /\ (t.crlfcount = 4 \/ ~s.requestSignaled)
  <2>1. done = TRUE
    BY <1>7 DEF AnsweredAt
  <2> HIDE DEF done
  <2> QED
    BY <1>4, <1>7, <2>1, Zenon DEF Stopped
<1> QED
  BY <1>2, <1>5, <1>6, <1>7 DEF Goes

LEMMA LoopStops ==
    ASSUME NEW loop, loop.done = TRUE, NEW c
    PROVE  scanCharacter(loop, c) = loop
BY DEF scanCharacter

\* data is what is in W behind the first from symbols, up to the to-th.
Piece(W, from, to, data) ==
    Len(data) = to - from /\ \A j \in 1 .. to - from : data[j] = W[from + j]

LEMMA PieceIs ==
    ASSUME NEW S, NEW W \in Seq(S), NEW from \in Nat, NEW to \in Nat, from < to,
           to <= Len(W), NEW data, data = SubSeq(W, from + 1, to)
    PROVE  data \in Seq(S) /\ Piece(W, from, to, data)
<1> DEFINE i == from + 1
<1>1. \A j \in i .. to : W[j] \in S
  OBVIOUS
<1>2. i \in Int /\ to \in Int /\ i <= to /\ to - i + 1 = to - from
      /\ \A j \in 1 .. to - from : i + j - 1 = from + j
  OBVIOUS
<1>3. data = SubSeq(W, i, to)
  OBVIOUS
<1> HIDE DEF i
<1>4. /\ data \in Seq(S)
      /\ Len(data) = IF i <= to THEN to - i + 1 ELSE 0
      /\ \A j \in 1 .. to - i + 1 : data[j] = W[i + j - 1]
  BY <1>1, <1>2, <1>3, SubSeqProperties
<1>5. Len(data) = to - from
  BY <1>2, <1>4
<1>6. ASSUME NEW j \in 1 .. to - from PROVE data[j] = W[from + j]
  <2>1. data[j] = W[i + j - 1] /\ i + j - 1 = from + j
    BY <1>2, <1>4
  <2> QED
    BY <2>1
<1> QED
  BY <1>4, <1>5, <1>6 DEF Piece

(* The loop over the symbols of a segment that begins in the head.         *)
LEMMA ScannedIs ==
    ASSUME NEW asked, Asked(asked), NEW k, NEW from \in Nat, NEW to \in Nat, from < to,
           to <= Len(Written(asked)), NEW s, Unanswered(s, k), InHead(s, asked, from),
           NEW data, data = SubSeq(Written(asked), from + 1, to)
    PROVE  \/ Scanning(scanned(s, data), asked, to, k, SubSeq(Written(asked), to + 1, to))
           \/ \E n \in from + 1 .. to :
                Stopped(scanned(s, data), asked, n, k, SubSeq(Written(asked), n + 1, to))
<1> DEFINE W == Written(asked)
           m == to - from
           rest(n) == SubSeq(W, n + 1, to)
           base == [socket |-> s, rest |-> data, done |-> FALSE]
<1>1. W \in Seq(Symbol) /\ Len(W) \in Nat /\ to <= Len(W)
  BY WrittenIs DEF IsText
<1> HIDE DEF W
<1>2. m \in Nat /\ from + m = to
  OBVIOUS
<1>3. Len(data) = m /\ DOMAIN data = 1 .. m /\ \A j \in 1 .. m : data[j] = W[from + j]
  <2>1. data = SubSeq(W, from + 1, to)
    BY DEF W
  <2>2. data \in Seq(Symbol) /\ Piece(W, from, to, data)
    BY <1>1, <2>1, PieceIs
  <2> QED
    BY <1>1, <2>2, LenProperties DEF Piece
<1>4. ASSUME NEW n \in Nat, n < to PROVE Tail(rest(n)) = rest(n + 1)
  <2>1. n + 1 \in 1 .. Len(W) /\ to \in n + 1 .. Len(W)
    BY <1>1, <1>4
  <2> QED
    BY <1>1, <2>1, HeadTailOfSubSeq
<1>5. PICK f : Steps(f, "request", base, data) /\ scanned(s, data) = f[m]
  <2>1. Folded("request", base, data, scanned(s, data))
    BY <1>2, <1>3, RequestFolded
  <2> HIDE DEF base, m
  <2> QED
    BY <1>3, <2>1, Zenon DEF Folded
<1>6. f[0] = base /\ \A j \in 1 .. m : f[j] = scanCharacter(f[j - 1], W[from + j])
  <2> HIDE DEF base, m
  <2>1. f[0] = base /\ \A j \in 1 .. m : f[j] = Fold("request", f[j - 1], data[j])
    BY <1>3, <1>5 DEF Steps
  <2>2. \A a, c : Fold("request", a, c) = scanCharacter(a, c)
    BY DEF Fold
  <2> QED
    BY <1>3, <2>1, <2>2
<1> DEFINE At(j) ==
             \/ Scanning(f[j], asked, from + j, k, rest(from + j))
             \/ \E n \in from + 1 .. from + j : Stopped(f[j], asked, n, k, rest(n))
           S == {j \in 0 .. m : At(j)}
<1>7. 0 \in S
  <2>1. base.socket = s /\ base.rest = data /\ base.done = FALSE
    OBVIOUS
  <2>2. data = rest(from + 0) /\ from + 0 = from
    BY DEF W
  <2> HIDE DEF base, rest
  <2>3. Scanning(f[0], asked, from + 0, k, rest(from + 0))
    BY <1>6, <2>1, <2>2 DEF Scanning
  <2> QED
    BY <1>2, <2>3
<1>8. ASSUME NEW j \in 1 .. m, j - 1 \in S PROVE j \in S
  <2> DEFINE n == from + (j - 1)
  <2>1. n \in Nat /\ n < to /\ n + 1 = from + j /\ n < Len(W)
    BY <1>1
  <2>2. At(j - 1)
    BY <1>8
  <2>3. f[j] = scanCharacter(f[j - 1], W[n + 1])
    BY <1>6, <2>1
  <2> HIDE DEF rest
  <2>4. CASE Scanning(f[j - 1], asked, n, k, rest(n))
    <3>1. Scanning(f[j], asked, n + 1, k, Tail(rest(n))) \/ Stopped(f[j], asked, n + 1, k, Tail(rest(n)))
      <4> HIDE DEF n
      <4> QED
        BY <2>1, <2>3, <2>4, LoopGoes DEF W
    <3>2. Tail(rest(n)) = rest(n + 1)
      BY <1>4, <2>1
    <3>3. from + j \in from + 1 .. from + j
      OBVIOUS
    <3>4. n + 1 = from + j
      BY <2>1
    <3> HIDE DEF n
    <3>5. Scanning(f[j], asked, from + j, k, rest(from + j)) \/ Stopped(f[j], asked, from + j, k, rest(from + j))
      BY <3>1, <3>2, <3>4, Zenon
    <3>6. At(j)
      BY <3>3, <3>5, Zenon
    <3> QED
      BY <3>6
  <2>5. CASE \E i \in from + 1 .. from + (j - 1) : Stopped(f[j - 1], asked, i, k, rest(i))
    <3>1. PICK i \in from + 1 .. from + (j - 1) : Stopped(f[j - 1], asked, i, k, rest(i))
      BY <2>5
    <3>2. f[j] = f[j - 1]
      BY <2>3, <3>1, LoopStops DEF Stopped
    <3>3. i \in from + 1 .. from + j
      OBVIOUS
    <3> QED
      BY <3>1, <3>2, <3>3
  <2> QED
    BY <2>2, <2>4, <2>5
<1> HIDE DEF S
<1>9. m \in S
  <2>1. 0 .. m \subseteq S
    <3> HIDE DEF m
    <3> QED
      BY <1>2, <1>7, <1>8, UpTo
  <2> QED
    BY <1>2, <2>1
<1>10. At(m)
  BY <1>9 DEF S
<1> QED
  BY <1>2, <1>5, <1>10 DEF W

-----------------------------------------------------------------------------
(* The body, and a segment                                                  *)

(* What was in time stays so.                                              *)
LEMMA StaysInTime ==
    ASSUME NEW asked, Asked(asked), NEW heard, NEW n \in Nat, NEW to \in Nat, n <= to,
           InTime(heard, asked, n)
    PROVE  InTime(heard, asked, to)
<1>1. Len(heard) \in Nat /\ Len(asked.headers) \in Nat /\ Len(Calls(asked)) <= Len(asked.headers) + 2
      /\ Len(Calls(asked)) \in Nat
  <2>1. Len(heard) \in Nat
    BY DEF InTime
  <2>2. Len(asked.headers) \in Nat
    BY Lengths
  <2>3. /\ asked.headers = <<>> => Len(Calls(asked)) = Len(asked.headers) + 1
        /\ asked.headers # <<>> => Len(Calls(asked)) = Len(asked.headers) + 2
    BY CallsAre
  <2> QED
    BY <2>1, <2>2, <2>3
<1>2. ASSUME NEW i \in 1 .. Len(heard), i <= Len(Calls(asked)) PROVE Place(asked, i) <= to
  <2>1. i \in 1 .. Len(asked.headers) + 2
    BY <1>1, <1>2
  <2>2. Place(asked, i) \in Nat
    BY <2>1, PlaceIs
  <2>3. Place(asked, i) <= n
    BY <1>2 DEF InTime
  <2> QED
    BY <2>2, <2>3
<1> QED
  BY <1>2, Zenon DEF InTime

LEMMA StaysPart ==
    ASSUME NEW asked, Asked(asked), NEW body, NEW n \in Nat, NEW to \in Nat, n <= to,
           Part(body, asked, n)
    PROVE  Part(body, asked, to)
<1>1. PICK j \in 0 .. Len(asked.body) :
        body = SubSeq(asked.body, 1, j) /\ (j = 0 \/ HeadEnd(asked) + 2 + j <= n)
  BY DEF Part
<1>2. HeadEnd(asked) \in Nat /\ j \in Nat
  BY Lengths
<1>3. j = 0 \/ HeadEnd(asked) + 2 + j <= to
  BY <1>1, <1>2
<1> QED
  BY <1>1, <1>3 DEF Part

LEMMA StaysAnswered ==
    ASSUME NEW asked, Asked(asked), NEW s, NEW k, NEW n \in Nat, NEW to \in Nat, n <= to,
           AnsweredAt(s, asked, n, k)
    PROVE  AnsweredAt(s, asked, to, k)
<1>1. InTime(s.heard, asked, to) /\ Part(s.body, asked, to)
  BY StaysInTime, StaysPart DEF AnsweredAt
<1> QED
  BY <1>1 DEF AnsweredAt

\* W continues with the part of B that is behind e + n.
Continued(B, W, e, n, to) ==
    SubSeq(B, 1, n - e) \o SubSeq(W, n + 1, to) = SubSeq(B, 1, to - e)

(* W ends in B, behind e symbols: what W continues with after n.             *)
LEMMA Continues ==
    ASSUME NEW S, NEW W \in Seq(S), NEW B \in Seq(S), NEW e \in Nat, NEW b \in Nat, Len(B) = b,
           Len(W) = e + b, \A l \in 1 .. b : W[e + l] = B[l],
           NEW n \in e .. e + b, NEW to \in n .. e + b
    PROVE  Continued(B, W, e, n, to)
<1> DEFINE i == n - e
           j == to - e
<1>1. /\ e \in Nat /\ b \in Nat /\ Len(W) = e + b /\ W \in Seq(S) /\ B \in Seq(S)
      /\ \A l \in 1 .. b : W[e + l] = B[l]
  OBVIOUS
<1>2. i \in 0 .. b /\ j \in i .. b /\ n = e + i /\ to = e + j
  OBVIOUS
<1> HIDE DEF i, j
<1>3. SubSeq(W, n + 1, to) = SubSeq(B, i + 1, j)
  <2>1. \A l \in n + 1 .. to : W[l] \in S
    BY <1>1, <1>2
  <2>2. \A l \in i + 1 .. j : B[l] \in S
    <3>1. \A l \in i + 1 .. j : l \in 1 .. b
      BY <1>1, <1>2
    <3> QED
      BY <1>1, <3>1, ElementOfSeq
  <2>3. /\ n + 1 \in Int /\ to \in Int /\ i + 1 \in Int /\ j \in Int
        /\ to - (n + 1) + 1 = j - i /\ j - (i + 1) + 1 = j - i /\ j - i \in Nat
        /\ (n + 1 <= to <=> i + 1 <= j) /\ (i + 1 <= j <=> j - i # 0)
    BY <1>1, <1>2
  <2>4. /\ SubSeq(W, n + 1, to) \in Seq(S)
        /\ Len(SubSeq(W, n + 1, to)) = IF n + 1 <= to THEN to - (n + 1) + 1 ELSE 0
        /\ \A l \in 1 .. to - (n + 1) + 1 : SubSeq(W, n + 1, to)[l] = W[(n + 1) + l - 1]
    BY <2>1, <2>3, SubSeqProperties
  <2>5. /\ SubSeq(B, i + 1, j) \in Seq(S)
        /\ Len(SubSeq(B, i + 1, j)) = IF i + 1 <= j THEN j - (i + 1) + 1 ELSE 0
        /\ \A l \in 1 .. j - (i + 1) + 1 : SubSeq(B, i + 1, j)[l] = B[(i + 1) + l - 1]
    BY <2>2, <2>3, SubSeqProperties
  <2> DEFINE u == SubSeq(W, n + 1, to)
             v == SubSeq(B, i + 1, j)
             d == j - i
  <2>6. u \in Seq(S) /\ v \in Seq(S) /\ Len(u) = d /\ Len(v) = d
    <3>1. CASE i + 1 <= j
      BY <2>3, <2>4, <2>5, <3>1
    <3>2. CASE ~(i + 1 <= j)
      BY <2>3, <2>4, <2>5, <3>2
    <3> QED
      BY <3>1, <3>2
  <2>7. ASSUME NEW l \in 1 .. d PROVE u[l] = v[l]
    <3>1. (n + 1) + l - 1 = e + (i + l) /\ (i + 1) + l - 1 = i + l /\ i + l \in 1 .. b
      BY <1>1, <1>2
    <3>2. u[l] = W[e + (i + l)] /\ v[l] = B[i + l]
      <4>1. l \in 1 .. to - (n + 1) + 1 /\ l \in 1 .. j - (i + 1) + 1
        BY <2>3
      <4>2. u[l] = W[(n + 1) + l - 1] /\ v[l] = B[(i + 1) + l - 1]
        BY <2>4, <2>5, <4>1
      <4> QED
        BY <3>1, <4>2, Zenon
    <3> QED
      BY <1>1, <3>1, <3>2, Zenon
  <2> HIDE DEF u, v, d
  <2>8. u = v
    BY <2>6, <2>7, SeqEqual
  <2> QED
    BY <2>8 DEF u, v
<1>4. SubSeq(B, 1, i) \o SubSeq(B, i + 1, j) = SubSeq(B, 1, j)
  <2>1. 1 \in 1 .. Len(B) + 1 /\ i \in 1 - 1 .. Len(B) /\ j \in i .. Len(B)
    BY <1>1, <1>2
  <2> QED
    BY <1>1, <2>1, ConcatAdjacentSubSeq
<1>5. SubSeq(B, 1, i) \o SubSeq(W, n + 1, to) = SubSeq(B, 1, j)
  BY <1>3, <1>4
<1> QED
  BY <1>5 DEF i, j, Continued

(* The symbols of the body go on where those before them end.              *)
LEMMA BodyGrows ==
    ASSUME NEW asked, Asked(asked), NEW n, n \in HeadEnd(asked) + 2 .. Len(Written(asked)),
           NEW to, to \in n .. Len(Written(asked))
    PROVE  SubSeq(asked.body, 1, n - (HeadEnd(asked) + 2)) \o SubSeq(Written(asked), n + 1, to)
             = SubSeq(asked.body, 1, to - (HeadEnd(asked) + 2))
<1> DEFINE W == Written(asked)
           B == asked.body
           e == HeadEnd(asked) + 2
           b == Len(B)
<1>1. B \in Seq(Symbol)
  <2>1. B \in Seq(Seq(STRING)) /\ Seq(STRING) \subseteq Symbol
    BY DEF Asked, Symbol
  <2> QED
    BY <2>1, SeqMonotonic
<1>2. W \in Seq(Symbol) /\ \A l \in 1 .. b : W[e + l] = B[l]
  BY WrittenIs DEF IsText
<1>3. e \in Nat /\ b \in Nat /\ Len(W) = e + b
  <2>1. HeadEnd(asked) \in Nat /\ b \in Nat /\ Len(W) = e + b
    BY Lengths
  <2> QED
    BY <2>1
<1>4. n \in e .. e + b /\ to \in n .. e + b /\ Len(B) = b
  BY <1>3
<1> HIDE DEF W, B, e, b
<1>5. Continued(B, W, e, n, to)
  BY <1>1, <1>2, <1>3, <1>4, Continues
<1> QED
  BY <1>5 DEF W, B, e, Continued

LEMMA InTimeGrows ==
    ASSUME NEW asked, Asked(asked), NEW heard, NEW n, InTime(heard, asked, n),
           Len(heard) >= Len(Calls(asked)), NEW callback, callback = <<"onRequestEnd">>
    PROVE  InTime(Append(heard, callback), asked, n) /\ Len(Append(heard, callback)) >= Len(Calls(asked))
<1> DEFINE more == Append(heard, callback)
           k == Len(heard)
           c == Len(Calls(asked))
<1>1. c \in Nat
  BY CallsAre
<1>2. heard \in Seq(Callback) /\ k \in Nat
      /\ \A i \in 1 .. k : /\ i <= c => heard[i] = Calls(asked)[i] /\ Place(asked, i) <= n
                           /\ i > c => heard[i] = <<"onRequestEnd">>
  BY DEF InTime
<1>3. callback \in Callback
  BY DEF Callback
<1>4. /\ more \in Seq(Callback) /\ Len(more) = k + 1 /\ more[k + 1] = callback
      /\ \A i \in 1 .. k : more[i] = heard[i]
  BY <1>2, <1>3
<1> HIDE DEF more
<1>5. ASSUME NEW i \in 1 .. k + 1
      PROVE  /\ i <= c => more[i] = Calls(asked)[i] /\ Place(asked, i) <= n
             /\ i > c => more[i] = <<"onRequestEnd">>
  <2>1. CASE i = k + 1
    <3>1. ~(i <= c)
      <4> HIDE DEF k, c
      <4>1. k >= c
        BY DEF k, c
      <4> QED
        BY <1>1, <1>2, <2>1, <4>1
    <3> QED
      BY <1>4, <2>1, <3>1
  <2>2. CASE i # k + 1
    <3>1. i \in 1 .. k
      BY <1>2, <2>2
    <3>2. more[i] = heard[i]
      BY <1>4, <3>1
    <3> QED
      BY <1>2, <3>1, <3>2, Zenon
  <2> QED
    BY <2>1, <2>2
<1>6. Len(more) >= c
  BY <1>1, <1>2, <1>4
<1>7. InTime(more, asked, n)
  BY <1>4, <1>5 DEF InTime
<1> QED
  BY <1>6, <1>7 DEF more

(* A part of the body: onBodyReceived, and onRequestEnd if the count is up.  *)
LEMMA ReceiveBodyIs ==
    ASSUME NEW asked, Asked(asked), NEW s, NEW k, Unanswered(s, k), NEW n, InBody(s, asked, n),
           NEW to, to \in n .. Len(Written(asked)),
           NEW t, t = receiveBody(s, SubSeq(Written(asked), n + 1, to))
    PROVE  (Unanswered(t, k) /\ InBody(t, asked, to)) \/ AnsweredAt(t, asked, to, k)
<1> DEFINE data == SubSeq(Written(asked), n + 1, to)
           e == HeadEnd(asked) + 2
           got == [s EXCEPT !.body = @ \o data]
           told == onBodyReceived(s, data)
           counted == [told EXCEPT !.contentLength = (@ - Len(data)) % LengthMod]
           callback == <<"onRequestEnd">>
           ended == [counted EXCEPT !.heard = Append(@, callback)]
<1>1. /\ n \in e .. Len(Written(asked)) /\ to \in e .. e + Len(asked.body)
      /\ n \in Nat /\ to \in Nat /\ n <= to /\ e \in Nat /\ Len(asked.body) \in Nat
  <2>1. n \in e .. e + Len(asked.body)
    BY DEF InBody
  <2>2. HeadEnd(asked) \in Nat /\ Len(asked.body) \in Nat
        /\ Len(Written(asked)) = e + Len(asked.body)
    BY Lengths
  <2>3. e \in Nat
    BY <2>2
  <2> HIDE DEF e
  <2> QED
    BY <2>1, <2>2, <2>3
<1>2. t = IF Answered(told) THEN told
          ELSE IF counted.contentLength = 0 THEN Called(counted, callback) ELSE counted
  BY Zenon DEF receiveBody
<1>3. told = IF s.answersIn = "onBodyReceived" THEN respond(got) ELSE got
  BY Zenon DEF onBodyReceived
<1>4. s.body \o data = SubSeq(asked.body, 1, to - e)
  <2>1. SubSeq(asked.body, 1, n - e) \o data = SubSeq(asked.body, 1, to - e)
    BY <1>1, BodyGrows
  <2>2. s.body = SubSeq(asked.body, 1, n - e)
    BY DEF InBody
  <2> QED
    BY <2>1, <2>2
<1> HIDE DEF data, told
<1>5. /\ DOMAIN got = Fields /\ got.body = SubSeq(asked.body, 1, to - e)
      /\ \A f \in Fields \ {"body"} : got[f] = s[f]
  BY <1>4 DEF Unanswered, Fields
<1> HIDE DEF got
<1>6. Unanswered(got, k)
  BY <1>5 DEF Unanswered, Connected, Fields
<1>7. /\ got.stage = HTTP_SERVER_STAGE_BODY /\ got.requestSignaled = TRUE /\ got.crlfcount = 4
      /\ got.httpMethod = MethodOf(asked) /\ got.query = asked.query /\ got.heard = s.heard
  BY <1>5 DEF InBody, Fields
<1>8. InTime(got.heard, asked, to) /\ Len(got.heard) >= Len(Calls(asked))
  BY <1>1, <1>7, StaysInTime DEF InBody
<1>9. Part(got.body, asked, to)
  <2>1. to - e \in 0 .. Len(asked.body) /\ e + (to - e) <= to
    <3> HIDE DEF e
    <3> QED
      BY <1>1
  <2> QED
    BY <1>5, <2>1 DEF Part
<1>10. Ready(got, asked, to, k)
  BY <1>6, <1>7, <1>8, <1>9 DEF Ready
<1>11. asked.headers # <<>> /\ to \in e .. e + Len(asked.body)
  BY <1>1 DEF InBody
<1>12. InBody(got, asked, to)
  BY <1>5, <1>7, <1>8, <1>11 DEF InBody
<1>13. CASE s.answersIn = "onBodyReceived"
  <2>1. told = respond(got)
    BY <1>3, <1>13
  <2>2. Replied(told, got, asked, to, k)
    BY <1>10, <2>1, Answers
  <2>3. Answered(told)
    BY <2>2 DEF Replied, AnsweredAt
  <2> QED
    BY <1>2, <2>2, <2>3, Zenon DEF Replied
<1>14. CASE s.answersIn # "onBodyReceived"
  <2>1. told = got
    BY <1>3, <1>14
  <2>2. ~Answered(told)
    BY <1>12, <2>1, Silent
  <2>3. /\ DOMAIN counted = Fields
        /\ \A f \in Fields \ {"contentLength"} : counted[f] = got[f]
    BY <1>5, <2>1 DEF Fields
  <2> HIDE DEF counted
  <2>4. Unanswered(counted, k)
    BY <1>6, <2>3 DEF Unanswered, Connected, Fields
  <2>5. /\ counted.stage = got.stage /\ counted.requestSignaled = got.requestSignaled
        /\ counted.crlfcount = got.crlfcount /\ counted.httpMethod = got.httpMethod
        /\ counted.query = got.query /\ counted.heard = got.heard /\ counted.body = got.body
    BY <2>3 DEF Fields
  <2>6. InBody(counted, asked, to)
    BY <1>12, <2>5, Zenon DEF InBody
  <2>7. CASE counted.contentLength # 0
    <3>1. t = counted
      BY <1>2, <2>2, <2>7, Zenon
    <3> QED
      BY <2>4, <2>6, <3>1
  <2>8. CASE counted.contentLength = 0
    <3>1. t = Called(counted, callback)
      BY <1>2, <2>2, <2>8, Zenon
    <3>2. /\ DOMAIN ended = Fields /\ ended.heard = Append(got.heard, callback)
          /\ \A f \in Fields \ {"heard"} : ended[f] = counted[f]
      BY <2>3, <2>5 DEF Fields
    <3>3. \A u : u = [counted EXCEPT !.heard = Append(@, callback)] /\ Ready(u, asked, to, k)
                => Called(counted, callback) = u \/ Replied(Called(counted, callback), u, asked, to, k)
      BY CalledIs
    <3>4. ended = [counted EXCEPT !.heard = Append(@, callback)]
      OBVIOUS
    <3> HIDE DEF ended
    <3>5. Unanswered(ended, k)
      BY <2>4, <3>2 DEF Unanswered, Connected, Fields
    <3>6. /\ ended.stage = got.stage /\ ended.requestSignaled = got.requestSignaled
          /\ ended.crlfcount = got.crlfcount /\ ended.httpMethod = got.httpMethod
          /\ ended.query = got.query /\ ended.body = got.body
      BY <2>5, <3>2 DEF Fields
    <3>7. InTime(ended.heard, asked, to) /\ Len(ended.heard) >= Len(Calls(asked))
      BY <1>8, <3>2, InTimeGrows
    <3>8. Ready(ended, asked, to, k)
      BY <1>7, <1>9, <3>5, <3>6, <3>7, Zenon DEF Ready
    <3>9. InBody(ended, asked, to)
      BY <1>12, <3>6, <3>7, Zenon DEF InBody
    <3>10. t = ended \/ Replied(t, ended, asked, to, k)
      BY <3>1, <3>3, <3>4, <3>8, Zenon
    <3> QED
      BY <3>5, <3>9, <3>10, Zenon DEF Replied
  <2> QED
    BY <2>7, <2>8
<1> QED
  BY <1>13, <1>14

LEMMA NotBegun ==
    ASSUME NEW asked, Asked(asked), NEW s, NEW n, InHead(s, asked, n)
    PROVE  s.crlfcount # 4
<1>1. CASE InMethod(s, asked, n) \/ InQuery(s, asked, n)
  <2>1. s.crlfcount = 0
    BY <1>1, Zenon DEF InMethod, InQuery
  <2> QED
    BY <2>1
<1>2. CASE InHeaders(s, asked, n)
  <2>1. PICK l \in 0 .. Len(asked.headers), j \in 0 .. 2 : InHeader(s, asked, l, j)
    BY <1>2 DEF InHeaders
  <2>2. s.crlfcount = LineEnds(asked, l, j) /\ (l = Len(asked.headers) /\ l > 0 => j < 2)
    BY <2>1 DEF InHeader
  <2>3. Len(asked.headers) \in Nat
    BY Lengths
  <2>4. LineEnds(asked, l, j) # 4
    BY <2>2, <2>3 DEF LineEnds
  <2> QED
    BY <2>2, <2>4
<1> QED
  BY <1>1, <1>2 DEF InHead

\* A socket that received n symbols of asked.
Serves(s, asked, n) ==
    \/ Unanswered(s, n) /\ (InHead(s, asked, n) \/ InBody(s, asked, n))
    \/ AnsweredAt(s, asked, n, n)

(* A segment, wherever it is cut.                                          *)
LEMMA OnReceiveIs ==
    ASSUME NEW asked, Asked(asked), NEW from \in Nat, NEW to \in Nat, from < to,
           to <= Len(Written(asked)), NEW r, Serves(r, asked, from),
           NEW s, s = [r EXCEPT !.received = to]
    PROVE  Serves(onReceive(s, SubSeq(Written(asked), from + 1, to)), asked, to)
<1> DEFINE data == SubSeq(Written(asked), from + 1, to)
           rest(n) == SubSeq(Written(asked), n + 1, to)
           t == onReceive(s, data)
           loop == scanned(s, data)
<1>1. t = IF Answered(s) THEN s
          ELSE IF s.crlfcount = 4 THEN receiveBody(s, data)
          ELSE IF Answered(loop.socket) \/ loop.socket.crlfcount # 4 THEN loop.socket
               ELSE receiveBody(loop.socket, loop.rest)
  BY Zenon DEF onReceive
<1>2. DOMAIN r = Fields
  BY DEF Serves, Unanswered, AnsweredAt
<1>3. DOMAIN s = Fields /\ s.received = to /\ \A f \in Fields \ {"received"} : s[f] = r[f]
  BY <1>2 DEF Fields
<1>4. /\ s.state = r.state /\ s.released = r.released /\ s.buffer = r.buffer /\ s.stage = r.stage
      /\ s.crlfcount = r.crlfcount /\ s.httpMethod = r.httpMethod /\ s.scanned = r.scanned
      /\ s.requestSignaled = r.requestSignaled /\ s.query = r.query
      /\ s.answersIn = r.answersIn /\ s.heard = r.heard /\ s.body = r.body
  BY <1>3 DEF Fields
<1>5. CASE AnsweredAt(r, asked, from, from)
  <2>1. AnsweredAt(s, asked, from, to)
    BY <1>3, <1>4, <1>5, Zenon DEF AnsweredAt, Connected, Answered
  <2>2. AnsweredAt(s, asked, to, to)
    BY <2>1, StaysAnswered
  <2>3. t = s
    BY <1>1, <2>2, Zenon DEF AnsweredAt
  <2> QED
    BY <2>2, <2>3 DEF Serves
<1>6. CASE Unanswered(r, from) /\ InBody(r, asked, from)
  <2>1. Unanswered(s, to)
    BY <1>3, <1>4, <1>6, Zenon DEF Unanswered, Connected
  <2>2. InBody(s, asked, from)
    BY <1>4, <1>6, Zenon DEF InBody
  <2>3. t = receiveBody(s, data)
    <3>1. ~Answered(s) /\ s.crlfcount = 4
      BY <2>2, Silent DEF InBody
    <3> QED
      BY <1>1, <3>1, Zenon
  <2>4. to \in from .. Len(Written(asked))
    <3>1. Len(Written(asked)) \in Nat
      BY FirstInText
    <3> QED
      BY <3>1
  <2> HIDE DEF t
  <2>5. (Unanswered(t, to) /\ InBody(t, asked, to)) \/ AnsweredAt(t, asked, to, to)
    BY <2>1, <2>2, <2>3, <2>4, ReceiveBodyIs
  <2> QED
    BY <2>5 DEF Serves, t
<1>7. CASE Unanswered(r, from) /\ InHead(r, asked, from)
  <2>1. Unanswered(s, to)
    BY <1>3, <1>4, <1>7, Zenon DEF Unanswered, Connected
  <2>2. InHead(s, asked, from)
    <3>1. InMethod(r, asked, from) => InMethod(s, asked, from)
      BY <1>4, Zenon DEF InMethod
    <3>2. InQuery(r, asked, from) => InQuery(s, asked, from)
      BY <1>4, Zenon DEF InQuery
    <3>3. InHeaders(r, asked, from) => InHeaders(s, asked, from)
      BY <1>4, Zenon DEF InHeaders, InHeader
    <3> QED
      BY <1>7, <3>1, <3>2, <3>3 DEF InHead
  <2>3. ~Answered(s) /\ s.crlfcount # 4
    BY <2>2, Silent, NotBegun
  <2>4. \/ Scanning(loop, asked, to, to, rest(to))
        \/ \E n \in from + 1 .. to : Stopped(loop, asked, n, to, rest(n))
    BY <2>1, <2>2, ScannedIs
  <2>5. t = IF Answered(loop.socket) \/ loop.socket.crlfcount # 4 THEN loop.socket
            ELSE receiveBody(loop.socket, loop.rest)
    BY <1>1, <2>3, Zenon
  <2> HIDE DEF loop, t
  <2>6. CASE Scanning(loop, asked, to, to, rest(to))
    <3>1. Unanswered(loop.socket, to) /\ InHead(loop.socket, asked, to)
      BY <2>6 DEF Scanning
    <3>2. loop.socket.crlfcount # 4
      BY <3>1, NotBegun
    <3> QED
      BY <2>5, <3>1, <3>2 DEF Serves, t
  <2>7. ASSUME NEW n \in from + 1 .. to, Stopped(loop, asked, n, to, rest(n))
        PROVE  Serves(t, asked, to)
    <3>1. n \in Nat /\ n <= to /\ to \in n .. Len(Written(asked))
      <4>1. Len(Written(asked)) \in Nat
        BY FirstInText
      <4> QED
        BY <4>1
    <3>2. CASE Unanswered(loop.socket, to) /\ InBody(loop.socket, asked, n) /\ loop.rest = rest(n)
      <4>1. ~Answered(loop.socket) /\ loop.socket.crlfcount = 4
        BY <3>2, Silent DEF InBody
      <4>2. t = receiveBody(loop.socket, rest(n))
        BY <2>5, <3>2, <4>1
      <4>3. (Unanswered(t, to) /\ InBody(t, asked, to)) \/ AnsweredAt(t, asked, to, to)
        BY <3>1, <3>2, <4>2, ReceiveBodyIs
      <4> QED
        BY <4>3 DEF Serves
    <3>3. CASE AnsweredAt(loop.socket, asked, n, to)
      <4>1. AnsweredAt(loop.socket, asked, to, to)
        BY <3>1, <3>3, StaysAnswered
      <4>2. t = loop.socket
        BY <2>5, <4>1 DEF AnsweredAt
      <4> QED
        BY <4>1, <4>2 DEF Serves
    <3> QED
      BY <2>7, <3>2, <3>3 DEF Stopped
  <2> QED
    BY <2>4, <2>6, <2>7 DEF t
<1> QED
  BY <1>5, <1>6, <1>7 DEF Serves

-----------------------------------------------------------------------------
(* What HTTPClient has made of the first symbols of an answer               *)

PeerFields ==
    {"state", "asked", "sent", "received", "statusSignaled", "bodySignaled", "seen",
     "statusCode", "page", "ended"}

\* line is the j symbols of the answer behind the first from.
Seen(line, code, from, j) ==
    /\ line \in Seq(Answer)
    /\ Len(line) = j
    /\ \A i \in 1 .. j : line[i] = Reply(code)[from + i]

ReadsStatus(p, code, n) ==
    /\ n \in 0 .. 2 /\ p.statusSignaled = FALSE /\ p.bodySignaled = FALSE
    /\ Seen(p.seen, code, 0, n) /\ p.statusCode = 0 /\ p.page = <<>>

ReadsHeaders(p, code, n) ==
    /\ n \in 3 .. (IF code = 404 THEN 6 ELSE 7) /\ p.statusSignaled = TRUE /\ p.bodySignaled = FALSE
    /\ Seen(p.seen, code, 3, n - 3) /\ p.statusCode = code /\ p.page = <<>>

ReadsPage(p, code, n) ==
    /\ code # 404 /\ n \in 8 .. Len(Reply(code))
    /\ p.statusSignaled = TRUE /\ p.bodySignaled = TRUE
    /\ p.statusCode = code /\ p.page = SubSeq(Page(code), 1, n - 8)

Reads(p, code, n) == ReadsStatus(p, code, n) \/ ReadsHeaders(p, code, n) \/ ReadsPage(p, code, n)

\* q is p, but for what its reader holds and whether it is open.
Kept(p, q) ==
    /\ DOMAIN q = PeerFields
    /\ \A f \in {"asked", "sent", "received", "ended"} : q[f] = p[f]
    /\ p.state # "SYN_SENT" => q.state # "SYN_SENT"

LEMMA KeptTwice ==
    ASSUME NEW p, NEW q, NEW r, Kept(p, q), Kept(q, r)
    PROVE  Kept(p, r)
BY DEF Kept

LEMMA AnswerLength ==
    ASSUME NEW code \in Codes
    PROVE  /\ Reply(code) \in Seq(Answer) /\ Len(Page(code)) \in Nat
           /\ code = 404 => Len(Reply(code)) = 6
           /\ code # 404 => Len(Reply(code)) = 8 + Len(Page(code))
<1>1. ReplyIs(Reply(code), code)
  BY ReplyHas
<1>2. Len(Page(code)) \in Nat
  BY PageIs
<1> QED
  BY <1>1, <1>2 DEF ReplyIs

LEMMA SeenGrows ==
    ASSUME NEW code \in Codes, NEW from \in Nat, NEW j \in Nat, NEW line,
           Seen(line, code, from, j), from + j < Len(Reply(code))
    PROVE  Seen(Append(line, Reply(code)[from + j + 1]), code, from, j + 1)
<1> DEFINE c == Reply(code)[from + j + 1]
           more == Append(line, c)
<1>1. c \in Answer
  <2>1. Reply(code) \in Seq(Answer)
    BY AnswerLength
  <2>2. from + j + 1 \in 1 .. Len(Reply(code))
    BY <2>1
  <2> QED
    BY <2>1, <2>2, ElementOfSeq
<1>2. line \in Seq(Answer) /\ Len(line) = j /\ \A i \in 1 .. j : line[i] = Reply(code)[from + i]
  BY DEF Seen
<1> HIDE DEF c
<1>3. /\ more \in Seq(Answer) /\ Len(more) = j + 1 /\ more[j + 1] = c
      /\ \A i \in 1 .. j : more[i] = line[i]
  BY <1>1, <1>2
<1>4. ASSUME NEW i \in 1 .. j + 1 PROVE more[i] = Reply(code)[from + i]
  <2>1. CASE i = j + 1
    <3>1. from + i = from + j + 1
      BY <2>1
    <3> QED
      BY <2>1, <3>1, <1>3 DEF c
  <2>2. CASE i # j + 1
    <3>1. i \in 1 .. j
      BY <2>2
    <3> QED
      BY <3>1, <1>2, <1>3
  <2> QED
    BY <2>1, <2>2
<1> QED
  BY <1>3, <1>4 DEF Seen, c

\* The loop over a segment's symbols, behind n of the answer.
Reading(loop, c, code, n, rest) ==
    /\ Kept(c, loop.client) /\ Reads(loop.client, code, n) /\ loop.rest = rest

(* A symbol of the status, which is none of the line's end.                *)
LEMMA StatusGrows ==
    ASSUME NEW code \in Codes, NEW n \in 0 .. 1, NEW loop, NEW rest, loop.rest = rest,
           DOMAIN loop.client = PeerFields, ReadsStatus(loop.client, code, n),
           NEW next, next = scanHead(loop, Reply(code)[n + 1])
    PROVE  Reading(next, loop.client, code, n + 1, Tail(rest))
<1> DEFINE c == loop.client
           line == Append(c.seen, Reply(code)[n + 1])
           d == [[c EXCEPT !.seen = line] EXCEPT !.bodySignaled =
                    c.statusSignaled /\ EndsWith(line, <<"\r", "\n", "\r", "\n">>)]
<1>1. Seen(line, code, 0, n + 1)
  <2>1. 0 + n < Len(Reply(code)) /\ 0 + n + 1 = n + 1
    <3>1. Len(Reply(code)) = 6 \/ (Len(Reply(code)) = 8 + Len(Page(code)) /\ Len(Page(code)) \in Nat)
      BY AnswerLength
    <3> QED
      BY <3>1
  <2>2. Seen(c.seen, code, 0, n) /\ 0 \in Nat /\ n \in Nat
    BY DEF ReadsStatus
  <2>3. Seen(Append(c.seen, Reply(code)[0 + n + 1]), code, 0, n + 1)
    BY <2>1, <2>2, SeenGrows
  <2> QED
    BY <2>1, <2>3
<1>2. ~EndsWith(line, <<"status", "\r", "\n">>)
  <2>1. Len(line) \in Nat /\ Len(line) < 3
    BY <1>1 DEF Seen
  <2> QED
    BY <2>1, ShortLine
<1>3. c.bodySignaled = FALSE /\ c.statusSignaled = FALSE /\ c.statusCode = 0 /\ c.page = <<>>
  BY DEF ReadsStatus
<1>4. next = [client |-> d, rest |-> Tail(rest)]
  BY <1>2, <1>3, Zenon DEF scanHead
<1> HIDE DEF line
<1>5. /\ DOMAIN d = PeerFields /\ d.seen = line /\ d.bodySignaled = FALSE
      /\ \A f \in PeerFields \ {"seen", "bodySignaled"} : d[f] = c[f]
  BY <1>3 DEF PeerFields
<1> HIDE DEF d
<1>6. Kept(c, d)
  BY <1>5 DEF Kept, PeerFields
<1>7. d.statusSignaled = FALSE /\ d.statusCode = 0 /\ d.page = <<>>
  BY <1>3, <1>5 DEF PeerFields
<1>8. n + 1 \in 0 .. 2
  OBVIOUS
<1>9. Reads(d, code, n + 1)
  BY <1>1, <1>5, <1>7, <1>8 DEF Reads, ReadsStatus
<1> QED
  BY <1>4, <1>6, <1>9 DEF Reading

(* The end of the status line: the client is told, and may give up.        *)
LEMMA StatusEnds ==
    ASSUME NEW code \in Codes, NEW loop, NEW rest, loop.rest = rest,
           DOMAIN loop.client = PeerFields, ReadsStatus(loop.client, code, 2),
           NEW next, next = scanHead(loop, Reply(code)[3])
    PROVE  Reading(next, loop.client, code, 3, Tail(rest))
<1> DEFINE c == loop.client
           line == Append(c.seen, Reply(code)[3])
           signaled == [c EXCEPT !.statusSignaled = TRUE, !.seen = <<>>]
           number == line[Len(line) - 2][2]
           told == [signaled EXCEPT !.statusCode = number]
           d == onResponseReceived(signaled, number)
<1>1. Seen(line, code, 0, 3)
  <2>1. 0 + 2 < Len(Reply(code)) /\ 0 + 2 + 1 = 3 /\ 2 + 1 = 3
    <3>1. Len(Reply(code)) = 6 \/ (Len(Reply(code)) = 8 + Len(Page(code)) /\ Len(Page(code)) \in Nat)
      BY AnswerLength
    <3> QED
      BY <3>1
  <2>2. Seen(c.seen, code, 0, 2) /\ 0 \in Nat /\ 2 \in Nat
    BY DEF ReadsStatus
  <2>3. Seen(Append(c.seen, Reply(code)[0 + 2 + 1]), code, 0, 2 + 1)
    BY <2>1, <2>2, SeenGrows
  <2> QED
    BY <2>1, <2>3
<1> HIDE DEF line
<1>2. Len(line) = 3 /\ line[1] = Status(code) /\ line[2] = CR /\ line[3] = LF
  <2>1. Reply(code)[1] = Status(code) /\ Reply(code)[2] = CR /\ Reply(code)[3] = LF
    BY ReplyHas DEF ReplyIs
  <2>2. 0 + 1 = 1 /\ 0 + 2 = 2 /\ 0 + 3 = 3 /\ 1 \in 1 .. 3 /\ 2 \in 1 .. 3 /\ 3 \in 1 .. 3
    OBVIOUS
  <2> QED
    <3>1. Len(line) = 3 /\ \A i \in 1 .. 3 : line[i] = Reply(code)[0 + i]
      BY <1>1 DEF Seen
    <3>2. line[1] = Reply(code)[0 + 1] /\ line[2] = Reply(code)[0 + 2] /\ line[3] = Reply(code)[0 + 3]
      BY <2>2, <3>1, Zenon
    <3> QED
      BY <2>1, <2>2, <3>1, <3>2
<1>3. EndsWith(line, <<"status", "\r", "\n">>) /\ number = code
  <2>1. line[1][1] = "status" /\ line[1][2] = code
    BY <1>2 DEF Status
  <2>2. EndsWith(line, <<"status", "\r", "\n">>) /\ line[Len(line) - 2] = line[1]
    BY <1>2, <2>1, WholeLine
  <2> QED
    BY <2>1, <2>2
<1>4. c.bodySignaled = FALSE /\ c.statusSignaled = FALSE /\ c.page = <<>>
  BY DEF ReadsStatus
<1>5. next = [client |-> d, rest |-> Tail(rest)]
  BY <1>3, <1>4, Zenon DEF scanHead, line
<1> HIDE DEF number
<1>6. d = told \/ d = [told EXCEPT !.state = "CLOSED"]
  BY Zenon DEF onResponseReceived, terminate
<1>7. /\ DOMAIN told = PeerFields /\ told.statusSignaled = TRUE /\ told.seen = <<>>
      /\ told.statusCode = code
      /\ \A f \in PeerFields \ {"statusSignaled", "seen", "statusCode"} : told[f] = c[f]
  BY <1>3 DEF PeerFields
<1> HIDE DEF told, d
<1>8. /\ DOMAIN d = PeerFields /\ d.statusSignaled = TRUE /\ d.seen = <<>> /\ d.statusCode = code
      /\ \A f \in PeerFields \ {"state", "statusSignaled", "seen", "statusCode"} : d[f] = c[f]
      /\ d.state = c.state \/ d.state = "CLOSED"
  BY <1>6, <1>7 DEF PeerFields
<1>9. Kept(c, d)
  BY <1>8 DEF Kept, PeerFields
<1>10. d.bodySignaled = FALSE /\ d.page = <<>>
  BY <1>4, <1>8 DEF PeerFields
<1>11. Seen(d.seen, code, 3, 3 - 3) /\ 3 \in 3 .. (IF code = 404 THEN 6 ELSE 7)
  BY <1>8 DEF Seen
<1>12. Reads(d, code, 3)
  BY <1>8, <1>10, <1>11 DEF Reads, ReadsHeaders
<1> QED
  BY <1>5, <1>9, <1>12 DEF Reading

LEMMA NoBlankLine ==
    ASSUME NEW line, Len(line) \in Nat, Len(line) < 4 \/ (Len(line) = 4 /\ line[1][1] = "header")
    PROVE  ~EndsWith(line, <<"\r", "\n", "\r", "\n">>)
<1>1. CASE Len(line) < 4
  BY <1>1 DEF EndsWith
<1>2. CASE Len(line) = 4 /\ line[1][1] = "header"
  <2>1. Len(<<"\r", "\n", "\r", "\n">>) = 4 /\ 1 \in DOMAIN <<"\r", "\n", "\r", "\n">>
        /\ <<"\r", "\n", "\r", "\n">>[1] = "\r"
    OBVIOUS
  <2> QED
    BY <1>2, <2>1 DEF EndsWith
<1> QED
  BY <1>1, <1>2

LEMMA BlankLine ==
    ASSUME NEW line, Len(line) = 5, line[2] = CR, line[3] = LF, line[4] = CR, line[5] = LF
    PROVE  EndsWith(line, <<"\r", "\n", "\r", "\n">>)
BY DEF EndsWith, CR, LF

(* A symbol behind the status: the body begins at a blank line.            *)
LEMMA HeadersGrow ==
    ASSUME NEW code \in Codes, NEW n, n < Len(Reply(code)), NEW loop, NEW rest, loop.rest = rest,
           DOMAIN loop.client = PeerFields, ReadsHeaders(loop.client, code, n),
           NEW next, next = scanHead(loop, Reply(code)[n + 1])
    PROVE  Reading(next, loop.client, code, n + 1, Tail(rest))
<1> DEFINE c == loop.client
           line == Append(c.seen, Reply(code)[n + 1])
           blank == EndsWith(line, <<"\r", "\n", "\r", "\n">>)
           d == [[c EXCEPT !.seen = line] EXCEPT !.bodySignaled = c.statusSignaled /\ blank]
           j == n - 3
<1>1. n \in 3 .. 7 /\ j \in Nat /\ 3 + j = n /\ 3 + j + 1 = n + 1 /\ n \in Nat
  BY DEF ReadsHeaders
<1>2. Seen(line, code, 3, j + 1)
  <2>1. Seen(c.seen, code, 3, j) /\ 3 \in Nat /\ 3 + j < Len(Reply(code))
    BY <1>1 DEF ReadsHeaders
  <2> HIDE DEF j
  <2>2. Seen(Append(c.seen, Reply(code)[3 + j + 1]), code, 3, j + 1)
    BY <1>1, <2>1, SeenGrows
  <2> QED
    BY <1>1, <2>2
<1> HIDE DEF line
<1>3. Len(line) = j + 1 /\ \A i \in 1 .. j + 1 : line[i] = Reply(code)[3 + i]
  BY <1>2 DEF Seen
<1>4. c.bodySignaled = FALSE /\ c.statusSignaled = TRUE /\ c.statusCode = code /\ c.page = <<>>
  BY DEF ReadsHeaders
<1>5. next = [client |-> d, rest |-> Tail(rest)]
  BY <1>4, Zenon DEF scanHead, line
<1> HIDE DEF blank
<1>6. /\ DOMAIN d = PeerFields /\ d.seen = line /\ d.bodySignaled = (TRUE /\ blank)
      /\ \A f \in PeerFields \ {"seen", "bodySignaled"} : d[f] = c[f]
  BY <1>4 DEF PeerFields
<1> HIDE DEF d
<1>7. Kept(c, d)
  BY <1>6 DEF Kept, PeerFields
<1>8. d.statusSignaled = TRUE /\ d.statusCode = code /\ d.page = <<>>
  BY <1>4, <1>6 DEF PeerFields
<1>9. CASE code = 404 \/ n < 7
  <2>1. n + 1 \in 3 .. (IF code = 404 THEN 6 ELSE 7)
    <3>1. code = 404 => Len(Reply(code)) = 6
      BY AnswerLength
    <3> QED
      BY <1>1, <1>9, <3>1
  <2>2. Len(line) \in Nat /\ (Len(line) < 4 \/ (Len(line) = 4 /\ line[1][1] = "header"))
    <3>1. CASE n < 6
      BY <1>1, <1>3, <3>1
    <3>2. CASE n = 6
      <4>1. code # 404
        BY <2>1, <3>2
      <4>2. Reply(code)[4] = Header("Name", 0)
        BY <4>1, ReplyHas DEF ReplyIs
      <4>3. Len(line) = 4 /\ line[1] = Reply(code)[4]
        <5>1. j + 1 = 4 /\ 1 \in 1 .. j + 1 /\ 3 + 1 = 4
          BY <1>1, <3>2
        <5> HIDE DEF j
        <5> QED
          BY <1>3, <5>1
      <4> QED
        BY <4>2, <4>3 DEF Header
    <3> QED
      BY <1>1, <2>1, <3>1, <3>2
  <2>3. d.bodySignaled = FALSE
    BY <1>6, <2>2, NoBlankLine DEF blank
  <2>4. Seen(d.seen, code, 3, (n + 1) - 3)
    <3>1. (n + 1) - 3 = j + 1
      BY <1>1
    <3> QED
      BY <1>2, <1>6, <3>1
  <2>5. ReadsHeaders(d, code, n + 1)
    BY <1>8, <2>1, <2>3, <2>4 DEF ReadsHeaders
  <2> QED
    BY <1>5, <1>7, <2>5 DEF Reading, Reads
<1>10. CASE code # 404 /\ n = 7
  <2>1. /\ Reply(code)[5] = CR /\ Reply(code)[6] = LF /\ Reply(code)[7] = CR /\ Reply(code)[8] = LF
        /\ Len(Reply(code)) = 8 + Len(Page(code)) /\ Len(Page(code)) \in Nat
    BY <1>10, ReplyHas, AnswerLength DEF ReplyIs
  <2>2. Len(line) = 5 /\ line[2] = CR /\ line[3] = LF /\ line[4] = CR /\ line[5] = LF
    <3>1. j + 1 = 5
      BY <1>1, <1>10
    <3>2. Len(line) = 5 /\ \A i \in 1 .. 5 : line[i] = Reply(code)[3 + i]
      BY <1>3, <3>1
    <3>3. /\ 2 \in 1 .. 5 /\ 3 \in 1 .. 5 /\ 4 \in 1 .. 5 /\ 5 \in 1 .. 5
          /\ 3 + 2 = 5 /\ 3 + 3 = 6 /\ 3 + 4 = 7 /\ 3 + 5 = 8
      OBVIOUS
    <3>4. line[2] = Reply(code)[3 + 2] /\ line[3] = Reply(code)[3 + 3]
          /\ line[4] = Reply(code)[3 + 4] /\ line[5] = Reply(code)[3 + 5]
      BY <3>2, <3>3, Zenon
    <3> QED
      BY <2>1, <3>2, <3>3, <3>4
  <2>3. d.bodySignaled = TRUE
    <3>1. blank
      BY <2>2, BlankLine DEF blank
    <3> QED
      BY <1>6, <3>1
  <2>4. n + 1 \in 8 .. Len(Reply(code)) /\ (n + 1) - 8 = 0
    BY <1>10, <2>1
  <2>5. d.page = SubSeq(Page(code), 1, (n + 1) - 8)
    <3>1. SubSeq(Page(code), 1, 0) = <<>>
      BY SubSeqEmpty
    <3> QED
      BY <1>8, <2>4, <3>1
  <2>6. ReadsPage(d, code, n + 1)
    BY <1>8, <1>10, <2>3, <2>4, <2>5 DEF ReadsPage
  <2> QED
    BY <1>5, <1>7, <2>6 DEF Reading, Reads
<1> QED
  BY <1>1, <1>9, <1>10

LEMMA HeadReads ==
    ASSUME NEW code \in Codes, NEW n, n < Len(Reply(code)), NEW loop, NEW rest, loop.rest = rest,
           DOMAIN loop.client = PeerFields, Reads(loop.client, code, n),
           loop.client.bodySignaled = FALSE,
           NEW next, next = scanHead(loop, Reply(code)[n + 1])
    PROVE  Reading(next, loop.client, code, n + 1, Tail(rest))
<1>1. CASE ReadsStatus(loop.client, code, n) /\ n # 2
  <2>1. n \in 0 .. 1
    BY <1>1 DEF ReadsStatus
  <2> QED
    BY <1>1, <2>1, StatusGrows
<1>2. CASE ReadsStatus(loop.client, code, n) /\ n = 2
  <2>1. n + 1 = 3
    BY <1>2
  <2>2. Reading(next, loop.client, code, 3, Tail(rest))
    BY <1>2, <2>1, StatusEnds
  <2> QED
    BY <2>1, <2>2
<1>3. CASE ReadsHeaders(loop.client, code, n)
  BY <1>3, HeadersGrow
<1>4. CASE ReadsPage(loop.client, code, n)
  BY <1>4 DEF ReadsPage
<1> QED
  BY <1>1, <1>2, <1>3, <1>4 DEF Reads

LEMMA HeadStops ==
    ASSUME NEW loop, loop.client.bodySignaled = TRUE, NEW c
    PROVE  scanHead(loop, c) = loop
BY Zenon DEF scanHead

(* The loop over a segment: it stops where the body begins.                *)
LEMMA AnswerScanned ==
    ASSUME NEW code \in Codes, NEW from \in Nat, NEW to \in Nat, from < to,
           to <= Len(Reply(code)), NEW c, DOMAIN c = PeerFields, Reads(c, code, from),
           NEW data, data = SubSeq(Reply(code), from + 1, to),
           NEW loop, Folded("response", [client |-> c, rest |-> data], data, loop)
    PROVE  \E n \in from .. to : /\ Reading(loop, c, code, n, SubSeq(Reply(code), n + 1, to))
                                 /\ n = to \/ loop.client.bodySignaled = TRUE
<1> DEFINE W == Reply(code)
           m == to - from
           rest(n) == SubSeq(W, n + 1, to)
           base == [client |-> c, rest |-> data]
<1>1. W \in Seq(Answer) /\ Len(W) \in Nat /\ to <= Len(W)
  BY AnswerLength
<1> HIDE DEF W
<1>2. m \in Nat /\ from + m = to
  OBVIOUS
<1>3. Len(data) = m /\ \A j \in 1 .. m : data[j] = W[from + j]
  <2>1. data = SubSeq(W, from + 1, to)
    BY DEF W
  <2>2. data \in Seq(Answer) /\ Piece(W, from, to, data)
    BY <1>1, <2>1, PieceIs
  <2> QED
    BY <1>1, <2>2, LenProperties DEF Piece
<1>4. ASSUME NEW n \in Nat, n < to PROVE Tail(rest(n)) = rest(n + 1)
  <2>1. n + 1 \in 1 .. Len(W) /\ to \in n + 1 .. Len(W)
    BY <1>1, <1>4
  <2> QED
    BY <1>1, <2>1, HeadTailOfSubSeq
<1>5. PICK f : Steps(f, "response", base, data) /\ loop = f[m]
  <2>1. Folded("response", base, data, loop)
    OBVIOUS
  <2> HIDE DEF base, m
  <2> QED
    BY <1>3, <2>1, Zenon DEF Folded
<1>6. f[0] = base /\ \A j \in 1 .. m : f[j] = scanHead(f[j - 1], W[from + j])
  <2> HIDE DEF base, m
  <2>1. f[0] = base /\ \A j \in 1 .. m : f[j] = Fold("response", f[j - 1], data[j])
    BY <1>3, <1>5 DEF Steps
  <2>2. \A a, x : Fold("response", a, x) = scanHead(a, x)
    BY DEF Fold
  <2> QED
    BY <1>3, <2>1, <2>2
<1> DEFINE At(j) ==
             \E n \in from .. from + j : /\ Reading(f[j], c, code, n, rest(n))
                                         /\ n = from + j \/ f[j].client.bodySignaled = TRUE
           S == {j \in 0 .. m : At(j)}
<1>7. 0 \in S
  <2>1. base.client = c /\ base.rest = data
    OBVIOUS
  <2>2. data = rest(from) /\ from + 0 = from /\ from \in from .. from + 0
    BY DEF W
  <2>3. Kept(c, c)
    BY DEF Kept
  <2> HIDE DEF base, rest
  <2>4. Reading(f[0], c, code, from, rest(from))
    BY <1>6, <2>1, <2>2, <2>3 DEF Reading
  <2>5. At(0)
    BY <2>2, <2>4, Zenon
  <2> QED
    BY <1>2, <2>5
<1>8. ASSUME NEW j \in 1 .. m, j - 1 \in S PROVE j \in S
  <2>1. At(j - 1)
    BY <1>8
  <2>2. PICK n \in from .. from + (j - 1) :
            /\ Reading(f[j - 1], c, code, n, rest(n))
            /\ n = from + (j - 1) \/ f[j - 1].client.bodySignaled = TRUE
    BY <2>1
  <2> DEFINE was == f[j - 1]
             now == f[j]
  <2>3. now = scanHead(was, W[from + j])
    BY <1>6
  <2>4. n \in Nat /\ n < to /\ n < Len(W) /\ n + 1 \in from .. from + j /\ n \in from .. from + j
    BY <1>1
  <2> HIDE DEF rest, was, now
  <2>5. Kept(c, was.client) /\ Reads(was.client, code, n) /\ was.rest = rest(n)
    BY <2>2 DEF Reading, was
  <2>6. CASE was.client.bodySignaled = TRUE
    <3>1. now = was
      BY <2>3, <2>6, HeadStops
    <3>2. Reading(now, c, code, n, rest(n)) /\ now.client.bodySignaled = TRUE
      BY <2>2, <2>6, <3>1 DEF was
    <3>3. At(j)
      BY <2>4, <3>2, Zenon DEF now
    <3> QED
      BY <3>3
  <2>7. CASE was.client.bodySignaled # TRUE
    <3>1. n + 1 = from + j
      <4>1. n = from + (j - 1)
        BY <2>2, <2>7, Zenon DEF was
      <4> QED
        BY <4>1
    <3>2. was.client.bodySignaled = FALSE
      BY <2>5, <2>7, Zenon DEF Reads, ReadsStatus, ReadsHeaders, ReadsPage
    <3>3. now = scanHead(was, Reply(code)[n + 1])
      BY <2>3, <3>1, Zenon DEF W
    <3>4. DOMAIN was.client = PeerFields /\ n < Len(Reply(code))
      BY <2>4, <2>5 DEF Kept, W
    <3>5. Reading(now, was.client, code, n + 1, Tail(rest(n)))
      BY <2>5, <3>2, <3>3, <3>4, HeadReads
    <3>6. Kept(c, now.client)
      BY <2>5, <3>5, KeptTwice DEF Reading
    <3>7. Tail(rest(n)) = rest(n + 1)
      BY <1>4, <2>4
    <3>8. Reading(now, c, code, n + 1, rest(n + 1))
      BY <3>5, <3>6, <3>7, Zenon DEF Reading
    <3>9. At(j)
      BY <2>4, <3>1, <3>8, Zenon DEF now
    <3> QED
      BY <3>9
  <2> QED
    BY <2>6, <2>7
<1> HIDE DEF S
<1>9. m \in S
  <2>1. 0 .. m \subseteq S
    <3> HIDE DEF m
    <3> QED
      BY <1>2, <1>7, <1>8, UpTo
  <2> QED
    BY <1>2, <2>1
<1>10. At(m)
  BY <1>9 DEF S
<1>11. \E n \in from .. to : Reading(loop, c, code, n, rest(n)) /\ (n = to \/ loop.client.bodySignaled = TRUE)
  <2> HIDE DEF m, rest
  <2> QED
    BY <1>2, <1>5, <1>10, Zenon
<1> QED
  BY <1>11 DEF W

(* What follows is the page.                                               *)
LEMMA PageGrows ==
    ASSUME NEW code \in Codes, NEW c, DOMAIN c = PeerFields, NEW n, ReadsPage(c, code, n),
           NEW to, to \in n .. Len(Reply(code)),
           NEW t, t = pageReceived(c, SubSeq(Reply(code), n + 1, to))
    PROVE  Kept(c, t) /\ ReadsPage(t, code, to)
<1> DEFINE W == Reply(code)
           B == Page(code)
           data == SubSeq(W, n + 1, to)
           told == [c EXCEPT !.page = @ \o data]
           b == Len(B)
<1>1. W \in Seq(Answer) /\ B \in Seq(Answer) /\ b \in Nat /\ code # 404 /\ Len(W) = 8 + b
      /\ (\A l \in 1 .. b : W[8 + l] = B[l]) /\ n \in 8 .. Len(W)
  BY PageIs, AnswerLength, ReplyHas DEF ReplyIs, ReadsPage
<1>2. n \in 8 .. 8 + b /\ to \in n .. 8 + b /\ to \in 8 .. Len(W) /\ Len(B) = b /\ 8 \in Nat
  BY <1>1
<1>3. c.page = SubSeq(B, 1, n - 8) /\ c.statusSignaled = TRUE /\ c.bodySignaled = TRUE
      /\ c.statusCode = code
  BY DEF ReadsPage
<1>4. t = close(told) \/ t = told
  BY Zenon DEF pageReceived
<1> HIDE DEF W, B, b
<1>5. c.page \o data = SubSeq(B, 1, to - 8)
  <2>1. Len(W) = 8 + b /\ \A l \in 1 .. b : W[8 + l] = B[l]
    BY <1>1
  <2>2. W \in Seq(Answer) /\ B \in Seq(Answer) /\ b \in Nat
    BY <1>1
  <2>3. Continued(B, W, 8, n, to)
    BY <1>2, <2>1, <2>2, Continues
  <2> QED
    BY <1>3, <2>3 DEF Continued
<1> HIDE DEF data
<1>6. /\ DOMAIN told = PeerFields /\ told.page = SubSeq(B, 1, to - 8)
      /\ \A f \in PeerFields \ {"page"} : told[f] = c[f]
  BY <1>5 DEF PeerFields
<1> HIDE DEF told
<1>7. t = told \/ t = [told EXCEPT !.state = IF @ = "ESTABLISHED" THEN "CLOSING" ELSE @]
  BY <1>4 DEF close
<1>8. /\ DOMAIN t = PeerFields /\ t.page = SubSeq(B, 1, to - 8)
      /\ \A f \in PeerFields \ {"page", "state"} : t[f] = c[f]
      /\ t.state = c.state \/ t.state = "CLOSING"
  <2>1. CASE t = told
    BY <1>6, <2>1 DEF PeerFields
  <2>2. CASE t = [told EXCEPT !.state = IF @ = "ESTABLISHED" THEN "CLOSING" ELSE @]
    BY <1>6, <2>2 DEF PeerFields
  <2> QED
    BY <1>7, <2>1, <2>2
<1>9. Kept(c, t)
  BY <1>8 DEF Kept, PeerFields
<1>10. t.statusSignaled = TRUE /\ t.bodySignaled = TRUE /\ t.statusCode = code
  BY <1>3, <1>8 DEF PeerFields
<1> QED
  BY <1>1, <1>2, <1>8, <1>9, <1>10 DEF ReadsPage, W, B

(* A segment of the answer, wherever it is cut.                            *)
LEMMA ClientReceivesIs ==
    ASSUME NEW code \in Codes, NEW from \in Nat, NEW to \in Nat, from < to,
           to <= Len(Reply(code)), NEW c, DOMAIN c = PeerFields, Reads(c, code, from),
           NEW t, t = ClientReceives(c, SubSeq(Reply(code), from + 1, to))
    PROVE  Kept(c, t) /\ Reads(t, code, to)
<1> DEFINE data == SubSeq(Reply(code), from + 1, to)
           rest(n) == SubSeq(Reply(code), n + 1, to)
<1>1. Len(data) \in Nat /\ DOMAIN data = 1 .. Len(data)
  <2>1. Reply(code) \in Seq(Answer) /\ Len(Reply(code)) \in Nat
    BY AnswerLength
  <2>2. \A i \in from + 1 .. to : Reply(code)[i] \in Answer
    BY <2>1
  <2>3. data \in Seq(Answer)
    BY <2>2, SubSeqProperties
  <2> QED
    BY <2>3, LenProperties
<1>2. Len(Reply(code)) \in Nat
  BY AnswerLength, LenProperties
<1>3. PICK loop :
        /\ Folded("response", [client |-> c, rest |-> data], data, loop)
        /\ t = IF c.bodySignaled THEN pageReceived(c, data)
               ELSE IF loop.client.bodySignaled THEN pageReceived(loop.client, loop.rest)
               ELSE loop.client
  <2> HIDE DEF data
  <2>1. t = ClientReceives(c, data)
    BY DEF data
  <2> QED
    BY <1>1, <2>1, ResponseFolded
<1>4. CASE c.bodySignaled = TRUE
  <2>1. ReadsPage(c, code, from)
    BY <1>4 DEF Reads, ReadsStatus, ReadsHeaders
  <2>2. t = pageReceived(c, data) /\ to \in from .. Len(Reply(code))
    BY <1>2, <1>3, <1>4
  <2> QED
    BY <2>1, <2>2, PageGrows DEF Reads
<1>5. CASE c.bodySignaled # TRUE
  <2>1. c.bodySignaled = FALSE
    BY <1>5, Zenon DEF Reads, ReadsStatus, ReadsHeaders, ReadsPage
  <2>2. PICK n \in from .. to : /\ Reading(loop, c, code, n, rest(n))
                                /\ n = to \/ loop.client.bodySignaled = TRUE
    BY <1>3, AnswerScanned
  <2> DEFINE d == loop.client
  <2>3. Kept(c, d) /\ Reads(d, code, n) /\ loop.rest = rest(n)
    BY <2>2 DEF Reading
  <2>4. CASE d.bodySignaled = TRUE
    <3>1. t = pageReceived(d, rest(n)) /\ to \in n .. Len(Reply(code))
      BY <1>2, <1>3, <2>1, <2>3, <2>4
    <3>2. ReadsPage(d, code, n) /\ DOMAIN d = PeerFields
      BY <2>3, <2>4 DEF Reads, ReadsStatus, ReadsHeaders, Kept
    <3>3. Kept(d, t) /\ ReadsPage(t, code, to)
      <4> HIDE DEF d
      <4> QED
        BY <3>1, <3>2, PageGrows
    <3> QED
      BY <2>3, <3>3, KeptTwice DEF Reads
  <2>5. CASE d.bodySignaled # TRUE
    <3>1. d.bodySignaled = FALSE
      BY <2>3, <2>5, Zenon DEF Reads, ReadsStatus, ReadsHeaders, ReadsPage
    <3>2. t = d
      BY <1>3, <2>1, <3>1
    <3>3. n = to
      BY <2>2, <2>5
    <3> QED
      BY <2>3, <3>2, <3>3
  <2> QED
    BY <2>4, <2>5
<1> QED
  BY <1>4, <1>5

-----------------------------------------------------------------------------
(* The inductive invariant: every socket has made of its client's request   *)
(* what the text up to its last symbol says, and every client has read the  *)
(* first symbols of the answer to it.                                       *)

Code(asked) == StatusFor(MethodOf(asked), asked.query)

PeerIs(p, c) ==
    /\ DOMAIN p = PeerFields
    /\ p.asked \in Requests[c] \/ (p.asked = Nobody /\ p.state = "CLOSED")
    /\ p.asked = Nobody => p.statusCode = 0
    /\ p.ended \in BOOLEAN
    /\ p.asked # Nobody =>
        /\ p.sent \in 0 .. Len(Written(p.asked))
        /\ p.received \in 0 .. Len(Reply(Code(p.asked)))
        /\ Reads(p, Code(p.asked), p.received)
        /\ p.state = "SYN_SENT" => p.received = 0
        /\ p.ended /\ p.bodySignaled => p.received = Len(Reply(Code(p.asked)))

\* s serves remote address r, that asked for asked.
SocketIs(s, r, asked) ==
    /\ DOMAIN s = Fields
    /\ s.state \in {"CLOSED", "SYN_RECEIVED"} => s.buffer = <<>>
    /\ s.state = "SYN_RECEIVED" => s.received = 0 /\ s.released = 0
    /\ Open(s) => r \in Connections /\ asked \in Requests[r]
    /\ Connected(s) => s.received \in 0 .. Len(Written(asked)) /\ Serves(s, asked, s.received)

Orderly ==
    /\ DOMAIN clients = Sockets /\ DOMAIN peers = Connections
    /\ DOMAIN remote = Sockets
    /\ \A c \in Connections : PeerIs(peers[c], c)
    /\ \A i \in Sockets : SocketIs(clients[i], remote[i], peers[remote[i]].asked)

LEMMA AskedIs ==
    ASSUME NEW c \in Connections, NEW asked \in Requests[c]
    PROVE  Asked(asked) /\ asked # Nobody
BY RequestsAssumption DEF Asked

LEMMA CodeIs ==
    ASSUME NEW asked
    PROVE  Code(asked) \in Codes /\ ReplyTo(asked) = Reply(Code(asked))
BY StatusType DEF Code, ReplyTo

LEMMA StatesAre ==
    ASSUME NEW s
    PROVE  /\ Open(s) <=> s.state = "SYN_RECEIVED" \/ Connected(s)
           /\ Connected(s) <=> s.state = "ESTABLISHED" \/ s.state = "CLOSING"
           /\ s.state = "SYN_RECEIVED" => ~Connected(s)
BY DEF Open, Connected

LEMMA SocketsStay ==
    ASSUME Orderly, UNCHANGED remote, NEW i \in Sockets,
           DOMAIN clients' = Sockets, \A j \in Sockets \ {i} : clients'[j] = clients[j],
           SocketIs(clients'[i], remote[i], peers[remote[i]].asked),
           \A c \in Connections : peers[c].asked \in Requests[c] => peers'[c].asked = peers[c].asked
    PROVE  \A j \in Sockets : SocketIs(clients'[j], remote'[j], peers'[remote'[j]].asked)
<1> SUFFICES ASSUME NEW j \in Sockets
             PROVE  SocketIs(clients'[j], remote[j], peers'[remote[j]].asked)
  OBVIOUS
<1> DEFINE s == clients'[j]
           r == remote[j]
<1>1. SocketIs(s, r, peers[r].asked)
  <2>1. CASE j = i
    BY <2>1
  <2>2. CASE j # i
    BY <2>2 DEF Orderly
  <2> QED
    BY <2>1, <2>2
<1> HIDE DEF s, r
<1>2. CASE Open(s)
  <2>1. peers'[r].asked = peers[r].asked
    BY <1>1, <1>2 DEF SocketIs
  <2> QED
    BY <1>1, <2>1 DEF s, r
<1>3. CASE ~Open(s)
  <2>1. ~Connected(s)
    BY <1>3, StatesAre
  <2>2. SocketIs(s, r, peers'[r].asked)
    BY <1>1, <1>3, <2>1 DEF SocketIs
  <2> QED
    BY <2>2 DEF s, r
<1> QED
  BY <1>2, <1>3

(* A step that changes one socket and one peer, and asks nothing else.     *)
LEMMA StepKeeps ==
    ASSUME Orderly, UNCHANGED remote, NEW i \in Sockets, NEW c \in Connections, NEW s, NEW p,
           Update(i, s), UpdatePeer(c, p),
           SocketIs(s, remote[i], peers[remote[i]].asked), PeerIs(p, c),
           p.asked = peers[c].asked
    PROVE  Orderly'
<1>1. DOMAIN clients' = Sockets /\ clients'[i] = s /\ \A j \in Sockets \ {i} : clients'[j] = clients[j]
  BY DEF Orderly, Update
<1>2. DOMAIN peers' = Connections /\ peers'[c] = p
      /\ \A d \in Connections \ {c} : peers'[d] = peers[d]
  BY DEF Orderly, UpdatePeer
<1>3. \A d \in Connections : peers'[d].asked = peers[d].asked
  BY <1>2
<1>4. \A j \in Sockets : SocketIs(clients'[j], remote'[j], peers'[remote'[j]].asked)
  <2>1. SocketIs(clients'[i], remote[i], peers[remote[i]].asked)
    BY <1>1
  <2> QED
    BY <1>1, <1>3, <2>1, SocketsStay
<1>5. \A d \in Connections : PeerIs(peers'[d], d)
  BY <1>2 DEF Orderly
<1> QED
  BY <1>1, <1>2, <1>4, <1>5 DEF Orderly

LEMMA SocketStep ==
    ASSUME Orderly, UNCHANGED <<remote, peers>>, NEW i \in Sockets, NEW s, Update(i, s),
           SocketIs(s, remote[i], peers[remote[i]].asked)
    PROVE  Orderly'
<1>1. DOMAIN clients' = Sockets /\ clients'[i] = s /\ \A j \in Sockets \ {i} : clients'[j] = clients[j]
  BY DEF Orderly, Update
<1>2. \A j \in Sockets : SocketIs(clients'[j], remote'[j], peers'[remote'[j]].asked)
  <2>1. SocketIs(clients'[i], remote[i], peers[remote[i]].asked)
    BY <1>1
  <2>2. \A d \in Connections : peers'[d].asked = peers[d].asked
    OBVIOUS
  <2> QED
    BY <1>1, <2>1, <2>2, SocketsStay
<1> QED
  BY <1>1, <1>2 DEF Orderly

LEMMA PeerStep ==
    ASSUME Orderly, UNCHANGED <<clients, remote>>, NEW c \in Connections, NEW p, UpdatePeer(c, p),
           PeerIs(p, c), peers[c].asked \in Requests[c] => p.asked = peers[c].asked
    PROVE  Orderly'
<1>1. DOMAIN peers' = Connections /\ peers'[c] = p
      /\ \A d \in Connections \ {c} : peers'[d] = peers[d]
  BY DEF Orderly, UpdatePeer
<1>2. \A d \in Connections : peers[d].asked \in Requests[d] => peers'[d].asked = peers[d].asked
  BY <1>1
<1>3. \A j \in Sockets : SocketIs(clients'[j], remote'[j], peers'[remote'[j]].asked)
  <2>1. 1 \in Sockets
    BY WebServerAssumption DEF Sockets
  <2>2. SocketIs(clients'[1], remote[1], peers[remote[1]].asked) /\ DOMAIN clients' = Sockets
    BY <2>1 DEF Orderly
  <2> QED
    BY <1>2, <2>1, <2>2, SocketsStay
<1>4. \A d \in Connections : PeerIs(peers'[d], d)
  BY <1>1 DEF Orderly
<1> QED
  BY <1>1, <1>3, <1>4 DEF Orderly

LEMMA InitIsOrderly == Init => Orderly
<1> SUFFICES ASSUME Init PROVE Orderly
  OBVIOUS
<1>1. Unused.state = "CLOSED" /\ Unused.buffer = <<>> /\ DOMAIN Unused = Fields
  BY DEF Unused, Fields
<1>2. Idle.asked = Nobody /\ Idle.state = "CLOSED" /\ Idle.statusCode = 0 /\ Idle.ended = FALSE
      /\ DOMAIN Idle = PeerFields
  BY DEF Idle, PeerFields
<1>3. \A c : PeerIs(Idle, c)
  BY <1>2 DEF PeerIs
<1>4. \A r, asked : SocketIs(Unused, r, asked)
  <2>1. ~Open(Unused) /\ ~Connected(Unused) /\ Unused.state # "SYN_RECEIVED"
    BY <1>1 DEF Open, Connected
  <2> QED
    BY <1>1, <2>1 DEF SocketIs
<1> HIDE DEF Unused, Idle
<1> QED
  BY <1>3, <1>4 DEF Init, Orderly

LEMMA TerminatedIs ==
    ASSUME NEW s, DOMAIN s = Fields, NEW r, NEW asked
    PROVE  SocketIs(terminated(s), r, asked)
<1> DEFINE t == terminated(s)
<1>1. DOMAIN t = Fields /\ t.state = "CLOSED" /\ t.buffer = <<>>
  BY DEF terminated, Fields
<1> HIDE DEF t
<1>2. ~Open(t) /\ ~Connected(t) /\ t.state # "SYN_RECEIVED"
  BY <1>1 DEF Open, Connected
<1>3. SocketIs(t, r, asked)
  BY <1>1, <1>2 DEF SocketIs
<1> QED
  BY <1>3 DEF t

(* The connection is there: the parser is as before any request.           *)
LEMMA EstablishedIs ==
    ASSUME NEW c \in Connections, NEW asked \in Requests[c], NEW s, SocketIs(s, c, asked), Open(s),
           NEW where \in AnswersIn, NEW t, t = Established(s, where)
    PROVE  SocketIs(t, c, asked) /\ Connected(t)
<1>1. CASE s.state = "SYN_RECEIVED"
  <2> DEFINE open == [s EXCEPT !.state = "ESTABLISHED"]
             reset == resetParser(open)
  <2>1. t = [reset EXCEPT !.answersIn = where]
    BY <1>1 DEF Established, onConnect
  <2>2. DOMAIN s = Fields /\ s.buffer = <<>> /\ s.received = 0 /\ s.released = 0
    BY <1>1 DEF SocketIs
  <2>3. /\ DOMAIN reset = Fields /\ reset.crlfcount = 0 /\ reset.stage = HTTP_SERVER_STAGE_INIT
        /\ reset.httpMethod = 0 /\ reset.requestSignaled = FALSE /\ reset.scanned = <<>>
        /\ reset.heard = <<>> /\ reset.body = <<>> /\ reset.state = "ESTABLISHED"
        /\ reset.received = 0 /\ reset.released = 0 /\ reset.buffer = <<>>
    BY <2>2 DEF resetParser, Fields
  <2> HIDE DEF reset
  <2>4. /\ DOMAIN t = Fields /\ t.crlfcount = 0 /\ t.stage = HTTP_SERVER_STAGE_INIT
        /\ t.httpMethod = 0 /\ t.requestSignaled = FALSE /\ t.scanned = <<>>
        /\ t.heard = <<>> /\ t.body = <<>> /\ t.state = "ESTABLISHED"
        /\ t.received = 0 /\ t.released = 0 /\ t.buffer = <<>> /\ t.answersIn = where
    BY <2>1, <2>3 DEF Fields
  <2>5. Asked(asked)
    BY AskedIs
  <2>6. Unanswered(t, 0)
    BY <2>4 DEF Unanswered, Connected
  <2>7. InMethod(t, asked, 0)
    <3>1. 0 \in 0 .. Len(asked.method)
      BY <2>5, Lengths
    <3>2. Line(t.scanned, asked, 0, 0)
      BY <2>4, LineBegins
    <3>3. t.httpMethod = Sums(asked)[0] % MethodMod
      <4>1. Sums(asked)[0] = 0
        <5>1. Steps(Sums(asked), "method", 0, asked.method)
          BY <2>5, SumsAre DEF SumsOf
        <5> QED
          BY <5>1 DEF Steps
      <4>2. 0 % MethodMod = 0
        <5>1. 0 \in 0 .. MethodMod - 1 /\ 0 = MethodMod * 0 + 0 /\ 0 \in Int
          BY HTTPServerAssumption
        <5> QED
          BY <5>1, Remainder
      <4> QED
        BY <2>4, <4>1, <4>2
    <3>4. Told(t.heard, asked, 0)
      BY <2>4 DEF Told
    <3> QED
      BY <2>4, <3>1, <3>2, <3>3, <3>4 DEF InMethod
  <2>8. Serves(t, asked, 0)
    BY <2>6, <2>7 DEF Serves, InHead
  <2>9. 0 \in 0 .. Len(Written(asked))
    BY <2>5, FirstInText
  <2>10. Connected(t)
    BY <2>4 DEF Connected
  <2> QED
    BY <2>4, <2>8, <2>9, <2>10 DEF SocketIs
<1>2. CASE s.state # "SYN_RECEIVED"
  <2>1. t = s
    BY <1>2 DEF Established
  <2> QED
    BY <1>2, <2>1, StatesAre
<1> QED
  BY <1>1, <1>2

(* A socket that is closed while its answer waits still has all of it.      *)
LEMMA CloseServes ==
    ASSUME NEW asked, NEW n, NEW s, Serves(s, asked, n), NEW t, t = close(s)
    PROVE  Serves(t, asked, n) /\ Connected(t) /\ DOMAIN t = Fields /\ t.received = s.received
<1>1. DOMAIN s = Fields /\ Connected(s)
  BY DEF Serves, Unanswered, AnsweredAt
<1>2. /\ DOMAIN t = Fields /\ Connected(t)
      /\ \A f \in Fields \ {"state"} : t[f] = s[f]
  BY <1>1 DEF close, Connected, Fields
<1>3. /\ t.received = s.received /\ t.released = s.released /\ t.buffer = s.buffer
      /\ t.stage = s.stage
      /\ t.crlfcount = s.crlfcount /\ t.httpMethod = s.httpMethod /\ t.scanned = s.scanned
      /\ t.requestSignaled = s.requestSignaled /\ t.query = s.query
      /\ t.answersIn = s.answersIn /\ t.heard = s.heard /\ t.body = s.body
  BY <1>2 DEF Fields
<1>4. CASE AnsweredAt(s, asked, n, n)
  <2>1. AnsweredAt(t, asked, n, n)
    BY <1>2, <1>3, <1>4, Zenon DEF AnsweredAt, Answered
  <2> QED
    BY <1>2, <1>3, <2>1 DEF Serves
<1>5. CASE Unanswered(s, n) /\ (InHead(s, asked, n) \/ InBody(s, asked, n))
  <2>1. Unanswered(t, n)
    BY <1>2, <1>3, <1>5, Zenon DEF Unanswered
  <2>2. InBody(s, asked, n) => InBody(t, asked, n)
    BY <1>3, Zenon DEF InBody
  <2>3. InMethod(s, asked, n) => InMethod(t, asked, n)
    BY <1>3, Zenon DEF InMethod
  <2>4. InQuery(s, asked, n) => InQuery(t, asked, n)
    BY <1>3, Zenon DEF InQuery
  <2>5. InHeaders(s, asked, n) => InHeaders(t, asked, n)
    BY <1>3, Zenon DEF InHeaders, InHeader
  <2> QED
    BY <1>2, <1>3, <1>5, <2>1, <2>2, <2>3, <2>4, <2>5 DEF Serves, InHead
<1> QED
  BY <1>4, <1>5 DEF Serves

\* A peer that asked nothing is closed.
LEMMA PeerAsks ==
    ASSUME Orderly, NEW c \in Connections, peers[c].state # "CLOSED" \/ peers[c].asked # Nobody
    PROVE  /\ peers[c].asked \in Requests[c] /\ peers[c].asked # Nobody
           /\ DOMAIN peers[c] = PeerFields
BY AskedIs DEF Orderly, PeerIs

LEMMA HandledIs ==
    ASSUME Orderly, NEW i \in Sockets, NEW c \in Connections, Handles(i, c)
    PROVE  /\ remote[i] = c /\ Open(clients[i]) /\ peers[c].asked \in Requests[c]
           /\ SocketIs(clients[i], c, peers[c].asked)
<1>1. Takes(i, c) /\ i # Listener
  BY WebServerAssumption DEF Handles, Sockets
<1>2. remote[i] = c /\ Open(clients[i])
  BY <1>1 DEF Takes
<1>3. SocketIs(clients[i], c, peers[c].asked)
  BY <1>2 DEF Orderly
<1> QED
  BY <1>2, <1>3 DEF SocketIs

LEMMA ServedIs ==
    ASSUME NEW c \in Connections, NEW asked \in Requests[c], NEW n \in 0 .. Len(Written(asked)),
           NEW t, Serves(t, asked, n)
    PROVE  SocketIs(t, c, asked)
<1>1. DOMAIN t = Fields /\ Connected(t) /\ t.received = n
  BY DEF Serves, Unanswered, AnsweredAt
<1>2. t.state # "CLOSED" /\ t.state # "SYN_RECEIVED" /\ Open(t)
  BY <1>1 DEF Connected, Open
<1> QED
  BY <1>1, <1>2 DEF SocketIs

LEMMA SameReader ==
    ASSUME NEW p, NEW q, q.statusSignaled = p.statusSignaled, q.bodySignaled = p.bodySignaled,
           q.seen = p.seen, q.statusCode = p.statusCode, q.page = p.page,
           NEW code, NEW n, Reads(p, code, n)
    PROVE  Reads(q, code, n)
<1>1. ReadsStatus(p, code, n) => ReadsStatus(q, code, n)
  BY Zenon DEF ReadsStatus
<1>2. ReadsHeaders(p, code, n) => ReadsHeaders(q, code, n)
  BY Zenon DEF ReadsHeaders
<1>3. ReadsPage(p, code, n) => ReadsPage(q, code, n)
  BY DEF ReadsPage
<1> QED
  BY <1>1, <1>2, <1>3 DEF Reads

LEMMA SegmentKeeps ==
    ASSUME Orderly, NEW i \in Sockets, NEW c \in Connections, NEW where \in AnswersIn,
           NEW k \in {peers[c].sent} \union Cuts(c, peers[c].sent, Len(Written(peers[c].asked))),
           receiveSegment(i, c, k, where)
    PROVE  Orderly'
<1> DEFINE p == peers[c]
           asked == p.asked
           W == Written(asked)
           s == Established(clients[i], where)
           data == SubSeq(W, p.sent + 1, k)
           got == [s EXCEPT !.received = k]
           next == IF data = <<>> THEN s ELSE onReceive(got, data)
           inSequence == s.received = p.sent
           t == IF inSequence THEN next ELSE s
           q == [p EXCEPT !.sent = IF inSequence THEN k ELSE @]
<1>1. Handles(i, c) /\ Update(i, t) /\ UpdatePeer(c, q) /\ UNCHANGED remote
  BY Zenon DEF receiveSegment
<1>2. /\ remote[i] = c /\ Open(clients[i]) /\ asked \in Requests[c]
      /\ SocketIs(clients[i], c, asked)
  BY <1>1, HandledIs
<1>3. PeerIs(p, c) /\ Asked(asked) /\ asked # Nobody
  BY <1>2, AskedIs DEF Orderly
<1>4. p.sent \in 0 .. Len(W) /\ Len(W) \in Nat /\ p.sent \in Nat
  BY <1>3, FirstInText DEF PeerIs
<1>5. k \in p.sent .. Len(W) /\ k \in 0 .. Len(W)
  <2>1. k \in {p.sent} \union Cuts(c, p.sent, Len(W))
    OBVIOUS
  <2> HIDE DEF p, W
  <2>2. k \in p.sent .. Len(W)
    <3>1. p.sent <= Len(W)
      BY <1>4
    <3> QED
      BY <1>4, <2>1, <3>1 DEF Cuts
  <2> QED
    BY <1>4, <2>2
<1>6. SocketIs(s, c, asked) /\ Connected(s)
  <2> HIDE DEF s, asked
  <2> QED
    BY <1>2, EstablishedIs DEF s
<1>7. s.received \in 0 .. Len(W) /\ Serves(s, asked, s.received)
  BY <1>6 DEF SocketIs
<1> HIDE DEF s, W, asked, p, got
<1>8. SocketIs(t, c, asked)
  <2>1. CASE ~inSequence \/ data = <<>>
    BY <1>6, <2>1
  <2>2. CASE inSequence /\ data # <<>>
    <3>1. p.sent < k
      <4>1. k = p.sent => data = <<>>
        BY <1>4, SubSeqEmpty
      <4> QED
        BY <1>4, <1>5, <2>2, <4>1
    <3>2. Serves(s, asked, p.sent)
      BY <1>7, <2>2
    <3>3. Serves(onReceive(got, data), asked, k)
      <4>1. k \in Nat /\ k <= Len(Written(asked)) /\ data = SubSeq(Written(asked), p.sent + 1, k)
        BY <1>4, <1>5 DEF W
      <4>2. got = [s EXCEPT !.received = k]
        BY DEF got
      <4> HIDE DEF data
      <4> QED
        BY <1>3, <1>4, <3>1, <3>2, <4>1, <4>2, OnReceiveIs
    <3>4. t = onReceive(got, data)
      BY <2>2
    <3> HIDE DEF t
    <3> QED
      BY <1>2, <1>5, <3>3, <3>4, ServedIs DEF W
  <2> QED
    BY <2>1, <2>2
<1> HIDE DEF t
<1>9. q.asked = asked /\ PeerIs(q, c)
  <2>1. /\ DOMAIN q = PeerFields /\ q.sent = (IF inSequence THEN k ELSE p.sent)
        /\ \A f \in PeerFields \ {"sent"} : q[f] = p[f]
    BY <1>3 DEF PeerIs, PeerFields
  <2> HIDE DEF q
  <2>2. q.sent \in 0 .. Len(W)
    BY <1>4, <1>5, <2>1
  <2>3. /\ q.asked = p.asked /\ q.state = p.state /\ q.received = p.received /\ q.ended = p.ended
        /\ q.statusSignaled = p.statusSignaled /\ q.bodySignaled = p.bodySignaled
        /\ q.seen = p.seen /\ q.statusCode = p.statusCode /\ q.page = p.page
    BY <2>1 DEF PeerFields
  <2>4. Reads(p, Code(q.asked), q.received) => Reads(q, Code(q.asked), q.received)
    BY <2>3, SameReader
  <2>5. q.sent \in 0 .. Len(Written(q.asked))
    BY <2>2, <2>3 DEF W, asked
  <2>6. PeerIs(q, c)
    BY <1>3, <2>1, <2>3, <2>4, <2>5, Zenon DEF PeerIs
  <2> QED
    BY <2>3, <2>6 DEF asked
<1> QED
  <2>1. SocketIs(t, remote[i], peers[remote[i]].asked) /\ q.asked = peers[c].asked
    BY <1>2, <1>8, <1>9 DEF asked, p
  <2> HIDE DEF q
  <2> QED
    BY <1>1, <1>9, <2>1, StepKeeps

LEMMA FinKeeps ==
    ASSUME Orderly, NEW i \in Sockets, NEW c \in Connections, NEW where \in AnswersIn,
           receiveFin(i, c, where)
    PROVE  Orderly'
<1> DEFINE asked == peers[c].asked
           s == Established(clients[i], where)
           t == IF s.received = peers[c].sent THEN onClose(s) ELSE s
<1>1. Handles(i, c) /\ Update(i, t) /\ UNCHANGED <<remote, peers>>
  BY Zenon DEF receiveFin
<1>2. /\ remote[i] = c /\ Open(clients[i]) /\ asked \in Requests[c]
      /\ SocketIs(clients[i], c, asked)
  BY <1>1, HandledIs
<1>3. SocketIs(s, c, asked) /\ Connected(s)
  <2> HIDE DEF s, asked
  <2> QED
    BY <1>2, EstablishedIs DEF s
<1> HIDE DEF s
<1>4. SocketIs(t, c, asked)
  <2>1. CASE t = s
    BY <1>3, <2>1
  <2>2. CASE t = close(s)
    <3> HIDE DEF t, asked
    <3>1. s.received \in 0 .. Len(Written(asked)) /\ Serves(s, asked, s.received)
      BY <1>3 DEF SocketIs
    <3>2. Serves(t, asked, s.received)
      BY <2>2, <3>1, CloseServes
    <3> QED
      BY <1>2, <3>1, <3>2, ServedIs
  <2> QED
    BY <2>1, <2>2 DEF onClose
<1> HIDE DEF t
<1> QED
  BY <1>1, <1>2, <1>4, SocketStep

\* What waits behind a symbols of R: its first n, and what is behind these.
Halves(R, a, n) ==
    LET waiting == SubSeq(R, a + 1, Len(R))
    IN  /\ SubSeq(waiting, 1, n) = SubSeq(R, a + 1, a + n)
        /\ SubSeq(waiting, n + 1, Len(waiting)) = SubSeq(R, (a + n) + 1, Len(R))

LEMMA WaitingIs ==
    ASSUME NEW S, NEW R \in Seq(S), NEW a \in 0 .. Len(R)
    PROVE  Len(SubSeq(R, a + 1, Len(R))) = Len(R) - a
<1> DEFINE l == Len(R)
<1>1. l \in Nat /\ a \in 0 .. l /\ \A i \in 1 .. l : R[i] \in S
  OBVIOUS
<1> HIDE DEF l
<1>2. \A i \in a + 1 .. l : R[i] \in S
  BY <1>1
<1>3. Len(SubSeq(R, a + 1, l)) = IF a + 1 <= l THEN l - (a + 1) + 1 ELSE 0
  BY <1>1, <1>2, SubSeqProperties
<1>4. Len(SubSeq(R, a + 1, l)) = l - a
  BY <1>1, <1>3
<1> QED
  BY <1>4 DEF l

LEMMA HalvesAre ==
    ASSUME NEW S, NEW R \in Seq(S), NEW a \in 0 .. Len(R), NEW n \in 1 .. Len(R) - a
    PROVE  Halves(R, a, n)
<1> DEFINE l == Len(R)
           u == SubSeq(R, a + 1, l)
<1>1. l \in Nat /\ a \in 0 .. l /\ n \in 1 .. l - a
  OBVIOUS
<1>2. Len(u) = l - a
  BY WaitingIs
<1> HIDE DEF l
<1>3. a + 1 \in 1 .. l /\ l \in 1 .. l /\ l - (a + 1) + 1 = l - a
  BY <1>1
<1>4. \A j, m \in 1 .. l - a : SubSeq(u, j, m) = SubSeq(R, (a + 1) + j - 1, (a + 1) + m - 1)
  <2> TAKE j, m \in 1 .. l - a
  <2>1. j \in 1 .. l - (a + 1) + 1 /\ m \in 1 .. l - (a + 1) + 1
    BY <1>3
  <2> QED
    BY <1>3, <2>1, SubSeqOfSubSeq DEF l
<1> HIDE DEF u
<1>5. SubSeq(u, 1, n) = SubSeq(R, a + 1, a + n)
  <2>1. 1 \in 1 .. l - a /\ (a + 1) + 1 - 1 = a + 1 /\ (a + 1) + n - 1 = a + n
    BY <1>1
  <2>2. SubSeq(u, 1, n) = SubSeq(R, (a + 1) + 1 - 1, (a + 1) + n - 1)
    BY <1>1, <1>4, <2>1
  <2> QED
    BY <2>1, <2>2
<1>6. SubSeq(u, n + 1, l - a) = SubSeq(R, (a + n) + 1, l)
  <2>1. CASE n = l - a
    <3>1. n + 1 \in Int /\ l - a \in Int /\ l - a < n + 1 /\ (a + n) + 1 \in Int /\ l < (a + n) + 1
      BY <1>1, <2>1
    <3>2. SubSeq(u, n + 1, l - a) = <<>> /\ SubSeq(R, (a + n) + 1, l) = <<>>
      BY <1>1, <3>1, SubSeqEmpty
    <3> QED
      BY <3>2
  <2>2. CASE n # l - a
    <3>1. n + 1 \in 1 .. l - a /\ l - a \in 1 .. l - a /\ (a + 1) + (n + 1) - 1 = (a + n) + 1
          /\ (a + 1) + (l - a) - 1 = l
      BY <1>1, <2>2
    <3>2. SubSeq(u, n + 1, l - a) = SubSeq(R, (a + 1) + (n + 1) - 1, (a + 1) + (l - a) - 1)
      BY <1>4, <3>1
    <3> QED
      BY <3>1, <3>2
  <2> QED
    BY <2>1, <2>2
<1> QED
  BY <1>2, <1>5, <1>6 DEF Halves, u, l

(* A client reads what its socket sends: symbols of the answer to it.      *)
LEMMA ReceivesKeeps ==
    ASSUME Orderly, NEW i \in Sockets, NEW c \in Connections, i \in Serving(c),
           NEW n \in Cuts(c, 0, Len(clients[i].buffer)), peerReceives(i, c, n)
    PROVE  Orderly'
<1> DEFINE p == peers[c]
           asked == p.asked
           code == Code(asked)
           R == Reply(code)
           s == clients[i]
           got == [p EXCEPT !.received = @ + n]
           q == ClientReceives(got, SubSeq(s.buffer, 1, n))
           t == [s EXCEPT !.released = @ + n, !.buffer = SubSeq(@, n + 1, Len(@))]
<1>1. /\ p.state \in {"ESTABLISHED", "CLOSING"} /\ ~p.ended /\ s.buffer # <<>>
      /\ s.released = p.received
      /\ UpdatePeer(c, q) /\ Update(i, t) /\ UNCHANGED remote
  BY Zenon DEF peerReceives
<1>2. asked \in Requests[c] /\ asked # Nobody /\ DOMAIN p = PeerFields /\ PeerIs(p, c) /\ Asked(asked)
  BY <1>1, PeerAsks, AskedIs DEF Orderly
<1>3. remote[i] = c /\ Open(s) /\ SocketIs(s, c, asked)
  BY DEF Serving, Orderly
<1>4. code \in Codes /\ ReplyTo(asked) = R /\ R \in Seq(Answer) /\ Len(R) \in Nat
  BY CodeIs, AnswerLength, LenProperties
<1> HIDE DEF p, s, asked, code, R
<1>5. s.received \in 0 .. Len(Written(asked)) /\ AnsweredAt(s, asked, s.received, s.received)
  <2>1. Connected(s)
    BY <1>1, <1>3, StatesAre DEF SocketIs
  <2>2. Serves(s, asked, s.received) /\ s.received \in 0 .. Len(Written(asked))
    BY <1>3, <2>1 DEF SocketIs
  <2> QED
    BY <1>1, <2>2 DEF Serves, Unanswered
<1> DEFINE a == s.released
<1>6. a \in 0 .. Len(R) /\ s.buffer = SubSeq(R, a + 1, Len(R)) /\ DOMAIN s = Fields
  BY <1>4, <1>5 DEF AnsweredAt
<1> HIDE DEF a
<1>7. Len(s.buffer) = Len(R) - a
  BY <1>4, <1>6, WaitingIs
<1>8. n \in 1 .. Len(R) - a
  <2>1. s.buffer = <<>> \/ Len(s.buffer) # 0
    <3>1. CASE a = Len(R)
      BY <1>4, <1>6, <3>1, SubSeqEmpty
    <3>2. CASE a # Len(R)
      BY <1>4, <1>6, <1>7, <3>2
    <3> QED
      BY <3>1, <3>2
  <2>2. n \in Cuts(c, 0, Len(s.buffer))
    BY DEF s
  <2>3. n = Len(s.buffer) \/ n \in 1 .. Len(s.buffer)
    BY <2>2 DEF Cuts
  <2> QED
    BY <1>1, <1>4, <1>6, <1>7, <2>1, <2>3
<1>9. Halves(R, a, n)
  BY <1>4, <1>6, <1>8, HalvesAre
<1>10. SubSeq(s.buffer, 1, n) = SubSeq(R, a + 1, a + n)
       /\ SubSeq(s.buffer, n + 1, Len(s.buffer)) = SubSeq(R, (a + n) + 1, Len(R))
  BY <1>6, <1>9, Zenon DEF Halves
<1>11. a \in Nat /\ a + n \in 0 .. Len(R) /\ a + n \in Nat /\ a < a + n /\ a + n <= Len(R)
  BY <1>4, <1>6, <1>8
<1>12. SocketIs(t, c, asked)
  <2>1. /\ DOMAIN t = Fields /\ t.released = a + n
        /\ t.buffer = SubSeq(R, t.released + 1, Len(R))
        /\ \A f \in Fields \ {"released", "buffer"} : t[f] = s[f]
    BY <1>6, <1>10 DEF Fields, a
  <2>2. t.state = s.state /\ t.stage = s.stage /\ t.received = s.received /\ t.heard = s.heard
        /\ t.body = s.body
    BY <2>1 DEF Fields
  <2> HIDE DEF t
  <2>3. AnsweredAt(t, asked, s.received, s.received)
    BY <1>4, <1>5, <1>11, <2>1, <2>2 DEF AnsweredAt, Connected, Answered
  <2>4. Serves(t, asked, s.received)
    BY <2>3 DEF Serves
  <2> QED
    BY <1>2, <1>5, <2>4, ServedIs
<1> HIDE DEF t
<1>13. q.asked = asked /\ PeerIs(q, c)
  <2>1. /\ DOMAIN got = PeerFields /\ got.received = a + n
        /\ \A f \in PeerFields \ {"received"} : got[f] = p[f]
    BY <1>1, <1>2 DEF PeerFields, a
  <2> HIDE DEF got
  <2>2. /\ got.asked = p.asked /\ got.state = p.state /\ got.sent = p.sent /\ got.ended = p.ended
        /\ got.statusSignaled = p.statusSignaled /\ got.bodySignaled = p.bodySignaled
        /\ got.seen = p.seen /\ got.statusCode = p.statusCode /\ got.page = p.page
    BY <2>1 DEF PeerFields
  <2>3. Reads(p, code, a) /\ p.sent \in 0 .. Len(Written(asked)) /\ p.ended = FALSE
    BY <1>1, <1>2 DEF PeerIs, asked, code, a
  <2>4. Reads(got, code, a)
    BY <2>2, <2>3, SameReader
  <2>5. q = ClientReceives(got, SubSeq(Reply(code), a + 1, a + n))
    BY <1>10 DEF R
  <2> HIDE DEF q
  <2>6. Kept(got, q) /\ Reads(q, code, a + n)
    <3>1. a + n <= Len(Reply(code))
      BY <1>11 DEF R
    <3> QED
      BY <1>4, <1>11, <2>1, <2>4, <2>5, <3>1, ClientReceivesIs
  <2>7. /\ DOMAIN q = PeerFields /\ q.asked = asked /\ q.sent = p.sent /\ q.received = a + n
        /\ q.ended = FALSE /\ q.state # "SYN_SENT"
    BY <1>1, <2>1, <2>2, <2>3, <2>6 DEF Kept, asked
  <2>8. q.received \in 0 .. Len(Reply(Code(q.asked))) /\ Reads(q, Code(q.asked), q.received)
    BY <1>11, <2>6, <2>7 DEF R, code
  <2> QED
    BY <1>2, <2>3, <2>7, <2>8 DEF PeerIs
<1> HIDE DEF q
<1> QED
  <2>1. SocketIs(t, remote[i], peers[remote[i]].asked) /\ q.asked = peers[c].asked
    BY <1>3, <1>12, <1>13 DEF asked, p
  <2> QED
    BY <1>1, <1>13, <2>1, StepKeeps

\* A reader that has read nothing.
LEMMA ReadsNothing ==
    ASSUME NEW p, p.statusSignaled = FALSE, p.bodySignaled = FALSE, p.seen = <<>>,
           p.statusCode = 0, p.page = <<>>, NEW code
    PROVE  Reads(p, code, 0)
<1>1. Seen(p.seen, code, 0, 0)
  BY DEF Seen
<1>2. ReadsStatus(p, code, 0)
  BY <1>1 DEF ReadsStatus
<1> QED
  BY <1>2 DEF Reads

LEMMA NothingIsRead ==
    ASSUME NEW p, NEW code, Reads(p, code, 0)
    PROVE  p.statusSignaled = FALSE /\ p.bodySignaled = FALSE /\ p.statusCode = 0 /\ p.page = <<>>
<1>1. ~ReadsHeaders(p, code, 0)
  BY DEF ReadsHeaders
<1>2. ~ReadsPage(p, code, 0)
  BY DEF ReadsPage
<1>3. ReadsStatus(p, code, 0)
  BY <1>1, <1>2 DEF Reads
<1> QED
  BY <1>3 DEF ReadsStatus

(* A peer that has exchanged nothing yet.                                   *)
LEMMA FreshIs ==
    ASSUME NEW c \in Connections, NEW r \in Requests[c], NEW p, DOMAIN p = PeerFields,
           p.asked = r, p.sent = 0, p.received = 0, p.ended = FALSE,
           p.statusSignaled = FALSE, p.bodySignaled = FALSE, p.seen = <<>>,
           p.statusCode = 0, p.page = <<>>
    PROVE  PeerIs(p, c)
<1>1. Asked(r) /\ r # Nobody
  BY AskedIs
<1>2. 0 \in 0 .. Len(Written(r))
  BY <1>1, FirstInText
<1>3. Code(r) \in Codes /\ Reads(p, Code(r), 0)
  BY CodeIs, ReadsNothing
<1>4. 0 \in 0 .. Len(Reply(Code(r)))
  <2>1. Len(Reply(Code(r))) \in Nat
    BY <1>3, AnswerLength, LenProperties
  <2> QED
    BY <2>1
<1> QED
  BY <1>1, <1>2, <1>3, <1>4 DEF PeerIs

LEMMA RequestKeeps ==
    ASSUME Orderly, NEW c \in Connections, NEW r \in Requests[c], request(c, r)
    PROVE  Orderly'
<1> DEFINE p == [Idle EXCEPT !.state = "SYN_SENT", !.asked = r]
<1>1. peers[c].asked = Nobody /\ UpdatePeer(c, p) /\ UNCHANGED <<clients, remote>>
  BY DEF request
<1>2. PeerIs(p, c)
  <2>1. /\ DOMAIN p = PeerFields /\ p.asked = r /\ p.sent = 0 /\ p.received = 0 /\ p.ended = FALSE
        /\ p.statusSignaled = FALSE /\ p.bodySignaled = FALSE /\ p.seen = <<>>
        /\ p.statusCode = 0 /\ p.page = <<>>
    BY DEF Idle, PeerFields
  <2> HIDE DEF p
  <2> QED
    BY <2>1, FreshIs
<1>3. peers[c].asked \notin Requests[c]
  BY <1>1, AskedIs
<1> HIDE DEF p
<1> QED
  BY <1>1, <1>2, <1>3, PeerStep

LEMMA PeerEndsKeeps ==
    ASSUME Orderly, NEW c \in Connections, peerEnds(c)
    PROVE  Orderly'
<1> DEFINE p == [Idle EXCEPT !.asked = peers[c].asked]
<1>1. peers[c].state # "CLOSED" /\ UpdatePeer(c, p) /\ UNCHANGED <<clients, remote>>
  BY DEF peerEnds
<1>2. peers[c].asked \in Requests[c]
  BY <1>1, PeerAsks
<1>3. /\ DOMAIN p = PeerFields /\ p.asked = peers[c].asked /\ p.sent = 0 /\ p.received = 0
      /\ p.ended = FALSE
      /\ p.statusSignaled = FALSE /\ p.bodySignaled = FALSE /\ p.seen = <<>>
      /\ p.statusCode = 0 /\ p.page = <<>>
  BY DEF Idle, PeerFields
<1> HIDE DEF p
<1>4. PeerIs(p, c)
  BY <1>2, <1>3, FreshIs
<1> QED
  BY <1>1, <1>3, <1>4, PeerStep

LEMMA ConnectsKeeps ==
    ASSUME Orderly, NEW c \in Connections, peerConnects(c)
    PROVE  Orderly'
<1> DEFINE p == peers[c]
           open == [p EXCEPT !.state = "ESTABLISHED"]
           q == ClientConnected(open)
<1>1. p.state = "SYN_SENT" /\ UpdatePeer(c, q) /\ UNCHANGED <<clients, remote>>
  BY DEF peerConnects
<1>2. p.asked \in Requests[c] /\ p.asked # Nobody /\ DOMAIN p = PeerFields /\ PeerIs(p, c)
  BY <1>1, PeerAsks DEF Orderly
<1> HIDE DEF p
<1>3. p.received = 0 /\ Reads(p, Code(p.asked), 0) /\ p.ended \in BOOLEAN
      /\ p.sent \in 0 .. Len(Written(p.asked)) /\ 0 \in 0 .. Len(Reply(Code(p.asked)))
  BY <1>1, <1>2 DEF PeerIs
<1>4. p.page = <<>>
  BY <1>3, NothingIsRead
<1>5. /\ DOMAIN open = PeerFields /\ open.state = "ESTABLISHED"
      /\ \A f \in PeerFields \ {"state"} : open[f] = p[f]
  BY <1>2 DEF PeerFields
<1> HIDE DEF open
<1>6. /\ DOMAIN q = PeerFields /\ q.state = "ESTABLISHED" /\ q.statusSignaled = FALSE
      /\ q.bodySignaled = FALSE /\ q.seen = <<>> /\ q.statusCode = 0
      /\ \A f \in {"asked", "sent", "received", "page", "ended"} : q[f] = p[f]
  BY <1>5 DEF ClientConnected, PeerFields
<1> HIDE DEF q
<1>7. q.asked = p.asked /\ q.sent = p.sent /\ q.received = 0 /\ q.page = <<>> /\ q.ended = p.ended
  BY <1>3, <1>4, <1>6
<1>8. Reads(q, Code(q.asked), 0)
  BY <1>6, <1>7, ReadsNothing
<1>9. PeerIs(q, c)
  BY <1>2, <1>3, <1>6, <1>7, <1>8 DEF PeerIs
<1> QED
  BY <1>1, <1>7, <1>9, PeerStep DEF p

(* A closed socket takes a connection.                                      *)
LEMMA AcceptKeeps ==
    ASSUME Orderly, NEW c \in Connections, peers[c].asked \in Requests[c], NEW i \in Sockets,
           clients[i].state = "CLOSED", accept(i, c), UNCHANGED peers
    PROVE  Orderly'
<1> DEFINE s == clients[i]
           t == [s EXCEPT !.state = "SYN_RECEIVED", !.received = 0, !.released = 0]
<1>1. /\ DOMAIN clients' = Sockets /\ clients'[i] = t
      /\ \A j \in Sockets \ {i} : clients'[j] = clients[j]
      /\ DOMAIN remote' = Sockets /\ remote'[i] = c
      /\ \A j \in Sockets \ {i} : remote'[j] = remote[j]
  BY DEF accept, Update, Orderly
<1>2. SocketIs(t, c, peers[c].asked)
  <2>1. DOMAIN s = Fields /\ s.buffer = <<>>
    BY DEF Orderly, SocketIs
  <2>2. DOMAIN t = Fields /\ t.state = "SYN_RECEIVED" /\ t.received = 0 /\ t.released = 0
        /\ t.buffer = <<>>
    BY <2>1 DEF Fields
  <2> HIDE DEF t
  <2>3. ~Connected(t)
    BY <2>2, StatesAre
  <2> QED
    BY <2>2, <2>3 DEF SocketIs
<1> HIDE DEF t
<1>3. \A j \in Sockets : SocketIs(clients'[j], remote'[j], peers[remote'[j]].asked)
  <2> TAKE j \in Sockets
  <2>1. CASE j = i
    BY <1>1, <1>2, <2>1
  <2>2. CASE j # i
    BY <1>1, <2>2 DEF Orderly
  <2> QED
    BY <2>1, <2>2
<1> QED
  BY <1>1, <1>3 DEF Orderly

LEMMA SynKeeps ==
    ASSUME Orderly, NEW c \in Connections, receiveSyn(c)
    PROVE  Orderly'
<1>1. peers[c].asked \in Requests[c]
  BY PeerAsks DEF receiveSyn
<1>2. \/ UNCHANGED <<clients, remote>>
      \/ \E i \in Sockets : clients[i].state = "CLOSED" /\ accept(i, c)
  BY DEF receiveSyn, onConnectRequest
<1>3. UNCHANGED peers
  BY DEF receiveSyn
<1>4. CASE UNCHANGED <<clients, remote>>
  BY <1>3, <1>4 DEF Orderly
<1>5. CASE \E i \in Sockets : clients[i].state = "CLOSED" /\ accept(i, c)
  BY <1>1, <1>3, <1>5, AcceptKeeps
<1> QED
  BY <1>2, <1>4, <1>5

(* The peer is told that there is no more once it has read all there is.    *)
LEMMA FinHeardKeeps ==
    ASSUME Orderly, NEW i \in Sockets, NEW c \in Connections, i \in Serving(c),
           peerReceivesFin(i, c)
    PROVE  Orderly'
<1> DEFINE p == peers[c]
           asked == p.asked
           s == clients[i]
           R == Reply(Code(asked))
           shut == close(p)
           q == ClientClosed(p)
<1>1. /\ p.state \in {"ESTABLISHED", "CLOSING"}
      /\ s.state = "CLOSING" /\ s.buffer = <<>> /\ s.released = p.received
      /\ UpdatePeer(c, q) /\ UNCHANGED <<clients, remote>>
  BY Zenon DEF peerReceivesFin, finDue
<1>2. asked \in Requests[c] /\ asked # Nobody /\ DOMAIN p = PeerFields /\ PeerIs(p, c) /\ Asked(asked)
  BY <1>1, PeerAsks, AskedIs DEF Orderly
<1>3. remote[i] = c /\ SocketIs(s, c, asked)
  BY DEF Serving, Orderly
<1>4. Code(asked) \in Codes /\ ReplyTo(asked) = R /\ R \in Seq(Answer) /\ Len(R) \in Nat
  BY CodeIs, AnswerLength, LenProperties
<1> HIDE DEF p, s
<1>5. Serves(s, asked, s.received)
  <2>1. Connected(s)
    BY <1>1, StatesAre
  <2> QED
    BY <1>3, <2>1 DEF SocketIs
<1>6. /\ p.sent \in 0 .. Len(Written(asked)) /\ p.received \in 0 .. Len(R)
      /\ Reads(p, Code(asked), p.received)
  BY <1>2 DEF PeerIs
<1> HIDE DEF asked, R
<1>7. p.bodySignaled = TRUE => p.received = Len(R)
  <2>1. CASE Unanswered(s, s.received)
    <3>1. p.received = 0
      BY <1>1, <2>1 DEF Unanswered
    <3>2. p.bodySignaled = FALSE
      BY <1>6, <3>1, NothingIsRead
    <3> QED
      BY <3>2
  <2>2. CASE AnsweredAt(s, asked, s.received, s.received)
    <3> DEFINE a == s.released
    <3>1. a \in 0 .. Len(R) /\ SubSeq(R, a + 1, Len(R)) = <<>>
      BY <1>1, <1>4, <2>2 DEF AnsweredAt
    <3> HIDE DEF a
    <3>2. Len(SubSeq(R, a + 1, Len(R))) = Len(R) - a
      BY <1>4, <3>1, WaitingIs
    <3>3. a = Len(R)
      <4> DEFINE l == Len(R)
                 u == Len(SubSeq(R, a + 1, l))
      <4>1. u = 0 /\ u = l - a /\ l \in Nat /\ a \in 0 .. l
        BY <1>4, <3>1, <3>2
      <4> HIDE DEF l, u
      <4>2. a = l
        BY <4>1
      <4> QED
        BY <4>2 DEF l
    <3> QED
      BY <1>1, <3>3 DEF a
  <2> QED
    BY <1>5, <2>1, <2>2 DEF Serves
<1>8. /\ DOMAIN shut = PeerFields /\ shut.state \in {"ESTABLISHED", "CLOSING"}
      /\ \A f \in PeerFields \ {"state"} : shut[f] = p[f]
  BY <1>1, <1>2 DEF close, PeerFields
<1>9. q = [shut EXCEPT !.ended = TRUE]
  BY DEF ClientClosed
<1> HIDE DEF shut, q
<1>10. /\ DOMAIN q = PeerFields /\ q.ended = TRUE /\ q.state \in {"ESTABLISHED", "CLOSING"}
       /\ \A f \in PeerFields \ {"state", "ended"} : q[f] = p[f]
  BY <1>8, <1>9 DEF PeerFields
<1>11. /\ q.asked = asked /\ q.sent = p.sent /\ q.received = p.received
       /\ q.statusSignaled = p.statusSignaled /\ q.bodySignaled = p.bodySignaled
       /\ q.seen = p.seen /\ q.statusCode = p.statusCode /\ q.page = p.page
  BY <1>10 DEF PeerFields, asked
<1>12. Reads(q, Code(asked), q.received)
  BY <1>6, <1>11, SameReader
<1>13. q.state # "SYN_SENT" /\ q.ended \in BOOLEAN
  BY <1>10
<1>14. q.bodySignaled => q.received = Len(R)
  <2>1. p.bodySignaled = TRUE \/ p.bodySignaled = FALSE
    BY <1>6, Zenon DEF Reads, ReadsStatus, ReadsHeaders, ReadsPage
  <2> QED
    BY <1>7, <1>11, <2>1
<1>15. PeerIs(q, c)
  BY <1>2, <1>6, <1>10, <1>11, <1>12, <1>13, <1>14 DEF PeerIs, R
<1> QED
  BY <1>1, <1>11, <1>15, PeerStep DEF p, asked

LEMMA ResetKeeps ==
    ASSUME Orderly, NEW i \in Sockets, Update(i, terminated(clients[i])),
           UNCHANGED <<remote, peers>>
    PROVE  Orderly'
<1>1. DOMAIN clients[i] = Fields
  BY DEF Orderly, SocketIs
<1>2. SocketIs(terminated(clients[i]), remote[i], peers[remote[i]].asked)
  BY <1>1, TerminatedIs
<1> QED
  BY <1>2, SocketStep

LEMMA OrderlyIsInvariant == Orderly /\ [Next]_vars => Orderly'
<1> SUFFICES ASSUME Orderly, [Next]_vars PROVE Orderly'
  OBVIOUS
<1>1. CASE UNCHANGED vars
  BY <1>1 DEF vars, Orderly
<1>2. CASE Next
  <2>1. ASSUME NEW c \in Connections, NEW r \in Requests[c], request(c, r) PROVE Orderly'
    BY <2>1, RequestKeeps
  <2>2. ASSUME NEW c \in Connections, receiveSyn(c) PROVE Orderly'
    BY <2>2, SynKeeps
  <2>3. ASSUME NEW c \in Connections, peerConnects(c) PROVE Orderly'
    BY <2>3, ConnectsKeeps
  <2>4. ASSUME NEW c \in Connections, peerEnds(c) PROVE Orderly'
    BY <2>4, PeerEndsKeeps
  <2>5. ASSUME NEW i \in Sockets, NEW c \in Connections, Sends(i, c) PROVE Orderly'
    BY <2>5, SegmentKeeps, FinKeeps DEF Sends
  <2>6. ASSUME NEW i \in Sockets, NEW c \in Connections, receiveReset(i, c) PROVE Orderly'
    BY <2>6, ResetKeeps DEF receiveReset
  <2>7. ASSUME NEW i \in Sockets, NEW c \in Connections, Hears(i, c) PROVE Orderly'
    BY <2>7, ReceivesKeeps, FinHeardKeeps DEF Hears
  <2>8. ASSUME NEW i \in Sockets, socketEnds(i) PROVE Orderly'
    BY <2>8, ResetKeeps DEF socketEnds
  <2> QED
    BY <1>2, <2>1, <2>2, <2>3, <2>4, <2>5, <2>6, <2>7, <2>8 DEF Next
<1> QED
  BY <1>1, <1>2

-----------------------------------------------------------------------------
(* What clients are told                                                   *)

LEMMA PartsOf ==
    ASSUME NEW S, NEW B \in Seq(S), NEW k \in 0 .. Len(B), NEW j \in 0 .. k
    PROVE  IsPrefix(SubSeq(B, 1, j), SubSeq(B, 1, k)) /\ Len(SubSeq(B, 1, j)) = j
<1> DEFINE u == SubSeq(B, 1, j)
           v == SubSeq(B, 1, k)
<1>1. Len(B) \in Nat /\ \A i \in 1 .. Len(B) : B[i] \in S
  OBVIOUS
<1>2. ASSUME NEW l \in 0 .. k PROVE SubSeq(B, 1, l) \in Seq(S) /\ Len(SubSeq(B, 1, l)) = l
  <2>1. \A i \in 1 .. l : B[i] \in S
    BY <1>1
  <2>2. /\ SubSeq(B, 1, l) \in Seq(S)
        /\ Len(SubSeq(B, 1, l)) = IF 1 <= l THEN l - 1 + 1 ELSE 0
    BY <1>1, <2>1, SubSeqProperties
  <2>3. (IF 1 <= l THEN l - 1 + 1 ELSE 0) = l
    BY <1>1
  <2> QED
    BY <2>2, <2>3
<1>3. Len(u) = j /\ Len(v) = k
  BY <1>1, <1>2
<1>4. SubSeq(u, 1, j) = SubSeq(v, 1, j)
  <2>1. CASE j = 0
    <3>1. SubSeq(u, 1, 0) = <<>> /\ SubSeq(v, 1, 0) = <<>>
      BY SubSeqEmpty
    <3> HIDE DEF u, v
    <3> QED
      BY <2>1, <3>1
  <2>2. CASE j # 0
    <3>1. ASSUME NEW l \in j .. k PROVE SubSeq(SubSeq(B, 1, l), 1, j) = SubSeq(B, 1, j)
      <4>1. 1 \in 1 .. Len(B) /\ l \in 1 .. Len(B) /\ 1 \in 1 .. l - 1 + 1 /\ j \in 1 .. l - 1 + 1
            /\ 1 + 1 - 1 = 1 /\ 1 + j - 1 = j
        BY <1>1, <2>2
      <4>2. SubSeq(SubSeq(B, 1, l), 1, j) = SubSeq(B, 1 + 1 - 1, 1 + j - 1)
        BY <1>2, <4>1, SubSeqOfSubSeq
      <4> QED
        BY <4>1, <4>2
    <3>2. j \in j .. k /\ k \in j .. k
      BY <1>1
    <3> QED
      BY <3>1, <3>2
  <2> QED
    BY <2>1, <2>2
<1> HIDE DEF u, v
<1>5. IsPrefix(u, v)
  BY <1>1, <1>3, <1>4 DEF IsPrefix
<1> QED
  BY <1>3, <1>5 DEF u, v

LEMMA Whole ==
    ASSUME NEW S, NEW B \in Seq(S)
    PROVE  SubSeq(B, 1, Len(B)) = B
OBVIOUS

LEMMA OrderlyAnswers == Orderly => OwnAnswer
<1> SUFFICES ASSUME Orderly, NEW c \in Connections, peers[c].statusCode # 0
             PROVE  /\ peers[c].statusCode = Code(peers[c].asked)
                    /\ IsPrefix(peers[c].page, Page(Code(peers[c].asked)))
                    /\ peers[c].ended /\ peers[c].bodySignaled =>
                        peers[c].page = Page(Code(peers[c].asked))
  BY DEF OwnAnswer, Code
<1> DEFINE p == peers[c]
           code == Code(p.asked)
           n == p.received
<1>1. /\ p.asked # Nobody /\ Reads(p, code, n) /\ code \in Codes
      /\ p.ended /\ p.bodySignaled => n = Len(Reply(code))
  BY CodeIs DEF Orderly, PeerIs
<1> HIDE DEF p, code, n
<1>2. Page(code) \in Seq(Answer) /\ Len(Page(code)) \in Nat
  BY <1>1, PageIs
<1>3. ~ReadsStatus(p, code, n)
  BY DEF ReadsStatus, p
<1>4. CASE ReadsHeaders(p, code, n)
  <2>1. p.statusCode = code /\ p.page = <<>> /\ p.bodySignaled = FALSE
    BY <1>4 DEF ReadsHeaders
  <2>2. <<>> = SubSeq(Page(code), 1, 0)
    BY SubSeqEmpty
  <2>3. 0 \in 0 .. Len(Page(code)) /\ Len(Page(code)) \in 0 .. Len(Page(code))
    BY <1>2
  <2>4. IsPrefix(SubSeq(Page(code), 1, 0), SubSeq(Page(code), 1, Len(Page(code))))
    BY <1>2, <2>3, PartsOf
  <2>5. IsPrefix(p.page, Page(code))
    BY <1>2, <2>1, <2>2, <2>4, Whole, Zenon
  <2> QED
    BY <2>1, <2>5 DEF p, code
<1>5. CASE ReadsPage(p, code, n)
  <2>1. /\ code # 404 /\ n \in 8 .. Len(Reply(code)) /\ p.statusCode = code
        /\ p.page = SubSeq(Page(code), 1, n - 8)
    BY <1>5 DEF ReadsPage
  <2>2. Len(Reply(code)) = 8 + Len(Page(code))
    BY <1>1, <2>1, AnswerLength
  <2> DEFINE B == Page(code)
             b == Len(B)
  <2>3. n - 8 \in 0 .. b /\ b \in 0 .. b /\ (n = Len(Reply(code)) => n - 8 = b)
    BY <1>2, <2>1, <2>2
  <2>4. SubSeq(B, 1, b) = B
    BY <1>2, Whole
  <2>5. IsPrefix(p.page, B)
    <3>1. IsPrefix(SubSeq(B, 1, n - 8), SubSeq(B, 1, b))
      BY <1>2, <2>3, PartsOf
    <3> HIDE DEF b
    <3> QED
      BY <2>1, <2>4, <3>1, Zenon
  <2> HIDE DEF b
  <2>6. n = Len(Reply(code)) => p.page = B
    BY <2>1, <2>3, <2>4
  <2> QED
    BY <1>1, <2>1, <2>5, <2>6 DEF p, code
<1> QED
  BY <1>1, <1>3, <1>4, <1>5 DEF Reads

-----------------------------------------------------------------------------
(* What applications are told                                              *)

LEMMA LineEndIs ==
    ASSUME NEW asked, Asked(asked), NEW k \in 0 .. Len(asked.headers)
    PROVE  LineEnd(asked, k) = FirstEnd(asked) + 3 * k
<1> DEFINE T == {"header"} \X STRING \X Nat
           some == SubSeq(asked.headers, 1, k)
           lines == HeaderLines(some)
<1>1. asked.headers \in Seq(T) /\ k \in Nat
  BY Lengths DEF Asked
<1>2. some \in Seq(T) /\ Len(some) = k
  <2>1. \A i \in 1 .. k : asked.headers[i] \in T
    BY <1>1
  <2> HIDE DEF T
  <2>2. some \in Seq(T) /\ Len(some) = IF 1 <= k THEN k - 1 + 1 ELSE 0
    BY <1>1, <2>1, SubSeqProperties
  <2>3. (IF 1 <= k THEN k - 1 + 1 ELSE 0) = k
    BY <1>1
  <2> QED
    BY <2>2, <2>3
<1> HIDE DEF some
<1>3. InLines(lines, some, k)
  BY <1>2, HeaderLinesAre
<1>4. lines \in Seq(Symbol) /\ Len(lines) = 3 * k
  BY <1>3 DEF InLines
<1>5. RequestLine(asked) \in Seq(Symbol) /\ Len(RequestLine(asked)) = FirstEnd(asked)
  BY RequestLineIs
<1>6. LineEnd(asked, k) = Len(RequestLine(asked) \o lines)
  BY DEF LineEnd, some
<1> HIDE DEF lines
<1>7. Behind(RequestLine(asked) \o lines, RequestLine(asked), lines, FirstEnd(asked), 3 * k)
  BY <1>4, <1>5, Joined
<1> QED
  BY <1>6, <1>7 DEF Behind

LEMMA DueIs ==
    ASSUME NEW asked, Asked(asked), NEW k \in 1 .. Len(asked.headers) + 2
    PROVE  Due(asked, k) = Place(asked, k)
<1> DEFINE h == Len(asked.headers)
           m == FirstEnd(asked)
<1>1. h \in Nat /\ m \in Nat /\ HeadEnd(asked) = m + 3 * h /\ k \in 1 .. h + 2
  BY Lengths
<1>2. \A l \in 0 .. h : LineEnd(asked, l) = m + 3 * l
  BY LineEndIs
<1>3. /\ Due(asked, k) = IF k <= h + 1 THEN LineEnd(asked, k - 1) ELSE LineEnd(asked, k - 2) + 2
      /\ Place(asked, k) = IF k <= h + 1 THEN m + 3 * (k - 1) ELSE HeadEnd(asked) + 2
  BY Zenon DEF Due, Place
<1> HIDE DEF h, m
<1>4. CASE k <= h + 1
  <2>1. k - 1 \in 0 .. h
    BY <1>1, <1>4
  <2>2. LineEnd(asked, k - 1) = m + 3 * (k - 1)
    BY <1>2, <2>1
  <2> QED
    BY <1>3, <1>4, <2>2
<1>5. CASE ~(k <= h + 1)
  <2>1. k - 2 = h /\ h \in 0 .. h
    BY <1>1, <1>5
  <2>2. LineEnd(asked, k - 2) = HeadEnd(asked)
    BY <1>1, <1>2, <2>1
  <2> QED
    BY <1>3, <1>5, <2>2
<1> QED
  BY <1>4, <1>5

LEMMA BodyIs ==
    ASSUME NEW asked, Asked(asked), NEW n \in Nat
    PROVE  Body(asked, n) = SubSeq(asked.body, 1, n - (HeadEnd(asked) + 2))
<1> DEFINE e == HeadEnd(asked) + 2
           b == Len(asked.body)
<1>1. e \in Nat /\ b \in Nat /\ Len(Written(asked)) = e + b
  BY Lengths
<1> HIDE DEF e
<1>2. n + (b - Len(Written(asked))) = n - e
  <2> HIDE DEF b
  <2> QED
    BY <1>1
<1> QED
  BY <1>2, Zenon DEF Body, e

\* What CutsDoNotMatter says of socket s, that serves asked.
ToldAll(s, asked) ==
    LET calls == Calls(asked)
        due == {k \in DOMAIN calls : Due(asked, k) <= s.received}
    IN  /\ \A k \in DOMAIN s.heard :
            s.heard[k] = IF k \in DOMAIN calls THEN calls[k] ELSE <<"onRequestEnd">>
        /\ DOMAIN s.heard \intersect DOMAIN calls \subseteq due
        /\ IsPrefix(s.body, Body(asked, s.received))
        /\ ~Answered(s) =>
            due \subseteq DOMAIN s.heard /\ s.body = Body(asked, s.received)

\* The calls that are due, by their places.
LEMMA CallsInPlace ==
    ASSUME NEW asked, Asked(asked)
    PROVE  /\ Len(Calls(asked)) \in Nat /\ DOMAIN Calls(asked) = 1 .. Len(Calls(asked))
           /\ \A k \in 1 .. Len(Calls(asked)) : Due(asked, k) = Place(asked, k)
<1>1. Calls(asked) \in Seq(Callback)
      /\ Len(Calls(asked)) = Len(asked.headers) + IF asked.headers = <<>> THEN 1 ELSE 2
  BY CallsAre
<1>2. Len(asked.headers) \in Nat
  BY Lengths
<1>3. Len(Calls(asked)) \in Nat /\ DOMAIN Calls(asked) = 1 .. Len(Calls(asked))
  BY <1>1, LenProperties
<1>4. \A k \in 1 .. Len(Calls(asked)) : k \in 1 .. Len(asked.headers) + 2
  <2> DEFINE l == Len(Calls(asked))
             h == Len(asked.headers)
  <2>1. h \in Nat /\ (l = h + 1 \/ l = h + 2)
    BY <1>1, <1>2
  <2> HIDE DEF l, h
  <2>2. \A k \in 1 .. l : k \in 1 .. h + 2
    BY <2>1
  <2> QED
    BY <2>2 DEF l, h
<1>5. \A k \in 1 .. Len(asked.headers) + 2 : Due(asked, k) = Place(asked, k)
  BY DueIs
<1> QED
  BY <1>3, <1>4, <1>5, Zenon

LEMMA InTimeTells ==
    ASSUME NEW asked, Asked(asked), NEW heard, NEW n, InTime(heard, asked, n)
    PROVE  /\ DOMAIN heard = 1 .. Len(heard) /\ Len(heard) \in Nat
           /\ \A k \in DOMAIN heard : heard[k] =
                IF k \in DOMAIN Calls(asked) THEN Calls(asked)[k] ELSE <<"onRequestEnd">>
           /\ DOMAIN heard \intersect DOMAIN Calls(asked)
                \subseteq {k \in DOMAIN Calls(asked) : Due(asked, k) <= n}
<1> DEFINE calls == Calls(asked)
<1>1. /\ Len(calls) \in Nat /\ DOMAIN calls = 1 .. Len(calls)
      /\ \A k \in 1 .. Len(calls) : Due(asked, k) = Place(asked, k)
  BY CallsInPlace
<1>2. DOMAIN heard = 1 .. Len(heard) /\ Len(heard) \in Nat
  BY LenProperties DEF InTime
<1>3. \A k \in 1 .. Len(heard) :
        /\ k <= Len(calls) => heard[k] = calls[k] /\ Place(asked, k) <= n
        /\ k > Len(calls) => heard[k] = <<"onRequestEnd">>
  BY DEF InTime
<1> HIDE DEF calls
<1>4. \A k \in DOMAIN heard : heard[k] = IF k \in DOMAIN calls THEN calls[k] ELSE <<"onRequestEnd">>
  <2> SUFFICES ASSUME NEW k \in DOMAIN heard
               PROVE  heard[k] = IF k \in DOMAIN calls THEN calls[k] ELSE <<"onRequestEnd">>
    OBVIOUS
  <2>1. k \in 1 .. Len(heard)
    BY <1>2
  <2>2. CASE k <= Len(calls)
    <3>1. k \in DOMAIN calls
      BY <1>1, <1>2, <2>1, <2>2
    <3> QED
      BY <1>3, <2>1, <2>2, <3>1, Zenon
  <2>3. CASE ~(k <= Len(calls))
    <3>1. k \notin DOMAIN calls /\ k > Len(calls)
      BY <1>1, <1>2, <2>1, <2>3
    <3> QED
      BY <1>3, <2>1, <3>1, Zenon
  <2> QED
    BY <2>2, <2>3
<1>5. \A k \in DOMAIN heard : k \in DOMAIN calls => Due(asked, k) <= n
  BY <1>1, <1>2, <1>3
<1>6. DOMAIN heard \intersect DOMAIN calls \subseteq {k \in DOMAIN calls : Due(asked, k) <= n}
  BY <1>5
<1> QED
  BY <1>2, <1>4, <1>6, Zenon DEF calls

\* Of the calls of asked the first m are due behind n symbols of it.
FirstDue(asked, n, m) ==
    /\ m \in 0 .. Len(Calls(asked))
    /\ n <= HeadEnd(asked) + 2
    /\ \A i \in 1 .. Len(Calls(asked)) : Place(asked, i) <= n <=> i <= m

LEMMA FirstDueIs ==
    ASSUME NEW asked, Asked(asked), NEW n \in Nat, NEW m \in 0 .. Len(asked.headers) + 1,
           m = 0 => n < FirstEnd(asked),
           m # 0 => /\ FirstEnd(asked) + 3 * (m - 1) <= n
                    /\ n <= FirstEnd(asked) + 3 * (m - 1) + 2
                    /\ m = Len(asked.headers) + 1 /\ asked.headers # <<>> =>
                         n <= FirstEnd(asked) + 3 * (m - 1) + 1
    PROVE  FirstDue(asked, n, m)
<1> DEFINE h == Len(asked.headers)
           f == FirstEnd(asked)
           e == HeadEnd(asked)
           l == Len(Calls(asked))
           o == 3 * (m - 1)
<1>1. h \in Nat /\ f \in Nat /\ e = f + 3 * h /\ (asked.headers = <<>> <=> h = 0)
  BY Lengths
<1>2. l = IF h = 0 THEN h + 1 ELSE h + 2
  <2>1. Len(Calls(asked)) = Len(asked.headers) + IF asked.headers = <<>> THEN 1 ELSE 2
    BY CallsAre
  <2>2. CASE h = 0
    <3>1. asked.headers = <<>>
      BY <1>1, <2>2
    <3> QED
      BY <2>1, <2>2, <3>1
  <2>3. CASE h # 0
    <3>1. asked.headers # <<>>
      BY <1>1, <2>3
    <3> QED
      BY <2>1, <2>3, <3>1
  <2> QED
    BY <2>2, <2>3
<1>3. \A i : Place(asked, i) = IF i <= h + 1 THEN f + 3 * (i - 1) ELSE e + 2
  BY Zenon DEF Place
<1>4. m \in 0 .. h + 1
  OBVIOUS
<1>5. m = 0 => n < f
  BY DEF f
<1>6. m # 0 => f + o <= n /\ n <= f + o + 2
  BY DEF f
<1>7. m = h + 1 /\ h # 0 => n <= f + o + 1
  <2> SUFFICES ASSUME m = h + 1, h # 0 PROVE n <= f + o + 1
    OBVIOUS
  <2>1. asked.headers # <<>> /\ m # 0
    BY <1>1
  <2> QED
    BY <2>1
<1> HIDE DEF h, f, e, l, o
<1>8. l \in Nat /\ m \in Nat /\ (l = h + 1 \/ (l = h + 2 /\ h # 0)) /\ m \in 0 .. l
  BY <1>1, <1>2, <1>4
<1>9. n <= e + 2
  <2>1. CASE m = 0
    BY <1>1, <1>5, <2>1
  <2>2. CASE m # 0
    <3>1. o <= 3 * h /\ o \in Nat
      BY <1>1, <1>4, <2>2 DEF o
    <3> QED
      BY <1>1, <1>6, <2>2, <3>1
  <2> QED
    BY <2>1, <2>2
<1>10. ASSUME NEW i \in 1 .. l PROVE Place(asked, i) <= n <=> i <= m
  <2>1. CASE i <= h + 1
    <3> DEFINE x == 3 * (i - 1)
    <3>1. Place(asked, i) = f + x /\ x \in Nat /\ i \in Nat /\ i >= 1
      BY <1>3, <1>8, <2>1
    <3>2. CASE m = 0
      <4> HIDE DEF x
      <4>1. ~(f + x <= n)
        BY <1>1, <1>5, <3>1, <3>2
      <4>2. ~(i <= m)
        BY <3>1, <3>2
      <4> QED
        BY <3>1, <4>1, <4>2
    <3>3. CASE m # 0
      <4>1. o \in Nat /\ (i <= m => x <= o) /\ (~(i <= m) => x >= o + 3)
        BY <1>8, <3>1, <3>3 DEF o
      <4> HIDE DEF x
      <4>2. f + o <= n /\ n <= f + o + 2
        BY <1>6, <3>3
      <4>3. (i <= m => f + x <= n) /\ (~(i <= m) => ~(f + x <= n))
        BY <1>1, <3>1, <4>1, <4>2
      <4> QED
        BY <3>1, <4>3
    <3> QED
      BY <3>2, <3>3
  <2>2. CASE ~(i <= h + 1)
    <3>1. i = h + 2 /\ h # 0 /\ ~(i <= m)
      BY <1>1, <1>4, <1>8, <2>2
    <3>2. Place(asked, i) = e + 2
      BY <1>3, <2>2
    <3>3. n < e + 2
      <4>1. CASE m = 0
        BY <1>1, <1>5, <4>1
      <4>2. CASE m = h + 1
        <5>1. o = 3 * h
          BY <1>1, <4>2 DEF o
        <5> QED
          BY <1>1, <1>7, <3>1, <4>2, <5>1
      <4>3. CASE m # 0 /\ m # h + 1
        <5>1. o + 3 <= 3 * h /\ o \in Nat
          BY <1>1, <1>4, <4>3 DEF o
        <5> QED
          BY <1>1, <1>6, <4>3, <5>1
      <4> QED
        BY <4>1, <4>2, <4>3
    <3> QED
      BY <1>1, <3>1, <3>2, <3>3
  <2> QED
    BY <2>1, <2>2
<1> QED
  BY <1>8, <1>9, <1>10 DEF FirstDue, l, e

(* In the head, the calls of the lines that have ended.                     *)
LEMMA HeadTells ==
    ASSUME NEW asked, Asked(asked), NEW s, NEW n \in Nat, InHead(s, asked, n)
    PROVE  \E m : FirstDue(asked, n, m) /\ Told(s.heard, asked, m) /\ s.body = <<>>
<1> DEFINE h == Len(asked.headers)
           f == FirstEnd(asked)
<1>1. h \in Nat /\ f \in Nat /\ f = Len(asked.method) + 4 /\ Len(asked.method) \in Nat
  BY Lengths
<1>2. CASE InMethod(s, asked, n) \/ InQuery(s, asked, n)
  <2>1. Told(s.heard, asked, 0) /\ s.body = <<>>
        /\ (n \in 0 .. Len(asked.method)
              \/ n \in Len(asked.method) + 1 .. Len(asked.method) + 3)
    BY <1>2 DEF InMethod, InQuery
  <2>2. n < f /\ 0 \in 0 .. h + 1
    <3> HIDE DEF h, f
    <3> QED
      BY <1>1, <2>1
  <2>3. FirstDue(asked, n, 0)
    BY <2>2, FirstDueIs
  <2> QED
    BY <2>1, <2>3
<1>3. CASE InHeaders(s, asked, n)
  <2>1. PICK k \in 0 .. h, j \in 0 .. 2 :
            n = f + 3 * k + j /\ InHeader(s, asked, k, j)
    BY <1>3 DEF InHeaders
  <2>2. /\ Told(s.heard, asked, k + 1) /\ s.body = <<>> /\ (k = h /\ k > 0 => j < 2)
    BY <2>1 DEF InHeader
  <2> DEFINE m == k + 1
  <2>3. asked.headers = <<>> <=> h = 0
    BY Lengths
  <2>4. /\ m \in 0 .. h + 1 /\ m # 0 /\ f + 3 * (m - 1) <= n /\ n <= f + 3 * (m - 1) + 2
        /\ m = h + 1 /\ h # 0 => n <= f + 3 * (m - 1) + 1
    <3> HIDE DEF h, f
    <3>1. k \in 0 .. h /\ j \in 0 .. 2 /\ n = f + 3 * k + j /\ m - 1 = k
      BY <1>1, <2>1
    <3>2. k = h /\ h # 0 => j <= 1
      BY <1>1, <2>2, <3>1
    <3> DEFINE x == 3 * k
    <3>3. x \in Nat /\ 3 * (m - 1) = x
      BY <3>1
    <3>4. m \in 0 .. h + 1 /\ m # 0 /\ (m = h + 1 => k = h)
      BY <1>1, <3>1
    <3>5. n = f + x + j
      BY <3>1
    <3> HIDE DEF x, m
    <3>6. f + x <= n /\ n <= f + x + 2 /\ (j <= 1 => n <= f + x + 1)
      <4> HIDE DEF x
      <4>1. f \in Nat
        BY <1>1
      <4>2. x \in Nat
        BY <3>3
      <4>3. j = 0 \/ j = 1 \/ j = 2
        BY <3>1
      <4>4. n = f + x + j
        BY <3>5
      <4> QED
        BY <4>1, <4>2, <4>3, <4>4
    <3> QED
      BY <3>2, <3>3, <3>4, <3>6
  <2> HIDE DEF m
  <2>5. FirstDue(asked, n, m)
    BY <2>3, <2>4, FirstDueIs
  <2> QED
    BY <2>2, <2>5 DEF m
<1> QED
  BY <1>2, <1>3 DEF InHead

LEMMA BodyPrefix ==
    ASSUME NEW asked, Asked(asked), NEW n \in 0 .. Len(Written(asked)), NEW body,
           Part(body, asked, n)
    PROVE  IsPrefix(body, Body(asked, n))
<1> DEFINE B == asked.body
           e == HeadEnd(asked) + 2
           b == Len(B)
           r == n - e
           k == IF r < 0 THEN 0 ELSE r
<1>1. PICK j \in 0 .. b : body = SubSeq(B, 1, j) /\ (j = 0 \/ e + j <= n)
  BY DEF Part
<1>2. B \in Seq(Seq(STRING)) /\ b \in Nat /\ e \in Nat /\ n \in 0 .. e + b
  <2>1. b \in Nat /\ e \in Nat /\ Len(Written(asked)) = e + b
    BY Lengths
  <2>2. B \in Seq(Seq(STRING))
    BY Zenon DEF Asked
  <2> QED
    BY <2>1, <2>2
<1>3. Body(asked, n) = SubSeq(B, 1, r)
  <2>1. n \in Nat
    BY <1>2
  <2> QED
    BY <2>1, BodyIs
<1> HIDE DEF B, e, b
<1>4. r \in Int /\ k \in 0 .. b /\ j \in 0 .. k /\ (k # r => k = 0 /\ r < 1)
  BY <1>1, <1>2
<1> HIDE DEF r, k
<1>5. SubSeq(B, 1, r) = SubSeq(B, 1, k)
  <2>1. CASE k = r
    BY <2>1
  <2>2. CASE k # r
    <3>1. SubSeq(B, 1, r) = <<>> /\ SubSeq(B, 1, 0) = <<>>
      BY <1>4, <2>2, SubSeqEmpty
    <3> QED
      BY <1>4, <2>2, <3>1
  <2> QED
    BY <2>1, <2>2
<1>6. IsPrefix(SubSeq(B, 1, j), SubSeq(B, 1, k))
  BY <1>2, <1>4, PartsOf DEF b
<1> QED
  BY <1>1, <1>3, <1>5, <1>6, Zenon

(* What a socket has told its application is what CutsDoNotMatter says.     *)
LEMMA ServesInTime ==
    ASSUME NEW asked, Asked(asked), NEW s, NEW n \in 0 .. Len(Written(asked)), n = s.received,
           Serves(s, asked, n)
    PROVE  ToldAll(s, asked)
<1> DEFINE calls == Calls(asked)
           due == {k \in DOMAIN calls : Due(asked, k) <= n}
           Exact == due \subseteq DOMAIN s.heard /\ s.body = Body(asked, n)
<1>1. n \in Nat
  BY FirstInText
<1>2. /\ Len(calls) \in Nat /\ DOMAIN calls = 1 .. Len(calls)
      /\ \A k \in 1 .. Len(calls) : Due(asked, k) = Place(asked, k)
  BY CallsInPlace
<1>3. InTime(s.heard, asked, n) /\ Part(s.body, asked, n) /\ (~Answered(s) => Exact)
  <2>1. CASE AnsweredAt(s, asked, n, n)
    BY <2>1 DEF AnsweredAt
  <2>2. CASE InBody(s, asked, n)
    <3>1. /\ n \in HeadEnd(asked) + 2 .. HeadEnd(asked) + 2 + Len(asked.body)
          /\ InTime(s.heard, asked, n) /\ Len(s.heard) >= Len(calls)
          /\ s.body = SubSeq(asked.body, 1, n - (HeadEnd(asked) + 2))
      BY <2>2 DEF InBody
    <3>2. s.body = Body(asked, n)
      BY <1>1, <3>1, BodyIs
    <3>3. DOMAIN s.heard = 1 .. Len(s.heard) /\ Len(s.heard) \in Nat
      BY <3>1, InTimeTells
    <3>4. due \subseteq DOMAIN s.heard
      <4> HIDE DEF calls
      <4>1. DOMAIN calls \subseteq DOMAIN s.heard
        BY <1>2, <3>1, <3>3
      <4> QED
        BY <4>1
    <3>5. Part(s.body, asked, n)
      <4> DEFINE e == HeadEnd(asked) + 2
                 b == Len(asked.body)
                 j == n - e
      <4>1. e \in Nat /\ b \in Nat
        BY Lengths
      <4>2. n \in e .. e + b /\ s.body = SubSeq(asked.body, 1, j)
        BY <3>1
      <4> HIDE DEF e, b
      <4>3. j \in 0 .. b /\ e + j <= n
        BY <4>1, <4>2
      <4> HIDE DEF j
      <4> QED
        BY <4>2, <4>3 DEF Part, e, b
    <3> QED
      BY <3>1, <3>2, <3>4, <3>5
  <2>3. CASE InHead(s, asked, n)
    <3>1. PICK m : FirstDue(asked, n, m) /\ Told(s.heard, asked, m) /\ s.body = <<>>
      BY <1>1, <2>3, HeadTells
    <3>2. /\ m \in 0 .. Len(calls) /\ n <= HeadEnd(asked) + 2
          /\ \A i \in 1 .. Len(calls) : Place(asked, i) <= n <=> i <= m
      BY <3>1 DEF FirstDue
    <3>3. DOMAIN s.heard = 1 .. m
      <4>1. Len(s.heard) = m /\ DOMAIN s.heard = 1 .. Len(s.heard)
        BY <3>1, LenProperties DEF Told
      <4> QED
        BY <4>1
    <3>4. s.body = Body(asked, n)
      <4>1. n - (HeadEnd(asked) + 2) \in Int /\ n - (HeadEnd(asked) + 2) < 1
        <5>1. HeadEnd(asked) \in Nat
          BY Lengths
        <5> QED
          BY <1>1, <3>2, <5>1
      <4>2. SubSeq(asked.body, 1, n - (HeadEnd(asked) + 2)) = <<>>
        BY <4>1, SubSeqEmpty
      <4> QED
        BY <1>1, <3>1, <4>2, BodyIs
    <3>5. InTime(s.heard, asked, n)
      <4> DEFINE l == Len(calls)
      <4>1. m \in 0 .. l /\ l \in Nat
        BY <1>2, <3>2
      <4> HIDE DEF l
      <4>2. m \in Nat /\ m <= l /\ \A i \in 1 .. m : i \in 1 .. l /\ i <= m
        BY <4>1
      <4>3. m <= Len(Calls(asked)) /\ \A i \in 1 .. m : Place(asked, i) <= n
        BY <3>2, <4>2 DEF l
      <4> QED
        BY <1>1, <3>1, <4>2, <4>3, ToldInTime
    <3>6. due \subseteq DOMAIN s.heard
      <4> HIDE DEF calls
      <4>1. \A i \in 1 .. Len(calls) : Due(asked, i) <= n => i <= m
        BY <1>2, <3>2
      <4>2. \A i \in 1 .. Len(calls) : i <= m => i \in 1 .. m
        BY <1>2, <3>2
      <4> QED
        BY <1>2, <3>3, <4>1, <4>2
    <3>7. Part(s.body, asked, n)
      BY <3>1, NoBodyYet
    <3> QED
      BY <3>4, <3>5, <3>6, <3>7
  <2> QED
    BY <2>1, <2>2, <2>3 DEF Serves
<1>4. /\ \A k \in DOMAIN s.heard : s.heard[k] = IF k \in DOMAIN calls THEN calls[k] ELSE <<"onRequestEnd">>
      /\ DOMAIN s.heard \intersect DOMAIN calls \subseteq due
  BY <1>3, InTimeTells
<1>5. IsPrefix(s.body, Body(asked, n))
  BY <1>3, BodyPrefix
<1> QED
  BY <1>3, <1>4, <1>5, Zenon DEF ToldAll

LEMMA OrderlyCalls == Orderly => CutsDoNotMatter
<1> SUFFICES ASSUME Orderly,
                    NEW i \in {j \in Sockets : clients[j].state \in {"ESTABLISHED", "CLOSING"}}
             PROVE  ToldAll(clients[i], peers[remote[i]].asked)
  BY DEF CutsDoNotMatter, ToldAll
<1> DEFINE s == clients[i]
           asked == peers[remote[i]].asked
<1>1. SocketIs(s, remote[i], asked) /\ Connected(s) /\ Open(s)
  BY StatesAre DEF Orderly
<1> HIDE DEF s, asked
<1>2. /\ asked \in Requests[remote[i]] /\ remote[i] \in Connections
      /\ s.received \in 0 .. Len(Written(asked)) /\ Serves(s, asked, s.received)
  BY <1>1 DEF SocketIs
<1>3. ToldAll(s, asked)
  BY <1>2, AskedIs, ServesInTime
<1> QED
  BY <1>3 DEF s, asked

-----------------------------------------------------------------------------
(* The theorems                                                             *)

(* However a request is cut into segments, and whatever other connections   *)
(* and late SYNs do, the callbacks up to the answer are those of its text,  *)
(* in order and in time (HTTPServer::onReceive): for any requests that have *)
(* a header if they have a body, and any number of sockets.                 *)
THEOREM CallbacksAreOfText == Spec => []CutsDoNotMatter
<1>1. Spec => []Orderly
  BY InitIsOrderly, OrderlyIsInvariant, PTL DEF Spec
<1> QED
  BY <1>1, OrderlyCalls, PTL

(* What a client is told is the answer to its own request, whatever its     *)
(* socket served before and whenever connections broke (the reuse of        *)
(* HTTPServers by TCPListener, HTTPClient::onReceive and onClose).          *)
THEOREM AnswersAreOwn == Spec => []OwnAnswer
<1>1. Spec => []Orderly
  BY InitIsOrderly, OrderlyIsInvariant, PTL DEF Spec
<1> QED
  BY <1>1, OrderlyAnswers, PTL
=============================================================================
