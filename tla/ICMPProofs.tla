----------------------------- MODULE ICMPProofs -----------------------------
(***************************************************************************)
(* Proofs about the walks of the list of services, with any number of      *)
(* services that come and go in any call, and about the answer to an echo  *)
(* request, for frames and buffers of any length.                          *)
(***************************************************************************)
EXTENDS ICMP, TLAPS

-----------------------------------------------------------------------------
(* Lists without repetition *)

Distinct(l) == \A i, j \in 1 .. Len(l) : l[i] = l[j] => i = j

\* The services that come after s.
Behind(l, s) == {t \in ToSet(l) : \E i, j \in 1 .. Len(l) : i < j /\ l[i] = s /\ l[j] = t}

LEMMA Members ==
    ASSUME NEW l \in Seq(Service)
    PROVE  /\ \A i \in 1 .. Len(l) : l[i] \in ToSet(l)
           /\ \A t \in ToSet(l) : t \in Service /\ \E i \in 1 .. Len(l) : l[i] = t
  BY DEF ToSet

\* The place of s in the list, or 0.
Place(l, s) == SelectInSeq(l, LAMBDA t : t = s)

LEMMA PlaceFound ==
    ASSUME NEW l \in Seq(Service), Distinct(l), NEW s, NEW k \in 1 .. Len(l), l[k] = s
    PROVE  Place(l, s) = k
<1> DEFINE I == {i \in 1 .. Len(l) : l[i] = s}
<1>1. I = {k}
  BY DEF Distinct
<1>2. Min(I) = k
  BY <1>1 DEF Min
<1>3. Place(l, s) = IF I # {} THEN Min(I) ELSE 0
  BY Zenon DEF Place, SelectInSeq
<1> QED
  BY <1>1, <1>2, <1>3

LEMMA NoPlace ==
    ASSUME NEW l \in Seq(Service), NEW s, s \notin ToSet(l)
    PROVE  Place(l, s) = 0
<1> DEFINE I == {i \in 1 .. Len(l) : l[i] = s}
<1>1. I = {}
  BY Members
<1>2. Place(l, s) = IF I # {} THEN Min(I) ELSE 0
  BY Zenon DEF Place, SelectInSeq
<1> QED
  BY <1>1, <1>2

\* FromOn, of any list.
Onward(l, s) == IF Place(l, s) = 0 THEN {} ELSE ToSet(SubSeq(l, Place(l, s), Len(l)))

(* What a walk has before it: the service it is at, and those behind.      *)
LEMMA OnwardIs ==
    ASSUME NEW l \in Seq(Service), Distinct(l)
    PROVE  /\ \A s \in ToSet(l) : Onward(l, s) = {s} \cup Behind(l, s)
           /\ Onward(l, Null) = {}
<1>1. ASSUME NEW s \in ToSet(l)
      PROVE  Onward(l, s) = {s} \cup Behind(l, s)
  <2>1. PICK k \in 1 .. Len(l) : l[k] = s
    BY Members
  <2>2. Place(l, s) = k /\ k # 0
    BY <2>1, PlaceFound
  <2>3. Onward(l, s) = ToSet(SubSeq(l, k, Len(l)))
    BY <2>2, Zenon DEF Onward
  <2> DEFINE q == SubSeq(l, k, Len(l))
  <2>4. q \in Seq(Service) /\ Len(q) = Len(l) - k + 1 /\ \A i \in 1 .. Len(q) : q[i] = l[(i + k) - 1]
    BY <2>1
  <2> HIDE DEF q
  <2>5. ASSUME NEW t \in ToSet(q) PROVE t \in {s} \cup Behind(l, s)
    <3>1. PICK i \in 1 .. Len(q) : q[i] = t
      BY <2>4, <2>5, Members
    <3>2. (i + k) - 1 \in 1 .. Len(l) /\ l[(i + k) - 1] = t /\ ((i + k) - 1 = k \/ k < (i + k) - 1)
      BY <2>1, <2>4, <3>1
    <3> QED
      BY <2>1, <3>2, Members DEF Behind
  <2>6. ASSUME NEW t \in {s} \cup Behind(l, s) PROVE t \in ToSet(q)
    <3>1. PICK j \in 1 .. Len(l) : k <= j /\ l[j] = t
      <4>1. CASE t = s
        BY <2>1, <4>1
      <4>2. CASE t \in Behind(l, s)
        BY <2>1, <4>2 DEF Behind, Distinct
      <4> QED
        BY <2>6, <4>1, <4>2
    <3>2. (j - k) + 1 \in 1 .. Len(q) /\ (((j - k) + 1) + k) - 1 = j
      <4>1. Len(q) = Len(l) - k + 1 /\ Len(l) \in Nat /\ k \in 1 .. Len(l)
        BY <2>1, <2>4
      <4> QED
        BY <3>1, <4>1
    <3>3. q[(j - k) + 1] = t
      BY <2>4, <3>1, <3>2
    <3> QED
      BY <2>4, <3>2, <3>3, Members
  <2> QED
    BY <2>3, <2>5, <2>6 DEF q
<1>2. Onward(l, Null) = {}
  <2>1. Null \notin ToSet(l)
    BY Members, NetworkServiceAssumption
  <2>2. Place(l, Null) = 0
    BY <2>1, NoPlace
  <2> QED
    BY <2>2, Zenon DEF Onward
<1> QED
  BY <1>1, <1>2

(* The item behind s is the next of those behind it.                       *)
LEMMA NextIs ==
    ASSUME NEW l \in Seq(Service), Distinct(l), NEW k \in 1 .. Len(l)
    PROVE  NextItem(l, l[k]) = IF k < Len(l) THEN l[k + 1] ELSE Null
<1>1. Place(l, l[k]) = k
  BY PlaceFound
<1>2. k \in 1 .. Len(l) - 1 <=> k < Len(l)
  OBVIOUS
<1>3. NextItem(l, l[k]) = IF k \in 1 .. Len(l) - 1 THEN l[k + 1] ELSE Null
  BY <1>1, Zenon DEF NextItem, Place
<1> QED
  BY <1>2, <1>3

LEMMA BehindIs ==
    ASSUME NEW l \in Seq(Service), Distinct(l), NEW k \in 1 .. Len(l), NEW t
    PROVE  t \in Behind(l, l[k]) <=> \E j \in 1 .. Len(l) : k < j /\ l[j] = t
<1>1. ASSUME t \in Behind(l, l[k]) PROVE \E j \in 1 .. Len(l) : k < j /\ l[j] = t
  BY <1>1 DEF Behind, Distinct
<1>2. ASSUME NEW j \in 1 .. Len(l), k < j, l[j] = t PROVE t \in Behind(l, l[k])
  BY <1>2, Members DEF Behind
<1> QED
  BY <1>1, <1>2

LEMMA BehindNext ==
    ASSUME NEW l \in Seq(Service), Distinct(l), NEW s \in ToSet(l)
    PROVE  /\ NextItem(l, s) \in ToSet(l) \cup {Null}
           /\ Behind(l, s) = IF NextItem(l, s) = Null THEN {}
                             ELSE {NextItem(l, s)} \cup Behind(l, NextItem(l, s))
<1>1. PICK k \in 1 .. Len(l) : l[k] = s
  BY Members
<1>2. NextItem(l, s) = IF k < Len(l) THEN l[k + 1] ELSE Null
  BY <1>1, NextIs
<1>3. CASE k < Len(l)
  <2>1. k + 1 \in 1 .. Len(l) /\ NextItem(l, s) = l[k + 1]
    BY <1>2, <1>3
  <2>2. l[k + 1] \in ToSet(l) /\ l[k + 1] # Null
    BY <2>1, Members, NetworkServiceAssumption
  <2>3. \A t : t \in Behind(l, l[k]) <=> t = l[k + 1] \/ t \in Behind(l, l[k + 1])
    <3> SUFFICES ASSUME NEW t
                 PROVE  t \in Behind(l, l[k]) <=> t = l[k + 1] \/ t \in Behind(l, l[k + 1])
      OBVIOUS
    <3>1. t \in Behind(l, l[k]) <=> \E j \in 1 .. Len(l) : k < j /\ l[j] = t
      BY BehindIs
    <3>2. t \in Behind(l, l[k + 1]) <=> \E j \in 1 .. Len(l) : k + 1 < j /\ l[j] = t
      BY <2>1, BehindIs
    <3>3. \A j \in 1 .. Len(l) : k < j <=> j = k + 1 \/ k + 1 < j
      OBVIOUS
    <3> QED
      BY <2>1, <3>1, <3>2, <3>3
  <2> QED
    BY <1>1, <2>1, <2>2, <2>3
<1>4. CASE ~(k < Len(l))
  <2>1. NextItem(l, s) = Null
    BY <1>2, <1>4
  <2>2. ASSUME NEW t PROVE t \notin Behind(l, l[k])
    <3>1. t \in Behind(l, l[k]) <=> \E j \in 1 .. Len(l) : k < j /\ l[j] = t
      BY BehindIs
    <3> QED
      BY <1>4, <3>1
  <2> QED
    BY <1>1, <2>1, <2>2
<1> QED
  BY <1>3, <1>4

-----------------------------------------------------------------------------
(* What a call leaves of the list *)

\* Of l, the services that are left in m are in the same order, and what is
\* new is in front of them.
Leaves(l, m) ==
    /\ m \in Seq(Service) /\ Distinct(m)
    /\ \A s \in ToSet(l) \cap ToSet(m) : Behind(m, s) = Behind(l, s) \cap ToSet(m)

LEMMA ConcatIs ==
    ASSUME NEW S, NEW a \in Seq(S), NEW b \in Seq(S)
    PROVE  /\ a \o b \in Seq(S) /\ Len(a \o b) = Len(a) + Len(b)
           /\ \A i \in 1 .. Len(a) + Len(b) :
                (a \o b)[i] = IF i <= Len(a) THEN a[i] ELSE b[i - Len(a)]
OBVIOUS

LEMMA RemoveLeaves ==
    ASSUME NEW l \in Seq(Service), Distinct(l), NEW t \in ToSet(l)
    PROVE  Leaves(l, remove(l, t)) /\ ToSet(remove(l, t)) = ToSet(l) \ {t}
<1> DEFINE m == remove(l, t)
           n == Len(l)
<1>1. PICK p \in 1 .. n : l[p] = t
  BY Members
<1>2. m = SubSeq(l, 1, p - 1) \o SubSeq(l, p + 1, n)
  <2>1. Place(l, t) = p /\ \E i \in 1 .. n : l[i] = t
    BY <1>1, PlaceFound
  <2> QED
    BY <2>1, Zenon DEF remove, RemoveFirst, RemoveAt, Place
<1>3. /\ m \in Seq(Service) /\ Len(m) = n - 1 /\ n \in Nat
      /\ \A i \in 1 .. n - 1 : m[i] = IF i < p THEN l[i] ELSE l[i + 1]
  <2> DEFINE a == SubSeq(l, 1, p - 1)
             b == SubSeq(l, p + 1, n)
  <2>1. n \in Nat /\ p - 1 \in 0 .. n /\ n - p \in 0 .. n
    BY <1>1
  <2>2. a \in Seq(Service) /\ Len(a) = p - 1 /\ \A i \in 1 .. p - 1 : a[i] = l[i]
    BY <1>1, <2>1
  <2>3. b \in Seq(Service) /\ Len(b) = n - p /\ \A i \in 1 .. n - p : b[i] = l[i + p]
    BY <1>1, <2>1
  <2> HIDE DEF a, b
  <2>4. /\ a \o b \in Seq(Service) /\ Len(a \o b) = n - 1
        /\ \A i \in 1 .. n - 1 : (a \o b)[i] = IF i < p THEN a[i] ELSE b[(i - p) + 1]
    <3>1. /\ a \o b \in Seq(Service) /\ Len(a \o b) = Len(a) + Len(b)
          /\ \A i \in 1 .. Len(a) + Len(b) :
               (a \o b)[i] = IF i <= Len(a) THEN a[i] ELSE b[i - Len(a)]
      BY <2>2, <2>3, ConcatIs, Zenon
    <3>2. Len(a) + Len(b) = n - 1 /\ p \in Int
      BY <1>1, <2>1, <2>2, <2>3
    <3>3. ASSUME NEW i \in 1 .. n - 1 PROVE (a \o b)[i] = IF i < p THEN a[i] ELSE b[(i - p) + 1]
      <4>1. (i <= Len(a)) = (i < p) /\ i - Len(a) = (i - p) + 1
        BY <2>2, <3>2
      <4> QED
        BY <3>1, <3>2, <4>1
    <3> QED
      BY <3>1, <3>2, <3>3
  <2>5. ASSUME NEW i \in 1 .. n - 1 PROVE (a \o b)[i] = IF i < p THEN l[i] ELSE l[i + 1]
    <3>1. CASE i < p
      <4>1. i \in 1 .. p - 1
        BY <1>1, <3>1
      <4> QED
        BY <2>2, <2>4, <3>1, <4>1
    <3>2. CASE ~(i < p)
      <4>1. (i - p) + 1 \in 1 .. n - p /\ ((i - p) + 1) + p = i + 1
        BY <1>1, <2>1, <3>2
      <4> QED
        BY <2>3, <2>4, <3>2, <4>1
    <3> QED
      BY <3>1, <3>2
  <2>6. m = a \o b
    BY <1>2 DEF a, b
  <2> HIDE DEF m
  <2> QED
    BY <2>1, <2>4, <2>5, <2>6
<1> HIDE DEF m, n
<1>4. Distinct(m)
  <2> SUFFICES ASSUME NEW i \in 1 .. n - 1, NEW j \in 1 .. n - 1, m[i] = m[j] PROVE i = j
    BY <1>3 DEF Distinct
  <2> DEFINE at(k) == IF k < p THEN k ELSE k + 1
  <2>1. \A k \in 1 .. n - 1 : at(k) \in 1 .. n /\ m[k] = l[at(k)]
    BY <1>1, <1>3
  <2>2. at(i) = at(j)
    <3> HIDE DEF at
    <3> QED
      BY <2>1 DEF Distinct, n
  <2> QED
    BY <1>1, <1>3, <2>2
<1>5. \A i \in 1 .. n : i < p => i \in 1 .. n - 1 /\ m[i] = l[i]
  BY <1>1, <1>3
<1>6. \A i \in 1 .. n : i > p => i - 1 \in 1 .. n - 1 /\ m[i - 1] = l[i]
  BY <1>1, <1>3
<1>7. \A i \in 1 .. n - 1 : m[i] # t
  BY <1>1, <1>3 DEF Distinct, n
<1>8. ToSet(m) = ToSet(l) \ {t}
  <2>1. ASSUME NEW u \in ToSet(m) PROVE u \in ToSet(l) \ {t}
    <3>1. PICK i \in 1 .. n - 1 : m[i] = u
      BY <1>3, <2>1, Members
    <3>2. \E j \in 1 .. n : l[j] = u
      BY <1>3, <3>1
    <3> QED
      BY <1>7, <3>1, <3>2, Members DEF n
  <2>2. ASSUME NEW u \in ToSet(l) \ {t} PROVE u \in ToSet(m)
    <3>1. PICK j \in 1 .. n : l[j] = u
      BY <2>2, Members DEF n
    <3>2. j < p \/ j > p
      BY <1>1, <2>2, <3>1
    <3>3. \E i \in 1 .. n - 1 : m[i] = u
      BY <1>5, <1>6, <3>1, <3>2
    <3> QED
      BY <1>3, <3>3, Members
  <2> QED
    BY <2>1, <2>2
<1>9. ASSUME NEW s \in ToSet(l) \cap ToSet(m) PROVE Behind(m, s) = Behind(l, s) \cap ToSet(m)
  <2>1. PICK a \in 1 .. n - 1 : m[a] = s
    BY <1>3, Members
  <2>2. PICK b \in 1 .. n : b = (IF a < p THEN a ELSE a + 1) /\ l[b] = s
    BY <1>3, <2>1
  <2>3. ASSUME NEW u PROVE u \in Behind(m, s) <=> u \in Behind(l, s) /\ u # t
    <3>1. u \in Behind(m, s) <=> \E i \in 1 .. n - 1 : a < i /\ m[i] = u
      <4>1. a \in 1 .. Len(m)
        BY <1>3
      <4>2. u \in Behind(m, m[a]) <=> \E i \in 1 .. Len(m) : a < i /\ m[i] = u
        BY <1>3, <1>4, <4>1, BehindIs, ZenonT(30)
      <4> QED
        BY <1>3, <2>1, <4>2
    <3>2. u \in Behind(l, s) <=> \E j \in 1 .. n : b < j /\ l[j] = u
      <4>1. u \in Behind(l, l[b]) <=> \E j \in 1 .. Len(l) : b < j /\ l[j] = u
        BY <2>2, BehindIs DEF n
      <4> QED
        BY <2>2, <4>1 DEF n
    <3>3. ASSUME NEW i \in 1 .. n - 1, a < i, m[i] = u
          PROVE  u # t /\ \E j \in 1 .. n : b < j /\ l[j] = u
      <4>1. CASE i < p
        BY <1>3, <1>7, <2>1, <2>2, <3>3, <4>1
      <4>2. CASE ~(i < p)
        <5>1. i + 1 \in 1 .. n /\ b < i + 1 /\ l[i + 1] = u
          BY <1>1, <1>3, <2>1, <2>2, <3>3, <4>2
        <5> QED
          BY <1>7, <3>3, <5>1
      <4> QED
        BY <4>1, <4>2
    <3>4. ASSUME NEW j \in 1 .. n, b < j, l[j] = u, u # t
          PROVE  \E i \in 1 .. n - 1 : a < i /\ m[i] = u
      <4>1. CASE j < p
        BY <1>1, <1>5, <2>1, <2>2, <3>4, <4>1
      <4>2. CASE j > p
        <5>1. j - 1 \in 1 .. n - 1 /\ m[j - 1] = u
          BY <1>6, <3>4, <4>2
        <5>2. a < j - 1
          BY <1>1, <2>1, <2>2, <3>4, <4>2
        <5> QED
          BY <5>1, <5>2
      <4> QED
        BY <1>1, <3>4, <4>1, <4>2
    <3> QED
      BY <3>1, <3>2, <3>3, <3>4
  <2>4. Behind(l, s) \subseteq ToSet(l)
    BY DEF Behind
  <2> QED
    BY <1>8, <2>3, <2>4
<1> QED
  BY <1>3, <1>4, <1>8, <1>9 DEF Leaves, m

LEMMA AddLeaves ==
    ASSUME NEW l \in Seq(Service), Distinct(l), NEW u \in Service \ ToSet(l)
    PROVE  Leaves(l, add(l, u)) /\ ToSet(add(l, u)) = ToSet(l) \cup {u}
<1> DEFINE m == add(l, u)
           n == Len(l)
<1>1. /\ m \in Seq(Service) /\ Len(m) = n + 1 /\ n \in Nat /\ m[1] = u
      /\ \A i \in 1 .. n : m[i + 1] = l[i]
  BY DEF add
<1> HIDE DEF m, n
<1>2. \A i \in 1 .. n + 1 : i # 1 => i - 1 \in 1 .. n /\ m[i] = l[i - 1]
  <2> SUFFICES ASSUME NEW i \in 1 .. n + 1, i # 1 PROVE i - 1 \in 1 .. n /\ m[i] = l[i - 1]
    OBVIOUS
  <2>1. i - 1 \in 1 .. n /\ (i - 1) + 1 = i
    BY <1>1
  <2> QED
    BY <1>1, <2>1
<1>3. \A i \in 1 .. n : l[i] # u
  BY Members DEF n
<1>4. Distinct(m)
  <2> SUFFICES ASSUME NEW i \in 1 .. n + 1, NEW j \in 1 .. n + 1, m[i] = m[j] PROVE i = j
    BY <1>1 DEF Distinct
  <2>1. i # 1 /\ j # 1 => i - 1 = j - 1
    BY <1>2 DEF Distinct, n
  <2> QED
    BY <1>1, <1>2, <1>3, <2>1
<1>5. ToSet(m) = ToSet(l) \cup {u}
  <2>1. ASSUME NEW t \in ToSet(m) PROVE t \in ToSet(l) \cup {u}
    <3>1. PICK i \in 1 .. n + 1 : m[i] = t
      BY <1>1, <2>1, Members
    <3> QED
      BY <1>1, <1>2, <3>1, Members DEF n
  <2>2. ASSUME NEW t \in ToSet(l) \cup {u} PROVE t \in ToSet(m)
    <3>1. \E i \in 1 .. n + 1 : m[i] = t
      <4>1. CASE t = u
        BY <1>1, <4>1
      <4>2. CASE t \in ToSet(l)
        <5>1. PICK i \in 1 .. n : l[i] = t
          BY <4>2, Members DEF n
        <5>2. i + 1 \in 1 .. n + 1 /\ m[i + 1] = t
          BY <1>1, <5>1
        <5> QED
          BY <5>2
      <4> QED
        BY <2>2, <4>1, <4>2
    <3>2. \E i \in 1 .. Len(m) : m[i] = t
      BY <1>1, <3>1
    <3> QED
      BY <1>1, <3>2 DEF ToSet
  <2> QED
    BY <2>1, <2>2
<1>6. ASSUME NEW s \in ToSet(l) \cap ToSet(m) PROVE Behind(m, s) = Behind(l, s) \cap ToSet(m)
  <2>1. PICK b \in 1 .. n : l[b] = s
    BY Members DEF n
  <2>2. b + 1 \in 1 .. n + 1 /\ m[b + 1] = s
    BY <1>1, <2>1
  <2>3. ASSUME NEW t PROVE t \in Behind(m, s) <=> t \in Behind(l, s)
    <3>1. t \in Behind(m, s) <=> \E i \in 1 .. n + 1 : b + 1 < i /\ m[i] = t
      <4>1. b + 1 \in 1 .. Len(m)
        BY <1>1, <2>2
      <4>2. t \in Behind(m, m[b + 1]) <=> \E i \in 1 .. Len(m) : b + 1 < i /\ m[i] = t
        BY <1>1, <1>4, <4>1, BehindIs, ZenonT(30)
      <4> QED
        BY <1>1, <2>2, <4>2
    <3>2. t \in Behind(l, s) <=> \E j \in 1 .. n : b < j /\ l[j] = t
      <4>1. t \in Behind(l, l[b]) <=> \E j \in 1 .. Len(l) : b < j /\ l[j] = t
        BY <2>1, BehindIs DEF n
      <4> QED
        BY <2>1, <4>1 DEF n
    <3>3. ASSUME NEW i \in 1 .. n + 1, b + 1 < i, m[i] = t
          PROVE  \E j \in 1 .. n : b < j /\ l[j] = t
      <4>1. i # 1 /\ b < i - 1
        BY <2>1, <3>3
      <4> QED
        BY <1>2, <3>3, <4>1
    <3>4. ASSUME NEW j \in 1 .. n, b < j, l[j] = t
          PROVE  \E i \in 1 .. n + 1 : b + 1 < i /\ m[i] = t
      <4>1. j + 1 \in 1 .. n + 1 /\ b + 1 < j + 1 /\ m[j + 1] = t
        BY <1>1, <2>1, <3>4
      <4> QED
        BY <4>1
    <3> QED
      BY <3>1, <3>2, <3>3, <3>4
  <2>4. Behind(l, s) \subseteq ToSet(l)
    BY DEF Behind
  <2> QED
    BY <1>5, <2>3, <2>4
<1> QED
  BY <1>1, <1>4, <1>5, <1>6 DEF Leaves, m

LEMMA CallLeaves ==
    ASSUME activeServices \in Seq(Service), Distinct(activeServices),
           NEW s \in Alive, NEW m \in ListsAfter(s)
    PROVE  Leaves(activeServices, m) /\ s \in ToSet(m)
<1> DEFINE l == activeServices
           destroyed == {l} \cup {remove(l, t) : t \in Alive \ ({s} \cup ToSet(Fixed))}
<1>1. Alive = ToSet(l)
  BY DEF Alive
<1>2. ASSUME NEW d \in destroyed
      PROVE  Leaves(l, d) /\ s \in ToSet(d) /\ ToSet(d) \subseteq ToSet(l)
  <2>1. CASE d = l
    <3>1. \A t : Behind(l, t) \subseteq ToSet(l)
      BY DEF Behind
    <3> QED
      BY <1>1, <2>1, <3>1 DEF Leaves
  <2>2. ASSUME NEW t \in Alive \ ({s} \cup ToSet(Fixed)), d = remove(l, t)
        PROVE  Leaves(l, d) /\ s \in ToSet(d) /\ ToSet(d) \subseteq ToSet(l)
    <3>1. Leaves(l, d) /\ ToSet(d) = ToSet(l) \ {t}
      BY <1>1, <2>2, RemoveLeaves
    <3> QED
      BY <1>1, <3>1
  <2> QED
    BY <2>1, <2>2
<1>3. ASSUME NEW d \in destroyed, NEW u \in Service \ Alive, m = add(d, u)
      PROVE  Leaves(l, m) /\ s \in ToSet(m)
  <2>1. Leaves(l, d) /\ s \in ToSet(d) /\ ToSet(d) \subseteq ToSet(l)
    BY <1>2
  <2>2. u \notin ToSet(d) /\ d \in Seq(Service) /\ Distinct(d)
    BY <1>1, <1>3, <2>1 DEF Leaves
  <2>3. Leaves(d, m) /\ ToSet(m) = ToSet(d) \cup {u}
    BY <1>3, <2>2, AddLeaves
  <2>4. ASSUME NEW t \in ToSet(l) \cap ToSet(m) PROVE Behind(m, t) = Behind(l, t) \cap ToSet(m)
    <3>1. t \in ToSet(d)
      BY <1>1, <1>3, <2>3, <2>4
    <3>2. Behind(d, t) = Behind(l, t) \cap ToSet(d) /\ Behind(m, t) = Behind(d, t) \cap ToSet(m)
      BY <2>1, <2>3, <2>4, <3>1 DEF Leaves
    <3>3. Behind(l, t) \subseteq ToSet(l)
      BY DEF Behind
    <3> QED
      BY <1>1, <1>3, <2>3, <3>2, <3>3
  <2> QED
    BY <2>1, <2>3, <2>4 DEF Leaves
<1>4. m \in destroyed \/ \E d \in destroyed : \E u \in Service \ Alive : m = add(d, u)
  BY DEF ListsAfter
<1> HIDE DEF destroyed
<1> QED
  BY <1>2, <1>3, <1>4

-----------------------------------------------------------------------------
(* Walks *)

\* The invariant behind CalledOnce.
Walking ==
    /\ activeServices \in Seq(Service) /\ Distinct(activeServices)
    /\ walk = "none" => service = Null
    /\ CalledOnce

LEMMA WalkBegins ==
    ASSUME Walking, NEW purpose, purpose # "none", walkBegins(purpose), UNCHANGED activeServices
    PROVE  Walking'
<1> DEFINE l == activeServices
<1>1. /\ service' = First(l) /\ called' = {} /\ awake' = Alive /\ walk' # "none"
      /\ Alive' = Alive /\ Alive = ToSet(l)
  BY DEF walkBegins, Alive
<1>2. l \in Seq(Service) /\ Distinct(l) /\ l' = l
  BY DEF Walking
<1>3. Onward(l, First(l)) = Alive /\ First(l) \in Alive \cup {Null}
  <2>1. CASE l = <<>>
    <3>1. Alive = {}
      BY <1>1, <2>1 DEF ToSet
    <3>2. First(l) = Null
      BY <2>1 DEF First
    <3> QED
      BY <1>2, <3>1, <3>2, OnwardIs
  <2>2. CASE l # <<>>
    <3>1. 1 \in 1 .. Len(l) /\ First(l) = l[1]
      BY <1>2, <2>2 DEF First
    <3>2. l[1] \in Alive
      BY <1>1, <1>2, <3>1, Members
    <3>3. \A t : t \in Alive <=> t = l[1] \/ t \in Behind(l, l[1])
      <4> SUFFICES ASSUME NEW t PROVE t \in Alive <=> t = l[1] \/ t \in Behind(l, l[1])
        OBVIOUS
      <4>1. t \in Behind(l, l[1]) <=> \E j \in 1 .. Len(l) : 1 < j /\ l[j] = t
        BY <1>2, <3>1, BehindIs
      <4>2. t \in Alive <=> \E j \in 1 .. Len(l) : l[j] = t
        BY <1>1, <1>2, Members
      <4>3. \A j \in 1 .. Len(l) : j = 1 \/ 1 < j
        OBVIOUS
      <4> QED
        BY <3>1, <4>1, <4>2, <4>3
    <3>4. Onward(l, l[1]) = {l[1]} \cup Behind(l, l[1])
      BY <1>1, <1>2, <3>2, OnwardIs
    <3> QED
      BY <3>1, <3>2, <3>3, <3>4
  <2> QED
    BY <2>1, <2>2
<1>4. FromOn(service)' = Onward(l', service')
  BY Zenon DEF FromOn, Onward, Place, SelectInSeq
<1>5. FromOn(service)' = awake' \ called'
  BY <1>1, <1>2, <1>3, <1>4
<1> HIDE DEF l
<1> QED
  BY <1>1, <1>2, <1>3, <1>5 DEF Walking, CalledOnce, l

LEMMA WalkGoesOn ==
    ASSUME Walking, walk # "none", service # Null, NEW m, Leaves(activeServices, m),
           service \in ToSet(m), walkOn(m)
    PROVE  Walking'
<1> DEFINE l == activeServices
           next == NextItem(m, service)
<1>1. /\ l' = m /\ service' = next /\ walk' = walk
      /\ called' = called \cup {service} /\ awake' = awake \cap ToSet(m)
      /\ Alive' = ToSet(m)
  BY DEF walkOn, Alive
<1>2. /\ l \in Seq(Service) /\ Distinct(l) /\ service \in ToSet(l)
      /\ FromOn(service) = awake \ called
  BY DEF Walking, CalledOnce, Alive
<1>3. /\ m \in Seq(Service) /\ Distinct(m)
      /\ Behind(m, service) = Behind(l, service) \cap ToSet(m)
  BY <1>2 DEF Leaves
<1>4. FromOn(service) = {service} \cup Behind(l, service)
  <2>1. FromOn(service) = Onward(l, service)
    BY Zenon DEF FromOn, Onward, Place
  <2> QED
    BY <1>2, <2>1, OnwardIs
<1>5. service \notin Behind(l, service)
  BY DEF Behind, Walking, Distinct
<1>6. awake' \ called' = Behind(m, service)
  BY <1>1, <1>2, <1>3, <1>4, <1>5
<1>7. /\ next \in ToSet(m) \cup {Null}
      /\ Behind(m, service) = IF next = Null THEN {} ELSE {next} \cup Behind(m, next)
  BY <1>3, BehindNext
<1>8. FromOn(service)' = Onward(m, next)
  <2>1. FromOn(service)' = Onward(l', service')
    BY Zenon DEF FromOn, Onward, Place, SelectInSeq
  <2> QED
    BY <1>1, <2>1
<1> HIDE DEF l, next
<1>9. Onward(m, next) = Behind(m, service)
  BY <1>3, <1>7, OnwardIs
<1> QED
  BY <1>1, <1>3, <1>6, <1>7, <1>8, <1>9 DEF Walking, CalledOnce, l

LEMMA WalkEnds ==
    ASSUME walkEnds, activeServices' \in Seq(Service), Distinct(activeServices')
    PROVE  Walking'
  BY DEF walkEnds, Walking, CalledOnce

(* A service that is called leaves the list in order for the next one.     *)
LEMMA CalledLeaves ==
    ASSUME Walking, service # Null
    PROVE  /\ service \in Alive
           /\ Leaves(activeServices, activeServices) /\ service \in ToSet(activeServices)
           /\ \A m \in ListsAfter(service) : Leaves(activeServices, m) /\ service \in ToSet(m)
<1>1. service \in Alive /\ activeServices \in Seq(Service) /\ Distinct(activeServices)
  BY DEF Walking, CalledOnce
<1>2. activeServices \in ListsAfter(service)
  BY DEF ListsAfter
<1> QED
  BY <1>1, <1>2, CallLeaves

LEMMA WalkInit == Init => Walking
<1>1. Distinct(Fixed) /\ Fixed \in Seq(Service)
  BY NetworkServiceAssumption DEF IsInjective, Distinct
<1> QED
  BY <1>1 DEF Init, LoopInit, Walking, CalledOnce

LEMMA WalkStep == Walking /\ [Next]_vars => Walking'
<1> SUFFICES ASSUME Walking, [Next]_vars PROVE Walking'
  OBVIOUS
<1>1. activeServices \in Seq(Service) /\ Distinct(activeServices)
  BY DEF Walking
<1>2. CASE UNCHANGED <<activeServices, walkVars>>
  <2>1. FromOn(service)' = FromOn(service)
    BY <1>2, Zenon DEF walkVars, FromOn, SelectInSeq
  <2> QED
    BY <1>2, <2>1 DEF walkVars, Walking, CalledOnce, Alive
<1>3. CASE walkEnds /\ activeServices' \in {activeServices, Fixed}
  <2>1. Distinct(Fixed) /\ Fixed \in Seq(Service)
    BY NetworkServiceAssumption DEF IsInjective, Distinct
  <2> QED
    BY <1>1, <1>3, <2>1, WalkEnds
<1>4. CASE walkEnds /\ service # Null /\ activeServices' \in ListsAfter(service)
  BY <1>4, CalledLeaves, WalkEnds DEF Leaves
<1>5. ASSUME NEW purpose \in {"packet", "resolve", "tick"},
             walkBegins(purpose), UNCHANGED activeServices
      PROVE  Walking'
  BY <1>5, WalkBegins
<1>6. CASE walk # "none" /\ service # Null
           /\ \E m \in ListsAfter(service) \cup {activeServices} : walkOn(m)
  BY <1>6, CalledLeaves, WalkGoesOn
<1>7. \/ UNCHANGED <<activeServices, walkVars>>
      \/ walkEnds /\ activeServices' \in {activeServices, Fixed}
      \/ walkEnds /\ service # Null /\ activeServices' \in ListsAfter(service)
      \/ \E purpose \in {"packet", "resolve", "tick"} :
            walkBegins(purpose) /\ UNCHANGED activeServices
      \/ /\ walk # "none" /\ service # Null
         /\ \E m \in ListsAfter(service) \cup {activeServices} : walkOn(m)
  <2>1. CASE otherSteps
    BY <2>1 DEF otherSteps, nothingToHandle, loadSample, dropPacket, processIncomingPacket,
           declinePacket, takePacket, notifyOnDNSResolve, nobodysPacket, ticksDue, loopReturns,
           call, allTicked, allNotified
  <2>2. CASE answerEcho \/ pingerTicks \/ dropReply \/ reportReply
    <3>1. Null \notin {ICMPPingAutoReply, ICMPPinger}
      BY NetworkServiceAssumption, ICMPAssumption, Members
    <3> QED
      BY <2>2, <3>1 DEF answerEcho, pingerTicks, dropReply, reportReply
  <2>3. CASE targetAnswers \/ \E f \in Frame : arrive(f)
    BY <2>3 DEF targetAnswers, arrive, loopVars
  <2>4. CASE restart
    BY <2>4 DEF restart
  <2>5. CASE UNCHANGED vars
    BY <2>5 DEF vars, loopVars
  <2> QED
    BY <2>1, <2>2, <2>3, <2>4, <2>5 DEF Next, loop
<1> QED
  BY <1>2, <1>3, <1>4, <1>5, <1>6, <1>7

(* A walk calls every service that lives through it once, in the order of  *)
(* the list, and none that is destroyed before its turn: whatever the      *)
(* calls construct and destroy.                                            *)
THEOREM EachCalledOnce == Spec => []CalledOnce
<1>1. Walking => CalledOnce
  BY DEF Walking
<1> QED
  BY <1>1, WalkInit, WalkStep, PTL DEF Spec

-----------------------------------------------------------------------------
(* Echoes *)

\* A frame that has its headers, and at least the data that they say it has.
Whole(f) ==
    /\ f.data \in Seq(ToSet(f.data))
    /\ \E to, from, owner : \E length \in Nat :
            f.data[1] = Headers(to, from, owner, length) /\ length < Len(f.data)

\* The network delivers no packet that ends before its data do.
WholeFrames == \A f \in Frame : f.ok => Whole(f)

\* The answer of the host that is pinged.
EchoReply ==
    [data |-> <<Headers(Local, Target, ICMPPinger, PingLength)>> \o [i \in 1 .. PingLength |-> Mark],
     ok   |-> TRUE]

Arriving == Frame \cup {EchoReply}

Beginning(data) == SubSeq(data, 1, IF Len(data) < BufferSize THEN Len(data) ELSE BufferSize)

\* What the buffer holds, and may yet hold, is the beginning of f.
Holds(loaded, left, f) ==
    /\ Whole(f)
    /\ loaded \in Seq(ToSet(f.data)) /\ left \in Seq(ToSet(f.data))
    /\ loaded # <<>>
    /\ loaded \o left = Beginning(f.data)

\* The invariant behind EchoIntact.
InHand ==
    /\ queue \in Seq(Arriving)
    /\ walk \in {"packet", "resolve"} => turn = "packet"
    /\ turn = "packet" => \E f \in Arriving : Holds(packet, rest, f)
    /\ EchoIntact

LEMMA ReplyIsWhole == Whole(EchoReply)
<1> DEFINE h == Headers(Local, Target, ICMPPinger, PingLength)
           marks == [i \in 1 .. PingLength |-> Mark]
           S == {h, Mark}
<1>1. PingLength \in Nat
  BY ICMPAssumption
<1>2. marks \in Seq(S) /\ Len(marks) = PingLength /\ <<h>> \in Seq(S)
  BY <1>1
<1> HIDE DEF marks, h
<1>3. EchoReply.data = <<h>> \o marks
  BY DEF EchoReply, h, marks
<1> DEFINE d == EchoReply.data
<1>4. d \in Seq(S) /\ Len(d) = 1 + PingLength /\ d[1] = h
  BY <1>1, <1>2, <1>3
<1> HIDE DEF d
<1>5. d \in Seq(ToSet(d))
  BY <1>4 DEF ToSet
<1>6. PingLength < Len(d)
  BY <1>1, <1>4
<1> QED
  BY <1>1, <1>4, <1>5, <1>6 DEF Whole, d, h

LEMMA BeginningIs ==
    ASSUME NEW f, Whole(f)
    PROVE  /\ Beginning(f.data) \in Seq(ToSet(f.data))
           /\ Len(Beginning(f.data)) = IF Len(f.data) < BufferSize THEN Len(f.data) ELSE BufferSize
           /\ \A i \in 1 .. Len(Beginning(f.data)) : Beginning(f.data)[i] = f.data[i]
           /\ Len(Beginning(f.data)) \in Nat \ {0}
<1>1. f.data \in Seq(ToSet(f.data)) /\ Len(f.data) \in Nat \ {0}
  BY DEF Whole
<1>2. BufferSize \in Nat \ {0}
  BY NetworkServiceAssumption
<1>3. PICK n \in 1 .. Len(f.data) : n = IF Len(f.data) < BufferSize THEN Len(f.data) ELSE BufferSize
  BY <1>1, <1>2
<1>4. Beginning(f.data) = SubSeq(f.data, 1, n)
  BY <1>3 DEF Beginning
<1> QED
  BY <1>1, <1>3, <1>4

(* loadSample.                                                             *)
LEMMA TakeHolds ==
    ASSUME WholeFrames, InHand, Queue!Take, Head(queue).ok
    PROVE  queue' \in Seq(Arriving) /\ \E f \in Arriving : Holds(packet', rest', f)
<1> DEFINE f == Head(queue)
           b == Beginning(f.data)
           n == IF Len(b) < SampleSize THEN Len(b) ELSE SampleSize
<1>1. f \in Arriving /\ queue' = Tail(queue) /\ queue \in Seq(Arriving) /\ queue # <<>>
  BY DEF InHand, Queue!Take
<1>2. Whole(f)
  BY <1>1, ReplyIsWhole DEF WholeFrames, Arriving
<1>3. packet' = SubSeq(b, 1, n) /\ rest' = SubSeq(b, SampleSize + 1, Len(b))
  BY DEF Queue!Take, Queue!FirstOf, Beginning
<1>4. b \in Seq(ToSet(f.data)) /\ Len(b) \in Nat \ {0}
  BY <1>2, BeginningIs
<1>5. SampleSize \in Nat \ {0}
  BY NetworkServiceAssumption
<1>6. queue' \in Seq(Arriving)
  BY <1>1
<1> HIDE DEF b, f
<1> DEFINE S == ToSet(f.data)
<1>7. \A c \in Seq(S) : Len(c) \in Nat \ {0} =>
          LET m == IF Len(c) < SampleSize THEN Len(c) ELSE SampleSize
          IN  /\ SubSeq(c, 1, m) \in Seq(S) /\ SubSeq(c, SampleSize + 1, Len(c)) \in Seq(S)
              /\ SubSeq(c, 1, m) # <<>>
              /\ SubSeq(c, 1, m) \o SubSeq(c, SampleSize + 1, Len(c)) = c
  <2> HIDE DEF S
  <2> SUFFICES ASSUME NEW c \in Seq(S), Len(c) \in Nat \ {0},
                      NEW m, m = IF Len(c) < SampleSize THEN Len(c) ELSE SampleSize
               PROVE  /\ SubSeq(c, 1, m) \in Seq(S) /\ SubSeq(c, SampleSize + 1, Len(c)) \in Seq(S)
                      /\ SubSeq(c, 1, m) # <<>>
                      /\ SubSeq(c, 1, m) \o SubSeq(c, SampleSize + 1, Len(c)) = c
    BY Zenon
  <2> DEFINE p == SubSeq(c, 1, m)
             q == SubSeq(c, SampleSize + 1, Len(c))
  <2>1. p \in Seq(S) /\ Len(p) = m /\ \A i \in 1 .. m : p[i] = c[i]
    BY <1>5
  <2>2. m \in 1 .. Len(c) /\ Len(c) - m \in Nat
    BY <1>5
  <2>3. q \in Seq(S) /\ Len(q) = Len(c) - m /\ \A i \in 1 .. Len(c) - m : q[i] = c[i + m]
    <3>1. CASE Len(c) < SampleSize
      BY <1>5, <3>1
    <3>2. CASE ~(Len(c) < SampleSize)
      BY <1>5, <3>2
    <3> QED
      BY <3>1, <3>2
  <2> HIDE DEF p, q
  <2>4. /\ p \o q \in Seq(S) /\ Len(p \o q) = Len(c)
        /\ \A i \in 1 .. Len(c) : (p \o q)[i] = IF i <= m THEN p[i] ELSE q[i - m]
    BY <2>1, <2>2, <2>3
  <2>5. ASSUME NEW i \in 1 .. Len(c) PROVE (p \o q)[i] = c[i]
    <3>1. CASE i <= m
      BY <2>1, <2>2, <2>4, <3>1
    <3>2. CASE ~(i <= m)
      <4>1. i - m \in 1 .. Len(c) - m /\ (i - m) + m = i
        BY <2>2, <3>2
      <4> QED
        BY <2>3, <2>4, <3>2, <4>1
    <3> QED
      BY <3>1, <3>2
  <2>6. p \o q = c
    <3>1. \A x, y \in Seq(S) : Len(x) = Len(y) /\ (\A i \in 1 .. Len(y) : x[i] = y[i]) => x = y
      OBVIOUS
    <3> QED
      BY <2>4, <2>5, <3>1
  <2>7. p # <<>>
    BY <2>1, <2>2
  <2> QED
    BY <2>1, <2>3, <2>6, <2>7 DEF p, q
<1>8. Holds(packet', rest', f)
  <2>1. LET m == n IN
          /\ SubSeq(b, 1, m) \in Seq(S) /\ SubSeq(b, SampleSize + 1, Len(b)) \in Seq(S)
          /\ SubSeq(b, 1, m) # <<>>
          /\ SubSeq(b, 1, m) \o SubSeq(b, SampleSize + 1, Len(b)) = b
    BY <1>4, <1>7, Zenon
  <2> QED
    BY <1>2, <1>3, <2>1, Zenon DEF Holds, b
<1> QED
  BY <1>1, <1>6, <1>8 DEF f

(* The headers of a reply: the sender is answered.                         *)
LEMMA TurnedRound ==
    ASSUME NEW to, NEW from, NEW owner, NEW length, NEW h, h = Headers(to, from, owner, length)
    PROVE  prepareIPPacket(h) = Headers(from, Local, owner, length) /\ h.from = from
<1>1. h = [owner |-> owner, to |-> to, from |-> from, length |-> length]
  BY DEF Headers
<1>2. h.from = from
  BY <1>1
<1> DEFINE g == [h EXCEPT !.to = from]
<1>3. g = [owner |-> owner, to |-> from, from |-> from, length |-> length]
  BY <1>1
<1>4. [h EXCEPT !.to = from, !.from = Local] = [g EXCEPT !.from = Local]
  OBVIOUS
<1> HIDE DEF g
<1>5. [g EXCEPT !.from = Local] = [owner |-> owner, to |-> from, from |-> Local, length |-> length]
  BY <1>3
<1> QED
  BY <1>2, <1>4, <1>5 DEF prepareIPPacket, Headers

(* loadAll.                                                                *)
LEMMA LoadAllHolds ==
    ASSUME NEW loaded, NEW left, NEW f, Holds(loaded, left, f)
    PROVE  Holds(loaded \o left, <<>>, f)
<1>1. /\ loaded \in Seq(ToSet(f.data)) /\ left \in Seq(ToSet(f.data)) /\ loaded # <<>>
      /\ Whole(f) /\ loaded \o left = Beginning(f.data)
  BY DEF Holds
<1> DEFINE S == ToSet(f.data)
<1>2. \A x, y \in Seq(S) : x # <<>> =>
        x \o y \in Seq(S) /\ <<>> \in Seq(S) /\ x \o y # <<>> /\ (x \o y) \o <<>> = x \o y
  <2> HIDE DEF S
  <2> SUFFICES ASSUME NEW x \in Seq(S), NEW y \in Seq(S), x # <<>>
               PROVE  x \o y \in Seq(S) /\ <<>> \in Seq(S) /\ x \o y # <<>> /\ (x \o y) \o <<>> = x \o y
    OBVIOUS
  <2>1. x \o y \in Seq(S) /\ <<>> \in Seq(S) /\ Len(x \o y) = Len(x) + Len(y) /\ Len(x) # 0
        /\ Len(x) \in Nat /\ Len(y) \in Nat
    OBVIOUS
  <2>2. x \o y # <<>>
    BY <2>1
  <2> QED
    BY <2>1, <2>2
<1> QED
  BY <1>1, <1>2, Zenon DEF Holds

(* The answer to a request that fits.                                      *)
LEMMA AnswerFits ==
    ASSUME NEW f, Holds(packet, rest, f),
           packet[1].owner = ICMPPingAutoReply, NEW length, length = packet[1].length,
           1 + length <= BufferSize, 1 + length < ByteMod
    PROVE  /\ Loaded[1] = packet[1] /\ length \in Nat
           /\ Reply[1] = Headers(packet[1].from, Local, ICMPPingAutoReply, length)
           /\ Tail(Reply) = SubSeq(Tail(Loaded), 1, length)
<1> DEFINE S == ToSet(f.data)
           b == Loaded
           h == packet[1]
<1>1. /\ packet \in Seq(S) /\ rest \in Seq(S) /\ packet # <<>>
      /\ Whole(f) /\ b = Beginning(f.data)
  BY DEF Holds, Loaded
<1>2. /\ b \in Seq(S) /\ Len(b) \in Nat \ {0} /\ b[1] = f.data[1]
      /\ Len(b) = IF Len(f.data) < BufferSize THEN Len(f.data) ELSE BufferSize
  <2> HIDE DEF b
  <2>1. /\ b \in Seq(S) /\ Len(b) \in Nat \ {0} /\ \A i \in 1 .. Len(b) : b[i] = f.data[i]
        /\ Len(b) = IF Len(f.data) < BufferSize THEN Len(f.data) ELSE BufferSize
    BY <1>1, BeginningIs, Zenon
  <2>2. 1 \in 1 .. Len(b)
    BY <2>1
  <2> QED
    BY <2>1, <2>2, Zenon
<1>3. b[1] = h
  <2> HIDE DEF S
  <2>1. Len(packet) \in Nat \ {0} /\ Len(rest) \in Nat
    BY <1>1
  <2> QED
    BY <1>1, <2>1 DEF Loaded
<1>4. PICK to, from, owner : \E n \in Nat : h = Headers(to, from, owner, n) /\ n < Len(f.data)
  BY <1>1, <1>2, <1>3 DEF Whole
<1>5. h = Headers(to, from, owner, length) /\ length \in Nat /\ length < Len(f.data)
  BY <1>4 DEF Headers
<1>6. BufferSize \in Nat /\ ByteMod \in Nat /\ Len(f.data) \in Nat
  BY <1>1, NetworkServiceAssumption, ICMPAssumption DEF Whole
<1>7. 1 + length <= Len(b)
  BY <1>2, <1>5, <1>6
<1>8. Copied(h) = 1 + length
  <2>1. Copied(h) = (1 + length) % ByteMod
    BY DEF Copied
  <2>2. (1 + length) \in 0 .. ByteMod - 1
    BY <1>5, <1>6
  <2> QED
    BY <1>6, <2>1, <2>2
<1>9. prepareIPPacket(h) = Headers(from, Local, ICMPPingAutoReply, length) /\ h.from = from
  <2>1. owner = ICMPPingAutoReply
    BY <1>5 DEF Headers
  <2>2. h = Headers(to, from, ICMPPingAutoReply, length)
    BY <1>5, <2>1
  <2> QED
    BY <2>2, TurnedRound
<1> DEFINE x == prepareIPPacket(h)
           g == [i \in 1 .. length |-> b[i + 1]]
<1>10. Reply = <<x>> \o g
  <2>1. Reply = <<x>> \o [i \in 1 .. length |-> IF i < Copied(h) /\ i < Len(b) THEN b[i + 1] ELSE Garbage]
    BY DEF Reply
  <2> HIDE DEF b, h
  <2>2. \A i \in 1 .. length : i < Copied(h) /\ i < Len(b)
    BY <1>2, <1>5, <1>7, <1>8
  <2>3. [i \in 1 .. length |-> IF i < Copied(h) /\ i < Len(b) THEN b[i + 1] ELSE Garbage] = g
    BY <2>2
  <2> QED
    BY <2>1, <2>3
<1> HIDE DEF x, b, h, S
<1>11. g \in Seq(S) /\ Len(g) = length /\ \A i \in 1 .. length : g[i] = b[i + 1]
  <2>1. \A i \in 1 .. length : b[i + 1] \in S
    BY <1>2, <1>5, <1>7
  <2> QED
    BY <1>5, <2>1
<1> HIDE DEF g
<1>12. (<<x>> \o g)[1] = x /\ Tail(<<x>> \o g) = g
  <2>1. g \in Seq(S \cup {x}) /\ <<x>> \in Seq(S \cup {x})
    BY <1>11
  <2> QED
    BY <1>5, <1>11, <2>1
<1>13. SubSeq(Tail(b), 1, length) = g
  <2>1. Tail(b) \in Seq(S) /\ Len(Tail(b)) = Len(b) - 1 /\ \A i \in 1 .. Len(b) - 1 : Tail(b)[i] = b[i + 1]
    <3>1. b # <<>>
      BY <1>2
    <3> QED
      BY <1>2, <3>1
  <2> DEFINE t == Tail(b)
  <2> HIDE DEF t
  <2>2. length <= Len(b) - 1 /\ Len(b) - 1 \in Nat
    BY <1>2, <1>5, <1>7
  <2>3. /\ SubSeq(t, 1, length) \in Seq(S) /\ Len(SubSeq(t, 1, length)) = length
        /\ \A i \in 1 .. length : SubSeq(t, 1, length)[i] = t[i]
    BY <1>5, <2>1, <2>2 DEF t
  <2>4. \A i \in 1 .. length : SubSeq(t, 1, length)[i] = g[i]
    <3> SUFFICES ASSUME NEW i \in 1 .. length PROVE t[i] = b[i + 1]
      BY <1>11, <2>3
    <3>1. i \in 1 .. Len(b) - 1
      BY <1>5, <2>2
    <3> QED
      BY <2>1, <3>1 DEF t
  <2>5. \A y, z \in Seq(S) : Len(y) = Len(z) /\ (\A i \in 1 .. Len(z) : y[i] = z[i]) => y = z
    OBVIOUS
  <2> QED
    BY <1>11, <2>3, <2>4, <2>5 DEF t
<1> QED
  BY <1>3, <1>5, <1>9, <1>10, <1>12, <1>13 DEF b, h, x

LEMMA EchoInit == Init => InHand
<1>1. <<>> \in Seq(Arriving)
  OBVIOUS
<1> QED
  BY <1>1 DEF Init, LoopInit, Queue!Init, InHand, EchoIntact

\* What is in hand is left alone, and no walk over the packet begins without one.
Undisturbed ==
    /\ UNCHANGED <<packet, rest, turn>>
    /\ walk' \in {"packet", "resolve"} => turn = "packet"

\* Nothing is in hand, or no longer.
PutAway == turn' # "packet" /\ walk' \notin {"packet", "resolve"}

LEMMA EchoStep ==
    ASSUME WholeFrames
    PROVE  InHand /\ [Next]_vars => InHand'
<1> SUFFICES ASSUME InHand, [Next]_vars PROVE InHand'
  OBVIOUS
<1>1. CASE queue' \in Seq(Arriving) /\ echoed' = echoed /\ Undisturbed
  BY <1>1 DEF InHand, EchoIntact, Undisturbed
<1>2. CASE queue' \in Seq(Arriving) /\ echoed' = echoed /\ PutAway
  BY <1>2 DEF InHand, EchoIntact, PutAway
<1>3. ASSUME NEW f \in Arriving, arrive(f), echoed' = echoed
      PROVE  InHand'
  <2>1. queue' \in Seq(Arriving) /\ Undisturbed
    BY <1>3 DEF arrive, Queue!Arrive, Undisturbed, walkVars, InHand
  <2> QED
    BY <1>1, <1>3, <2>1
<1>4. CASE otherSteps
  <2>1. echoed' = echoed
    BY <1>4 DEF otherSteps, icmpVars
  <2>2. CASE nothingToHandle
    <3>1. turn = "look" /\ turn' = "timer" /\ walk' = walk
      BY <2>2 DEF nothingToHandle, walkVars
    <3>2. queue' \in Seq(Arriving)
      BY <2>2 DEF nothingToHandle, Queue!Take, queueVars, InHand
    <3> QED
      BY <1>2, <2>1, <3>1, <3>2 DEF PutAway, InHand
  <2>3. CASE loadSample
    <3>1. queue' \in Seq(Arriving) /\ \E f \in Arriving : Holds(packet', rest', f)
      BY <2>3, TakeHolds DEF loadSample
    <3> QED
      BY <2>1, <2>3, <3>1 DEF loadSample, InHand, EchoIntact
  <2>4. CASE notifyOnDNSResolve
    <3>1. turn = "packet" /\ turn' = "packet" /\ queue' = queue /\ packet' = packet \o rest /\ rest' = <<>>
      BY <2>4 DEF notifyOnDNSResolve, Queue!LoadAll, InHand
    <3>2. PICK f \in Arriving : Holds(packet, rest, f)
      BY <3>1 DEF InHand
    <3>3. Holds(packet', rest', f)
      BY <3>1, <3>2, LoadAllHolds
    <3> QED
      BY <2>1, <3>1, <3>3 DEF InHand, EchoIntact
  <2>5. CASE processIncomingPacket \/ declinePacket \/ call
    BY <1>1, <2>1, <2>5
       DEF processIncomingPacket, declinePacket, call, walkBegins, walkOn, queueVars, Undisturbed, InHand
  <2>6. CASE dropPacket \/ takePacket \/ nobodysPacket \/ allNotified
    BY <1>2, <2>1, <2>6
       DEF dropPacket, takePacket, nobodysPacket, allNotified, handled, Queue!Done, walkEnds,
           walkVars, PutAway, InHand
  <2>7. CASE ticksDue \/ loopReturns \/ allTicked
    BY <1>2, <2>1, <2>7
       DEF ticksDue, loopReturns, allTicked, walkBegins, walkEnds, queueVars, walkVars, PutAway, InHand
  <2> QED
    BY <1>4, <2>2, <2>3, <2>4, <2>5, <2>6, <2>7 DEF otherSteps
<1>5. CASE answerEcho
  <2>1. /\ walk = "packet" /\ packet[1].owner = ICMPPingAutoReply
        /\ echoed' \in {echoed, [request |-> Loaded, reply |-> Reply]}
        /\ queue' = queue /\ PutAway
    BY <1>5 DEF answerEcho, handled, Queue!Done, walkEnds, PutAway
  <2>2. CASE echoed' = echoed
    BY <1>2, <2>1, <2>2 DEF InHand
  <2>3. CASE echoed' = [request |-> Loaded, reply |-> Reply]
    <3>1. PICK f \in Arriving : Holds(packet, rest, f)
      BY <2>1 DEF InHand
    <3>2. PICK length : length = packet[1].length
      OBVIOUS
    <3>3. Loaded[1] = packet[1]
      <4>1. packet \in Seq(ToSet(f.data)) /\ rest \in Seq(ToSet(f.data)) /\ packet # <<>>
        BY <3>1 DEF Holds
      <4> QED
        BY <4>1 DEF Loaded
    <3>4. 1 + length <= BufferSize /\ 1 + length < ByteMod =>
              /\ Reply[1] = Headers(packet[1].from, Local, ICMPPingAutoReply, length)
              /\ Tail(Reply) = SubSeq(Tail(Loaded), 1, length)
      BY <2>1, <3>1, <3>2, AnswerFits
    <3>5. echoed'.request = Loaded /\ echoed'.reply = Reply
      BY <2>3
    <3>6. EchoIntact'
      BY <3>2, <3>3, <3>4, <3>5, Zenon DEF EchoIntact
    <3> QED
      BY <2>1, <3>6 DEF InHand, PutAway
  <2> QED
    BY <2>1, <2>2, <2>3
<1>6. CASE pingerTicks
  BY <1>1, <1>6 DEF pingerTicks, walkOn, queueVars, Undisturbed, InHand
<1>7. CASE dropReply \/ reportReply
  BY <1>2, <1>7
     DEF dropReply, reportReply, handled, Queue!Done, walkEnds, icmpVars, PutAway, InHand
<1>8. CASE targetAnswers
  <2>1. echoed' = echoed /\ (arrive(EchoReply) \/ UNCHANGED loopVars)
    BY <1>8 DEF targetAnswers, EchoReply
  <2>2. CASE UNCHANGED loopVars
    BY <1>1, <2>1, <2>2 DEF loopVars, queueVars, walkVars, Undisturbed, InHand
  <2> QED
    BY <1>3, <2>1, <2>2 DEF Arriving
<1>9. CASE restart /\ UNCHANGED echoed
  BY <1>2, <1>9 DEF restart, Queue!Restart, walkEnds, PutAway
<1>10. CASE UNCHANGED vars
  BY <1>1, <1>10 DEF vars, icmpVars, loopVars, queueVars, walkVars, Undisturbed, InHand
<1>11. ASSUME NEW f \in Frame, arrive(f), UNCHANGED icmpVars
       PROVE  InHand'
  BY <1>3, <1>11 DEF Arriving, icmpVars
<1> QED
  BY <1>4, <1>5, <1>6, <1>7, <1>8, <1>9, <1>10, <1>11 DEF Next, loop

(* The answer to an echo request that fits in the buffer, and in a byte,   *)
(* goes back to where it came from, with the same data, whatever is        *)
(* loaded of it at first and whatever the program does before.             *)
THEOREM EchoIsIntact ==
    ASSUME WholeFrames
    PROVE  Spec => []EchoIntact
<1>1. InHand => EchoIntact
  BY DEF InHand
<1>2. InHand /\ [Next]_vars => InHand'
  BY EchoStep
<1> QED
  BY <1>1, <1>2, EchoInit, PTL DEF Spec
=============================================================================
