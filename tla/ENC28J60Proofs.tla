--------------------------- MODULE ENC28J60Proofs ---------------------------
(***************************************************************************)
(* Proofs about ENC28J60, for every size of the ring, of the buffer and of *)
(* the sample, and any frames.                                             *)
(*                                                                         *)
(* A place in the ring is told by how far the chip's write pointer is      *)
(* ahead of it, so that the ring's end does not matter.                    *)
(***************************************************************************)
EXTENDS ENC28J60, TLAPS, WellFoundedInduction

Index == 0 .. RxStop

-----------------------------------------------------------------------------
(* Places in the ring *)

LEMMA SizeType == Size \in Nat /\ Size >= 2 /\ Index = 0 .. Size - 1 /\ RxStop = Size - 1
  BY ENC28J60Assumption DEF Size, Index

LEMMA Remainder ==
    ASSUME NEW a \in Int, NEW q \in Int, NEW r \in Index, a = Size * q + r
    PROVE  a % Size = r
<1>1. Size \in Nat \ {0} /\ r \in 0 .. Size - 1
  BY SizeType
<1> HIDE DEF Size
<1>2. /\ a % Size \in 0 .. Size - 1 /\ a \div Size \in Int
      /\ a = Size * (a \div Size) + (a % Size)
  BY <1>1
<1> DEFINE d == q - (a \div Size)
<1>3. Size * d = (a % Size) - r
  BY <1>1, <1>2
<1>4. d \in Int
  BY <1>2
<1> HIDE DEF d
<1>5. ~(d >= 1)
  <2> SUFFICES ASSUME d >= 1 PROVE FALSE
    OBVIOUS
  <2>1. Size * d >= Size
    BY <1>1, <1>4
  <2> QED
    BY <1>1, <1>2, <1>3, <2>1
<1>6. ~(d <= -1)
  <2> SUFFICES ASSUME d <= -1 PROVE FALSE
    OBVIOUS
  <2>1. Size * d <= -Size
    BY <1>1, <1>4
  <2> QED
    BY <1>1, <1>2, <1>3, <2>1
<1>7. d = 0
  BY <1>4, <1>5, <1>6
<1> QED
  BY <1>1, <1>2, <1>3, <1>7

LEMMA Wraps ==
    ASSUME NEW a \in Int
    PROVE  /\ a \in Index => a % Size = a
           /\ a - Size \in Index => a % Size = a - Size
           /\ a + Size \in Index => a % Size = a + Size
<1>1. Size \in Nat
  BY SizeType
<1>2. a \in Index => a % Size = a
  <2>1. a = Size * 0 + a
    BY <1>1
  <2> QED
    BY <2>1, Remainder
<1>3. a - Size \in Index => a % Size = a - Size
  <2>1. a = Size * 1 + (a - Size)
    BY <1>1
  <2> QED
    BY <2>1, Remainder
<1>4. a + Size \in Index => a % Size = a + Size
  <2>1. a = Size * (-1) + (a + Size)
    BY <1>1
  <2> QED
    BY <2>1, Remainder
<1> QED
  BY <1>2, <1>3, <1>4

\* How far w is ahead of p.
Dist(w, p) == (w - p) % Size

LEMMA DistIs ==
    ASSUME NEW w \in Index, NEW p \in Index
    PROVE  /\ Dist(w, p) = IF p <= w THEN w - p ELSE (w - p) + Size
           /\ Dist(w, p) \in Index
<1>1. CASE p <= w
  <2>1. w - p \in Index
    BY <1>1, SizeType
  <2> QED
    BY <1>1, <2>1, SizeType, Wraps DEF Dist
<1>2. CASE ~(p <= w)
  <2>1. (w - p) + Size \in Index /\ w - p \in Int
    BY <1>2, SizeType
  <2> QED
    BY <1>2, <2>1, Wraps DEF Dist
<1> QED
  BY <1>1, <1>2

LEMMA DistType ==
    ASSUME NEW w \in Index, NEW p \in Index
    PROVE  Dist(w, p) \in Nat /\ Dist(w, p) <= Size - 1
<1>1. Dist(w, p) \in Index
  BY DistIs
<1> QED
  BY <1>1, SizeType

LEMMA FreeIs ==
    ASSUME NEW w \in Index, NEW r \in Index
    PROVE  FreeFor(w, r) = (Size - 1) - Dist(w, r)
<1> HIDE DEF Size
<1> QED
  BY SizeType, DistIs DEF FreeFor

LEMMA DistInjective ==
    ASSUME NEW w \in Index, NEW p \in Index, NEW q \in Index, Dist(w, p) = Dist(w, q)
    PROVE  p = q
<1>1. /\ Dist(w, p) = IF p <= w THEN w - p ELSE (w - p) + Size
      /\ Dist(w, q) = IF q <= w THEN w - q ELSE (w - q) + Size
  BY DistIs
<1>2. Size \in Nat /\ {p, q, w} \subseteq 0 .. Size - 1
  BY SizeType
<1> DEFINE d == Dist(w, p)
<1>3. d = (IF p <= w THEN w - p ELSE (w - p) + Size) /\ d = (IF q <= w THEN w - q ELSE (w - q) + Size)
  BY <1>1
<1> HIDE DEF d, Size
<1> QED
  BY <1>2, <1>3

(* Going on from p, one comes nearer to w.                                 *)
LEMMA Nearer ==
    ASSUME NEW w \in Index, NEW p \in Index, NEW j \in Nat, j <= Dist(w, p)
    PROVE  /\ (p + j) % Size \in Index
           /\ Dist(w, (p + j) % Size) = Dist(w, p) - j
<1>1. /\ Size \in Nat /\ Size >= 2 /\ Index = 0 .. Size - 1
      /\ Dist(w, p) = IF p <= w THEN w - p ELSE (w - p) + Size
  BY SizeType, DistIs
<1>2. (p + j) % Size = IF p + j < Size THEN p + j ELSE (p + j) - Size
  <2>1. p + j < Size => p + j \in Index
    BY <1>1
  <2>2. ~(p + j < Size) => (p + j) - Size \in Index
    <3> HIDE DEF Size
    <3> QED
      BY <1>1
  <2>3. p + j \in Int
    BY <1>1
  <2> QED
    BY <2>1, <2>2, <2>3, Wraps
<1>3. (p + j) % Size \in Index
  <2> HIDE DEF Size
  <2> QED
    BY <1>1, <1>2
<1> DEFINE x == (p + j) % Size
<1>4. Dist(w, x) = IF x <= w THEN w - x ELSE (w - x) + Size
  BY <1>3, DistIs
<1> QED
  <2> HIDE DEF Size, Dist
  <2> QED
    BY <1>1, <1>2, <1>3, <1>4

(* w going on, everything is farther behind.                               *)
LEMMA Farther ==
    ASSUME NEW w \in Index, NEW e \in Index, NEW v, v = (w + e) % Size
    PROVE  /\ v \in Index
           /\ \A p \in Index : Dist(w, p) + e <= Size - 1 => Dist(v, p) = Dist(w, p) + e
<1>1. Size \in Nat /\ Size >= 2 /\ Index = 0 .. Size - 1
  BY SizeType
<1>2. v = IF w + e < Size THEN w + e ELSE (w + e) - Size
  <2>1. w + e < Size => w + e \in Index
    BY <1>1
  <2>2. ~(w + e < Size) => (w + e) - Size \in Index
    BY <1>1
  <2>3. w + e \in Int
    BY <1>1
  <2> QED
    BY <2>1, <2>2, <2>3, Wraps
<1> HIDE DEF Size
<1>3. v \in Index
  BY <1>1, <1>2
<1>4. ASSUME NEW p \in Index, Dist(w, p) + e <= Size - 1 PROVE Dist(v, p) = Dist(w, p) + e
  <2>1. /\ Dist(w, p) = IF p <= w THEN w - p ELSE (w - p) + Size
        /\ Dist(v, p) = IF p <= v THEN v - p ELSE (v - p) + Size
    BY <1>3, DistIs
  <2> QED
    BY <1>1, <1>2, <1>3, <1>4, <2>1
<1> QED
  BY <1>3, <1>4

(* Counted from w on, what is behind it comes last.                        *)
LEMMA Ahead ==
    ASSUME NEW w \in Index, NEW p \in Index
    PROVE  /\ (p - w) % Size \in Index
           /\ Dist(w, p) > 0 => (p - w) % Size = Size - Dist(w, p)
<1> HIDE DEF Size
<1> QED
  BY SizeType, DistIs DEF Dist

LEMMA AheadOf ==
    ASSUME NEW w \in Index, NEW j \in Index
    PROVE  (w + j) % Size \in Index /\ (((w + j) % Size) - w) % Size = j
<1>1. Size \in Nat /\ Size >= 2 /\ Index = 0 .. Size - 1
  BY SizeType
<1> DEFINE v == (w + j) % Size
<1>2. v \in Index /\ (Dist(w, w) + j <= Size - 1 => Dist(v, w) = Dist(w, w) + j)
  BY Farther
<1>3. Dist(w, w) = 0
  BY <1>1, DistIs
<1> QED
  BY <1>1, <1>2, <1>3 DEF Dist

LEMMA EvenIs ==
    ASSUME NEW n \in Nat
    PROVE  Even(n) \in Nat /\ n <= Even(n) /\ Even(n) <= n + 1
  BY DEF Even

LEMMA MinOf ==
    ASSUME NEW a \in Int, NEW b \in Int
    PROVE  Min({a, b}) = IF a <= b THEN a ELSE b
  BY DEF Min

LEMMA SameSequence ==
    ASSUME NEW S, NEW x \in Seq(S), NEW y \in Seq(S), Len(x) = Len(y),
           \A i \in 1 .. Len(y) : x[i] = y[i]
    PROVE  x = y
  OBVIOUS

-----------------------------------------------------------------------------
(* The frames in the ring *)

LEMMA FrameIs ==
    ASSUME NEW f \in Frame
    PROVE  /\ f = [data |-> f.data, ok |-> f.ok] /\ f.ok \in BOOLEAN
           /\ f.data \in Seq(ToSet(f.data)) /\ Len(f.data) \in Nat \ {0}
<1>1. f = [data |-> f.data, ok |-> f.ok] /\ f.ok \in BOOLEAN
  BY ENC28J60Assumption, Zenon
<1>2. f.data \in Seq(ToSet(f.data)) /\ f.data # <<>>
  BY ENC28J60Assumption, Zenon
<1>3. \A S : \A s \in Seq(S) : s # <<>> => Len(s) \in Nat \ {0}
  OBVIOUS
<1> QED
  BY <1>1, <1>2, <1>3, Zenon

\* The frame f lies in the cells from p on, and its header leads to next.
Stored(cells, p, f, next) ==
    /\ Cell(cells, p) = [nextPacket |-> next, byteCount |-> Len(f.data), ok |-> f.ok]
    /\ \A k \in 1 .. Len(f.data) : Cell(cells, p + k) = f.data[k]

\* The frames of q lie at the places of at, each header leading to the next.
Chained(cells, q, at) ==
    /\ q \in Seq(Frame) /\ at \in [1 .. Len(q) + 1 -> Index]
    /\ \A i \in 1 .. Len(q) :
            Stored(cells, at[i], q[i], at[i + 1]) /\ Len(q[i].data) <= RxStop

\* They lie side by side, and the last one ends at w.
Spaced(w, q, at) ==
    /\ \A i \in 1 .. Len(q) : Dist(w, at[i]) = Dist(w, at[i + 1]) + Even(1 + Len(q[i].data))
    /\ \A i, j \in 1 .. Len(q) + 1 : i <= j => Dist(w, at[j]) <= Dist(w, at[i])
    /\ at[Len(q) + 1] = w

LEMMA HeaderFound ==
    ASSUME NEW cells, NEW f \in Frame, Len(f.data) <= RxStop, NEW p \in Index, NEW next \in Index,
           Stored(cells, p, f, next)
    PROVE  /\ Cell(cells, p) \in Header
           /\ HeaderAt(cells, p) = [nextPacket |-> next, byteCount |-> Len(f.data), ok |-> f.ok]
           /\ HeaderAt(cells, p) = Cell(cells, p)
<1>1. Len(f.data) \in 1 .. RxStop /\ f.ok \in BOOLEAN
  BY FrameIs, SizeType
<1>2. [nextPacket |-> next, byteCount |-> Len(f.data), ok |-> f.ok] \in Header
  BY <1>1 DEF Header, Index
<1> QED
  BY <1>2 DEF HeaderAt, Stored

LEMMA UpTo ==
    ASSUME NEW n \in Nat, NEW S, 0 \in S, \A k \in 1 .. n : k - 1 \in S => k \in S
    PROVE  0 .. n \subseteq S
<1> DEFINE T == {k \in 0 .. n : k \notin S}
           R == {ss \in Nat \X Nat : ss[1] < ss[2]}
<1>1. SUFFICES ASSUME T # {} PROVE FALSE
  OBVIOUS
<1>2. IsWellFoundedOn(R, Nat)
  BY NatLessThanWellFounded DEF OpToRel
<1>3. \A x, y \in Nat : y < x => <<y, x>> \in R
  OBVIOUS
<1>4. T \in SUBSET Nat
  OBVIOUS
<1> HIDE DEF R
<1>5. PICK x \in T : \A y \in T : ~ (<<y, x>> \in R)
  <2> HIDE DEF T
  <2> QED BY <1>1, <1>2, <1>4, WFMin
<1>6. \A y \in T : ~ (y < x)
  BY <1>3, <1>4, <1>5
<1>7. x \in 1 .. n /\ x - 1 \in 0 .. n /\ x - 1 < x
  OBVIOUS
<1> QED BY <1>6, <1>7

(* Where a driver that follows the headers would find the frames.          *)
LEMMA StartsFound ==
    ASSUME NEW cells, NEW q, NEW at, Chained(cells, q, at)
    PROVE  \A k \in 1 .. Len(q) : Starts(cells, at[1], Len(q))[k - 1] = at[k]
<1> DEFINE n == Len(q)
           g == [k \in 0 .. n |-> at[k + 1]]
           start == Starts(cells, at[1], n)
<1>1. n \in Nat /\ \A k \in 0 .. n : at[k + 1] \in Index
  BY DEF Chained
<1>2. \A k \in 1 .. n : HeaderAt(cells, at[k]).nextPacket = at[k + 1]
  <2> SUFFICES ASSUME NEW k \in 1 .. n PROVE HeaderAt(cells, at[k]).nextPacket = at[k + 1]
    OBVIOUS
  <2>1. /\ q[k] \in Frame /\ Len(q[k].data) <= RxStop /\ at[k] \in Index /\ at[k + 1] \in Index
        /\ Stored(cells, at[k], q[k], at[k + 1])
    BY <1>1 DEF Chained
  <2>2. HeaderAt(cells, at[k]) = [nextPacket |-> at[k + 1], byteCount |-> Len(q[k].data), ok |-> q[k].ok]
    BY <2>1, HeaderFound
  <2> QED
    BY <2>2
<1>3. g = [k \in 0 .. n |-> IF k = 0 THEN at[1] ELSE HeaderAt(cells, g[k - 1]).nextPacket]
  <2>1. ASSUME NEW k \in 0 .. n
        PROVE  g[k] = IF k = 0 THEN at[1] ELSE HeaderAt(cells, g[k - 1]).nextPacket
    <3>1. CASE k = 0
      BY <1>1, <3>1
    <3>2. CASE k # 0
      <4>1. k \in 1 .. n /\ k - 1 \in 0 .. n /\ (k - 1) + 1 = k
        BY <1>1, <3>2
      <4>2. g[k] = at[k + 1] /\ g[k - 1] = at[k]
        BY <4>1
      <4> HIDE DEF g
      <4> QED
        BY <1>2, <3>2, <4>1, <4>2
    <3> QED
      BY <3>1, <3>2
  <2>2. g = [k \in 0 .. n |-> g[k]]
    OBVIOUS
  <2> HIDE DEF g
  <2> QED
    BY <2>1, <2>2
<1>4. start = [k \in 0 .. n |-> IF k = 0 THEN at[1] ELSE HeaderAt(cells, start[k - 1]).nextPacket]
  <2> HIDE DEF g
  <2> QED
    BY <1>3, Zenon DEF Starts
<1> HIDE DEF start, n
<1>5. \A k \in 0 .. n : start[k] = at[k + 1]
  <2> DEFINE S == {k \in 0 .. n : start[k] = at[k + 1]}
  <2>1. 0 \in S
    BY <1>1, <1>4
  <2>2. ASSUME NEW k \in 1 .. n, k - 1 \in S PROVE k \in S
    <3>1. start[k] = HeaderAt(cells, start[k - 1]).nextPacket
      BY <1>1, <1>4
    <3>2. start[k - 1] = at[k]
      BY <1>1, <2>2
    <3> QED
      BY <1>1, <1>2, <3>1, <3>2
  <2> HIDE DEF S
  <2>3. 0 .. n \subseteq S
    BY <1>1, <2>1, <2>2, UpTo
  <2> QED
    BY <2>3 DEF S
<1>6. \A k \in 1 .. n : k - 1 \in 0 .. n /\ (k - 1) + 1 = k
  BY <1>1
<1> QED
  BY <1>5, <1>6 DEF start, n

(* What is stored is what comes back.                                      *)
LEMMA ReadBack ==
    ASSUME NEW cells, NEW q, NEW at, Chained(cells, q, at)
    PROVE  FramesFrom(cells, at[1], Len(q)) = q
<1>1. q \in Seq(Frame) /\ Len(q) \in Nat
  BY DEF Chained
<1>2. ASSUME NEW k \in 1 .. Len(q) PROVE FrameAt(cells, at[k]) = q[k]
  <2> DEFINE f == q[k]
  <2>1. /\ f \in Frame /\ Len(f.data) <= RxStop /\ at[k] \in Index /\ at[k + 1] \in Index
        /\ Stored(cells, at[k], f, at[k + 1])
    BY <1>1 DEF Chained
  <2> HIDE DEF f
  <2>2. HeaderAt(cells, at[k]) = [nextPacket |-> at[k + 1], byteCount |-> Len(f.data), ok |-> f.ok]
    BY <2>1, HeaderFound
  <2>3. /\ f = [data |-> f.data, ok |-> f.ok]
        /\ f.data \in Seq(ToSet(f.data)) /\ Len(f.data) \in Nat
    BY <2>1, FrameIs
  <2>4. Run(cells, at[k] + 1, Len(f.data)) = f.data
    <3>1. \A i \in 1 .. Len(f.data) : Cell(cells, ((at[k] + 1) + i) - 1) = f.data[i]
      <4> SUFFICES ASSUME NEW i \in 1 .. Len(f.data)
                   PROVE  Cell(cells, ((at[k] + 1) + i) - 1) = f.data[i]
        OBVIOUS
      <4>1. ((at[k] + 1) + i) - 1 = at[k] + i
        BY <2>1, SizeType
      <4> QED
        BY <2>1, <4>1 DEF Stored
    <3>2. f.data = [i \in 1 .. Len(f.data) |-> f.data[i]]
      BY <2>3
    <3> QED
      BY <3>1, <3>2 DEF Run
  <2> QED
    BY <2>2, <2>3, <2>4 DEF FrameAt, f
<1>3. q = [k \in 1 .. Len(q) |-> q[k]]
  BY <1>1
<1> QED
  BY <1>2, <1>3, StartsFound DEF FramesFrom

\* The cells that are up to u behind w are the same.
KeptUpTo(cells, after, w, u) ==
    \A p \in Index : 1 <= Dist(w, p) /\ Dist(w, p) <= u => after[p] = cells[p]

LEMMA CellKept ==
    ASSUME NEW cells, NEW after, NEW w \in Index, NEW u \in Int, KeptUpTo(cells, after, w, u),
           NEW p \in Index, NEW j \in Nat, j < Dist(w, p), Dist(w, p) <= u
    PROVE  Cell(after, p + j) = Cell(cells, p + j)
<1>1. Dist(w, p) \in Int
  BY DistIs DEF Index
<1>2. (p + j) % Size \in Index /\ Dist(w, (p + j) % Size) = Dist(w, p) - j
  BY <1>1, Nearer
<1> QED
  BY <1>1, <1>2 DEF KeptUpTo, Cell

LEMMA RunKept ==
    ASSUME NEW cells, NEW after, NEW w \in Index, NEW u \in Int, KeptUpTo(cells, after, w, u),
           NEW p \in Index, NEW n \in Int, n <= Dist(w, p), Dist(w, p) <= u
    PROVE  Run(after, p, n) = Run(cells, p, n)
<1>1. Dist(w, p) \in Int /\ p \in Int
  BY DistIs DEF Index
<1>2. ASSUME NEW k \in 1 .. n PROVE Cell(after, (p + k) - 1) = Cell(cells, (p + k) - 1)
  <2>1. k - 1 \in Nat /\ k - 1 < Dist(w, p) /\ p + (k - 1) = (p + k) - 1
    BY <1>1
  <2>2. Cell(after, p + (k - 1)) = Cell(cells, p + (k - 1))
    BY <2>1, CellKept
  <2> QED
    BY <2>1, <2>2
<1> QED
  BY <1>2 DEF Run

LEMMA ChainKept ==
    ASSUME NEW cells, NEW after, NEW w \in Index, NEW u \in Int, KeptUpTo(cells, after, w, u),
           NEW q, NEW at, Chained(cells, q, at), Spaced(w, q, at), Dist(w, at[1]) <= u
    PROVE  Chained(after, q, at)
<1>1. q \in Seq(Frame) /\ at \in [1 .. Len(q) + 1 -> Index] /\ Len(q) \in Nat
  BY DEF Chained
<1>2. ASSUME NEW i \in 1 .. Len(q) PROVE Stored(after, at[i], q[i], at[i + 1])
  <2> DEFINE f == q[i]
             p == at[i]
             d == Dist(w, p)
  <2>1. f \in Frame /\ p \in Index /\ at[i + 1] \in Index /\ Stored(cells, p, f, at[i + 1])
    BY <1>1 DEF Chained
  <2>2. d = Dist(w, at[i + 1]) + Even(1 + Len(f.data)) /\ d <= Dist(w, at[1])
    BY <1>1 DEF Spaced
  <2>3. /\ d \in Int /\ Dist(w, at[1]) \in Int /\ Dist(w, at[i + 1]) \in Nat
    <3>1. at[1] \in Index
      BY <1>1
    <3>2. Dist(w, p) \in Nat /\ Dist(w, at[1]) \in Nat /\ Dist(w, at[i + 1]) \in Nat
      BY <2>1, <3>1, DistType
    <3> QED
      BY <3>2
  <2>4. Len(f.data) \in Nat /\ 1 + Len(f.data) <= Even(1 + Len(f.data)) /\ Even(1 + Len(f.data)) \in Nat
    <3>1. Len(f.data) \in Nat /\ 1 + Len(f.data) \in Nat
      BY <2>1, FrameIs
    <3> QED
      BY <3>1, EvenIs
  <2>5. d <= u /\ Len(f.data) < d
    BY <2>2, <2>3, <2>4
  <2> HIDE DEF f, p
  <2>6. ASSUME NEW k \in 0 .. Len(f.data) PROVE Cell(after, p + k) = Cell(cells, p + k)
    <3>1. k \in Nat /\ k < d
      BY <2>3, <2>4, <2>5
    <3> QED
      BY <2>1, <2>5, <3>1, CellKept
  <2>7. Cell(after, p) = Cell(cells, p)
    <3>1. p + 0 = p /\ 0 \in 0 .. Len(f.data)
      BY <2>1, <2>4 DEF Index
    <3> QED
      BY <2>6, <3>1
  <2> QED
    BY <2>1, <2>4, <2>6, <2>7 DEF Stored, f, p
<1> QED
  BY <1>1, <1>2 DEF Chained

(* The first frame is taken.                                               *)
LEMMA ChainDrops ==
    ASSUME NEW cells, NEW w \in Index, NEW q, NEW at, Chained(cells, q, at), Spaced(w, q, at), q # <<>>,
           NEW e, e = [i \in 1 .. Len(q) |-> at[i + 1]]
    PROVE  /\ Chained(cells, Tail(q), e) /\ Spaced(w, Tail(q), e)
           /\ e[1] = at[2] /\ Len(Tail(q)) = Len(q) - 1
<1> DEFINE n == Len(q) - 1
           t == Tail(q)
<1>1. q \in Seq(Frame) /\ at \in [1 .. Len(q) + 1 -> Index] /\ Len(q) \in Nat
  BY DEF Chained
<1>2. /\ t \in Seq(Frame) /\ Len(t) = n /\ n \in Nat /\ Len(q) = n + 1
      /\ \A i \in 1 .. n : t[i] = q[i + 1]
  BY <1>1
<1> HIDE DEF t, n
<1>3. \A i \in 1 .. n + 1 : e[i] = at[i + 1] /\ i + 1 \in 1 .. (n + 1) + 1
  BY <1>2
<1>4. e \in [1 .. n + 1 -> Index]
  BY <1>1, <1>2
<1>5. \A i \in 1 .. n : i + 1 \in 1 .. n + 1 /\ i \in 1 .. n + 1
  BY <1>2
<1>6. Chained(cells, t, e)
  BY <1>1, <1>2, <1>3, <1>4, <1>5 DEF Chained
<1>7. Spaced(w, t, e)
  <2>1. ASSUME NEW i \in 1 .. n PROVE Dist(w, e[i]) = Dist(w, e[i + 1]) + Even(1 + Len(t[i].data))
    BY <1>2, <1>3, <1>5 DEF Spaced
  <2>2. ASSUME NEW i \in 1 .. n + 1, NEW j \in 1 .. n + 1, i <= j PROVE Dist(w, e[j]) <= Dist(w, e[i])
    <3>1. i + 1 <= j + 1
      BY <1>2, <2>2
    <3> QED
      BY <1>2, <1>3, <3>1 DEF Spaced
  <2>3. e[n + 1] = w
    BY <1>2, <1>3 DEF Spaced
  <2> QED
    BY <1>2, <2>1, <2>2, <2>3 DEF Spaced
<1> QED
  BY <1>2, <1>3, <1>6, <1>7 DEF t

(* A frame is received behind the last one.                                *)
LEMMA ChainGrows ==
    ASSUME NEW cells, NEW w \in Index, NEW q, NEW at, Chained(cells, q, at), Spaced(w, q, at),
           NEW f \in Frame, Len(f.data) <= RxStop, NEW e \in Index, e = Even(1 + Len(f.data)),
           NEW v, v = (w + e) % Size, Dist(w, at[1]) + e <= Size - 1, Stored(cells, w, f, v)
    PROVE  /\ Len(Append(q, f)) = Len(q) + 1
           /\ \E b : Chained(cells, Append(q, f), b) /\ Spaced(v, Append(q, f), b) /\ b[1] = at[1]
<1> DEFINE n == Len(q)
           t == Append(q, f)
<1>0. PICK b : b = [i \in 1 .. Len(q) + 2 |-> IF i = Len(q) + 2 THEN v ELSE at[i]]
  OBVIOUS
<1>1. q \in Seq(Frame) /\ at \in [1 .. n + 1 -> Index] /\ n \in Nat
  BY DEF Chained
<1>2. /\ t \in Seq(Frame) /\ Len(t) = n + 1 /\ t[n + 1] = f
      /\ \A i \in 1 .. n : t[i] = q[i]
  BY <1>1
<1>3. v \in Index /\ \A p \in Index : Dist(w, p) + e <= Size - 1 => Dist(v, p) = Dist(w, p) + e
  BY Farther
<1> HIDE DEF t, n
<1>4. /\ b \in [1 .. n + 2 -> Index] /\ b[n + 2] = v
      /\ \A i \in 1 .. n + 1 : b[i] = at[i]
  BY <1>1, <1>3, <1>0 DEF n
<1>5. at[n + 1] = w /\ n + 1 \in 1 .. n + 1 /\ 1 \in 1 .. n + 1
  BY <1>1 DEF Spaced, n
<1>6. \A i \in 1 .. n : i \in 1 .. n + 1 /\ i + 1 \in 1 .. n + 1
  BY <1>1
<1>7. Chained(cells, t, b)
  <2>1. ASSUME NEW i \in 1 .. n + 1
        PROVE  Stored(cells, b[i], t[i], b[i + 1]) /\ Len(t[i].data) <= RxStop
    <3>1. CASE i = n + 1
      <4>1. b[i] = w /\ b[i + 1] = v /\ t[i] = f
        BY <1>1, <1>2, <1>4, <1>5, <3>1
      <4> QED
        BY <4>1
    <3>2. CASE i # n + 1
      <4>1. i \in 1 .. n
        BY <1>1, <3>2
      <4>2. b[i] = at[i] /\ b[i + 1] = at[i + 1] /\ t[i] = q[i]
        BY <1>2, <1>4, <1>6, <4>1
      <4> QED
        BY <4>1, <4>2 DEF Chained, n
    <3> QED
      BY <3>1, <3>2
  <2>2. b \in [1 .. (n + 1) + 1 -> Index]
    BY <1>1, <1>4
  <2> QED
    BY <1>2, <2>1, <2>2 DEF Chained
<1>8. \A i \in 1 .. n + 1 : Dist(v, b[i]) = Dist(w, at[i]) + e
  <2> SUFFICES ASSUME NEW i \in 1 .. n + 1 PROVE Dist(v, b[i]) = Dist(w, at[i]) + e
    OBVIOUS
  <2>1. Dist(w, at[i]) <= Dist(w, at[1])
    BY <1>1, <1>5 DEF Spaced, n
  <2>2. at[i] \in Index /\ at[1] \in Index
    BY <1>1, <1>5
  <2>3. Dist(w, at[i]) \in Int /\ Dist(w, at[1]) \in Int /\ e \in Int /\ Size \in Int
    <3>1. Dist(w, at[i]) \in Nat /\ Dist(w, at[1]) \in Nat
      BY <2>2, DistType
    <3> QED
      BY <3>1, SizeType DEF Index
  <2>4. Dist(w, at[i]) + e <= Size - 1
    BY <2>1, <2>3
  <2> QED
    BY <1>3, <1>4, <2>2, <2>4
<1>9. Dist(v, v) = 0 /\ Dist(w, w) = 0
  BY <1>3, SizeType, DistIs
<1>10. \A i \in 1 .. n + 1 : Dist(w, at[i]) \in Nat
  <2> SUFFICES ASSUME NEW i \in 1 .. n + 1 PROVE Dist(w, at[i]) \in Nat
    OBVIOUS
  <2>1. at[i] \in Index
    BY <1>1
  <2> QED
    BY <2>1, DistType
<1>11. Spaced(v, t, b)
  <2>1. ASSUME NEW i \in 1 .. n + 1
        PROVE  Dist(v, b[i]) = Dist(v, b[i + 1]) + Even(1 + Len(t[i].data))
    <3>1. CASE i = n + 1
      <4>1. b[i + 1] = v /\ t[i] = f /\ at[i] = w
        BY <1>1, <1>2, <1>4, <1>5, <3>1
      <4>2. Dist(v, b[i]) = e
        <5>1. e \in Int /\ 0 + e = e
          BY DEF Index
        <5>2. Dist(v, b[i]) = Dist(w, at[i]) + e
          BY <1>8
        <5>3. Dist(w, at[i]) = 0
          BY <1>9, <4>1
        <5> QED
          BY <5>1, <5>2, <5>3
      <4> QED
        BY <1>9, <4>1, <4>2 DEF Index
    <3>2. CASE i # n + 1
      <4>1. i \in 1 .. n
        BY <1>1, <3>2
      <4>2. t[i] = q[i] /\ Dist(v, b[i]) = Dist(w, at[i]) + e /\ Dist(v, b[i + 1]) = Dist(w, at[i + 1]) + e
        BY <1>2, <1>6, <1>8, <4>1
      <4>3. Dist(w, at[i]) = Dist(w, at[i + 1]) + Even(1 + Len(q[i].data))
        BY <4>1 DEF Spaced, n
      <4>4. Even(1 + Len(q[i].data)) \in Nat /\ Dist(w, at[i + 1]) \in Nat /\ e \in Nat
        <5>1. Len(q[i].data) \in Nat /\ 1 + Len(q[i].data) \in Nat
          BY <1>1, <4>1, FrameIs DEF n
        <5>2. Even(1 + Len(q[i].data)) \in Nat
          BY <5>1, EvenIs
        <5>3. e \in Nat
          BY DEF Index
        <5> QED
          BY <1>6, <1>10, <4>1, <5>2, <5>3
      <4> QED
        BY <4>2, <4>3, <4>4
    <3> QED
      BY <3>1, <3>2
  <2>2. ASSUME NEW i \in 1 .. n + 2, NEW j \in 1 .. n + 2, i <= j PROVE Dist(v, b[j]) <= Dist(v, b[i])
    <3>1. CASE j = n + 2
      <4>1. Dist(v, b[j]) = 0
        BY <1>4, <1>9, <3>1
      <4>2. Dist(v, b[i]) \in Nat
        <5>1. b[i] \in Index
          BY <1>4
        <5>2. Dist(v, b[i]) \in Index
          BY <1>3, <5>1, DistIs
        <5> QED
          BY <5>2 DEF Index
      <4> QED
        BY <4>1, <4>2
    <3>2. CASE j # n + 2
      <4>1. i \in 1 .. n + 1 /\ j \in 1 .. n + 1
        BY <1>1, <2>2, <3>2
      <4>2. Dist(w, at[j]) <= Dist(w, at[i])
        BY <2>2, <4>1 DEF Spaced, n
      <4>3. /\ Dist(v, b[i]) = Dist(w, at[i]) + e /\ Dist(v, b[j]) = Dist(w, at[j]) + e
            /\ Dist(w, at[i]) \in Nat /\ Dist(w, at[j]) \in Nat /\ e \in Nat
        <5>1. e \in Nat
          BY DEF Index
        <5> QED
          BY <1>8, <1>10, <4>1, <5>1
      <4> HIDE DEF Dist
      <4> QED
        BY <4>2, <4>3
    <3> QED
      BY <3>1, <3>2
  <2>3. b[(n + 1) + 1] = v /\ (n + 1) + 1 = n + 2
    BY <1>1, <1>4
  <2> QED
    BY <1>2, <2>1, <2>2, <2>3 DEF Spaced
<1>12. /\ Chained(cells, Append(q, f), b) /\ Spaced(v, Append(q, f), b) /\ b[1] = at[1]
       /\ Len(Append(q, f)) = Len(q) + 1
  BY <1>2, <1>4, <1>5, <1>7, <1>11 DEF t, n
<1> QED
  BY <1>12

-----------------------------------------------------------------------------
(* The driver and the chip *)

Used == Dist(ERXWRPT, ERXRDPT)
Gap == Dist(ERXWRPT, nextPacketPtr)
Count == IF handling = "no" THEN EPKTCNT ELSE EPKTCNT - 1

Typed ==
    /\ ERXWRPT \in Index /\ ERXRDPT \in Index /\ nextPacketPtr \in Index
    /\ EPKTCNT \in Nat
    /\ handling \in {"no", "sampled", "handled", "released"}
    /\ handling # "no" => EPKTCNT > 0
    /\ handling = "no" => packet = <<>>

\* What may yet be loaded of the frame in hand is where the chip does not write.
RestKept ==
    handling = "sampled" =>
        /\ remainingPacketSize \in Nat /\ Len(packet) \in Nat /\ ERDPT \in Index
        /\ remainingPacketSize <= Dist(ERXWRPT, ERDPT)
        /\ Dist(ERXWRPT, ERDPT) <= Used

\* The frames that wait are, and if none is in hand, hardly anything else is.
Accounted ==
    /\ Gap <= Used
    /\ handling \in {"no", "released"} => Used <= Gap + 1
    /\ handling \in {"sampled", "handled"} => Gap < Used

Layout(q, at) ==
    /\ Chained(memory, q, at) /\ Spaced(ERXWRPT, q, at)
    /\ at[1] = nextPacketPtr /\ Len(q) = Count

\* The inductive invariant.
Ordered == Typed /\ RestKept /\ Accounted /\ \E q, at : Layout(q, at)

LEMMA ReceiveStep ==
    ASSUME Ordered, NEW f \in Frame, receive(f), NEW q, NEW at, Layout(q, at)
    PROVE  /\ Ordered' /\ \E b : Layout(Append(q, f), b)'
           /\ handling = "sampled" => RestOfPacket' = RestOfPacket
<1> DEFINE w == ERXWRPT
           e == Even(1 + Len(f.data))
           v == (w + e) % Size
           header == [nextPacket |-> v, byteCount |-> Len(f.data), ok |-> f.ok]
           cells == <<header>> \o f.data
<1>1. w \in Index /\ ERXRDPT \in Index /\ nextPacketPtr \in Index /\ Gap <= Used
  BY DEF Ordered, Typed, Accounted
<1>2. Used \in Nat /\ Gap \in Nat /\ Size \in Nat /\ Size >= 2 /\ Used <= Size - 1
  BY <1>1, DistIs, SizeType DEF Used, Gap
<1>3. f.data \in Seq(ToSet(f.data)) /\ Len(f.data) \in Nat \ {0}
  BY FrameIs
<1>4. e \in Nat /\ 1 + Len(f.data) <= e
  <2>1. 1 + Len(f.data) \in Nat
    BY <1>3
  <2> QED
    BY <2>1, EvenIs
<1>5. header = HeaderOf(f)
  BY DEF HeaderOf
<1>6. /\ Len(cells) = 1 + Len(f.data) /\ cells[1] = header
      /\ \A k \in 1 .. Len(f.data) : cells[1 + k] = f.data[k]
  <2> HIDE DEF header
  <2>1. \A S : \A x \in Seq(S) : \A h \in S :
            /\ Len(<<h>> \o x) = 1 + Len(x) /\ (<<h>> \o x)[1] = h
            /\ \A k \in 1 .. Len(x) : (<<h>> \o x)[1 + k] = x[k]
    OBVIOUS
  <2>2. f.data \in Seq(ToSet(f.data) \cup {header})
    BY <1>3
  <2> QED
    BY <2>1, <2>2
<1>7. /\ Even(Len(cells)) <= Free
      /\ memory' = [p \in 0 .. RxStop |->
                      LET k == 1 + ((p - w) % Size)
                      IN  IF k <= Len(cells) THEN cells[k] ELSE memory[p]]
      /\ ERXWRPT' = cells[1].nextPacket
      /\ EPKTCNT' = EPKTCNT + 1
      /\ UNCHANGED <<ERXRDPT, reading, handling>>
  BY <1>5 DEF receive
<1>8. e <= (Size - 1) - Used
  BY <1>1, <1>6, <1>7, FreeIs DEF Free, Used
<1>9. ERXWRPT' = v
  BY <1>6, <1>7
<1> HIDE DEF cells, header, e, v
<1>10. e \in Index /\ Len(f.data) <= RxStop
  BY <1>2, <1>4, <1>8, SizeType DEF Index
<1>11. v \in Index /\ \A p \in Index : Dist(w, p) + e <= Size - 1 => Dist(v, p) = Dist(w, p) + e
  BY <1>1, <1>10, Farther DEF v
<1>12. \A p \in Index : Dist(w, p) <= Used => Dist(v, p) = Dist(w, p) + e
  <2> SUFFICES ASSUME NEW p \in Index, Dist(w, p) <= Used PROVE Dist(v, p) = Dist(w, p) + e
    OBVIOUS
  <2>1. Dist(w, p) \in Int
    BY <1>1, DistIs DEF Index
  <2>2. Dist(w, p) + e <= Size - 1
    BY <1>2, <1>4, <1>8, <2>1
  <2> QED
    BY <1>11, <2>2
<1>13. KeptUpTo(memory, memory', w, Used)
  <2> SUFFICES ASSUME NEW p \in Index, 1 <= Dist(w, p), Dist(w, p) <= Used PROVE memory'[p] = memory[p]
    BY DEF KeptUpTo
  <2>1. Dist(w, p) \in Int /\ (p - w) % Size = Size - Dist(w, p)
    <3>1. Dist(w, p) \in Int
      BY <1>1, DistIs DEF Index
    <3> QED
      BY <1>1, <3>1, Ahead
  <2>2. ~(1 + ((p - w) % Size) <= Len(cells))
    BY <1>2, <1>3, <1>4, <1>6, <1>8, <2>1
  <2> QED
    BY <1>7, <2>2 DEF Index
<1>14. ASSUME NEW j \in 0 .. Len(f.data) PROVE Cell(memory', w + j) = cells[1 + j]
  <2>1. j \in Index
    <3>1. RxStop \in Nat /\ Len(f.data) \in Nat
      BY <1>3, ENC28J60Assumption
    <3> QED
      BY <1>10, <3>1 DEF Index
  <2>2. (w + j) % Size \in Index /\ (((w + j) % Size) - w) % Size = j
    BY <1>1, <2>1, AheadOf
  <2>3. 1 + j <= Len(cells)
    BY <1>3, <1>6
  <2> QED
    BY <1>7, <2>2, <2>3 DEF Cell, Index
<1>15. Stored(memory', w, f, v)
  <2>1. 0 \in 0 .. Len(f.data) /\ w + 0 = w /\ 1 + 0 = 1
    BY <1>1, <1>3 DEF Index
  <2>2. Cell(memory', w) = header
    BY <1>6, <1>14, <2>1
  <2>3. \A k \in 1 .. Len(f.data) : Cell(memory', w + k) = f.data[k]
    BY <1>3, <1>6, <1>14
  <2> QED
    BY <2>2, <2>3 DEF Stored, header
<1>16. Chained(memory, q, at) /\ Spaced(w, q, at) /\ at[1] = nextPacketPtr /\ Len(q) = Count
  BY DEF Layout
<1>17. Dist(w, at[1]) <= Used /\ Dist(w, at[1]) + e <= Size - 1
  BY <1>1, <1>2, <1>4, <1>8, <1>16 DEF Gap
<1>18. Chained(memory', q, at)
  BY <1>1, <1>2, <1>13, <1>16, <1>17, ChainKept
<1>19. PICK b : /\ Chained(memory', Append(q, f), b) /\ Spaced(v, Append(q, f), b)
                /\ b[1] = at[1] /\ Len(Append(q, f)) = Len(q) + 1
  <2>1. e = Even(1 + Len(f.data)) /\ v = (w + e) % Size
    BY DEF e, v
  <2> QED
    BY <1>1, <1>10, <1>15, <1>16, <1>17, <1>18, <2>1, ChainGrows
<1>20. Count' = Count + 1
  BY <1>7 DEF Count, Ordered, Typed
<1>21. Layout(Append(q, f), b)'
  BY <1>7, <1>9, <1>16, <1>19, <1>20 DEF Layout, reading
<1>22. Used' = Used + e /\ Gap' = Gap + e
  <2>1. Used' = Dist(v, ERXRDPT) /\ Gap' = Dist(v, nextPacketPtr)
    BY <1>7, <1>9 DEF Used, Gap, reading
  <2>2. Dist(w, ERXRDPT) <= Used /\ Dist(w, nextPacketPtr) <= Used
    BY <1>1, <1>2 DEF Used, Gap
  <2> QED
    BY <1>1, <1>12, <2>1, <2>2 DEF Used, Gap
<1>23. ASSUME handling = "sampled"
       PROVE  RestKept' /\ RestOfPacket' = RestOfPacket
  <2>1. /\ remainingPacketSize \in Nat /\ Len(packet) \in Nat /\ ERDPT \in Index
        /\ remainingPacketSize <= Dist(w, ERDPT) /\ Dist(w, ERDPT) <= Used
    BY <1>23 DEF Ordered, RestKept
  <2>2. Dist(v, ERDPT) = Dist(w, ERDPT) + e /\ Dist(w, ERDPT) \in Nat
    BY <1>1, <1>12, <2>1, DistIs DEF Index
  <2>3. RestKept'
    BY <1>2, <1>4, <1>7, <1>9, <1>22, <2>1, <2>2 DEF RestKept, reading
  <2> DEFINE n == Min({remainingPacketSize, BufferSize - Len(packet)})
  <2>4. n \in Int /\ n <= remainingPacketSize
    <3>1. BufferSize - Len(packet) \in Int
      BY <2>1, ENC28J60Assumption
    <3> QED
      BY <2>1, <3>1, MinOf
  <2> HIDE DEF n
  <2>5. Run(memory', ERDPT, n) = Run(memory, ERDPT, n)
    <3>1. n <= Dist(w, ERDPT)
      BY <2>1, <2>2, <2>4
    <3> QED
      BY <1>1, <1>2, <1>13, <2>1, <2>4, <3>1, RunKept
  <2>6. n' = n
    BY <1>7 DEF reading, n
  <2> QED
    BY <1>7, <2>3, <2>5, <2>6 DEF RestOfPacket, reading, n
<1>24. Typed' /\ Accounted'
  <2>1. Typed'
    BY <1>7, <1>9, <1>11 DEF Ordered, Typed, reading
  <2>2. Accounted'
    BY <1>2, <1>4, <1>7, <1>22 DEF Ordered, Accounted
  <2> QED
    BY <2>1, <2>2
<1>25. RestKept'
  BY <1>7, <1>23 DEF RestKept
<1> QED
  BY <1>21, <1>23, <1>24, <1>25 DEF Ordered

-----------------------------------------------------------------------------
(* What is loaded of a frame *)

\* The n elements of data behind the first a.
Part(data, a, n) == [k \in 1 .. n |-> data[a + k]]

LEMMA FirstOfIs ==
    ASSUME NEW S, NEW data \in Seq(S), NEW m \in Nat
    PROVE  /\ Frames!FirstOf(data, m) \in Seq(S)
           /\ Len(Frames!FirstOf(data, m)) = IF Len(data) < m THEN Len(data) ELSE m
           /\ \A k \in 1 .. Len(Frames!FirstOf(data, m)) : Frames!FirstOf(data, m)[k] = data[k]
<1>1. PICK n \in 0 .. Len(data) : n = IF Len(data) < m THEN Len(data) ELSE m
  OBVIOUS
<1>2. Frames!FirstOf(data, m) = SubSeq(data, 1, n)
  BY <1>1 DEF Frames!FirstOf
<1>3. SubSeq(data, 1, n) \in Seq(S) /\ Len(SubSeq(data, 1, n)) = n /\ \A k \in 1 .. n : SubSeq(data, 1, n)[k] = data[k]
  BY <1>1
<1> QED
  BY <1>1, <1>2, <1>3

\* How much is loaded of data in the sample, and behind it.
Lengths(data, len, m) ==
    /\ len = IF Len(data) <= SampleSize THEN Len(data) ELSE SampleSize
    /\ m = IF Len(data) - len <= BufferSize - len THEN Len(data) - len ELSE BufferSize - len

LEMMA Loaded ==
    ASSUME NEW S, NEW data \in Seq(S), NEW len, NEW m, Lengths(data, len, m)
    PROVE  /\ len \in Nat /\ m \in Nat /\ len + m <= Len(data)
           /\ Frames!FirstOf(Frames!FirstOf(data, BufferSize), SampleSize) = Part(data, 0, len)
           /\ SubSeq(Frames!FirstOf(data, BufferSize), SampleSize + 1, Len(Frames!FirstOf(data, BufferSize)))
                 = Part(data, len, m)
<1>1. SampleSize \in Nat \ {0} /\ BufferSize \in Nat /\ BufferSize >= SampleSize /\ Len(data) \in Nat
  BY ENC28J60Assumption
<1>2. /\ len = IF Len(data) <= SampleSize THEN Len(data) ELSE SampleSize
      /\ m = IF Len(data) - len <= BufferSize - len THEN Len(data) - len ELSE BufferSize - len
  BY DEF Lengths
<1>3. len \in Nat /\ m \in Nat /\ len + m <= Len(data)
  <2> DEFINE n == Len(data)
  <2>1. len \in Nat /\ len <= n /\ len <= BufferSize /\ n \in Nat
    BY <1>1, <1>2
  <2>2. m = IF n - len <= BufferSize - len THEN n - len ELSE BufferSize - len
    BY <1>2
  <2> HIDE DEF n
  <2>3. m \in Nat /\ m <= n - len
    <3>1. n - len \in Nat /\ BufferSize - len \in Nat
      BY <1>1, <2>1
    <3> DEFINE x == n - len
               y == BufferSize - len
    <3>2. x \in Nat /\ y \in Nat /\ m = IF x <= y THEN x ELSE y
      BY <2>2, <3>1
    <3> HIDE DEF x, y
    <3>3. m \in Nat /\ m <= x
      BY <3>2
    <3> QED
      BY <3>3 DEF x
  <2>4. len + m <= n
    BY <2>1, <2>3
  <2> QED
    BY <2>1, <2>3, <2>4 DEF n
<1> DEFINE b == Frames!FirstOf(data, BufferSize)
<1>4. /\ b \in Seq(S) /\ Len(b) = IF Len(data) < BufferSize THEN Len(data) ELSE BufferSize
      /\ \A k \in 1 .. Len(b) : b[k] = data[k]
  BY <1>1, FirstOfIs
<1> HIDE DEF b
<1> DEFINE x == Frames!FirstOf(b, SampleSize)
           y == SubSeq(b, SampleSize + 1, Len(b))
<1>5. /\ x \in Seq(S) /\ Len(x) = IF Len(b) < SampleSize THEN Len(b) ELSE SampleSize
      /\ \A k \in 1 .. Len(x) : x[k] = b[k]
  BY <1>1, <1>4, FirstOfIs
<1> HIDE DEF x
<1>6. x = Part(data, 0, len)
  <2>1. Len(x) = len
    BY <1>1, <1>2, <1>4, <1>5
  <2>2. \A k \in 1 .. len : x[k] = data[k]
    BY <1>1, <1>3, <1>4, <1>5, <2>1
  <2>3. x = [k \in 1 .. len |-> x[k]]
    BY <1>5, <2>1
  <2>4. \A k \in 1 .. len : data[0 + k] = data[k]
    BY <1>3
  <2> QED
    BY <2>2, <2>3, <2>4 DEF Part
<1>7. y = Part(data, len, m)
  <2>1. CASE Len(b) <= SampleSize
    <3>1. m = 0
      BY <1>1, <1>2, <1>4, <2>1
    <3>2. y \in Seq(S) /\ Len(y) = 0
      BY <1>1, <1>4, <2>1
    <3>3. y = [k \in 1 .. 0 |-> data[len + k]]
      BY <3>2
    <3> QED
      BY <3>1, <3>3 DEF Part
  <2>2. CASE ~(Len(b) <= SampleSize)
    <3>1. m = Len(b) - SampleSize /\ len = SampleSize /\ Len(b) \in Nat
      BY <1>1, <1>2, <1>4, <2>2
    <3>2. /\ y \in Seq(S) /\ Len(y) = m
          /\ \A k \in 1 .. m : y[k] = b[SampleSize + k]
      <4>1. y \in Seq(S) /\ Len(y) = m
        BY <1>1, <1>4, <2>2, <3>1
      <4>2. ASSUME NEW k \in 1 .. m PROVE y[k] = b[SampleSize + k]
        BY <1>1, <1>4, <2>2, <3>1
      <4> QED
        BY <4>1, <4>2
    <3> HIDE DEF y
    <3>3. \A k \in 1 .. m : y[k] = data[len + k]
      <4> SUFFICES ASSUME NEW k \in 1 .. m PROVE y[k] = data[len + k]
        OBVIOUS
      <4>1. SampleSize + k \in 1 .. Len(b)
        BY <1>1, <3>1
      <4> QED
        BY <1>4, <3>1, <3>2, <4>1
    <3>4. y = [k \in 1 .. m |-> y[k]]
      BY <3>2
    <3> QED
      BY <3>3, <3>4 DEF Part
  <2> QED
    BY <2>1, <2>2
<1> QED
  BY <1>3, <1>6, <1>7 DEF x, b

\* The n cells of f's data that are behind its first a are those from x on.
InFrame(w, p, f, a, n, x) ==
    1 + Len(f.data) <= Dist(w, p) /\ a + n <= Len(f.data) /\ x = ((p + 1) + a) % Size

(* A part of a frame, wherever the ring ends.                              *)
LEMMA RunStored ==
    ASSUME NEW cells, NEW w \in Index, NEW p \in Index, NEW f \in Frame, NEW next, Stored(cells, p, f, next),
           NEW a \in Nat, NEW n \in Nat, NEW x, InFrame(w, p, f, a, n, x)
    PROVE  Run(cells, x, n) = Part(f.data, a, n)
<1>1. Dist(w, p) \in Int /\ p \in Int /\ Len(f.data) \in Nat
  BY DistIs, FrameIs DEF Index
<1>2. 1 + Len(f.data) <= Dist(w, p) /\ a + n <= Len(f.data) /\ x = ((p + 1) + a) % Size
  BY DEF InFrame
<1>3. x \in Index /\ Dist(w, x) = Dist(w, p) - (1 + a)
  <2>1. 1 + a \in Nat /\ 1 + a <= Dist(w, p) /\ (p + 1) + a = p + (1 + a)
    BY <1>1, <1>2
  <2> QED
    BY <1>2, <2>1, Nearer
<1>4. ASSUME NEW k \in 1 .. n PROVE Cell(cells, (x + k) - 1) = f.data[a + k]
  <2>1. /\ k - 1 \in Nat /\ k - 1 <= Dist(w, x) /\ (x + k) - 1 = x + (k - 1)
        /\ a + k \in Nat /\ a + k <= Dist(w, p) /\ a + k \in 1 .. Len(f.data)
        /\ Dist(w, x) - (k - 1) = Dist(w, p) - (a + k)
    <3>1. x \in Int /\ k \in Int /\ 1 <= k /\ k <= n
      BY <1>3 DEF Index
    <3> DEFINE d == Dist(w, p)
               c == Dist(w, x)
    <3>2. d \in Int /\ c = d - (1 + a) /\ a + n <= Len(f.data) /\ 1 + Len(f.data) <= d
      BY <1>1, <1>2, <1>3
    <3> HIDE DEF c, d
    <3>3. k - 1 \in Nat /\ k - 1 <= c /\ a + k \in Nat /\ a + k <= d /\ c - (k - 1) = d - (a + k)
      BY <1>1, <3>1, <3>2
    <3>4. a + k \in 1 .. Len(f.data) /\ (x + k) - 1 = x + (k - 1)
      BY <1>1, <3>1, <3>2
    <3> QED
      BY <3>3, <3>4 DEF c, d
  <2>2. /\ (x + (k - 1)) % Size \in Index
        /\ Dist(w, (x + (k - 1)) % Size) = Dist(w, x) - (k - 1)
    BY <1>3, <2>1, Nearer
  <2>3. /\ (p + (a + k)) % Size \in Index
        /\ Dist(w, (p + (a + k)) % Size) = Dist(w, p) - (a + k)
    BY <2>1, Nearer
  <2>4. (x + (k - 1)) % Size = (p + (a + k)) % Size
    BY <2>1, <2>2, <2>3, DistInjective
  <2>5. Cell(cells, p + (a + k)) = f.data[a + k]
    BY <2>1 DEF Stored
  <2> QED
    BY <2>1, <2>4, <2>5 DEF Cell
<1> QED
  BY <1>3, <1>4 DEF Run, Part

LEMMA SampleStep ==
    ASSUME Ordered, loadSample, NEW q, NEW at, Layout(q, at)
    PROVE  /\ q # <<>> /\ Ordered' /\ \E b : Layout(Tail(q), b)'
           /\ handling = "no"
           /\ q[1].ok =>
                LET loaded == Frames!FirstOf(q[1].data, BufferSize)
                IN  /\ handling' = "sampled"
                    /\ packet' = Frames!FirstOf(loaded, SampleSize)
                    /\ RestOfPacket' = SubSeq(loaded, SampleSize + 1, Len(loaded))
           /\ ~q[1].ok => handling' = "handled" /\ packet' = packet
<1> DEFINE w == ERXWRPT
           p == nextPacketPtr
           f == q[1]
           header == [nextPacket |-> at[2], byteCount |-> Len(f.data), ok |-> f.ok]
           len == Min({header.byteCount, SampleSize})
<1>1. /\ w \in Index /\ ERXRDPT \in Index /\ p \in Index /\ EPKTCNT \in Nat /\ EPKTCNT > 0
      /\ handling = "no" /\ Gap <= Used
  BY DEF Ordered, Typed, Accounted, loadSample
<1>2. /\ Chained(memory, q, at) /\ Spaced(w, q, at) /\ at[1] = p /\ Len(q) = EPKTCNT
  BY <1>1 DEF Layout, Count
<1>3. /\ q \in Seq(Frame) /\ q # <<>> /\ 1 \in 1 .. Len(q) /\ 2 \in 1 .. Len(q) + 1
      /\ at \in [1 .. Len(q) + 1 -> Index]
  BY <1>1, <1>2 DEF Chained
<1>4. f \in Frame /\ Len(f.data) <= RxStop /\ at[2] \in Index /\ Stored(memory, p, f, at[2])
  BY <1>2, <1>3 DEF Chained
<1>5. Gap = Dist(w, at[2]) + Even(1 + Len(f.data))
  BY <1>2, <1>3 DEF Spaced, Gap
<1> HIDE DEF f
<1>6. f.data \in Seq(ToSet(f.data)) /\ Len(f.data) \in Nat \ {0}
  BY <1>4, FrameIs
<1>7. /\ Used \in Nat /\ Gap \in Nat /\ Dist(w, at[2]) \in Nat
      /\ Even(1 + Len(f.data)) \in Nat /\ 1 + Len(f.data) <= Even(1 + Len(f.data))
  <2>1. 1 + Len(f.data) \in Nat
    BY <1>6
  <2>2. Even(1 + Len(f.data)) \in Nat /\ 1 + Len(f.data) <= Even(1 + Len(f.data))
    BY <2>1, EvenIs
  <2>3. Dist(w, ERXRDPT) \in Index /\ Dist(w, p) \in Index /\ Dist(w, at[2]) \in Index
    BY <1>1, <1>4, DistIs
  <2>4. Index \subseteq Nat
    BY DEF Index
  <2> QED
    BY <2>2, <2>3, <2>4 DEF Used, Gap
<1>8. HeadersAt(p) = {header}
  <2>1. Cell(memory, p) \in Header /\ Cell(memory, p) = header
    BY <1>1, <1>4, HeaderFound
  <2> QED
    BY <2>1 DEF HeadersAt
<1>9. len = IF Len(f.data) <= SampleSize THEN Len(f.data) ELSE SampleSize
  <2>1. Len(f.data) \in Int /\ SampleSize \in Int
    BY <1>6, ENC28J60Assumption
  <2> QED
    BY <2>1, MinOf
<1>10. /\ nextPacketPtr' = at[2]
       /\ IF f.ok
          THEN /\ packet' = Run(memory, p + 1, len)
               /\ remainingPacketSize' = Len(f.data) - len
               /\ ERDPT' = ((p + 1) + len) % Size
               /\ handling' = "sampled"
          ELSE handling' = "handled" /\ packet' = packet
       /\ UNCHANGED <<ring, ERXRDPT>>
  <2>1. PICK h \in HeadersAt(p) :
            LET n == Min({h.byteCount, SampleSize})
            IN  /\ nextPacketPtr' = h.nextPacket
                /\ IF h.ok
                   THEN /\ packet' = Run(memory, p + 1, n)
                        /\ remainingPacketSize' = h.byteCount - n
                        /\ ERDPT' = ((p + 1) + n) % Size
                        /\ handling' = "sampled"
                   ELSE /\ ERDPT' = (p + 1) % Size
                        /\ handling' = "handled"
                        /\ UNCHANGED <<packet, remainingPacketSize>>
    BY DEF loadSample
  <2>2. UNCHANGED <<ring, ERXRDPT>>
    BY DEF loadSample
  <2>3. h = header
    BY <1>8, <2>1
  <2>4. h.nextPacket = at[2] /\ h.byteCount = Len(f.data) /\ h.ok = f.ok
    BY <2>3
  <2>5. len = Min({Len(f.data), SampleSize})
    OBVIOUS
  <2> HIDE DEF len, header
  <2> QED
    BY <2>1, <2>2, <2>4, <2>5
<1> HIDE DEF len, header
<1>11. PICK b : /\ Chained(memory, Tail(q), b) /\ Spaced(w, Tail(q), b)
                /\ b[1] = at[2] /\ Len(Tail(q)) = Len(q) - 1
  <2>1. PICK b : b = [i \in 1 .. Len(q) |-> at[i + 1]]
    OBVIOUS
  <2> QED
    BY <1>1, <1>2, <1>3, <2>1, ChainDrops
<1>12. Layout(Tail(q), b)'
  <2>1. Count' = EPKTCNT - 1
    BY <1>10 DEF Count, ring
  <2> QED
    BY <1>2, <1>10, <1>11, <2>1 DEF Layout, ring
<1>13. Typed' /\ Accounted'
  <2>1. Typed'
    BY <1>1, <1>4, <1>10 DEF Typed, ring
  <2>2. Used' = Used /\ Gap' = Dist(w, at[2])
    BY <1>10 DEF Used, Gap, ring
  <2>3. Accounted'
    BY <1>1, <1>5, <1>6, <1>7, <1>10, <2>2 DEF Accounted
  <2> QED
    BY <2>1, <2>3
<1>14. ASSUME f.ok
       PROVE  LET loaded == Frames!FirstOf(f.data, BufferSize)
              IN  /\ packet' = Frames!FirstOf(loaded, SampleSize)
                  /\ RestOfPacket' = SubSeq(loaded, SampleSize + 1, Len(loaded))
                  /\ RestKept'
  <2> DEFINE m == IF Len(f.data) - len <= BufferSize - len THEN Len(f.data) - len ELSE BufferSize - len
  <2>0. PICK x : x = ((p + 1) + len) % Size
    OBVIOUS
  <2>1. /\ len \in Nat /\ m \in Nat /\ len + m <= Len(f.data)
        /\ Frames!FirstOf(Frames!FirstOf(f.data, BufferSize), SampleSize) = Part(f.data, 0, len)
        /\ SubSeq(Frames!FirstOf(f.data, BufferSize), SampleSize + 1, Len(Frames!FirstOf(f.data, BufferSize)))
              = Part(f.data, len, m)
    <3> DEFINE data == f.data
               S == ToSet(data)
    <3>1. data \in Seq(S)
      BY <1>6
    <3>2. len = IF Len(data) <= SampleSize THEN Len(data) ELSE SampleSize
      BY <1>9
    <3>3. m = IF Len(data) - len <= BufferSize - len THEN Len(data) - len ELSE BufferSize - len
      OBVIOUS
    <3>5. Lengths(data, len, m)
      BY <3>2, <3>3 DEF Lengths
    <3> HIDE DEF data, S, m
    <3>4. /\ len \in Nat /\ m \in Nat /\ len + m <= Len(data)
          /\ Frames!FirstOf(Frames!FirstOf(data, BufferSize), SampleSize) = Part(data, 0, len)
          /\ SubSeq(Frames!FirstOf(data, BufferSize), SampleSize + 1, Len(Frames!FirstOf(data, BufferSize)))
                = Part(data, len, m)
      BY <3>1, <3>5, Loaded
    <3> QED
      BY <3>4 DEF data
  <2>2. /\ packet' = Run(memory, p + 1, len) /\ remainingPacketSize' = Len(f.data) - len
        /\ ERDPT' = x /\ handling' = "sampled" /\ memory' = memory /\ ERXWRPT' = w /\ ERXRDPT' = ERXRDPT
    BY <1>10, <1>14, <2>0 DEF ring
  <2> HIDE DEF m
  <2>3. packet' = Part(f.data, 0, len)
    <3>1. \A k \in 1 .. len : Cell(memory, ((p + 1) + k) - 1) = f.data[k]
      <4> SUFFICES ASSUME NEW k \in 1 .. len PROVE Cell(memory, ((p + 1) + k) - 1) = f.data[k]
        OBVIOUS
      <4>1. ((p + 1) + k) - 1 = p + k /\ k \in 1 .. Len(f.data)
        BY <1>1, <1>6, <2>1 DEF Index
      <4> QED
        BY <1>4, <4>1 DEF Stored
    <3>2. \A k \in 1 .. len : f.data[0 + k] = f.data[k]
      BY <2>1
    <3> QED
      BY <2>2, <3>1, <3>2 DEF Run, Part
  <2>4. 1 + Len(f.data) <= Dist(w, p)
    BY <1>5, <1>6, <1>7 DEF Gap
  <2>5. /\ x \in Index /\ Dist(w, x) = Dist(w, p) - (1 + len)
        /\ Run(memory, x, m) = Part(f.data, len, m)
    <3>1. InFrame(w, p, f, len, m, x)
      BY <2>0, <2>1, <2>4 DEF InFrame
    <3>2. Run(memory, x, m) = Part(f.data, len, m)
      BY <1>1, <1>4, <2>1, <3>1, RunStored
    <3>3. /\ 1 + len \in Nat /\ 1 + len <= Dist(w, p)
          /\ (p + 1) + len = p + (1 + len)
      <4>1. p \in Int /\ Dist(w, p) \in Int
        BY <1>1, <1>7 DEF Gap, Index
      <4> QED
        BY <1>6, <2>1, <2>4, <4>1
    <3>4. (p + (1 + len)) % Size \in Index /\ Dist(w, (p + (1 + len)) % Size) = Dist(w, p) - (1 + len)
      BY <1>1, <3>3, Nearer
    <3> QED
      BY <2>0, <3>2, <3>3, <3>4
  <2>6. Len(packet') = len
    BY <2>1, <2>3 DEF Part
  <2>7. Min({remainingPacketSize', BufferSize - Len(packet')}) = m
    <3>1. Len(f.data) - len \in Int /\ BufferSize - len \in Int
      BY <1>6, <2>1, ENC28J60Assumption
    <3> QED
      BY <2>2, <2>6, <3>1, MinOf DEF m
  <2>8. RestOfPacket' = Part(f.data, len, m)
    BY <2>2, <2>5, <2>7 DEF RestOfPacket
  <2>9. RestKept'
    <3>1. /\ Len(f.data) - len \in Nat /\ Len(f.data) - len <= Dist(w, x) /\ Dist(w, x) <= Used
      BY <1>1, <1>6, <1>7, <2>1, <2>4, <2>5 DEF Gap
    <3>2. Used' = Used
      BY <2>2 DEF Used
    <3> QED
      BY <2>1, <2>2, <2>5, <2>6, <3>1, <3>2 DEF RestKept
  <2> QED
    BY <2>1, <2>3, <2>8, <2>9
<1>15. RestKept'
  BY <1>10, <1>14 DEF RestKept
<1> QED
  BY <1>1, <1>3, <1>10, <1>12, <1>13, <1>14, <1>15 DEF Ordered, f

-----------------------------------------------------------------------------
(* Giving space back *)

LEMMA ReleasedIs ==
    ASSUME Typed, Gap < Size - 1
    PROVE  ReleasedTo \in Index /\ Dist(ERXWRPT, ReleasedTo) = Gap + 1
<1> DEFINE w == ERXWRPT
           p == nextPacketPtr
<1>1. w \in Index /\ p \in Index /\ Size \in Nat /\ Size >= 2 /\ Index = 0 .. Size - 1 /\ RxStop = Size - 1
  BY SizeType DEF Typed
<1>2. ReleasedTo = IF p = 0 THEN RxStop ELSE p - 1
  <2>1. WordMod \in Nat
    BY DEF WordMod
  <2>2. RxStop \in Nat /\ RxStop < WordMod /\ p \in 0 .. RxStop
    BY <1>1, ENC28J60Assumption DEF Index
  <2>3. \A n \in Nat \ {0} : (0 - 1) % n = n - 1 /\ \A x \in 0 .. n - 1 : x % n = x
    OBVIOUS
  <2>4. ASSUME p = 0 PROVE (p - 1) % WordMod = WordMod - 1
    <3>1. WordMod \in Nat \ {0} /\ p - 1 = 0 - 1
      BY <2>1, <2>2, <2>4
    <3>2. (0 - 1) % WordMod = WordMod - 1
      BY <2>3, <3>1
    <3> QED
      BY <3>1, <3>2
  <2>5. ASSUME p # 0 PROVE (p - 1) % WordMod = p - 1 /\ p - 1 <= RxStop
    <3>1. p - 1 \in 0 .. WordMod - 1 /\ p - 1 <= RxStop /\ WordMod # 0
      BY <2>1, <2>2, <2>5
    <3> QED
      BY <2>1, <2>3, <3>1
  <2> QED
    BY <2>1, <2>2, <2>4, <2>5 DEF ReleasedTo
<1>3. ReleasedTo \in Index
  BY <1>1, <1>2
<1>4. /\ Dist(w, p) = IF p <= w THEN w - p ELSE (w - p) + Size
      /\ Dist(w, ReleasedTo) = IF ReleasedTo <= w THEN w - ReleasedTo ELSE (w - ReleasedTo) + Size
      /\ Gap = Dist(w, p)
  BY <1>1, <1>3, DistIs DEF Gap
<1>5. ASSUME NEW r, r = ReleasedTo, NEW d, d = Gap, NEW c, c = Dist(w, r), NEW n, n = Size
      PROVE  c = d + 1
  <2>1. /\ w \in 0 .. n - 1 /\ p \in 0 .. n - 1 /\ n \in Nat /\ n >= 2
        /\ d = IF p <= w THEN w - p ELSE (w - p) + n
        /\ c = IF r <= w THEN w - r ELSE (w - r) + n
        /\ r = IF p = 0 THEN n - 1 ELSE p - 1
        /\ d < n - 1
    BY <1>1, <1>2, <1>4, <1>5
  <2> QED
    BY <2>1
<1> QED
  BY <1>3, <1>5

LEMMA ReleaseStep ==
    ASSUME Ordered, releaseSpace, NEW q, NEW at, Layout(q, at)
    PROVE  Ordered' /\ Layout(q, at)'
<1> DEFINE w == ERXWRPT
<1>1. /\ w \in Index /\ ERXRDPT \in Index /\ EPKTCNT \in Nat /\ EPKTCNT > 0
      /\ handling = "handled" /\ Gap < Used /\ Typed
  BY DEF Ordered, Typed, Accounted, releaseSpace
<1>2. Used \in Nat /\ Gap \in Nat /\ Size \in Nat /\ Used <= Size - 1
  <2>1. Dist(w, ERXRDPT) \in Index /\ Dist(w, nextPacketPtr) \in Index
    BY <1>1, DistIs DEF Typed
  <2> QED
    BY <2>1, SizeType DEF Used, Gap
<1>3. ReleasedTo \in Index /\ Dist(w, ReleasedTo) = Gap + 1
  BY <1>1, <1>2, ReleasedIs
<1>4. /\ ERXRDPT' = ReleasedTo /\ handling' = "released"
      /\ memory' = [p \in 0 .. RxStop |->
                      IF (p - w) % Size < FreeFor(w, ReleasedTo) THEN Blank ELSE memory[p]]
      /\ UNCHANGED <<ERXWRPT, EPKTCNT, nextPacketPtr, packet>>
  BY DEF releaseSpace, reading
<1>5. FreeFor(w, ReleasedTo) = (Size - 1) - (Gap + 1)
  BY <1>1, <1>3, FreeIs
<1>6. KeptUpTo(memory, memory', w, Gap)
  <2> SUFFICES ASSUME NEW p \in Index, 1 <= Dist(w, p), Dist(w, p) <= Gap PROVE memory'[p] = memory[p]
    BY DEF KeptUpTo
  <2>1. Dist(w, p) \in Int /\ (p - w) % Size = Size - Dist(w, p)
    <3>1. Dist(w, p) \in Int
      BY <1>1, DistIs DEF Index
    <3> QED
      BY <1>1, <3>1, Ahead
  <2>2. ~((p - w) % Size < FreeFor(w, ReleasedTo))
    BY <1>2, <1>5, <2>1
  <2> QED
    BY <1>4, <2>2 DEF Index
<1>7. Chained(memory, q, at) /\ Spaced(w, q, at) /\ at[1] = nextPacketPtr /\ Len(q) = Count
  BY DEF Layout
<1>8. Chained(memory', q, at)
  <2>1. Gap \in Int /\ Dist(w, at[1]) <= Gap
    BY <1>2, <1>7 DEF Gap
  <2> QED
    BY <1>1, <1>6, <1>7, <2>1, ChainKept
<1>9. Count' = Count
  BY <1>1, <1>4 DEF Count
<1>10. Layout(q, at)'
  BY <1>4, <1>7, <1>8, <1>9 DEF Layout
<1>11. Used' = Gap + 1 /\ Gap' = Gap
  BY <1>3, <1>4 DEF Used, Gap
<1>12. Typed' /\ Accounted' /\ RestKept'
  <2>1. Typed'
    BY <1>1, <1>3, <1>4 DEF Typed
  <2>2. Accounted'
    BY <1>2, <1>4, <1>11 DEF Accounted
  <2>3. RestKept'
    BY <1>4 DEF RestKept
  <2> QED
    BY <2>1, <2>2, <2>3
<1> QED
  BY <1>10, <1>12 DEF Ordered

LEMMA CountStep ==
    ASSUME Ordered, releaseCount, NEW q, NEW at, Layout(q, at)
    PROVE  Ordered' /\ Layout(q, at)'
<1>1. /\ handling = "released" /\ handling' = "no" /\ EPKTCNT' = EPKTCNT - 1 /\ packet' = <<>>
      /\ UNCHANGED <<memory, ERXWRPT, ERXRDPT, nextPacketPtr>>
  BY DEF releaseCount
<1>2. Typed /\ Accounted /\ EPKTCNT \in Nat /\ EPKTCNT > 0
  BY <1>1 DEF Ordered, Typed
<1>3. Count' = Count /\ Used' = Used /\ Gap' = Gap
  BY <1>1 DEF Count, Used, Gap
<1>4. Layout(q, at)'
  BY <1>1, <1>3 DEF Layout
<1>5. Typed' /\ Accounted' /\ RestKept'
  <2>1. Typed'
    BY <1>1, <1>2 DEF Typed
  <2>2. Accounted' /\ RestKept'
    BY <1>1, <1>2, <1>3 DEF Accounted, RestKept
  <2> QED
    BY <2>1, <2>2
<1> QED
  BY <1>4, <1>5 DEF Ordered

-----------------------------------------------------------------------------
(* What leaves the frames that wait alone *)

LEMMA HandledStep ==
    ASSUME Ordered, handling = "sampled", handling' = "handled",
           UNCHANGED <<ring, ERXRDPT, nextPacketPtr>>, NEW q, NEW at, Layout(q, at)
    PROVE  Ordered' /\ Layout(q, at)'
<1>1. /\ memory' = memory /\ ERXWRPT' = ERXWRPT /\ EPKTCNT' = EPKTCNT /\ ERXRDPT' = ERXRDPT
      /\ nextPacketPtr' = nextPacketPtr
  BY DEF ring
<1>2. Count' = Count /\ Used' = Used /\ Gap' = Gap
  BY <1>1 DEF Count, Used, Gap
<1>3. Layout(q, at)'
  BY <1>1, <1>2 DEF Layout
<1>4. Typed' /\ Accounted' /\ RestKept'
  <2>1. Typed'
    BY <1>1 DEF Ordered, Typed
  <2>2. Accounted' /\ RestKept'
    BY <1>1, <1>2 DEF Ordered, Accounted, RestKept
  <2> QED
    BY <2>1, <2>2
<1> QED
  BY <1>3, <1>4 DEF Ordered

Rest == IF handling = "sampled" THEN RestOfPacket ELSE <<>>

LEMMA UnmovedStep ==
    ASSUME Ordered, UNCHANGED <<ring, ERXRDPT, nextPacketPtr, remainingPacketSize, packet, handling>>,
           handling = "sampled" => ERDPT' = ERDPT, NEW q, NEW at, Layout(q, at)
    PROVE  Ordered' /\ Layout(q, at)' /\ Rest' = Rest
<1>1. /\ memory' = memory /\ ERXWRPT' = ERXWRPT /\ EPKTCNT' = EPKTCNT /\ ERXRDPT' = ERXRDPT
      /\ nextPacketPtr' = nextPacketPtr /\ remainingPacketSize' = remainingPacketSize
      /\ packet' = packet /\ handling' = handling
  BY DEF ring
<1>2. Count' = Count /\ Used' = Used /\ Gap' = Gap
  BY <1>1 DEF Count, Used, Gap
<1>3. Layout(q, at)'
  BY <1>1, <1>2 DEF Layout
<1>4. Typed' /\ Accounted'
  BY <1>1, <1>2 DEF Ordered, Typed, Accounted
<1>5. RestKept'
  BY <1>1, <1>2 DEF Ordered, RestKept
<1>6. Rest' = Rest
  BY <1>1 DEF Rest, RestOfPacket
<1> QED
  BY <1>3, <1>4, <1>5, <1>6 DEF Ordered

LEMMA NothingStored ==
    ASSUME NEW cells, NEW p \in Index
    PROVE  Chained(cells, <<>>, <<p>>) /\ Spaced(p, <<>>, <<p>>)
<1>1. <<>> \in Seq(Frame) /\ Len(<<>>) = 0 /\ <<p>> \in [1 .. 1 -> Index] /\ <<p>>[1] = p
  OBVIOUS
<1>2. Dist(p, p) \in Int
  BY DistIs DEF Index
<1>3. Chained(cells, <<>>, <<p>>)
  BY <1>1 DEF Chained
<1>4. Spaced(p, <<>>, <<p>>)
  BY <1>1, <1>2 DEF Spaced
<1> QED
  BY <1>3, <1>4

LEMMA OrderedInit == Init => Ordered /\ Layout(<<>>, <<0>>)
<1> SUFFICES ASSUME Init PROVE Ordered /\ Layout(<<>>, <<0>>)
  OBVIOUS
<1>1. /\ ERXWRPT = 0 /\ ERXRDPT = 0 /\ EPKTCNT = 0 /\ nextPacketPtr = 0 /\ handling = "no" /\ packet = <<>>
      /\ 0 \in Index
  BY SizeType DEF Init
<1>2. Layout(<<>>, <<0>>)
  BY <1>1, NothingStored DEF Layout, Count
<1>3. Used = Gap /\ Gap \in Int
  BY <1>1, DistIs DEF Used, Gap, Index
<1> QED
  BY <1>1, <1>2, <1>3 DEF Ordered, Typed, RestKept, Accounted

LEMMA BeginStep == begin => Ordered' /\ Layout(<<>>, <<0>>)'
<1> SUFFICES ASSUME begin PROVE Ordered' /\ Layout(<<>>, <<0>>)'
  OBVIOUS
<1>1. /\ ERXWRPT' = 0 /\ ERXRDPT' = 0 /\ EPKTCNT' = 0 /\ nextPacketPtr' = 0 /\ handling' = "no"
      /\ packet' = <<>> /\ 0 \in Index
  BY SizeType DEF begin
<1>2. Layout(<<>>, <<0>>)'
  BY <1>1, NothingStored DEF Layout, Count
<1>3. Used' = Gap' /\ Gap' \in Int
  BY <1>1, DistIs DEF Used, Gap, Index
<1>4. Typed' /\ RestKept'
  BY <1>1 DEF Typed, RestKept
<1>5. Accounted'
  <2>1. PICK d : d = Gap'
    OBVIOUS
  <2>2. d \in Int /\ Used' = d
    BY <1>3, <2>1, Zenon
  <2>3. d <= d /\ d <= d + 1
    BY <2>2
  <2> QED
    BY <1>1, <2>1, <2>2, <2>3 DEF Accounted
<1> QED
  BY <1>2, <1>4, <1>5 DEF Ordered

-----------------------------------------------------------------------------
(* The queue of frames *)

LEMMA WaitingIs ==
    ASSUME NEW q, NEW at
    PROVE  /\ Layout(q, at) => Waiting = q
           /\ Layout(q, at)' => Waiting' = q
<1>1. ASSUME Layout(q, at) PROVE Waiting = q
  <2>1. Chained(memory, q, at) /\ at[1] = nextPacketPtr /\ Len(q) = Count
    BY <1>1 DEF Layout
  <2>2. FramesFrom(memory, at[1], Len(q)) = q
    BY <2>1, ReadBack
  <2> QED
    BY <2>1, <2>2 DEF Waiting, Count
<1>2. ASSUME Layout(q, at)' PROVE Waiting' = q
  <2>1. Chained(memory', q, at) /\ at[1] = nextPacketPtr' /\ Len(q) = Count'
    BY <1>2 DEF Layout
  <2>2. FramesFrom(memory', at[1], Len(q)) = q
    BY <2>1, ReadBack
  <2> QED
    BY <2>1, <2>2 DEF Waiting, Count
<1> QED
  BY <1>1, <1>2

LEMMA FramesStep == Ordered /\ [Next]_vars => Ordered' /\ [Frames!Next]_(Frames!vars)
<1> SUFFICES ASSUME Ordered, [Next]_vars
             PROVE  Ordered' /\ [Frames!Next]_(Frames!vars)
  OBVIOUS
<1>1. PICK q, at : Layout(q, at)
  BY DEF Ordered
<1>2. Waiting = q
  BY <1>1, WaitingIs
<1>3. handling = "no" => packet = <<>> /\ Rest = <<>>
  BY DEF Ordered, Typed, Rest
<1>4. Frames!vars = <<Waiting, packet, Rest>>
  BY DEF Frames!vars, Rest
\* Nothing of what the queue is made of changes.
<1>5. ASSUME Ordered', NEW b, Layout(q, b)', packet' = packet, Rest' = Rest
      PROVE  Ordered' /\ [Frames!Next]_(Frames!vars)
  <2>1. Waiting' = q
    BY <1>5, WaitingIs
  <2>2. Frames!vars' = <<Waiting', packet', Rest'>>
    BY DEF Frames!vars, Rest
  <2>3. Frames!vars' = Frames!vars
    BY <1>2, <1>4, <1>5, <2>1, <2>2
  <2> QED
    BY <1>5, <2>3
<1>6. ASSUME NEW f \in Frame, receive(f)
      PROVE  Ordered' /\ [Frames!Next]_(Frames!vars)
  <2>1. Ordered' /\ \E b : Layout(Append(q, f), b)'
    BY <1>1, <1>6, ReceiveStep
  <2>2. Waiting' = Append(q, f)
    BY <2>1, WaitingIs
  <2>3. packet' = packet /\ handling' = handling
    BY <1>6 DEF receive, reading
  <2>4. Rest' = Rest
    BY <1>1, <1>6, <2>3, ReceiveStep DEF Rest
  <2>5. Frames!Arrive(f)
    BY <1>2, <2>2, <2>3, <2>4 DEF Frames!Arrive, Rest
  <2> QED
    BY <2>1, <2>5 DEF Frames!Next
<1>7. ASSUME loadSample
      PROVE  Ordered' /\ [Frames!Next]_(Frames!vars)
  <2>1. /\ q # <<>> /\ Ordered' /\ \E b : Layout(Tail(q), b)'
        /\ handling = "no"
        /\ q[1].ok =>
             LET loaded == Frames!FirstOf(q[1].data, BufferSize)
             IN  /\ handling' = "sampled"
                 /\ packet' = Frames!FirstOf(loaded, SampleSize)
                 /\ RestOfPacket' = SubSeq(loaded, SampleSize + 1, Len(loaded))
        /\ ~q[1].ok => handling' = "handled" /\ packet' = packet
    BY <1>1, <1>7, SampleStep
  <2>2. Waiting' = Tail(q)
    BY <2>1, WaitingIs
  <2>3. Head(q) = q[1]
    OBVIOUS
  <2>4. CASE q[1].ok
    <3>1. Rest' = RestOfPacket'
      BY <2>1, <2>4 DEF Rest
    <3>2. Frames!Take
      BY <1>2, <1>3, <2>1, <2>2, <2>3, <2>4, <3>1 DEF Frames!Take, Rest
    <3> QED
      BY <2>1, <3>2 DEF Frames!Next
  <2>5. CASE ~q[1].ok
    <3>1. Rest' = <<>>
      BY <2>1, <2>5 DEF Rest
    <3>2. Frames!Take
      BY <1>2, <1>3, <2>1, <2>2, <2>3, <2>5, <3>1 DEF Frames!Take, Rest
    <3> QED
      BY <2>1, <3>2 DEF Frames!Next
  <2> QED
    BY <2>4, <2>5
<1>8. ASSUME loadAll \/ restNotLoaded
      PROVE  Ordered' /\ [Frames!Next]_(Frames!vars)
  <2>1. /\ handling = "sampled" /\ handling' = "handled" /\ UNCHANGED <<ring, ERXRDPT, nextPacketPtr>>
    BY <1>8 DEF loadAll, restNotLoaded, reading
  <2>2. Ordered' /\ Layout(q, at)'
    BY <1>1, <2>1, HandledStep
  <2>3. Waiting' = q
    BY <2>2, WaitingIs
  <2>4. Rest = RestOfPacket /\ Rest' = <<>>
    BY <2>1 DEF Rest
  <2>5. CASE loadAll
    <3>1. packet' = packet \o Rest
      BY <2>4, <2>5 DEF loadAll
    <3>2. Frames!LoadAll
      BY <1>2, <2>3, <2>4, <3>1 DEF Frames!LoadAll, Rest
    <3> QED
      BY <2>2, <3>2 DEF Frames!Next
  <2>6. CASE restNotLoaded
    <3>1. packet' = packet
      BY <2>6 DEF restNotLoaded, reading
    <3>2. Frames!Ignore
      BY <1>2, <2>3, <2>4, <3>1 DEF Frames!Ignore, Rest
    <3> QED
      BY <2>2, <3>2 DEF Frames!Next
  <2> QED
    BY <1>8, <2>5, <2>6
<1>9. ASSUME releaseSpace
      PROVE  Ordered' /\ [Frames!Next]_(Frames!vars)
  <2>1. Ordered' /\ Layout(q, at)'
    BY <1>1, <1>9, ReleaseStep
  <2>2. packet' = packet /\ Rest' = Rest
    BY <1>9 DEF releaseSpace, reading, Rest
  <2> QED
    BY <1>5, <2>1, <2>2
<1>10. ASSUME releaseCount
       PROVE  Ordered' /\ [Frames!Next]_(Frames!vars)
  <2>1. Ordered' /\ Layout(q, at)'
    BY <1>1, <1>10, CountStep
  <2>2. Waiting' = q
    BY <2>1, WaitingIs
  <2>3. packet' = <<>> /\ Rest' = <<>>
    BY <1>10 DEF releaseCount, Rest
  <2>4. Frames!Done
    BY <1>2, <2>2, <2>3 DEF Frames!Done, Rest
  <2> QED
    BY <2>1, <2>4 DEF Frames!Next
<1>11. ASSUME begin
       PROVE  Ordered' /\ [Frames!Next]_(Frames!vars)
  <2>1. Ordered' /\ Layout(<<>>, <<0>>)'
    BY <1>11, BeginStep
  <2>2. Waiting' = <<>>
    BY <2>1, WaitingIs
  <2>3. packet' = <<>> /\ Rest' = <<>>
    BY <1>11 DEF begin, Rest
  <2>4. Frames!Restart
    BY <2>2, <2>3 DEF Frames!Restart, Rest
  <2> QED
    BY <2>1, <2>4 DEF Frames!Next
<1>12. ASSUME UNCHANGED <<ring, ERXRDPT, nextPacketPtr, remainingPacketSize, packet, handling>>,
              handling = "sampled" => ERDPT' = ERDPT
       PROVE  Ordered' /\ [Frames!Next]_(Frames!vars)
  <2>1. Ordered' /\ Layout(q, at)' /\ Rest' = Rest
    BY <1>1, <1>12, UnmovedStep
  <2> QED
    BY <1>5, <1>12, <2>1
<1>13. CASE nothingReceived \/ (\E error \in BOOLEAN : packetSend(error)) \/ isLinkUp
  BY <1>12, <1>13 DEF nothingReceived, packetSend, isLinkUp, reading
<1>14. CASE \E len \in 0 .. 2 : moveMem(len)
  BY <1>12, <1>14 DEF moveMem
<1>15. CASE UNCHANGED vars
  BY <1>12, <1>15 DEF vars, reading
<1> QED
  BY <1>6, <1>7, <1>8, <1>9, <1>10, <1>11, <1>13, <1>14, <1>15 DEF Next

LEMMA FramesInit == Init => Ordered /\ Frames!Init
<1> SUFFICES ASSUME Init PROVE Ordered /\ Frames!Init
  OBVIOUS
<1>1. Ordered /\ Layout(<<>>, <<0>>)
  BY OrderedInit
<1>2. Waiting = <<>>
  BY <1>1, WaitingIs
<1>3. packet = <<>> /\ handling = "no"
  BY DEF Init
<1> QED
  BY <1>1, <1>2, <1>3 DEF Frames!Init

LEMMA AlwaysOrdered == Spec => []Ordered
<1>1. Init => Ordered
  BY FramesInit
<1>2. Ordered /\ [Next]_vars => Ordered'
  BY FramesStep
<1> QED
  BY <1>1, <1>2, PTL DEF Spec

(* SpaceReturned: once nothing waits, what the driver keeps is at most the *)
(* cell in front of the next frame.                                        *)
THEOREM RingGivenBack == Spec => []SpaceReturned
<1>1. ASSUME Ordered PROVE SpaceReturned
  <2> SUFFICES ASSUME EPKTCNT = 0 PROVE Free >= Size - 2
    BY DEF SpaceReturned
  <2>1. /\ ERXWRPT \in Index /\ ERXRDPT \in Index /\ handling = "no" /\ Used <= Gap + 1
    BY <1>1 DEF Ordered, Typed, Accounted
  <2>2. PICK q, at : Layout(q, at)
    BY <1>1 DEF Ordered
  <2>3. Len(q) = 0 /\ at[1] = nextPacketPtr /\ at[Len(q) + 1] = ERXWRPT
    BY <2>1, <2>2 DEF Layout, Spaced, Count
  <2>4. Gap = 0
    <3>1. ERXWRPT \in Int /\ at[1] = at[Len(q) + 1]
      BY <2>1, <2>3 DEF Index
    <3>2. Gap = Dist(ERXWRPT, ERXWRPT)
      BY <2>3, <3>1 DEF Gap
    <3>3. Dist(ERXWRPT, ERXWRPT) = IF ERXWRPT <= ERXWRPT THEN ERXWRPT - ERXWRPT ELSE (ERXWRPT - ERXWRPT) + Size
      BY <2>1, DistIs
    <3> QED
      BY <3>1, <3>2, <3>3
  <2>5. Used \in Int /\ Size \in Int
    BY <2>1, SizeType, DistIs DEF Used, Index
  <2>6. Free = (Size - 1) - Used
    BY <2>1, FreeIs DEF Free, Used
  <2> QED
    BY <2>1, <2>4, <2>5, <2>6
<1> QED
  BY <1>1, AlwaysOrdered, PTL

(* FramesInOrder: the driver and the chip implement the queue of frames.    *)
THEOREM QueueImplemented == Spec => FramesInOrder
<1>1. Init => Frames!Init
  BY FramesInit
<1>2. Ordered /\ [Next]_vars => [Frames!Next]_(Frames!vars)
  BY FramesStep
<1> QED
  BY <1>1, <1>2, AlwaysOrdered, PTL DEF Spec, FramesInOrder, Frames!Spec

-----------------------------------------------------------------------------
(* Registers *)

\* after[k] is what is selected behind the first k accesses.
Follows(after, b, accesses) ==
    after = [k \in 0 .. Len(accesses) |-> IF k = 0 THEN b ELSE Access(after[k - 1], accesses[k])]

LEMMA Followed ==
    ASSUME NEW b, NEW accesses, Len(accesses) \in Nat
    PROVE  \E after : Follows(after, b, accesses)
<1> DEFINE n == Len(accesses)
           To(g, k) == g = [i \in 0 .. k |-> IF i = 0 THEN b ELSE Access(g[i - 1], accesses[i])]
           S == {k \in 0 .. n : \E g : To(g, k)}
<1>1. 0 \in S
  <2>1. PICK g : g = [i \in 0 .. 0 |-> b]
    OBVIOUS
  <2>2. \A i \in 0 .. 0 : i = 0
    OBVIOUS
  <2>3. To(g, 0)
    BY <2>1, <2>2
  <2> QED
    BY <2>3
<1>2. ASSUME NEW k \in 1 .. n, k - 1 \in S PROVE k \in S
  <2>1. PICK g : To(g, k - 1)
    BY <1>2
  <2>2. PICK h : h = [i \in 0 .. k |-> IF i = k THEN Access(g[k - 1], accesses[k]) ELSE g[i]]
    OBVIOUS
  <2>3. ASSUME NEW i \in 0 .. k
        PROVE  h[i] = IF i = 0 THEN b ELSE Access(h[i - 1], accesses[i])
    <3>1. CASE i = k
      <4>1. k # 0 /\ k - 1 \in 0 .. k /\ k - 1 # k
        OBVIOUS
      <4>2. h[k] = Access(g[k - 1], accesses[k]) /\ h[k - 1] = g[k - 1]
        BY <2>2, <4>1
      <4> QED
        BY <3>1, <4>1, <4>2
    <3>2. CASE i # k
      <4>1. i \in 0 .. k - 1 /\ (i # 0 => i - 1 \in 0 .. k /\ i - 1 # k)
        BY <3>2
      <4>2. h[i] = g[i] /\ (i # 0 => h[i - 1] = g[i - 1])
        BY <2>2, <3>2, <4>1
      <4>3. g[i] = IF i = 0 THEN b ELSE Access(g[i - 1], accesses[i])
        BY <2>1, <4>1
      <4> QED
        BY <4>2, <4>3
    <3> QED
      BY <3>1, <3>2
  <2>4. h = [i \in 0 .. k |-> h[i]]
    BY <2>2
  <2>5. To(h, k)
    BY <2>3, <2>4
  <2> QED
    BY <2>5
<1> HIDE DEF To
<1>3. 0 .. n \subseteq S
  <2> HIDE DEF S, n
  <2>1. n \in Nat
    BY DEF n
  <2> QED
    BY <1>1, <1>2, <2>1, UpTo
<1>4. \E g : To(g, n)
  BY <1>3
<1> QED
  BY <1>4 DEF To, Follows

LEMMA BanksIs ==
    ASSUME NEW b, NEW accesses, Len(accesses) \in Nat
    PROVE  \E after : Follows(after, b, accesses) /\ Banks(b, accesses) = after[Len(accesses)]
<1> DEFINE after == CHOOSE g : Follows(g, b, accesses)
<1>1. Follows(after, b, accesses)
  BY Followed, Zenon
<1>2. Banks(b, accesses) = after[Len(accesses)]
  BY Zenon DEF Banks, Follows
<1> QED
  BY <1>1, <1>2, Zenon

\* The driver knows what is selected, and met every register.
Agreed(b) == b = [chip |-> b.driver, driver |-> b.driver, astray |-> b.astray] /\ ~b.astray

\* Behind the first m accesses each selects its bank, needs none, or meets a
\* register of the bank the one before it selected.
Proper(accesses, m) ==
    \A k \in m + 1 .. Len(accesses) :
        \/ accesses[k].bank
        \/ accesses[k].register \in AllBanks
        \/ /\ k - 1 > m /\ accesses[k - 1].bank
           /\ BankOf(accesses[k].register) = BankOf(accesses[k - 1].register)

LEMMA AccessAgreed ==
    ASSUME NEW b, Agreed(b), NEW a
    PROVE  /\ a.bank => Agreed(Access(b, a)) /\ Access(b, a).driver = BankOf(a.register)
           /\ ~a.bank /\ (a.register \in AllBanks \/ BankOf(a.register) = b.driver) => Access(b, a) = b
<1>1. PICK d, s : b = [chip |-> d, driver |-> d, astray |-> s] /\ ~s
  BY DEF Agreed
<1>2. b.chip = d /\ b.driver = d /\ b.astray = s
  BY <1>1
<1>3. PICK r : r = BankOf(a.register)
  OBVIOUS
<1>4. ASSUME a.bank
      PROVE  Access(b, a) = [chip |-> r, driver |-> r, astray |-> s]
  <2>1. SetBank(b, a.register) = [chip |-> r, driver |-> r, astray |-> s]
    <3>1. CASE r = d
      BY <1>1, <1>2, <1>3, <3>1 DEF SetBank
    <3>2. CASE r # d
      <4>1. SetBank(b, a.register) = [b EXCEPT !.chip = r, !.driver = r]
        BY <1>2, <1>3, <3>2 DEF SetBank
      <4>2. PICK g : g = [b EXCEPT !.chip = r]
        OBVIOUS
      <4>3. g = [chip |-> r, driver |-> d, astray |-> s]
        BY <1>1, <4>2
      <4>4. [g EXCEPT !.driver = r] = [chip |-> r, driver |-> r, astray |-> s]
        BY <4>3
      <4>5. [b EXCEPT !.chip = r, !.driver = r] = [g EXCEPT !.driver = r]
        BY <4>2
      <4> QED
        BY <4>1, <4>4, <4>5
    <3> QED
      BY <3>1, <3>2
  <2> QED
    BY <1>3, <1>4, <2>1 DEF Access, Op
<1>5. ASSUME ~a.bank, a.register \in AllBanks \/ r = d PROVE Access(b, a) = b
  BY <1>2, <1>3, <1>5 DEF Access, Op
<1>6. a.bank => Agreed(Access(b, a)) /\ Access(b, a).driver = r
  BY <1>1, <1>4 DEF Agreed
<1> QED
  BY <1>2, <1>3, <1>5, <1>6

LEMMA StaysAgreed ==
    ASSUME NEW b, NEW accesses, Len(accesses) \in Nat, NEW after, Follows(after, b, accesses),
           NEW m \in 0 .. Len(accesses), Agreed(after[m]), Proper(accesses, m)
    PROVE  Agreed(after[Len(accesses)])
<1> DEFINE n == Len(accesses)
           Good(k) ==
               k >= m => /\ Agreed(after[k])
                         /\ k > m /\ accesses[k].bank => after[k].driver = BankOf(accesses[k].register)
           S == {k \in 0 .. n : Good(k)}
<1>1. n \in Nat /\ m \in 0 .. n
  OBVIOUS
<1>2. \A k \in 1 .. n : after[k] = Access(after[k - 1], accesses[k])
  BY <1>1 DEF Follows
<1> HIDE DEF n
<1>3. 0 \in S
  BY <1>1
<1>4. ASSUME NEW k \in 1 .. n, k - 1 \in S PROVE k \in S
  <2>1. CASE k < m
    BY <1>1, <2>1
  <2>2. CASE k = m
    BY <1>1, <2>2
  <2>3. CASE k > m
    <3>1. k - 1 >= m /\ k \in m + 1 .. n /\ k - 1 \in 0 .. n
      BY <1>1, <2>3
    <3>2. Good(k - 1)
      BY <1>4
    <3>3. Agreed(after[k - 1])
      BY <3>1, <3>2
    <3>4. PICK x, a : x = after[k - 1] /\ a = accesses[k]
      OBVIOUS
    <3>5. after[k] = Access(x, a)
      BY <1>2, <3>4
    <3>6. /\ a.bank => Agreed(Access(x, a)) /\ Access(x, a).driver = BankOf(a.register)
          /\ ~a.bank /\ (a.register \in AllBanks \/ BankOf(a.register) = x.driver) => Access(x, a) = x
      BY <3>3, <3>4, AccessAgreed
    <3>7. \/ a.bank
          \/ a.register \in AllBanks
          \/ /\ k - 1 > m /\ accesses[k - 1].bank
             /\ BankOf(a.register) = BankOf(accesses[k - 1].register)
      BY <3>1, <3>4 DEF Proper, n
    <3>8. k - 1 > m /\ accesses[k - 1].bank => x.driver = BankOf(accesses[k - 1].register)
      BY <3>1, <3>2, <3>4
    <3>9. CASE a.bank
      BY <3>4, <3>5, <3>6, <3>9
    <3>10. CASE ~a.bank
      <4>1. Access(x, a) = x
        BY <3>6, <3>7, <3>8, <3>10
      <4> QED
        BY <3>3, <3>4, <3>5, <3>10, <4>1
    <3> QED
      BY <3>9, <3>10
  <2> QED
    BY <1>1, <2>1, <2>2, <2>3
<1>5. 0 .. n \subseteq S
  <2> HIDE DEF S
  <2> QED
    BY <1>1, <1>3, <1>4, UpTo
<1>6. Good(n) /\ n >= m
  BY <1>1, <1>5
<1> QED
  BY <1>6 DEF n

\* The inductive invariant of the banks.
Selected == chipBank = Enc28j60Bank /\ ~astray

LEMMA AccessedProperly ==
    ASSUME NEW accesses, Len(accesses) \in Nat, Proper(accesses, 0), Selected, Accessed(accesses)
    PROVE  Selected'
<1>1. PICK b : b = [chip |-> chipBank, driver |-> Enc28j60Bank, astray |-> astray]
  OBVIOUS
<1>2. /\ chipBank' = Banks(b, accesses).chip /\ Enc28j60Bank' = Banks(b, accesses).driver
      /\ astray' = Banks(b, accesses).astray
  BY <1>1 DEF Accessed, AccessedFrom
<1>3. Agreed(b)
  BY <1>1 DEF Agreed, Selected
<1>4. PICK after : Follows(after, b, accesses) /\ Banks(b, accesses) = after[Len(accesses)]
  BY BanksIs
<1>5. after[0] = b /\ 0 \in 0 .. Len(accesses)
  BY <1>4 DEF Follows
<1>6. Agreed(Banks(b, accesses))
  BY <1>3, <1>4, <1>5, StaysAgreed
<1> QED
  BY <1>2, <1>6 DEF Agreed, Selected

\* Behind the reset the chip's bank is 0, whatever the driver takes it to be.
LEMMA BeginProperly ==
    ASSUME Selected, begin
    PROVE  Selected'
<1>1. PICK driver : AccessedFrom(0, driver, Settings)
  BY DEF begin
<1>2. PICK b : b = [chip |-> 0, driver |-> driver, astray |-> astray]
  OBVIOUS
<1>3. /\ chipBank' = Banks(b, Settings).chip /\ Enc28j60Bank' = Banks(b, Settings).driver
      /\ astray' = Banks(b, Settings).astray
  BY <1>1, <1>2 DEF AccessedFrom
<1>4. /\ Len(Settings) = 28 /\ 2 \in 0 .. 28
      /\ Settings[1] = Bare("ESTAT") /\ Settings[2] = Reg("ERXST")
  BY DEF Settings
<1>5. PICK after : Follows(after, b, Settings) /\ Banks(b, Settings) = after[Len(Settings)]
  <2>1. Len(Settings) \in Nat
    BY <1>4
  <2> QED
    BY <2>1, BanksIs
<1>6. after[0] = b /\ after[1] = Access(b, Settings[1]) /\ after[2] = Access(after[1], Settings[2])
  <2>1. /\ 0 \in 0 .. 28 /\ 1 \in 0 .. 28 /\ 2 \in 0 .. 28
        /\ 1 # 0 /\ 2 # 0 /\ 1 - 1 = 0 /\ 2 - 1 = 1
    OBVIOUS
  <2> QED
    BY <1>4, <1>5, <2>1 DEF Follows
<1>7. after[1] = b
  BY <1>4, <1>6 DEF Access, Op, Bare, AllBanks
<1>8. PICK s : s = astray /\ ~s
  BY DEF Selected
<1>9. after[2] = [chip |-> 0, driver |-> 0, astray |-> s]
  <2>1. BankOf("ERXST") = 0
    BY DEF BankOf
  <2>2. SetBank(b, "ERXST") = [chip |-> 0, driver |-> 0, astray |-> s]
    <3>1. CASE driver = 0
      BY <1>2, <1>8, <2>1, <3>1 DEF SetBank
    <3>2. CASE driver # 0
      <4>1. PICK g : g = [b EXCEPT !.chip = 0]
        OBVIOUS
      <4>2. g = [chip |-> 0, driver |-> driver, astray |-> s]
        BY <1>2, <1>8, <4>1
      <4>3. [g EXCEPT !.driver = 0] = [chip |-> 0, driver |-> 0, astray |-> s]
        BY <4>2
      <4>4. SetBank(b, "ERXST") = [g EXCEPT !.driver = 0]
        BY <1>2, <2>1, <3>2, <4>1 DEF SetBank
      <4> QED
        BY <4>3, <4>4
    <3> QED
      BY <3>1, <3>2
  <2>3. after[2] = Op(SetBank(b, "ERXST"), "ERXST")
    BY <1>4, <1>6, <1>7 DEF Access, Reg
  <2> QED
    BY <2>1, <2>2, <2>3 DEF Op
<1>10. Agreed(after[2])
  BY <1>8, <1>9 DEF Agreed
<1>11. Proper(Settings, 2)
  <2>1. ASSUME NEW k \in 3 .. 28, k # 12
        PROVE  Settings[k].bank \/ Settings[k].register \in AllBanks
    <3>1. /\ Settings[3].bank /\ Settings[4].bank /\ Settings[5].bank /\ Settings[6].bank /\ Settings[7].bank /\ Settings[8].bank
          /\ Settings[9].bank /\ Settings[10].bank /\ Settings[11].bank /\ Settings[13].bank /\ Settings[14].bank /\ Settings[15].bank
          /\ Settings[16].bank /\ Settings[17].bank /\ Settings[18].bank /\ Settings[19].bank /\ Settings[20].bank /\ Settings[21].bank
          /\ Settings[22].bank /\ Settings[23].bank /\ Settings[24].bank /\ Settings[25].bank /\ Settings[28].bank
      BY DEF Settings, Bare, Reg
    <3>2. Settings[26].register \in AllBanks /\ Settings[27].register \in AllBanks
      BY DEF Settings, Bare, AllBanks
    <3> QED
      BY <2>1, <3>1, <3>2
  <2>2. /\ Settings[11].bank /\ BankOf(Settings[12].register) = BankOf(Settings[11].register)
        /\ 12 - 1 = 11 /\ 11 > 2
    BY DEF Settings, Bare, Reg, BankOf
  <2> QED
    BY <1>4, <2>1, <2>2 DEF Proper
<1>12. Agreed(Banks(b, Settings))
  <2>1. Len(Settings) \in Nat /\ 2 \in 0 .. Len(Settings)
    BY <1>4
  <2> QED
    BY <1>5, <1>10, <1>11, <2>1, StaysAgreed
<1> QED
  BY <1>3, <1>12 DEF Agreed, Selected

LEMMA SequencesProper ==
    /\ \A r : Len(<<Reg(r)>>) \in Nat /\ Proper(<<Reg(r)>>, 0)
    /\ \A r, t : Len(<<Reg(r), Reg(t)>>) \in Nat /\ Proper(<<Reg(r), Reg(t)>>, 0)
    /\ Len(<<Bare("ECON2")>>) \in Nat /\ Proper(<<Bare("ECON2")>>, 0)
    /\ Len(LinkStatus) \in Nat /\ Proper(LinkStatus, 0)
<1>1. \A r : Len(<<Reg(r)>>) \in Nat /\ Proper(<<Reg(r)>>, 0)
  BY DEF Proper, Reg
<1>2. \A r, t : Len(<<Reg(r), Reg(t)>>) \in Nat /\ Proper(<<Reg(r), Reg(t)>>, 0)
  BY DEF Proper, Reg
<1>3. Len(<<Bare("ECON2")>>) \in Nat /\ Proper(<<Bare("ECON2")>>, 0)
  BY DEF Proper, Bare, AllBanks
<1>4. Len(LinkStatus) \in Nat /\ Proper(LinkStatus, 0)
  BY DEF Proper, Reg, LinkStatus
<1> QED
  BY <1>1, <1>2, <1>3, <1>4

LEMMA MoveProper ==
    ASSUME NEW len \in 0 .. 2
    PROVE  Len(Move(len)) \in Nat /\ Proper(Move(len), 0)
<1>1. CASE len = 0
  BY <1>1 DEF Move, Proper
<1>2. CASE len = 1
  BY <1>2, SequencesProper DEF Move
<1>3. CASE len = 2
  <2>1. Move(len) = <<Reg("EDMAST"), Reg("EDMADST"), Reg("EDMAND"), Bare("ECON1"), Bare("ECON1")>>
    BY <1>3 DEF Move
  <2> QED
    BY <2>1 DEF Proper, Reg, Bare, AllBanks
<1> QED
  BY <1>1, <1>2, <1>3

LEMMA ProperParts ==
    ASSUME NEW S, NEW x \in Seq(S), NEW y \in Seq(S), Proper(x, 0), Proper(y, 0)
    PROVE  x \o y \in Seq(S) /\ Proper(x \o y, 0)
<1> DEFINE n == Len(x)
           z == x \o y
<1>1. /\ z \in Seq(S) /\ Len(z) = n + Len(y) /\ n \in Nat /\ Len(y) \in Nat
      /\ \A i \in 1 .. n : z[i] = x[i]
      /\ \A i \in 1 .. Len(y) : z[n + i] = y[i]
  OBVIOUS
<1> HIDE DEF n, z
<1>2. ASSUME NEW k \in 1 .. Len(z)
      PROVE  \/ z[k].bank
             \/ z[k].register \in AllBanks
             \/ /\ k - 1 > 0 /\ z[k - 1].bank
                /\ BankOf(z[k].register) = BankOf(z[k - 1].register)
  <2>1. CASE k <= n
    <3>1. k \in 1 .. n /\ k \in 0 + 1 .. Len(x) /\ (k - 1 > 0 => k - 1 \in 1 .. n)
      BY <1>1, <2>1 DEF n
    <3> QED
      BY <1>1, <3>1 DEF Proper
  <2>2. CASE k > n
    <3>1. PICK i : i = k - n
      OBVIOUS
    <3>2. /\ i \in 1 .. Len(y) /\ i \in 0 + 1 .. Len(y) /\ k = n + i
          /\ i - 1 > 0 => i - 1 \in 1 .. Len(y) /\ k - 1 = n + (i - 1) /\ k - 1 > 0
      BY <1>1, <2>2, <3>1
    <3>3. z[k] = y[i] /\ (i - 1 > 0 => z[k - 1] = y[i - 1])
      BY <1>1, <3>2
    <3> QED
      BY <3>2, <3>3 DEF Proper
  <2> QED
    BY <1>1, <2>1, <2>2
<1>3. \A k \in 0 + 1 .. Len(z) : k \in 1 .. Len(z)
  BY <1>1
<1> QED
  BY <1>1, <1>2, <1>3 DEF Proper, z

LEMMA TransmissionProper ==
    ASSUME NEW error \in BOOLEAN
    PROVE  Len(Transmission(error)) \in Nat /\ Proper(Transmission(error), 0)
<1> DEFINE S == {Reg("EWRPT"), Reg("EIR"), Reg("ETXST"), Reg("ETXND"), Bare("ECON1"), Bare("EIR")}
           first == <<Reg("EWRPT"), Reg("EIR")>>
           reset == <<Bare("ECON1"), Bare("ECON1"), Bare("EIR")>>
           last == <<Reg("EWRPT"), Reg("ETXST"), Reg("ETXND"), Bare("ECON1")>>
           middle == IF error THEN reset ELSE <<>>
<1>1. first \in Seq(S) /\ reset \in Seq(S) /\ last \in Seq(S) /\ <<>> \in Seq(S)
  <2>1. /\ Reg("EWRPT") \in S /\ Reg("EIR") \in S /\ Reg("ETXST") \in S /\ Reg("ETXND") \in S
        /\ Bare("ECON1") \in S /\ Bare("EIR") \in S
    OBVIOUS
  <2> HIDE DEF S
  <2> QED
    BY <2>1
<1>2. Proper(first, 0) /\ Proper(reset, 0) /\ Proper(last, 0) /\ Proper(<<>>, 0)
  BY DEF Proper, Reg, Bare, AllBanks
<1>3. middle \in Seq(S) /\ Proper(middle, 0)
  BY <1>1, <1>2
<1>4. Transmission(error) = (first \o middle) \o last
  BY DEF Transmission
<1> HIDE DEF first, middle, last, S
<1>5. first \o middle \in Seq(S) /\ Proper(first \o middle, 0)
  BY <1>1, <1>2, <1>3, ProperParts
<1>6. (first \o middle) \o last \in Seq(S) /\ Proper((first \o middle) \o last, 0)
  BY <1>1, <1>2, <1>5, ProperParts
<1> QED
  BY <1>4, <1>6

LEMMA SelectedStep == Selected /\ [Next]_vars => Selected'
<1> SUFFICES ASSUME Selected, [Next]_vars PROVE Selected'
  OBVIOUS
<1>1. CASE \E f \in Frame : receive(f)
  BY <1>1 DEF receive, banks, Selected
<1>2. CASE loadAll \/ restNotLoaded
  BY <1>2 DEF loadAll, restNotLoaded, banks, Selected
<1>3. CASE nothingReceived
  BY <1>3, SequencesProper, AccessedProperly DEF nothingReceived
<1>4. CASE loadSample
  BY <1>4, SequencesProper, AccessedProperly DEF loadSample
<1>5. CASE releaseSpace
  BY <1>5, SequencesProper, AccessedProperly DEF releaseSpace
<1>6. CASE releaseCount
  BY <1>6, SequencesProper, AccessedProperly DEF releaseCount
<1>7. CASE \E error \in BOOLEAN : packetSend(error)
  BY <1>7, TransmissionProper, AccessedProperly DEF packetSend
<1>8. CASE \E len \in 0 .. 2 : moveMem(len)
  BY <1>8, MoveProper, AccessedProperly DEF moveMem
<1>9. CASE isLinkUp
  BY <1>9, SequencesProper, AccessedProperly DEF isLinkUp
<1>10. CASE begin
  BY <1>10, BeginProperly
<1>11. CASE UNCHANGED vars
  BY <1>11 DEF vars, banks, Selected
<1> QED
  BY <1>1, <1>2, <1>3, <1>4, <1>5, <1>6, <1>7, <1>8, <1>9, <1>10, <1>11 DEF Next

(* RegistersHit: between two routines the driver knows the bank that is     *)
(* selected, so that a routine need not know what ran before it.            *)
THEOREM EveryRegisterHit == Spec => []RegistersHit
<1>1. Init => Selected
  BY DEF Init, Selected
<1>2. Selected /\ [Next]_vars => Selected'
  BY SelectedStep
<1>3. Selected => RegistersHit
  BY DEF Selected, RegistersHit
<1> QED
  BY <1>1, <1>2, <1>3, PTL DEF Spec
=============================================================================
