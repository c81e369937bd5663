------------------------- MODULE SharedBufferProofs -------------------------
(* Proofs about SharedBuffer, for every set of instances, every capacity   *)
(* and every payload.                                                      *)
EXTENDS SharedBufferReads, FiniteSetTheorems, WellFoundedInduction, TLAPS

(* A header read back names a place in the ring, or no fragment at all.    *)
LEMMA NextIndexType ==
    ASSUME mem \in [Index -> Cell], NEW i \in Index
    PROVE  NextIndexAt(i) \subseteq Index \cup {None}
<1>1. mem[i] \in Cell
  OBVIOUS
<1>2. CASE mem[i].kind = "next"
  BY <1>1, <1>2 DEF Cell, NextIndexAt, NextCell, LengthCell, DataCell, FreeCell
<1>3. CASE mem[i].kind # "next"
  BY <1>3 DEF NextIndexAt
<1> QED
  BY <1>2, <1>3

(* What write() has room for: the clipped length and its header together   *)
(* never exceed the space left (SharedBuffer.cpp:128-132).                 *)
LEMMA ClipBound ==
    ASSUME TypeOK, NEW len \in 1 .. MaxLength, Clip(len) > 0
    PROVE  /\ Clip(len) \in 1 .. MaxLength
           /\ usedSpace + HeaderSize + Clip(len) <= Capacity
  BY SharedBufferAssumption DEF TypeOK, Clip, Available, HeaderSize

(* The bytes write() stores are a header and a payload, wherever the end   *)
(* of the ring splits them.                                                *)
LEMMA StoredType ==
    ASSUME TypeOK, NEW i \in Index, NEW last \in Index \cup {None},
           NEW len \in 1 .. MaxLength, NEW d \in Data
    PROVE  Stored(i, last, len, d) \in Cell
<1> DEFINE k == Offset(head, i)
<1>1. k \in 0 .. Capacity - 1
  BY SharedBufferAssumption DEF TypeOK, Offset, Index
<1>2. NextCell(head) \in Cell /\ NextCell(None) \in Cell /\ LengthCell(len) \in Cell
  BY DEF TypeOK, Cell
<1>3. ASSUME k # 0, k # 1, k < HeaderSize + len
      PROVE  DataCell(d, k - HeaderSize) \in Cell
  <2>1. k - HeaderSize \in 0 .. MaxLength - 1
    BY <1>1, <1>3, SharedBufferAssumption DEF HeaderSize
  <2> QED
    BY <2>1 DEF Cell
<1>4. mem[i] \in Cell
  BY DEF TypeOK
<1> HIDE DEF k
<1> QED
  BY <1>2, <1>3, <1>4 DEF Stored, k

LEMMA TypeInit == Init => TypeOK
<1>1. 0 \in Index /\ 0 \in 0 .. Capacity
  BY SharedBufferAssumption DEF Index, HeaderSize
<1>2. FreeCell \in Cell
  BY DEF Cell
<1> QED
  BY <1>1, <1>2, SharedBufferAssumption DEF Init, TypeOK

(* Emptying an instance keeps the types: what the destructor and flush()   *)
(* have in common.                                                         *)
LEMMA TypeEmptied ==
    ASSUME TypeOK, NEW b \in Buffers, Emptied(b), bufferList' \in Seq(Buffers)
    PROVE  TypeOK'
  BY DEF TypeOK, Emptied

(* Taking an item out of the list leaves a list of instances.              *)
LEMMA WithoutType ==
    ASSUME NEW list \in Seq(Buffers), NEW k \in 1 .. Len(list)
    PROVE  Without(list, k) \in Seq(Buffers)
<1>1. Len(list) - 1 \in Nat
  OBVIOUS
<1>2. Without(list, k) \in [1 .. Len(list) - 1 -> Buffers]
  BY DEF Without
<1> QED
  BY <1>1, <1>2

LEMMA TypeStep == TypeOK /\ [Next]_vars => TypeOK'
<1> SUFFICES ASSUME TypeOK, [Next]_vars PROVE TypeOK'
  OBVIOUS
<1>1. ASSUME NEW b \in Users, NEW len \in 1 .. MaxLength, NEW d \in Data, write(b, len, d)
      PROVE  TypeOK'
  <2> DEFINE n == Clip(len)
  <2>1. n \in 1 .. MaxLength /\ usedSpace + HeaderSize + n <= Capacity
    BY <1>1, ClipBound DEF write
  <2>2. b \in Buffers
    BY SharedBufferAssumption
  <2>3. head' \in Index /\ usedSpace' \in 0 .. Capacity
    <3>1. head' = Wrap(head + HeaderSize + n) /\ usedSpace' = usedSpace + HeaderSize + n
      BY <1>1 DEF write
    <3> HIDE DEF n
    <3> QED
      BY <2>1, <3>1, SharedBufferAssumption DEF TypeOK, Wrap, Index, HeaderSize
  <2>4. mem' \in [Index -> Cell]
    <3>1. \A i \in Index : Stored(i, lastWritten[b], n, d) \in Cell
      BY <2>1, <2>2, StoredType DEF TypeOK
    <3>2. mem' = [i \in Index |-> Stored(i, lastWritten[b], n, d)]
      BY <1>1 DEF write
    <3> HIDE DEF n
    <3> QED
      BY <3>1, <3>2
  <2>5. /\ nextRead' \in [Buffers -> Index \cup {None}]
        /\ lastWritten' \in [Buffers -> Index \cup {None}]
        /\ bufferList' \in Seq(Buffers)
    BY <1>1 DEF write, TypeOK
  <2> QED
    BY <2>3, <2>4, <2>5 DEF TypeOK
<1>2. ASSUME NEW b \in Buffers, release(b)
      PROVE  TypeOK'
  <2>1. nextRead[b] \in Index
    BY <1>2 DEF TypeOK, release, IsEmpty
  <2>2. NextIndexAt(nextRead[b]) \subseteq Index \cup {None}
    BY <2>1, NextIndexType DEF TypeOK
  <2>3. /\ nextRead' \in [Buffers -> Index \cup {None}]
        /\ lastWritten' \in [Buffers -> Index \cup {None}]
    BY <1>2, <2>2 DEF release, TypeOK
  <2>4. usedSpace' \in 0 .. Capacity
    BY <1>2 DEF release
  <2> QED
    BY <1>2, <2>3, <2>4 DEF release, TypeOK
<1>3. ASSUME NEW b \in Buffers, flush(b)
      PROVE  TypeOK'
  BY <1>3, TypeEmptied DEF flush, TypeOK
<1>4. ASSUME NEW b \in Buffers, construct(b)
      PROVE  TypeOK'
  <2>1. bufferList' \in Seq(Buffers)
    BY <1>4 DEF construct, TypeOK
  <2> QED
    BY <1>4, <2>1 DEF construct, TypeOK
<1>5. ASSUME NEW k \in 1 .. Len(bufferList), destroy(k)
      PROVE  TypeOK'
  <2>1. bufferList[k] \in Buffers
    BY DEF TypeOK
  <2>2. bufferList' \in Seq(Buffers)
    BY <1>5, WithoutType DEF destroy, TypeOK
  <2> QED
    BY <1>5, <2>1, <2>2, TypeEmptied DEF destroy
<1>6. CASE UNCHANGED vars
  BY <1>6 DEF vars, TypeOK
<1> QED
  BY <1>1, <1>2, <1>3, <1>4, <1>5, <1>6 DEF Next

(* In every reachable state the indices of the ring are indices of the     *)
(* ring, usedSpace never exceeds it, and every cell holds what a write put *)
(* there.                                                                  *)
THEOREM TypeCorrect == Spec => []TypeOK
  BY TypeInit, TypeStep, PTL DEF Spec

-----------------------------------------------------------------------------

(* release()'s recount covers every instance it looks at                   *)
(* (SharedBuffer.cpp:178-188).                                             *)
LEMMA RecountCovers ==
    ASSUME TypeOK, NEW nr \in [Buffers -> Index \cup {None}], NEW u \in 0 .. Capacity,
           IsRecount(u, nr), NEW k \in 1 .. Len(bufferList) - 1, nr[bufferList[k]] # None
    PROVE  IF nr[bufferList[k]] < head
           THEN head - nr[bufferList[k]] <= u
           ELSE head - nr[bufferList[k]] + Capacity <= u
<1> DEFINE b == bufferList[k]
<1>1. b \in Scanned(bufferList)
  BY DEF Scanned
<1>2. Distance(nr[b], head) \in Distances(nr)
  BY <1>1 DEF Distances
<1>3. Distance(nr[b], head) <= u
  BY <1>2 DEF IsRecount
<1>4. b \in Buffers
  BY DEF TypeOK
<1>5. nr[b] \in Index /\ head \in Index
  BY <1>4 DEF TypeOK
<1> HIDE DEF b
<1>6. IF nr[b] < head THEN head - nr[b] <= u ELSE head - nr[b] + Capacity <= u
  BY <1>3, <1>5, SharedBufferAssumption DEF Distance, Index
<1> QED
  BY <1>6 DEF b

(* Appending moves head away from every tail by exactly what usedSpace     *)
(* grows by, as long as the total fits.                                    *)
LEMMA BacklogGrows ==
    ASSUME NEW h \in Index, NEW t \in Index, NEW u \in 0 .. Capacity, NEW m \in 1 .. Capacity,
           u + m <= Capacity,
           (IF t < h THEN h - t ELSE h - t + Capacity) <= u
    PROVE  (IF t < Wrap(h + m) THEN Wrap(h + m) - t ELSE Wrap(h + m) - t + Capacity) <= u + m
  BY SharedBufferAssumption DEF Wrap, Index

(* The first fragment of an instance lies exactly its own length behind.   *)
LEMMA BacklogOfFirst ==
    ASSUME NEW h \in Index, NEW u \in 0 .. Capacity, NEW m \in 1 .. Capacity, u + m <= Capacity
    PROVE  (IF h < Wrap(h + m) THEN Wrap(h + m) - h ELSE Wrap(h + m) - h + Capacity) <= u + m
  BY SharedBufferAssumption DEF Wrap, Index

LEMMA SpaceInit == Init => SpaceAccounted
<1> SUFFICES ASSUME Init, NEW k \in 1 .. Len(bufferList) - 1 PROVE IsEmpty(bufferList[k])
  BY DEF SpaceAccounted
<1>1. bufferList[k] \in Buffers
  BY SharedBufferAssumption DEF Init
<1> QED
  BY <1>1 DEF Init, IsEmpty

(* Emptying an instance keeps every backlog covered: either nothing        *)
(* changes, or the recount covers them.                                    *)
LEMMA SpaceEmptied ==
    ASSUME TypeOK, SpaceAccounted, NEW b \in Buffers, Emptied(b),
           NEW k \in 1 .. Len(bufferList) - 1, nextRead'[bufferList[k]] # None
    PROVE  (IF nextRead'[bufferList[k]] < head'
            THEN head' - nextRead'[bufferList[k]]
            ELSE head' - nextRead'[bufferList[k]] + Capacity) <= usedSpace'
<1>1. nextRead' \in [Buffers -> Index \cup {None}] /\ head' = head
  BY DEF TypeOK, Emptied
<1>2. bufferList[k] \in Buffers
  BY DEF TypeOK
<1>3. CASE IsEmpty(b)
  <2>1. nextRead' = nextRead /\ usedSpace' = usedSpace
    BY <1>3 DEF Emptied, IsEmpty, TypeOK
  <2> QED
    BY <1>1, <2>1 DEF SpaceAccounted, IsEmpty, Backlog
<1>4. CASE ~IsEmpty(b)
  <2>1. usedSpace' \in 0 .. Capacity /\ IsRecount(usedSpace', nextRead')
    BY <1>4 DEF Emptied
  <2> QED
    BY <1>1, <2>1, RecountCovers
<1> QED
  BY <1>3, <1>4

LEMMA SpaceStep == TypeOK /\ SpaceAccounted /\ [Next]_vars => SpaceAccounted'
<1> SUFFICES ASSUME TypeOK, SpaceAccounted, [Next]_vars,
                    NEW k \in 1 .. Len(bufferList') - 1, nextRead'[bufferList'[k]] # None
             PROVE  (IF nextRead'[bufferList'[k]] < head'
                     THEN head' - nextRead'[bufferList'[k]]
                     ELSE head' - nextRead'[bufferList'[k]] + Capacity) <= usedSpace'
  BY DEF SpaceAccounted, IsEmpty, Backlog
<1>1. ASSUME NEW b \in Users, NEW len \in 1 .. MaxLength, NEW d \in Data, write(b, len, d)
      PROVE  (IF nextRead'[bufferList'[k]] < head'
              THEN head' - nextRead'[bufferList'[k]]
              ELSE head' - nextRead'[bufferList'[k]] + Capacity) <= usedSpace'
  <2> DEFINE n == Clip(len)
             m == HeaderSize + n
             c == bufferList[k]
  <2>0. n \in 1 .. MaxLength /\ usedSpace + HeaderSize + n <= Capacity
    BY <1>1, ClipBound DEF write
  <2>1. m \in 1 .. Capacity /\ usedSpace + m <= Capacity
    <3> HIDE DEF n
    <3> QED
      BY <2>0, SharedBufferAssumption DEF HeaderSize, TypeOK
  <2>2. bufferList' = bufferList /\ k \in 1 .. Len(bufferList) - 1 /\ c \in Buffers
    BY <1>1 DEF write, TypeOK
  <2>3. head' = Wrap(head + m) /\ usedSpace' = usedSpace + m
    <3>1. head' = Wrap(head + HeaderSize + n) /\ usedSpace' = usedSpace + HeaderSize + n
      BY <1>1 DEF write
    <3> HIDE DEF n
    <3>2. head + HeaderSize + n = head + m /\ usedSpace + HeaderSize + n = usedSpace + m
      BY <2>0 DEF HeaderSize, TypeOK, Index
    <3> QED
      BY <3>1, <3>2
  <2>4. CASE nextRead'[c] = nextRead[c]
    <3>1. nextRead[c] # None
      BY <2>2, <2>4
    <3>2. nextRead[c] \in Index /\ (IF nextRead[c] < head THEN head - nextRead[c]
                                    ELSE head - nextRead[c] + Capacity) <= usedSpace
      BY <2>2, <3>1 DEF SpaceAccounted, IsEmpty, Backlog, TypeOK
    <3> HIDE DEF m
    <3> QED
      BY <2>1, <2>2, <2>3, <2>4, <3>2, BacklogGrows DEF TypeOK
  <2>5. CASE nextRead'[c] = head
    <3> HIDE DEF m
    <3> QED
      BY <2>1, <2>2, <2>3, <2>5, BacklogOfFirst DEF TypeOK
  <2> QED
    BY <1>1, <2>2, <2>4, <2>5 DEF write, TypeOK
<1>2. ASSUME NEW b \in Buffers, release(b)
      PROVE  (IF nextRead'[bufferList'[k]] < head'
              THEN head' - nextRead'[bufferList'[k]]
              ELSE head' - nextRead'[bufferList'[k]] + Capacity) <= usedSpace'
  <2>1. /\ bufferList' = bufferList /\ head' = head
        /\ usedSpace' \in 0 .. Capacity /\ IsRecount(usedSpace', nextRead')
    BY <1>2 DEF release
  <2>2. nextRead' \in [Buffers -> Index \cup {None}]
    BY <1>2, TypeStep DEF TypeOK, Next
  <2> QED
    BY <2>1, <2>2, RecountCovers
<1>3. ASSUME NEW b \in Buffers, flush(b)
      PROVE  (IF nextRead'[bufferList'[k]] < head'
              THEN head' - nextRead'[bufferList'[k]]
              ELSE head' - nextRead'[bufferList'[k]] + Capacity) <= usedSpace'
  BY <1>3, SpaceEmptied DEF flush
<1>4. ASSUME NEW b \in Buffers, construct(b)
      PROVE  (IF nextRead'[bufferList'[k]] < head'
              THEN head' - nextRead'[bufferList'[k]]
              ELSE head' - nextRead'[bufferList'[k]] + Capacity) <= usedSpace'
  <2>1. bufferList' = <<b>> \o bufferList /\ nextRead' = [nextRead EXCEPT ![b] = None]
        /\ head' = head /\ usedSpace' = usedSpace
    BY <1>4 DEF construct
  <2>2. bufferList \in Seq(Buffers) /\ nextRead \in [Buffers -> Index \cup {None}]
    BY DEF TypeOK
  <2>3. k # 1
    BY <2>1, <2>2
  <2>4. k - 1 \in 1 .. Len(bufferList) - 1 /\ bufferList'[k] = bufferList[k - 1]
    BY <2>1, <2>2, <2>3
  <2>5. bufferList[k - 1] # b /\ bufferList[k - 1] \in Buffers
    BY <1>4, <2>2, <2>4 DEF construct, Constructed
  <2> QED
    BY <2>1, <2>2, <2>4, <2>5 DEF SpaceAccounted, IsEmpty, Backlog
<1>5. ASSUME NEW j \in 1 .. Len(bufferList), destroy(j)
      PROVE  (IF nextRead'[bufferList'[k]] < head'
              THEN head' - nextRead'[bufferList'[k]]
              ELSE head' - nextRead'[bufferList'[k]] + Capacity) <= usedSpace'
  <2>1. bufferList' = Without(bufferList, j) /\ Emptied(bufferList[j])
    BY <1>5 DEF destroy
  <2>2. bufferList \in Seq(Buffers) /\ bufferList[j] \in Buffers
    BY DEF TypeOK
  <2>3. Len(bufferList') = Len(bufferList) - 1
    <3>1. Len(bufferList) - 1 \in Nat
      BY <2>2
    <3> QED
      BY <2>1, <2>2, <3>1 DEF Without
  <2>4. PICK i \in 1 .. Len(bufferList) - 1 : bufferList'[k] = bufferList[i]
    <3>1. k \in 1 .. Len(bufferList) - 2
      BY <2>2, <2>3
    <3>2. bufferList'[k] = IF k < j THEN bufferList[k] ELSE bufferList[k + 1]
      BY <2>1, <2>2, <3>1 DEF Without
    <3>3. k \in 1 .. Len(bufferList) - 1 /\ k + 1 \in 1 .. Len(bufferList) - 1
      BY <2>2, <3>1
    <3> QED
      BY <3>2, <3>3
  <2> QED
    BY <2>1, <2>2, <2>4, SpaceEmptied
<1>6. CASE UNCHANGED vars
  BY <1>6 DEF vars, SpaceAccounted, IsEmpty, Backlog
<1> QED
  BY <1>1, <1>2, <1>3, <1>4, <1>5, <1>6 DEF Next

(* No instance but the oldest ever has its queued fragments written over:  *)
(* what usedSpace keeps write() away from covers all of them.              *)
THEOREM SpaceIsAccounted == Spec => []SpaceAccounted
  BY TypeInit, TypeStep, SpaceInit, SpaceStep, PTL DEF Spec

-----------------------------------------------------------------------------

\* An instance that has nothing to read has no last fragment to link to.
Forgotten == \A b \in Buffers : nextRead[b] = None => lastWritten[b] = None

\* Nothing is lost of the ring, and why: see write().
Returned == Forgotten /\ AllFreeWhenEmpty

(* The recount over empty instances is zero.                               *)
LEMMA RecountOfNone ==
    ASSUME TypeOK, NEW nr, NEW u \in 0 .. Capacity, IsRecount(u, nr),
           \A c \in Constructed : nr[c] = None
    PROVE  u = 0
<1>1. Scanned(bufferList) \subseteq Constructed
  <2>1. bufferList \in Seq(Buffers)
    BY DEF TypeOK
  <2> QED
    BY <2>1 DEF Scanned, Constructed
<1>2. Distances(nr) = {}
  BY <1>1 DEF Distances
<1> QED
  BY <1>2 DEF IsRecount

(* Emptying b keeps the invariant: the last release recounts.              *)
LEMMA ReturnedEmptied ==
    ASSUME TypeOK, Returned, NEW b \in Constructed, Emptied(b)
    PROVE  /\ Forgotten'
           /\ (\A c \in Constructed : nextRead'[c] = None) => usedSpace' = 0
<1>1. nextRead \in [Buffers -> Index \cup {None}] /\ lastWritten \in [Buffers -> Index \cup {None}]
  BY DEF TypeOK
<1>2. Forgotten'
  BY <1>1 DEF Returned, Forgotten, Emptied
<1>3. ASSUME \A c \in Constructed : nextRead'[c] = None
      PROVE  usedSpace' = 0
  <2>1. CASE IsEmpty(b) /\ usedSpace' = usedSpace
    <3>1. Constructed \subseteq Buffers
      BY DEF Constructed, TypeOK
    <3>2. \A c \in Constructed : IsEmpty(c)
      BY <1>1, <1>3, <2>1, <3>1 DEF Emptied, IsEmpty
    <3> QED
      BY <2>1, <3>2 DEF Returned, AllFreeWhenEmpty
  <2>2. CASE \E u \in 0 .. Capacity : IsRecount(u, nextRead') /\ usedSpace' = u
    BY <1>3, <2>2, RecountOfNone
  <2> QED
    BY <2>1, <2>2 DEF Emptied
<1> QED
  BY <1>2, <1>3

LEMMA ReturnedInit == Init => Returned
  BY DEF Init, Returned, Forgotten, AllFreeWhenEmpty

LEMMA ReturnedStep == TypeOK /\ Returned /\ [Next]_vars => Returned'
<1> SUFFICES ASSUME TypeOK, Returned, [Next]_vars
             PROVE  Returned'
  OBVIOUS
<1>0. /\ nextRead \in [Buffers -> Index \cup {None}]
      /\ lastWritten \in [Buffers -> Index \cup {None}]
      /\ Constructed \subseteq Buffers
      /\ head \in Index
      /\ None \notin Index
  BY SharedBufferAssumption DEF TypeOK, Constructed, None, Index
<1>1. ASSUME NEW b \in Users, NEW len \in 1 .. MaxLength, NEW d \in Data, write(b, len, d)
      PROVE  Returned'
  <2>1. b \in Constructed /\ bufferList' = bufferList
        /\ nextRead' = (IF lastWritten[b] = None THEN [nextRead EXCEPT ![b] = head] ELSE nextRead)
        /\ lastWritten' = [lastWritten EXCEPT ![b] = head]
    BY <1>1 DEF write
  <2>2. nextRead'[b] # None
    BY <1>0, <2>1 DEF Returned, Forgotten
  <2>3. ~(\A c \in Constructed : IsEmpty(c))'
    BY <2>1, <2>2 DEF Constructed, IsEmpty
  <2>4. Forgotten'
    BY <1>0, <2>1, <2>2 DEF Returned, Forgotten
  <2> QED
    BY <2>3, <2>4 DEF Returned, AllFreeWhenEmpty
<1>2. ASSUME NEW b \in Buffers, release(b)
      PROVE  Returned'
  <2>1. PICK next \in NextIndexAt(nextRead[b]) :
          /\ nextRead' = [nextRead EXCEPT ![b] = next]
          /\ lastWritten' = IF next = None THEN [lastWritten EXCEPT ![b] = None] ELSE lastWritten
    BY <1>2 DEF release
  <2>2. Forgotten'
    BY <1>0, <2>1 DEF Returned, Forgotten
  <2>3. Constructed' = Constructed
    BY <1>2 DEF release, Constructed
  <2>4. (\A c \in Constructed : nextRead'[c] = None) => usedSpace' = 0
    BY <1>2, RecountOfNone DEF release
  <2> QED
    BY <2>2, <2>3, <2>4 DEF Returned, AllFreeWhenEmpty, IsEmpty
<1>3. ASSUME NEW b \in Buffers, flush(b)
      PROVE  Returned'
  <2>1. b \in Constructed /\ Emptied(b) /\ Constructed' = Constructed
    BY <1>3 DEF flush, Constructed
  <2> QED
    BY <2>1, ReturnedEmptied DEF Returned, AllFreeWhenEmpty, IsEmpty
<1>4. ASSUME NEW b \in Buffers, construct(b)
      PROVE  Returned'
  <2>1. /\ b \notin Constructed
        /\ bufferList' = <<b>> \o bufferList
        /\ nextRead' = [nextRead EXCEPT ![b] = None]
        /\ lastWritten' = [lastWritten EXCEPT ![b] = None]
        /\ usedSpace' = usedSpace
    BY <1>4 DEF construct
  <2>2. Forgotten'
    BY <1>0, <2>1 DEF Returned, Forgotten
  <2>3. Constructed \subseteq Constructed'
    <3>1. bufferList \in Seq(Buffers)
      BY DEF TypeOK
    <3>2. \A i \in 1 .. Len(bufferList) :
            i + 1 \in 1 .. Len(bufferList') /\ bufferList'[i + 1] = bufferList[i]
      BY <2>1, <3>1
    <3> QED
      BY <3>2 DEF Constructed
  <2>4. (\A c \in Constructed : IsEmpty(c))' => \A c \in Constructed : IsEmpty(c)
    BY <1>0, <2>1, <2>3 DEF IsEmpty
  <2> QED
    BY <2>1, <2>2, <2>4 DEF Returned, AllFreeWhenEmpty
<1>5. ASSUME NEW k \in 1 .. Len(bufferList), destroy(k)
      PROVE  Returned'
  <2>1. Emptied(bufferList[k]) /\ bufferList' = Without(bufferList, k)
    BY <1>5 DEF destroy
  <2>2. bufferList \in Seq(Buffers) /\ bufferList[k] \in Constructed
    BY DEF TypeOK, Constructed
  <2>3. nextRead'[bufferList[k]] = None
    BY <1>0, <2>1, <2>2 DEF Emptied
  <2>4. \A c \in Constructed : c = bufferList[k] \/ c \in Constructed'
    <3> SUFFICES ASSUME NEW i \in 1 .. Len(bufferList), i # k
                 PROVE  bufferList[i] \in Constructed'
      BY DEF Constructed
    <3>1. Len(bufferList) - 1 \in Nat
      BY <2>2
    <3>2. Len(bufferList') = Len(bufferList) - 1
      BY <2>1, <3>1 DEF Without
    <3>3. CASE i < k
      <4>1. i \in 1 .. Len(bufferList') /\ bufferList'[i] = bufferList[i]
        BY <2>1, <2>2, <3>2, <3>3 DEF Without
      <4> QED
        BY <4>1 DEF Constructed
    <3>4. CASE i > k
      <4>1. i - 1 \in 1 .. Len(bufferList') /\ bufferList'[i - 1] = bufferList[i]
        BY <2>1, <2>2, <3>2, <3>4 DEF Without
      <4> QED
        BY <4>1 DEF Constructed
    <3> QED
      BY <3>3, <3>4, <2>2
  <2> QED
    BY <2>1, <2>2, <2>3, <2>4, ReturnedEmptied DEF Returned, AllFreeWhenEmpty, IsEmpty
<1>6. CASE UNCHANGED vars
  BY <1>6 DEF vars, Returned, Forgotten, AllFreeWhenEmpty, Constructed, IsEmpty
<1> QED
  BY <1>1, <1>2, <1>3, <1>4, <1>5, <1>6 DEF Next

(* However fragmented the ring was, by whatever mixture of writes,         *)
(* releases, flushes, constructions and destructions: once every instance  *)
(* is empty all of it is available again.                                  *)
THEOREM AllSpaceReturns == Spec => []AllFreeWhenEmpty
<1>1. Returned => AllFreeWhenEmpty
  BY DEF Returned
<1> QED
  BY TypeInit, TypeStep, ReturnedInit, ReturnedStep, <1>1, PTL DEF Spec

-----------------------------------------------------------------------------
(* Induction over the natural numbers, from their being well-founded *)

LEMMA LeastOf ==
    ASSUME NEW T \in SUBSET Nat, T # {}
    PROVE  \E x \in T : \A y \in T : x <= y
<1> DEFINE R == {ss \in Nat \X Nat : ss[1] < ss[2]}
<1>1. IsWellFoundedOn(R, Nat)
  BY NatLessThanWellFounded DEF OpToRel
<1>2. \A x, y \in Nat : y < x => <<y, x>> \in R
  OBVIOUS
<1> HIDE DEF R
<1>3. PICK x \in T : \A y \in T : ~ (<<y, x>> \in R)
  BY <1>1, WFMin
<1>4. \A y \in T : ~ (y < x)
  BY <1>2, <1>3
<1>5. \A y \in T : x <= y
  BY <1>4
<1> QED
  BY <1>5

LEMMA UpTo ==
    ASSUME NEW n \in Nat, NEW S, 0 \in S, \A k \in 1 .. n : k - 1 \in S => k \in S
    PROVE  0 .. n \subseteq S
<1> DEFINE T == {k \in 0 .. n : k \notin S}
<1>1. SUFFICES ASSUME T # {} PROVE FALSE
  OBVIOUS
<1>2. PICK x \in T : \A y \in T : x <= y
  <2>1. T \in SUBSET Nat
    OBVIOUS
  <2> HIDE DEF T
  <2> QED
    BY <1>1, <2>1, LeastOf
<1>3. x \in 1 .. n /\ x - 1 \in 0 .. n /\ ~(x <= x - 1)
  OBVIOUS
<1>4. x - 1 \in S
  BY <1>2, <1>3
<1> QED
  BY <1>3, <1>4

-----------------------------------------------------------------------------
(* The chain of headers *)

\* c is the way from n by nextIndex.
Follows(memory, n, c) ==
    /\ n = IF c = <<>> THEN None ELSE c[1]
    /\ \A k \in 1 .. Len(c) : memory[c[k]] = NextCell(IF k < Len(c) THEN c[k + 1] ELSE None)

(* There is one way only: what fillTxBuffer follows.                       *)
LEMMA ChainIsUnique ==
    ASSUME NEW memory, NEW n, NEW c \in Seq(Index), Len(c) <= MaxFragments, Follows(memory, n, c)
    PROVE  ChainIn(memory, n) = c
<1> DEFINE at(k) == IF k < Len(c) THEN c[k + 1] ELSE None
           g == [k \in 0 .. MaxFragments |-> at(k)]
           hop == Hops(memory, n)
<1>1. MaxFragments \in Nat /\ Len(c) \in Nat
  BY SharedBufferAssumption DEF MaxFragments, HeaderSize
<1>2. \A i \in Index : i # None
  BY SharedBufferAssumption DEF Index, None
<1>3. n = at(0)
  BY <1>1 DEF Follows
<1>4. \A k \in 1 .. MaxFragments : at(k) = NextOf(memory, at(k - 1))
  <2> SUFFICES ASSUME NEW k \in 1 .. MaxFragments PROVE at(k) = NextOf(memory, at(k - 1))
    OBVIOUS
  <2>1. CASE k - 1 < Len(c)
    <3>1. k \in 1 .. Len(c) /\ at(k - 1) = c[k] /\ c[k] \in Index
      BY <1>1, <2>1
    <3>2. memory[c[k]] = NextCell(at(k))
      BY <3>1 DEF Follows
    <3> QED
      BY <1>2, <3>1, <3>2 DEF NextOf, NextCell
  <2>2. CASE ~(k - 1 < Len(c))
    <3>1. at(k - 1) = None /\ at(k) = None
      BY <1>1, <2>2
    <3> QED
      BY <3>1 DEF NextOf
  <2> QED
    BY <2>1, <2>2
<1>5. g = [k \in 0 .. MaxFragments |-> IF k = 0 THEN n ELSE NextOf(memory, g[k - 1])]
  <2>1. \A k \in 0 .. MaxFragments : g[k] = IF k = 0 THEN n ELSE NextOf(memory, g[k - 1])
    <3> SUFFICES ASSUME NEW k \in 0 .. MaxFragments
                 PROVE  g[k] = IF k = 0 THEN n ELSE NextOf(memory, g[k - 1])
      OBVIOUS
    <3>1. CASE k = 0
      BY <1>3, <3>1
    <3>2. CASE k # 0
      <4>1. k \in 1 .. MaxFragments /\ k - 1 \in 0 .. MaxFragments
        BY <1>1, <3>2
      <4>2. g[k] = at(k) /\ g[k - 1] = at(k - 1)
        BY <4>1
      <4> HIDE DEF g, at
      <4> QED
        BY <1>4, <3>2, <4>1, <4>2
    <3> QED
      BY <3>1, <3>2
  <2>2. g = [k \in 0 .. MaxFragments |-> g[k]]
    OBVIOUS
  <2> HIDE DEF g
  <2> QED
    BY <2>1, <2>2
<1>6. hop = [k \in 0 .. MaxFragments |-> IF k = 0 THEN n ELSE NextOf(memory, hop[k - 1])]
  <2> HIDE DEF g
  <2> QED
    BY <1>5, Zenon DEF Hops
<1> HIDE DEF hop, at
<1>7. \A k \in 0 .. MaxFragments : hop[k] = at(k)
  <2> DEFINE S == {k \in 0 .. MaxFragments : hop[k] = at(k)}
  <2>1. 0 \in S
    BY <1>1, <1>3, <1>6
  <2>2. ASSUME NEW k \in 1 .. MaxFragments, k - 1 \in S PROVE k \in S
    <3>1. hop[k] = NextOf(memory, hop[k - 1])
      BY <1>1, <1>6
    <3> QED
      BY <1>1, <1>4, <2>2, <3>1
  <2> HIDE DEF S
  <2>3. 0 .. MaxFragments \subseteq S
    BY <1>1, <2>1, <2>2, UpTo
  <2> QED
    BY <2>3 DEF S
<1> DEFINE steps == {k \in 0 .. MaxFragments - 1 : hop[k] # None /\ memory[hop[k]].kind = "next"}
<1>8. steps = 0 .. Len(c) - 1
  <2>1. ASSUME NEW k \in 0 .. MaxFragments - 1, k < Len(c)
        PROVE  hop[k] # None /\ memory[hop[k]].kind = "next"
    <3>1. k + 1 \in 1 .. Len(c) /\ hop[k] = c[k + 1] /\ c[k + 1] \in Index
      BY <1>1, <1>7, <2>1 DEF at
    <3>2. \E i : memory[c[k + 1]] = NextCell(i)
      BY <3>1 DEF Follows
    <3>3. memory[c[k + 1]].kind = "next"
      BY <3>2 DEF NextCell
    <3> QED
      BY <1>2, <3>1, <3>3
  <2>2. ASSUME NEW k \in 0 .. MaxFragments - 1, ~(k < Len(c))
        PROVE  hop[k] = None
    BY <1>1, <1>7, <2>2 DEF at
  <2>3. \A k \in 0 .. MaxFragments - 1 : k \in steps <=> k < Len(c)
    BY <2>1, <2>2
  <2>4. \A k : k \in 0 .. Len(c) - 1 <=> k \in 0 .. MaxFragments - 1 /\ k < Len(c)
    BY <1>1
  <2> QED
    BY <2>3, <2>4
<1>9. Cardinality(steps) = Len(c)
  <2>1. Cardinality(0 .. Len(c) - 1) = Len(c)
    <3>1. Len(c) - 1 \in Int
      BY <1>1
    <3>2. Cardinality(0 .. Len(c) - 1) = IF 0 > Len(c) - 1 THEN 0 ELSE Len(c) - 1 - 0 + 1
      BY <3>1, FS_Interval
    <3> QED
      BY <1>1, <3>2
  <2> HIDE DEF steps
  <2> QED
    BY <1>8, <2>1
<1>10. ChainIn(memory, n) = [k \in 1 .. Len(c) |-> hop[k - 1]]
  BY <1>9, Zenon DEF ChainIn, hop
<1>11. \A k \in 1 .. Len(c) : hop[k - 1] = c[k]
  BY <1>1, <1>7 DEF at
<1>12. c = [k \in 1 .. Len(c) |-> c[k]]
  OBVIOUS
<1> QED
  BY <1>10, <1>11, <1>12

-----------------------------------------------------------------------------
(* What lies where in the ring *)

\* Cells from i up to head: how far behind head a header is.
BackFrom(hd, i) == IF i < hd THEN hd - i ELSE hd - i + Capacity

\* The cells that the fragment with its header at i takes.
Room(i) == HeaderSize + LengthAt(i)

\* The fragment at j begins where the one at i has ended, or later.
Behind(i, j) == BackFrom(head, i) - Room(i) >= BackFrom(head, j)

\* A header with its length and its payload behind it is what write() left.
Whole(i) ==
    \E len \in 1 .. MaxLength, d \in Data :
        /\ mem[Wrap(i + 1)] = LengthCell(len)
        /\ \A j \in 0 .. len - 1 : mem[Wrap(i + HeaderSize + j)] = DataCell(d, j)

\* b can reach the fragments of c, from the first to the last.
Linked(b, c) ==
    /\ Follows(mem, nextRead[b], c)
    /\ lastWritten[b] = IF c = <<>> THEN None ELSE c[Len(c)]

\* The k-th fragment of c is whole and lies, with all that follow it, in the
\* part of the ring that usedSpace accounts for.
Placed(c, k) ==
    /\ Whole(c[k])
    /\ Room(c[k]) <= BackFrom(head, c[k])
    /\ BackFrom(head, c[k]) <= usedSpace
    /\ (HeaderSize + 1) * (Len(c) - k + 1) <= BackFrom(head, c[k])

\* The fragments of each instance are those of chains, in order, and no two of
\* them, of one instance or of two, share a cell.
Layout(chains) ==
    /\ \A b \in Buffers : Linked(b, chains[b])
    /\ \A b \in Buffers : \A k \in 1 .. Len(chains[b]) : Placed(chains[b], k)
    /\ \A b \in Buffers : \A j, k \in 1 .. Len(chains[b]) :
            j < k => Behind(chains[b][j], chains[b][k])
    /\ \A a, b \in Buffers : \A j \in 1 .. Len(chains[a]), k \in 1 .. Len(chains[b]) :
            a # b => Behind(chains[a][j], chains[b][k]) \/ Behind(chains[b][k], chains[a][j])
    /\ \A b \in Buffers : b \notin Constructed => chains[b] = <<>>

Oldest == Static[Len(Static)]
OldestKept == bufferList # <<>> /\ bufferList[Len(bufferList)] = Oldest

\* The inductive invariant.
Threaded ==
    /\ OldestKept
    /\ \E chains \in [Buffers -> Seq(Index)] : Layout(chains) /\ chains[Oldest] = <<>>

(* Going on from a header, one comes nearer to head.                       *)
LEMMA CellsBehind ==
    ASSUME NEW hd \in Index, NEW i \in Index, NEW j \in Nat, j < BackFrom(hd, i)
    PROVE  /\ Wrap(i + j) \in Index
           /\ BackFrom(hd, Wrap(i + j)) = BackFrom(hd, i) - j
  BY SharedBufferAssumption DEF Wrap, Index, BackFrom

LEMMA BackType ==
    ASSUME NEW hd \in Index, NEW i \in Index
    PROVE  /\ BackFrom(hd, i) \in 1 .. Capacity
           /\ Offset(hd, i) = Capacity - BackFrom(hd, i)
  BY SharedBufferAssumption DEF Index, BackFrom, Offset

(* A cell is where it is because of how far it is behind head.             *)
LEMMA BackIsPlace ==
    ASSUME NEW hd \in Index, NEW i \in Index, NEW j \in Index, BackFrom(hd, i) = BackFrom(hd, j)
    PROVE  i = j
  BY SharedBufferAssumption DEF Index, BackFrom

(* A write moves head on.                                                  *)
LEMMA HeadMoves ==
    ASSUME NEW hd \in Index, NEW i \in Index, NEW m \in 1 .. Capacity
    PROVE  /\ Wrap(hd + m) \in Index
           /\ BackFrom(hd, i) + m <= Capacity => BackFrom(Wrap(hd + m), i) = BackFrom(hd, i) + m
           /\ BackFrom(Wrap(hd + m), hd) = m
  BY SharedBufferAssumption DEF Index, BackFrom, Wrap

(* A fragment that is whole has a length.                                  *)
LEMMA WholeLength ==
    ASSUME NEW i, Whole(i)
    PROVE  LengthAt(i) \in 1 .. MaxLength /\ Room(i) \in Nat /\ Room(i) >= HeaderSize + 1
<1>1. PICK len \in 1 .. MaxLength : mem[Wrap(i + 1)] = LengthCell(len)
  BY DEF Whole
<1>2. LengthAt(i) = len
  BY <1>1 DEF LengthAt, LengthCell
<1> QED
  BY <1>2, SharedBufferAssumption DEF Room, HeaderSize

(* What write() stores, and where.                                         *)
LEMMA NewFragment ==
    ASSUME TypeOK, NEW last \in Index \cup {None}, last # head, NEW len \in Nat, NEW d,
           HeaderSize + len <= Capacity
    PROVE  /\ Stored(head, last, len, d) = NextCell(None)
           /\ last # Wrap(head + 1) => Stored(Wrap(head + 1), last, len, d) = LengthCell(len)
           /\ \A j \in 0 .. len - 1 :
                 last # Wrap(head + HeaderSize + j)
                    => Stored(Wrap(head + HeaderSize + j), last, len, d) = DataCell(d, j)
<1>1. head \in Index
  BY DEF TypeOK
<1>2. Offset(head, head) = 0
  BY <1>1 DEF Offset, Index
<1>3. ASSUME NEW j \in 0 .. Capacity - 1 PROVE Offset(head, Wrap(head + j)) = j
  BY <1>1, <1>3, SharedBufferAssumption DEF Offset, Wrap, Index
<1>4. Stored(head, last, len, d) = NextCell(None)
  BY <1>2 DEF Stored
<1>5. ASSUME last # Wrap(head + 1) PROVE Stored(Wrap(head + 1), last, len, d) = LengthCell(len)
  <2>1. Offset(head, Wrap(head + 1)) = 1
    BY <1>3, SharedBufferAssumption DEF HeaderSize
  <2> QED
    BY <1>5, <2>1 DEF Stored
<1>6. ASSUME NEW j \in 0 .. len - 1, last # Wrap(head + HeaderSize + j)
      PROVE  Stored(Wrap(head + HeaderSize + j), last, len, d) = DataCell(d, j)
  <2> DEFINE k == HeaderSize + j
  <2>1. k \in 0 .. Capacity - 1 /\ head + HeaderSize + j = head + k
        /\ k # 0 /\ k # 1 /\ k < HeaderSize + len /\ k - HeaderSize = j
    BY <1>1, SharedBufferAssumption DEF HeaderSize, Index
  <2>2. Offset(head, Wrap(head + k)) = k
    BY <1>3, <2>1
  <2> HIDE DEF k
  <2> QED
    BY <1>6, <2>1, <2>2 DEF Stored
<1> QED
  BY <1>4, <1>5, <1>6

(* Nothing else changes but the header of the last fragment.               *)
LEMMA RestOfRing ==
    ASSUME TypeOK, NEW last, NEW len \in Nat, NEW d, NEW i \in Index, i # last,
           BackFrom(head, i) <= usedSpace, usedSpace + HeaderSize + len <= Capacity
    PROVE  Stored(i, last, len, d) = mem[i]
<1>1. head \in Index /\ usedSpace \in 0 .. Capacity
  BY DEF TypeOK
<1>2. Offset(head, i) \in Int /\ Offset(head, i) >= HeaderSize + len
  <2>1. BackFrom(head, i) \in 1 .. Capacity /\ Offset(head, i) = Capacity - BackFrom(head, i)
    BY <1>1, BackType
  <2> HIDE DEF BackFrom, Offset
  <2> QED
    BY <1>1, <2>1, SharedBufferAssumption DEF HeaderSize
<1> QED
  BY <1>2 DEF Stored, HeaderSize

-----------------------------------------------------------------------------
(* The steps *)

LEMMA Places ==
    ASSUME NEW i \in Index
    PROVE  /\ Wrap(i + 0) = i
           /\ \A j \in Nat : i + (HeaderSize + j) = i + HeaderSize + j
  BY SharedBufferAssumption DEF Wrap, Index, HeaderSize

LEMMA Apart ==
    ASSUME NEW c \in [Buffers -> Seq(Index)], Layout(c),
           NEW a \in Buffers, NEW j \in 1 .. Len(c[a]), NEW b \in Buffers, NEW k \in 1 .. Len(c[b]),
           ~(a = b /\ j = k)
    PROVE  Behind(c[a][j], c[b][k]) \/ Behind(c[b][k], c[a][j])
<1>1. CASE a # b
  BY <1>1 DEF Layout
<1>2. CASE a = b
  <2>1. j < k \/ k < j
    BY <1>2
  <2> QED
    BY <1>2, <2>1 DEF Layout
<1> QED
  BY <1>1, <1>2

(* What Layout says of one fragment.                                       *)
LEMMA FragmentPlaced ==
    ASSUME TypeOK, NEW c \in [Buffers -> Seq(Index)], Layout(c),
           NEW b \in Buffers, NEW k \in 1 .. Len(c[b])
    PROVE  /\ c[b][k] \in Index /\ Whole(c[b][k])
           /\ BackFrom(head, c[b][k]) \in 1 .. Capacity
           /\ Room(c[b][k]) \in Nat /\ Room(c[b][k]) >= HeaderSize + 1
           /\ Room(c[b][k]) <= BackFrom(head, c[b][k])
           /\ BackFrom(head, c[b][k]) <= usedSpace
<1>1. c[b] \in Seq(Index)
  OBVIOUS
<1>2. c[b][k] \in Index
  BY <1>1
<1>3. Placed(c[b], k)
  BY DEF Layout
<1> QED
  BY <1>2, <1>3, WholeLength, BackType DEF Placed, TypeOK

(* The header of the last fragment is none of another one's cells.         *)
LEMMA LastIsElsewhere ==
    ASSUME TypeOK, NEW c \in [Buffers -> Seq(Index)], Layout(c),
           NEW a \in Buffers, NEW j \in 1 .. Len(c[a]), NEW b \in Buffers, NEW k \in 1 .. Len(c[b]),
           NEW i \in Nat, i < Room(c[b][k]), i > 0 \/ ~(a = b /\ j = k)
    PROVE  /\ Wrap(c[b][k] + i) \in Index
           /\ BackFrom(head, Wrap(c[b][k] + i)) <= usedSpace
           /\ Wrap(c[b][k] + i) # c[a][j]
<1> DEFINE x == c[b][k]
           y == c[a][j]
<1>1. /\ x \in Index /\ Room(x) \in Nat /\ Room(x) <= BackFrom(head, x)
      /\ BackFrom(head, x) <= usedSpace /\ BackFrom(head, x) \in 1 .. Capacity
  BY FragmentPlaced
<1>2. /\ y \in Index /\ Room(y) \in Nat /\ Room(y) >= HeaderSize + 1
      /\ BackFrom(head, y) \in 1 .. Capacity
  BY FragmentPlaced
<1>3. (a = b /\ j = k) \/ Behind(x, y) \/ Behind(y, x)
  BY Apart
<1>4. a = b /\ j = k => x = y
  OBVIOUS
<1> HIDE DEF x, y
<1>5. /\ Wrap(x + i) \in Index
      /\ BackFrom(head, Wrap(x + i)) = BackFrom(head, x) - i
  <2>1. i < BackFrom(head, x)
    BY <1>1 DEF x
  <2> QED
    BY <1>1, <2>1, CellsBehind DEF TypeOK
<1>6. BackFrom(head, Wrap(x + i)) # BackFrom(head, y)
  <2> HIDE DEF BackFrom
  <2>1. CASE Behind(x, y)
    BY <1>1, <1>2, <1>5, <2>1 DEF Behind, x
  <2>2. CASE Behind(y, x)
    BY <1>1, <1>2, <1>5, <2>2 DEF Behind, HeaderSize
  <2>3. CASE i > 0 /\ x = y
    BY <1>1, <1>2, <1>5, <2>3
  <2> QED
    BY <1>3, <1>4, <2>1, <2>2, <2>3
<1>7. BackFrom(head, Wrap(x + i)) <= usedSpace
  <2>1. usedSpace \in 0 .. Capacity
    BY DEF TypeOK
  <2> HIDE DEF BackFrom
  <2> QED
    BY <1>1, <1>5, <2>1
<1> QED
  BY <1>5, <1>6, <1>7 DEF x, y

LEMMA LayoutWrite ==
    ASSUME TypeOK, NEW c \in [Buffers -> Seq(Index)], Layout(c),
           NEW b \in Users, NEW len \in 1 .. MaxLength, NEW d \in Data, write(b, len, d),
           NEW h, h = head, NEW e, e = [c EXCEPT ![b] = Append(c[b], h)]
    PROVE  /\ e \in [Buffers -> Seq(Index)]
           /\ Layout(e)'
           /\ \A a \in Buffers : \A k \in 1 .. Len(c[a]) : Payload(c[a][k])' = Payload(c[a][k])
           /\ \E f \in FragmentsOf : Payload(h)' = f
<1> DEFINE n == Clip(len)
           m == HeaderSize + n
           last == lastWritten[b]
<1>1. n \in 1 .. MaxLength /\ n \in Nat /\ m \in 1 .. Capacity /\ usedSpace + HeaderSize + n <= Capacity
      /\ usedSpace + m <= Capacity /\ HeaderSize + n <= Capacity
  <2>1. n \in 1 .. MaxLength /\ usedSpace + HeaderSize + n <= Capacity
    BY ClipBound DEF write
  <2> HIDE DEF n
  <2> QED
    BY <2>1, SharedBufferAssumption DEF HeaderSize, TypeOK
<1>2. /\ head \in Index /\ h = head /\ Capacity \in Nat /\ usedSpace \in 0 .. Capacity /\ b \in Buffers /\ b \in Constructed
      /\ bufferList' = bufferList
  BY SharedBufferAssumption DEF TypeOK, write
<1>3. head' = Wrap(head + m) /\ usedSpace' = usedSpace + m
  <2>1. head' = Wrap(head + HeaderSize + n) /\ usedSpace' = usedSpace + HeaderSize + n
    BY DEF write
  <2> HIDE DEF n
  <2>2. head + HeaderSize + n = head + m /\ usedSpace + HeaderSize + n = usedSpace + m
    BY <1>1, <1>2 DEF HeaderSize, Index
  <2> QED
    BY <2>1, <2>2
<1>4. mem' = [i \in Index |-> Stored(i, last, n, d)]
  BY DEF write
<1>5. /\ nextRead' = IF last = None THEN [nextRead EXCEPT ![b] = head] ELSE nextRead
      /\ lastWritten' = [lastWritten EXCEPT ![b] = head]
  BY DEF write
<1>6. /\ nextRead \in [Buffers -> Index \cup {None}]
      /\ lastWritten \in [Buffers -> Index \cup {None}]
      /\ last \in Index \cup {None}
  BY <1>2 DEF TypeOK
<1> HIDE DEF n, last
<1>7. c[b] = <<>> \/ (Len(c[b]) \in 1 .. Len(c[b]) /\ last = c[b][Len(c[b])])
  BY <1>2 DEF Layout, Linked, last
<1>8. c[b] = <<>> => last = None
  BY <1>2 DEF Layout, Linked, last
<1>9. head # None /\ None \notin Index
  BY <1>2, SharedBufferAssumption DEF Index, None
(* Every place of a fragment is further behind, by what was written.       *)
<1>10. \A a \in Buffers : \A k \in 1 .. Len(c[a]) :
          BackFrom(head', c[a][k]) = BackFrom(head, c[a][k]) + m
  <2> SUFFICES ASSUME NEW a \in Buffers, NEW k \in 1 .. Len(c[a])
               PROVE  BackFrom(head', c[a][k]) = BackFrom(head, c[a][k]) + m
    OBVIOUS
  <2>1. /\ c[a][k] \in Index /\ BackFrom(head, c[a][k]) \in 1 .. Capacity
        /\ BackFrom(head, c[a][k]) <= usedSpace
    BY FragmentPlaced
  <2> HIDE DEF m, BackFrom
  <2>2. BackFrom(head, c[a][k]) + m <= Capacity
    BY <1>1, <1>2, <2>1
  <2> QED
    BY <1>1, <1>2, <1>3, <2>1, <2>2, HeadMoves
<1>11. BackFrom(head', h) = m
  <2> HIDE DEF m
  <2> QED
    BY <1>1, <1>2, <1>3, HeadMoves
(* Only the last header changes.                                           *)
<1>12. \A a \in Buffers : \A k \in 1 .. Len(c[a]) : \A i \in Nat :
          i < Room(c[a][k]) /\ (i > 0 \/ ~(a = b /\ k = Len(c[a])))
             => mem'[Wrap(c[a][k] + i)] = mem[Wrap(c[a][k] + i)]
  <2> SUFFICES ASSUME NEW a \in Buffers, NEW k \in 1 .. Len(c[a]), NEW i \in Nat,
                      i < Room(c[a][k]), i > 0 \/ ~(a = b /\ k = Len(c[a]))
               PROVE  mem'[Wrap(c[a][k] + i)] = mem[Wrap(c[a][k] + i)]
    OBVIOUS
  <2> DEFINE p == Wrap(c[a][k] + i)
  <2>1. p \in Index /\ BackFrom(head, p) <= usedSpace /\ p # last
    <3>1. CASE c[b] = <<>>
      <4>1. /\ c[a][k] \in Index /\ Room(c[a][k]) \in Nat /\ Room(c[a][k]) <= BackFrom(head, c[a][k])
            /\ BackFrom(head, c[a][k]) <= usedSpace /\ BackFrom(head, c[a][k]) \in 1 .. Capacity
        BY FragmentPlaced
      <4> HIDE DEF BackFrom
      <4>2. i < BackFrom(head, c[a][k])
        BY <4>1
      <4>3. p \in Index /\ BackFrom(head, p) = BackFrom(head, c[a][k]) - i
        BY <1>2, <4>1, <4>2, CellsBehind
      <4>4. BackFrom(head, p) <= usedSpace
        BY <1>2, <4>1, <4>3
      <4> QED
        BY <1>8, <1>9, <3>1, <4>3, <4>4
    <3>2. CASE Len(c[b]) \in 1 .. Len(c[b]) /\ last = c[b][Len(c[b])]
      <4>1. i > 0 \/ ~(b = a /\ Len(c[b]) = k)
        OBVIOUS
      <4> QED
        BY <1>2, <3>2, <4>1, LastIsElsewhere
    <3> QED
      BY <1>7, <3>1, <3>2
  <2> HIDE DEF p
  <2>2. Stored(p, last, n, d) = mem[p]
    BY <1>1, <2>1, RestOfRing
  <2> QED
    BY <1>4, <2>1, <2>2 DEF p
<1>13. /\ mem'[h] = NextCell(None)
       /\ mem'[Wrap(h + 1)] = LengthCell(n)
       /\ \A j \in 0 .. n - 1 : mem'[Wrap(h + HeaderSize + j)] = DataCell(d, j)
  <2>1. last # None => BackFrom(head, last) \in 1 .. Capacity /\ BackFrom(head, last) <= usedSpace
    BY <1>2, <1>7, <1>8, FragmentPlaced
  <2>2. \A j \in 0 .. m - 1 : Wrap(head + j) \in Index /\ last # Wrap(head + j)
    <3> SUFFICES ASSUME NEW j \in 0 .. m - 1
                 PROVE  Wrap(head + j) \in Index /\ last # Wrap(head + j)
      OBVIOUS
    <3> HIDE DEF m
    <3>1. BackFrom(head, head) = Capacity
      BY <1>2, SharedBufferAssumption DEF BackFrom, Index
    <3>2. Wrap(head + j) \in Index /\ BackFrom(head, Wrap(head + j)) = Capacity - j
      <4>1. j \in Nat /\ j < Capacity
        BY <1>1, <1>2
      <4> QED
        BY <1>2, <3>1, <4>1, CellsBehind
    <3> HIDE DEF BackFrom
    <3>3. usedSpace < Capacity - j
      BY <1>1, <1>2
    <3> QED
      BY <1>1, <1>2, <1>9, <2>1, <3>2, <3>3
  <2>3. Wrap(head + 0) = head
    BY <1>2, SharedBufferAssumption DEF Wrap, Index
  <2>4. head \in Index /\ last # head
    <3>1. 0 \in 0 .. m - 1
      BY <1>1
    <3> HIDE DEF m
    <3> QED
      BY <2>2, <2>3, <3>1
  <2>5. Wrap(head + 1) \in Index /\ last # Wrap(head + 1)
    <3>1. 1 \in 0 .. m - 1
      BY <1>1 DEF HeaderSize
    <3> HIDE DEF m
    <3> QED
      BY <2>2, <3>1
  <2>6. \A j \in 0 .. n - 1 : Wrap(head + HeaderSize + j) \in Index /\ last # Wrap(head + HeaderSize + j)
    <3> SUFFICES ASSUME NEW j \in 0 .. n - 1
                 PROVE  Wrap(head + HeaderSize + j) \in Index /\ last # Wrap(head + HeaderSize + j)
      OBVIOUS
    <3>1. HeaderSize + j \in 0 .. m - 1 /\ head + HeaderSize + j = head + (HeaderSize + j)
      BY <1>1, <1>2 DEF HeaderSize, Index
    <3> HIDE DEF m
    <3> QED
      BY <2>2, <3>1
  <2> QED
    BY <1>1, <1>4, <1>6, <2>4, <2>5, <2>6, NewFragment
<1>14. last # None => mem'[last] = NextCell(head)
  <2>1. last # None => last \in Index
    BY <1>6
  <2> QED
    BY <1>4, <2>1 DEF Stored
(* The new chains.                                                         *)
<1>15. /\ e \in [Buffers -> Seq(Index)]
       /\ \A a \in Buffers : a # b => e[a] = c[a]
       /\ e[b] = Append(c[b], h) /\ Len(e[b]) = Len(c[b]) + 1 /\ e[b] # <<>>
       /\ e[b][Len(c[b]) + 1] = h
       /\ \A k \in 1 .. Len(c[b]) : e[b][k] = c[b][k]
  <2>1. c[b] \in Seq(Index) /\ Append(c[b], h) \in Seq(Index)
    BY <1>2
  <2>2. e \in [Buffers -> Seq(Index)]
    BY <2>1
  <2>3. \A a \in Buffers : a # b => e[a] = c[a]
    OBVIOUS
  <2>4. e[b] = Append(c[b], h)
    BY <1>2
  <2> QED
    BY <1>2, <2>1, <2>2, <2>3, <2>4
<1>16. \A a \in Buffers : \A k \in 1 .. Len(e[a]) :
          \/ k \in 1 .. Len(c[a]) /\ e[a][k] = c[a][k]
          \/ a = b /\ k = Len(c[b]) + 1 /\ e[a][k] = h
  BY <1>2, <1>15
<1>17. \A a \in Buffers : \A k \in 1 .. Len(c[a]) : LengthAt(c[a][k])' = LengthAt(c[a][k])
  <2> SUFFICES ASSUME NEW a \in Buffers, NEW k \in 1 .. Len(c[a])
               PROVE  LengthAt(c[a][k])' = LengthAt(c[a][k])
    OBVIOUS
  <2>1. 1 < Room(c[a][k])
    BY FragmentPlaced DEF HeaderSize
  <2> QED
    BY <1>12, <2>1 DEF LengthAt
<1>18. LengthAt(h)' = n
  BY <1>13 DEF LengthAt, LengthCell
<1>19. \A a \in Buffers : \A k \in 1 .. Len(c[a]) : Room(c[a][k])' = Room(c[a][k])
  BY <1>17 DEF Room
<1>20. Room(h)' = m
  BY <1>18 DEF Room
<1>21. \A a \in Buffers : \A k \in 1 .. Len(c[a]) : Whole(c[a][k])'
  <2> SUFFICES ASSUME NEW a \in Buffers, NEW k \in 1 .. Len(c[a]) PROVE Whole(c[a][k])'
    OBVIOUS
  <2> DEFINE x == c[a][k]
  <2>1. x \in Index /\ Whole(x) /\ Room(x) = HeaderSize + LengthAt(x)
    BY FragmentPlaced DEF Room
  <2>2. PICK l \in 1 .. MaxLength, q \in Data :
          /\ mem[Wrap(x + 1)] = LengthCell(l)
          /\ \A j \in 0 .. l - 1 : mem[Wrap(x + HeaderSize + j)] = DataCell(q, j)
    BY <2>1 DEF Whole
  <2>3. LengthAt(x) = l
    BY <2>2 DEF LengthAt, LengthCell
  <2>4. mem'[Wrap(x + 1)] = LengthCell(l)
    <3>1. 1 < Room(x)
      BY <2>1, <2>3 DEF HeaderSize
    <3> QED
      BY <1>12, <2>2, <3>1
  <2>5. ASSUME NEW j \in 0 .. l - 1 PROVE mem'[Wrap(x + HeaderSize + j)] = DataCell(q, j)
    <3>1. HeaderSize + j \in Nat /\ HeaderSize + j < Room(x) /\ HeaderSize + j > 0
      BY <2>1, <2>3 DEF HeaderSize
    <3>2. mem'[Wrap(x + (HeaderSize + j))] = mem[Wrap(x + (HeaderSize + j))]
      BY <1>12, <3>1
    <3>3. x + (HeaderSize + j) = x + HeaderSize + j
      BY <2>1, Places
    <3> QED
      BY <2>2, <3>2, <3>3
  <2> QED
    BY <2>4, <2>5 DEF Whole
<1>22. Whole(h)'
  BY <1>1, <1>13 DEF Whole
<1>23. \A a \in Buffers : Linked(a, e[a])'
  <2> SUFFICES ASSUME NEW a \in Buffers PROVE Linked(a, e[a])'
    OBVIOUS
  <2>1. Linked(a, c[a]) /\ c[a] \in Seq(Index) /\ e[a] \in Seq(Index)
    BY <1>15 DEF Layout
  <2>2. CASE a # b
    <3>1. e[a] = c[a] /\ nextRead'[a] = nextRead[a] /\ lastWritten'[a] = lastWritten[a]
      BY <1>5, <1>6, <1>15, <2>2
    <3>2. \A k \in 1 .. Len(c[a]) : mem'[c[a][k]] = mem[c[a][k]]
      <4> SUFFICES ASSUME NEW k \in 1 .. Len(c[a]) PROVE mem'[c[a][k]] = mem[c[a][k]]
        OBVIOUS
      <4>1. Wrap(c[a][k] + 0) = c[a][k] /\ 0 < Room(c[a][k])
        <5>1. c[a][k] \in Index /\ Room(c[a][k]) \in Nat /\ Room(c[a][k]) >= HeaderSize + 1
          BY FragmentPlaced
        <5>2. 0 < Room(c[a][k])
          BY <5>1 DEF HeaderSize
        <5> QED
          BY <5>1, <5>2, Places
      <4>2. mem'[Wrap(c[a][k] + 0)] = mem[Wrap(c[a][k] + 0)]
        BY <1>12, <2>2, <4>1, Zenon
      <4> QED
        BY <4>1, <4>2, Zenon
    <3> QED
      BY <2>1, <3>1, <3>2 DEF Linked, Follows
  <2>3. CASE a = b
    <3>1. lastWritten'[b] = head /\ e[b][Len(e[b])] = head
      BY <1>2, <1>5, <1>6, <1>15
    <3>2. nextRead'[b] = e[b][1]
      <4>1. CASE c[b] = <<>>
        BY <1>2, <1>5, <1>6, <1>8, <1>15, <4>1
      <4>2. CASE c[b] # <<>>
        <5>1. 1 \in 1 .. Len(c[b]) /\ Len(c[b]) \in 1 .. Len(c[b]) /\ c[b][Len(c[b])] \in Index
          BY <2>1, <2>3, <4>2
        <5>2. last # None
          BY <1>7, <1>9, <4>2, <5>1
        <5> QED
          BY <1>5, <1>15, <2>1, <2>3, <4>2, <5>1, <5>2 DEF Linked, Follows
      <4> QED
        BY <4>1, <4>2
    <3>3. ASSUME NEW k \in 1 .. Len(e[b])
          PROVE  mem'[e[b][k]] = NextCell(IF k < Len(e[b]) THEN e[b][k + 1] ELSE None)
      <4>1. CASE k = Len(c[b]) + 1
        BY <1>13, <1>15, <2>1, <2>3, <4>1
      <4>2. CASE k = Len(c[b]) /\ k # Len(c[b]) + 1
        <5>1. k \in 1 .. Len(c[b]) /\ c[b] # <<>>
          BY <2>1, <2>3, <4>2
        <5>2. last = c[b][k] /\ last # None
          BY <1>7, <1>9, <2>1, <2>3, <4>2, <5>1
        <5>3. e[b][k] = last /\ k < Len(e[b]) /\ e[b][k + 1] = head
          BY <1>15, <2>1, <2>3, <4>2, <5>1, <5>2
        <5> QED
          BY <1>14, <5>2, <5>3
      <4>3. CASE k < Len(c[b])
        <5>1. /\ k \in 1 .. Len(c[b]) /\ k + 1 \in 1 .. Len(c[b])
              /\ e[b][k] = c[b][k] /\ e[b][k + 1] = c[b][k + 1]
              /\ k < Len(e[b])
          BY <1>15, <2>1, <2>3, <4>3
        <5>2. Wrap(c[b][k] + 0) = c[b][k] /\ 0 < Room(c[b][k])
          <6>1. c[b][k] \in Index /\ Room(c[b][k]) \in Nat /\ Room(c[b][k]) >= HeaderSize + 1
            BY <1>2, <5>1, FragmentPlaced
          <6>2. 0 < Room(c[b][k])
            BY <6>1 DEF HeaderSize
          <6> QED
            BY <6>1, <6>2, Places
        <5>3. mem'[c[b][k]] = mem[c[b][k]]
          <6>1. b \in Buffers /\ 0 \in Nat /\ ~(b = b /\ k = Len(c[b]) /\ 0 = 0)
            BY <1>2, <4>3, <5>1
          <6>2. mem'[Wrap(c[b][k] + 0)] = mem[Wrap(c[b][k] + 0)]
            BY <1>12, <5>1, <5>2, <6>1
          <6> QED
            BY <5>2, <6>2
        <5> QED
          BY <2>1, <2>3, <4>3, <5>1, <5>3 DEF Linked, Follows
      <4> QED
        BY <1>15, <2>1, <2>3, <4>1, <4>2, <4>3
    <3> QED
      BY <1>15, <2>3, <3>1, <3>2, <3>3 DEF Linked, Follows
  <2> QED
    BY <2>2, <2>3
<1>24. \A a \in Buffers : \A k \in 1 .. Len(e[a]) : Placed(e[a], k)'
  <2> SUFFICES ASSUME NEW a \in Buffers, NEW k \in 1 .. Len(e[a]) PROVE Placed(e[a], k)'
    OBVIOUS
  <2>1. CASE k \in 1 .. Len(c[a]) /\ e[a][k] = c[a][k]
    <3>1. /\ Placed(c[a], k) /\ Room(c[a][k]) \in Nat /\ BackFrom(head, c[a][k]) \in 1 .. Capacity
      BY <2>1, FragmentPlaced DEF Layout
    <3>2. /\ Whole(c[a][k])' /\ Room(c[a][k])' = Room(c[a][k])
          /\ BackFrom(head', c[a][k]) = BackFrom(head, c[a][k]) + m
      BY <1>10, <1>19, <1>21, <2>1
    <3>3. Len(e[a]) = Len(c[a]) \/ Len(e[a]) = Len(c[a]) + 1
      BY <1>15
    <3>4. Len(c[a]) \in Nat /\ m \in Nat /\ m >= HeaderSize + 1
      BY <1>1 DEF HeaderSize
    <3> HIDE DEF BackFrom, m, Room
    <3>5. (HeaderSize + 1) * (Len(e[a]) - k + 1) <= BackFrom(head', c[a][k])
      BY <2>1, <3>1, <3>2, <3>3, <3>4 DEF Placed, HeaderSize
    <3> QED
      BY <1>2, <1>3, <2>1, <3>1, <3>2, <3>4, <3>5 DEF Placed
  <2>2. CASE a = b /\ k = Len(c[b]) + 1 /\ e[a][k] = h
    <3>1. (HeaderSize + 1) * (Len(e[a]) - k + 1) <= m
      BY <1>1, <1>15, <2>2 DEF HeaderSize
    <3>2. m \in Nat /\ m <= usedSpace'
      BY <1>1, <1>2, <1>3
    <3> HIDE DEF BackFrom, m, Room
    <3> QED
      BY <1>11, <1>20, <1>22, <2>2, <3>1, <3>2 DEF Placed
  <2> QED
    BY <1>16, <2>1, <2>2
(* Behind every old fragment, the new one is in front.                     *)
<1>25. \A a \in Buffers : \A j \in 1 .. Len(c[a]) : Behind(c[a][j], h)'
  <2> SUFFICES ASSUME NEW a \in Buffers, NEW j \in 1 .. Len(c[a]) PROVE Behind(c[a][j], h)'
    OBVIOUS
  <2>1. /\ Room(c[a][j]) \in Nat /\ BackFrom(head, c[a][j]) \in 1 .. Capacity
        /\ Room(c[a][j]) <= BackFrom(head, c[a][j])
        /\ Room(c[a][j])' = Room(c[a][j])
        /\ BackFrom(head', c[a][j]) = BackFrom(head, c[a][j]) + m
    BY <1>10, <1>19, FragmentPlaced
  <2> HIDE DEF BackFrom, m, Room
  <2> QED
    BY <1>1, <1>11, <2>1 DEF Behind
<1>26. \A a1, a2 \in Buffers : \A j \in 1 .. Len(c[a1]), k \in 1 .. Len(c[a2]) :
          Behind(c[a1][j], c[a2][k]) => Behind(c[a1][j], c[a2][k])'
  <2> SUFFICES ASSUME NEW a1 \in Buffers, NEW a2 \in Buffers, NEW j \in 1 .. Len(c[a1]),
                      NEW k \in 1 .. Len(c[a2]), Behind(c[a1][j], c[a2][k])
               PROVE  Behind(c[a1][j], c[a2][k])'
    OBVIOUS
  <2>1. /\ Room(c[a1][j]) \in Nat /\ BackFrom(head, c[a1][j]) \in 1 .. Capacity
        /\ BackFrom(head, c[a2][k]) \in 1 .. Capacity
        /\ Room(c[a1][j])' = Room(c[a1][j])
        /\ BackFrom(head', c[a1][j]) = BackFrom(head, c[a1][j]) + m
        /\ BackFrom(head', c[a2][k]) = BackFrom(head, c[a2][k]) + m
    BY <1>10, <1>19, FragmentPlaced
  <2> HIDE DEF BackFrom, m, Room
  <2> QED
    BY <1>1, <2>1 DEF Behind
<1>27. \A a \in Buffers : \A j, k \in 1 .. Len(e[a]) : j < k => Behind(e[a][j], e[a][k])'
  <2> SUFFICES ASSUME NEW a \in Buffers, NEW j \in 1 .. Len(e[a]), NEW k \in 1 .. Len(e[a]), j < k
               PROVE  Behind(e[a][j], e[a][k])'
    OBVIOUS
  <2>1. j \in 1 .. Len(c[a]) /\ e[a][j] = c[a][j]
    BY <1>15, <1>16
  <2>2. CASE k \in 1 .. Len(c[a]) /\ e[a][k] = c[a][k]
    <3>1. Behind(c[a][j], c[a][k])
      BY <2>1, <2>2 DEF Layout
    <3> QED
      BY <1>26, <2>1, <2>2, <3>1
  <2>3. CASE e[a][k] = h
    BY <1>25, <2>1, <2>3
  <2> QED
    BY <1>16, <2>2, <2>3
<1>28. ASSUME NEW a1 \in Buffers, NEW a2 \in Buffers, NEW j \in 1 .. Len(e[a1]),
              NEW k \in 1 .. Len(e[a2]), a1 # a2
       PROVE  (Behind(e[a1][j], e[a2][k]) \/ Behind(e[a2][k], e[a1][j]))'
  <2>1. CASE j \in 1 .. Len(c[a1]) /\ e[a1][j] = c[a1][j] /\ k \in 1 .. Len(c[a2]) /\ e[a2][k] = c[a2][k]
    <3>1. Behind(c[a1][j], c[a2][k]) \/ Behind(c[a2][k], c[a1][j])
      BY <1>28, <2>1, Apart
    <3> QED
      BY <1>26, <2>1, <3>1
  <2>2. CASE j \in 1 .. Len(c[a1]) /\ e[a1][j] = c[a1][j] /\ e[a2][k] = h
    BY <1>25, <1>28, <2>2
  <2>3. CASE e[a1][j] = h /\ k \in 1 .. Len(c[a2]) /\ e[a2][k] = c[a2][k]
    BY <1>25, <1>28, <2>3
  <2> QED
    BY <1>16, <1>28, <2>1, <2>2, <2>3
<1>29. \A a \in Buffers : a \notin Constructed' => e[a] = <<>>
  <2>1. Constructed' = Constructed
    BY <1>2 DEF Constructed
  <2> QED
    BY <1>2, <1>15, <2>1 DEF Layout
<1>30. Layout(e)'
  BY <1>23, <1>24, <1>27, <1>28, <1>29 DEF Layout
<1>31. ASSUME NEW a \in Buffers, NEW k \in 1 .. Len(c[a])
       PROVE  Payload(c[a][k])' = Payload(c[a][k])
  <2> DEFINE x == c[a][k]
  <2>1. x \in Index /\ LengthAt(x)' = LengthAt(x) /\ LengthAt(x) \in 1 .. MaxLength
        /\ Room(x) = HeaderSize + LengthAt(x)
    BY <1>17, FragmentPlaced, WholeLength DEF Room
  <2>2. ASSUME NEW i \in 1 .. LengthAt(x)
        PROVE  mem'[Wrap(x + HeaderSize + i - 1)] = mem[Wrap(x + HeaderSize + i - 1)]
    <3> DEFINE j == HeaderSize + i - 1
    <3>1. j \in Nat /\ j < Room(x) /\ j > 0 /\ x + HeaderSize + i - 1 = x + j
      BY <2>1 DEF Index, HeaderSize
    <3> HIDE DEF j
    <3> QED
      BY <1>12, <3>1
  <2> QED
    BY <2>1, <2>2 DEF Payload
<1>32. \E f \in FragmentsOf : Payload(h)' = f
  <2>1. Payload(h)' = [k \in 1 .. n |-> mem'[Wrap(h + HeaderSize + k - 1)]]
    BY <1>18 DEF Payload
  <2>2. ASSUME NEW k \in 1 .. n PROVE mem'[Wrap(h + HeaderSize + k - 1)] = DataCell(d, k - 1)
    <3>1. k - 1 \in 0 .. n - 1 /\ h + HeaderSize + k - 1 = h + HeaderSize + (k - 1)
      BY <1>1, <1>2 DEF Index, HeaderSize
    <3> QED
      BY <1>13, <3>1
  <2>3. Payload(h)' = [k \in 1 .. n |-> DataCell(d, k - 1)]
    BY <2>1, <2>2
  <2> QED
    BY <1>1, <2>3 DEF FragmentsOf
<1> QED
  BY <1>15, <1>30, <1>31, <1>32

(* The layout is about the ring: nothing else may disturb it but an        *)
(* instance that goes, and that one has nothing queued.                    *)
LEMMA LayoutKept ==
    ASSUME TypeOK, NEW c \in [Buffers -> Seq(Index)], Layout(c),
           UNCHANGED <<head, usedSpace, nextRead, lastWritten, mem>>,
           \A a \in Buffers : a \notin Constructed' => c[a] = <<>>
    PROVE  /\ Layout(c)'
           /\ \A a \in Buffers : \A k \in 1 .. Len(c[a]) : Payload(c[a][k])' = Payload(c[a][k])
<1>1. \A a \in Buffers : Linked(a, c[a])'
  BY DEF Layout, Linked, Follows
<1>2. \A i : LengthAt(i)' = LengthAt(i)
  BY DEF LengthAt
<1>3. \A i : Whole(i)' <=> Whole(i)
  BY DEF Whole
<1>4. \A i : Room(i)' = Room(i)
  BY <1>2 DEF Room
<1>5. \A a \in Buffers : \A k \in 1 .. Len(c[a]) : Placed(c[a], k)'
  <2> SUFFICES ASSUME NEW a \in Buffers, NEW k \in 1 .. Len(c[a]) PROVE Placed(c[a], k)'
    OBVIOUS
  <2>1. Placed(c[a], k)
    BY DEF Layout
  <2> QED
    BY <1>3, <1>4, <2>1 DEF Placed
<1>6. \A i, j : Behind(i, j)' <=> Behind(i, j)
  BY <1>4 DEF Behind
<1>7. Layout(c)'
  BY <1>1, <1>5, <1>6 DEF Layout
<1>8. \A i : Payload(i)' = Payload(i)
  BY <1>2 DEF Payload
<1> QED
  BY <1>7, <1>8

LEMMA NotEmpty ==
    ASSUME NEW S, NEW q \in Seq(S)
    PROVE  /\ q = <<>> <=> Len(q) = 0
           /\ Len(q) \in Nat
           /\ \A k \in 1 .. Len(q) : q[k] \in S /\ q # <<>> /\ 1 \in 1 .. Len(q)
  OBVIOUS

(* Every instance but the oldest is one that release() looks at, so its    *)
(* fragments are within what the recount finds.                            *)
LEMMA Recounted ==
    ASSUME TypeOK, OldestKept, NEW nr \in [Buffers -> Index \cup {None}],
           NEW u \in 0 .. Capacity, IsRecount(u, nr),
           NEW a \in Constructed, a # Oldest, nr[a] # None
    PROVE  BackFrom(head, nr[a]) <= u
<1>1. bufferList \in Seq(Buffers) /\ bufferList # <<>>
  BY DEF TypeOK, OldestKept
<1>2. PICK k \in 1 .. Len(bufferList) : bufferList[k] = a
  BY DEF Constructed
<1>3. k # Len(bufferList)
  BY <1>2 DEF OldestKept
<1>4. k \in 1 .. Len(bufferList) - 1
  BY <1>1, <1>3
<1>5. IF nr[a] < head THEN head - nr[a] <= u ELSE head - nr[a] + Capacity <= u
  BY <1>2, <1>4, RecountCovers
<1> QED
  BY <1>5 DEF BackFrom

\* The first s fragments of b go: release() drops one, flush() and the
\* destructor drop all.  An instance that is destroyed has none left.
Drops(b, s, c, e) ==
    /\ e = [c EXCEPT ![b] = SubSeq(c[b], s + 1, Len(c[b]))]
    /\ head' = head /\ mem' = mem
    /\ nextRead' = [nextRead EXCEPT ![b] = IF s < Len(c[b]) THEN c[b][s + 1] ELSE None]
    /\ lastWritten' = [lastWritten EXCEPT ![b] = IF s < Len(c[b]) THEN lastWritten[b] ELSE None]
    /\ IsRecount(usedSpace', nextRead')
    /\ \A a \in Buffers : a \notin Constructed' => a \notin Constructed \/ e[a] = <<>>

(* What stays of the layout.                                               *)
LEMMA LayoutDropped ==
    ASSUME TypeOK, TypeOK', OldestKept,
           NEW c \in [Buffers -> Seq(Index)], Layout(c), c[Oldest] = <<>>,
           NEW b \in Buffers, NEW s \in 1 .. Len(c[b]),
           NEW e, Drops(b, s, c, e)
    PROVE  /\ e \in [Buffers -> Seq(Index)]
           /\ e[Oldest] = <<>>
           /\ Layout(e)'
           /\ \A i : Payload(i)' = Payload(i)
<1>0. /\ e = [c EXCEPT ![b] = SubSeq(c[b], s + 1, Len(c[b]))]
      /\ head' = head /\ mem' = mem
      /\ nextRead' = [nextRead EXCEPT ![b] = IF s < Len(c[b]) THEN c[b][s + 1] ELSE None]
      /\ lastWritten' = [lastWritten EXCEPT ![b] = IF s < Len(c[b]) THEN lastWritten[b] ELSE None]
      /\ IsRecount(usedSpace', nextRead')
      /\ \A a \in Buffers : a \notin Constructed' => a \notin Constructed \/ e[a] = <<>>
  BY DEF Drops
<1>1. c[b] \in Seq(Index) /\ Len(c[b]) \in Nat /\ s \in 1 .. Len(c[b])
  OBVIOUS
<1>2. /\ SubSeq(c[b], s + 1, Len(c[b])) \in Seq(Index)
      /\ Len(SubSeq(c[b], s + 1, Len(c[b]))) = Len(c[b]) - s
      /\ \A k \in 1 .. Len(c[b]) - s : SubSeq(c[b], s + 1, Len(c[b]))[k] = c[b][s + k]
  <2>1. \A k \in 1 .. Len(c[b]) - s : s + 1 + k - 1 = s + k
    BY <1>1
  <2> QED
    BY <1>1, <2>1
<1>3. /\ e \in [Buffers -> Seq(Index)]
      /\ \A a \in Buffers : a # b => e[a] = c[a]
      /\ Len(e[b]) = Len(c[b]) - s
      /\ \A k \in 1 .. Len(c[b]) - s : e[b][k] = c[b][s + k]
  BY <1>0, <1>2
\* The k-th fragment that stays was the at(a, k)-th.
<1> DEFINE at(a, k) == IF a = b THEN s + k ELSE k
<1>4. \A a \in Buffers : \A k \in 1 .. Len(e[a]) :
          /\ at(a, k) \in 1 .. Len(c[a]) /\ e[a][k] = c[a][at(a, k)]
          /\ Len(e[a]) - k = Len(c[a]) - at(a, k)
          /\ \A j \in 1 .. Len(e[a]) : j < k => at(a, j) < at(a, k)
  <2> SUFFICES ASSUME NEW a \in Buffers, NEW k \in 1 .. Len(e[a])
               PROVE  /\ at(a, k) \in 1 .. Len(c[a]) /\ e[a][k] = c[a][at(a, k)]
                      /\ Len(e[a]) - k = Len(c[a]) - at(a, k)
                      /\ \A j \in 1 .. Len(e[a]) : j < k => at(a, j) < at(a, k)
    OBVIOUS
  <2>1. CASE a = b
    BY <1>1, <1>3, <2>1
  <2>2. CASE a # b
    <3>1. c[a] \in Seq(Index) /\ e[a] = c[a]
      BY <1>3, <2>2
    <3> QED
      BY <2>2, <3>1
  <2> QED
    BY <2>1, <2>2
<1> HIDE DEF at
<1>5. e[Oldest] = <<>>
  <2>1. b # Oldest
    BY <1>1
  <2>2. Oldest \in Buffers
    BY SharedBufferAssumption, OldestNeverWrites DEF Oldest
  <2> QED
    BY <1>3, <2>1, <2>2
<1>6. \A i : LengthAt(i)' = LengthAt(i)
  BY <1>0 DEF LengthAt
<1>7. \A i : (Whole(i)' <=> Whole(i)) /\ Room(i)' = Room(i) /\ Payload(i)' = Payload(i)
  BY <1>0, <1>6 DEF Whole, Room, Payload
<1>8. \A i, j : Behind(i, j)' <=> Behind(i, j)
  BY <1>0, <1>7 DEF Behind
<1>9. \A a \in Buffers : Linked(a, e[a])'
  <2> SUFFICES ASSUME NEW a \in Buffers PROVE Linked(a, e[a])'
    OBVIOUS
  <2>1. Linked(a, c[a]) /\ c[a] \in Seq(Index) /\ e[a] \in Seq(Index)
        /\ nextRead \in [Buffers -> Index \cup {None}] /\ lastWritten \in [Buffers -> Index \cup {None}]
    BY <1>3 DEF Layout, TypeOK
  <2>2. CASE a # b
    BY <1>0, <1>3, <2>1, <2>2 DEF Linked, Follows
  <2>3. CASE a = b
    <3>0. e[b] = <<>> <=> ~(s < Len(c[b]))
      <4>1. e[b] = <<>> <=> Len(e[b]) = 0
        BY <2>1, <2>3, NotEmpty
      <4> QED
        BY <1>1, <1>3, <4>1
    <3>1. nextRead'[b] = IF e[b] = <<>> THEN None ELSE e[b][1]
      <4>1. nextRead'[b] = IF s < Len(c[b]) THEN c[b][s + 1] ELSE None
        BY <1>0, <2>1
      <4>2. s < Len(c[b]) => e[b][1] = c[b][s + 1]
        <5>1. s < Len(c[b]) => 1 \in 1 .. Len(c[b]) - s
          BY <1>1
        <5> QED
          BY <1>3, <5>1
      <4> QED
        BY <3>0, <4>1, <4>2
    <3>2. lastWritten'[b] = IF e[b] = <<>> THEN None ELSE e[b][Len(e[b])]
      <4>1. CASE s < Len(c[b])
        <5>1. lastWritten'[b] = c[b][Len(c[b])]
          BY <1>0, <1>1, <2>1, <2>3, <4>1 DEF Linked
        <5>2. Len(e[b]) \in 1 .. Len(c[b]) - s /\ s + Len(e[b]) = Len(c[b])
          BY <1>1, <1>3, <4>1
        <5>3. e[b][Len(e[b])] = c[b][s + Len(e[b])]
          BY <1>3, <5>2
        <5> QED
          BY <3>0, <4>1, <5>1, <5>2, <5>3
      <4>2. CASE ~(s < Len(c[b]))
        BY <1>0, <2>1, <3>0, <4>2
      <4> QED
        BY <4>1, <4>2
    <3>3. ASSUME NEW k \in 1 .. Len(e[b])
          PROVE  mem'[e[b][k]] = NextCell(IF k < Len(e[b]) THEN e[b][k + 1] ELSE None)
      <4>1. /\ s + k \in 1 .. Len(c[b]) /\ e[b][k] = c[b][s + k]
            /\ k < Len(e[b]) <=> s + k < Len(c[b])
            /\ k < Len(e[b]) => e[b][k + 1] = c[b][s + k + 1]
        <5>1. k < Len(e[b]) => k + 1 \in 1 .. Len(c[b]) - s /\ s + (k + 1) = s + k + 1
          BY <1>1, <1>3
        <5> QED
          BY <1>1, <1>3, <5>1
      <4> QED
        BY <1>0, <2>1, <2>3, <4>1 DEF Linked, Follows
    <3> QED
      BY <2>3, <3>1, <3>2, <3>3 DEF Linked, Follows
  <2> QED
    BY <2>2, <2>3
<1>10. \A a \in Buffers : \A k \in 1 .. Len(e[a]) : BackFrom(head, e[a][k]) <= usedSpace'
  <2> SUFFICES ASSUME NEW a \in Buffers, NEW k \in 1 .. Len(e[a])
               PROVE  BackFrom(head, e[a][k]) <= usedSpace'
    OBVIOUS
  <2>0. e[a] \in Seq(Index)
    BY <1>3
  <2>1. e[a] \in Seq(Index) /\ 1 \in 1 .. Len(e[a]) /\ e[a][1] \in Index /\ e[a] # <<>>
    BY <2>0, NotEmpty
  <2>2. nextRead'[a] = e[a][1] /\ nextRead'[a] # None
    <3>1. nextRead'[a] = e[a][1]
      BY <1>9, <2>1 DEF Linked, Follows
    <3>2. \A i \in Index : i # None
      BY SharedBufferAssumption DEF Index, None
    <3> QED
      BY <2>1, <3>1, <3>2
  <2>3. a # Oldest /\ a \in Constructed
    <3>1. c[a] # <<>>
      BY <1>4, <2>1
    <3> QED
      BY <1>5, <2>1, <3>1 DEF Layout
  <2>4. nextRead' \in [Buffers -> Index \cup {None}] /\ usedSpace' \in 0 .. Capacity
    BY DEF TypeOK
  <2>5. BackFrom(head, e[a][1]) <= usedSpace'
    BY <1>0, <2>2, <2>3, <2>4, Recounted
  <2>6. CASE k = 1
    BY <2>5, <2>6
  <2>7. CASE k # 1
    <3>0. 1 < k
      BY <2>7
    <3>1. at(a, 1) < at(a, k) /\ at(a, 1) \in 1 .. Len(c[a]) /\ at(a, k) \in 1 .. Len(c[a])
      BY <1>4, <2>1, <3>0
    <3>2. Behind(e[a][1], e[a][k])
      <4>1. e[a][1] = c[a][at(a, 1)] /\ e[a][k] = c[a][at(a, k)]
        BY <1>4, <2>1
      <4> QED
        BY <3>1, <4>1 DEF Layout
    <3>3. /\ Room(e[a][1]) \in Nat /\ BackFrom(head, e[a][1]) \in 1 .. Capacity
          /\ BackFrom(head, e[a][k]) \in 1 .. Capacity
      BY <1>4, <2>1, <3>1, FragmentPlaced
    <3> HIDE DEF BackFrom, Room
    <3> QED
      BY <2>4, <2>5, <3>2, <3>3, SharedBufferAssumption DEF Behind
  <2> QED
    BY <2>6, <2>7
<1>11. \A a \in Buffers : \A k \in 1 .. Len(e[a]) : Placed(e[a], k)'
  <2> SUFFICES ASSUME NEW a \in Buffers, NEW k \in 1 .. Len(e[a]) PROVE Placed(e[a], k)'
    OBVIOUS
  <2>1. Placed(c[a], at(a, k))
    BY <1>4 DEF Layout
  <2>2. Len(e[a]) - k + 1 = Len(c[a]) - at(a, k) + 1
    BY <1>4
  <2> QED
    BY <1>0, <1>4, <1>7, <1>10, <2>1, <2>2 DEF Placed
<1>12. \A a \in Buffers : \A j, k \in 1 .. Len(e[a]) : j < k => Behind(e[a][j], e[a][k])'
  <2> SUFFICES ASSUME NEW a \in Buffers, NEW j \in 1 .. Len(e[a]), NEW k \in 1 .. Len(e[a]), j < k
               PROVE  Behind(e[a][j], e[a][k])
    BY <1>8
  <2>1. /\ at(a, j) \in 1 .. Len(c[a]) /\ at(a, k) \in 1 .. Len(c[a]) /\ at(a, j) < at(a, k)
        /\ e[a][j] = c[a][at(a, j)] /\ e[a][k] = c[a][at(a, k)]
    BY <1>4
  <2> QED
    BY <2>1 DEF Layout
<1>13. \A a1, a2 \in Buffers : \A j \in 1 .. Len(e[a1]), k \in 1 .. Len(e[a2]) :
          a1 # a2 => Behind(e[a1][j], e[a2][k])' \/ Behind(e[a2][k], e[a1][j])'
  <2> SUFFICES ASSUME NEW a1 \in Buffers, NEW a2 \in Buffers, NEW j \in 1 .. Len(e[a1]),
                      NEW k \in 1 .. Len(e[a2]), a1 # a2
               PROVE  Behind(e[a1][j], e[a2][k]) \/ Behind(e[a2][k], e[a1][j])
    BY <1>8
  <2>1. /\ at(a1, j) \in 1 .. Len(c[a1]) /\ at(a2, k) \in 1 .. Len(c[a2])
        /\ e[a1][j] = c[a1][at(a1, j)] /\ e[a2][k] = c[a2][at(a2, k)]
    BY <1>4
  <2> QED
    BY <2>1 DEF Layout
<1>14. \A a \in Buffers : a \notin Constructed' => e[a] = <<>>
  <2> SUFFICES ASSUME NEW a \in Buffers, a \notin Constructed, c[a] = <<>> PROVE e[a] = <<>>
    BY <1>0 DEF Layout
  <2>1. a # b
    BY <1>1
  <2> QED
    BY <1>3, <2>1
<1> QED
  BY <1>3, <1>5, <1>7, <1>9, <1>11, <1>12, <1>13, <1>14 DEF Layout

-----------------------------------------------------------------------------
(* What is read *)

\* The queues that the chains of c stand for, and the newest fragment of each.
Contents(c) == [b \in Buffers |-> [k \in 1 .. Len(c[b]) |-> Payload(c[b][k])]]
Newest(c) == [b \in Buffers |-> IF c[b] = <<>> THEN <<>> ELSE <<Payload(c[b][Len(c[b])])>>]

(* What does not share a cell is not longer than the ring.                 *)
LEMMA ShortEnough ==
    ASSUME NEW hd \in Index, NEW q \in Seq(Index),
           q # <<>> => (HeaderSize + 1) * (Len(q) - 1 + 1) <= BackFrom(hd, q[1])
    PROVE  Len(q) <= MaxFragments
<1>1. CASE q = <<>>
  BY <1>1, SharedBufferAssumption DEF MaxFragments, HeaderSize
<1>2. CASE q # <<>>
  <2>1. q[1] \in Index /\ Len(q) \in Nat
    BY <1>2
  <2>2. BackFrom(hd, q[1]) \in 1 .. Capacity
    BY <2>1, BackType
  <2> HIDE DEF BackFrom
  <2>3. 3 * Len(q) <= Capacity
    BY <1>2, <2>1, <2>2, SharedBufferAssumption DEF HeaderSize
  <2> QED
    BY <2>1, <2>3, SharedBufferAssumption DEF MaxFragments, HeaderSize
<1> QED
  BY <1>1, <1>2

(* The chains of a layout are what a reader finds, before a step and after *)
(* it.                                                                     *)
LEMMA ReadBack ==
    ASSUME TypeOK, NEW c \in [Buffers -> Seq(Index)], Layout(c)
    PROVE  /\ [b \in Buffers |-> Decoded(b)] = Contents(c)
           /\ [b \in Buffers |-> IF lastWritten[b] = None THEN <<>> ELSE <<Payload(lastWritten[b])>>]
                 = Newest(c)
<1>1. ASSUME NEW b \in Buffers
      PROVE  /\ ChainIn(mem, nextRead[b]) = c[b]
             /\ lastWritten[b] = None <=> c[b] = <<>>
             /\ c[b] # <<>> => lastWritten[b] = c[b][Len(c[b])]
  <2>1. c[b] \in Seq(Index) /\ Linked(b, c[b]) /\ head \in Index
    BY DEF Layout, TypeOK
  <2>2. c[b] # <<>> => (HeaderSize + 1) * (Len(c[b]) - 1 + 1) <= BackFrom(head, c[b][1])
    <3>1. c[b] # <<>> => 1 \in 1 .. Len(c[b])
      BY <2>1
    <3> QED
      BY <3>1 DEF Layout, Placed
  <2>3. Len(c[b]) <= MaxFragments
    BY <2>1, <2>2, ShortEnough
  <2>4. c[b] # <<>> => c[b][Len(c[b])] # None
    <3>1. c[b] # <<>> => c[b][Len(c[b])] \in Index
      BY <2>1
    <3> QED
      BY <3>1, SharedBufferAssumption DEF Index, None
  <2> QED
    BY <2>1, <2>3, <2>4, ChainIsUnique DEF Linked
<1> QED
  BY <1>1 DEF Contents, Newest, Decoded, Chain

LEMMA ReadBackNext ==
    ASSUME TypeOK', NEW c \in [Buffers -> Seq(Index)], Layout(c)'
    PROVE  /\ [b \in Buffers |-> Decoded(b)'] = Contents(c)'
           /\ [b \in Buffers |-> IF lastWritten'[b] = None THEN <<>> ELSE <<Payload(lastWritten[b])'>>]
                 = Newest(c)'
<1>1. ASSUME NEW b \in Buffers
      PROVE  /\ ChainIn(mem', nextRead'[b]) = c[b]
             /\ lastWritten'[b] = None <=> c[b] = <<>>
             /\ c[b] # <<>> => lastWritten'[b] = c[b][Len(c[b])]
  <2>1. c[b] \in Seq(Index) /\ Linked(b, c[b])' /\ head' \in Index
    BY DEF Layout, TypeOK
  <2>2. c[b] # <<>> => (HeaderSize + 1) * (Len(c[b]) - 1 + 1) <= BackFrom(head', c[b][1])
    <3>1. c[b] # <<>> => 1 \in 1 .. Len(c[b])
      BY <2>1
    <3> QED
      BY <3>1 DEF Layout, Placed
  <2>3. Len(c[b]) <= MaxFragments
    BY <2>1, <2>2, ShortEnough
  <2>4. c[b] # <<>> => c[b][Len(c[b])] # None
    <3>1. c[b] # <<>> => c[b][Len(c[b])] \in Index
      BY <2>1
    <3> QED
      BY <3>1, SharedBufferAssumption DEF Index, None
  <2> QED
    BY <2>1, <2>3, <2>4, ChainIsUnique DEF Linked
<1> QED
  BY <1>1 DEF Contents, Newest, Decoded, Chain

\* How the queues and the newest fragments may change together: a fragment is
\* appended, the oldest one goes, all of them go, or nothing happens.
Appends(b, f, c, e) ==
    /\ Contents(e)' = [Contents(c) EXCEPT ![b] = Append(Contents(c)[b], f)]
    /\ Newest(e)' = [Newest(c) EXCEPT ![b] = <<f>>]

DropsOne(b, c, e) ==
    /\ Contents(c)[b] # <<>>
    /\ Contents(e)' = [Contents(c) EXCEPT ![b] = Tail(Contents(c)[b])]
    /\ Newest(e)' = IF Len(Contents(c)[b]) = 1 THEN [Newest(c) EXCEPT ![b] = <<>>] ELSE Newest(c)

DropsAll(b, c, e) ==
    /\ Contents(e)' = [Contents(c) EXCEPT ![b] = <<>>]
    /\ Newest(e)' = [Newest(c) EXCEPT ![b] = <<>>]

Stays(c, e) == Contents(e)' = Contents(c) /\ Newest(e)' = Newest(c)

Moves(c, e) ==
    \/ \E b \in Buffers : \/ \E f \in FragmentsOf : Appends(b, f, c, e)
                          \/ DropsOne(b, c, e)
                          \/ DropsAll(b, c, e)
    \/ Stays(c, e)

\* Where a step leads from a layout.
Leads(c) ==
    /\ OldestKept'
    /\ \E e \in [Buffers -> Seq(Index)] : Layout(e)' /\ e[Oldest] = <<>> /\ Moves(c, e)

LEMMA AppendIs ==
    ASSUME NEW S, NEW q \in Seq(S), NEW r \in Seq(S), Len(r) = Len(q) + 1,
           \A k \in 1 .. Len(q) : r[k] = q[k]
    PROVE  r = Append(q, r[Len(q) + 1])
<1>1. Len(q) \in Nat /\ Len(q) + 1 \in 1 .. Len(r) /\ r[Len(q) + 1] \in S
  OBVIOUS
<1>2. Append(q, r[Len(q) + 1]) \in Seq(S) /\ Len(Append(q, r[Len(q) + 1])) = Len(q) + 1
  BY <1>1
<1>3. \A k \in 1 .. Len(q) + 1 : Append(q, r[Len(q) + 1])[k] = r[k]
  BY <1>1
<1> QED
  BY <1>1, <1>2, <1>3

LEMMA IsSequence ==
    ASSUME NEW n \in Nat, NEW S, NEW q \in [1 .. n -> S]
    PROVE  q \in Seq(S) /\ Len(q) = n
  OBVIOUS

LEMMA OldestIsBuffer == Oldest \in Buffers /\ Oldest \notin Users
  BY SharedBufferAssumption, OldestNeverWrites DEF Oldest

(* write() (SharedBuffer.cpp:119-167).                                     *)
LEMMA WriteLeads ==
    ASSUME TypeOK, OldestKept, NEW c \in [Buffers -> Seq(Index)], Layout(c), c[Oldest] = <<>>,
           NEW b \in Users, NEW len \in 1 .. MaxLength, NEW d \in Data, write(b, len, d)
    PROVE  Leads(c)
<1>1. PICK h : h = head
  OBVIOUS
<1>2. PICK e : e = [c EXCEPT ![b] = Append(c[b], h)]
  OBVIOUS
<1>3. b \in Buffers /\ b # Oldest /\ h \in Index
  BY <1>1, OldestIsBuffer, SharedBufferAssumption DEF TypeOK
<1>4. /\ e \in [Buffers -> Seq(Index)] /\ Layout(e)'
      /\ \A a \in Buffers : \A k \in 1 .. Len(c[a]) : Payload(c[a][k])' = Payload(c[a][k])
  BY <1>1, <1>2, LayoutWrite
<1>5. PICK f \in FragmentsOf : Payload(h)' = f
  BY <1>1, <1>2, LayoutWrite
<1>6. /\ \A a \in Buffers : c[a] \in Seq(Index)
      /\ \A a \in Buffers : a # b => e[a] = c[a]
      /\ e[b] = Append(c[b], h)
  BY <1>2, <1>3
<1>7. e[Oldest] = <<>>
  BY <1>3, <1>6, OldestIsBuffer
<1>8. Appends(b, f, c, e)
  <2>1. ASSUME NEW a \in Buffers, a # b
        PROVE  /\ [k \in 1 .. Len(e[a]) |-> Payload(e[a][k])'] = [k \in 1 .. Len(c[a]) |-> Payload(c[a][k])]
               /\ c[a] # <<>> => Payload(e[a][Len(e[a])])' = Payload(c[a][Len(c[a])])
    <3>1. c[a] # <<>> => Len(c[a]) \in 1 .. Len(c[a])
      BY <1>6
    <3>2. e[a] = c[a]
      BY <1>6, <2>1
    <3> QED
      BY <1>4, <3>1, <3>2
  <2>2. [k \in 1 .. Len(e[b]) |-> Payload(e[b][k])'] = Append([k \in 1 .. Len(c[b]) |-> Payload(c[b][k])], f)
    <3> DEFINE q == [k \in 1 .. Len(c[b]) |-> Payload(c[b][k])]
               r == [k \in 1 .. Len(e[b]) |-> Payload(e[b][k])']
               S == {Payload(c[b][k]) : k \in 1 .. Len(c[b])} \cup {f}
    <3>1. /\ c[b] \in Seq(Index) /\ Len(c[b]) \in Nat /\ Len(e[b]) = Len(c[b]) + 1
          /\ e[b][Len(c[b]) + 1] = h
          /\ \A k \in 1 .. Len(c[b]) : e[b][k] = c[b][k]
      BY <1>3, <1>6
    <3>2. q \in Seq(S) /\ Len(q) = Len(c[b])
      <4>1. q \in [1 .. Len(c[b]) -> S]
        OBVIOUS
      <4> HIDE DEF q, S
      <4> QED
        BY <3>1, <4>1, IsSequence
    <3>3. \A k \in 1 .. Len(c[b]) : Payload(e[b][k])' = Payload(c[b][k])
      BY <1>3, <1>4, <3>1
    <3>4. Payload(e[b][Len(c[b]) + 1])' = f
      BY <1>5, <3>1
    <3>5. \A k \in 1 .. Len(e[b]) : Payload(e[b][k])' \in S
      BY <3>1, <3>3, <3>4
    <3>6. r \in Seq(S) /\ Len(r) = Len(e[b])
      <4>1. Len(e[b]) \in Nat
        BY <3>1
      <4>2. r \in [1 .. Len(e[b]) -> S]
        BY <3>5, Zenon
      <4> HIDE DEF r, S
      <4> QED
        BY <4>1, <4>2, IsSequence
    <3>7. /\ \A k \in 1 .. Len(q) : r[k] = q[k]
          /\ r[Len(q) + 1] = f
      BY <3>1, <3>2, <3>3, <3>4
    <3> HIDE DEF q, r, S
    <3>8. r = Append(q, f)
      BY <3>1, <3>2, <3>6, <3>7, AppendIs
    <3> QED
      BY <3>8 DEF q, r
  <2>3. e[b] # <<>> /\ Payload(e[b][Len(e[b])])' = f
    <3>1. e[b] # <<>> /\ e[b][Len(e[b])] = h
      <4>1. c[b] \in Seq(Index) /\ e[b] = Append(c[b], h)
        BY <1>3, <1>6
      <4>2. e[b] \in Seq(Index) /\ Len(c[b]) \in Nat /\ Len(e[b]) = Len(c[b]) + 1 /\ e[b][Len(c[b]) + 1] = h
        BY <1>3, <4>1
      <4>3. Len(e[b]) # 0
        BY <4>2
      <4> QED
        BY <4>2, <4>3, NotEmpty, Zenon
    <3> QED
      BY <1>5, <3>1
  <2>4. Contents(e)' = [Contents(c) EXCEPT ![b] = Append(Contents(c)[b], f)]
    BY <1>3, <2>1, <2>2 DEF Contents
  <2>5. Newest(e)' = [Newest(c) EXCEPT ![b] = <<f>>]
    BY <1>3, <1>6, <2>1, <2>3 DEF Newest
  <2> QED
    BY <2>4, <2>5 DEF Appends
<1>9. OldestKept'
  BY DEF OldestKept, write
<1> QED
  BY <1>3, <1>4, <1>7, <1>8, <1>9 DEF Leads, Moves

(* What stays as it is reads as it did.                                    *)
LEMMA KeptLeads ==
    ASSUME TypeOK, OldestKept', NEW c \in [Buffers -> Seq(Index)], Layout(c), c[Oldest] = <<>>,
           UNCHANGED <<head, usedSpace, nextRead, lastWritten, mem>>,
           \A a \in Buffers : a \notin Constructed' => c[a] = <<>>
    PROVE  Leads(c)
<1>1. /\ Layout(c)'
      /\ \A a \in Buffers : \A k \in 1 .. Len(c[a]) : Payload(c[a][k])' = Payload(c[a][k])
  BY LayoutKept
<1>2. ASSUME NEW a \in Buffers
      PROVE  /\ [k \in 1 .. Len(c[a]) |-> Payload(c[a][k])'] = [k \in 1 .. Len(c[a]) |-> Payload(c[a][k])]
             /\ c[a] # <<>> => Payload(c[a][Len(c[a])])' = Payload(c[a][Len(c[a])])
  <2>1. c[a] # <<>> => Len(c[a]) \in 1 .. Len(c[a])
    OBVIOUS
  <2> QED
    BY <1>1, <2>1
<1>3. Stays(c, c)
  BY <1>2 DEF Stays, Contents, Newest
<1> QED
  BY <1>1, <1>3 DEF Leads, Moves

LEMMA TailIs ==
    ASSUME NEW S, NEW q \in Seq(S), q # <<>>, NEW r \in Seq(S), Len(r) = Len(q) - 1,
           \A k \in 1 .. Len(r) : r[k] = q[k + 1]
    PROVE  r = Tail(q)
<1>1. Tail(q) \in Seq(S) /\ Len(Tail(q)) = Len(q) - 1
  OBVIOUS
<1>2. \A k \in 1 .. Len(r) : Tail(q)[k] = r[k]
  BY <1>1
<1> QED
  BY <1>1, <1>2

(* One fragment or all of them gone (SharedBuffer.cpp:169-203).            *)
LEMMA DropLeads ==
    ASSUME TypeOK, TypeOK', OldestKept, OldestKept',
           NEW c \in [Buffers -> Seq(Index)], Layout(c), c[Oldest] = <<>>,
           NEW b \in Buffers, NEW s \in 1 .. Len(c[b]), s = 1 \/ s = Len(c[b]),
           NEW e, Drops(b, s, c, e)
    PROVE  Leads(c)
<1>1. e \in [Buffers -> Seq(Index)] /\ e[Oldest] = <<>> /\ Layout(e)' /\ \A i : Payload(i)' = Payload(i)
  BY LayoutDropped
<1>2. c[b] \in Seq(Index) /\ Len(c[b]) \in Nat /\ s \in 1 .. Len(c[b]) /\ e[b] \in Seq(Index)
  BY <1>1
<1>3. /\ Len(e[b]) = Len(c[b]) - s
      /\ \A k \in 1 .. Len(c[b]) - s : e[b][k] = c[b][s + k]
      /\ \A a \in Buffers : a # b => e[a] = c[a]
  <2>1. e[b] = SubSeq(c[b], s + 1, Len(c[b])) /\ \A a \in Buffers : a # b => e[a] = c[a]
    BY DEF Drops
  <2>2. \A k \in 1 .. Len(c[b]) - s : s + 1 + k - 1 = s + k
    BY <1>2
  <2> QED
    BY <1>2, <2>1, <2>2
<1> DEFINE q == [k \in 1 .. Len(c[b]) |-> Payload(c[b][k])]
           r == [k \in 1 .. Len(e[b]) |-> Payload(e[b][k])']
           S == {Payload(c[b][k]) : k \in 1 .. Len(c[b])}
<1>4. q \in Seq(S) /\ Len(q) = Len(c[b]) /\ q # <<>>
  <2>1. q \in [1 .. Len(c[b]) -> S]
    OBVIOUS
  <2> HIDE DEF q, S
  <2>2. q \in Seq(S) /\ Len(q) = Len(c[b])
    BY <1>2, <2>1, IsSequence
  <2> QED
    BY <1>2, <2>2
<1>5. \A k \in 1 .. Len(e[b]) : s + k \in 1 .. Len(c[b]) /\ Payload(e[b][k])' = Payload(c[b][s + k])
  BY <1>1, <1>2, <1>3
<1>6. /\ r \in Seq(S) /\ Len(r) = Len(c[b]) - s
      /\ \A k \in 1 .. Len(r) : r[k] = q[s + k]
  <2>1. r \in [1 .. Len(e[b]) -> S] /\ Len(e[b]) \in Nat
    BY <1>2, <1>5
  <2>2. \A k \in 1 .. Len(e[b]) : r[k] = q[s + k]
    BY <1>5
  <2> HIDE DEF r, S, q
  <2>3. r \in Seq(S) /\ Len(r) = Len(e[b])
    BY <2>1, IsSequence
  <2> QED
    BY <1>3, <2>2, <2>3
<1>7. Contents(e)' = [Contents(c) EXCEPT ![b] = r]
  BY <1>1, <1>3 DEF Contents
<1>8. Contents(c)[b] = q
  BY DEF Contents
<1> HIDE DEF q, r, S
<1>9. Newest(e)' = IF s < Len(c[b]) THEN Newest(c) ELSE [Newest(c) EXCEPT ![b] = <<>>]
  <2>1. CASE s < Len(c[b])
    <3>1. Len(e[b]) \in 1 .. Len(c[b]) - s /\ s + Len(e[b]) = Len(c[b])
      BY <1>2, <1>3, <2>1
    <3>2. e[b] # <<>> /\ c[b] # <<>> /\ e[b][Len(e[b])] = c[b][Len(c[b])]
      <4>1. e[b] # <<>> /\ c[b] # <<>>
        BY <1>2, <3>1, NotEmpty
      <4> QED
        BY <1>3, <3>1, <4>1
    <3>3. \A a \in Buffers : (IF e[a] = <<>> THEN <<>> ELSE <<Payload(e[a][Len(e[a])])'>>)
                           = (IF c[a] = <<>> THEN <<>> ELSE <<Payload(c[a][Len(c[a])])>>)
      BY <1>1, <1>3, <3>2
    <3> QED
      BY <2>1, <3>3 DEF Newest
  <2>2. CASE ~(s < Len(c[b]))
    <3>1. e[b] = <<>>
      BY <1>2, <1>3, <2>2, NotEmpty
    <3> QED
      BY <1>1, <1>3, <2>2, <3>1 DEF Newest
  <2> QED
    BY <2>1, <2>2
<1>10. CASE s = 1
  <2>1. r = Tail(q)
    <3>1. Len(r) = Len(q) - 1 /\ Len(r) \in Nat
      BY <1>4, <1>6, <1>10
    <3>2. \A k \in 1 .. Len(r) : r[k] = q[k + 1]
      <4>1. \A k \in 1 .. Len(r) : 1 + k = k + 1
        BY <3>1
      <4> QED
        BY <1>6, <1>10, <4>1
    <3> QED
      BY <1>4, <1>6, <3>1, <3>2, TailIs
  <2>2. ~(s < Len(c[b])) <=> Len(q) = 1
    <3>1. ~(1 < Len(c[b])) <=> Len(c[b]) = 1
      <4>1. Len(c[b]) \in Nat /\ Len(c[b]) >= 1
        BY <1>2
      <4>2. ASSUME NEW n \in Nat, n >= 1 PROVE ~(1 < n) <=> n = 1
        BY <4>2
      <4> QED
        BY <4>1, <4>2
    <3> QED
      BY <1>4, <1>10, <3>1, Zenon
  <2>3. DropsOne(b, c, e)
    BY <1>4, <1>7, <1>8, <1>9, <2>1, <2>2 DEF DropsOne
  <2> QED
    BY <1>1, <2>3 DEF Leads, Moves
<1>11. CASE s = Len(c[b])
  <2>1. r = <<>>
    BY <1>2, <1>6, <1>11, NotEmpty
  <2>2. DropsAll(b, c, e)
    BY <1>2, <1>7, <1>9, <1>11, <2>1 DEF DropsAll
  <2> QED
    BY <1>1, <2>2 DEF Leads, Moves
<1> QED
  BY <1>10, <1>11

LEMMA ReleaseLeads ==
    ASSUME TypeOK, TypeOK', OldestKept, NEW c \in [Buffers -> Seq(Index)], Layout(c), c[Oldest] = <<>>,
           NEW b \in Buffers, release(b)
    PROVE  Leads(c)
<1>1. c[b] \in Seq(Index) /\ Linked(b, c[b]) /\ nextRead[b] # None
  BY DEF Layout, release, IsEmpty
<1>2. c[b] # <<>> /\ nextRead[b] = c[b][1] /\ 1 \in 1 .. Len(c[b])
  BY <1>1 DEF Linked, Follows
<1>3. mem[nextRead[b]] = NextCell(IF 1 < Len(c[b]) THEN c[b][2] ELSE None)
  BY <1>1, <1>2 DEF Linked, Follows
<1>4. NextIndexAt(nextRead[b]) = {IF 1 < Len(c[b]) THEN c[b][2] ELSE None}
  BY <1>3 DEF NextIndexAt, NextCell
<1>5. 1 < Len(c[b]) => c[b][2] # None
  <2>1. 1 < Len(c[b]) => c[b][2] \in Index
    BY <1>1
  <2> QED
    BY <2>1, SharedBufferAssumption DEF Index, None
<1>6. PICK next \in NextIndexAt(nextRead[b]) :
          /\ nextRead' = [nextRead EXCEPT ![b] = next]
          /\ lastWritten' = IF next = None THEN [lastWritten EXCEPT ![b] = None] ELSE lastWritten
  BY DEF release
<1>7. next = IF 1 < Len(c[b]) THEN c[b][1 + 1] ELSE None
  BY <1>4, <1>6
<1>8. lastWritten' = [lastWritten EXCEPT ![b] = IF 1 < Len(c[b]) THEN lastWritten[b] ELSE None]
  <2>1. lastWritten \in [Buffers -> Index \cup {None}]
    BY DEF TypeOK
  <2>2. lastWritten = [lastWritten EXCEPT ![b] = lastWritten[b]]
    BY <2>1
  <2>3. CASE 1 < Len(c[b])
    BY <1>5, <1>6, <1>7, <2>2, <2>3
  <2>4. CASE ~(1 < Len(c[b]))
    BY <1>6, <1>7, <2>4
  <2> QED
    BY <2>3, <2>4
<1>9. IsRecount(usedSpace', nextRead') /\ head' = head /\ mem' = mem /\ bufferList' = bufferList
  BY DEF release
<1>10. OldestKept' /\ Constructed' = Constructed
  BY <1>9 DEF OldestKept, Constructed
<1>11. PICK e : e = [c EXCEPT ![b] = SubSeq(c[b], 1 + 1, Len(c[b]))]
  OBVIOUS
<1>12. Drops(b, 1, c, e)
  BY <1>6, <1>7, <1>8, <1>9, <1>10, <1>11 DEF Drops
<1> QED
  BY <1>2, <1>10, <1>12, DropLeads

(* What flush() and the destructor have in common.                         *)
LEMMA EmptiedLeads ==
    ASSUME TypeOK, TypeOK', OldestKept, OldestKept',
           NEW c \in [Buffers -> Seq(Index)], Layout(c), c[Oldest] = <<>>,
           NEW b \in Buffers, Emptied(b),
           \A a \in Buffers : a \notin Constructed' => a \notin Constructed \/ a = b
    PROVE  Leads(c)
<1>1. c[b] \in Seq(Index) /\ Linked(b, c[b]) /\ None \notin Index
  BY SharedBufferAssumption DEF Layout, Index, None
<1>2. IsEmpty(b) <=> c[b] = <<>>
  BY <1>1 DEF Linked, Follows, IsEmpty
<1>3. CASE IsEmpty(b)
  <2>1. lastWritten[b] = None
    BY <1>1, <1>2, <1>3 DEF Linked
  <2>2. UNCHANGED <<head, usedSpace, nextRead, lastWritten, mem>>
    BY <1>3, <2>1 DEF Emptied, TypeOK, IsEmpty
  <2>3. \A a \in Buffers : a \notin Constructed' => c[a] = <<>>
    BY <1>2, <1>3 DEF Layout
  <2> QED
    BY <2>2, <2>3, KeptLeads
<1>4. CASE ~IsEmpty(b)
  <2>1. PICK s \in 1 .. Len(c[b]) : s = Len(c[b])
    BY <1>1, <1>2, <1>4
  <2>2. PICK e : e = [c EXCEPT ![b] = SubSeq(c[b], s + 1, Len(c[b]))]
    OBVIOUS
  <2>3. /\ nextRead' = [nextRead EXCEPT ![b] = None]
        /\ lastWritten' = [lastWritten EXCEPT ![b] = None]
        /\ IsRecount(usedSpace', nextRead') /\ head' = head /\ mem' = mem
    BY <1>4 DEF Emptied
  <2>4. e[b] = <<>>
    <3>1. e[b] = SubSeq(c[b], Len(c[b]) + 1, Len(c[b])) /\ Len(c[b]) \in Nat
      BY <1>1, <2>1, <2>2
    <3>2. e[b] \in Seq(Index) /\ Len(e[b]) = 0
      BY <1>1, <3>1
    <3> QED
      BY <3>2, NotEmpty
  <2>5. ~(s < Len(c[b]))
    BY <1>1, <2>1
  <2>6. Drops(b, s, c, e)
    BY <2>2, <2>3, <2>4, <2>5 DEF Drops
  <2> QED
    BY <2>1, <2>6, DropLeads
<1> QED
  BY <1>3, <1>4

LEMMA ConstructLeads ==
    ASSUME TypeOK, TypeOK', OldestKept, NEW c \in [Buffers -> Seq(Index)], Layout(c), c[Oldest] = <<>>,
           NEW b \in Buffers, construct(b)
    PROVE  Leads(c)
<1>1. bufferList \in Seq(Buffers) /\ bufferList # <<>> /\ Len(bufferList) \in Nat
  BY DEF TypeOK, OldestKept
<1>2. /\ bufferList' = <<b>> \o bufferList /\ Len(bufferList') = Len(bufferList) + 1
      /\ \A k \in 1 .. Len(bufferList) : bufferList'[k + 1] = bufferList[k]
  BY <1>1 DEF construct
<1>3. OldestKept'
  <2>1. Len(bufferList) \in 1 .. Len(bufferList)
    BY <1>1
  <2>2. bufferList'[Len(bufferList')] = Oldest
    BY <1>2, <2>1 DEF OldestKept
  <2>3. bufferList' # <<>>
    BY <1>1, <1>2
  <2> QED
    BY <2>2, <2>3 DEF OldestKept
<1>4. \A a \in Buffers : a \notin Constructed' => a \notin Constructed
  <2> SUFFICES ASSUME NEW k \in 1 .. Len(bufferList) PROVE bufferList[k] \in Constructed'
    BY DEF Constructed
  <2>1. k + 1 \in 1 .. Len(bufferList') /\ bufferList'[k + 1] = bufferList[k]
    BY <1>1, <1>2
  <2> QED
    BY <2>1 DEF Constructed
<1>5. Linked(b, c[b]) /\ c[b] = <<>>
  BY DEF Layout, construct
<1>6. UNCHANGED <<head, usedSpace, nextRead, lastWritten, mem>>
  <2>1. nextRead[b] = None /\ lastWritten[b] = None
    BY <1>5 DEF Linked, Follows
  <2> QED
    BY <2>1 DEF construct, TypeOK
<1> QED
  BY <1>3, <1>4, <1>6, KeptLeads DEF Layout

LEMMA DestroyLeads ==
    ASSUME TypeOK, TypeOK', OldestKept, NEW c \in [Buffers -> Seq(Index)], Layout(c), c[Oldest] = <<>>,
           NEW k \in 1 .. Len(bufferList), destroy(k)
    PROVE  Leads(c)
<1> DEFINE n == Len(bufferList)
<1>1. /\ bufferList \in Seq(Buffers) /\ n \in Nat /\ n - 1 \in Nat
      /\ bufferList[k] \in Buffers /\ bufferList[n] = Oldest
  BY DEF TypeOK, OldestKept
<1>2. k # n
  <2>1. Static # <<>> /\ Static \in Seq(Buffers)
    BY SharedBufferAssumption, OldestNeverWrites
  <2>2. Len(Static) \in 1 .. Len(Static)
    BY <2>1
  <2>3. bufferList[k] # Static[Len(Static)]
    BY <2>2 DEF destroy
  <2> QED
    BY <1>1, <2>3 DEF Oldest
<1>3. /\ Len(bufferList') = n - 1
      /\ \A j \in 1 .. n - 1 : bufferList'[j] = IF j < k THEN bufferList[j] ELSE bufferList[j + 1]
  BY <1>1 DEF destroy, Without
<1>4. OldestKept'
  <2>1. n - 1 \in 1 .. n - 1 /\ ~(n - 1 < k) /\ n - 1 + 1 = n
    BY <1>1, <1>2
  <2>2. bufferList'[Len(bufferList')] = Oldest
    BY <1>1, <1>3, <2>1
  <2>3. bufferList' # <<>>
    BY <1>3, <2>1
  <2> QED
    BY <2>2, <2>3 DEF OldestKept
<1>5. \A a \in Buffers : a \notin Constructed' => a \notin Constructed \/ a = bufferList[k]
  <2> SUFFICES ASSUME NEW j \in 1 .. n, j # k PROVE bufferList[j] \in Constructed'
    BY DEF Constructed
  <2>1. CASE j < k
    <3>1. j \in 1 .. n - 1 /\ bufferList'[j] = bufferList[j]
      BY <1>1, <1>3, <2>1
    <3> QED
      BY <1>3, <3>1 DEF Constructed
  <2>2. CASE ~(j < k)
    <3>1. j - 1 \in 1 .. n - 1 /\ ~(j - 1 < k) /\ j - 1 + 1 = j
      BY <1>1, <2>2
    <3>2. bufferList'[j - 1] = bufferList[j]
      BY <1>3, <3>1
    <3> QED
      BY <1>3, <3>1, <3>2 DEF Constructed
  <2> QED
    BY <2>1, <2>2
<1>6. Emptied(bufferList[k])
  BY DEF destroy
<1> HIDE DEF n
<1> QED
  BY <1>1, <1>4, <1>5, <1>6, EmptiedLeads

(* A layout is there from the start and every step leads to one, and to    *)
(* queues that changed in one of four ways.                                *)
LEMMA ThreadedInit == Init => Threaded
<1> SUFFICES ASSUME Init PROVE Threaded
  OBVIOUS
<1> DEFINE c == [b \in Buffers |-> <<>>]
<1>1. c \in [Buffers -> Seq(Index)] /\ \A b \in Buffers : c[b] = <<>>
  OBVIOUS
<1> HIDE DEF c
<1>2. Layout(c)
  BY <1>1 DEF Init, Layout, Linked, Follows
<1>3. OldestKept /\ c[Oldest] = <<>>
  BY <1>1, OldestIsBuffer, OldestNeverWrites DEF Init, OldestKept, Oldest
<1> QED
  BY <1>1, <1>2, <1>3 DEF Threaded

LEMMA StepLeads ==
    ASSUME TypeOK, OldestKept, NEW c \in [Buffers -> Seq(Index)], Layout(c), c[Oldest] = <<>>,
           [Next]_vars
    PROVE  Leads(c)
<1>0. TypeOK'
  BY TypeStep
<1>1. ASSUME NEW b \in Users, NEW len \in 1 .. MaxLength, NEW d \in Data, write(b, len, d)
      PROVE  Leads(c)
  BY <1>1, WriteLeads
<1>2. ASSUME NEW b \in Buffers, release(b)
      PROVE  Leads(c)
  BY <1>0, <1>2, ReleaseLeads
<1>3. ASSUME NEW b \in Buffers, flush(b)
      PROVE  Leads(c)
  <2>1. OldestKept' /\ Constructed' = Constructed /\ Emptied(b)
    BY <1>3 DEF flush, OldestKept, Constructed
  <2> QED
    BY <1>0, <2>1, EmptiedLeads
<1>4. ASSUME NEW b \in Buffers, construct(b)
      PROVE  Leads(c)
  BY <1>0, <1>4, ConstructLeads
<1>5. ASSUME NEW k \in 1 .. Len(bufferList), destroy(k)
      PROVE  Leads(c)
  BY <1>0, <1>5, DestroyLeads
<1>6. CASE UNCHANGED vars
  <2>1. OldestKept' /\ Constructed' = Constructed
    BY <1>6 DEF vars, OldestKept, Constructed
  <2>2. UNCHANGED <<head, usedSpace, nextRead, lastWritten, mem>>
    BY <1>6 DEF vars
  <2> QED
    BY <2>1, <2>2, KeptLeads DEF Layout
<1> QED
  BY <1>1, <1>2, <1>3, <1>4, <1>5, <1>6 DEF Next

LEMMA ThreadedStep == TypeOK /\ Threaded /\ [Next]_vars => Threaded'
<1> SUFFICES ASSUME TypeOK, Threaded, [Next]_vars PROVE Threaded'
  OBVIOUS
<1>1. PICK c \in [Buffers -> Seq(Index)] : Layout(c) /\ c[Oldest] = <<>>
  BY DEF Threaded
<1>2. Leads(c)
  BY <1>1, StepLeads DEF Threaded
<1> QED
  BY <1>2 DEF Leads, Threaded

(* No two fragments of a ring ever share a cell, and each instance can     *)
(* reach its own, from the oldest to the newest.                           *)
THEOREM AlwaysThreaded == Spec => []Threaded
  BY TypeInit, TypeStep, ThreadedInit, ThreadedStep, PTL DEF Spec

LEMMA FifosInit == Init => Fifos!Init
<1> SUFFICES ASSUME Init PROVE Fifos!Init
  OBVIOUS
<1>1. TypeOK /\ Threaded
  BY TypeInit, ThreadedInit
<1> DEFINE c == [b \in Buffers |-> <<>>]
<1>2. c \in [Buffers -> Seq(Index)] /\ \A b \in Buffers : c[b] = <<>>
  OBVIOUS
<1> HIDE DEF c
<1>3. Layout(c)
  BY <1>2 DEF Init, Layout, Linked, Follows
<1>4. Contents(c) = [b \in Buffers |-> <<>>] /\ Newest(c) = [b \in Buffers |-> <<>>]
  BY <1>2 DEF Contents, Newest
<1> QED
  BY <1>1, <1>2, <1>3, <1>4, ReadBack DEF Fifos!Init

LEMMA FifosStep == TypeOK /\ Threaded /\ [Next]_vars => [Fifos!Next]_(Fifos!vars)
<1> SUFFICES ASSUME TypeOK, Threaded, [Next]_vars PROVE [Fifos!Next]_(Fifos!vars)
  OBVIOUS
<1>1. PICK c \in [Buffers -> Seq(Index)] : Layout(c) /\ c[Oldest] = <<>>
  BY DEF Threaded
<1>2. Leads(c)
  BY <1>1, StepLeads DEF Threaded
<1>3. PICK e \in [Buffers -> Seq(Index)] : Layout(e)' /\ Moves(c, e)
  BY <1>2 DEF Leads
<1>4. TypeOK'
  BY TypeStep
<1> DEFINE queue == [b \in Buffers |-> Decoded(b)]
           newest == [b \in Buffers |-> IF lastWritten[b] = None THEN <<>> ELSE <<Payload(lastWritten[b])>>]
<1>5. queue = Contents(c) /\ newest = Newest(c)
  BY <1>1, ReadBack
<1>6. queue' = Contents(e)' /\ newest' = Newest(e)'
  BY <1>3, <1>4, ReadBackNext
<1>7. ASSUME NEW b \in Buffers, NEW f \in FragmentsOf, Appends(b, f, c, e)
      PROVE  Fifos!Next
  <2>1. queue' = [queue EXCEPT ![b] = Append(queue[b], f)] /\ newest' = [newest EXCEPT ![b] = <<f>>]
    BY <1>5, <1>6, <1>7 DEF Appends
  <2> QED
    BY <2>1 DEF Fifos!Next, Fifos!Write
<1>8. ASSUME NEW b \in Buffers, DropsOne(b, c, e)
      PROVE  Fifos!Next
  <2>1. /\ queue[b] # <<>>
        /\ queue' = [queue EXCEPT ![b] = Tail(queue[b])]
        /\ newest' = IF Len(queue[b]) = 1 THEN [newest EXCEPT ![b] = <<>>] ELSE newest
    BY <1>5, <1>6, <1>8 DEF DropsOne
  <2> QED
    BY <2>1 DEF Fifos!Next, Fifos!Release
<1>9. ASSUME NEW b \in Buffers, DropsAll(b, c, e)
      PROVE  Fifos!Next
  <2>1. queue' = [queue EXCEPT ![b] = <<>>] /\ newest' = [newest EXCEPT ![b] = <<>>]
    BY <1>5, <1>6, <1>9 DEF DropsAll
  <2> QED
    BY <2>1 DEF Fifos!Next, Fifos!Flush
<1>10. ASSUME Stays(c, e)
       PROVE  UNCHANGED Fifos!vars
  <2>1. queue' = queue /\ newest' = newest
    BY <1>5, <1>6, <1>10 DEF Stays
  <2> QED
    BY <2>1 DEF Fifos!vars
<1> QED
  BY <1>3, <1>7, <1>8, <1>9, <1>10 DEF Moves

(* Every instance is a FIFO of its own.  Whatever the others write,        *)
(* release and flush, and wherever the end of the ring splits a header or  *)
(* a payload, fragments come back whole, once and in order; the refinement *)
(* that the run checks, for every number of instances and every capacity.  *)
THEOREM FifosImplemented == Spec => PrivateFifosImplemented
<1>1. Init => Fifos!Init
  BY FifosInit
<1>2. TypeOK /\ Threaded /\ [Next]_vars => [Fifos!Next]_(Fifos!vars)
  BY FifosStep
<1>3. Spec => []TypeOK /\ []Threaded
  BY TypeCorrect, AlwaysThreaded, PTL
<1> QED
  BY <1>1, <1>2, <1>3, PTL DEF Spec, PrivateFifosImplemented, Fifos!Spec

-----------------------------------------------------------------------------
(* What fillTxBuffer copies: its loop is a fold over the chain, which the   *)
(* library defines by a recursive function on the sets of its indices. That *)
(* there is such a function is an induction over the length of the chain.   *)

\* One round of fillTxBuffer's loop.
Round(acc, n, room) ==
    IF acc.done \/ acc.count = 0 \/ Len(acc.out) + LengthAt(n) > room
    THEN [acc EXCEPT !.done = TRUE]
    ELSE [acc EXCEPT !.count = @ - 1, !.out = @ \o Copied(n)]

Start(count) == [done |-> FALSE, count |-> count, out |-> <<>>]

(* The largest of some of the first naturals is one of them.               *)
LEMMA MaxOf ==
    ASSUME NEW n \in Nat, NEW s \in SUBSET (0 .. n), s # {}
    PROVE  Max(s) \in s /\ \A y \in s : Max(s) >= y
<1> DEFINE T == {n - x : x \in s}
<1>1. T \in SUBSET Nat /\ T # {}
  <2>1. PICK x \in s : TRUE
    OBVIOUS
  <2>2. n - x \in T
    OBVIOUS
  <2>3. T \in SUBSET Nat
    OBVIOUS
  <2> QED
    BY <2>2, <2>3
<1> HIDE DEF T
<1>2. PICK z \in T : \A y \in T : z <= y
  BY <1>1, LeastOf
<1>3. PICK x \in s : z = n - x
  BY <1>2 DEF T
<1>4. \A y \in s : x >= y
  <2> SUFFICES ASSUME NEW y \in s PROVE x >= y
    OBVIOUS
  <2>1. n - y \in T
    BY DEF T
  <2>2. n - x <= n - y
    BY <1>2, <1>3, <2>1
  <2> QED
    BY <2>2
<1> QED
  BY <1>4 DEF Max

LEMMA MaxIs ==
    ASSUME NEW n \in Nat, NEW s \in SUBSET (0 .. n), NEW x \in s, \A y \in s : x >= y
    PROVE  Max(s) = x
<1>1. Max(s) \in s /\ Max(s) >= x
  BY MaxOf
<1>2. x >= Max(s)
  BY <1>1
<1>3. x \in 0 .. n /\ Max(s) \in 0 .. n
  BY <1>1
<1> QED
  BY <1>1, <1>2, <1>3

\* What the loop has for the fragments of s, a part of chain.
Loop(g, chain, count, room, k) ==
    g = [s \in SUBSET (1 .. k) |->
            IF s = {} THEN Start(count) ELSE Round(g[s \ {Max(s)}], chain[Max(s)], room)]

LEMMA LoopExists ==
    ASSUME NEW n \in Nat, NEW chain, NEW count, NEW room
    PROVE  \E g : Loop(g, chain, count, room, n)
<1> DEFINE S == {k \in 0 .. n : \E g : Loop(g, chain, count, room, k)}
<1>1. 0 \in S
  <2> DEFINE g == [s \in SUBSET (1 .. 0) |-> Start(count)]
  <2>1. SUBSET (1 .. 0) = {{}}
    OBVIOUS
  <2>2. Loop(g, chain, count, room, 0)
    BY <2>1 DEF Loop
  <2> QED
    BY <2>2
<1>2. ASSUME NEW k \in 1 .. n, k - 1 \in S PROVE k \in S
  <2>1. PICK g : Loop(g, chain, count, room, k - 1)
    BY <1>2
  <2> DEFINE value(s, f) == IF s = {} THEN Start(count) ELSE Round(f[s \ {Max(s)}], chain[Max(s)], room)
             h == [s \in SUBSET (1 .. k) |->
                     IF k \in s THEN Round(g[s \ {k}], chain[k], room) ELSE g[s]]
  <2>2. ASSUME NEW s \in SUBSET (1 .. k) PROVE h[s] = value(s, h)
    <3>1. CASE k \in s
      <4>1. Max(s) = k
        <5>1. k \in Nat /\ \A y \in s : k >= y
          OBVIOUS
        <5> QED
          BY <3>1, <5>1, MaxIs
      <4>2. s \ {k} \in SUBSET (1 .. k) /\ s \ {k} \in SUBSET (1 .. k - 1) /\ k \notin s \ {k}
        OBVIOUS
      <4>3. h[s] = Round(g[s \ {k}], chain[k], room)
        BY <3>1
      <4>4. h[s \ {k}] = g[s \ {k}]
        BY <4>2
      <4> HIDE DEF h
      <4> QED
        BY <3>1, <4>1, <4>3, <4>4
    <3>2. CASE k \notin s
      <4>1. s \in SUBSET (1 .. k - 1)
        BY <3>2
      <4>2. s \ {Max(s)} \in SUBSET (1 .. k) /\ k \notin s \ {Max(s)}
        BY <3>2, Zenon
      <4>3. h[s] = g[s] /\ h[s \ {Max(s)}] = g[s \ {Max(s)}]
        BY <3>2, <4>2, Zenon
      <4>4. g[s] = value(s, g)
        BY <2>1, <4>1 DEF Loop
      <4> HIDE DEF h
      <4> QED
        BY <4>3, <4>4
    <3> QED
      BY <3>1, <3>2
  <2>3. h = [s \in SUBSET (1 .. k) |-> h[s]]
    OBVIOUS
  <2> HIDE DEF h
  <2>4. Loop(h, chain, count, room, k)
    BY <2>2, <2>3 DEF Loop
  <2> QED
    BY <2>4
<1> HIDE DEF S
<1>3. n \in S
  BY <1>1, <1>2, UpTo
<1> QED
  BY <1>3 DEF S

\* The loop after each fragment of chain.
Trace(f, chain, count, room) ==
    /\ f[0] = Start(count)
    /\ \A k \in 1 .. Len(chain) : f[k] = Round(f[k - 1], chain[k], room)

Traced(b, chain, count, room) ==
    \E f : Trace(f, chain, count, room) /\ fillTxBuffer(b, room, count) = f[Len(chain)].out

LEMMA FillTraced ==
    ASSUME NEW b, NEW room, NEW count, NEW chain \in Seq(Index), Chain(nextRead[b]) = chain
    PROVE  Traced(b, chain, count, room)
<1> DEFINE n == Len(chain)
           g == CHOOSE g : g = [s \in SUBSET DOMAIN chain |->
                  IF s = {} THEN Start(count) ELSE Round(g[s \ {Max(s)}], chain[Max(s)], room)]
<1>1. fillTxBuffer(b, room, count) = g[DOMAIN chain].out
  BY ZenonT(60) DEF fillTxBuffer, FoldLeft, MapThenFoldSet, Round, Start
<1>2. DOMAIN chain = 1 .. n /\ n \in Nat
  OBVIOUS
<1>3. \E h : h = [s \in SUBSET DOMAIN chain |->
                  IF s = {} THEN Start(count) ELSE Round(h[s \ {Max(s)}], chain[Max(s)], room)]
  <2>1. PICK h : Loop(h, chain, count, room, n)
    BY <1>2, LoopExists
  <2> QED
    BY <1>2, <2>1, Zenon DEF Loop
<1>4. Loop(g, chain, count, room, n)
  BY <1>2, <1>3, Zenon DEF Loop
<1> HIDE DEF g, n
<1> DEFINE f == [k \in 0 .. n |-> g[1 .. k]]
<1>5. f[0] = Start(count)
  <2>1. 1 .. 0 = {} /\ 1 .. 0 \in SUBSET (1 .. n) /\ 0 \in 0 .. n
    BY <1>2
  <2> QED
    BY <1>4, <2>1 DEF Loop
<1>6. ASSUME NEW k \in 1 .. n PROVE f[k] = Round(f[k - 1], chain[k], room)
  <2>1. 1 .. k \in SUBSET (0 .. n) /\ 1 .. k \in SUBSET (1 .. n) /\ k \in 1 .. k /\ \A y \in 1 .. k : k >= y
    BY <1>2
  <2>2. 1 .. k # {} /\ (1 .. k) \ {k} = 1 .. k - 1
    <3>1. k \in Nat
      BY <1>2
    <3>2. (1 .. k) \ {k} = 1 .. k - 1
      BY <3>1
    <3> QED
      BY <2>1, <3>2
  <2>3. Max(1 .. k) = k
    BY <1>2, <2>1, MaxIs
  <2>4. g[1 .. k] = Round(g[(1 .. k) \ {k}], chain[k], room)
    BY <1>4, <2>1, <2>2, <2>3, Zenon DEF Loop
  <2>5. f[k] = g[1 .. k] /\ f[k - 1] = g[1 .. k - 1]
    BY <1>2
  <2> HIDE DEF f
  <2> QED
    BY <2>2, <2>4, <2>5
<1>7. f[n] = g[1 .. n]
  BY <1>2
<1> QED
  BY <1>1, <1>2, <1>5, <1>6, <1>7 DEF Trace, Traced, n

(* The copy in one or two pieces is the payload.                           *)
LEMMA CopiedIs ==
    ASSUME TypeOK, NEW n \in Index, Whole(n), Room(n) <= BackFrom(head, n)
    PROVE  Copied(n) = Payload(n) /\ Payload(n) \in Seq(Cell) /\ Len(Payload(n)) = LengthAt(n)
<1> DEFINE len == LengthAt(n)
           src == Source(n)
           first == Capacity - src
<1>1. len \in Nat /\ len >= 1
  BY WholeLength
<1>2. HeaderSize + len <= Capacity /\ Capacity \in Nat /\ HeaderSize = 2 /\ n \in 0 .. Capacity - 1
  <2>1. head \in Index
    BY DEF TypeOK
  <2>2. BackFrom(head, n) <= Capacity /\ BackFrom(head, n) \in Int
    BY <2>1, BackType
  <2> HIDE DEF BackFrom
  <2> QED
    BY <1>1, <2>2, SharedBufferAssumption DEF Room, HeaderSize, Index
<1> HIDE DEF len
<1>3. src \in 0 .. Capacity - 1
  BY <1>1, <1>2 DEF Source
<1>4. ASSUME NEW k \in 1 .. len
      PROVE  /\ Wrap(n + HeaderSize + k - 1) \in 0 .. Capacity - 1
             /\ Wrap(n + HeaderSize + k - 1) =
                    IF src + k - 1 < Capacity THEN src + k - 1 ELSE k - first - 1
  BY <1>1, <1>2 DEF Source, Wrap
<1>5. Payload(n) = [k \in 1 .. len |-> mem[Wrap(n + HeaderSize + k - 1)]]
  BY DEF Payload, len
<1>6. mem \in [0 .. Capacity - 1 -> Cell]
  BY DEF TypeOK, Index
<1>7. Payload(n) \in Seq(Cell) /\ Len(Payload(n)) = len
  <2>1. \A k \in 1 .. len : mem[Wrap(n + HeaderSize + k - 1)] \in Cell
    BY <1>4, <1>6
  <2> QED
    BY <1>1, <1>5, <2>1
<1>8. CASE src + len > Capacity
  <2> DEFINE a == Moved(src, first)
             b == Moved(0, len - first)
  <2>1. first \in 1 .. len /\ len - first \in Nat
    BY <1>1, <1>2, <1>3, <1>8
  <2>2. a = [k \in 1 .. first |-> mem[src + k - 1]] /\ b = [k \in 1 .. len - first |-> mem[0 + k - 1]]
    BY DEF Moved
  <2>3. a \in Seq(Cell) /\ Len(a) = first
    <3>1. \A k \in 1 .. first : mem[src + k - 1] \in Cell
      BY <1>2, <1>3, <1>6, <2>1
    <3> QED
      BY <2>1, <2>2, <3>1
  <2>4. b \in Seq(Cell) /\ Len(b) = len - first
    <3>1. \A k \in 1 .. len - first : mem[0 + k - 1] \in Cell
      BY <1>1, <1>2, <1>3, <1>6, <2>1
    <3> QED
      BY <2>1, <2>2, <3>1
  <2>5. Copied(n) = a \o b
    BY <1>8 DEF Copied, len
  <2> HIDE DEF a, b, src
  <2>6. Len(a \o b) = len /\ a \o b \in Seq(Cell)
    BY <1>1, <2>1, <2>3, <2>4
  <2>7. ASSUME NEW k \in 1 .. len PROVE (a \o b)[k] = mem[Wrap(n + HeaderSize + k - 1)]
    <3>0. k \in Nat /\ first \in Nat
      BY <2>1
    <3>1. CASE k <= first
      <4>1. (a \o b)[k] = a[k] /\ k \in 1 .. first
        BY <2>3, <2>4, <3>0, <3>1
      <4>2. a[k] = mem[src + k - 1]
        BY <2>2, <4>1
      <4>3. src + k - 1 < Capacity
        BY <1>2, <1>3, <3>0, <3>1
      <4> QED
        BY <1>4, <4>1, <4>2, <4>3
    <3>2. CASE k > first
      <4>1. k - first \in 1 .. len - first
        BY <1>1, <2>1, <3>2
      <4>2. (a \o b)[k] = b[k - first]
        BY <1>1, <2>1, <2>3, <2>4, <3>2
      <4>3. b[k - first] = mem[0 + (k - first) - 1]
        BY <2>2, <4>1
      <4>4. 0 + (k - first) - 1 = k - first - 1 /\ ~(src + k - 1 < Capacity)
        BY <1>2, <1>3, <2>1, <3>2
      <4> QED
        BY <1>4, <4>2, <4>3, <4>4
    <3> QED
      <4>1. k <= first \/ k > first
        BY <3>0
      <4> QED
        BY <3>1, <3>2, <4>1, Zenon
  <2>8. a \o b = Payload(n)
    <3>1. \A s \in Seq(Cell) : Len(s) = len => s = [k \in 1 .. len |-> s[k]]
      OBVIOUS
    <3>2. a \o b = [k \in 1 .. len |-> (a \o b)[k]]
      BY <2>6, <3>1
    <3> HIDE DEF Wrap
    <3> QED
      BY <1>5, <2>7, <3>2
  <2> QED
    BY <1>7, <2>5, <2>8 DEF len
<1>9. CASE ~(src + len > Capacity)
  <2>1. Copied(n) = [k \in 1 .. len |-> mem[src + k - 1]]
    BY <1>9 DEF Copied, Moved, len
  <2>2. \A k \in 1 .. len : src + k - 1 < Capacity
    BY <1>1, <1>2, <1>3, <1>9
  <2> HIDE DEF src
  <2>3. Copied(n) = Payload(n)
    BY <1>4, <1>5, <2>1, <2>2
  <2> QED
    BY <1>7, <2>3 DEF len
<1> QED
  BY <1>8, <1>9

LEMMA Concatenated ==
    ASSUME NEW s \in Seq(Cell), NEW t \in Seq(Cell)
    PROVE  /\ s \o t \in Seq(Cell) /\ Len(s \o t) = Len(s) + Len(t)
           /\ Len(s) \in Nat /\ Len(t) \in Nat
  OBVIOUS

\* The first fragments of q, one behind the other, for each number of them.
Joined(p, q, m) ==
    /\ p \in [0 .. m -> Seq(Cell)]
    /\ p[0] = <<>>
    /\ \A k \in 1 .. m : p[k] = p[k - 1] \o q[k]

LEMMA JoinedExists ==
    ASSUME NEW q \in Seq(Seq(Cell))
    PROVE  \E p : Joined(p, q, Len(q))
<1> DEFINE n == Len(q)
           S == {m \in 0 .. n : \E p : Joined(p, q, m)}
<1>1. n \in Nat /\ \A k \in 1 .. n : q[k] \in Seq(Cell)
  OBVIOUS
<1> HIDE DEF n
<1>2. 0 \in S
  <2> DEFINE p == [k \in 0 .. 0 |-> <<>>]
  <2>1. Joined(p, q, 0)
    BY DEF Joined
  <2> QED
    BY <1>1, <2>1
<1>3. ASSUME NEW m \in 1 .. n, m - 1 \in S PROVE m \in S
  <2>1. PICK p : Joined(p, q, m - 1)
    BY <1>3
  <2> DEFINE h == [k \in 0 .. m |-> IF k = m THEN p[m - 1] \o q[m] ELSE p[k]]
  <2>2. p[m - 1] \in Seq(Cell) /\ q[m] \in Seq(Cell) /\ m - 1 \in 0 .. m /\ m - 1 # m
    BY <1>1, <2>1 DEF Joined
  <2>3. h \in [0 .. m -> Seq(Cell)] /\ h[0] = <<>> /\ h[m] = p[m - 1] \o q[m]
    <3>1. p[m - 1] \o q[m] \in Seq(Cell)
      BY <2>2
    <3>2. \A k \in 0 .. m : k # m => k \in 0 .. m - 1
      BY <1>1
    <3>3. 0 # m
      BY <1>1
    <3>4. \A k \in 0 .. m - 1 : p[k] \in Seq(Cell)
      BY <2>1 DEF Joined
    <3>5. p[0] = <<>>
      BY <2>1 DEF Joined
    <3>6. h[m] = p[m - 1] \o q[m] /\ h[0] = p[0]
      BY <1>1, <3>3
    <3>7. \A k \in 0 .. m : h[k] \in Seq(Cell)
      BY <3>1, <3>2, <3>4
    <3>8. h \in [0 .. m -> Seq(Cell)]
      BY <3>7
    <3> QED
      BY <3>5, <3>6, <3>8
  <2>4. \A k \in 0 .. m - 1 : h[k] = p[k]
    BY <1>1
  <2> HIDE DEF h
  <2>5. ASSUME NEW k \in 1 .. m PROVE h[k] = h[k - 1] \o q[k]
    <3>1. CASE k = m
      <4>1. h[m - 1] = p[m - 1]
        BY <1>1, <2>4
      <4> QED
        BY <2>3, <3>1, <4>1
    <3>2. CASE k # m
      <4>1. k \in 1 .. m - 1 /\ k - 1 \in 0 .. m - 1 /\ k \in 0 .. m - 1
        BY <1>1, <3>2
      <4> QED
        BY <2>1, <2>4, <4>1 DEF Joined
    <3> QED
      BY <3>1, <3>2
  <2>6. Joined(h, q, m)
    BY <2>3, <2>5 DEF Joined
  <2> QED
    BY <2>6
<1> HIDE DEF S
<1>4. 0 .. n \subseteq S
  <2>1. n \in Nat
    BY <1>1
  <2> QED
    BY <1>2, <1>3, <2>1, UpTo
<1>5. n \in S
  BY <1>1, <1>4
<1> QED
  BY <1>5 DEF S, n

LEMMA JoinedIsFlat ==
    ASSUME NEW q \in Seq(Seq(Cell)), NEW p, Joined(p, q, Len(q)), NEW m \in 0 .. Len(q)
    PROVE  FlattenSeq(SubSeq(q, 1, m)) = p[m]
<1> DEFINE d == SubSeq(q, 1, m)
           flatten == CHOOSE g : g = [i \in 1 .. Len(d) |-> IF i = 1 THEN d[i] ELSE g[i - 1] \o d[i]]
<1>1. Len(d) = m /\ m \in Nat /\ \A i \in 1 .. m : d[i] = q[i] /\ q[i] \in Seq(Cell)
  OBVIOUS
<1>2. CASE m = 0
  <2>1. d = <<>>
    BY <1>1, <1>2
  <2> HIDE DEF d
  <2> QED
    BY <1>2, <2>1 DEF FlattenSeq, Joined
<1>3. CASE m # 0
  <2> HIDE DEF d
  <2> DEFINE h == [i \in 1 .. m |-> p[i]]
  <2>1. \A i \in 1 .. m : i - 1 \in 0 .. Len(q) /\ i \in 1 .. Len(q) /\ (i # 1 => i - 1 \in 1 .. m)
    BY <1>1
  <2>2. ASSUME NEW i \in 1 .. m PROVE h[i] = IF i = 1 THEN d[i] ELSE h[i - 1] \o d[i]
    <3>1. p[i] = p[i - 1] \o d[i] /\ d[i] \in Seq(Cell)
      BY <1>1, <2>1 DEF Joined
    <3>2. CASE i = 1
      <4>1. p[i - 1] = <<>>
        BY <3>2 DEF Joined
      <4> QED
        BY <3>1, <3>2, <4>1
    <3>3. CASE i # 1
      BY <2>1, <3>1, <3>3
    <3> QED
      BY <3>2, <3>3
  <2>3. h = [i \in 1 .. Len(d) |-> IF i = 1 THEN d[i] ELSE h[i - 1] \o d[i]]
    <3>1. h = [i \in 1 .. m |-> h[i]]
      OBVIOUS
    <3> HIDE DEF h
    <3> QED
      BY <1>1, <2>2, <3>1
  <2> HIDE DEF h
  <2>4. flatten = [i \in 1 .. Len(d) |-> IF i = 1 THEN d[i] ELSE flatten[i - 1] \o d[i]]
    BY <2>3, Zenon
  <2>5. FlattenSeq(d) = flatten[Len(d)]
    BY <1>1, <1>3, Zenon DEF FlattenSeq
  <2> HIDE DEF flatten
  <2> DEFINE S == {k \in 0 .. m : k > 0 => flatten[k] = h[k]}
  <2>6. 0 \in S
    BY <1>1
  <2>7. ASSUME NEW k \in 1 .. m, k - 1 \in S PROVE k \in S
    <3>1. flatten[k] = IF k = 1 THEN d[k] ELSE flatten[k - 1] \o d[k]
      BY <1>1, <2>4
    <3>2. k # 1 => k - 1 > 0
      OBVIOUS
    <3>3. k # 1 => flatten[k - 1] = h[k - 1]
      BY <2>7, <3>2
    <3>4. flatten[k] = h[k]
      BY <2>2, <3>1, <3>3
    <3> QED
      BY <3>4
  <2> HIDE DEF S
  <2>8. m \in S
    <3>1. 0 .. m \subseteq S
      BY <1>1, <2>6, <2>7, UpTo
    <3> QED
      BY <1>1, <3>1
  <2>9. flatten[m] = h[m] /\ h[m] = p[m]
    BY <1>1, <1>3, <2>8 DEF S, h
  <2> QED
    BY <1>1, <2>5, <2>9 DEF d
<1> QED
  BY <1>2, <1>3

(* A prefix of k fragments fits.                                           *)
Fits(p, k, room, count) == k <= count /\ Len(p[k]) <= room

(* What the loop has after k fragments: the first m of them, and all that  *)
(* fit.                                                                    *)
Filled(acc, p, k, m, room, count) ==
    /\ Fits(p, m, room, count)
    /\ acc \in [done : BOOLEAN, count : Int, out : Seq(Cell)]
    /\ acc.out = p[m]
    /\ acc.done => ~Fits(p, m + 1, room, count) /\ m < k
    /\ ~acc.done => m = k /\ acc.count = count - k

LEMMA LongerAndLonger ==
    ASSUME NEW q \in Seq(Seq(Cell)), NEW p, Joined(p, q, Len(q)), NEW room, NEW count \in Nat,
           NEW i \in 0 .. Len(q), NEW j \in 0 .. i, Fits(p, i, room, count), room \in Int
    PROVE  Fits(p, j, room, count)
<1> DEFINE S == {k \in 0 .. i : Fits(p, i - k, room, count)}
<1>1. i \in Nat /\ j \in Nat /\ Len(q) \in Nat
  OBVIOUS
<1>2. 0 \in S
  BY <1>1
<1>3. ASSUME NEW k \in 1 .. i, k - 1 \in S PROVE k \in S
  <2> DEFINE h == i - (k - 1)
  <2>1. h \in 1 .. Len(q) /\ h - 1 \in 0 .. Len(q) /\ h \in 0 .. Len(q) /\ i - k = h - 1
    BY <1>1
  <2>2. Fits(p, h, room, count)
    BY <1>3
  <2> HIDE DEF h
  <2>3. p[h] = p[h - 1] \o q[h] /\ p[h - 1] \in Seq(Cell) /\ q[h] \in Seq(Cell)
    <3>1. q[h] \in Seq(Cell)
      BY <2>1
    <3> QED
      BY <2>1, <3>1 DEF Joined
  <2>4. Len(p[h - 1]) <= Len(p[h]) /\ Len(p[h - 1]) \in Nat /\ Len(p[h]) \in Nat
    <3>1. Len(p[h]) = Len(p[h - 1]) + Len(q[h]) /\ Len(p[h - 1]) \in Nat /\ Len(q[h]) \in Nat
      BY <2>3, Concatenated
    <3>2. \A x, y, z : x \in Nat /\ y \in Nat /\ z = x + y => x <= z /\ z \in Nat
      OBVIOUS
    <3> QED
      BY <3>1, <3>2, Zenon
  <2>5. Fits(p, h - 1, room, count)
    BY <2>1, <2>2, <2>4 DEF Fits
  <2> QED
    BY <2>1, <2>5
<1> HIDE DEF S
<1>4. 0 .. i \subseteq S
  BY <1>1, <1>2, <1>3, UpTo
<1>5. i - j \in S
  BY <1>1, <1>4
<1>6. i - (i - j) = j
  BY <1>1
<1> QED
  BY <1>5, <1>6 DEF S

LEMMA RoundFills ==
    ASSUME NEW q \in Seq(Seq(Cell)), NEW p, Joined(p, q, Len(q)),
           NEW room \in Int, NEW count \in Nat, NEW k \in 1 .. Len(q),
           NEW n, Copied(n) = q[k], LengthAt(n) = Len(q[k]),
           NEW acc, NEW m \in 0 .. k - 1, Filled(acc, p, k - 1, m, room, count)
    PROVE  \E l \in 0 .. k : Filled(Round(acc, n, room), p, k, l, room, count)
<1>1. /\ k \in Nat /\ k - 1 \in 0 .. Len(q) /\ m \in Nat
      /\ q[k] \in Seq(Cell)
  OBVIOUS
<1>2. p[k - 1] \in Seq(Cell) /\ p[k] = p[k - 1] \o q[k]
  BY <1>1 DEF Joined
<1>3. Len(p[k]) = Len(p[k - 1]) + LengthAt(n) /\ Len(p[k]) \in Nat /\ p[k] \in Seq(Cell)
  BY <1>1, <1>2, Concatenated
<1>a. acc \in [done : BOOLEAN, count : Int, out : Seq(Cell)]
  BY DEF Filled
<1>4. CASE acc.done
  <2>1. Round(acc, n, room) = [acc EXCEPT !.done = TRUE]
    BY <1>4 DEF Round
  <2>2. [acc EXCEPT !.done = TRUE] = acc
    BY <1>4 DEF Filled
  <2>3. Filled(acc, p, k, m, room, count)
    BY <1>1, <1>4 DEF Filled
  <2>4. m \in 0 .. k
    BY <1>1
  <2> QED
    BY <2>1, <2>2, <2>3, <2>4
<1>5. CASE ~acc.done /\ Fits(p, k, room, count)
  <2>1. m = k - 1 /\ acc.count = count - (k - 1) /\ acc.out = p[k - 1]
    BY <1>5 DEF Filled
  <2>2. ~(acc.count = 0 \/ Len(acc.out) + LengthAt(n) > room)
    <3>1. k <= count /\ Len(p[k]) <= room
      BY <1>5 DEF Fits
    <3>2. Len(p[k - 1]) + LengthAt(n) <= room
      BY <1>3, <3>1
    <3>3. count - (k - 1) # 0 /\ ~(Len(p[k - 1]) + LengthAt(n) > room)
      <4>1. Len(p[k - 1]) + LengthAt(n) \in Nat
        BY <1>3
      <4> QED
        <5>1. count - (k - 1) # 0
          BY <1>1, <3>1
        <5>2. ~(Len(p[k - 1]) + LengthAt(n) > room)
          <6>1. \A x \in Nat : x <= room => ~(x > room)
            OBVIOUS
          <6> QED
            BY <3>2, <4>1, <6>1, Zenon
        <5> QED
          BY <5>1, <5>2
    <3> QED
      BY <2>1, <3>3
  <2>3. Round(acc, n, room) = [acc EXCEPT !.count = acc.count - 1, !.out = acc.out \o Copied(n)]
    BY <1>5, <2>2 DEF Round
  <2>4. Filled(Round(acc, n, room), p, k, k, room, count)
    <3>1. acc.out \o Copied(n) = p[k] /\ acc.count - 1 = count - k
      BY <1>1, <1>2, <2>1
    <3> QED
      <4>1. Round(acc, n, room) = [done |-> FALSE, count |-> count - k, out |-> p[k]]
        BY <1>a, <1>5, <2>3, <3>1
      <4>2. count - k \in Int
        BY <1>1
      <4> QED
        BY <1>3, <1>5, <4>1, <4>2 DEF Filled
  <2> QED
    BY <1>1, <2>4
<1>6. CASE ~acc.done /\ ~Fits(p, k, room, count)
  <2>1. m = k - 1 /\ acc.count = count - (k - 1) /\ acc.out = p[k - 1]
    BY <1>6 DEF Filled
  <2>2. acc.count = 0 \/ Len(acc.out) + LengthAt(n) > room
    <3>1. k - 1 <= count
      BY <2>1 DEF Filled, Fits
    <3> QED
      <4>1. k > count \/ Len(p[k]) > room
        <5>1. ~(k <= count) \/ ~(Len(p[k]) <= room)
          BY <1>6 DEF Fits
        <5>2. Len(p[k]) \in Nat
          BY <1>3
        <5>3. ~(k <= count) => k > count
          BY <1>1
        <5>4. ~(Len(p[k]) <= room) => Len(p[k]) > room
          BY <5>2
        <5> QED
          BY <5>1, <5>3, <5>4
      <4>2. k > count => count - (k - 1) = 0
        BY <1>1, <3>1
      <4>3. Len(p[k]) > room => Len(p[k - 1]) + LengthAt(n) > room
        BY <1>3
      <4> QED
        BY <2>1, <4>1, <4>2, <4>3
  <2>3. Round(acc, n, room) = [acc EXCEPT !.done = TRUE]
    BY <2>2 DEF Round
  <2>4. Filled(Round(acc, n, room), p, k, k - 1, room, count)
    <3>1. (k - 1) + 1 = k /\ k - 1 < k
      BY <1>1
    <3> QED
      BY <1>6, <2>1, <2>3, <3>1 DEF Filled
  <2> QED
    BY <1>1, <2>4
<1> QED
  BY <1>4, <1>5, <1>6

(* The loop ends with the longest run that fits.                           *)
LEMMA FillFits ==
    ASSUME NEW b, NEW room \in Int, 0 <= room, NEW count \in Nat, NEW chain \in Seq(Index),
           Chain(nextRead[b]) = chain,
           NEW q \in Seq(Seq(Cell)), Len(q) = Len(chain),
           \A k \in 1 .. Len(q) : Copied(chain[k]) = q[k] /\ LengthAt(chain[k]) = Len(q[k])
    PROVE  fillTxBuffer(b, room, count) = Fitting(q, room, count)
<1> DEFINE n == Len(q)
<1>1. n \in Nat
  OBVIOUS
<1>2. PICK f : Trace(f, chain, count, room) /\ fillTxBuffer(b, room, count) = f[Len(chain)].out
  <2>1. Traced(b, chain, count, room)
    BY FillTraced
  <2> QED
    BY <2>1 DEF Traced
<1>3. PICK p : Joined(p, q, n)
  BY JoinedExists
<1> DEFINE S == {k \in 0 .. n : \E m \in 0 .. k : Filled(f[k], p, k, m, room, count)}
<1>4. 0 \in S
  <2>1. f[0] = Start(count)
    BY <1>2 DEF Trace
  <2>2. p[0] = <<>>
    BY <1>3 DEF Joined
  <2>3. Filled(Start(count), p, 0, 0, room, count)
    BY <2>2 DEF Filled, Start, Fits
  <2> QED
    BY <1>1, <2>1, <2>3
<1>5. ASSUME NEW k \in 1 .. n, k - 1 \in S PROVE k \in S
  <2>1. PICK m \in 0 .. k - 1 : Filled(f[k - 1], p, k - 1, m, room, count)
    BY <1>5
  <2>2. f[k] = Round(f[k - 1], chain[k], room)
    BY <1>2 DEF Trace
  <2>3. \E l \in 0 .. k : Filled(f[k], p, k, l, room, count)
    BY <1>3, <2>1, <2>2, RoundFills
  <2> QED
    BY <1>1, <2>3
<1> HIDE DEF S
<1>6. 0 .. n \subseteq S
  BY <1>1, <1>4, <1>5, UpTo
<1>7. PICK m \in 0 .. n : Filled(f[n], p, n, m, room, count)
  <2>1. n \in S
    BY <1>1, <1>6
  <2> QED
    BY <2>1 DEF S
<1> HIDE DEF n
<1> DEFINE prefix(k) == FlattenSeq(SubSeq(q, 1, k))
           fits == {k \in 0 .. Len(q) : k <= count /\ Len(prefix(k)) <= room}
<1>8. \A k \in 0 .. n : prefix(k) = p[k]
  BY <1>3, JoinedIsFlat DEF n
<1>9. \A k : k \in fits <=> k \in 0 .. n /\ Fits(p, k, room, count)
  BY <1>8 DEF n, Fits
<1>10. m \in fits
  BY <1>7, <1>9 DEF Filled
<1>11. ASSUME NEW y \in fits PROVE m >= y
  <2>1. y \in 0 .. n /\ Fits(p, y, room, count)
    BY <1>9
  <2>2. CASE y > m
    <3>1. m < n /\ m + 1 \in 0 .. y
      BY <1>1, <2>1, <2>2
    <3>2. Fits(p, m + 1, room, count)
      BY <1>3, <2>1, <3>1, LongerAndLonger DEF n
    <3> QED
      BY <1>7, <3>1, <3>2 DEF Filled
  <2> QED
    BY <1>1, <2>1, <2>2
<1>12. Max(fits) = m
  <2>1. fits \in SUBSET (0 .. n)
    BY <1>9
  <2> HIDE DEF fits
  <2> QED
    BY <1>1, <1>10, <1>11, <2>1, MaxIs
<1>13. Fitting(q, room, count) = prefix(Max(fits))
  BY DEF Fitting
<1>14. fillTxBuffer(b, room, count) = p[m]
  BY <1>2, <1>7 DEF Filled, n
<1> HIDE DEF fits, prefix
<1> QED
  BY <1>8, <1>12, <1>13, <1>14

LEMMA ThreadedReads == TypeOK /\ Threaded => FrameIsPrefix
<1> SUFFICES ASSUME TypeOK, Threaded,
                    NEW b \in Constructed, NEW room \in 0 .. MaxRoom, NEW count \in {1, None}
             PROVE  fillTxBuffer(b, room, count) = Fitting(Decoded(b), room, count)
  BY DEF FrameIsPrefix
<1>1. PICK c \in [Buffers -> Seq(Index)] : Layout(c)
  BY DEF Threaded
<1>2. b \in Buffers
  BY DEF TypeOK, Constructed
<1> DEFINE chain == c[b]
           q == Decoded(b)
<1>3. Chain(nextRead[b]) = chain
  <2>1. Linked(b, chain) /\ head \in Index /\ chain \in Seq(Index)
    BY <1>1, <1>2 DEF Layout, TypeOK
  <2>2. chain # <<>> => (HeaderSize + 1) * (Len(chain) - 1 + 1) <= BackFrom(head, chain[1])
    <3>1. chain # <<>> => 1 \in 1 .. Len(chain)
      BY <2>1
    <3> QED
      BY <1>1, <1>2, <3>1 DEF Layout, Placed
  <2>3. Len(chain) <= MaxFragments
    BY <2>1, <2>2, ShortEnough
  <2> QED
    BY <2>1, <2>3, ChainIsUnique DEF Linked, Chain
<1>4. chain \in Seq(Index)
  BY <1>2
<1> HIDE DEF chain
<1>5. q = [k \in 1 .. Len(chain) |-> Payload(chain[k])]
  BY <1>3 DEF Decoded
<1>6. ASSUME NEW k \in 1 .. Len(chain)
      PROVE  /\ Copied(chain[k]) = Payload(chain[k])
             /\ Payload(chain[k]) \in Seq(Cell)
             /\ Len(Payload(chain[k])) = LengthAt(chain[k])
  <2>1. chain[k] \in Index
    BY <1>4
  <2>2. Placed(chain, k)
    BY <1>1, <1>2 DEF Layout, chain
  <2> QED
    BY <2>1, <2>2, CopiedIs DEF Placed
<1> HIDE DEF q
<1>7. q \in Seq(Seq(Cell)) /\ Len(q) = Len(chain) /\ \A k \in 1 .. Len(q) : q[k] = Payload(chain[k])
  BY <1>4, <1>5, <1>6
<1>8. room \in Int /\ 0 <= room /\ count \in Nat
  BY MaxRoomAssumption DEF None
<1>9. \A k \in 1 .. Len(q) : Copied(chain[k]) = q[k] /\ LengthAt(chain[k]) = Len(q[k])
  BY <1>6, <1>7
<1>10. fillTxBuffer(b, room, count) = Fitting(q, room, count)
  BY <1>3, <1>4, <1>7, <1>8, <1>9, FillFits
<1> QED
  BY <1>10 DEF q

(* A frame carries exactly the longest run of whole fragments that its     *)
(* buffer has room for, byte for byte, wherever the ring ends and whatever *)
(* the other instances wrote and released before.                          *)
THEOREM FramesArePrefixes == Spec => []FrameIsPrefix
  BY TypeCorrect, AlwaysThreaded, ThreadedReads, PTL
=============================================================================
