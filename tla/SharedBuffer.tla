---------------------------- MODULE SharedBuffer ----------------------------
(***************************************************************************)
(* The circular buffer in the ENC28J60's spare memory that all sockets     *)
(* share (SharedBuffer.h, SharedBuffer.cpp, List.cpp).                     *)
(*                                                                         *)
(* Every instance is a queue of fragments threaded through one ring.  All  *)
(* of them append at the one `head'; each has its own tail, `nextRead'.    *)
(* Space comes back only when the tail that is furthest behind moves.      *)
(*                                                                         *)
(* The memory is a ring of cells.  A fragment's header takes two cells,    *)
(* one for nextIndex and one for length and checksum, so that a header and *)
(* its payload can be split by the end of the ring at every place where    *)
(* writeAt and readAt split them; a payload byte takes one cell.           *)
(***************************************************************************)
EXTENDS Integers, Sequences

CONSTANTS
    Buffers,    \* the instances the program may construct
    Static,     \* those that exist from the start, newest first, never destroyed
    Users,      \* those whose owner writes data (a listening socket never does)
    Capacity,   \* SHARED_BUFFER_CAPACITY, in cells
    MaxLength,  \* bound: the longest write tried
    Data        \* the payloads the model tells apart

HeaderSize == 2
None == 65535   \* 0xFFFF, "no fragment"

ASSUME SharedBufferAssumption ==
    /\ Static \in Seq(Buffers)
    /\ Users \subseteq Buffers
    /\ Capacity \in Nat
    /\ HeaderSize < Capacity
    /\ Capacity < None
    /\ MaxLength \in Nat \ {0}

VARIABLES
    head,         \* where the next fragment goes
    usedSpace,    \* cells from the furthest tail to head, as the code counts them
    bufferList,   \* the list of instances, newest first
    nextRead,     \* per instance, the oldest fragment not released, or None
    lastWritten,  \* per instance, the newest fragment not released, or None
    mem           \* the ring

vars == <<head, usedSpace, bufferList, nextRead, lastWritten, mem>>

Index == 0 .. Capacity - 1

NextCell(i) == [kind |-> "next", val |-> i, at |-> 0]
LengthCell(n) == [kind |-> "length", val |-> n, at |-> 0]
DataCell(d, k) == [kind |-> "data", val |-> d, at |-> k]
FreeCell == [kind |-> "free", val |-> 0, at |-> 0]

Cell ==
    {NextCell(i) : i \in Index \cup {None}}
        \cup {LengthCell(n) : n \in 1 .. MaxLength}
        \cup {DataCell(d, k) : d \in Data, k \in 0 .. MaxLength - 1}
        \cup {FreeCell}

Constructed == {bufferList[k] : k \in 1 .. Len(bufferList)}
IsEmpty(b) == nextRead[b] = None

-----------------------------------------------------------------------------
(* Ring arithmetic *)

Wrap(i) == IF i >= Capacity THEN i - Capacity ELSE i

\* How far cell i lies after cell h, going round.
Offset(h, i) == IF i >= h THEN i - h ELSE i - h + Capacity

Distance(tail, hd) == IF tail < hd THEN hd - tail ELSE Capacity - tail + hd

\* What a read of the nextIndex of the header at i yields.  Where a write has
\* run over the header the bytes are arbitrary.
NextIndexAt(i) ==
    IF mem[i].kind = "next" THEN {mem[i].val} ELSE Index \cup {None}

-----------------------------------------------------------------------------
(* write *)

Available ==
    IF Capacity - usedSpace - HeaderSize < 0 THEN 0 ELSE Capacity - usedSpace - HeaderSize

Clip(len) == IF len < Available THEN len ELSE Available

\* Mutant: the previous fragment is not linked to the new one.
Stored_Unlinked(i, last, len, d) ==
    LET k == Offset(head, i) IN
    IF k = 0 THEN NextCell(None)
    ELSE IF k = 1 THEN LengthCell(len)
    ELSE IF k < HeaderSize + len THEN DataCell(d, k - HeaderSize)
    ELSE mem[i]

\* What cell i holds after header and payload are appended at head and the
\* previous fragment, at last, is pointed at them.
Stored(i, last, len, d) ==
    LET k == Offset(head, i) IN
    IF i = last THEN NextCell(head)
    ELSE IF k = 0 THEN NextCell(None)
    ELSE IF k = 1 THEN LengthCell(len)
    ELSE IF k < HeaderSize + len THEN DataCell(d, k - HeaderSize)
    ELSE mem[i]

write(b, len, d) ==
    LET n == Clip(len) IN
    /\ b \in Constructed
    /\ n > 0
    /\ mem' = [i \in Index |-> Stored(i, lastWritten[b], n, d)]
    /\ nextRead' = IF lastWritten[b] = None THEN [nextRead EXCEPT ![b] = head] ELSE nextRead
    /\ lastWritten' = [lastWritten EXCEPT ![b] = head]
    /\ head' = Wrap(head + HeaderSize + n)
    /\ usedSpace' = usedSpace + HeaderSize + n
    /\ UNCHANGED bufferList

-----------------------------------------------------------------------------
(* release, flush *)

\* Mutant: the scan also misses the second-oldest instance.
Scanned_MissesTwo(list) == {list[k] : k \in 1 .. Len(list) - 2}

\* The instances release() looks at when it recounts: its loop ends at the
\* item that has no next item, and so before the oldest instance.
Scanned(list) == {list[k] : k \in 1 .. Len(list) - 1}

\* The distances from the tails nr to head that release() maximises over.
Distances(nr) == {Distance(nr[b], head) : b \in {c \in Scanned(bufferList) : nr[c] # None}}

\* Mutant: usedSpace is not reset before the maximum is taken.
IsRecount_NoReset(u, nr) ==
    /\ u \in Distances(nr) \cup {usedSpace}
    /\ \A d \in Distances(nr) \cup {usedSpace} : d <= u

\* u is what the recount over the tails nr ends with.
IsRecount(u, nr) ==
    /\ u \in Distances(nr) \cup {0}
    /\ \A d \in Distances(nr) : d <= u

release(b) ==
    /\ b \in Constructed
    /\ ~IsEmpty(b)
    /\ \E next \in NextIndexAt(nextRead[b]) :
        /\ nextRead' = [nextRead EXCEPT ![b] = next]
        /\ lastWritten' = IF next = None THEN [lastWritten EXCEPT ![b] = None] ELSE lastWritten
    /\ \E u \in 0 .. Capacity : IsRecount(u, nextRead') /\ usedSpace' = u
    /\ UNCHANGED <<head, bufferList, mem>>

\* release() until nothing is left: the last of them decides usedSpace.
Emptied(b) ==
    /\ nextRead' = [nextRead EXCEPT ![b] = None]
    /\ lastWritten' = [lastWritten EXCEPT ![b] = None]
    /\ \/ IsEmpty(b) /\ usedSpace' = usedSpace
       \/ ~IsEmpty(b) /\ \E u \in 0 .. Capacity : IsRecount(u, nextRead') /\ usedSpace' = u
    /\ UNCHANGED <<head, mem>>

flush(b) ==
    /\ b \in Constructed
    /\ ~IsEmpty(b)
    /\ Emptied(b)
    /\ UNCHANGED bufferList

-----------------------------------------------------------------------------
(* construction and destruction *)

construct(b) ==
    /\ b \notin Constructed
    /\ bufferList' = <<b>> \o bufferList
    /\ nextRead' = [nextRead EXCEPT ![b] = None]
    /\ lastWritten' = [lastWritten EXCEPT ![b] = None]
    /\ UNCHANGED <<head, usedSpace, mem>>

\* List::remove of the k-th item.
Without(list, k) ==
    [i \in 1 .. Len(list) - 1 |-> IF i < k THEN list[i] ELSE list[i + 1]]

\* flush(), then out of the list.
destroy(k) ==
    /\ \A j \in 1 .. Len(Static) : bufferList[k] # Static[j]
    /\ Emptied(bufferList[k])
    /\ bufferList' = Without(bufferList, k)

-----------------------------------------------------------------------------

Init ==
    /\ head = 0
    /\ usedSpace = 0
    /\ bufferList = Static
    /\ nextRead = [b \in Buffers |-> None]
    /\ lastWritten = [b \in Buffers |-> None]
    /\ mem = [i \in Index |-> FreeCell]

Next ==
    \/ \E b \in Users, len \in 1 .. MaxLength, d \in Data : write(b, len, d)
    \/ \E b \in Buffers : release(b)
    \/ \E b \in Buffers : flush(b)
    \/ \E b \in Buffers : construct(b)
    \/ \E k \in 1 .. Len(bufferList) : destroy(k)

Spec == Init /\ [][Next]_vars

-----------------------------------------------------------------------------

(* Every variable keeps to the range its declaration in SharedBuffer.h and *)
(* the bounds of the ring allow.                                           *)
TypeOK ==
    /\ head \in Index
    /\ usedSpace \in 0 .. Capacity
    /\ bufferList \in Seq(Buffers)
    /\ nextRead \in [Buffers -> Index \cup {None}]
    /\ lastWritten \in [Buffers -> Index \cup {None}]
    /\ mem \in [Index -> Cell]

\* Cells from the tail of b up to head: what must not be written to.
Backlog(b) == IF nextRead[b] < head THEN head - nextRead[b] ELSE head - nextRead[b] + Capacity

(* usedSpace covers the backlog of every instance but the oldest, through  *)
(* any mixture of writes, releases, flushes, constructions and             *)
(* destructions: write() then never runs over a fragment one of them has   *)
(* still to send (SharedBuffer.cpp:128 relies on it).                      *)
SpaceAccounted ==
    \A k \in 1 .. Len(bufferList) - 1 :
        ~IsEmpty(bufferList[k]) => Backlog(bufferList[k]) <= usedSpace

(* Once every instance is empty the whole ring is available again, however *)
(* fragmented it was: the free chunks coalesce (SharedBuffer.h:106).       *)
AllFreeWhenEmpty == (\A b \in Constructed : IsEmpty(b)) => usedSpace = 0
=============================================================================
