-------------------------- MODULE SharedBufferReads --------------------------
(***************************************************************************)
(* What can be read back from the shared ring: the chain of fragments of   *)
(* an instance, decoded from memory, and what fillTxBuffer copies of it    *)
(* into the transmit buffer.  With it, SharedBuffer is shown to implement  *)
(* PrivateFifos.                                                           *)
(***************************************************************************)
EXTENDS SharedBuffer, FiniteSetsExt, SequencesExt

CONSTANT MaxRoom    \* bound: the most room fillTxBuffer is tried with

ASSUME MaxRoomAssumption == MaxRoom \in Nat

(* release() leaves the oldest instance out of its count, so this is about *)
(* programs whose oldest instance never writes, as a TCPListener's.        *)
ASSUME OldestNeverWrites == Static # <<>> /\ Static[Len(Static)] \notin Users

\* The nextIndex of the header at i; none where a write ran over the header.
NextOf(memory, i) ==
    IF i # None /\ memory[i].kind = "next" THEN memory[i].val ELSE None

\* A ring has room for no more fragments than this.
MaxFragments == Capacity \div (HeaderSize + 1)

\* Where nextIndex leads from n, after any number of steps.
Hops(memory, n) ==
    LET hop[k \in 0 .. MaxFragments] == IF k = 0 THEN n ELSE NextOf(memory, hop[k - 1])
    IN  hop

\* The headers on the way, up to one that a write ran over.
ChainIn(memory, n) ==
    LET hop == Hops(memory, n)
        steps == {k \in 0 .. MaxFragments - 1 : hop[k] # None /\ memory[hop[k]].kind = "next"}
    IN  [k \in 1 .. Cardinality(steps) |-> hop[k - 1]]

Chain(n) == ChainIn(mem, n)

LengthAt(n) == mem[Wrap(n + 1)].val

\* The payload of the fragment with its header at n, wherever the ring ends.
Payload(n) == [k \in 1 .. LengthAt(n) |-> mem[Wrap(n + HeaderSize + k - 1)]]

Decoded(b) ==
    LET chain == Chain(nextRead[b]) IN [k \in 1 .. Len(chain) |-> Payload(chain[k])]

FragmentsOf ==
    {[k \in 1 .. n |-> DataCell(d, k - 1)] : n \in 1 .. MaxLength, d \in Data}

Fifos == INSTANCE PrivateFifos WITH
    queue <- [b \in Buffers |-> Decoded(b)],
    newest <- [b \in Buffers |-> IF lastWritten[b] = None THEN <<>> ELSE <<Payload(lastWritten[b])>>],
    Fragments <- FragmentsOf

(* Every instance is a FIFO of its own: whatever the others write, release *)
(* and flush, and wherever headers and payloads are split by the end of    *)
(* the ring, its fragments come back whole, once and in order.             *)
PrivateFifosImplemented == Fifos!Spec

-----------------------------------------------------------------------------
(* fillTxBuffer *)

\* moveMem(txPtr, src, len): len cells from src on, appended to what was copied.
Moved(src, len) == [k \in 1 .. len |-> mem[src + k - 1]]

\* Mutant: the start of the payload is not wrapped.
Source_Unwrapped(n) == n + HeaderSize

\* src of a fragment whose header is at n.
Source(n) == IF n + HeaderSize >= Capacity THEN n + HeaderSize - Capacity ELSE n + HeaderSize

\* The copy of one fragment: in one piece, or in two when it runs past the
\* end of the ring.
Copied(n) ==
    LET src == Source(n)
        len == LengthAt(n)
        first == Capacity - src
    IN  IF src + len > Capacity
        THEN Moved(src, first) \o Moved(0, len - first)
        ELSE Moved(src, len)

\* What ends up in a transmit buffer with space for room cells, of at most
\* count fragments: the first fragment that does not fit ends the copy.
fillTxBuffer(b, room, count) ==
    LET step(n, acc) ==
            IF acc.done \/ acc.count = 0 \/ Len(acc.out) + LengthAt(n) > room
            THEN [acc EXCEPT !.done = TRUE]
            ELSE [acc EXCEPT !.count = @ - 1, !.out = @ \o Copied(n)]
    IN  FoldLeft(LAMBDA acc, n : step(n, acc),
                 [done |-> FALSE, count |-> count, out |-> <<>>],
                 Chain(nextRead[b])).out

\* The longest run of whole fragments from the front of q that the two limits allow.
Fitting(q, room, count) ==
    LET prefix(k) == FlattenSeq(SubSeq(q, 1, k))
        fits == {k \in 0 .. Len(q) : k <= count /\ Len(prefix(k)) <= room}
    IN  prefix(Max(fits))

(* A frame carries exactly the longest run of whole fragments, from the    *)
(* oldest on, that its buffer has room for, byte for byte: also when a     *)
(* header or a payload lies across the end of the ring.                    *)
FrameIsPrefix ==
    \A b \in Constructed, room \in 0 .. MaxRoom, count \in {1, None} :
        fillTxBuffer(b, room, count) = Fitting(Decoded(b), room, count)
=============================================================================
