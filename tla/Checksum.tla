------------------------------ MODULE Checksum ------------------------------
(***************************************************************************)
(* The Internet checksum (Checksum.cpp), in the byte order of the          *)
(* microcontroller.                                                        *)
(***************************************************************************)
EXTENDS Integers, Sequences

CONSTANT ByteBase   \* values of a byte: 256 in the code

ASSUME ChecksumAssumption == ByteBase \in Nat /\ ByteBase > 1

WordMod == ByteBase * ByteBase
Byte == 0 .. ByteBase - 1

\* uint16_t addition with the carry brought round.
add(a, b) ==
    LET sum == (a + b) % WordMod
    IN  IF sum < b THEN (sum + 1) % WordMod ELSE sum

swap(b) == (b % ByteBase) * ByteBase + b \div ByteBase

\* Mutant: where the fragment starts does not matter.
addAt_Even(a, b, odd) == add(a, b)

\* A checksum that starts at an odd place has its bytes the other way round.
addAt(a, b, odd) == add(a, IF odd THEN swap(b) ELSE b)

\* The words of data, low byte first, and an odd last byte on its own.
calc(data) ==
    LET sum[k \in 0 .. Len(data) \div 2] ==
            IF k = 0 THEN 0
            ELSE add(sum[k - 1], data[2 * k - 1] + ByteBase * data[2 * k])
        words == sum[Len(data) \div 2]
    IN  IF Len(data) % 2 = 1 THEN add(words, data[Len(data)]) ELSE words
=============================================================================
