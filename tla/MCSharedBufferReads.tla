------------------------- MODULE MCSharedBufferReads -------------------------
(* SharedBufferReads with the instances of a TCPListener and its clients.  *)
EXTENDS SharedBufferReads, TLC

CONSTANTS listener, c1, c2, d1, d2

MCBuffers == {listener, c1, c2}
MCStatic == <<c1, listener>>
MCUsers == {c1, c2}
MCData == {d1, d2}
Symmetry == Permutations(MCData)
=============================================================================
