--------------------------- MODULE MCTCPConnection ---------------------------
(* A connection with short streams and short timers.                       *)
EXTENDS TCPConnection

CONSTANT Ticks  \* every timeout, in ticks

MCTimeout == [st \in State |-> IF st \in TimedStates THEN Ticks ELSE 0]
=============================================================================
