------------------------------- MODULE MCICMP -------------------------------
(***************************************************************************)
(* The two ICMP services, one that asks names, and two that come and go;   *)
(* an echo request with the padding that a short frame has, one that fits  *)
(* in the buffer but whose length a byte does not hold, and one that does  *)
(* not fit.                                                                *)
(***************************************************************************)
EXTENDS ICMP

CONSTANTS DNS, TCPSocket, UDPSocket, Peer, d, e

MCService == {ICMPPingAutoReply, ICMPPinger, DNS, TCPSocket, UDPSocket}
MCFixed == <<ICMPPinger, ICMPPingAutoReply>>

For(owner, length, data) ==
    [data |-> <<Headers(Local, Peer, owner, length)>> \o data, ok |-> TRUE]

MCFrame ==
    {For(ICMPPingAutoReply, 2, <<d, e, Garbage>>),
     For(ICMPPingAutoReply, 3, <<d, e, d>>),
     For(ICMPPingAutoReply, 4, <<d, e, d, e>>),
     For(DNS, 0, <<>>),
     For(TCPSocket, 0, <<>>),
     [data |-> <<Headers(Local, Peer, Null, 0)>>, ok |-> FALSE]}

=============================================================================
