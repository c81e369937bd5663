---------------------------- MODULE MCUDPSocket ----------------------------
(* Two UDPSockets, each with a host of its own, and one more host that is  *)
(* heard of: one entry less in the ARP table than there are hosts.         *)
EXTENDS UDPSocket, TLC

CONSTANTS h1, h2, h3, m1, m2, s1, s2

MCRemoteHost == (s1 :> h1) @@ (s2 :> h2)
MCMaxWrites == (s1 :> 2) @@ (s2 :> 1)
MCMaxSends == (s1 :> 2) @@ (s2 :> 1)
=============================================================================
