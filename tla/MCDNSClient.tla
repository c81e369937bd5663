---------------------------- MODULE MCDNSClient ----------------------------
(* Two HTTPClients and two names, whose queries are told apart.            *)
EXTENDS DNSClient, TLC

CONSTANTS a, b, c1, c2

DistinctIds == (a :> 1) @@ (b :> 2)
=============================================================================
