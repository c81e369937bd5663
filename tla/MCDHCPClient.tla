---------------------------- MODULE MCDHCPClient ----------------------------
(* A DHCP client with up to two servers and two addresses.                 *)
EXTENDS DHCPClient

CONSTANTS s1, s2, a1, a2
=============================================================================
