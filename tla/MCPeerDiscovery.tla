---------------------------- MODULE MCPeerDiscovery ----------------------------
(***************************************************************************)
(* The browser client with the timestamp search and with two lookbacks, of *)
(* which the shorter is exactly long enough, on a chain of at most         *)
(* MaxHeight blocks after genesis.                                         *)
(***************************************************************************)
EXTENDS PeerDiscovery

MCScore == [i \in Identity |-> 3 - i]
MCBlock == 0..MaxHeight
===============================================================================
