------------------------------ MODULE MCPeerCache ------------------------------
(***************************************************************************)
(* TLC instance of PeerCache: two peers and one place, so a load samples;  *)
(* sequence 3 does not fit the column.                                     *)
(***************************************************************************)
EXTENDS PeerCache

MCScore == [i \in Identity |-> i]
===============================================================================
