------------------------------ MODULE MCNativePeers ------------------------------
(***************************************************************************)
(* Two peers and two addresses; one configured peer, one without a peer id *)
(* and none.                                                               *)
(***************************************************************************)
EXTENDS NativePeers

CONSTANTS a, b, x, y, NoPeer

MCConfigured ==
  {{}, {[peer |-> a, address |-> x]}, {[peer |-> NoPeer, address |-> x]}}
===============================================================================
