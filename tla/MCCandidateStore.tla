--------------------------- MODULE MCCandidateStore ---------------------------
(***************************************************************************)
(* TLC instance of CandidateStore: four identities compete for two places, *)
(* each announced with two sequence numbers in two blocks.  Scores are a   *)
(* permutation; identities differ in nothing else, so one is enough.       *)
(***************************************************************************)
EXTENDS CandidateStore

MCIdentity == 1..4
MCScore == [i \in MCIdentity |-> (7 * i) % 5]
===============================================================================
