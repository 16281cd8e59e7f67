------------------------------ MODULE MCScanner ------------------------------
(***************************************************************************)
(* The scanner on a chain of at most MaxHeight blocks after genesis, with  *)
(* one peer, whose announcements and bytes that decode to none fill any of *)
(* its blocks.                                                             *)
(***************************************************************************)
EXTENDS Scanner

MCScore == [i \in Identity |-> i]
MCBlock == 0..MaxHeight
===============================================================================
