------------------------------ MODULE MCBPTree ------------------------------
(***************************************************************************)
(* Nodes of at most three keys, the fewest for which both halves of every  *)
(* split keep one, as with the 1021 of the code.                           *)
(***************************************************************************)
EXTENDS BPTree
=============================================================================
