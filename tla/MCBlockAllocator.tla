-------------------------- MODULE MCBlockAllocator --------------------------
(***************************************************************************)
(* Small disks for TLC.  Six bits per bitmap block keep the block that     *)
(* reset_bitmap reserves, the ones it loses and the wrap-around search     *)
(* all in reach.                                                           *)
(***************************************************************************)
EXTENDS BlockAllocator
=============================================================================
