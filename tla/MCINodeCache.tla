---------------------------- MODULE MCINodeCache ----------------------------
(***************************************************************************)
(* The smallest cache the operations can do with.                          *)
(***************************************************************************)
EXTENDS INodeCache
=============================================================================
