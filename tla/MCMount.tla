------------------------------ MODULE MCMount ------------------------------
(***************************************************************************)
(* Two formats, the second over a used disk, and two operations after each. *)
(***************************************************************************)
EXTENDS Mount
=============================================================================
