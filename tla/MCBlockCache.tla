---------------------------- MODULE MCBlockCache ----------------------------
(***************************************************************************)
(* Four blocks over a cache of two and two holders: full caches, evictions *)
(* that must skip a pinned buffer, and a cache in which all are pinned.    *)
(***************************************************************************)
EXTENDS BlockCache, TLC

Symmetry == Permutations(Lba) \cup Permutations(Holder)
=============================================================================
