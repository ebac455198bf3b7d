----------------------------- MODULE MCFileData -----------------------------
(***************************************************************************)
(* Blocks of two bytes, one of which fits in the inode.                    *)
(***************************************************************************)
EXTENDS FileData, TLC

\* One byte, or enough to touch two blocks at whatever offset.
Writes == {<<x>> : x \in Value} \cup {<<x, x, x>> : x \in Value}

Symmetry == Permutations(File) \cup Permutations(Lba) \cup Permutations(Value)
=============================================================================
