--------------------------- MODULE MCINodeBitmap ---------------------------
(***************************************************************************)
(* A small layout: blocks of six bits, two slots of three bits in a block. *)
(* Block 0, the bitmap in 1 and 2, the inode bitmap in 3, the table in 4   *)
(* to 6.  The remainder of one exposes block 6, and the misplaced bit      *)
(* falls into the slot of inode 2.                                         *)
(***************************************************************************)
EXTENDS INodeBitmap

\* File data that look like a file whose block is the second block of the bitmap,
\* or the inode bitmap.
MCContents == {[bits |-> Bit, says |-> 2], [bits |-> {}, says |-> 3]}
=============================================================================
