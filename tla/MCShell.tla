------------------------------ MODULE MCShell ------------------------------
(***************************************************************************)
(* Two names that are not cut, and one value to write.                     *)
(***************************************************************************)
EXTENDS Shell, TLC

CONSTANTS a, b, v, zero

Names == {a, b, v, zero}
Whole == [n \in Names \cup {Dot, DotDot} |-> n]
Perms == Permutations({a, b})
=============================================================================
