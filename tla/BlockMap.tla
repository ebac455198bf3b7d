------------------------------ MODULE BlockMap ------------------------------
(***************************************************************************)
(* What the block index of a file promises: a map from file block numbers  *)
(* to data blocks, and the calls made of it.  A call names the key and the *)
(* block it is about and whether it reported success: an insertion adds    *)
(* the binding it was called with or nothing, a refused one nothing, no    *)
(* binding ever changes, and only clearing the index removes any.          *)
(***************************************************************************)
CONSTANTS
    Key,        \* file block numbers
    Block       \* data blocks

VARIABLES
    map,        \* the blocks the index has
    call        \* the last call

Empty == [k \in {} |-> k]

With(k, b) == [x \in DOMAIN map \cup {k} |-> IF x = k THEN b ELSE map[x]]

Calls(op, k, b, ok) == call' = [op |-> op, key |-> k, block |-> b, ok |-> ok]

Init == map = Empty /\ call.op = "none"

\* A new index, with the file's first block.
Build(b, ok) ==
    /\ map = Empty
    /\ Calls("build", 0, b, ok)
    /\ map' = IF ok THEN With(0, b) ELSE map

\* An insertion may report success and add nothing: when the disk is full.
Insert(k, b, ok) ==
    /\ k \notin DOMAIN map
    /\ Calls("insert", k, b, ok)
    /\ map' = map \/ (ok /\ map' = With(k, b))

Clear == call'.op = "clear" /\ map' = Empty

\* What is not a call of the index.
Other == call'.op \in {"first", "other"} /\ map' = map

Next ==
    \/ \E b \in Block, ok \in BOOLEAN : Build(b, ok)
    \/ \E k \in Key, b \in Block, ok \in BOOLEAN : Insert(k, b, ok)
    \/ Clear
    \/ Other

Spec == Init /\ [][Next]_<<map, call>>
=============================================================================
