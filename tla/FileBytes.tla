----------------------------- MODULE FileBytes -----------------------------
(***************************************************************************)
(* What files promise: each is an array of bytes of its own.  A byte reads *)
(* as what a write that succeeded put there, until another write to the    *)
(* same place or the end of the file's life.  A write that fails leaves    *)
(* the bytes it was to change undefined, and only those.  A byte nobody    *)
(* has written is not promised to be anything.  Where bytes are kept does  *)
(* not appear.                                                             *)
(***************************************************************************)
EXTENDS Integers, Sequences

CONSTANTS
    File,       \* the inodes of files
    Data,       \* what a client writes at once: non-empty sequences of bytes
    MaxSize     \* bound on the end of a write

VARIABLES
    bytes,      \* the defined bytes of each file, by position
    size,       \* the sizes
    ok          \* whether the last operation succeeded

vars == <<bytes, size, ok>>

Nothing == [o \in {} |-> 0]
Place(off, data) == off .. off + Len(data) - 1
Larger(m, n) == IF m >= n THEN m ELSE n

Init ==
    /\ bytes = [f \in File |-> Nothing]
    /\ size = [f \in File |-> 0]
    /\ ok = TRUE

Write(f, off, data) ==
    /\ bytes' = [bytes EXCEPT ![f] =
                    [o \in DOMAIN @ \cup Place(off, data) |->
                        IF o \in Place(off, data) THEN data[o - off + 1] ELSE @[o]]]
    /\ size' = [size EXCEPT ![f] = Larger(@, off + Len(data))]
    /\ ok' = TRUE

WriteFails(f, off, data) ==
    /\ bytes' = [bytes EXCEPT ![f] = [o \in DOMAIN @ \ Place(off, data) |-> @[o]]]
    /\ \E n \in size[f] .. Larger(size[f], off + Len(data) - 1) :
        size' = [size EXCEPT ![f] = n]
    /\ ok' = FALSE

Remove(f) ==
    /\ bytes' = [bytes EXCEPT ![f] = Nothing]
    /\ size' = [size EXCEPT ![f] = 0]
    /\ ok' = TRUE

Next ==
    \/ \E f \in File, off \in 0 .. MaxSize - 1, data \in Data :
        off + Len(data) <= MaxSize /\ (Write(f, off, data) \/ WriteFails(f, off, data))
    \/ \E f \in File : Remove(f)

Spec == Init /\ [][Next]_vars
=============================================================================
