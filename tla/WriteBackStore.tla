--------------------------- MODULE WriteBackStore ---------------------------
(***************************************************************************)
(* What a write-back block store promises its client.  The client changes  *)
(* a block only through a buffer it has acquired, and the super block      *)
(* directly; nothing else ever changes what it reads.  The disk only       *)
(* receives what the client wrote, a clean stop loses nothing, and a crash *)
(* loses exactly what was not written back.  Cache size, eviction and      *)
(* pinning do not appear.                                                  *)
(***************************************************************************)
CONSTANTS
    Lba,        \* blocks that go through the cache
    Super,      \* block 0, kept apart in memory
    Value,      \* block contents
    Blank,      \* the contents of a cleared block
    Holder,     \* the client's variables that may keep a buffer
    None        \* a variable that keeps nothing

VARIABLES
    mem,        \* what the running program reads
    dsk,        \* what is on the disk
    held,       \* the buffers the client keeps
    up          \* whether the program runs

vars == <<mem, dsk, held, up>>

Block == Lba \cup {Super}
NothingHeld == [h \in Holder |-> None]

Init ==
    /\ dsk = [k \in Block |-> Blank]
    /\ mem = dsk
    /\ held = NothingHeld
    /\ up = TRUE

\* One block is brought up to date on the disk.
Saves(k) == dsk' = [dsk EXCEPT ![k] = mem[k]]

\* The client acquires a block, to change it or only to read it.  That may
\* bring some other block up to date on the disk.
Acquire(h, k, mut) ==
    /\ up
    /\ held' = [held EXCEPT ![h] = [key |-> k, mut |-> mut]]
    /\ dsk' = dsk \/ \E x \in Lba : Saves(x)
    /\ UNCHANGED <<mem, up>>

\* The client changes a block it has acquired to change it.
Write(h, v) ==
    /\ up
    /\ held[h] # None
    /\ held[h].mut
    /\ mem' = [mem EXCEPT ![held[h].key] = v]
    /\ UNCHANGED <<dsk, held, up>>

Release(h) ==
    /\ held' = [held EXCEPT ![h] = None]
    /\ UNCHANGED <<mem, dsk, up>>

WriteSuper(v) ==
    /\ up
    /\ mem' = [mem EXCEPT ![Super] = v]
    /\ UNCHANGED <<dsk, held, up>>

WriteBack(k) ==
    /\ up
    /\ Saves(k)
    /\ UNCHANGED <<mem, held, up>>

\* A clean stop happens only once the disk has everything.
Stop ==
    /\ up
    /\ dsk = mem
    /\ up' = FALSE
    /\ held' = NothingHeld
    /\ UNCHANGED <<mem, dsk>>

Crash ==
    /\ up
    /\ mem' = dsk
    /\ up' = FALSE
    /\ held' = NothingHeld
    /\ UNCHANGED dsk

Start ==
    /\ ~up
    /\ up' = TRUE
    /\ UNCHANGED <<mem, dsk, held>>

\* The disk is cleared; the super block in memory survives.
Erase ==
    /\ up
    /\ held = NothingHeld
    /\ dsk' = [k \in Block |-> Blank]
    /\ mem' = [dsk' EXCEPT ![Super] = mem[Super]]
    /\ UNCHANGED <<held, up>>

Next ==
    \/ \E h \in Holder, k \in Lba, mut \in BOOLEAN : Acquire(h, k, mut)
    \/ \E h \in Holder, v \in Value : Write(h, v)
    \/ \E h \in Holder : Release(h)
    \/ \E v \in Value : WriteSuper(v)
    \/ \E k \in Block : WriteBack(k)
    \/ Stop \/ Crash \/ Start \/ Erase

Spec == Init /\ [][Next]_vars
=============================================================================
