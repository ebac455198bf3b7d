------------------------------- MODULE Mount -------------------------------
(***************************************************************************)
(* A virtual disk's life: the image is opened or cleared (FileDisk), the   *)
(* file system on it mounted or made (FileSys), used and unmounted through *)
(* the caches (INodeTable, IOContext), and killed between any two steps.   *)
(*                                                                         *)
(* Each part of the disk has the stamp of what was last written to it:     *)
(* which format, and how many operations after it; Zero is a cleared part, *)
(* and Foreign what another program left.                                  *)
(* An operation changes every part.  The block cache is taken for what     *)
(* WriteBackStore promises, and may write any block at any time.           *)
(***************************************************************************)
EXTENDS Integers

CONSTANTS
    MaxFormats, MaxOps      \* bounds: formats, operations after each

VARIABLES
    image,      \* the host's file: "none", "empty", "other" or of the right "size"
    dsk,        \* what is in it
    mem,        \* the same as read through the block cache, and the super block
    ino,        \* the root's inode as read through the inode cache
    step,       \* where the program is
    latest,     \* history: the stamp of the last format or operation
    whole       \* history: no kill has lost anything since the last format

vars == <<image, dsk, mem, ino, step, latest, whole>>

ASSUME MountAssumption == {MaxFormats, MaxOps} \subseteq Nat \ {0}

\* "rest" are the inodes and data blocks that format writes nothing to.
Part == {"super", "bitmap", "inode bitmap", "root", "rest"}
Stamp == [format : 0 .. MaxFormats, op : 0 .. MaxOps]
Zero == [format |-> 0, op |-> 0]
Foreign == [format |-> 0, op |-> 1]
Cleared == [k \in Part |-> Zero]

\* valid() of a super block: the magic number and the version.
Valid(super) == super.format # 0
-----------------------------------------------------------------------------
\* Another file may be there, also of the right size, or none.
Init ==
    /\ image \in {"none", "other", "size"}
    /\ dsk = [k \in Part |-> IF image = "none" THEN Zero ELSE Foreign]
    /\ mem = Cleared /\ ino = Zero
    /\ step = "off"
    /\ latest = Zero
    /\ whole = TRUE

Goes(from, to) == step = from /\ step' = to

\* The constructor of FileDisk: a file of another size is cleared.
OpenImage ==
    /\ Goes("off", IF image = "size" THEN "opened" ELSE "clear image")
    /\ UNCHANGED <<image, dsk, mem, ino, latest, whole>>

\* Mutant of Shrink: the dirty blocks of a format stay in the block cache.
ShrinkDiskOnly ==
    /\ \/ Goes("clear image", "shrunk image")
       \/ Goes("clear disk", "shrunk disk")
    /\ image' = "empty"
    /\ dsk' = Cleared
    /\ UNCHANGED <<mem, ino, latest, whole>>

\* FileDisk::clear: to no bytes at all, when the caches hold nothing any more
\* (but the super block in memory) ...
Shrink ==
    /\ \/ Goes("clear image", "shrunk image")
       \/ Goes("clear disk", "shrunk disk")
    /\ image' = "empty"
    /\ dsk' = Cleared
    /\ mem' = [Cleared EXCEPT !["super"] = mem["super"]]
    /\ ino' = Zero
    /\ UNCHANGED <<latest, whole>>

\* ... and back.
Grow ==
    /\ \/ Goes("shrunk image", "opened")
       \/ Goes("shrunk disk", "cleared")
    /\ image' = "size"
    /\ UNCHANGED <<dsk, mem, ino, latest, whole>>

\* Mutant of Mount: a format that was needed is left to the user.
MountOnlyValid ==
    /\ step = "opened"
    /\ mem' = dsk /\ ino' = dsk["root"]
    /\ step' = IF Valid(dsk["super"]) THEN "running" ELSE "opened"
    /\ UNCHANGED <<image, dsk, latest, whole>>

\* The constructor of FileSys.
Mount ==
    /\ step = "opened"
    /\ mem' = dsk /\ ino' = dsk["root"]
    /\ step' = IF Valid(dsk["super"]) THEN "running" ELSE "format"
    /\ UNCHANGED <<image, dsk, latest, whole>>

\* The format command.
Format ==
    /\ Goes("running", "format")
    /\ latest.format < MaxFormats
    /\ UNCHANGED <<image, dsk, mem, ino, latest, whole>>

\* LRUCache::clear writes the dirty blocks before it drops them.
ClearCache ==
    /\ Goes("format", "clear disk")
    /\ dsk' = [mem EXCEPT !["super"] = dsk["super"]]
    /\ UNCHANGED <<image, mem, ino, latest, whole>>

\* format's super block, which goes to the disk at once; ...
WriteSuper ==
    LET fresh == [format |-> latest.format + 1, op |-> 0]
    IN  /\ Goes("cleared", "super written")
        /\ latest' = fresh
        /\ mem' = [mem EXCEPT !["super"] = fresh]
        /\ dsk' = [dsk EXCEPT !["super"] = fresh]
        /\ whole' = TRUE
        /\ UNCHANGED <<image, ino>>

\* ... both bitmaps, ...
WriteBitmaps ==
    /\ Goes("super written", "bitmaps written")
    /\ mem' = [mem EXCEPT !["bitmap"] = latest, !["inode bitmap"] = latest]
    /\ UNCHANGED <<image, dsk, ino, latest, whole>>

\* ... and create_root_dir, with the flush of the inode cache to the block cache.
MakeRoot ==
    /\ Goes("bitmaps written", "running")
    /\ ino' = latest
    /\ mem' = [mem EXCEPT !["root"] = latest]
    /\ dsk' = [dsk EXCEPT !["super"] = mem["super"]]
    /\ UNCHANGED <<image, latest, whole>>

\* An operation on names or data.
Use ==
    LET next == [latest EXCEPT !.op = @ + 1]
    IN  /\ step = "running" /\ latest.op < MaxOps
        /\ latest' = next
        /\ mem' = [k \in Part |-> IF k = "root" THEN mem[k] ELSE next]
        /\ ino' = next
        /\ UNCHANGED <<image, dsk, step, whole>>

\* The inode cache evicts the root's inode, or an operation writes it through.
SaveRoot ==
    /\ step = "running" /\ mem["root"] # ino
    /\ mem' = [mem EXCEPT !["root"] = ino]
    /\ UNCHANGED <<image, dsk, ino, step, latest, whole>>

\* The block cache writes a block: an eviction, or the flush of an unmount.
WriteBack(k) ==
    /\ step \in {"super written", "bitmaps written", "running", "flushing"}
    /\ k # "super" /\ dsk[k] # mem[k]
    /\ dsk' = [dsk EXCEPT ![k] = mem[k]]
    /\ UNCHANGED <<image, mem, ino, step, latest, whole>>

\* Mutant of Unmount: the inode cache is dropped, not flushed.
UnmountUnflushed ==
    /\ Goes("running", "unmounting")
    /\ UNCHANGED <<image, dsk, mem, ino, latest, whole>>

\* The destructors: INodeTable flushes into the block cache, ...
Unmount ==
    /\ Goes("running", "unmounting")
    /\ mem' = [mem EXCEPT !["root"] = ino]
    /\ UNCHANGED <<image, dsk, ino, latest, whole>>

\* ... IOContext writes the super block and then its dirty blocks, ...
FlushSuper ==
    /\ Goes("unmounting", "flushing")
    /\ dsk' = [dsk EXCEPT !["super"] = mem["super"]]
    /\ UNCHANGED <<image, mem, ino, latest, whole>>

\* ... and FileDisk closes its file.
Stop ==
    /\ Goes("flushing", "off")
    /\ dsk = mem
    /\ mem' = Cleared /\ ino' = Zero
    /\ UNCHANGED <<image, dsk, latest, whole>>

\* A part is as the last operation or format left it.
Kept(k, stamp) == stamp = latest \/ (k = "rest" /\ latest.op = 0 /\ stamp = Zero)

\* A kill loses what the disk does not have.
Kill ==
    /\ step # "off" /\ step' = "off"
    /\ mem' = Cleared /\ ino' = Zero
    /\ whole' = (whole /\ \A k \in Part : Kept(k, dsk[k]))
    /\ UNCHANGED <<image, dsk, latest>>

\* What the program does by itself.
Proceed ==
    \/ Shrink \/ Grow \/ Mount \/ ClearCache \/ WriteSuper \/ WriteBitmaps \/ MakeRoot
    \/ FlushSuper \/ Stop
    \/ step = "flushing" /\ \E k \in Part : WriteBack(k)

Next ==
    \/ OpenImage \/ Format \/ Use \/ SaveRoot \/ Unmount \/ Kill
    \/ \E k \in Part : WriteBack(k)
    \/ Proceed

Spec == Init /\ [][Next]_vars /\ WF_vars(Proceed)
-----------------------------------------------------------------------------
View(k) == IF k = "root" THEN ino ELSE mem[k]

\* The variables keep their types; a mounted image has the right size.
TypeOK ==
    /\ image \in {"none", "empty", "other", "size"}
    /\ {dsk, mem} \subseteq [Part -> Stamp] /\ {ino, latest} \subseteq Stamp
    /\ whole \in BOOLEAN
    /\ step = "running" => image = "size"

\* A file system that no kill has taken anything from is mounted as it was left:
\* every part as the last operation or format left it, through caches, unmounts
\* and mounts.
CleanIsWhole ==
    /\ TypeOK
    /\ step = "running" /\ whole =>
        \A k \in Part : Kept(k, View(k))

\* Nothing of a former file system or file is left by a format, in a cache or on
\* the disk, also when the program was killed in between or later: what format
\* does not write reads as zeros.
FormatLeavesNothing ==
    step = "running" =>
        \A k \in Part : {View(k), dsk[k]} \subseteq {Zero} \cup [format : {latest.format}, op : 0 .. MaxOps]

\* Whatever was killed, a start ends in a running file system, and an unmount in
\* a stop.
StartAndStopEnd == [](step # "off" => <>(step \in {"running", "off"}))
=============================================================================
