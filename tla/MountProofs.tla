---------------------------- MODULE MountProofs ----------------------------
(***************************************************************************)
(* Proofs about Mount, for any number of formats and operations.           *)
(***************************************************************************)
EXTENDS Mount, TLAPS

\* Where the super block in memory and that on the disk are valid ...
Live == {"super written", "bitmaps written", "running", "unmounting", "flushing"}

\* ... and where the program is while a format is under way.
Formatting == {"format", "clear disk", "shrunk disk", "cleared"}

Step == {"off", "opened", "clear image", "shrunk image"} \cup Formatting \cup Live

Fresh == {Zero} \cup [format : {latest.format}, op : 0 .. MaxOps]

Types ==
    /\ image \in {"none", "empty", "other", "size"}
    /\ dsk \in [Part -> Stamp] /\ mem \in [Part -> Stamp]
    /\ ino \in Stamp /\ latest \in Stamp
    /\ step \in Step
    /\ whole \in BOOLEAN

\* A super block is valid in the steps that rely on it, and on an image of the
\* right size only.
SuperValid ==
    /\ step \in Live => Valid(dsk["super"]) /\ Valid(mem["super"])
    /\ Valid(dsk["super"]) \/ step = "cleared" => image = "size"
    /\ step = "clear image" => ~Valid(dsk["super"])

\* A format is begun, or needed, only where one more can be counted.
RoomToFormat ==
    step \in Formatting \/ ~Valid(dsk["super"]) => latest.format < MaxFormats

\* Under a valid super block there is nothing of a former file system.
DiskFresh == Valid(dsk["super"]) => \A k \in Part : dsk[k] \in Fresh

MemoryFresh ==
    step \in Live \/ (step = "format" /\ Valid(dsk["super"])) =>
        ino \in Fresh /\ \A k \in Part : mem[k] \in Fresh

\* What a format under way has made of memory, ...
FormatProgress ==
    /\ step \in {"shrunk image", "shrunk disk"} => dsk = Cleared
    /\ step \in {"shrunk disk", "cleared"} =>
        dsk = Cleared /\ ino = Zero /\ \A k \in Part \ {"super"} : mem[k] = Zero
    /\ step \in {"super written", "bitmaps written"} =>
        /\ latest.op = 0 /\ mem["super"] = latest /\ mem["rest"] = Zero
        /\ step = "bitmaps written" =>
            mem["bitmap"] = latest /\ mem["inode bitmap"] = latest

\* ... and where a file system that has lost nothing has its parts.
WholeKept ==
    whole =>
        /\ step = "running" => \A k \in Part : Kept(k, View(k))
        /\ step \in {"unmounting", "flushing"} => \A k \in Part : Kept(k, mem[k])
        /\ step \in {"off", "opened", "clear image", "shrunk image"} /\ Valid(dsk["super"]) =>
            \A k \in Part : Kept(k, dsk[k])

Inv ==
    /\ Types /\ SuperValid /\ RoomToFormat /\ DiskFresh /\ MemoryFresh
    /\ FormatProgress /\ WholeKept
-----------------------------------------------------------------------------
\* The stamps of a cleared and of a foreign disk are no file system's.
LEMMA StampFacts ==
    /\ Zero \in Stamp /\ Foreign \in Stamp /\ Cleared \in [Part -> Stamp]
    /\ ~Valid(Zero) /\ ~Valid(Foreign)
    /\ \A k \in Part : Cleared[k] = Zero
  BY MountAssumption DEF Zero, Foreign, Stamp, Cleared, Valid

\* Nothing is valid, nor kept, on the disk that the first start finds.
LEMMA InitInv == Init => Inv
<1> SUFFICES ASSUME Init PROVE Inv
  OBVIOUS
<1>1. /\ dsk \in [Part -> Stamp] /\ ~Valid(dsk["super"])
      /\ image = "none" \/ image = "other" \/ image = "size"
  BY StampFacts DEF Init, Part
<1>2. Types
  BY <1>1, StampFacts DEF Init, Types, Step
<1>3. SuperValid /\ DiskFresh /\ MemoryFresh /\ FormatProgress
  BY <1>1 DEF Init, SuperValid, DiskFresh, MemoryFresh, FormatProgress, Live
<1>4. RoomToFormat
  BY MountAssumption DEF Init, RoomToFormat, Zero
<1>5. WholeKept
  BY <1>1 DEF Init, WholeKept
<1> QED
  BY <1>2, <1>3, <1>4, <1>5 DEF Inv

\* An image of another size has no valid super block: it may be cleared.
LEMMA OpenImageInv ==
    ASSUME Inv, OpenImage
    PROVE  Inv'
<1>1. Types'
  BY DEF Inv, OpenImage, Goes, Types, Step, Live, Formatting, Part
<1>2. SuperValid'
  BY DEF Inv, OpenImage, Goes, Types, SuperValid, Live, Part
<1>3. RoomToFormat'
  BY DEF Inv, OpenImage, Goes, Types, RoomToFormat, SuperValid, Formatting, Live
<1>4. DiskFresh'
  BY DEF Inv, OpenImage, Goes, Types, DiskFresh, MemoryFresh, SuperValid, Fresh, Live,
     Part
<1>5. MemoryFresh'
  BY DEF Inv, OpenImage, Goes, Types, MemoryFresh, DiskFresh, SuperValid, Fresh, Live,
     Part
<1>6. FormatProgress'
  BY DEF Inv, OpenImage, Goes, Types, FormatProgress, Part
<1>7. WholeKept'
  BY DEF Inv, OpenImage, Goes, Types, WholeKept, Kept, View, Part
<1> QED
  BY <1>1, <1>2, <1>3, <1>4, <1>5, <1>6, <1>7 DEF Inv

\* Either way the disk is empty afterwards, and no super block is valid.
LEMMA ShrinkInv ==
    ASSUME Inv, Shrink
    PROVE  Inv'
<1>1. Types'
  BY StampFacts DEF Inv, Shrink, Goes, Types, Step, Live, Formatting, Part
<1>2. SuperValid'
  BY StampFacts DEF Inv, Shrink, Goes, Types, SuperValid, Live, Part
<1>3. RoomToFormat'
  BY StampFacts DEF Inv, Shrink, Goes, Types, RoomToFormat, SuperValid, Formatting,
     Live, Valid, Part, Cleared
<1>4. DiskFresh'
  BY StampFacts DEF Inv, Shrink, Goes, Types, DiskFresh, MemoryFresh, SuperValid,
     Fresh, Live, Part
<1>5. MemoryFresh'
  BY StampFacts DEF Inv, Shrink, Goes, Types, MemoryFresh, DiskFresh, SuperValid,
     Fresh, Live, Part
<1>6. FormatProgress'
  BY StampFacts DEF Inv, Shrink, Goes, Types, FormatProgress, Part
<1>7. WholeKept'
  BY StampFacts DEF Inv, Shrink, Goes, Types, WholeKept, Kept, View, Part
<1> QED
  BY <1>1, <1>2, <1>3, <1>4, <1>5, <1>6, <1>7 DEF Inv

\* The emptied image gets its size back.
LEMMA GrowInv ==
    ASSUME Inv, Grow
    PROVE  Inv'
<1>1. Types'
  BY DEF Inv, Grow, Goes, Types, Step, Live, Formatting, Part
<1>2. SuperValid'
  BY DEF Inv, Grow, Goes, Types, SuperValid, Live, Part
<1>3. RoomToFormat'
  BY DEF Inv, Grow, Goes, Types, RoomToFormat, SuperValid, Formatting, Live
<1>4. DiskFresh'
  BY DEF Inv, Grow, Goes, Types, DiskFresh, MemoryFresh, SuperValid, Fresh, Live, Part
<1>5. MemoryFresh'
  BY DEF Inv, Grow, Goes, Types, MemoryFresh, DiskFresh, SuperValid, Fresh, Live, Part
<1>6. FormatProgress'
  BY DEF Inv, Grow, Goes, Types, FormatProgress, Part
<1>7. WholeKept'
  BY DEF Inv, Grow, Goes, Types, WholeKept, Kept, View, Part
<1> QED
  BY <1>1, <1>2, <1>3, <1>4, <1>5, <1>6, <1>7 DEF Inv

\* What is mounted is what the disk has; without a super block, it is formatted.
LEMMA MountInv ==
    ASSUME Inv, Mount
    PROVE  Inv'
<1>1. Types'
  BY DEF Inv, Mount, Types, Step, Live, Formatting, Part
<1>2. SuperValid'
  BY DEF Inv, Mount, Types, SuperValid, Live, Part
<1>3. RoomToFormat'
  BY DEF Inv, Mount, Types, RoomToFormat, SuperValid, Formatting, Live
<1>4. DiskFresh'
  BY DEF Inv, Mount, Types, DiskFresh, MemoryFresh, SuperValid, Fresh, Live, Part
<1>5. MemoryFresh'
  BY DEF Inv, Mount, Types, MemoryFresh, DiskFresh, SuperValid, Fresh, Live, Part
<1>6. FormatProgress'
  BY DEF Inv, Mount, Types, FormatProgress, Part
<1>7. WholeKept'
  BY DEF Inv, Mount, Types, WholeKept, Kept, View, Part
<1> QED
  BY <1>1, <1>2, <1>3, <1>4, <1>5, <1>6, <1>7 DEF Inv

\* The caches and the disk stay as they are until the cache is cleared.
LEMMA FormatInv ==
    ASSUME Inv, Format
    PROVE  Inv'
<1>1. Types'
  BY DEF Inv, Format, Goes, Types, Step, Live, Formatting, Part
<1>2. SuperValid'
  BY DEF Inv, Format, Goes, Types, SuperValid, Live, Part
<1>3. RoomToFormat'
  BY DEF Inv, Format, Goes, Types, RoomToFormat, SuperValid, Formatting, Live
<1>4. DiskFresh'
  BY DEF Inv, Format, Goes, Types, DiskFresh, MemoryFresh, SuperValid, Fresh, Live,
     Part
<1>5. MemoryFresh'
  BY DEF Inv, Format, Goes, Types, MemoryFresh, DiskFresh, SuperValid, Fresh, Live,
     Part
<1>6. FormatProgress'
  BY DEF Inv, Format, Goes, Types, FormatProgress, Part
<1>7. WholeKept'
  BY DEF Inv, Format, Goes, Types, WholeKept, Kept, View, Part
<1> QED
  BY <1>1, <1>2, <1>3, <1>4, <1>5, <1>6, <1>7 DEF Inv

\* What the cleared cache writes is as fresh as what it held.
LEMMA ClearCacheInv ==
    ASSUME Inv, ClearCache
    PROVE  Inv'
<1>1. Types'
  BY DEF Inv, ClearCache, Goes, Types, Step, Live, Formatting, Part
<1>2. SuperValid'
  BY DEF Inv, ClearCache, Goes, Types, SuperValid, Live, Part
<1>3. RoomToFormat'
  BY DEF Inv, ClearCache, Goes, Types, RoomToFormat, SuperValid, Formatting, Live
<1>4. DiskFresh'
  BY DEF Inv, ClearCache, Goes, Types, DiskFresh, MemoryFresh, SuperValid, Fresh,
     Live, Part
<1>5. MemoryFresh'
  BY DEF Inv, ClearCache, Goes, Types, MemoryFresh, DiskFresh, SuperValid, Fresh,
     Live, Part
<1>6. FormatProgress'
  BY DEF Inv, ClearCache, Goes, Types, FormatProgress, Part
<1>7. WholeKept'
  BY DEF Inv, ClearCache, Goes, Types, WholeKept, Kept, View, Part
<1> QED
  BY <1>1, <1>2, <1>3, <1>4, <1>5, <1>6, <1>7 DEF Inv

\* On the cleared disk the new super block is the only part, and the newest.
LEMMA WriteSuperInv ==
    ASSUME Inv, WriteSuper
    PROVE  Inv'
<1> DEFINE fresh == [format |-> latest.format + 1, op |-> 0]
<1>a. /\ latest' = fresh /\ whole' = TRUE /\ ino' = ino /\ image' = image
      /\ dsk' = [dsk EXCEPT !["super"] = fresh] /\ mem' = [mem EXCEPT !["super"] = fresh]
      /\ step = "cleared" /\ step' = "super written"
  BY DEF WriteSuper, Goes
<1>b. /\ latest.format \in 0 .. MaxFormats - 1
      /\ dsk \in [Part -> Stamp] /\ mem \in [Part -> Stamp]
  <2>1. latest \in Stamp /\ latest.format < MaxFormats
    BY <1>a DEF Inv, Types, RoomToFormat, Formatting
  <2>2. latest.format \in 0 .. MaxFormats - 1
    BY <2>1, MountAssumption DEF Stamp
  <2> QED
    BY <2>2 DEF Inv, Types
<1>c. fresh \in Stamp /\ Valid(fresh) /\ fresh.op = 0
  BY <1>b, MountAssumption DEF Stamp, Valid
<1>d. /\ ino = Zero /\ image = "size"
      /\ \A k \in Part : dsk'[k] \in {Zero, fresh} /\ mem'[k] \in {Zero, fresh}
      /\ dsk'["super"] = fresh /\ mem'["super"] = fresh /\ mem'["rest"] = Zero
  <2>1. ino = Zero /\ dsk = Cleared /\ \A k \in Part \ {"super"} : mem[k] = Zero
    BY <1>a DEF Inv, FormatProgress
  <2>2. "super" \in Part /\ "rest" \in Part
    BY DEF Part
  <2>3. image = "size"
    BY <1>a DEF Inv, SuperValid
  <2> QED
    BY <1>a, <1>b, <2>1, <2>2, <2>3, StampFacts
<1>e. Zero \in Fresh' /\ fresh \in Fresh'
  <2>1. fresh \in [format : {latest'.format}, op : 0 .. MaxOps]
    BY <1>a, <1>c DEF Stamp
  <2> QED
    BY <2>1 DEF Fresh
<1> HIDE DEF fresh
<1>1. Types'
  BY <1>a, <1>b, <1>c, StampFacts DEF Inv, Types, Step, Live, Part
<1>2. SuperValid'
  BY <1>a, <1>c, <1>d DEF SuperValid
<1>3. RoomToFormat'
  BY <1>a, <1>c, <1>d DEF RoomToFormat, Formatting
<1>4. DiskFresh'
  BY <1>d, <1>e DEF DiskFresh
<1>5. MemoryFresh'
  BY <1>a, <1>d, <1>e DEF MemoryFresh
<1>6. FormatProgress'
  BY <1>a, <1>c, <1>d DEF FormatProgress
<1>7. WholeKept'
  BY <1>a DEF WholeKept, Live
<1> QED
  BY <1>1, <1>2, <1>3, <1>4, <1>5, <1>6, <1>7 DEF Inv

\* The bitmaps are of the format whose super block is written.
LEMMA WriteBitmapsInv ==
    ASSUME Inv, WriteBitmaps
    PROVE  Inv'
<1>a. /\ mem["super"] = latest /\ latest \in Fresh /\ ino \in Fresh
      /\ mem \in [Part -> Stamp] /\ \A k \in Part : mem[k] \in Fresh
  BY DEF WriteBitmaps, Goes, Inv, Types, MemoryFresh, FormatProgress, Live, Part
<1>1. Types'
  BY DEF Inv, WriteBitmaps, Goes, Types, Step, Live, Formatting, Part
<1>2. SuperValid'
  BY DEF Inv, WriteBitmaps, Goes, Types, SuperValid, Live, Part
<1>3. RoomToFormat'
  BY DEF Inv, WriteBitmaps, Goes, Types, RoomToFormat, SuperValid, Formatting, Live
<1>4. DiskFresh'
  BY DEF Inv, WriteBitmaps, Goes, Types, DiskFresh, MemoryFresh, SuperValid, Fresh,
     Live, Part
<1>5. MemoryFresh'
  BY <1>a DEF WriteBitmaps, MemoryFresh, Fresh
<1>6. FormatProgress'
  BY DEF Inv, WriteBitmaps, Goes, Types, FormatProgress, Part
<1>7. WholeKept'
  BY DEF Inv, WriteBitmaps, Goes, Types, WholeKept, Kept, View, Part
<1> QED
  BY <1>1, <1>2, <1>3, <1>4, <1>5, <1>6, <1>7 DEF Inv

\* With the root, every part that a format writes is the format's.
LEMMA MakeRootInv ==
    ASSUME Inv, MakeRoot
    PROVE  Inv'
<1>a. /\ Valid(mem["super"]) /\ mem["super"] \in Fresh /\ mem["super"] = latest
      /\ latest \in Stamp /\ mem \in [Part -> Stamp] /\ \A k \in Part : mem[k] \in Fresh
  BY DEF MakeRoot, Goes, Inv, Types, SuperValid, MemoryFresh, FormatProgress, Live, Part
<1>b. /\ ino' = latest /\ mem' = [mem EXCEPT !["root"] = latest] /\ latest' = latest
      /\ step = "bitmaps written" /\ step' = "running" /\ Fresh' = Fresh
  BY DEF MakeRoot, Goes, Fresh
<1>1. Types'
  BY DEF Inv, MakeRoot, Goes, Types, Step, Live, Formatting, Part
<1>2. SuperValid'
  BY DEF Inv, MakeRoot, Goes, Types, SuperValid, Live, Part
<1>3. RoomToFormat'
  BY DEF Inv, MakeRoot, Goes, Types, RoomToFormat, SuperValid, Formatting, Live
<1>4. DiskFresh'
  BY DEF Inv, MakeRoot, Goes, Types, DiskFresh, MemoryFresh, SuperValid, Fresh, Live,
     Part
<1>5. MemoryFresh'
  BY <1>a, <1>b DEF MemoryFresh
<1>6. FormatProgress'
  BY DEF Inv, MakeRoot, Goes, Types, FormatProgress, Part
<1>7. WholeKept'
  <2>1. /\ mem["super"] = latest /\ mem["bitmap"] = latest /\ mem["inode bitmap"] = latest
        /\ mem["rest"] = Zero /\ latest.op = 0
    BY <1>b DEF Inv, FormatProgress
  <2>2. \A k \in Part : Kept(k, View(k))'
    BY <1>a, <1>b, <2>1 DEF Kept, View, Part
  <2> QED
    BY <1>b, <2>2 DEF WholeKept
<1> QED
  BY <1>1, <1>2, <1>3, <1>4, <1>5, <1>6, <1>7 DEF Inv

\* An operation leaves every part, the root in the inode cache, as the newest.
LEMMA UseInv ==
    ASSUME Inv, Use
    PROVE  Inv'
<1> DEFINE next == [latest EXCEPT !.op = @ + 1]
<1>a. /\ latest' = next /\ ino' = next /\ dsk' = dsk /\ image' = image /\ whole' = whole
      /\ mem' = [k \in Part |-> IF k = "root" THEN mem[k] ELSE next]
      /\ step = "running" /\ step' = "running"
  BY DEF Use
<1>b. /\ latest \in Stamp /\ latest.op \in 0 .. MaxOps - 1
      /\ next \in Stamp /\ next.format = latest.format
  BY MountAssumption DEF Inv, Types, Stamp, Use
<1>c. /\ Valid(dsk["super"]) /\ image = "size"
      /\ \A k \in Part : dsk[k] \in Fresh /\ mem[k] \in Fresh
  <2>1. Valid(dsk["super"]) /\ image = "size"
    BY <1>a DEF Inv, SuperValid, Live
  <2>2. \A k \in Part : dsk[k] \in Fresh
    BY <2>1 DEF Inv, DiskFresh
  <2>3. \A k \in Part : mem[k] \in Fresh
    BY <1>a DEF Inv, MemoryFresh, Live
  <2> QED
    BY <2>1, <2>2, <2>3
<1>d. Valid(next)
  <2>1. dsk["super"] \in Fresh /\ dsk["super"] # Zero
    BY <1>c, StampFacts DEF Part
  <2> QED
    BY <1>b, <1>c, <2>1 DEF Fresh, Valid
<1>e. Fresh' = Fresh /\ next \in Fresh
  BY <1>a, <1>b DEF Fresh, Stamp
<1> HIDE DEF next
<1>1. Types'
  BY <1>a, <1>b DEF Inv, Types
<1>2. SuperValid'
  BY <1>a, <1>c, <1>d DEF Inv, SuperValid, Part
<1>3. RoomToFormat'
  BY DEF Inv, Use, Types, RoomToFormat, SuperValid, Formatting, Live
<1>4. DiskFresh'
  BY <1>a, <1>c, <1>e DEF DiskFresh
<1>5. MemoryFresh'
  <2>1. \A k \in Part : mem'[k] \in Fresh'
    BY <1>a, <1>c, <1>e
  <2> QED
    BY <1>a, <1>e, <2>1 DEF MemoryFresh
<1>6. FormatProgress'
  BY DEF Inv, Use, Types, FormatProgress, Part
<1>7. WholeKept'
  BY <1>a DEF WholeKept, Kept, View
<1> QED
  BY <1>1, <1>2, <1>3, <1>4, <1>5, <1>6, <1>7 DEF Inv

\* The root is seen through the inode cache, which does not change.
LEMMA SaveRootInv ==
    ASSUME Inv, SaveRoot
    PROVE  Inv'
<1>1. Types'
  BY DEF Inv, SaveRoot, Types, Step, Live, Formatting, Part
<1>2. SuperValid'
  BY DEF Inv, SaveRoot, Types, SuperValid, Live, Part
<1>3. RoomToFormat'
  BY DEF Inv, SaveRoot, Types, RoomToFormat, SuperValid, Formatting, Live
<1>4. DiskFresh'
  BY DEF Inv, SaveRoot, Types, DiskFresh, MemoryFresh, SuperValid, Fresh, Live, Part
<1>5. MemoryFresh'
  BY DEF Inv, SaveRoot, Types, MemoryFresh, DiskFresh, SuperValid, Fresh, Live, Part
<1>6. FormatProgress'
  BY DEF Inv, SaveRoot, Types, FormatProgress, Part
<1>7. WholeKept'
  BY DEF Inv, SaveRoot, Types, WholeKept, Kept, View, Part
<1> QED
  BY <1>1, <1>2, <1>3, <1>4, <1>5, <1>6, <1>7 DEF Inv

\* A block written back is as fresh on the disk as it was in memory.
LEMMA WriteBackInv ==
    ASSUME Inv, NEW k0 \in Part, WriteBack(k0)
    PROVE  Inv'
<1>1. Types'
  BY DEF Inv, WriteBack, Types, Step, Live, Formatting, Part
<1>2. SuperValid'
  BY DEF Inv, WriteBack, Types, SuperValid, Live, Part
<1>3. RoomToFormat'
  <2>1. dsk'["super"] = dsk["super"] /\ latest' = latest /\ step' = step
    BY DEF WriteBack, Inv, Types, Part
  <2> QED
    BY <2>1 DEF Inv, RoomToFormat, Valid
<1>4. DiskFresh'
  BY DEF Inv, WriteBack, Types, DiskFresh, MemoryFresh, SuperValid, Fresh, Live, Part
<1>5. MemoryFresh'
  BY DEF Inv, WriteBack, Types, MemoryFresh, DiskFresh, SuperValid, Fresh, Live, Part
<1>6. FormatProgress'
  BY DEF Inv, WriteBack, Types, FormatProgress, Part
<1>7. WholeKept'
  BY DEF Inv, WriteBack, Types, WholeKept, Kept, View, Part
<1> QED
  BY <1>1, <1>2, <1>3, <1>4, <1>5, <1>6, <1>7 DEF Inv

\* With the root saved, the block cache holds all that was seen.
LEMMA UnmountInv ==
    ASSUME Inv, Unmount
    PROVE  Inv'
<1>1. Types'
  BY DEF Inv, Unmount, Goes, Types, Step, Live, Formatting, Part
<1>2. SuperValid'
  BY DEF Inv, Unmount, Goes, Types, SuperValid, Live, Part
<1>3. RoomToFormat'
  BY DEF Inv, Unmount, Goes, Types, RoomToFormat, SuperValid, Formatting, Live
<1>4. DiskFresh'
  BY DEF Inv, Unmount, Goes, Types, DiskFresh, MemoryFresh, SuperValid, Fresh, Live,
     Part
<1>5. MemoryFresh'
  BY DEF Inv, Unmount, Goes, Types, MemoryFresh, DiskFresh, SuperValid, Fresh, Live,
     Part
<1>6. FormatProgress'
  BY DEF Inv, Unmount, Goes, Types, FormatProgress, Part
<1>7. WholeKept'
  BY DEF Inv, Unmount, Goes, Types, WholeKept, Kept, View, Part
<1> QED
  BY <1>1, <1>2, <1>3, <1>4, <1>5, <1>6, <1>7 DEF Inv

\* The super block on the disk becomes that in memory.
LEMMA FlushSuperInv ==
    ASSUME Inv, FlushSuper
    PROVE  Inv'
<1>1. Types'
  BY DEF Inv, FlushSuper, Goes, Types, Step, Live, Formatting, Part
<1>2. SuperValid'
  BY DEF Inv, FlushSuper, Goes, Types, SuperValid, Live, Part
<1>3. RoomToFormat'
  BY DEF Inv, FlushSuper, Goes, Types, RoomToFormat, SuperValid, Formatting, Live
<1>4. DiskFresh'
  BY DEF Inv, FlushSuper, Goes, Types, DiskFresh, MemoryFresh, SuperValid, Fresh,
     Live, Part
<1>5. MemoryFresh'
  BY DEF Inv, FlushSuper, Goes, Types, MemoryFresh, DiskFresh, SuperValid, Fresh,
     Live, Part
<1>6. FormatProgress'
  BY DEF Inv, FlushSuper, Goes, Types, FormatProgress, Part
<1>7. WholeKept'
  BY DEF Inv, FlushSuper, Goes, Types, WholeKept, Kept, View, Part
<1> QED
  BY <1>1, <1>2, <1>3, <1>4, <1>5, <1>6, <1>7 DEF Inv

\* A stop leaves on the disk what was in memory.
LEMMA StopInv ==
    ASSUME Inv, Stop
    PROVE  Inv'
<1>1. Types'
  BY StampFacts DEF Inv, Stop, Goes, Types, Step, Live, Formatting, Part
<1>2. SuperValid'
  BY StampFacts DEF Inv, Stop, Goes, Types, SuperValid, Live, Part
<1>3. RoomToFormat'
  BY StampFacts DEF Inv, Stop, Goes, Types, RoomToFormat, SuperValid, Formatting, Live
<1>4. DiskFresh'
  BY StampFacts DEF Inv, Stop, Goes, Types, DiskFresh, MemoryFresh, SuperValid, Fresh,
     Live, Part
<1>5. MemoryFresh'
  BY StampFacts DEF Inv, Stop, Goes, Types, MemoryFresh, DiskFresh, SuperValid, Fresh,
     Live, Part
<1>6. FormatProgress'
  BY StampFacts DEF Inv, Stop, Goes, Types, FormatProgress, Part
<1>7. WholeKept'
  BY StampFacts DEF Inv, Stop, Goes, Types, WholeKept, Kept, View, Part
<1> QED
  BY <1>1, <1>2, <1>3, <1>4, <1>5, <1>6, <1>7 DEF Inv

\* A kill leaves what is on the disk, and whole only what is kept there.
LEMMA KillInv ==
    ASSUME Inv, Kill
    PROVE  Inv'
<1>1. Types'
  BY StampFacts DEF Inv, Kill, Types, Step, Live, Formatting, Part
<1>2. SuperValid'
  BY StampFacts DEF Inv, Kill, Types, SuperValid, Live, Part
<1>3. RoomToFormat'
  BY StampFacts DEF Inv, Kill, Types, RoomToFormat, SuperValid, Formatting, Live
<1>4. DiskFresh'
  BY StampFacts DEF Inv, Kill, Types, DiskFresh, MemoryFresh, SuperValid, Fresh, Live,
     Part
<1>5. MemoryFresh'
  BY StampFacts DEF Inv, Kill, Types, MemoryFresh, DiskFresh, SuperValid, Fresh, Live,
     Part
<1>6. FormatProgress'
  BY StampFacts DEF Inv, Kill, Types, FormatProgress, Part
<1>7. WholeKept'
  BY StampFacts DEF Inv, Kill, Types, WholeKept, Kept, View, Part
<1> QED
  BY <1>1, <1>2, <1>3, <1>4, <1>5, <1>6, <1>7 DEF Inv

\* The invariant is inductive.
LEMMA NextInv == Inv /\ [Next]_vars => Inv'
<1> SUFFICES ASSUME Inv, [Next]_vars
             PROVE  Inv'
  OBVIOUS
<1>1. CASE OpenImage \/ Format \/ Use \/ SaveRoot \/ Unmount \/ Kill
  BY <1>1, OpenImageInv, FormatInv, UseInv, SaveRootInv, UnmountInv, KillInv
<1>2. CASE \E k \in Part : WriteBack(k)
  BY <1>2, WriteBackInv
<1>3. CASE Proceed
  BY <1>2, <1>3, ShrinkInv, GrowInv, MountInv, ClearCacheInv, WriteSuperInv,
     WriteBitmapsInv, MakeRootInv, FlushSuperInv, StopInv
     DEF Proceed
<1>4. CASE UNCHANGED vars
  BY <1>4 DEF vars, Inv, Types, SuperValid, RoomToFormat, DiskFresh, MemoryFresh,
     FormatProgress, WholeKept, Fresh, Kept, View
<1> QED
  BY <1>1, <1>2, <1>3, <1>4 DEF Next

\* Every state satisfies the inductive invariant.
LEMMA Invariance == Spec => []Inv
<1>1. Init => Inv
  BY InitInv
<1>2. Inv /\ [Next]_vars => Inv'
  BY NextInv
<1> QED
  BY <1>1, <1>2, PTL DEF Spec

\* The variables keep their types, and a file system runs only on an image of
\* the right size, whatever image the program was started on.
THEOREM TypeCorrect == Spec => []TypeOK
<1>1. Inv => TypeOK
  BY DEF Inv, Types, SuperValid, Live, TypeOK
<1> QED
  BY <1>1, Invariance, PTL

\* A file system from which no kill has taken anything is found as it was left
\* after any number of operations, write-backs, unmounts and mounts.
THEOREM WholeCorrect == Spec => []CleanIsWhole
<1>1. Inv => CleanIsWhole
  BY DEF Inv, Types, SuperValid, Live, TypeOK, WholeKept, CleanIsWhole
<1> QED
  BY <1>1, Invariance, PTL

\* No part of a former file system survives a format, in a cache or on the disk,
\* wherever kills fell.
THEOREM FormatCorrect == Spec => []FormatLeavesNothing
<1>1. Inv => FormatLeavesNothing
  BY DEF Inv, SuperValid, DiskFresh, MemoryFresh, Live, Fresh, View, FormatLeavesNothing
<1> QED
  BY <1>1, Invariance, PTL
=============================================================================
