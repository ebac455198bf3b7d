---------------------------- MODULE FileHandles ----------------------------
(***************************************************************************)
(* FileSys's file descriptors: open, close, read, write and seek beside    *)
(* the operations on names and the format, which may take from a handle    *)
(* the inode whose number it keeps.  Shell, the client, has the next-state *)
(* relation; "a client" below closes a file before it removes it.          *)
(*                                                                         *)
(* Data is counted in units of a directory entry, and kept as entries: a   *)
(* byte string in a file that becomes a directory reads as an entry of     *)
(* that string, by a name nobody looks up.                                 *)
(***************************************************************************)
EXTENDS Namespace, Functions

CONSTANTS
    ClientName,     \* names a client looks up
    Value, Zero,    \* units a client writes, and what a hole reads as
    Offsets,        \* where a client opens a file and seeks to, in units
    MaxFd           \* bound: descriptors handed out

VARIABLES
    fd_table,       \* the open handles
    cur_fd,         \* the next descriptor
    closed,         \* history: descriptors that were closed
    opened,         \* history: the directory and name each was opened by
    wrote,          \* history: the units written to each file, by name
    got             \* what the last read returned

handleVars == <<fd_table, cur_fd, closed, opened, wrote, got>>
allVars == <<used, nodes, free_inodes, space, ret, handleVars>>

ASSUME HandleAssumption ==
    /\ ClientName \cup Value \cup {Zero} \subseteq Name
    /\ ClientName \cap (Value \cup {Zero}) = {} /\ Zero \notin Value
    /\ \A v \in Value \cup {Zero} : Stored[v] = v
    /\ Offsets \subseteq 0 .. BlockItems /\ MaxFd \in Nat

Fd == 0 .. MaxFd - 1
Unit(v) == [name |-> v, id |-> Root]
NoHandles == [fd \in {} |-> 0]
Nowhere == [o \in {} |-> Zero]
-----------------------------------------------------------------------------
InitAll ==
    /\ Init
    /\ fd_table = NoHandles
    /\ cur_fd = 0
    /\ closed = {}
    /\ opened = NoHandles
    /\ wrote = NoHandles
    /\ got = <<>>

NextFd == cur_fd

\* Whether a path resolves to a file: has_file, and open's own checks.
IsFile(p, n) == Has(nodes[p], n) /\ nodes[Target(p, n)].type = "File"

Extended(f, x, y) == [z \in DOMAIN f \cup {x} |-> IF z = x THEN y ELSE f[z]]
Without(f, x) == Restrict(f, DOMAIN f \ {x})

Open(p, n, off) ==
    /\ cur_fd < MaxFd
    /\ IF IsFile(p, n)
       THEN /\ fd_table' = Extended(fd_table, NextFd, [inode_id |-> Target(p, n), offset |-> off])
            /\ opened' = Extended(opened, NextFd, <<p, n>>)
            /\ cur_fd' = cur_fd + 1
            /\ ret' = "open"
       ELSE /\ ret' = "failed"
            /\ UNCHANGED <<fd_table, opened, cur_fd>>
    /\ got' = <<>>
    /\ UNCHANGED <<used, nodes, free_inodes, space, closed, wrote>>

\* close: a descriptor that is not open is let pass.
Close(fd) ==
    /\ fd_table' = Without(fd_table, fd)
    /\ opened' = Without(opened, fd)
    /\ closed' = closed \cup (DOMAIN fd_table \cap {fd})
    /\ ret' = "done"
    /\ got' = <<>>
    /\ UNCHANGED <<used, nodes, free_inodes, space, cur_fd, wrote>>

\* Mutant of Overlaid: the file ends where the write does.
OverlaidCut(items, off, v) ==
    [k \in 1 .. off + 1 |->
        IF k = off + 1 THEN Unit(v) ELSE IF k <= Len(items) THEN items[k] ELSE Unit(Zero)]

\* write_data of one unit into the entries of a node.
Overlaid(items, off, v) ==
    [k \in 1 .. (IF off < Len(items) THEN Len(items) ELSE off + 1) |->
        IF k = off + 1 THEN Unit(v) ELSE IF k <= Len(items) THEN items[k] ELSE Unit(Zero)]

\* Mutant of Advanced: the handle stays where it was.
AdvancedNot(fd, n) == fd_table

\* read and write move the handle by what they did.
Advanced(fd, n) == [fd_table EXCEPT ![fd].offset = @ + n]

\* What is known of the file once a unit of it is written.
Recorded(fd, off, v) ==
    LET name == opened[fd]
    IN  IF name \in DOMAIN wrote
        THEN [wrote EXCEPT ![name] = Extended(@, off, v)]
        ELSE wrote

\* write: the inode may have been freed, or be another file's or a directory's.
Write(fd, v) ==
    LET h == fd_table[fd]
        node == nodes[h.inode_id]
        grows == node.storage = "Inline" /\ h.offset >= InlineItems
    IN  /\ fd \in DOMAIN fd_table
        /\ h.offset < BlockItems
        /\ IF grows /\ space = 0
           THEN /\ ret' = "failed"
                /\ UNCHANGED <<nodes, space, fd_table, wrote>>
           ELSE /\ nodes' = [nodes EXCEPT ![h.inode_id].items = Overlaid(@, h.offset, v),
                                          ![h.inode_id].storage = IF grows THEN "Direct" ELSE @]
                /\ space' = IF grows THEN space - 1 ELSE space
                /\ fd_table' = Advanced(fd, 1)
                /\ wrote' = Recorded(fd, h.offset, v)
                /\ ret' = "write"
        /\ got' = <<>>
        /\ UNCHANGED <<used, free_inodes, cur_fd, closed, opened>>

\* min(n, size - off), where the difference is unsigned.
ReadCount(size, off, n) ==
    IF off <= size /\ size - off < n THEN size - off ELSE n

\* What is read there; past the end, whatever the storage holds.
ReadUnits(items, off, n) ==
    [k \in 1 .. n |-> IF off + k <= Len(items) THEN items[off + k].name ELSE Zero]

Read(fd, n) ==
    LET h == fd_table[fd]
        items == nodes[h.inode_id].items
        count == ReadCount(Len(items), h.offset, n)
    IN  /\ fd \in DOMAIN fd_table
        /\ h.offset + count <= BlockItems
        /\ got' = ReadUnits(items, h.offset, count)
        /\ fd_table' = Advanced(fd, count)
        /\ ret' = "read"
        /\ UNCHANGED <<used, nodes, free_inodes, space, cur_fd, closed, opened, wrote>>

Seek(fd, off) ==
    /\ fd \in DOMAIN fd_table
    /\ fd_table' = [fd_table EXCEPT ![fd].offset = off]
    /\ ret' = "done"
    /\ got' = <<>>
    /\ UNCHANGED <<used, nodes, free_inodes, space, cur_fd, closed, opened, wrote>>

\* read and write through a descriptor that is not open.
BadDescriptor(fd) ==
    /\ fd \notin DOMAIN fd_table
    /\ ret' = "failed"
    /\ got' = <<>>
    /\ UNCHANGED <<used, nodes, free_inodes, space, fd_table, cur_fd, closed, opened, wrote>>

\* The operations on names and the format leave the handles alone.
HandlesStay ==
    /\ got' = <<>>
    /\ UNCHANGED <<fd_table, cur_fd, closed, opened>>

Touch(p, n) ==
    /\ CreateFile(p, n)
    /\ wrote' = IF ret' = "touch" /\ Has(nodes'[p], Stored[n])
                THEN Extended(wrote, <<p, Stored[n]>>, Nowhere)
                ELSE wrote
    /\ HandlesStay

MkDir(p, n) == CreateDir(p, n) /\ HandlesStay /\ UNCHANGED wrote

Rm(p, n) ==
    /\ RemoveFile(p, n)
    /\ wrote' = Without(wrote, <<p, n>>)
    /\ HandlesStay

RmDir(p, n) ==
    /\ RemoveDir(p, n)
    /\ wrote' = Without(wrote, <<p, n>>)
    /\ HandlesStay

FormatAll == Format /\ wrote' = NoHandles /\ HandlesStay

\* Whether some handle is on the inode of a name.
IsOpen(p, n) == \E fd \in DOMAIN fd_table : fd_table[fd].inode_id = Target(p, n)
-----------------------------------------------------------------------------
\* The variables keep their types; no offset and no size passes the bound.
TypeOKAll ==
    /\ TypeOK
    /\ DOMAIN fd_table \subseteq 0 .. cur_fd - 1 /\ cur_fd \in 0 .. MaxFd
    /\ \A fd \in DOMAIN fd_table : fd_table[fd] \in [inode_id : Inode, offset : 0 .. BlockItems]
    /\ DOMAIN opened = DOMAIN fd_table
    /\ got \in Seq(Value \cup {Zero})

\* To a client that closes before it removes, a handle is the file of the name it
\* was opened by, whatever is created, removed and reused around it; and a closed
\* descriptor never comes to mean another file.
HandlesAreNames ==
    /\ TypeOKAll
    /\ \A fd \in DOMAIN fd_table :
        LET p == opened[fd][1]  n == opened[fd][2]
        IN  p \in used /\ IsFile(p, n) /\ Target(p, n) = fd_table[fd].inode_id
    /\ closed \cap DOMAIN fd_table = {}

\* ... and every unit that a write put into a file under its name is there,
\* through other files' writes, failures for want of space, and the reuse of
\* inodes for files and directories.
WrittenIsThere ==
    \A name \in DOMAIN wrote :
        /\ IsFile(name[1], name[2])
        /\ LET items == nodes[Target(name[1], name[2])].items
           IN  \A o \in DOMAIN wrote[name] :
                o < Len(items) /\ items[o + 1] = Unit(wrote[name][o])

\* Reads through one handle go on where the last one stopped: nothing is read
\* twice or skipped, a read that starts within the file ends there, and what comes
\* back is what was written under that name.
ReadsInOrder ==
    [][ret' = "read" => \E fd \in DOMAIN fd_table :
        LET off == fd_table[fd].offset
            size == Len(nodes[fd_table[fd].inode_id].items)
            known == wrote[opened[fd]]
        IN  /\ fd_table'[fd].offset = off + Len(got')
            /\ off <= size => off + Len(got') <= size
            /\ \A k \in DOMAIN got' :
                off + k - 1 \in DOMAIN known => got'[k] = known[off + k - 1]]_allVars
=============================================================================
