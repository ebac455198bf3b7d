------------------------------- MODULE Shell -------------------------------
(***************************************************************************)
(* The command line: commands of a user on paths relative to a working     *)
(* directory and on descriptors, as calls of FileSys.                      *)
(*                                                                         *)
(* A path is the sequence of its names; an argument is one name, "." or    *)
(* "..".  The user closes a file before removing it, and every file before *)
(* a format.                                                               *)
(***************************************************************************)
EXTENDS FileHandles

CONSTANTS
    Chunk,          \* the most units a read asks for, and what cat asks for
    MaxDepth        \* bound: names in the working directory

VARIABLES
    cur_path,       \* the working directory
    task,           \* the command under way that takes several calls
    shown           \* what cat has printed

shellVars == <<allVars, cur_path, task, shown>>

ASSUME ShellAssumption == Chunk \in Nat \ {0} /\ MaxDepth \in Nat

NoPath == InodeCount         \* no inode
Idle == [cmd |-> "none"]
-----------------------------------------------------------------------------
\* One turn of lookup_path, at the inode i.
Entered(i, n) == IF i # NoPath /\ Has(nodes[i], n) THEN Target(i, n) ELSE NoPath

\* lookup_path from the root, turn by turn.
Walk(path) ==
    LET inode[k \in 0 .. Len(path)] == IF k = 0 THEN Root ELSE Entered(inode[k - 1], path[k])
    IN  inode

Lookup(path) == Walk(path)[Len(path)]

IsDir(path) == Lookup(path) # NoPath /\ nodes[Lookup(path)].type = "Directory"

\* Mutant of Joined: ".." at the root's children stays there.
JoinedKeepsFirst(base, n) ==
    IF n = Dot THEN base
    ELSE IF n # DotDot THEN Append(base, n)
    ELSE IF Len(base) <= 1 THEN base ELSE Front(base)

\* path_join: ".." takes a name away, whatever the directories' own entries say.
Joined(base, n) ==
    IF n = Dot THEN base
    ELSE IF n # DotDot THEN Append(base, n)
    ELSE IF base = <<>> THEN base ELSE Front(base)

\* What an argument of the user may name.
Arguments == {Joined(cur_path, n) : n \in ClientName \cup {Dot, DotDot}}

\* Every operation on names refuses the root, and a path whose parent is not there.
NoParent(path) == path = <<>> \/ Lookup(Front(path)) = NoPath

\* The directory of a path's last name.
Parent(path) == Lookup(Front(path))

\* The arguments that lie in a directory.
Placed == {path \in Arguments : ~NoParent(path)}
-----------------------------------------------------------------------------
InitShell == InitAll /\ cur_path = <<>> /\ task = Idle /\ shown = <<>>

\* What mkdir and touch do with a name they cannot create, and rm and rmdir with
\* one they cannot remove.
CannotCreate(path) ==
    \/ NoParent(path) /\ ret' = "failed" /\ UNCHANGED <<used, nodes, free_inodes, space>>
    \/ ~NoParent(path) /\ CreateRefused(Parent(path), Last(path))

Refused ==
    \/ \E path \in Arguments : CannotCreate(path)
    \/ \E path \in Placed : RemoveRefused(Parent(path), Last(path))

Creation ==
    \E path \in Placed :
        Touch(Parent(path), Last(path)) \/ MkDir(Parent(path), Last(path))

Removal ==
    \E path \in Placed :
        LET p == Parent(path)
            n == Last(path)
        IN  Has(nodes[p], n) /\ ~IsOpen(p, n) /\ (Rm(p, n) \/ RmDir(p, n))

OpenAt(off) == \E path \in Placed : Open(Parent(path), Last(path), off)

\* The commands that are one call of FileSys.
Simple ==
    /\ task = Idle
    /\ \/ Refused /\ HandlesStay /\ UNCHANGED wrote
       \/ Creation
       \/ Removal
       \/ \E off \in Offsets : OpenAt(off)
       \/ \E fd \in Fd :
            \/ Close(fd)
            \/ \E v \in Value : Write(fd, v)
            \/ \E n \in 1 .. Chunk : Read(fd, n)
            \/ \E off \in Offsets : Seek(fd, off)
            \/ BadDescriptor(fd)
    /\ UNCHANGED <<cur_path, task, shown>>

\* cd: to a directory, or nowhere; without an argument to the root.
Cd ==
    /\ task = Idle
    /\ \E path \in Arguments \cup {<<>>} :
        Len(path) <= MaxDepth /\ cur_path' = IF IsDir(path) THEN path ELSE cur_path
    /\ UNCHANGED <<allVars, task, shown>>

\* format goes back to the root directory first.
FormatDisk ==
    /\ task = Idle /\ fd_table = NoHandles
    /\ cur_path' = <<>>
    /\ FormatAll
    /\ UNCHANGED <<task, shown>>

\* Whether the bounds leave room for so many entries in the working directory.
Room(count) ==
    Lookup(cur_path) # NoPath =>
        LET d == nodes[Lookup(cur_path)]
        IN  Len(d.items) + count <= BlockItems /\ d.links + count <= MaxLinks

\* One turn of the loop of mkdirn or touchn: a failure is passed over.
Turn(cmd, names) ==
    /\ LET path == Append(cur_path, Head(names))
       IN  \/ ~NoParent(path) /\ cmd = "mkdirn" /\ MkDir(Parent(path), Last(path))
           \/ ~NoParent(path) /\ cmd = "touchn" /\ Touch(Parent(path), Last(path))
           \/ CannotCreate(path) /\ HandlesStay /\ UNCHANGED wrote
    /\ task' = IF Len(names) = 1 THEN Idle ELSE [cmd |-> cmd, left |-> Tail(names)]
    /\ UNCHANGED <<cur_path, shown>>

\* A prefix with the numbers from 0 is so many different names.
Numbered ==
    {names \in UNION {[1 .. n -> ClientName] : n \in 1 .. Cardinality(ClientName)} :
        IsInjective(names)}

\* mkdirn and touchn.
Batch ==
    /\ task = Idle
    /\ \E cmd \in {"mkdirn", "touchn"}, names \in Numbered :
        Room(Len(names)) /\ Turn(cmd, names)

BatchTurn == task.cmd \in {"mkdirn", "touchn"} /\ Turn(task.cmd, task.left)

\* cat opens the file, ...
Cat ==
    /\ task = Idle
    /\ OpenAt(0) /\ ret' = "open"
    /\ task' = [cmd |-> "cat", fd |-> cur_fd]
    /\ UNCHANGED <<cur_path, shown>>

File(fd) == nodes[fd_table[fd].inode_id].items

\* Mutant of AtEnd: a short read is taken for the last.
AtEndShort(fd) == ReadCount(Len(File(fd)), fd_table[fd].offset, Chunk) < Chunk

\* Whether a read returns nothing.
AtEnd(fd) == ReadCount(Len(File(fd)), fd_table[fd].offset, Chunk) = 0

\* ... prints what it reads, until it reads nothing, ...
CatTurn ==
    /\ task.cmd = "cat" /\ ~AtEnd(task.fd)
    /\ Read(task.fd, Chunk)
    /\ shown' = shown \o got'
    /\ UNCHANGED <<cur_path, task>>

\* ... and closes it.
CatEnd ==
    /\ task.cmd = "cat" /\ AtEnd(task.fd)
    /\ Close(task.fd)
    /\ task' = Idle
    /\ shown' = <<>>
    /\ UNCHANGED cur_path

NextShell == Simple \/ Cd \/ FormatDisk \/ Batch \/ BatchTurn \/ Cat \/ CatTurn \/ CatEnd

SpecShell == InitShell /\ [][NextShell]_shellVars
-----------------------------------------------------------------------------
\* The working directory stays a directory under a user who removes others,
\* formats and creates: only an rmdir can take it away, when it is empty, and one
\* of itself: its own entry is gone and all above it is still there.
WorkingDirKept ==
    [][IsDir(cur_path) /\ ~IsDir(cur_path)' =>
        /\ ret' = "rmdir" /\ IsDirEmpty(Lookup(cur_path))
        /\ IsDir(Front(cur_path))' /\ ~Has(nodes[Parent(cur_path)], Last(cur_path))']_shellVars

\* "cd .." takes a name off the path, and that is the directory which the
\* ".." entry of the working directory names.
DotDotIsParent ==
    IsDir(cur_path) =>
        nodes[Lookup(cur_path)].items[2].id = Lookup(Joined(cur_path, DotDot))

\* cat prints the whole file, each unit once, and takes no other descriptor away.
CatShowsFile ==
    [][task.cmd = "cat" /\ task' = Idle =>
        /\ shown = [k \in DOMAIN File(task.fd) |-> File(task.fd)[k].name]
        /\ fd_table' = Without(fd_table, task.fd)]_shellVars
=============================================================================
