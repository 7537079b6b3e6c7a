-------------------------------- MODULE LFS ---------------------------------
(***************************************************************************)
(* The log-structured file system of file-lfs/lfs.py.  Every block written *)
(* goes to the end of the disk; block 0 alone, the checkpoint region, is   *)
(* overwritten.  It points to the chunks of the inode map, which point to  *)
(* the inodes, which point to blocks of data or of names.  The inode map   *)
(* and the checkpoint's next contents are also kept in memory.             *)
(***************************************************************************)
EXTENDS Integers, Sequences, FiniteSets, FiniteSetsExt, SequencesExt

CONSTANTS
  NUM_IMAP_PTRS_IN_CR,        \* chunks of the inode map
  NUM_INODES_PER_IMAP_CHUNK,
  NUM_INODE_PTRS,             \* blocks of a file or a directory
  DirSlots,                   \* entries of a directory block, . and .. included
  Paths,                      \* the paths commands name
  Writes,                     \* <<offset, blocks>> of the writes asked for
  Options,                    \* the options the program is started with
  MaxLog                      \* bound: no command starts on a longer disk

VARIABLES disk, cr, inode_map,
          rc,                 \* what the last command returned
          options

vars == <<disk, cr, inode_map, rc, options>>

NIL == -1
CRASHED == -9                 \* the command ended the program: a failed assertion, a TypeError
ROOT_INODE == 0
NUM_INODES == NUM_IMAP_PTRS_IN_CR * NUM_INODES_PER_IMAP_CHUNK
Inums == 0..NUM_INODES - 1
Chunks == 0..NUM_IMAP_PTRS_IN_CR - 1
Pointers == 0..NUM_INODE_PTRS - 1
Offsets == 0..NUM_INODES_PER_IMAP_CHUNK - 1

Slot(name, inum) == [name |-> name, inum |-> inum]
EMPTY == Slot("-", NIL)
Checkpoint(entries) == [type |-> "checkpoint", entries |-> entries]
DataBlock(contents) == [type |-> "data", contents |-> contents]
EmptyDirblock == [type |-> "data_dir", entries |-> [s \in 1..DirSlots |-> EMPTY]]
NewDirblock(parent, current) ==
  [EmptyDirblock EXCEPT !.entries[1] = Slot(".", current), !.entries[2] = Slot("..", parent)]
MakeInode(kind, size, refs) ==
  [type |-> "inode", kind |-> kind, size |-> size, refs |-> refs, pointers |-> [k \in Pointers |-> NIL]]
Chunk(inum) == inum \div NUM_INODES_PER_IMAP_CHUNK
ImapChunk(m, c) ==
  [type |-> "imap", entries |-> [k \in Offsets |-> m[c * NUM_INODES_PER_IMAP_CHUNK + k]]]

Init ==
  /\ options \in Options
  /\ cr = [c \in Chunks |-> IF c = 0 THEN 3 ELSE NIL]
  /\ inode_map = [i \in Inums |-> IF i = ROOT_INODE THEN 2 ELSE NIL]
  /\ disk = <<Checkpoint(cr), NewDirblock(ROOT_INODE, ROOT_INODE),
              [MakeInode("dir", 1, 2) EXCEPT !.pointers[0] = 1], ImapChunk(inode_map, 0)>>
  /\ rc = 0
-----------------------------------------------------------------------------
(* Reading.  An address below 0 counts from the end of the disk. *)

Block(d, a) == IF a < 0 THEN d[Len(d) + a + 1] ELSE d[a + 1]

(* The inode map as the checkpoint region leads to it. *)
DiskMap(d) ==
  [i \in Inums |-> LET imap == Block(d, d[1].entries[Chunk(i)])
                   IN IF imap.type = "imap" THEN imap.entries[i % NUM_INODES_PER_IMAP_CHUNK] ELSE NIL]
Map == IF options.use_disk_cr THEN DiskMap(disk) ELSE inode_map

IsInode(d, m, i) == m[i] # NIL /\ Block(d, m[i]).type = "inode"
Inode(d, m, i) == Block(d, m[i])
InodeFromInumber(i) == Inode(disk, Map, i)

Entries(d, inode) ==
  {Block(d, inode.pointers[k]).entries[s] :
     k \in {j \in Pointers : inode.pointers[j] # NIL}, s \in 1..DirSlots} \ {EMPTY}

(* The inode number each prefix of path leads to, as a set: empty when     *)
(* there is no such name, {CRASHED} when a name is looked up in what is no *)
(* directory.                                                              *)
Lookup(d, m, dir, name) ==
  IF dir = CRASHED \/ ~IsInode(d, m, dir) \/ Inode(d, m, dir).kind # "dir" THEN {CRASHED}
  ELSE {e.inum : e \in {e \in Entries(d, Inode(d, m, dir)) : e.name = name}}
Walk(d, m, path) ==
  LET walk[n \in 0..Len(path)] ==
        IF n = 0 THEN {ROOT_INODE} ELSE UNION {Lookup(d, m, dir, path[n]) : dir \in walk[n - 1]}
  IN [n \in 0..Len(path) |-> IF walk[n] = {} THEN NIL ELSE CHOOSE i \in walk[n] : TRUE]
WalkPath(path) == Walk(disk, Map, path)
Found(path) == WalkPath(path)[Len(path)]
Parent(path) == WalkPath(path)[Len(path) - 1]
FileInode(path) == InodeFromInumber(Found(path))
ParentInode(path) == InodeFromInumber(Parent(path))
-----------------------------------------------------------------------------
(* Writing: blocks are appended, then the chunks of the inode map that      *)
(* changed, then the checkpoint region, unless it is only written on sync.  *)

CrSync(d, c) == [d EXCEPT ![1] = Checkpoint(c)]
UpdateImapStale(log, m, inums) ==
  [log |-> Append(log, ImapChunk(inode_map, Chunk(inums[1]))), cr |-> [cr EXCEPT ![Chunk(inums[1])] = Len(log)]]
UpdateImap(log, m, inums) ==
  LET cnums == IF Len(inums) = 2 /\ Chunk(inums[1]) = Chunk(inums[2])
                 THEN <<Chunk(inums[1])>> ELSE [k \in DOMAIN inums |-> Chunk(inums[k])]
      at(c) == CHOOSE k \in DOMAIN cnums : cnums[k] = c
  IN [log |-> log \o [k \in DOMAIN cnums |-> ImapChunk(m, cnums[k])],
      cr |-> [c \in Chunks |-> IF c \in Range(cnums) THEN Len(log) + at(c) - 1 ELSE cr[c]]]

CommitInPlace(blocks, m, inums) ==
  LET updated == UpdateImap(disk \o blocks, m, inums)
      written == [a \in DOMAIN updated.log |->
                    IF a - 1 \in Range(cr) THEN ImapChunk(m, CHOOSE c \in Chunks : cr[c] = a - 1)
                    ELSE updated.log[a]]
  IN /\ inode_map' = m
     /\ cr' = updated.cr
     /\ disk' = IF options.no_force_checkpoints THEN written ELSE CrSync(written, updated.cr)
     /\ UNCHANGED options
Commit(blocks, m, inums) ==
  LET updated == UpdateImap(disk \o blocks, m, inums)
  IN /\ inode_map' = m
     /\ cr' = updated.cr
     /\ disk' = IF options.no_force_checkpoints THEN updated.log ELSE CrSync(updated.log, updated.cr)
     /\ UNCHANGED options

Return(value) == rc' = value /\ UNCHANGED <<disk, cr, inode_map, options>>
Fail == Return(-1)
Crash == Return(CRASHED)

FreeInums == {i \in Inums : inode_map[i] = NIL}
AllocateInodeAfterLast == {i \in FreeInums : \A j \in Inums \ FreeInums : i > j}
AllocateInode ==
  IF options.inode_policy = "sequential" /\ FreeInums # {} THEN {Min(FreeInums)} ELSE FreeInums
FreeInodeLeak(m, i) == m
FreeInode(m, i) == [m EXCEPT ![i] = NIL]
(* The slots of a directory with a name, and the first of them. *)
MatchingDirSlots(name, inode) ==
  {<<k, s>> \in (0..inode.size - 1) \X (1..DirSlots) :
     Block(disk, inode.pointers[k]).entries[s].name = name}
FirstSlot(slots) ==
  LET k == Min({x[1] : x \in slots}) IN <<k, Min({x[2] : x \in {y \in slots : y[1] = k}})>>
Replaced(inode, slot, entry) ==
  [Block(disk, inode.pointers[slot[1]]) EXCEPT !.entries[slot[2]] = entry]

(* The block of the directory that will hold a new name: none when full. *)
AddDirEntryUnbounded(inode, name, inum) ==
  LET free == MatchingDirSlots("-", inode)
  IN IF free # {}
       THEN {[index |-> FirstSlot(free)[1], size |-> inode.size,
              block |-> Replaced(inode, FirstSlot(free), Slot(name, inum))]}
     ELSE {[index |-> inode.size, size |-> inode.size + 1,
            block |-> [EmptyDirblock EXCEPT !.entries[1] = Slot(name, inum)]]}
AddDirEntry(inode, name, inum) ==
  LET free == MatchingDirSlots("-", inode)
  IN IF free # {}
       THEN {[index |-> FirstSlot(free)[1], size |-> inode.size,
              block |-> Replaced(inode, FirstSlot(free), Slot(name, inum))]}
     ELSE IF inode.size # NUM_INODE_PTRS
       THEN {[index |-> inode.size, size |-> inode.size + 1,
              block |-> [EmptyDirblock EXCEPT !.entries[1] = Slot(name, inum)]]}
     ELSE {}
-----------------------------------------------------------------------------
Creating(path, kind, inum, entry) ==
  LET at == Len(disk)
      parent == Parent(path)
      own == IF kind = "dir" THEN <<NewDirblock(parent, inum)>> ELSE <<>>
      new_parent_inode == [ParentInode(path) EXCEPT !.size = entry.size, !.pointers[entry.index] = at,
                                                    !.refs = @ + Len(own)]
      new_inode == IF kind = "dir" THEN [MakeInode("dir", 1, 2) EXCEPT !.pointers[0] = at + 1]
                                   ELSE MakeInode("reg", 0, 1)
  IN /\ Commit(<<entry.block>> \o own \o <<new_parent_inode, new_inode>>,
               [inode_map EXCEPT ![parent] = at + Len(own) + 1, ![inum] = at + Len(own) + 2],
               <<parent, inum>>)
     /\ rc' = 0

Exists(path) == Found(path) >= 0
NoRoom(path, inum) == AddDirEntry(ParentInode(path), Last(path), inum) = {}
CreateFails(path) ==
  \/ Exists(path) \/ Parent(path) = NIL
  \/ Found(path) = NIL /\ Parent(path) # NIL /\ (AllocateInode = {} \/ NoRoom(path, NIL))
FileCreate(path, kind) ==
  \/ CreateFails(path) /\ Fail
  \/ Found(path) = CRASHED /\ Crash
  \/ /\ Found(path) = NIL /\ ~CreateFails(path)
     /\ \E inum \in AllocateInode : \E entry \in AddDirEntry(ParentInode(path), Last(path), inum) :
          Creating(path, kind, inum, entry)

LinkedUncounted(inode) == inode
Linked(inode) == [inode EXCEPT !.refs = @ + 1]
Linking(src, dst, entry) ==
  LET at == Len(disk)
      new_dst_parent_inode == [ParentInode(dst) EXCEPT !.size = entry.size, !.pointers[entry.index] = at]
  IN /\ Commit(<<entry.block, new_dst_parent_inode, Linked(FileInode(src))>>,
               [inode_map EXCEPT ![Parent(dst)] = at + 1, ![Found(src)] = at + 2], <<Parent(dst)>>)
     /\ rc' = 0

(* A regular file whose inode can be read; a missing inode ends the program. *)
Readable(path) == Exists(path) /\ IsInode(disk, Map, Found(path))
IsFile(path) == Readable(path) /\ FileInode(path).kind = "reg"
Unusable(path) == Found(path) = CRASHED \/ (Exists(path) /\ ~IsInode(disk, Map, Found(path)))
NotAFile(path) == Found(path) = NIL \/ (Readable(path) /\ ~IsFile(path))

(* A missing parent of dst is only noticed by using it as an inode. *)
LinkFails(src, dst) ==
  \/ NotAFile(src)
  \/ /\ IsFile(src)
     /\ \/ Exists(dst)
        \/ Found(dst) = NIL /\ Parent(dst) # NIL /\ NoRoom(dst, Found(src))
LinkCrashes(src, dst) ==
  Unusable(src) \/ (IsFile(src) /\ (Found(dst) = CRASHED \/ Parent(dst) = NIL))
FileLink(src, dst) ==
  \/ LinkFails(src, dst) /\ Fail
  \/ LinkCrashes(src, dst) /\ Crash
  \/ /\ ~LinkFails(src, dst) /\ ~LinkCrashes(src, dst)
     /\ \E entry \in AddDirEntry(ParentInode(dst), Last(dst), Found(src)) : Linking(src, dst, entry)

NewSizeReached(reached, size) == reached
NewSize(reached, size) == IF reached > size THEN reached ELSE size
FileWrite(path, offset, contents) ==
  \/ (NotAFile(path) \/ (IsFile(path) /\ offset \notin Pointers)) /\ Fail
  \/ Unusable(path) /\ Crash
  \/ /\ IsFile(path) /\ offset \in Pointers
     /\ LET at == Len(disk)
            num == Min({Len(contents), NUM_INODE_PTRS - offset})
            new_inode == [FileInode(path) EXCEPT
                            !.size = NewSize(offset + num, @),
                            !.pointers = [k \in Pointers |->
                               IF k \in offset..offset + num - 1 THEN at + k - offset ELSE @[k]]]
        IN /\ Commit([k \in 1..num |-> DataBlock(contents[k])] \o <<new_inode>>,
                     [inode_map EXCEPT ![Found(path)] = at + num], <<Found(path)>>)
           /\ rc' = num

Deleting(path) ==
  LET at == Len(disk)
      inum == Found(path)
      inode == FileInode(path)
      slot == FirstSlot(MatchingDirSlots(Last(path), ParentInode(path)))
      new_parent_inode == [ParentInode(path) EXCEPT !.pointers[slot[1]] = at]
      freed == IF inode.refs = 1 THEN FreeInode(inode_map, inum) ELSE inode_map
      counted == IF inode.refs > 1 THEN <<[inode EXCEPT !.refs = @ - 1]>> ELSE <<>>
      m == [freed EXCEPT ![Parent(path)] = at + 1]
  IN Commit(<<Replaced(ParentInode(path), slot, EMPTY), new_parent_inode>> \o counted,
            IF inode.refs > 1 THEN [m EXCEPT ![inum] = at + 2] ELSE m, <<inum, Parent(path)>>)
LastRefLost(path) == FileInode(path).refs = 1 /\ inode_map[Found(path)] = NIL
FileDelete(path) ==
  \/ NotAFile(path) /\ Fail
  \/ (Unusable(path) \/ (IsFile(path) /\ LastRefLost(path))) /\ Crash
  \/ IsFile(path) /\ ~LastRefLost(path) /\ Deleting(path) /\ rc' = 0

Sync == disk' = CrSync(disk, cr) /\ rc' = 0 /\ UNCHANGED <<cr, inode_map, options>>

(* The program is given a list of commands and ends after the last. *)
Running == rc # CRASHED /\ Len(disk) <= MaxLog
Next ==
  /\ Running
  /\ \/ \E p \in Paths, kind \in {"reg", "dir"} : FileCreate(p, kind)
     \/ \E p, q \in Paths : FileLink(p, q)
     \/ \E p \in Paths, w \in Writes : FileWrite(p, w[1], w[2])
     \/ \E p \in Paths : FileDelete(p)
     \/ Sync

Spec == Init /\ [][Next]_vars
-----------------------------------------------------------------------------
Contents == UNION {Range(w[2]) : w \in Writes}
Addresses == 0..Len(disk) - 1
Blocks ==
  [type : {"checkpoint"}, entries : [Chunks -> Addresses \cup {NIL}]]
  \cup [type : {"imap"}, entries : [Offsets -> Addresses \cup {NIL}]]
  \cup [type : {"inode"}, kind : {"dir", "reg"}, size : 0..NUM_INODE_PTRS, refs : 0..MaxLog,
        pointers : [Pointers -> Addresses \cup {NIL}]]
  \cup [type : {"data"}, contents : Contents]

(* Every block is well formed and points into the disk, and no inode is    *)
(* larger than its pointers.                                               *)
TypeOK ==
  /\ options \in Options
  /\ cr \in [Chunks -> Addresses \cup {NIL}]
  /\ inode_map \in [Inums -> Addresses \cup {NIL}]
  /\ \A a \in DOMAIN disk : disk[a].type = "data_dir" \/ disk[a] \in Blocks
  /\ rc \in {-1, CRASHED} \cup 0..NUM_INODE_PTRS

(* The tree of names that an inode map leads to. *)
NodeOf(d, inode) ==
  [kind |-> inode.kind,
   size |-> IF inode.kind = "dir" THEN 1 ELSE inode.size,
   data |-> [k \in Pointers |-> IF inode.kind = "dir" \/ inode.pointers[k] = NIL THEN NIL
                                ELSE Block(d, inode.pointers[k]).contents]]
Targets(d, m) == [p \in Paths \cup {<<>>} |-> Walk(d, m, p)[Len(p)]]
Image(d, m) ==
  CHOOSE image \in {[tree |-> [p \in {q \in DOMAIN t : t[q] >= 0} |-> t[p]],
                     node |-> [i \in Range(t) \ {NIL, CRASHED} |-> NodeOf(d, Inode(d, m, i))]] :
                      t \in {Targets(d, m)}} : TRUE

Tree == INSTANCE FileTree WITH
  Ids <- Inums, FileBlocks <- NUM_INODE_PTRS, DirCapacity <- NUM_INODE_PTRS * DirSlots - 2,
  fs <- Image(disk, Map)

(* The blocks, the inode map and the paths walked through them are a tree  *)
(* of files: a command does to the tree what it says, or nothing.          *)
ImplementsTree == Tree!Spec

(* file_create and file_link refuse only what the tree gives a reason to   *)
(* refuse: deleted names leave room, freed inodes can be used again.       *)
RefusesForCause ==
  LET f == Image(disk, Map)
  IN /\ \A p \in Paths : CreateFails(p) => ~Tree!CanCreate(f, p)
     /\ \A p, q \in Paths : LinkFails(p, q) => ~Tree!CanLink(f, p, q)

(* An inode counts its names; a directory counts itself, its name and the  *)
(* directories in it.  file_delete frees on this count (lfs.py:626).       *)
RefsMatch ==
  LET f == Image(disk, Map)
      links(p) == {q \in DOMAIN f.tree : f.tree[q] = f.tree[p]}
      subdirs(p) == {q \in DOMAIN f.tree \ {<<>>} : Front(q) = p /\ Tree!IsA(f, q, "dir")}
  IN \A p \in DOMAIN f.tree :
       Inode(disk, Map, f.tree[p]).refs = IF Tree!IsA(f, p, "reg") THEN Cardinality(links(p))
                                          ELSE 2 + Cardinality(subdirs(p))

(* The inode map holds the inodes that a name leads to and no other: none  *)
(* is lost by an operation that failed half way, none freed too early.     *)
NoOrphans == DOMAIN Image(disk, inode_map).node = Inums \ FreeInums

(* Once the checkpoint region is written, the disk alone leads to the same *)
(* names and contents as memory does.                                      *)
CheckpointReachesAll ==
  disk[1].entries = cr => Image(disk, DiskMap(disk)) = Image(disk, inode_map)

(* Until it is written again, what the disk leads to stays what it was,    *)
(* whatever is logged meanwhile.                                           *)
CheckpointKeptByStep ==
  disk' # disk /\ disk'[1] = disk[1] => Image(disk, DiskMap(disk))' = Image(disk, DiskMap(disk))
=============================================================================
