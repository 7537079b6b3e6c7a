-------------------------------- MODULE VSFS --------------------------------
(***************************************************************************)
(* The very simple file system of file-implementation/vsfs.py, and the     *)
(* copy of it in file-journaling/fsck.py that damages one thing at the end *)
(* for the reader to find.  Two bitmaps, an array of inodes and an array   *)
(* of blocks; a directory is one block of names, a file at most one block  *)
(* of data.  The driver keeps lists of the paths it has made, and what     *)
(* inode each stands for, beside the file system.                          *)
(***************************************************************************)
EXTENDS Integers, Sequences, FiniteSets, FiniteSetsExt, SequencesExt

CONSTANTS
  numInodes, numData,   \* sizes of the file system
  maxUsed,              \* entries of a directory, . and .. included
  Paths,                \* bound: the paths the driver may make up
  Contents              \* what a block of data may hold

VARIABLES
  ibitmap, inodes, dbitmap, data,   \* the file system
  files, dirs, nameToInum,          \* the driver's view of it
  program,                          \* "vsfs" or "fsck"
  phase,                            \* "running"; "exited" when full; "damaged"; "assert"
  corruption                        \* which damage was done

fsys == <<ibitmap, inodes, dbitmap, data>>
driver == <<files, dirs, nameToInum>>
vars == <<fsys, driver, program, phase, corruption>>

NIL == -1
ROOT == 0
RootPath == <<>>
Inums == 0..numInodes - 1
Blocks == 0..numData - 1

FreeInode == [ftype |-> "free", addr |-> NIL, refCnt |-> 1]
FreeBlock == [ftype |-> "free", dirList |-> <<>>, data |-> NIL]
NewDirBlock(inum, parent) ==
  [ftype |-> "d", dirList |-> <<<<".", inum>>, <<"..", parent>>>>, data |-> NIL]

(* Bitmaps. *)
MarkAllocated(bm, n) == [bits |-> [bm.bits EXCEPT ![n] = 1], numAllocated |-> bm.numAllocated + 1]
Freed(bm, n) == [bits |-> [bm.bits EXCEPT ![n] = 0], numAllocated |-> bm.numAllocated - 1]
NumFree(bm) == Cardinality(DOMAIN bm.bits) - bm.numAllocated
ZeroBits(bm) == {n \in DOMAIN bm.bits : bm.bits[n] = 0}
Alloc(bm) ==
  IF program = "vsfs" THEN (IF ZeroBits(bm) = {} THEN {} ELSE {Min(ZeroBits(bm))})
  ELSE IF NumFree(bm) = 0 THEN {} ELSE ZeroBits(bm)

Init ==
  LET bitmap(numbers) == MarkAllocated([bits |-> [n \in numbers |-> 0], numAllocated |-> 0], ROOT)
  IN /\ ibitmap = bitmap(Inums) /\ dbitmap = bitmap(Blocks)
     /\ inodes = [i \in Inums |-> IF i = ROOT THEN [ftype |-> "d", addr |-> 0, refCnt |-> 2]
                                  ELSE FreeInode]
     /\ data = [b \in Blocks |-> IF b = ROOT THEN NewDirBlock(ROOT, ROOT) ELSE FreeBlock]
     /\ files = <<>> /\ dirs = <<RootPath>>
     /\ nameToInum = [p \in Paths \cup {RootPath} |-> IF p = RootPath THEN ROOT ELSE NIL]
     /\ program \in {"vsfs", "fsck"} /\ phase = "running" /\ corruption = NIL
-----------------------------------------------------------------------------
InodeOf(path) == inodes[nameToInum[path]]
BlockOf(dir) == data[InodeOf(dir).addr]
NoRoom(block) == maxUsed - Len(block.dirList) <= 0
DirEntryExists(block, name) == \E e \in Range(block.dirList) : e[1] = name
AddDirEntry(block, name, inum) == [block EXCEPT !.dirList = Append(@, <<name, inum>>)]
DelLastEntry(block, name) == [block EXCEPT !.dirList = Front(@)]
DelDirEntry(block, name) ==
  LET k == Min({k \in DOMAIN block.dirList : block.dirList[k][1] = name})
  IN [block EXCEPT !.dirList = RemoveAt(@, k)]

(* A request that returned -1 is made again with other arguments; after    *)
(* each, a program whose file system is full ends.                         *)
Requested ==
  /\ phase' = IF NumFree(ibitmap') = 0 \/ NumFree(dbitmap') = 0 THEN "exited" ELSE "running"
  /\ UNCHANGED <<program, corruption>>

CreateFails(path) ==
  \/ NoRoom(BlockOf(Front(path))) \/ DirEntryExists(BlockOf(Front(path)), Last(path))
  \/ Alloc(ibitmap) = {}

CreateFile(path) ==
  \E inum \in Alloc(ibitmap) :
    /\ ibitmap' = MarkAllocated(ibitmap, inum)
    /\ inodes' = [inodes EXCEPT ![inum] = [ftype |-> "f", addr |-> NIL, refCnt |-> 1]]
    /\ data' = [data EXCEPT ![InodeOf(Front(path)).addr] = AddDirEntry(@, Last(path), inum)]
    /\ nameToInum' = [nameToInum EXCEPT ![path] = inum]
    /\ UNCHANGED dbitmap

CreateDir(path) ==
  \E inum \in Alloc(ibitmap), fblock \in Alloc(dbitmap) :
    LET parentInum == nameToInum[Front(path)]
    IN /\ ibitmap' = MarkAllocated(ibitmap, inum)
       /\ dbitmap' = MarkAllocated(dbitmap, fblock)
       /\ inodes' = [inodes EXCEPT ![inum] = [ftype |-> "d", addr |-> fblock, refCnt |-> 2],
                                   ![parentInum].refCnt = @ + 1]
       /\ data' = [data EXCEPT ![inodes[parentInum].addr] = AddDirEntry(@, Last(path), inum),
                               ![fblock] = NewDirBlock(inum, parentInum)]
       /\ nameToInum' = [nameToInum EXCEPT ![path] = inum]

DoCreate(path, ftype) ==
  /\ Front(path) \in Range(dirs)
  /\ ~CreateFails(path)
  /\ IF ftype = "d" THEN CreateDir(path) /\ dirs' = Append(dirs, path) /\ UNCHANGED files
                    ELSE CreateFile(path) /\ files' = Append(files, path) /\ UNCHANGED dirs
  /\ Requested

LinkFails(path) == NoRoom(BlockOf(Front(path))) \/ DirEntryExists(BlockOf(Front(path)), Last(path))
DoLink(target, path) ==
  /\ target \in Range(files) /\ Front(path) \in Range(dirs)
  /\ ~LinkFails(path)
  /\ LET tinum == nameToInum[target]
     IN /\ inodes' = [inodes EXCEPT ![tinum].refCnt = @ + 1]
        /\ data' = [data EXCEPT ![InodeOf(Front(path)).addr] = AddDirEntry(@, Last(path), tinum)]
        /\ files' = Append(files, path)
        /\ nameToInum' = [nameToInum EXCEPT ![path] = tinum]
        /\ UNCHANGED <<ibitmap, dbitmap, dirs>>
  /\ Requested

DoAppend(path, contents) ==
  /\ path \in Range(files)
  /\ InodeOf(path).addr = NIL
  /\ \E fblock \in Alloc(dbitmap) :
       /\ dbitmap' = MarkAllocated(dbitmap, fblock)
       /\ data' = [data EXCEPT ![fblock].ftype = "f", ![fblock].data = contents]
       /\ inodes' = [inodes EXCEPT ![nameToInum[path]].addr = fblock]
       /\ UNCHANGED <<ibitmap, driver>>
  /\ Requested

(* What unlinking a name does to its inode: the inode and its block, if    *)
(* any, are freed with the last name.                                      *)
DataFree(block) == [block EXCEPT !.data = NIL, !.ftype = "free"]
ReleaseLeak(inum) ==
  LET last == inodes[inum].refCnt = 1
  IN [ibitmap |-> IF last THEN Freed(ibitmap, inum) ELSE ibitmap,
      inodes |-> [inodes EXCEPT ![inum] = IF last THEN [@ EXCEPT !.ftype = "free", !.addr = NIL]
                                          ELSE [@ EXCEPT !.refCnt = @ - 1]],
      dbitmap |-> dbitmap, data |-> data]
Release(inum) ==
  LET inode == inodes[inum]
      last == inode.refCnt = 1
      block == last /\ inode.addr # NIL
  IN [ibitmap |-> IF last THEN Freed(ibitmap, inum) ELSE ibitmap,
      inodes |-> [inodes EXCEPT ![inum] = IF last THEN [@ EXCEPT !.ftype = "free", !.addr = NIL]
                                          ELSE [@ EXCEPT !.refCnt = @ - 1]],
      dbitmap |-> IF block THEN Freed(dbitmap, inode.addr) ELSE dbitmap,
      data |-> IF block THEN [data EXCEPT ![inode.addr] = DataFree(@)] ELSE data]

(* vsfs deletes any of its files; fsck always the oldest (fsck.py:433).    *)
DoDelete(k) ==
  /\ k \in DOMAIN files
  /\ program = "fsck" => k = 1
  /\ LET path == files[k]
         after == Release(nameToInum[path])
     IN /\ ibitmap' = after.ibitmap /\ dbitmap' = after.dbitmap
        /\ inodes' = after.inodes
        /\ data' = [after.data EXCEPT ![InodeOf(Front(path)).addr] = DelDirEntry(@, Last(path))]
        /\ files' = RemoveAt(files, k)
        /\ UNCHANGED <<dirs, nameToInum>>
  /\ Requested
-----------------------------------------------------------------------------
(* fsck, once all requests are done, damages one thing. *)

Picked(ftype) == {i \in Inums : inodes[i].ftype = ftype}
FindAnyData == Blocks
FindFreeData == {b \in Blocks : data[b].ftype = "free"}
Flipped(bm, n) == [bm EXCEPT !.bits[n] = 1 - @]

CorruptDataBitmap == \E n \in Blocks : dbitmap' = Flipped(dbitmap, n) /\ UNCHANGED <<ibitmap, inodes, data>>
CorruptInodeBitmap == \E n \in Inums : ibitmap' = Flipped(ibitmap, n) /\ UNCHANGED <<dbitmap, inodes, data>>
CorruptInode(ftype, new(_)) ==
  /\ \E i \in Picked(ftype) : \E inode \in new(inodes[i]) : inodes' = [inodes EXCEPT ![i] = inode]
  /\ UNCHANGED <<ibitmap, dbitmap, data>>
CorruptRefCnt(ftype) ==
  LET new(inode) == {[inode EXCEPT !.refCnt = @ + d] : d \in {-1, 1}} IN CorruptInode(ftype, new)
FakeInode(ftype) ==
  LET new(inode) == {[ftype |-> ftype, addr |-> NIL, refCnt |-> 1]} IN CorruptInode("free", new)
CorruptAddr(ftype) ==
  LET new(inode) == {[inode EXCEPT !.addr = b] : b \in FindFreeData} IN CorruptInode(ftype, new)
SwitchType(ftype) ==
  LET new(inode) == {[inode EXCEPT !.ftype = IF ftype = "f" THEN "d" ELSE "f"]} IN CorruptInode(ftype, new)
CorruptEntry(new(_)) ==
  /\ \E i \in Picked("d") : \E k \in DOMAIN data[inodes[i].addr].dirList :
       \E entry \in new(data[inodes[i].addr].dirList[k]) :
         data' = [data EXCEPT ![inodes[i].addr].dirList[k] = entry]
  /\ UNCHANGED <<ibitmap, dbitmap, inodes>>
MisdirectEntry == LET new(e) == {<<e[1], i>> : i \in ZeroBits(ibitmap)} IN CorruptEntry(new)
RenameEntry == LET new(e) == {<<Last(p), e[2]>> : p \in Paths} IN CorruptEntry(new)

Kind(n, ftype) == IF ftype = "f" THEN n ELSE n + 6
Corrupted(num) ==
  \/ num = 0 /\ CorruptDataBitmap
  \/ num = 1 /\ CorruptInodeBitmap
  \/ \E t \in {"f", "d"} : \/ num = Kind(2, t) /\ CorruptRefCnt(t)
                           \/ num = Kind(3, t) /\ FakeInode(t)
                           \/ num = Kind(4, t) /\ CorruptAddr(t)
                           \/ num = Kind(5, t) /\ SwitchType(t)
  \/ num = 6 /\ MisdirectEntry
  \/ num = 7 /\ RenameEntry
Corrupt(num) ==
  /\ program = "fsck"
  /\ IF num \in {2, 4, 5} /\ Picked("f") = {} THEN phase' = "assert" /\ UNCHANGED fsys
                                              ELSE phase' = "damaged" /\ Corrupted(num)
  /\ corruption' = num
  /\ UNCHANGED <<driver, program>>

Next ==
  /\ phase = "running"
  /\ \/ \E p \in Paths, ftype \in {"f", "d"} : DoCreate(p, ftype)
     \/ \E t, p \in Paths : DoLink(t, p)
     \/ \E p \in Paths, c \in Contents : DoAppend(p, c)
     \/ \E k \in 1..Cardinality(Paths) : DoDelete(k)
     \/ \E num \in 0..11 : Corrupt(num)

Spec == Init /\ [][Next]_vars
-----------------------------------------------------------------------------
(* No directory is larger than its block, and addresses are blocks.        *)
TypeOK ==
  /\ ibitmap.bits \in [Inums -> 0..1] /\ dbitmap.bits \in [Blocks -> 0..1]
  /\ inodes \in [Inums -> [ftype : {"free", "f", "d"}, addr : Blocks \cup {NIL},
                           refCnt : 0..Cardinality(Paths) + 3]]
  /\ \A b \in Blocks : /\ data[b].ftype \in {"free", "f", "d"}
                       /\ data[b].data \in Contents \cup {NIL}
                       /\ Len(data[b].dirList) <= maxUsed
  /\ Range(files) \subseteq Paths /\ Range(dirs) \subseteq Paths \cup {RootPath}
  /\ nameToInum \in [Paths \cup {RootPath} -> Inums \cup {NIL}]
  /\ phase \in {"running", "exited", "damaged", "assert"} /\ corruption \in {NIL} \cup 0..11

(* What the names lead to from the root, on the disk alone. *)
EntriesOf(inum) ==
  IF inum \in Inums /\ inodes[inum].ftype = "d" /\ inodes[inum].addr # NIL
    THEN Range(data[inodes[inum].addr].dirList) ELSE {}
Walk(path) ==
  LET walk[n \in 0..Len(path)] ==
        IF n = 0 THEN {ROOT}
        ELSE {e[2] : e \in {e \in UNION {EntriesOf(d) : d \in walk[n - 1]} : e[1] = path[n]}}
  IN walk[Len(path)]
Existing == {p \in Paths \cup {RootPath} : Walk(p) # {}}
Image ==
  LET target(p) == CHOOSE i \in Walk(p) : TRUE
      block(i) == IF inodes[i].addr = NIL THEN FreeBlock ELSE data[inodes[i].addr]
  IN [tree |-> [p \in Existing |-> target(p)],
      node |-> [i \in {target(p) : p \in Existing} |->
                  [kind |-> IF inodes[i].ftype = "d" THEN "dir" ELSE "reg",
                   size |-> IF inodes[i].addr = NIL THEN 0 ELSE 1,
                   data |-> [k \in {0} |-> block(i).data]]]]

Tree == INSTANCE FileTree WITH
  Ids <- Inums, FileBlocks <- 1, DirCapacity <- maxUsed - 2, fs <- Image

Undamaged == phase # "damaged"

(* Until the damage is done, the bitmaps, inodes and blocks are a tree of   *)
(* files: a request does to the tree what it says.                          *)
ImplementsTree == Tree!Init /\ [][phase' # "damaged" => Tree!Next]_vars

(* createFile and createLink refuse only what the tree gives a reason to    *)
(* refuse.                                                                  *)
RefusesForCause ==
  phase = "running" =>
    LET f == Image
        offered == {p \in Paths : Front(p) \in Range(dirs)}
    IN /\ \A p \in offered : CreateFails(p) => ~Tree!CanCreate(f, p)
       /\ \A p \in offered, t \in Range(files) : LinkFails(p) => ~Tree!CanLink(f, t, p)

(* The driver's lists and map name what the disk holds, though names are    *)
(* never taken out of the map (vsfs.py:294-296).                            *)
NamesAgree ==
  Undamaged => /\ Existing = Range(files) \cup Range(dirs)
               /\ \A p \in Existing : Walk(p) = {nameToInum[p]}

(* What a checker of the disk looks at. *)
Reached == UNION {Walk(p) : p \in Existing}
EntriesTo(i) == {<<d, k>> \in Inums \X (1..maxUsed) :
                   /\ EntriesOf(d) # {} /\ k \in DOMAIN data[inodes[d].addr].dirList
                   /\ data[inodes[d].addr].dirList[k][2] = i}
InodesConsistent ==
  \A i \in Inums :
    /\ (ibitmap.bits[i] = 1) = (inodes[i].ftype # "free")
    /\ (ibitmap.bits[i] = 1) = (i \in Reached)
    /\ inodes[i].ftype # "free" => inodes[i].refCnt = Cardinality(EntriesTo(i))
BlocksConsistent ==
  \A b \in Blocks :
    /\ (dbitmap.bits[b] = 1) = (data[b].ftype # "free")
    /\ Cardinality({i \in Inums : inodes[i].ftype # "free" /\ inodes[i].addr = b}) = dbitmap.bits[b]
DirsConsistent ==
  \A i \in Inums :
    /\ inodes[i].ftype = "d" => \E parent \in Reached : {<<".", i>>, <<"..", parent>>} \subseteq EntriesOf(i)
    /\ inodes[i].ftype # "free" /\ inodes[i].addr # NIL => data[inodes[i].addr].ftype = inodes[i].ftype
Consistent == BlocksConsistent /\ DirsConsistent /\ InodesConsistent

(* Bitmaps, inodes, blocks, names and reference counts agree after every    *)
(* request, and the bitmaps count their ones.                               *)
Consistency ==
  Undamaged => /\ Consistent
               /\ NumFree(ibitmap) = Cardinality(ZeroBits(ibitmap))
               /\ NumFree(dbitmap) = Cardinality(ZeroBits(dbitmap))

(* Every damage but a changed name leaves something that does not agree:    *)
(* the reader can find it.                                                  *)
DamageShows == phase = "damaged" /\ corruption # 7 => ~Consistent
=============================================================================
