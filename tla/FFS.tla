-------------------------------- MODULE FFS ---------------------------------
(***************************************************************************)
(* The allocation simulator of file-ffs/ffs.py: a file system in block     *)
(* groups, each with its inodes and data blocks, that creates files and    *)
(* directories, deletes files, and checks itself after every command.  A   *)
(* failed check, or an exception, ends the program.                        *)
(*                                                                         *)
(* Left out: the symbols files are shown by, of which each name takes one  *)
(* (only their number matters), dump, and the spans printed at the end.    *)
(***************************************************************************)
EXTENDS Integers, Sequences, FiniteSets, FiniteSetsExt, SequencesExt

CONSTANTS
  Paths,        \* the paths commands may name: non-empty sequences of names
  Sizes,        \* the sizes of the files commands create
  NumSymbols,   \* available_symbols at the start
  Options       \* the command lines: geometry and policies

(* Groups are taken to have as many inodes as there are groups, as by        *)
(* default.  In any other geometry do_delete may free the inode of another   *)
(* file, and do_verify, which counts inodes only, lets that pass.            *)

VARIABLES
  options,
  data_bitmap, inode_bitmap,          \* [group][index] to the inode, or Free
  total_data_free, total_inodes_free,
  dir_data,                           \* the entries of each directory but . and ..
  inode_type, inode_blocks,           \* of each inode
  name_to_inode_map,                  \* of each path
  phase                               \* "running", or the error that ended the program

bitmaps == <<data_bitmap, inode_bitmap, total_data_free, total_inodes_free>>
names == <<dir_data, inode_type, inode_blocks, name_to_inode_map>>
vars == <<options, bitmaps, names, phase>>

BITMAP_FREE == -1
ROOT == 0
RootPath == <<>>
Groups == 0..options.num_groups - 1
InodeSlots == 0..options.inodes_per_group - 1
BlockSlots == 0..options.blocks_per_group - 1
Inums == 0..options.num_groups * options.inodes_per_group - 1

Init ==
  /\ options \in Options
  /\ data_bitmap = [g \in Groups |-> [i \in BlockSlots |-> IF g = 0 /\ i = 0 THEN ROOT ELSE BITMAP_FREE]]
  /\ inode_bitmap = [g \in Groups |-> [i \in InodeSlots |-> IF g = 0 /\ i = 0 THEN ROOT ELSE BITMAP_FREE]]
  /\ total_data_free = options.blocks_per_group * options.num_groups - 1
  /\ total_inodes_free = options.inodes_per_group * options.num_groups - 1
  /\ dir_data = [i \in Inums |-> {}]
  /\ inode_type = [i \in Inums |-> IF i = ROOT THEN "directory" ELSE ""]
  /\ inode_blocks = [i \in Inums |-> IF i = ROOT THEN <<0>> ELSE <<>>]
  /\ name_to_inode_map = [p \in {RootPath} |-> ROOT]
  /\ phase = "running"
-----------------------------------------------------------------------------
(* Which group an inode goes to. *)

Free(bitmap) == {i \in DOMAIN bitmap : bitmap[i] = BITMAP_FREE}
FreeInodes(g) == Cardinality(Free(inode_bitmap[g]))
FreeBlocks(g) == Cardinality(Free(data_bitmap[g]))
FirstMax(gs, weight(_)) ==
  Min({g \in gs : \A other \in gs : weight(g) >= weight(other)})

(* The groups are looked at by allocate_faraway at a time, and the first of *)
(* those with the most free inodes among them is taken.                     *)
InodesInRange(g) ==
  MapThenSumSet(LAMBDA k : FreeInodes((g + k) % options.num_groups), 0..options.allocate_faraway - 1)
FindMostFreeInodes ==
  FirstMax({g \in Groups : g % options.allocate_faraway = 0}, InodesInRange)

(* The groups near a full one are tried alternately above and below it. *)
Near(g, i) == (IF i % 2 = 0 THEN g + 1 + i \div 2 ELSE g - 1 - i \div 2) % options.num_groups
FindFreeInodesNear(g) ==
  Near(g, Min({i \in 0..options.num_groups - 2 : FreeInodes(Near(g, i)) > 0}))

PickGroup(parent, type) ==
  LET home == name_to_inode_map[parent] \div options.inodes_per_group
  IN IF type = "directory" \/ options.spread_inodes THEN FindMostFreeInodes
     ELSE IF FreeInodes(home) = 0 THEN FindFreeInodesNear(home) ELSE home

FindMinDataUsage == FirstMax(Groups, FreeBlocks)

(* Blocks are taken one by one where a run of chunks of them is free; the  *)
(* search moves to the next group at the end of one or after the large     *)
(* file exception, and once round asks for no runs any more.               *)
RangeFree(s, size) ==
  LET run == s.index..s.index + Min({size - Len(s.allocated), s.chunks}) - 1
  IN \A i \in run : /\ i \in BlockSlots /\ data_bitmap[s.group][i] = BITMAP_FREE
                    /\ <<s.group, i>> \notin Range(s.allocated)
Considered(s, size) ==
  IF RangeFree(s, size)
    THEN [s EXCEPT !.allocated = Append(@, <<s.group, s.index>>), !.in_group = @ + 1, !.index = @ + 1]
    ELSE [s EXCEPT !.index = @ + 1]
NextGroup(s, target) ==
  LET g == (s.group + 1) % options.num_groups
  IN [s EXCEPT !.group = g, !.index = 0, !.in_group = 0, !.chunks = IF g = target THEN 1 ELSE @]
RECURSIVE Search(_, _, _)
Search(s, target, size) ==
  LET t == Considered(s, size)
  IN IF Len(t.allocated) = size THEN t.allocated
     ELSE IF t.index = options.blocks_per_group
             \/ (options.large_file_exception > 0 /\ t.in_group = options.large_file_exception)
       THEN Search(NextGroup(t, target), target, size) ELSE Search(t, target, size)
AllocateBlocks(target, size) ==
  Search([allocated |-> <<>>, index |-> 0, in_group |-> 0, group |-> target,
          chunks |-> options.contig_allocation_policy], target, size)
-----------------------------------------------------------------------------
(* do_verify, after every command. *)
Used(bitmap) == MapThenSumSet(LAMBDA g : Cardinality(DOMAIN bitmap[g] \ Free(bitmap[g])), Groups)
\* Mutant of DoVerify: the blocks are counted only.
DoVerifyCounts ==
  /\ Used(data_bitmap) + total_data_free = options.num_groups * options.blocks_per_group
  /\ Used(inode_bitmap) + total_inodes_free = options.num_groups * options.inodes_per_group
DoVerify ==
  /\ Used(data_bitmap) + total_data_free = options.num_groups * options.blocks_per_group
  /\ Used(inode_bitmap) + total_inodes_free = options.num_groups * options.inodes_per_group
  /\ \A p \in DOMAIN name_to_inode_map : \A b \in Range(inode_blocks[name_to_inode_map[p]]) :
       data_bitmap[b \div options.blocks_per_group][b % options.blocks_per_group] = name_to_inode_map[p]
Verified == phase' = IF DoVerify' THEN "running" ELSE "verify"
Aborted(error) == phase' = error /\ UNCHANGED <<bitmaps, names>>

NoName(path) == Front(path) \notin DOMAIN name_to_inode_map
Entries(path) == dir_data[name_to_inode_map[Front(path)]]
HasEntry(path) == \E e \in Entries(path) : e[1] = Last(path)
ParentIsFile(path) == ~NoName(path) /\ inode_type[name_to_inode_map[Front(path)]] # "directory"

\* Mutant of CreateFails: the last block is never given out.
CreateFailsEarly(path, size) ==
  \/ total_inodes_free = 0 \/ total_data_free <= size
  \/ NoName(path) \/ (~ParentIsFile(path) /\ HasEntry(path))
CreateFails(path, size) ==
  \/ total_inodes_free = 0 \/ total_data_free < size
  \/ NoName(path) \/ (~ParentIsFile(path) /\ HasEntry(path))

(* Of a size of 0 allocate_blocks takes blocks until it asserts that one   *)
(* in use is free.  A group without a free inode gives the inode number -1 *)
(* within the group, and the count of inodes no longer agrees.  What a     *)
(* command had changed before an exception is of no matter: nothing is     *)
(* kept.                                                                   *)
DoCreate(path, size, type) ==
  /\ ~CreateFails(path, size)
  /\ \E g \in {IF ParentIsFile(path) THEN 0 ELSE PickGroup(Front(path), type)} :
       IF ParentIsFile(path) THEN Aborted("KeyError")
       ELSE IF size = 0 THEN Aborted("size")
       ELSE IF Cardinality(DOMAIN name_to_inode_map) >= NumSymbols THEN Aborted("symbols")
       ELSE IF FreeInodes(g) = 0 THEN Aborted("verify")
       ELSE \E slot \in {Min(Free(inode_bitmap[g]))},
               allocated \in {AllocateBlocks(IF options.spread_data_blocks THEN FindMinDataUsage ELSE g, size)} :
              LET inum == slot + g * options.inodes_per_group
              IN /\ data_bitmap' = [h \in Groups |-> [i \in BlockSlots |->
                                      IF <<h, i>> \in Range(allocated) THEN inum ELSE data_bitmap[h][i]]]
                 /\ inode_bitmap' = [inode_bitmap EXCEPT ![g][slot] = inum]
                 /\ dir_data' = [dir_data EXCEPT ![name_to_inode_map[Front(path)]] = @ \cup {<<Last(path), inum>>},
                                                 ![inum] = IF type = "directory" THEN {} ELSE @]
                 /\ inode_type' = [inode_type EXCEPT ![inum] = type]
                 /\ inode_blocks' = [inode_blocks EXCEPT ![inum] =
                                       [k \in DOMAIN allocated |->
                                          allocated[k][2] + allocated[k][1] * options.blocks_per_group]]
                 /\ name_to_inode_map' = [q \in DOMAIN name_to_inode_map \cup {path} |->
                                            IF q = path THEN inum ELSE name_to_inode_map[q]]
                 /\ total_inodes_free' = total_inodes_free - 1
                 /\ total_data_free' = total_data_free - size
                 /\ Verified

Create(path, size) == DoCreate(path, size, "regular")
Mkdir(path) == DoCreate(path, 1, "directory")

(* do_delete finds the places of blocks and of the inode by dividing by the *)
(* number of groups.                                                       *)
Place(n) == <<n \div options.num_groups, n % options.num_groups>>
Cleared(bitmap, places) ==
  [g \in Groups |-> [i \in DOMAIN bitmap[g] |-> IF <<g, i>> \in places THEN BITMAP_FREE ELSE bitmap[g][i]]]
Delete(path) ==
  /\ ~NoName(path)
  /\ IF ParentIsFile(path) THEN Aborted("KeyError")
     ELSE /\ HasEntry(path)
          /\ LET inum == (CHOOSE e \in Entries(path) : e[1] = Last(path))[2]
                 blocks == {Place(b) : b \in Range(inode_blocks[inum])}
             IN /\ inode_type[inum] # "directory"
                /\ IF ~(blocks \subseteq Groups \X BlockSlots /\ Place(inum) \in Groups \X InodeSlots)
                     THEN Aborted("IndexError")
                     ELSE /\ data_bitmap' = Cleared(data_bitmap, blocks)
                          /\ inode_bitmap' = Cleared(inode_bitmap, {Place(inum)})
                          /\ dir_data' = [dir_data EXCEPT ![name_to_inode_map[Front(path)]] =
                                                            @ \ {<<Last(path), inum>>}]
                          /\ inode_type' = [inode_type EXCEPT ![inum] = ""]
                          /\ inode_blocks' = [inode_blocks EXCEPT ![inum] = <<>>]
                          /\ name_to_inode_map' = [q \in DOMAIN name_to_inode_map \ {path} |->
                                                     name_to_inode_map[q]]
                          /\ total_inodes_free' = total_inodes_free + 1
                          /\ total_data_free' = total_data_free + Len(inode_blocks[inum])
                          /\ Verified

Next ==
  /\ phase = "running" /\ UNCHANGED options
  /\ \E path \in Paths : Mkdir(path) \/ Delete(path) \/ \E size \in Sizes : Create(path, size)

Spec == Init /\ [][Next]_vars
-----------------------------------------------------------------------------
(* Bitmaps hold inodes, inodes blocks, and the counts are never negative. *)
TypeOK ==
  /\ data_bitmap \in [Groups -> [BlockSlots -> Inums \cup {BITMAP_FREE}]]
  /\ inode_bitmap \in [Groups -> [InodeSlots -> Inums \cup {BITMAP_FREE}]]
  /\ inode_type \in [Inums -> {"", "regular", "directory"}]
  /\ \A i \in Inums : Range(inode_blocks[i]) \subseteq 0..options.num_groups * options.blocks_per_group - 1
  /\ \A p \in DOMAIN name_to_inode_map : p \in Paths \cup {RootPath} /\ name_to_inode_map[p] \in Inums
  /\ total_data_free >= 0 /\ total_inodes_free >= 0
  /\ phase \in {"running", "verify", "KeyError", "IndexError", "size", "symbols"}

Image ==
  [tree |-> name_to_inode_map,
   node |-> [i \in Range(name_to_inode_map) |->
               [kind |-> IF inode_type[i] = "directory" THEN "dir" ELSE "reg",
                size |-> IF inode_type[i] = "directory" THEN 1 ELSE 0,
                data |-> [k \in {0} |-> -1]]]]
Tree == INSTANCE FileTree WITH
  Ids <- Inums, Contents <- {}, FileBlocks <- 1, DirCapacity <- Cardinality(Paths), fs <- Image

(* A command makes, or deletes, the name it says, or nothing. *)
ImplementsTree == Tree!Init /\ [][Tree!Next]_vars

Owner(g, i) == {n \in Range(name_to_inode_map) : g * options.blocks_per_group + i \in Range(inode_blocks[n])}
InodesConsistent ==
  /\ \A g \in Groups, i \in InodeSlots :
       LET n == g * options.inodes_per_group + i
       IN inode_bitmap[g][i] = IF n \in Range(name_to_inode_map) THEN n ELSE BITMAP_FREE
  /\ \A p, q \in DOMAIN name_to_inode_map : name_to_inode_map[p] = name_to_inode_map[q] => p = q
BlocksConsistent ==
  \A g \in Groups, i \in BlockSlots :
    Owner(g, i) = IF data_bitmap[g][i] = BITMAP_FREE THEN {} ELSE {data_bitmap[g][i]}
NamesConsistent ==
  \A i \in Inums :
    dir_data[i] = {<<Last(p), name_to_inode_map[p]>> : p \in {p \in DOMAIN name_to_inode_map \ {RootPath} :
                                                         name_to_inode_map[Front(p)] = i}}

(* What do_verify lets pass is a consistent file system, though it checks   *)
(* only counts and the blocks of named files: no inode or block is lost, or *)
(* held twice, and directories hold the names the map has.                  *)
Consistency == phase = "running" => InodesConsistent /\ BlocksConsistent /\ NamesConsistent

(* do_create refuses only what the tree of files, or the blocks really      *)
(* free, give a reason to refuse.                                           *)
RefusesForCause ==
  phase = "running" =>
    \A p \in Paths, size \in Sizes :
      CreateFails(p, size) => \/ ~Tree!CanCreate(Image, p)
                             \/ size > Cardinality({gi \in Groups \X BlockSlots : Owner(gi[1], gi[2]) = {}})

(* The self-check fails, or a bitmap is indexed out of its range, only where *)
(* the divisor of do_delete is wrong or groups are looked at several at a    *)
(* time (-A); symbols run out only when as many names exist.                 *)
AbortsForCause ==
  /\ phase \in {"verify", "IndexError"} =>
       \/ options.num_groups \notin {options.blocks_per_group} \cap {options.inodes_per_group}
       \/ options.allocate_faraway > 1
  /\ phase = "symbols" => Cardinality(DOMAIN name_to_inode_map) = NumSymbols
=============================================================================
