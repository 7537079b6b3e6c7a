------------------------------ MODULE MCFiles -------------------------------
(* The log-structured, the very simple and the fast file system, each run  *)
(* alone, over the same paths.                                              *)
EXTENDS MCLFS
CONSTANTS numInodes, numData, maxUsed, VContents,   \* those of vsfs.py
          FOptions, FSizes, NumSymbols              \* those of ffs.py
VARIABLES package, ibitmap, inodes, dbitmap, data, files, dirs, nameToInum, program, phase, corruption,
          f_options, data_bitmap, inode_bitmap, total_data_free, total_inodes_free,
          dir_data, inode_type, inode_blocks, name_to_inode_map, f_phase

V == INSTANCE VSFS WITH Contents <- VContents
F == INSTANCE FFS WITH Options <- FOptions, Sizes <- FSizes, options <- f_options, phase <- f_phase

(* ffs.py with groups as the default has them, and as do_delete needs them, *)
(* each policy on and off, two at a time.                                   *)
Geometry(n, b) == [num_groups |-> n, inodes_per_group |-> n, blocks_per_group |-> b]
Policy(large, spread, contig, blocks, away) ==
  [large_file_exception |-> large, spread_inodes |-> spread, contig_allocation_policy |-> contig,
   spread_data_blocks |-> blocks, allocate_faraway |-> away]
MCFOptions ==
  {g @@ p : g \in {Geometry(2, 2), Geometry(2, 3), Geometry(3, 3)},
            p \in {Policy(0, FALSE, 1, FALSE, 1), Policy(1, FALSE, 2, FALSE, 2),
                   Policy(0, TRUE, 2, TRUE, 1), Policy(1, TRUE, 1, FALSE, 2)}}

vvars == <<ibitmap, inodes, dbitmap, data, files, dirs, nameToInum, program, phase, corruption>>
fvars == <<f_options, data_bitmap, inode_bitmap, total_data_free, total_inodes_free,
           dir_data, inode_type, inode_blocks, name_to_inode_map, f_phase>>
OneOf(S) == CHOOSE x \in S : TRUE
MCInit ==
  /\ Init /\ V!Init /\ F!Init
  /\ \/ package = "lfs.py" /\ program = "vsfs" /\ f_options = OneOf(FOptions)
     \/ package = "vsfs.py" /\ options = OneOf(Options) /\ f_options = OneOf(FOptions)
     \/ package = "ffs.py" /\ options = OneOf(Options) /\ program = "vsfs"
MCNext ==
  /\ \/ package = "lfs.py" /\ Next /\ UNCHANGED <<vvars, fvars>>
     \/ package = "vsfs.py" /\ V!Next /\ UNCHANGED <<vars, fvars>>
     \/ package = "ffs.py" /\ F!Next /\ UNCHANGED <<vars, vvars>>
  /\ UNCHANGED package
MCSpec == MCInit /\ [][MCNext]_<<vars, vvars, fvars, package>>

(* A property of one package says nothing while another runs: nothing of    *)
(* its own state then changes.                                              *)
Lfs(P) == package = "lfs.py" => P
Vsfs(P) == package = "vsfs.py" => P
Ffs(P) == package = "ffs.py" => P

(* The three disks and what is kept beside them in memory are well typed. *)
DisksTypeOK == Lfs(TypeOK) /\ Vsfs(V!TypeOK) /\ Ffs(F!TypeOK)
(* None of lfs.py, vsfs.py and ffs.py refuses a command or a request that   *)
(* the tree of files, or the blocks really free, give no reason to refuse;  *)
(* and ffs.py stops at its self-check only for its known causes.            *)
RefuseForCause ==
  /\ Lfs(RefusesForCause)
  /\ Vsfs(V!RefusesForCause)
  /\ Ffs(F!RefusesForCause /\ F!AbortsForCause)
(* lfs.py's reference counts are the numbers of names, and its inode map    *)
(* holds exactly the inodes a name leads to; vsfs.py's bitmaps, inodes,     *)
(* blocks and counts agree, and its driver's lists name what the disk       *)
(* holds; what ffs.py's self-check lets pass loses or shares no inode and   *)
(* no block.                                                                *)
DisksConsistent ==
  /\ Lfs(RefsMatch /\ NoOrphans)
  /\ Vsfs(V!Consistency /\ V!NamesAgree)
  /\ Ffs(F!Consistency)
(* What the checkpoint region of lfs.py leads to is the tree as of its last *)
(* write, and stays so until the next.                                      *)
CheckpointKept ==
  [](Lfs(CheckpointReachesAll)) /\ [][Lfs(CheckpointKeptByStep)]_vars
(* Every damage fsck.py does but a changed name can be found on the disk.   *)
DamageShows == Vsfs(V!DamageShows)
(* All implement the tree of files: a command or a request does to it what  *)
(* it says, or nothing.                                                     *)
ImplementTree ==
  /\ Tree!Init /\ [][Lfs(Tree!Next)]_vars
  /\ V!Tree!Init /\ [][Vsfs(phase' # "damaged" => V!Tree!Next)]_vvars
  /\ F!Tree!Init /\ [][Ffs(F!Tree!Next)]_fvars
=============================================================================
