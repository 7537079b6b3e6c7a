----------------------------- MODULE MCStorage -----------------------------
(* The flash device and the disk array, each run alone. *)
EXTENDS SSD
CONSTANTS Arrays, RandRange, NumRequests, DiskSize, TrackSize   \* those of raid.py
VARIABLES package, r, contents, disks, todo, off, requests

R == INSTANCE RAID
raid == <<r, contents, disks, todo, off, requests>>

Array(level, n, chunk, layout, size, seq) ==
  [level |-> level, numDisks |-> n, chunkSize |-> chunk, raid5type |-> layout, size |-> size, seq |-> seq]
MCArrays ==
  {Array(0, 3, 2, "LS", 3, FALSE), Array(1, 4, 2, "LS", 3, FALSE), Array(1, 3, 1, "LS", 1, FALSE)}
  \cup {Array(4, n, 2, "LS", size, FALSE) : n \in {3, 4}, size \in {1, 4}}
  \cup {Array(5, n, chunk, layout, 3, FALSE) : n \in {2, 4}, chunk \in {1, 2}, layout \in {"LS", "LA"}}
  \cup {Array(5, 3, 1, layout, 2, TRUE) : layout \in {"LS", "LA"}}

MCInit ==
  /\ Init /\ R!Init
  /\ \/ package = "ssd.py" /\ r = Array(0, 3, 2, "LS", 3, FALSE)
     \/ package = "raid.py" /\ ssd_type = "log"
MCNext ==
  /\ \/ package = "ssd.py" /\ Next /\ UNCHANGED raid
     \/ package = "raid.py" /\ (R!Next \/ (R!Finished /\ UNCHANGED raid)) /\ UNCHANGED vars
  /\ UNCHANGED package
MCSpec == MCInit /\ [][MCNext]_<<vars, raid, package>>

(* raid.py's array is a row of blocks that a write changes where it says,    *)
(* and with mirrors or parity it loses none with any one of its disks: the   *)
(* reads planned before a write always determine the parity it leaves.  Each *)
(* disk counts every one of its I/Os once.                                   *)
Redundant ==
  /\ [](package = "raid.py" => R!TypeOK /\ R!Recoverable /\ R!CountsAdd)
  /\ R!Volume!Init /\ [][package = "raid.py" => R!Volume!Next \/ UNCHANGED R!blocksOf]_raid
=============================================================================
