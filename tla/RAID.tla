------------------------------- MODULE RAID -------------------------------
(***************************************************************************)
(* The array of raid.py: levels 0 (striping), 1 (mirroring), 4 (a parity   *)
(* disk) and 5 (rotated parity, two layouts).  The program lists the reads *)
(* and writes every request costs; it holds no data.  The model gives each *)
(* disk block one bit, and lets the controller write a parity bit only if  *)
(* the blocks it has read determine it: otherwise the bit is arbitrary.    *)
(* A write is the worst case: it flips every block it covers.              *)
(***************************************************************************)
EXTENDS Integers, Sequences, SequencesExt, FiniteSets, FiniteSetsExt

CONSTANTS
  Arrays,       \* the command lines: records level, numDisks, chunkSize, raid5type, size, seq
  RandRange,    \* -R, the number of addresses a request may start at
  NumRequests,  \* -n
  DiskSize,     \* blocksPerDisk
  TrackSize     \* numTracks and blocksPerTrack, the same number in disk.__init__

VARIABLES
  r,         \* the options the array was made with
  contents,  \* contents[d][o]: the bit in block o of disk d
  disks,     \* per disk: currAddr and the counts of its I/Os
  todo,      \* the rest of the write at hand: begin, left, stripe
  off,       \* where the next sequential request starts
  requests   \* requests issued so far

raidVars == <<r, contents, disks, todo, off, requests>>

Nothing == [begin |-> 0, left |-> 0, stripe |-> 0]
Disks == 0 .. r.numDisks - 1
Offsets == 0 .. DiskSize - 1
blocksInStripe == (r.numDisks - 1) * r.chunkSize

\* disk.__init__: so far away that the first access is a seek.
FarAway == -100 * TrackSize
NewDisk == [currAddr |-> FarAway, countIO |-> 0, countSeq |-> 0, countNseq |-> 0,
            countRand |-> 0, utilTime |-> 0]

(***************************************************************************)
(* disk.enqueue.  Times are in tenths of a millisecond: xferTime 1,        *)
(* seekTime 100.  int() rounds towards zero.                               *)
(***************************************************************************)
Track(a) == IF a < 0 THEN -((-a) \div TrackSize) ELSE a \div TrackSize

enqueue(d, addr) ==
  LET distance == IF addr < d.currAddr THEN d.currAddr - addr ELSE addr - d.currAddr
      near == Track(d.currAddr) = Track(addr) \/ distance < TrackSize
  IN [currAddr  |-> addr,
      countIO   |-> d.countIO + 1,
      countSeq  |-> d.countSeq + (IF near /\ distance = 1 THEN 1 ELSE 0),
      countNseq |-> d.countNseq + (IF near /\ distance # 1 THEN 1 ELSE 0),
      countRand |-> d.countRand + (IF near THEN 0 ELSE 1),
      utilTime  |-> d.utilTime + (IF near THEN distance ELSE 101)]

(***************************************************************************)
(* Where a logical block lives: [disk, off], and for level 1 its mirror.   *)
(***************************************************************************)
Place(d, o) == [disk |-> d, off |-> o]

bmap0(b) ==
  LET cnum == b \div r.chunkSize IN
    Place(cnum % r.numDisks, (cnum \div r.numDisks) * r.chunkSize + (b % r.chunkSize))

bmap1(b) ==
  LET cnum == b \div r.chunkSize
      pairs == r.numDisks \div 2
  IN Place(2 * (cnum % pairs), (cnum \div pairs) * r.chunkSize + (b % r.chunkSize))

bmap4(b) ==
  LET cnum == b \div r.chunkSize IN
    Place(cnum % (r.numDisks - 1),
          (cnum \div (r.numDisks - 1)) * r.chunkSize + (b % r.chunkSize))

pmap4(s) == r.numDisks - 1

\* Mutant of pmap5: the parity rotates the other way.
pmap5Right(s) == s % r.numDisks
pmap5(s) == (r.numDisks - 1) - (s % r.numDisks)

bmap5(b) ==
  LET cnum == b \div r.chunkSize
      ddsk == cnum \div (r.numDisks - 1)
      disk == cnum % (r.numDisks - 1)
  IN Place(IF r.raid5type = "LA"
             THEN IF disk >= pmap5(ddsk) THEN disk + 1 ELSE disk
             ELSE (disk - (ddsk % r.numDisks)) % r.numDisks,
           ddsk * r.chunkSize + (b % r.chunkSize))

Mirror(p) == Place(p.disk + 1, p.off)

bmap(b) == CASE r.level = 0 -> bmap0(b)
             [] r.level = 1 -> bmap1(b)
             [] r.level = 4 -> bmap4(b)
             [] r.level = 5 -> bmap5(b)

pmap(s) == IF r.level = 4 THEN pmap4(s) ELSE pmap5(s)

(***************************************************************************)
(* Lists of I/Os, in the order they are issued.                            *)
(***************************************************************************)
Run(begin, end) == [i \in 1 .. end - begin |-> begin + i - 1]
PlacesOf(blks) == [i \in DOMAIN blks |-> bmap(blks[i])]

\* offList: the offsets in the order they are first met.
OffList(places) ==
  FoldLeft(LAMBDA seen, p : IF p.off \in ToSet(seen) THEN seen ELSE Append(seen, p.off),
           <<>>, places)

At(pdisk, offs) == [i \in DOMAIN offs |-> Place(pdisk, offs[i])]

\* doSingleRead and doSingleWrite of a list of places.
Issue(ios) ==
  disks' = FoldLeft(LAMBDA ds, p : [ds EXCEPT ![p.disk] = enqueue(@, p.off)], disks, ios)

(***************************************************************************)
(* The reads of doPartialWrite: subtractive parity when that costs no more *)
(* than reading the rest of the stripe.                                    *)
(***************************************************************************)
Subtractive(numWrites) == numWrites + 1 <= blocksInStripe - numWrites

\* Mutant of PartialReads: the old parity is not read.
PartialReadsDataOnly(stripe, begin, end) ==
  LET first == stripe * blocksInStripe
  IN PlacesOf(IF Subtractive(end - begin) THEN Run(begin, end)
              ELSE Run(first, begin) \o Run(end, first + blocksInStripe))
PartialReads(stripe, begin, end) ==
  LET places == PlacesOf(Run(begin, end))
      first == stripe * blocksInStripe
  IN IF Subtractive(end - begin)
       THEN places \o At(pmap(stripe), OffList(places))
       ELSE PlacesOf(Run(first, begin) \o Run(end, first + blocksInStripe))

PartialWrites(stripe, begin, end) ==
  LET places == PlacesOf(Run(begin, end)) IN places \o At(pmap(stripe), OffList(places))

(***************************************************************************)
(* The data behind the I/Os, external to the program.                      *)
(***************************************************************************)
Bit(p) == contents[p.disk][p.off]
Xor(places) == FoldSet(LAMBDA p, x : (x + Bit(p)) % 2, 0, places)
Row(d, o) == {Place(e, o) : e \in Disks \ {d}}

Flip(places) ==
  [d \in Disks |-> [o \in Offsets |->
     IF Place(d, o) \in places THEN 1 - contents[d][o] ELSE contents[d][o]]]

(***************************************************************************)
(* The parity bits a stripe's write leaves: computed from what was read,   *)
(* or arbitrary.  p is the parity's place, W the data blocks written.      *)
(***************************************************************************)
RowKnown(p, W, reads) == Row(p.disk, p.off) \ W \subseteq reads
DeltaKnown(p, W, reads) == (Row(p.disk, p.off) \cap W) \cup {p} \subseteq reads

ParityBits(p, W, reads) ==
  LET row == Row(p.disk, p.off)
      changed == Cardinality(row \cap W)
  IN CASE RowKnown(p, W, reads) -> {(Xor(row) + changed) % 2}
       [] ~RowKnown(p, W, reads) /\ DeltaKnown(p, W, reads) -> {(Bit(p) + changed) % 2}
       [] OTHER -> {0, 1}
-----------------------------------------------------------------------------
Init ==
  /\ r \in {a \in Arrays : ~(a.level = 1 /\ a.numDisks % 2 # 0)}
  /\ contents = [d \in Disks |-> [o \in Offsets |-> 0]]
  /\ disks = [d \in Disks |-> NewDisk]
  /\ todo = Nothing /\ off = 0 /\ requests = 0

(***************************************************************************)
(* One turn of the main loop: draw a request and enqueue it.  A write of   *)
(* level 4 or 5 goes on, one stripe at a time, in DoPartialWrite.          *)
(***************************************************************************)
Enqueue(blk, isWrite) ==
  /\ todo = Nothing /\ requests < NumRequests
  /\ r.seq => blk = off
  /\ off' = IF r.seq THEN off + r.size ELSE off
  /\ requests' = requests + 1
  /\ LET places == PlacesOf(Run(blk, blk + r.size))
         mirrors == [i \in DOMAIN places |-> Mirror(places[i])]
     IN CASE r.level = 0 ->
               /\ Issue(places)
               /\ contents' = IF isWrite THEN Flip(ToSet(places)) ELSE contents
               /\ UNCHANGED todo
          [] r.level = 1 /\ isWrite ->
               /\ Issue(FlattenSeq([i \in DOMAIN places |-> <<places[i], mirrors[i]>>]))
               /\ contents' = Flip(ToSet(places) \cup ToSet(mirrors))
               /\ UNCHANGED todo
          [] r.level = 1 /\ ~isWrite ->
               /\ Issue([i \in DOMAIN places |->
                           IF places[i].off % 2 = 0 THEN places[i] ELSE mirrors[i]])
               /\ UNCHANGED <<contents, todo>>
          [] r.level \in {4, 5} /\ ~isWrite ->
               /\ Issue(places) /\ UNCHANGED <<contents, todo>>
          [] OTHER ->
               /\ todo' = [begin |-> blk, left |-> r.size, stripe |-> blk \div blocksInStripe]
               /\ UNCHANGED <<contents, disks>>
  /\ UNCHANGED r

\* enqueue45's loop body: the part of the write that lies in this stripe.
EndInStripe ==
  Min({todo.begin + Min({todo.left, blocksInStripe}), (todo.stripe + 1) * blocksInStripe})

DoPartialWrite ==
  /\ todo.left > 0
  /\ \E end \in {EndInStripe} :
       LET reads == PartialReads(todo.stripe, todo.begin, end)
           writes == PartialWrites(todo.stripe, todo.begin, end)
           W == ToSet(PlacesOf(Run(todo.begin, end)))
           P == ToSet(writes) \ W
       IN /\ Issue(reads \o writes)
          /\ \E bits \in [P -> {0, 1}] :
               /\ \A p \in P : bits[p] \in ParityBits(p, W, ToSet(reads))
               /\ contents' = [d \in Disks |-> [o \in Offsets |->
                    IF Place(d, o) \in P THEN bits[Place(d, o)]
                    ELSE IF Place(d, o) \in W THEN 1 - contents[d][o]
                    ELSE contents[d][o]]]
          /\ todo' = IF todo.left = end - todo.begin THEN Nothing
                     ELSE [begin |-> end, left |-> todo.left - (end - todo.begin),
                           stripe |-> todo.stripe + 1]
  /\ UNCHANGED <<r, off, requests>>

Finished == todo = Nothing /\ requests = NumRequests

Next ==
  \/ \E blk \in 0 .. RandRange - 1, isWrite \in BOOLEAN : Enqueue(blk, isWrite)
  \/ DoPartialWrite

Spec == Init /\ [][Next]_raidVars
-----------------------------------------------------------------------------
TypeOK ==
  /\ r \in Arrays
  /\ contents \in [Disks -> [Offsets -> {0, 1}]]
  /\ DOMAIN disks = Disks
  /\ \A d \in Disks : disks[d].currAddr \in Offsets \cup {FarAway}
  /\ todo.left \in 0 .. r.size /\ requests \in 0 .. NumRequests

(***************************************************************************)
(* The bit a reader gets of a logical block, and the one it gets once a    *)
(* disk is lost: from the mirror, or as the parity of the other disks.     *)
(***************************************************************************)
VolumeSize == RandRange + Max({a.size : a \in Arrays}) - 1
Value(b) == Bit(bmap(b))
ValueWithout(d, b) ==
  LET p == bmap(b) IN
    IF p.disk # d THEN Bit(p)
    ELSE IF r.level = 1 THEN Bit(Mirror(p)) ELSE Xor(Row(d, p.off))

(***************************************************************************)
(* Levels 1, 4 and 5 lose no block with any one disk, after every stripe   *)
(* written: the reads the code plans always determine the parity it writes.*)
(***************************************************************************)
Recoverable ==
  r.level # 0 => \A d \in Disks, b \in 0 .. VolumeSize - 1 : ValueWithout(d, b) = Value(b)

(***************************************************************************)
(* Every I/O of a disk is counted once and as one kind; a run of I/Os to   *)
(* one disk takes the time of its seeks and moves.                         *)
(***************************************************************************)
CountsAdd ==
  \A d \in Disks :
    LET k == disks[d] IN
      /\ k.countIO = k.countSeq + k.countNseq + k.countRand
      /\ k.utilTime >= 101 * k.countRand + k.countSeq
      /\ k.countIO > 0 <=> k.countRand > 0

(***************************************************************************)
(* The array is a row of blocks: a request, or the part of it in a stripe, *)
(* changes the blocks it covers and no other.                              *)
(***************************************************************************)
blocksOf == [b \in 0 .. VolumeSize - 1 |-> Value(b)]
Volume == INSTANCE Volume WITH Size <- VolumeSize, blocks <- blocksOf
=============================================================================
