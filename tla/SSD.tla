-------------------------------- MODULE SSD --------------------------------
(***************************************************************************)
(* The flash translation layer of ostep-homework-master/file-ssd/ssd.py.   *)
(*                                                                         *)
(* A physical page is a pair <<block, offset>>, the code's address         *)
(* block * pages_per_block + offset.  A command is one step; the upkeep    *)
(* that follows it is a sequence of steps during which no command is       *)
(* taken: one step per block the collector looks at, per live page it      *)
(* copies and per block it erases, so that what it does in between can be  *)
(* stated.  The operation counters, printed and never read, are left out.  *)
(***************************************************************************)
EXTENDS Integers, FiniteSets

CONSTANTS
  Types,            \* the ssd_types of the instance, among "direct", "log" and "ideal"
  NumLogical,       \* num_logical_pages
  NumBlocks,        \* num_blocks
  PagesPerBlock,    \* pages_per_block
  HighWater,        \* gc_high_water_mark
  LowWater,         \* gc_low_water_mark
  Data              \* page contents

ASSUME SSDAssumption ==
  /\ Types \subseteq {"direct", "log", "ideal"}
  /\ NumLogical \in Nat \ {0} /\ NumBlocks \in Nat \ {0} /\ PagesPerBlock \in Nat \ {0}
  /\ HighWater \in Nat \ {0} /\ LowWater \in Nat
  /\ Data \subseteq STRING
  \* A page's contents are neither blank nor one of the answers.
  /\ Data \cap {" ", "nothing", "none", "success", "full", "uninitialized", "illegal"} = {}
  \* The identity-mapped devices have a physical page for every logical one.
  /\ Types \subseteq {"log"} \/ NumLogical <= NumBlocks * PagesPerBlock

Logical == 0 .. NumLogical - 1
Blocks == 0 .. NumBlocks - 1
Offsets == 0 .. PagesPerBlock - 1
Pages == Blocks \X Offsets
NoPage == <<-1, -1>>
NoLogical == -1
Blank == " "

VARIABLES
  ssd_type,         \* chosen when the device is made
  state, data,      \* of every physical page
  current_page,     \* the log's write cursor, NoPage when a block must be opened
  current_block,    \* the block the log writes to
  used,             \* gc_used_blocks
  forward_map,      \* logical page -> physical page
  reverse_map,      \* physical page -> logical page last written there
  gc_current_block, \* where the collector's scan starts
  pc,               \* "cmd", "upkeep", "scan" or "copy"
  scanned,          \* blocks the running scan has finished with
  live,             \* offsets still to be copied out of the block at hand
  out,              \* the answer to the command, until it has been printed
  dropped           \* history: some copy of a live page was refused

flash == <<state, data>>
cursor == <<current_page, current_block, used>>
maps == <<forward_map, reverse_map>>
gc == <<gc_current_block, scanned, live>>
vars == <<ssd_type, flash, cursor, maps, gc, pc, out, dropped>>

Init ==
  /\ ssd_type \in Types
  /\ state = [p \in Pages |-> "INVALID"]
  /\ data = [p \in Pages |-> Blank]
  /\ current_page = NoPage /\ current_block = 0 /\ used = {}
  /\ forward_map = [l \in Logical |-> NoPage]
  /\ reverse_map = [p \in Pages |-> NoLogical]
  /\ gc_current_block = 0 /\ scanned = 0 /\ live = {}
  /\ pc = "cmd" /\ out = "none" /\ dropped = FALSE

(***************************************************************************)
(* Writing.                                                                *)
(***************************************************************************)
First(b) == <<b, 0>>

\* physical_erase of the blocks in E, then physical_program of page p.
EraseThenProgram(E, p, d) ==
  /\ state' = [q \in Pages |-> IF q = p THEN "VALID" ELSE IF q[1] \in E THEN "ERASED" ELSE state[q]]
  /\ data' = [q \in Pages |-> IF q = p THEN d ELSE IF q[1] \in E THEN Blank ELSE data[q]]

MapTo(l, p) ==
  /\ forward_map' = [forward_map EXCEPT ![l] = p]
  /\ reverse_map' = [reverse_map EXCEPT ![p] = l]

\* is_block_free, as a test.
FreeBlocks == {b \in Blocks : state[First(b)] \in {"INVALID", "ERASED"}}

\* get_cursor looks at the blocks from current_block on, then at those before.
Distance(b) == IF b >= current_block THEN b - current_block ELSE b - current_block + NumBlocks

DeviceFull == current_page = NoPage /\ FreeBlocks = {}

\* Mutant of After: the end of the block is not noticed.
AfterUnbounded(p) == <<p[1], p[2] + 1>>

\* update_cursor
After(p) == IF p[2] + 1 = PagesPerBlock THEN NoPage ELSE <<p[1], p[2] + 1>>

\* get_cursor with a cursor.
WriteAtCursor(l, d) ==
  /\ current_page # NoPage
  /\ EraseThenProgram({}, current_page, d)
  /\ MapTo(l, current_page)
  /\ current_page' = After(current_page)
  /\ UNCHANGED <<current_block, used>>

\* Mutant of WriteInNewBlock: a block never erased is written to as it is.
WriteInUnerasedBlock(l, d) ==
  /\ current_page = NoPage
  /\ \E b \in FreeBlocks :
       /\ \A c \in FreeBlocks : Distance(b) <= Distance(c)
       /\ EraseThenProgram({}, First(b), d)
       /\ MapTo(l, First(b))
       /\ current_block' = b
       /\ used' = used \cup {b}
       /\ current_page' = After(First(b))

\* get_cursor without one opens a block; is_block_free erases it first if it
\* has never been erased.
WriteInNewBlock(l, d) ==
  /\ current_page = NoPage
  /\ \E b \in FreeBlocks :
       /\ \A c \in FreeBlocks : Distance(b) <= Distance(c)
       /\ EraseThenProgram(IF state[First(b)] = "INVALID" THEN {b} ELSE {}, First(b), d)
       /\ MapTo(l, First(b))
       /\ current_block' = b
       /\ used' = used \cup {b}
       /\ current_page' = After(First(b))

\* write_logging, when it succeeds.
WriteLogging(l, d) == WriteAtCursor(l, d) \/ WriteInNewBlock(l, d)

\* The physical page of the same address.
Identity(l) == <<l \div PagesPerBlock, l % PagesPerBlock>>

\* write_direct: the block's valid pages are read, the block is erased, the
\* others are programmed back and the new page is programmed.
WriteDirect(l, d) ==
  LET p == Identity(l)
      inBlock(q) == q[1] = p[1]
  IN  /\ state' = [q \in Pages |-> IF q = p THEN "VALID"
                                  ELSE IF inBlock(q) /\ state[q] # "VALID" THEN "ERASED" ELSE state[q]]
      /\ data' = [q \in Pages |-> IF q = p THEN d
                                 ELSE IF inBlock(q) /\ state[q] # "VALID" THEN Blank ELSE data[q]]
      /\ MapTo(l, p)
      /\ used' = used \ {p[1]}
      /\ UNCHANGED <<current_page, current_block>>

\* write_ideal: programmed in place.
WriteIdeal(l, d) ==
  /\ EraseThenProgram({}, Identity(l), d)
  /\ MapTo(l, Identity(l))
  /\ UNCHANGED cursor

(***************************************************************************)
(* Commands.  Each is followed by upkeep, the failed ones too.             *)
(***************************************************************************)
Refuse(answer) ==
  /\ out' = answer
  /\ UNCHANGED <<flash, cursor, maps>>

Answered == pc = "cmd" /\ pc' = "upkeep" /\ UNCHANGED <<ssd_type, gc, dropped>>

Write(l, d) ==
  /\ Answered
  /\ \/ ssd_type = "direct" /\ WriteDirect(l, d) /\ out' = "success"
     \/ ssd_type = "ideal" /\ WriteIdeal(l, d) /\ out' = "success"
     \/ ssd_type = "log" /\ ~DeviceFull /\ WriteLogging(l, d) /\ out' = "success"
     \/ ssd_type = "log" /\ DeviceFull /\ Refuse("full")

Trim(l) ==
  /\ Answered
  /\ \/ forward_map[l] = NoPage /\ Refuse("uninitialized")
     \/ /\ forward_map[l] # NoPage
        /\ forward_map' = [forward_map EXCEPT ![l] = NoPage]
        /\ out' = "success"
        /\ UNCHANGED <<flash, cursor, reverse_map>>

Read(l) ==
  /\ Answered
  /\ out' = IF forward_map[l] = NoPage THEN "uninitialized" ELSE data[forward_map[l]]
  /\ UNCHANGED <<flash, cursor, maps>>

\* Any command on an address outside the device.
Illegal == Answered /\ Refuse("illegal")

(***************************************************************************)
(* upkeep and garbage_collect.                                             *)
(***************************************************************************)
\* Mutant of Upkeep: the collector runs only when a block is full.
UpkeepWhenBlockFull ==
  /\ pc = "upkeep"
  /\ pc' = IF Cardinality(used) >= HighWater /\ current_page = NoPage THEN "scan" ELSE "cmd"
  /\ scanned' = 0 /\ out' = "none"
  /\ UNCHANGED <<ssd_type, flash, cursor, maps, gc_current_block, live, dropped>>

\* upkeep: the collector starts when enough blocks are in use.
Upkeep ==
  /\ pc = "upkeep"
  /\ pc' = IF Cardinality(used) >= HighWater THEN "scan" ELSE "cmd"
  /\ scanned' = 0 /\ out' = "none"
  /\ UNCHANGED <<ssd_type, flash, cursor, maps, gc_current_block, live, dropped>>

\* The block the scan looks at: from gc_current_block on, then from 0.
ScanBlock ==
  LET b == gc_current_block + scanned IN IF b < NumBlocks THEN b ELSE b - NumBlocks

IsLive(p) == reverse_map[p] # NoLogical /\ forward_map[reverse_map[p]] = p

LiveIn(b) == {i \in Offsets : IsLive(<<b, i>>)}

\* Mutants of Skipped: blocks with a live page are left alone; the block
\* being written to is collected too.
SkippedIfLive(b) ==
  b = current_block \/ state[First(b)] = "ERASED" \/ LiveIn(b) # {}

SkippedNotCurrent(b) == state[First(b)] = "ERASED" \/ LiveIn(b) = Offsets

\* The block being written to, erased blocks and blocks with only live pages
\* are left alone.
Skipped(b) ==
  b = current_block \/ state[First(b)] = "ERASED" \/ LiveIn(b) = Offsets

Scan ==
  /\ pc = "scan" /\ scanned < NumBlocks
  /\ \/ /\ Skipped(ScanBlock)
        /\ scanned' = scanned + 1
        /\ UNCHANGED <<live, pc>>
     \/ /\ ~Skipped(ScanBlock)
        /\ live' = LiveIn(ScanBlock)
        /\ pc' = "copy"
        /\ UNCHANGED scanned
  /\ UNCHANGED <<ssd_type, flash, cursor, maps, gc_current_block, out, dropped>>

\* The scan ends without having reached the low water mark.
ScanEnds ==
  /\ pc = "scan" /\ scanned = NumBlocks
  /\ pc' = "cmd"
  /\ UNCHANGED <<ssd_type, flash, cursor, maps, gc, out, dropped>>

\* Mutant of CopyPage: the page is read back after its block is erased.
CopyErased(p) ==
  ~DeviceFull /\ WriteLogging(reverse_map[p], Blank) /\ UNCHANGED dropped

\* self.write(self.reverse_map[page], data), whose answer nobody looks at.  The
\* collector runs on a log only: the other types never have a block in use.
CopyPage(p) ==
  \/ ~DeviceFull /\ WriteLogging(reverse_map[p], data[p]) /\ UNCHANGED dropped
  \/ DeviceFull /\ dropped' = TRUE /\ UNCHANGED <<flash, cursor, maps>>

Copy ==
  /\ pc = "copy"
  /\ \E i \in live :
       /\ \A j \in live : i <= j
       /\ CopyPage(<<ScanBlock, i>>)
       /\ live' = live \ {i}
  /\ UNCHANGED <<ssd_type, gc_current_block, scanned, pc, out>>

\* Mutant of Erase: the scan starts over.
EraseThenRescan ==
  /\ pc = "copy" /\ live = {}
  /\ state' = [q \in Pages |-> IF q[1] = ScanBlock THEN "ERASED" ELSE state[q]]
  /\ data' = [q \in Pages |-> IF q[1] = ScanBlock THEN Blank ELSE data[q]]
  /\ used' = used \ {ScanBlock}
  /\ gc_current_block' = ScanBlock
  /\ pc' = IF Cardinality(used') <= LowWater THEN "cmd" ELSE "scan"
  /\ scanned' = 0
  /\ UNCHANGED <<ssd_type, current_page, current_block, maps, live, out, dropped>>

\* The block is erased; the collector stops at the low water mark.
Erase ==
  /\ pc = "copy" /\ live = {}
  /\ state' = [q \in Pages |-> IF q[1] = ScanBlock THEN "ERASED" ELSE state[q]]
  /\ data' = [q \in Pages |-> IF q[1] = ScanBlock THEN Blank ELSE data[q]]
  /\ used' = used \ {ScanBlock}
  /\ IF Cardinality(used') <= LowWater
       THEN gc_current_block' = ScanBlock /\ pc' = "cmd" /\ UNCHANGED scanned
       ELSE scanned' = scanned + 1 /\ pc' = "scan" /\ UNCHANGED gc_current_block
  /\ UNCHANGED <<ssd_type, current_page, current_block, maps, live, out, dropped>>

Next ==
  \/ \E l \in Logical : Trim(l) \/ Read(l) \/ \E d \in Data : Write(l, d)
  \/ Illegal
  \/ Upkeep \/ Scan \/ ScanEnds \/ Copy \/ Erase

Spec == Init /\ [][Next]_vars
-----------------------------------------------------------------------------
TypeOK ==
  /\ ssd_type \in Types
  /\ state \in [Pages -> {"INVALID", "ERASED", "VALID"}]
  /\ data \in [Pages -> Data \cup {Blank}]
  /\ current_page \in Pages \cup {NoPage}
  /\ current_block \in Blocks /\ gc_current_block \in Blocks
  /\ used \subseteq Blocks
  /\ forward_map \in [Logical -> Pages \cup {NoPage}]
  /\ reverse_map \in [Pages -> Logical \cup {NoLogical}]
  /\ pc \in {"cmd", "upkeep", "scan", "copy"}
  /\ scanned \in 0 .. NumBlocks
  /\ live \subseteq Offsets
  /\ dropped \in BOOLEAN

CursorErased == current_page # NoPage => state[current_page] = "ERASED"
PageOfItsOwn(l) == reverse_map[forward_map[l]] = l /\ state[forward_map[l]] = "VALID"
\* Whatever the collector erased or copied since a block was opened, the page
\* under the cursor is erased (write_logging's assertion), and every mapped
\* logical page has a valid physical page that no other logical page is mapped
\* to: none is left pointing into an erased block.
MapsConsistent ==
  CursorErased /\ \A l \in Logical : forward_map[l] # NoPage => PageOfItsOwn(l)

\* There is always room: no write is refused, and the collector never has to
\* copy a live page to a full device.
NeverFull == out # "full" /\ ~dropped

\* What the running upkeep has still to do: blocks to look at, and in the block
\* at hand pages to copy and the erasure.
Remaining ==
  (NumBlocks - scanned) * (PagesPerBlock + 2) +
  CASE pc = "copy" -> Cardinality(live) - PagesPerBlock - 1
    [] pc = "upkeep" -> (scanned + 1) * (PagesPerBlock + 2)
    [] OTHER -> 0

\* Every step between a command and the next brings the end of upkeep nearer, so
\* the collector ends although it moves pages into blocks it has yet to look at.
UpkeepProgress ==
  [][pc # "cmd" /\ pc' # "cmd" => Remaining' < Remaining]_vars

\* The contents of the logical pages, seen through the maps.
storeOf ==
  [l \in Logical |-> IF forward_map[l] = NoPage THEN "nothing" ELSE data[forward_map[l]]]

Store == INSTANCE SSDStore WITH store <- storeOf

\* The device is the array of logical pages that SSDStore specifies: reads
\* return the last write, and garbage collection changes nothing the host sees.
ImplementsStore == Store!SSpec
=============================================================================
