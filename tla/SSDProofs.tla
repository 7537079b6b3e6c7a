----------------------------- MODULE SSDProofs -----------------------------
(***************************************************************************)
(* Proofs about SSD, for devices of any geometry, any water marks and any  *)
(* page contents.                                                          *)
(***************************************************************************)
EXTENDS SSD, TLAPS, FiniteSetTheorems

\* The sizes and the water marks are numbers.
LEMMA Sizes ==
  /\ NumLogical \in Nat \ {0} /\ NumBlocks \in Nat \ {0} /\ PagesPerBlock \in Nat \ {0}
  /\ HighWater \in Nat \ {0} /\ LowWater \in Nat
BY SSDAssumption, Zenon

\* Pages are pairs, the first of a block is one, and the cursor moves on to
\* the next page of the block or to none.
LEMMA PageFacts ==
  /\ \A p \in Pages : p[1] \in Blocks /\ p[2] \in Offsets /\ p = <<p[1], p[2]>>
  /\ \A b \in Blocks, i \in Offsets : <<b, i>> \in Pages
  /\ 0 \in Offsets /\ 0 \in Blocks
  /\ \A b \in Blocks : First(b) \in Pages
  /\ NoPage \notin Pages
  /\ \A p \in Pages : After(p) \in Pages \cup {NoPage}
<1>1. \A p \in Pages : p[1] \in Blocks /\ p[2] \in Offsets /\ p = <<p[1], p[2]>> BY DEF Pages
<1>2. \A b \in Blocks, i \in Offsets : <<b, i>> \in Pages BY DEF Pages
<1>3. 0 \in Offsets /\ 0 \in Blocks BY Sizes DEF Offsets, Blocks
<1>4. \A b \in Blocks : First(b) \in Pages BY <1>2, <1>3 DEF First
<1>5. NoPage \notin Pages BY <1>1 DEF NoPage, Blocks
<1>6. ASSUME NEW p \in Pages PROVE After(p) \in Pages \cup {NoPage}
  <2>1. CASE p[2] + 1 = PagesPerBlock BY <2>1 DEF After
  <2>2. CASE p[2] + 1 # PagesPerBlock
    <3>1. p[1] \in Blocks /\ p[2] + 1 \in Offsets BY <1>1, <2>2, Sizes DEF Offsets
    <3> QED BY <1>2, <2>2, <3>1 DEF After
  <2> QED BY <2>1, <2>2
<1> QED BY <1>1, <1>2, <1>3, <1>4, <1>5, <1>6

\* The identity gives every logical page of the direct and the ideal device a
\* physical page of its own.
LEMMA IdentityPage ==
  ASSUME ~(Types \subseteq {"log"}), NEW l \in Logical
  PROVE  /\ Identity(l) \in Pages
         /\ \A k \in Logical : Identity(k) = Identity(l) => k = l
<1>1. NumLogical <= NumBlocks * PagesPerBlock BY SSDAssumption, Zenon
<1>2. ASSUME NEW k \in Logical
      PROVE  /\ k \div PagesPerBlock \in Nat /\ k % PagesPerBlock \in Offsets
             /\ k = PagesPerBlock * (k \div PagesPerBlock) + (k % PagesPerBlock)
             /\ k \div PagesPerBlock < NumBlocks
  <2>1. k \in Nat /\ k < NumLogical BY Sizes DEF Logical
  <2>2. k \div PagesPerBlock \in Nat BY <2>1, Sizes
  <2>3. k % PagesPerBlock \in 0 .. PagesPerBlock - 1 BY <2>1, Sizes
  <2>4. k = PagesPerBlock * (k \div PagesPerBlock) + (k % PagesPerBlock) BY <2>1, Sizes
  <2> DEFINE q == k \div PagesPerBlock
             r == k % PagesPerBlock
  <2>5. NumBlocks * PagesPerBlock \in Int BY Sizes
  <2>6. k < NumBlocks * PagesPerBlock BY <1>1, <2>1, <2>5, Sizes
  <2>7. q \in Nat /\ r \in Nat /\ PagesPerBlock * q + r < NumBlocks * PagesPerBlock
    BY <2>2, <2>3, <2>4, <2>6
  <2> HIDE DEF q, r
  <2>8. q < NumBlocks BY <2>7, Sizes
  <2> QED BY <2>2, <2>3, <2>4, <2>8 DEF q, Offsets
<1>3. Identity(l) \in Pages BY <1>2, PageFacts, Sizes DEF Identity, Blocks
<1>4. ASSUME NEW k \in Logical, Identity(k) = Identity(l) PROVE k = l
  <2>1. k \div PagesPerBlock = l \div PagesPerBlock /\ k % PagesPerBlock = l % PagesPerBlock
    BY <1>4 DEF Identity
  <2> QED BY <1>2, <2>1
<1> QED BY <1>3, <1>4

-----------------------------------------------------------------------------
\* What the flash of a log looks like to write_logging: a block whose first page
\* has not been programmed has none that has; the pages from the cursor to the
\* end of the block it is in are erased; a block is in use from its opening to
\* its erasure; and pages never written have no owner.
BlocksUniform ==
  \A b \in Blocks : state[First(b)] # "VALID" => \A i \in Offsets : state[<<b, i>>] = state[First(b)]
CursorAhead ==
  current_page # NoPage =>
    /\ current_page[1] = current_block
    /\ state[First(current_block)] = "VALID"
    /\ \A i \in Offsets : i >= current_page[2] => state[<<current_block, i>>] = "ERASED"
UsedAreOpened == \A b \in Blocks : b \in used <=> state[First(b)] = "VALID"
UnwrittenUnowned == \A p \in Pages : state[p] = "INVALID" => reverse_map[p] = NoLogical

LogInv == BlocksUniform /\ CursorAhead /\ UsedAreOpened /\ UnwrittenUnowned

\* The identity-mapped devices never have a block in use, so nothing is ever
\* collected there.
InPlaceInv ==
  /\ used = {} /\ current_page = NoPage /\ pc \in {"cmd", "upkeep"}
  /\ \A l \in Logical : forward_map[l] \in {NoPage, Identity(l)}

\* The block that is being collected is not the one being written to, and has
\* been written if it has pages to copy.
CopyInv ==
  pc = "copy" => /\ ssd_type = "log" /\ scanned < NumBlocks
                 /\ ScanBlock # current_block
                 /\ live # {} => state[First(ScanBlock)] = "VALID"

FlashInv == /\ TypeOK /\ CopyInv
            /\ ssd_type = "log" => LogInv
            /\ ssd_type # "log" => InPlaceInv

\* Where a successful write_logging puts the page: under the cursor, or at the
\* start of a block that is not in use, which is then erased behind it.
LEMMA LogPlace ==
  ASSUME TypeOK, LogInv, NEW l, NEW d, WriteLogging(l, d)
  PROVE  \/ /\ current_page \in Pages /\ MapTo(l, current_page)
            /\ current_block' = current_block /\ used' = used /\ current_page' = After(current_page)
            /\ state' = [q \in Pages |-> IF q = current_page THEN "VALID" ELSE state[q]]
            /\ data' = [q \in Pages |-> IF q = current_page THEN d ELSE data[q]]
         \/ \E b \in Blocks \ used :
            /\ current_page = NoPage /\ MapTo(l, First(b))
            /\ current_block' = b /\ used' = used \cup {b} /\ current_page' = After(First(b))
            /\ state' = [q \in Pages |-> IF q = First(b) THEN "VALID"
                                        ELSE IF q[1] = b THEN "ERASED" ELSE state[q]]
            /\ \/ data' = [q \in Pages |-> IF q = First(b) THEN d ELSE data[q]]
               \/ data' = [q \in Pages |-> IF q = First(b) THEN d
                                          ELSE IF q[1] = b THEN Blank ELSE data[q]]
<1> USE PageFacts DEF TypeOK
<1>1. CASE WriteAtCursor(l, d)
  <2>1. current_page \in Pages BY <1>1 DEF WriteAtCursor
  <2>2. EraseThenProgram({}, current_page, d) BY <1>1 DEF WriteAtCursor
  <2>3. /\ state' = [q \in Pages |-> IF q = current_page THEN "VALID" ELSE state[q]]
        /\ data' = [q \in Pages |-> IF q = current_page THEN d ELSE data[q]]
    BY <2>2 DEF EraseThenProgram
  <2> QED BY <1>1, <2>1, <2>3 DEF WriteAtCursor
<1>2. CASE WriteInNewBlock(l, d)
  <2>1. PICK b \in FreeBlocks :
          /\ EraseThenProgram(IF state[First(b)] = "INVALID" THEN {b} ELSE {}, First(b), d)
          /\ MapTo(l, First(b))
          /\ current_block' = b
          /\ used' = used \cup {b}
          /\ current_page' = After(First(b))
    BY <1>2 DEF WriteInNewBlock
  <2> DEFINE p == First(b)
  <2>2. b \in Blocks \ used /\ p \in Pages /\ p[1] = b /\ state[p] # "VALID"
    BY DEF FreeBlocks, First, LogInv, UsedAreOpened
  <2>3. \A q \in Pages : q[1] = b => state[q] = state[p] BY <2>2 DEF LogInv, BlocksUniform
  <2>4. CASE state[p] = "INVALID"
    <3>1. /\ state' = [q \in Pages |-> IF q = p THEN "VALID" ELSE IF q[1] = b THEN "ERASED" ELSE state[q]]
          /\ data' = [q \in Pages |-> IF q = p THEN d ELSE IF q[1] = b THEN Blank ELSE data[q]]
      BY <2>1, <2>4 DEF EraseThenProgram
    <3> QED BY <1>2, <2>1, <2>2, <3>1 DEF WriteInNewBlock
  <2>5. CASE state[p] # "INVALID"
    <3>1. state[p] = "ERASED" BY <2>2, <2>5
    <3>2. /\ state' = [q \in Pages |-> IF q = p THEN "VALID" ELSE state[q]]
          /\ data' = [q \in Pages |-> IF q = p THEN d ELSE data[q]]
      BY <2>1, <2>5 DEF EraseThenProgram
    <3>3. state' = [q \in Pages |-> IF q = p THEN "VALID" ELSE IF q[1] = b THEN "ERASED" ELSE state[q]]
      BY <2>3, <3>1, <3>2
    <3> QED BY <1>2, <2>1, <2>2, <3>2, <3>3 DEF WriteInNewBlock
  <2> QED BY <2>4, <2>5
<1> QED BY <1>1, <1>2 DEF WriteLogging

\* A successful write_logging programs one page p that was not valid, in the
\* block it leaves as the current one, makes no other page valid, takes no valid
\* page away, and keeps the log as it should be.
LEMMA LogWrite ==
  ASSUME TypeOK, LogInv, NEW l \in Logical \cup {NoLogical}, NEW d \in Data \cup {Blank}, WriteLogging(l, d)
  PROVE  \E p \in Pages :
    /\ state[p] # "VALID" /\ state'[p] = "VALID" /\ data'[p] = d
    /\ MapTo(l, p)
    /\ p[1] = current_block' /\ current_block' \in Blocks
    /\ \A q \in Pages : state[q] = "VALID" => state'[q] = "VALID" /\ data'[q] = data[q]
    /\ \A q \in Pages \ {p} : state'[q] = "VALID" => state[q] = "VALID"
    /\ current_block' = current_block \/ state[First(current_block')] # "VALID"
    /\ state' \in [Pages -> {"INVALID", "ERASED", "VALID"}]
    /\ data' \in [Pages -> Data \cup {Blank}]
    /\ current_page' \in Pages \cup {NoPage}
    /\ used' \subseteq Blocks
    /\ LogInv'
<1> USE PageFacts DEF TypeOK
<1> DEFINE Written ==
  \E p \in Pages :
    /\ state[p] # "VALID" /\ state'[p] = "VALID" /\ data'[p] = d
    /\ MapTo(l, p)
    /\ p[1] = current_block' /\ current_block' \in Blocks
    /\ \A q \in Pages : state[q] = "VALID" => state'[q] = "VALID" /\ data'[q] = data[q]
    /\ \A q \in Pages \ {p} : state'[q] = "VALID" => state[q] = "VALID"
    /\ current_block' = current_block \/ state[First(current_block')] # "VALID"
    /\ state' \in [Pages -> {"INVALID", "ERASED", "VALID"}]
    /\ data' \in [Pages -> Data \cup {Blank}]
    /\ current_page' \in Pages \cup {NoPage}
    /\ used' \subseteq Blocks
    /\ LogInv'
<1> SUFFICES Written OBVIOUS
<1>1. CASE /\ current_page \in Pages /\ MapTo(l, current_page)
           /\ current_block' = current_block /\ used' = used /\ current_page' = After(current_page)
           /\ state' = [q \in Pages |-> IF q = current_page THEN "VALID" ELSE state[q]]
           /\ data' = [q \in Pages |-> IF q = current_page THEN d ELSE data[q]]
  <2> DEFINE p == current_page
  <2>1. p \in Pages /\ p # NoPage BY <1>1
  <2>2. p[1] = current_block /\ state[p] = "ERASED" /\ state[First(current_block)] = "VALID"
    BY <2>1, Sizes DEF LogInv, CursorAhead, Offsets
  <2>5. \A b \in Blocks : state'[First(b)] = state[First(b)]
    BY <1>1, <2>2 DEF First
  <2>6. BlocksUniform' BY <1>1, <2>2, <2>5 DEF LogInv, BlocksUniform
  <2>7. CursorAhead'
    <3> SUFFICES ASSUME After(p) # NoPage
                 PROVE  /\ After(p)[1] = current_block
                        /\ \A i \in Offsets : i >= After(p)[2] => state'[<<current_block, i>>] = "ERASED"
      BY <1>1, <2>2, <2>5 DEF CursorAhead
    <3>1. After(p) = <<p[1], p[2] + 1>> BY DEF After
    <3>2. \A i \in Offsets : i >= p[2] + 1 => i >= p[2] /\ i # p[2] BY <2>1, Sizes DEF Offsets
    <3>3. \A i \in Offsets : i >= p[2] => state[<<current_block, i>>] = "ERASED"
      BY <2>1 DEF LogInv, CursorAhead
    <3>4. \A i \in Offsets : i # p[2] => <<current_block, i>> # p BY <2>1
    <3> QED BY <1>1, <2>2, <3>1, <3>2, <3>3, <3>4
  <2>8. UsedAreOpened' BY <1>1, <2>5 DEF LogInv, UsedAreOpened
  <2>9. UnwrittenUnowned' BY <1>1 DEF LogInv, UnwrittenUnowned, MapTo
  <2>10. LogInv' BY <2>6, <2>7, <2>8, <2>9 DEF LogInv
  <2> QED BY <1>1, <2>1, <2>2, <2>10
<1>2. ASSUME NEW b \in Blocks \ used,
             current_page = NoPage, MapTo(l, First(b)),
             current_block' = b, used' = used \cup {b}, current_page' = After(First(b)),
             state' = [q \in Pages |-> IF q = First(b) THEN "VALID"
                                      ELSE IF q[1] = b THEN "ERASED" ELSE state[q]],
             \/ data' = [q \in Pages |-> IF q = First(b) THEN d ELSE data[q]]
             \/ data' = [q \in Pages |-> IF q = First(b) THEN d
                                        ELSE IF q[1] = b THEN Blank ELSE data[q]]
      PROVE  Written
  <2> DEFINE p == First(b)
  <2>2. p \in Pages /\ p[1] = b /\ p[2] = 0 /\ state[p] # "VALID"
    BY DEF First, LogInv, UsedAreOpened
  <2>3. \A q \in Pages : state[q] = "VALID" => q[1] # b BY <2>2 DEF LogInv, BlocksUniform
  <2>5. /\ data' \in [Pages -> Data \cup {Blank}] /\ data'[p] = d
        /\ \A q \in Pages : q[1] # b => data'[q] = data[q]
    <3>1. CASE data' = [q \in Pages |-> IF q = p THEN d ELSE data[q]] BY <2>2, <3>1
    <3>2. CASE data' = [q \in Pages |-> IF q = p THEN d ELSE IF q[1] = b THEN Blank ELSE data[q]]
      BY <2>2, <3>2
    <3> QED BY <1>2, <3>1, <3>2
  <2>7. \A c \in Blocks : state'[First(c)] = IF c = b THEN "VALID" ELSE state[First(c)]
    BY <1>2, <2>2 DEF First
  <2>8. BlocksUniform'
    <3> SUFFICES ASSUME NEW c \in Blocks, state'[First(c)] # "VALID", NEW i \in Offsets
                 PROVE  state'[<<c, i>>] = state'[First(c)]
      BY DEF BlocksUniform
    <3>1. c # b BY <2>7
    <3>2. <<c, i>> # p /\ <<c, i>>[1] = c BY <2>2, <3>1
    <3>3. state'[<<c, i>>] = state[<<c, i>>] BY <1>2, <3>1, <3>2
    <3>4. state'[First(c)] = state[First(c)] BY <2>7, <3>1
    <3> QED BY <3>3, <3>4 DEF LogInv, BlocksUniform
  <2>9. CursorAhead'
    <3> SUFFICES ASSUME After(p) # NoPage
                 PROVE  /\ After(p)[1] = b
                        /\ \A i \in Offsets : i >= After(p)[2] => state'[<<b, i>>] = "ERASED"
      BY <1>2, <2>2, <2>7 DEF CursorAhead
    <3>1. After(p) = <<b, 1>> BY <2>2 DEF After
    <3>2. \A i \in Offsets : i >= 1 => <<b, i>> # p BY <2>2
    <3> QED BY <1>2, <2>2, <3>1, <3>2
  <2>10. UsedAreOpened' BY <1>2, <2>7 DEF LogInv, UsedAreOpened
  <2>11. UnwrittenUnowned' BY <1>2, <2>2 DEF LogInv, UnwrittenUnowned, MapTo
  <2>12. LogInv' BY <2>8, <2>9, <2>10, <2>11 DEF LogInv
  <2>13. \A q \in Pages : state[q] = "VALID" => state'[q] = "VALID" /\ data'[q] = data[q]
    BY <1>2, <2>3, <2>5
  <2>14. state' \in [Pages -> {"INVALID", "ERASED", "VALID"}] /\ state'[p] = "VALID" BY <1>2, <2>2
  <2> QED BY <1>2, <2>2, <2>5, <2>12, <2>13, <2>14
<1> QED BY <1>1, <1>2, LogPlace

\* The block the scan looks at is a block.
LEMMA ScanBlockType ==
  ASSUME TypeOK, scanned < NumBlocks PROVE ScanBlock \in Blocks
BY Sizes DEF TypeOK, ScanBlock, Blocks

\* Whatever the type of the device, the order of writes and trims, and where
\* the collector stands, the flash and the log's cursor are as write_logging
\* and is_block_free expect them.
THEOREM FlashSound == Spec => []FlashInv
<1>1. Init => FlashInv
  <2> SUFFICES ASSUME Init PROVE FlashInv OBVIOUS
  <2> USE PageFacts DEF Init
  <2>1. TypeOK
    <3>1. Pages # {} /\ scanned \in 0 .. NumBlocks BY Sizes
    <3> QED BY <3>1 DEF TypeOK
  <2>2. CopyInv BY DEF CopyInv
  <2>3. LogInv
    BY DEF LogInv, BlocksUniform, CursorAhead, UsedAreOpened, UnwrittenUnowned
  <2>4. InPlaceInv BY DEF InPlaceInv
  <2> QED BY <2>1, <2>2, <2>3, <2>4 DEF FlashInv
<1>2. FlashInv /\ [Next]_vars => FlashInv'
  <2> SUFFICES ASSUME FlashInv, [Next]_vars PROVE FlashInv' OBVIOUS
  <2> USE PageFacts DEF FlashInv
  \* A step that changes neither the flash nor the cursor nor the collector.
  <2>a. ASSUME UNCHANGED <<ssd_type, flash, cursor, reverse_map, gc, dropped>>, pc = "cmd", pc' = "upkeep",
               forward_map' \in [Logical -> Pages \cup {NoPage}],
               \A l \in Logical : forward_map'[l] \in {NoPage, forward_map[l]}
        PROVE  FlashInv'
    <3>1. TypeOK' BY <2>a DEF TypeOK, flash, cursor, gc
    <3>2. CopyInv' BY <2>a DEF CopyInv
    <3>3. LogInv => LogInv'
      BY <2>a DEF LogInv, BlocksUniform, CursorAhead, UsedAreOpened, UnwrittenUnowned, flash, cursor
    <3>4. InPlaceInv => InPlaceInv' BY <2>a DEF InPlaceInv, cursor
    <3> QED BY <2>a, <3>1, <3>2, <3>3, <3>4
  <2>1. ASSUME NEW l \in Logical, NEW d \in Data, Write(l, d) PROVE FlashInv'
    <3>0. pc = "cmd" /\ pc' = "upkeep" /\ UNCHANGED <<ssd_type, gc, dropped>>
      BY <2>1 DEF Write, Answered
    <3>b. ASSUME ssd_type # "log", Identity(l) \in Pages => MapTo(l, Identity(l)),
                 state' \in [Pages -> {"INVALID", "ERASED", "VALID"}],
                 data' \in [Pages -> Data \cup {Blank}],
                 used' = {}, UNCHANGED <<current_page, current_block>>
          PROVE  FlashInv'
      <4>1. ~(Types \subseteq {"log"}) BY <3>b DEF TypeOK
      <4>2. Identity(l) \in Pages BY <4>1, IdentityPage
      <4>3. MapTo(l, Identity(l)) BY <3>b, <4>2
      <4>4. TypeOK' BY <3>0, <3>b, <4>2, <4>3 DEF MapTo, TypeOK, gc
      <4>5. CopyInv' BY <3>0 DEF CopyInv
      <4>6. InPlaceInv' BY <3>0, <3>b, <4>3 DEF InPlaceInv, MapTo, TypeOK
      <4> QED BY <3>0, <3>b, <4>4, <4>5, <4>6
    <3>1. ASSUME ssd_type = "direct", WriteDirect(l, d) PROVE FlashInv'
      <4>1. state' \in [Pages -> {"INVALID", "ERASED", "VALID"}] BY <3>1 DEF WriteDirect, TypeOK
      <4>2. data' \in [Pages -> Data \cup {Blank}] BY <3>1 DEF WriteDirect, TypeOK
      <4>3. used' = {} BY <3>1 DEF WriteDirect, InPlaceInv
      <4> QED BY <3>1, <3>b, <4>1, <4>2, <4>3 DEF WriteDirect
    <3>2. ASSUME ssd_type = "ideal", WriteIdeal(l, d) PROVE FlashInv'
      <4>1. state' \in [Pages -> {"INVALID", "ERASED", "VALID"}]
        BY <3>2 DEF WriteIdeal, EraseThenProgram, TypeOK
      <4>2. data' \in [Pages -> Data \cup {Blank}] BY <3>2 DEF WriteIdeal, EraseThenProgram, TypeOK
      <4>3. used' = {} BY <3>2 DEF WriteIdeal, InPlaceInv, cursor
      <4> QED BY <3>2, <3>b, <4>1, <4>2, <4>3 DEF WriteIdeal, cursor
    <3>3. ASSUME ssd_type = "log", WriteLogging(l, d) PROVE FlashInv'
      <4>1. LogInv' /\ TypeOK'
        <5>1. PICK p \in Pages :
                /\ MapTo(l, p)
                /\ current_block' \in Blocks
                /\ state' \in [Pages -> {"INVALID", "ERASED", "VALID"}]
                /\ data' \in [Pages -> Data \cup {Blank}]
                /\ current_page' \in Pages \cup {NoPage}
                /\ used' \subseteq Blocks
                /\ LogInv'
          BY <3>3, LogWrite
        <5> QED BY <3>0, <5>1 DEF MapTo, TypeOK, gc
      <4>2. CopyInv' BY <3>0 DEF CopyInv
      <4> QED BY <3>0, <3>3, <4>1, <4>2
    <3>4. ASSUME Refuse("full") PROVE FlashInv'
      BY <2>a, <3>0, <3>4 DEF Refuse, maps, TypeOK
    <3> QED BY <2>1, <3>1, <3>2, <3>3, <3>4 DEF Write
  <2>2. ASSUME NEW l \in Logical, Trim(l) PROVE FlashInv'
    BY <2>2, <2>a DEF Trim, Answered, Refuse, maps, TypeOK
  <2>3. ASSUME NEW l \in Logical, Read(l) PROVE FlashInv'
    BY <2>3, <2>a DEF Read, Answered, maps, TypeOK
  <2>4. CASE Illegal
    BY <2>4, <2>a DEF Illegal, Answered, Refuse, maps, TypeOK
  <2>b. ASSUME UNCHANGED <<ssd_type, flash, cursor, maps>>
        PROVE  /\ LogInv => LogInv'
               /\ TypeOK /\ InPlaceInv /\ pc' \in {"cmd", "upkeep"} => InPlaceInv'
    BY <2>b DEF LogInv, BlocksUniform, CursorAhead, UsedAreOpened, UnwrittenUnowned, InPlaceInv,
                flash, cursor, maps
  <2>5. CASE Upkeep
    <3>1. UNCHANGED <<ssd_type, flash, cursor, maps>> BY <2>5 DEF Upkeep
    <3>2. TypeOK' BY <2>5, Sizes DEF Upkeep, TypeOK, flash, cursor, maps
    <3>3. ASSUME ssd_type # "log" PROVE pc' = "cmd"
      <4>1. used = {} BY <3>3 DEF InPlaceInv
      <4>2. Cardinality(used) = 0 BY <4>1, FS_EmptySet
      <4>3. ~(Cardinality(used) >= HighWater) BY <4>2, Sizes
      <4> QED BY <2>5, <4>3 DEF Upkeep
    <3>4. CopyInv' BY <2>5 DEF Upkeep, CopyInv
    <3> QED BY <2>b, <3>1, <3>2, <3>3, <3>4
  <2>6. CASE Scan
    <3>1. UNCHANGED <<ssd_type, flash, cursor, maps, gc_current_block>> BY <2>6 DEF Scan
    <3>2. ssd_type = "log" /\ pc = "scan" /\ scanned < NumBlocks BY <2>6 DEF Scan, InPlaceInv
    <3>3. ScanBlock \in Blocks BY <3>2, ScanBlockType
    <3>4. LogInv' BY <2>b, <3>1, <3>2
    <3>5. CASE Skipped(ScanBlock)
      <4>1. scanned' = scanned + 1 /\ live' = live /\ pc' = pc BY <2>6, <3>5 DEF Scan
      <4>2. scanned + 1 \in 0 .. NumBlocks BY <3>2, Sizes DEF TypeOK
      <4>3. TypeOK' BY <2>6, <3>1, <4>1, <4>2 DEF Scan, TypeOK, flash, cursor, maps
      <4> QED BY <3>1, <3>2, <3>4, <4>1, <4>3 DEF CopyInv
    <3>6. CASE ~Skipped(ScanBlock)
      <4>1. scanned' = scanned /\ live' = LiveIn(ScanBlock) /\ pc' = "copy" BY <2>6, <3>6 DEF Scan
      <4>2. ScanBlock' = ScanBlock BY <3>1, <4>1 DEF ScanBlock
      <4>3. ScanBlock # current_block /\ state[First(ScanBlock)] # "ERASED" BY <3>6 DEF Skipped
      <4>4. LiveIn(ScanBlock) # {} => state[First(ScanBlock)] = "VALID"
        <5> SUFFICES ASSUME NEW i \in LiveIn(ScanBlock), state[First(ScanBlock)] = "INVALID" PROVE FALSE
          BY <3>3, <4>3 DEF TypeOK
        <5>1. i \in Offsets /\ reverse_map[<<ScanBlock, i>>] # NoLogical BY DEF LiveIn, IsLive
        <5>2. state[<<ScanBlock, i>>] = "INVALID" BY <3>2, <3>3, <5>1 DEF LogInv, BlocksUniform
        <5> QED BY <3>2, <3>3, <5>1, <5>2 DEF LogInv, UnwrittenUnowned
      <4>5. TypeOK' BY <2>6, <3>1, <4>1 DEF Scan, TypeOK, flash, cursor, maps, LiveIn
      <4>6. CopyInv' BY <3>1, <3>2, <4>1, <4>2, <4>3, <4>4 DEF CopyInv, flash, cursor
      <4> QED BY <3>1, <3>2, <3>4, <4>5, <4>6
    <3> QED BY <3>5, <3>6
  <2>7. CASE ScanEnds
    <3>1. UNCHANGED <<ssd_type, flash, cursor, maps, gc, dropped>> /\ pc' = "cmd" BY <2>7 DEF ScanEnds
    <3>2. TypeOK' BY <3>1 DEF TypeOK, flash, cursor, maps, gc
    <3> QED BY <2>b, <3>1, <3>2 DEF CopyInv
  <2>8. CASE Copy
    <3>1. PICK i \in live : CopyPage(<<ScanBlock, i>>) /\ live' = live \ {i} BY <2>8 DEF Copy
    <3>2. UNCHANGED <<ssd_type, gc_current_block, scanned, pc>> /\ pc = "copy" BY <2>8 DEF Copy
    <3>3. /\ ssd_type = "log" /\ scanned < NumBlocks /\ ScanBlock # current_block
          /\ state[First(ScanBlock)] = "VALID" /\ ScanBlock' = ScanBlock
      BY <3>1, <3>2 DEF CopyInv, ScanBlock
    <3>4. ScanBlock \in Blocks /\ i \in Offsets BY <3>3, ScanBlockType DEF TypeOK
    <3>5. reverse_map[<<ScanBlock, i>>] \in Logical \cup {NoLogical}
          /\ data[<<ScanBlock, i>>] \in Data \cup {Blank}
      BY <3>4 DEF TypeOK
    <3>6. CASE WriteLogging(reverse_map[<<ScanBlock, i>>], data[<<ScanBlock, i>>]) /\ UNCHANGED dropped
      <4>1. PICK p \in Pages :
              /\ MapTo(reverse_map[<<ScanBlock, i>>], p)
              /\ current_block' \in Blocks
              /\ \A q \in Pages : state[q] = "VALID" => state'[q] = "VALID" /\ data'[q] = data[q]
              /\ current_block' = current_block \/ state[First(current_block')] # "VALID"
              /\ state' \in [Pages -> {"INVALID", "ERASED", "VALID"}]
              /\ data' \in [Pages -> Data \cup {Blank}]
              /\ current_page' \in Pages \cup {NoPage}
              /\ used' \subseteq Blocks
              /\ LogInv'
        BY <3>3, <3>5, <3>6, LogWrite
      <4>2. TypeOK'
        <5>1. forward_map' \in [Logical -> Pages \cup {NoPage}] BY <4>1 DEF MapTo, TypeOK
        <5>2. reverse_map' \in [Pages -> Logical \cup {NoLogical}] BY <3>5, <4>1 DEF MapTo, TypeOK
        <5> QED BY <3>1, <3>2, <3>6, <4>1, <5>1, <5>2 DEF TypeOK
      <4>3. CopyInv' BY <3>2, <3>3, <3>4, <4>1 DEF CopyInv
      <4> QED BY <3>2, <3>3, <4>1, <4>2, <4>3
    <3>7. CASE UNCHANGED <<flash, cursor, maps>> /\ dropped' = TRUE
      <4>1. TypeOK' BY <3>1, <3>2, <3>7 DEF TypeOK, flash, cursor, maps
      <4>2. CopyInv' BY <3>2, <3>3, <3>7 DEF CopyInv, flash, cursor
      <4> QED BY <2>b, <3>2, <3>3, <3>7, <4>1, <4>2
    <3> QED BY <3>1, <3>6, <3>7 DEF CopyPage
  <2>9. CASE Erase
    <3> DEFINE b == ScanBlock
    <3>1. pc = "copy" /\ UNCHANGED <<ssd_type, current_page, current_block, maps, live, dropped>>
      BY <2>9 DEF Erase
    <3>2. ssd_type = "log" /\ b # current_block /\ scanned < NumBlocks BY <3>1 DEF CopyInv
    <3>3. b \in Blocks BY <3>2, ScanBlockType
    <3>4. /\ state' = [q \in Pages |-> IF q[1] = b THEN "ERASED" ELSE state[q]]
          /\ data' = [q \in Pages |-> IF q[1] = b THEN Blank ELSE data[q]]
          /\ used' = used \ {b}
      BY <2>9 DEF Erase
    <3>5. pc' # "copy" /\ gc_current_block' \in Blocks /\ scanned' \in 0 .. NumBlocks /\ pc' \in {"cmd", "scan"}
      BY <2>9, <3>2, <3>3, Sizes DEF Erase, TypeOK
    <3>6. TypeOK' BY <3>1, <3>4, <3>5 DEF TypeOK, maps
    <3> HIDE DEF b
    <3>7. \A c \in Blocks : state'[First(c)] = IF c = b THEN "ERASED" ELSE state[First(c)]
      BY <3>4 DEF First
    <3>8. \A c \in Blocks, i \in Offsets :
             state'[<<c, i>>] = IF c = b THEN "ERASED" ELSE state[<<c, i>>]
      BY <3>4
    <3>9. BlocksUniform' BY <3>2, <3>7, <3>8 DEF LogInv, BlocksUniform
    <3>10. CursorAhead'
      BY <3>1, <3>2, <3>7, <3>8 DEF LogInv, CursorAhead, TypeOK
    <3>11. UsedAreOpened' BY <3>2, <3>4, <3>7 DEF LogInv, UsedAreOpened
    <3>12. UnwrittenUnowned' BY <3>1, <3>2, <3>4 DEF LogInv, UnwrittenUnowned, maps
    <3>13. LogInv' BY <3>9, <3>10, <3>11, <3>12 DEF LogInv
    <3> QED BY <3>1, <3>2, <3>5, <3>6, <3>13 DEF CopyInv
  <2>10. CASE UNCHANGED vars
    <3>1. UNCHANGED <<ssd_type, flash, cursor, maps>> /\ UNCHANGED <<gc, pc, dropped>>
      BY <2>10 DEF vars
    <3>2. TypeOK' BY <3>1 DEF TypeOK, flash, cursor, maps, gc
    <3>3. CopyInv' BY <3>1 DEF CopyInv, ScanBlock, flash, cursor, gc
    <3>4. InPlaceInv => pc' \in {"cmd", "upkeep"} BY <3>1 DEF InPlaceInv
    <3> QED BY <2>b, <3>1, <3>2, <3>3, <3>4
  <2> QED BY <2>1, <2>2, <2>3, <2>4, <2>5, <2>6, <2>7, <2>8, <2>9, <2>10 DEF Next
<1> QED BY <1>1, <1>2, PTL DEF Spec

\* Every action of ssd.py keeps the type invariant.
THEOREM SSDTypeCorrect == Spec => []TypeOK
<1>1. FlashInv => TypeOK BY DEF FlashInv
<1> QED BY <1>1, FlashSound, PTL

\* The page under the cursor is erased whenever write_logging programs it (its
\* assertion), even on a device that was too small to keep its data.
THEOREM CursorSound == Spec => []CursorErased
<1>1. FlashInv => CursorErased
  <2> SUFFICES ASSUME FlashInv, current_page # NoPage PROVE state[current_page] = "ERASED"
    BY DEF CursorErased
  <2>1. ssd_type = "log" BY DEF FlashInv, InPlaceInv
  <2>2. current_page \in Pages BY DEF FlashInv, TypeOK
  <2>3. current_page = <<current_block, current_page[2]>> /\ current_page[2] \in Offsets
    BY <2>1, <2>2, PageFacts DEF FlashInv, LogInv, CursorAhead
  <2>4. current_page[2] >= current_page[2] BY <2>3, Sizes DEF Offsets
  <2> QED BY <2>1, <2>3, <2>4 DEF FlashInv, LogInv, CursorAhead
<1> QED BY <1>1, FlashSound, PTL

-----------------------------------------------------------------------------
Mapped(l) == forward_map[l] # NoPage

\* What the collector relies on between looking at a block and erasing it: the
\* pages still to be copied are live, and they are all that is mapped there.
MapInv ==
  /\ \A l \in Logical : Mapped(l) => PageOfItsOwn(l)
  /\ pc = "copy" =>
       /\ \A i \in live : IsLive(<<ScanBlock, i>>)
       /\ \A l \in Logical : Mapped(l) /\ forward_map[l][1] = ScanBlock => forward_map[l][2] \in live

\* A write to a page that was not valid gives that page to l, and leaves the
\* pages of the others alone.
LEMMA MapWrite ==
  ASSUME TypeOK, \A k \in Logical : Mapped(k) => PageOfItsOwn(k),
         NEW l \in Logical, NEW p \in Pages, state'[p] = "VALID",
         \A k \in Logical \ {l} : forward_map[k] # p,
         \A q \in Pages : state[q] = "VALID" => state'[q] = "VALID",
         MapTo(l, p)
  PROVE  /\ \A k \in Logical : Mapped(k)' => PageOfItsOwn(k)'
         /\ forward_map'[l] = p /\ \A k \in Logical \ {l} : forward_map'[k] = forward_map[k]
         /\ \A q \in Pages \ {p} : reverse_map'[q] = reverse_map[q]
<1> USE DEF TypeOK, MapTo, Mapped, PageOfItsOwn
<1>1. forward_map'[l] = p /\ \A k \in Logical \ {l} : forward_map'[k] = forward_map[k] OBVIOUS
<1>2. \A q \in Pages \ {p} : reverse_map'[q] = reverse_map[q] OBVIOUS
<1>3. reverse_map'[p] = l OBVIOUS
<1>4. ASSUME NEW k \in Logical, Mapped(k)' PROVE PageOfItsOwn(k)'
  <2>1. CASE k = l BY <1>1, <1>3, <2>1
  <2>2. CASE k # l
    <3>1. forward_map'[k] = forward_map[k] /\ forward_map[k] \in Pages \ {p} BY <1>1, <1>4, <2>2
    <3> QED BY <1>2, <1>4, <3>1
  <2> QED BY <2>1, <2>2
<1> QED BY <1>1, <1>2, <1>4

\* MapInv holds as long as no copy of a live page was refused.
LEMMA MapInvHolds == Spec => [](~dropped => MapInv)
<1>1. Init => MapInv
  <2> SUFFICES ASSUME Init PROVE MapInv OBVIOUS
  <2> QED BY DEF Init, MapInv, Mapped
<1>2. FlashInv /\ FlashInv' /\ (~dropped => MapInv) /\ [Next]_vars => (~dropped' => MapInv')
  <2> SUFFICES ASSUME FlashInv, FlashInv', ~dropped => MapInv, [Next]_vars, ~dropped' PROVE MapInv'
    OBVIOUS
  <2>0. ~dropped /\ MapInv
    <3>1. ASSUME NEW l \in Logical, Trim(l) \/ Read(l) \/ \E d \in Data : Write(l, d)
          PROVE  dropped' = dropped
      BY <3>1 DEF Trim, Read, Write, Answered
    <3>2. CASE Illegal \/ Upkeep \/ Scan \/ ScanEnds \/ Erase
      BY <3>2 DEF Illegal, Answered, Upkeep, Scan, ScanEnds, Erase
    <3>3. CASE Copy BY <3>3 DEF Copy, CopyPage
    <3>4. CASE UNCHANGED vars BY <3>4 DEF vars
    <3> QED BY <3>1, <3>2, <3>3, <3>4 DEF Next
  <2> USE <2>0, PageFacts DEF FlashInv
  <2>a. ASSUME UNCHANGED <<flash, reverse_map>>, pc' # "copy",
               \A l \in Logical : forward_map'[l] \in {NoPage, forward_map[l]}
        PROVE  MapInv'
    BY <2>a DEF MapInv, Mapped, PageOfItsOwn, flash
  <2>1. ASSUME NEW l \in Logical, NEW d \in Data, Write(l, d) PROVE MapInv'
    <3>0. pc' # "copy" BY <2>1 DEF Write, Answered
    <3>b. ASSUME NEW p \in Pages, state'[p] = "VALID",
                 \A k \in Logical \ {l} : forward_map[k] # p,
                 \A q \in Pages : state[q] = "VALID" => state'[q] = "VALID",
                 MapTo(l, p)
          PROVE  MapInv'
      BY <3>0, <3>b, MapWrite DEF MapInv
    <3>1. CASE ssd_type = "log" /\ WriteLogging(l, d)
      <4>1. PICK p \in Pages : /\ state[p] # "VALID" /\ state'[p] = "VALID" /\ MapTo(l, p)
                               /\ \A q \in Pages : state[q] = "VALID" => state'[q] = "VALID"
        BY <3>1, LogWrite
      <4>2. \A k \in Logical \ {l} : forward_map[k] # p BY <4>1 DEF MapInv, Mapped, PageOfItsOwn
      <4> QED BY <3>b, <4>1, <4>2
    <3>2. CASE ssd_type # "log" /\ (WriteDirect(l, d) \/ WriteIdeal(l, d))
      <4>1. ~(Types \subseteq {"log"}) BY <3>2 DEF TypeOK
      <4>2. Identity(l) \in Pages /\ \A k \in Logical : Identity(k) = Identity(l) => k = l
        BY <4>1, IdentityPage
      <4>3. \A k \in Logical \ {l} : forward_map[k] # Identity(l)
        BY <3>2, <4>2 DEF InPlaceInv
      <4>4. /\ MapTo(l, Identity(l)) /\ state'[Identity(l)] = "VALID"
            /\ \A q \in Pages : state[q] = "VALID" => state'[q] = "VALID"
        BY <3>2, <4>2 DEF WriteDirect, WriteIdeal, EraseThenProgram
      <4> QED BY <3>b, <4>2, <4>3, <4>4
    <3>3. CASE Refuse("full") BY <2>a, <3>0, <3>3 DEF Refuse, maps
    <3> QED BY <2>1, <3>1, <3>2, <3>3 DEF Write
  <2>2. ASSUME NEW l \in Logical, Trim(l) PROVE MapInv'
    BY <2>2, <2>a DEF Trim, Answered, Refuse, maps, TypeOK
  <2>3. ASSUME NEW l \in Logical, Read(l) PROVE MapInv'
    BY <2>3, <2>a DEF Read, Answered, maps
  <2>4. CASE Illegal BY <2>4, <2>a DEF Illegal, Answered, Refuse, maps
  <2>5. CASE Upkeep BY <2>5, <2>a DEF Upkeep, maps
  <2>6. CASE Scan
    <3>1. UNCHANGED <<state, forward_map, reverse_map, gc_current_block>> BY <2>6 DEF Scan, flash, maps
    <3>2. CASE Skipped(ScanBlock)
      <4>1. pc' = "scan" BY <2>6, <3>2 DEF Scan
      <4> QED BY <3>1, <4>1 DEF MapInv, Mapped, PageOfItsOwn
    <3>3. CASE ~Skipped(ScanBlock)
      <4>1. live' = LiveIn(ScanBlock) /\ scanned' = scanned BY <2>6, <3>3 DEF Scan
      <4>2. ScanBlock' = ScanBlock BY <3>1, <4>1 DEF ScanBlock
      <4>3. \A i \in live' : IsLive(<<ScanBlock, i>>) BY <4>1 DEF LiveIn
      <4>4. ASSUME NEW l \in Logical, Mapped(l), forward_map[l][1] = ScanBlock
            PROVE  forward_map[l][2] \in live'
        <5>1. forward_map[l] \in Pages /\ forward_map[l] = <<ScanBlock, forward_map[l][2]>>
          BY <4>4 DEF TypeOK, Mapped
        <5>2. reverse_map[forward_map[l]] = l BY <4>4 DEF MapInv, PageOfItsOwn
        <5>3. l # NoLogical BY Sizes DEF Logical, NoLogical
        <5>4. IsLive(<<ScanBlock, forward_map[l][2]>>) BY <5>1, <5>2, <5>3 DEF IsLive
        <5> QED BY <4>1, <5>1, <5>4 DEF LiveIn
      <4> QED BY <3>1, <4>2, <4>3, <4>4 DEF MapInv, Mapped, PageOfItsOwn, IsLive
    <3> QED BY <3>2, <3>3
  <2>7. CASE ScanEnds BY <2>7, <2>a DEF ScanEnds, maps
  <2>8. CASE Copy
    <3>1. PICK i \in live : CopyPage(<<ScanBlock, i>>) /\ live' = live \ {i} BY <2>8 DEF Copy
    <3>2. UNCHANGED <<ssd_type, gc_current_block, scanned, pc>> /\ pc = "copy" BY <2>8 DEF Copy
    <3> DEFINE page == <<ScanBlock, i>>
               l == reverse_map[page]
    <3>3. ssd_type = "log" /\ scanned < NumBlocks /\ ScanBlock' = ScanBlock
      BY <3>2 DEF CopyInv, ScanBlock
    <3>4. page \in Pages BY <3>3, ScanBlockType DEF TypeOK
    <3>5. l \in Logical /\ forward_map[l] = page BY <3>1, <3>2, <3>4 DEF MapInv, IsLive, TypeOK
    <3>6. data[page] \in Data \cup {Blank} BY <3>4 DEF TypeOK
    <3>7. WriteLogging(l, data[page]) BY <3>1 DEF CopyPage
    <3>8. PICK p \in Pages : /\ state[p] # "VALID" /\ state'[p] = "VALID" /\ MapTo(l, p)
                             /\ \A q \in Pages : state[q] = "VALID" => state'[q] = "VALID"
                             /\ p[1] = current_block'
      <4> HIDE DEF l, page
      <4> QED BY <3>3, <3>5, <3>6, <3>7, LogWrite
    <3>9. \A k \in Logical \ {l} : forward_map[k] # p BY <3>8 DEF MapInv, Mapped, PageOfItsOwn
    <3>10. p[1] # ScanBlock BY <3>2, <3>3, <3>8 DEF CopyInv
    <3> HIDE DEF l
    <3>11. /\ \A k \in Logical : Mapped(k)' => PageOfItsOwn(k)'
           /\ forward_map'[l] = p /\ \A k \in Logical \ {l} : forward_map'[k] = forward_map[k]
           /\ \A q \in Pages \ {p} : reverse_map'[q] = reverse_map[q]
      BY <3>5, <3>8, <3>9, MapWrite DEF MapInv
    <3>12. ASSUME NEW j \in live' PROVE IsLive(<<ScanBlock, j>>)'
      <4>1. j \in live /\ j \in Offsets /\ j # i BY <3>1, <3>12 DEF TypeOK
      <4> DEFINE q == <<ScanBlock, j>>
                 k == reverse_map[q]
      <4>2. q \in Pages /\ q # page /\ q # p BY <3>3, <3>10, <4>1, ScanBlockType
      <4>3. k \in Logical /\ k # NoLogical /\ forward_map[k] = q
        BY <3>2, <4>1, <4>2 DEF MapInv, IsLive, TypeOK
      <4>4. k # l BY <3>5, <4>2, <4>3
      <4> QED BY <3>3, <3>11, <4>2, <4>3, <4>4 DEF IsLive
    <3>13. ASSUME NEW k \in Logical, Mapped(k)', forward_map'[k][1] = ScanBlock
           PROVE  forward_map'[k][2] \in live'
      <4>1. k # l BY <3>10, <3>11, <3>13
      <4>2. forward_map'[k] = forward_map[k] /\ Mapped(k) BY <3>11, <3>13, <4>1 DEF Mapped
      <4>3. forward_map[k][2] \in live BY <3>2, <3>13, <4>2 DEF MapInv
      <4>4. forward_map[k] \in Pages BY <4>2 DEF Mapped, TypeOK
      <4>5. reverse_map[forward_map[k]] = k BY <4>2 DEF MapInv, PageOfItsOwn
      <4>6. forward_map[k] # page BY <4>1, <4>5 DEF l
      <4>7. forward_map[k][2] # i BY <3>13, <4>2, <4>4, <4>6
      <4> QED BY <3>1, <4>2, <4>3, <4>7
    <3> QED BY <3>2, <3>3, <3>11, <3>12, <3>13 DEF MapInv
  <2>9. CASE Erase
    <3>1. pc = "copy" /\ live = {} /\ UNCHANGED <<forward_map, reverse_map>> /\ pc' # "copy"
      BY <2>9 DEF Erase, maps
    <3>2. state' = [q \in Pages |-> IF q[1] = ScanBlock THEN "ERASED" ELSE state[q]]
      BY <2>9 DEF Erase
    <3>3. ASSUME NEW l \in Logical, Mapped(l) PROVE state'[forward_map[l]] = state[forward_map[l]]
      BY <3>1, <3>2, <3>3 DEF MapInv, Mapped, TypeOK
    <3> QED BY <3>1, <3>3 DEF MapInv, Mapped, PageOfItsOwn
  <2>10. CASE UNCHANGED vars
    BY <2>10 DEF vars, flash, cursor, maps, gc, MapInv, Mapped, PageOfItsOwn, IsLive, ScanBlock
  <2> QED BY <2>1, <2>2, <2>3, <2>4, <2>5, <2>6, <2>7, <2>8, <2>9, <2>10 DEF Next
<1> QED BY <1>1, <1>2, FlashSound, PTL DEF Spec

\* As long as no copy of a live page was refused, every mapped logical page has
\* a valid physical page of its own, in the middle of a collection too.
THEOREM MapsSound == Spec => [](~dropped => MapsConsistent)
<1>1. MapInv /\ CursorErased => MapsConsistent BY DEF MapInv, MapsConsistent, Mapped
<1> QED BY <1>1, MapInvHolds, CursorSound, PTL

-----------------------------------------------------------------------------
StoredAt(l) == IF forward_map[l] = NoPage THEN "nothing" ELSE data[forward_map[l]]

\* As long as no copy of a live page was refused the device is the array of
\* logical pages that SSDStore specifies: a read returns the last write, and
\* neither the place of a page nor the collector shows.
THEOREM StoreRefinement == Spec /\ [](~dropped) => ImplementsStore
<1>1. Init => Store!SInit
  BY DEF Init, Store!SInit, Store!Nothing, storeOf
<1>2. FlashInv /\ MapInv /\ ~dropped' /\ [Next]_vars => [Store!SNext]_<<storeOf, out>>
  <2> SUFFICES ASSUME FlashInv, MapInv, ~dropped', [Next]_vars
               PROVE  Store!SNext \/ UNCHANGED <<storeOf, out>>
    OBVIOUS
  <2> USE PageFacts DEF FlashInv
  <2>0. storeOf = [l \in Logical |-> StoredAt(l)] /\ storeOf' = [l \in Logical |-> StoredAt(l)']
    BY DEF storeOf, StoredAt
  <2>s. ASSUME \A l \in Logical : StoredAt(l)' = StoredAt(l) PROVE storeOf' = storeOf
    BY <2>0, <2>s
  <2>u. ASSUME UNCHANGED <<forward_map, data>> PROVE storeOf' = storeOf
    BY <2>u DEF storeOf
  <2>n. \A l \in Logical : Mapped(l) => data[forward_map[l]] # "nothing"
    <3>1. "nothing" \notin Data BY SSDAssumption, Zenon
    <3>2. Blank # "nothing" BY DEF Blank
    <3> QED BY <3>1, <3>2 DEF Mapped, TypeOK
  <2>m. \A l \in Logical : storeOf[l] = Store!Nothing <=> forward_map[l] = NoPage
    BY <2>0, <2>n DEF StoredAt, Mapped, Store!Nothing
  \* A write of d for l to a page that is no other's.
  <2>w. ASSUME NEW l \in Logical, NEW d, NEW p \in Pages, MapTo(l, p), data'[p] = d,
               \A k \in Logical \ {l} : Mapped(k) => data'[forward_map[k]] = data[forward_map[k]]
        PROVE  storeOf' = [storeOf EXCEPT ![l] = d]
    <3>1. StoredAt(l)' = d BY <2>w DEF StoredAt, MapTo, TypeOK
    <3>2. \A k \in Logical \ {l} : StoredAt(k)' = StoredAt(k)
      BY <2>w DEF StoredAt, MapTo, TypeOK, Mapped
    <3> QED BY <2>0, <3>1, <3>2
  <2>1. ASSUME NEW l \in Logical, NEW d \in Data, Write(l, d) PROVE Store!SNext
    <3>1. ASSUME out' = "success", storeOf' = [storeOf EXCEPT ![l] = d] PROVE Store!SNext
      BY <3>1 DEF Store!SNext, Store!SWrite
    <3>2. CASE ssd_type = "log" /\ WriteLogging(l, d) /\ out' = "success"
      <4>1. PICK p \in Pages : /\ MapTo(l, p) /\ data'[p] = d
                               /\ \A q \in Pages : state[q] = "VALID" => data'[q] = data[q]
        BY <3>2, LogWrite
      <4>2. \A k \in Logical : Mapped(k) => data'[forward_map[k]] = data[forward_map[k]]
        BY <4>1 DEF MapInv, PageOfItsOwn, Mapped, TypeOK
      <4> QED BY <2>w, <3>1, <3>2, <4>1, <4>2
    <3>3. CASE ssd_type # "log" /\ (WriteDirect(l, d) \/ WriteIdeal(l, d)) /\ out' = "success"
      <4>1. ~(Types \subseteq {"log"}) BY <3>3 DEF TypeOK
      <4>2. Identity(l) \in Pages /\ \A k \in Logical : Identity(k) = Identity(l) => k = l
        BY <4>1, IdentityPage
      <4>3. /\ MapTo(l, Identity(l)) /\ data'[Identity(l)] = d
            /\ \A q \in Pages : q # Identity(l) /\ state[q] = "VALID" => data'[q] = data[q]
        BY <3>3, <4>2 DEF WriteDirect, WriteIdeal, EraseThenProgram
      <4>4. \A k \in Logical \ {l} : Mapped(k) => data'[forward_map[k]] = data[forward_map[k]]
        BY <3>3, <4>2, <4>3 DEF MapInv, PageOfItsOwn, Mapped, TypeOK, InPlaceInv
      <4> QED BY <2>w, <3>1, <3>3, <4>2, <4>3, <4>4
    <3>4. CASE Refuse("full")
      <4>1. out' = "full" /\ storeOf' = storeOf BY <2>u, <3>4 DEF Refuse, maps, flash
      <4> QED BY <4>1 DEF Store!SNext, Store!SWrite
    <3> QED BY <2>1, <3>2, <3>3, <3>4 DEF Write
  <2>2. ASSUME NEW l \in Logical, Trim(l) PROVE Store!SNext
    <3>1. CASE forward_map[l] = NoPage
      <4>1. out' = "uninitialized" /\ storeOf' = storeOf
        BY <2>2, <2>u, <3>1 DEF Trim, Refuse, maps, flash
      <4>2. storeOf[l] = Store!Nothing BY <2>m, <3>1
      <4> QED BY <4>1, <4>2 DEF Store!SNext, Store!STrim
    <3>2. CASE forward_map[l] # NoPage
      <4>1. forward_map' = [forward_map EXCEPT ![l] = NoPage] /\ out' = "success" /\ data' = data
        BY <2>2, <3>2 DEF Trim, flash
      <4>2. StoredAt(l)' = "nothing" /\ \A k \in Logical \ {l} : StoredAt(k)' = StoredAt(k)
        BY <4>1 DEF StoredAt, TypeOK
      <4>3. storeOf' = [storeOf EXCEPT ![l] = Store!Nothing] BY <2>0, <4>2 DEF Store!Nothing
      <4>4. storeOf[l] # Store!Nothing BY <2>m, <3>2
      <4> QED BY <4>1, <4>3, <4>4 DEF Store!SNext, Store!STrim
    <3> QED BY <3>1, <3>2
  <2>3. ASSUME NEW l \in Logical, Read(l) PROVE Store!SNext
    <3>1. storeOf' = storeOf BY <2>3, <2>u DEF Read, maps, flash
    <3>2. out' = IF storeOf[l] = Store!Nothing THEN "uninitialized" ELSE storeOf[l]
      BY <2>3, <2>0, <2>m DEF Read, StoredAt
    <3> QED BY <3>1, <3>2 DEF Store!SNext, Store!SRead
  <2>4. CASE Illegal
    <3>1. out' = "illegal" /\ storeOf' = storeOf BY <2>4, <2>u DEF Illegal, Refuse, maps, flash
    <3> QED BY <3>1 DEF Store!SNext, Store!SIllegal
  <2>5. CASE Upkeep
    <3>1. out' = "none" /\ storeOf' = storeOf BY <2>5, <2>u DEF Upkeep, maps, flash
    <3> QED BY <3>1 DEF Store!SNext, Store!SReady
  <2>6. CASE Scan \/ ScanEnds
    BY <2>6, <2>u DEF Scan, ScanEnds, maps, flash
  <2>8. CASE Copy
    <3>1. PICK i \in live : CopyPage(<<ScanBlock, i>>) BY <2>8 DEF Copy
    <3>2. pc = "copy" /\ out' = out BY <2>8 DEF Copy
    <3> DEFINE page == <<ScanBlock, i>>
               l == reverse_map[page]
    <3>3. ssd_type = "log" /\ scanned < NumBlocks BY <3>2 DEF CopyInv
    <3>4. page \in Pages BY <3>3, ScanBlockType DEF TypeOK
    <3>5. l \in Logical /\ forward_map[l] = page BY <3>1, <3>2, <3>4 DEF MapInv, IsLive, TypeOK
    <3>6. data[page] \in Data \cup {Blank} BY <3>4 DEF TypeOK
    <3>7. WriteLogging(l, data[page]) BY <3>1 DEF CopyPage
    <3> HIDE DEF l, page
    <3>8. PICK p \in Pages : /\ MapTo(l, p) /\ data'[p] = data[page]
                             /\ \A q \in Pages : state[q] = "VALID" => data'[q] = data[q]
      BY <3>3, <3>5, <3>6, <3>7, LogWrite
    <3>9. \A k \in Logical : Mapped(k) => data'[forward_map[k]] = data[forward_map[k]]
      BY <3>8 DEF MapInv, PageOfItsOwn, Mapped, TypeOK
    <3>10. storeOf' = [storeOf EXCEPT ![l] = data[page]] BY <2>w, <3>5, <3>8, <3>9
    <3>11. storeOf[l] = data[page] BY <2>0, <3>4, <3>5 DEF StoredAt
    <3>12. storeOf' = storeOf BY <2>0, <3>5, <3>10, <3>11
    <3> QED BY <3>2, <3>12
  <2>9. CASE Erase
    <3>1. pc = "copy" /\ live = {} /\ forward_map' = forward_map /\ out' = out BY <2>9 DEF Erase, maps
    <3>2. data' = [q \in Pages |-> IF q[1] = ScanBlock THEN Blank ELSE data[q]] BY <2>9 DEF Erase
    <3>3. \A l \in Logical : StoredAt(l)' = StoredAt(l)
      BY <3>1, <3>2 DEF StoredAt, MapInv, Mapped, TypeOK
    <3> QED BY <2>s, <3>1, <3>3
  <2>10. CASE UNCHANGED vars BY <2>10, <2>u DEF vars, flash, maps
  <2> QED BY <2>1, <2>2, <2>3, <2>4, <2>5, <2>6, <2>8, <2>9, <2>10 DEF Next
<1> QED BY <1>1, <1>2, FlashSound, MapInvHolds, PTL DEF Spec, ImplementsStore, Store!SSpec

-----------------------------------------------------------------------------
\* Sets of offsets and of blocks can be counted.
LEMMA Counting ==
  /\ IsFiniteSet(Offsets) /\ Cardinality(Offsets) = PagesPerBlock
  /\ IsFiniteSet(Blocks) /\ Cardinality(Blocks) = NumBlocks
  /\ IsFiniteSet(Logical) /\ Cardinality(Logical) = NumLogical
  /\ \A S \in SUBSET Offsets : /\ IsFiniteSet(S) /\ Cardinality(S) \in 0 .. PagesPerBlock
                               /\ Cardinality(S) = PagesPerBlock => S = Offsets
  /\ \A S \in SUBSET Blocks : /\ IsFiniteSet(S) /\ Cardinality(S) \in 0 .. NumBlocks
                              /\ Cardinality(S) = NumBlocks => S = Blocks
<1>1. IsFiniteSet(Offsets) /\ Cardinality(Offsets) = PagesPerBlock
  BY FS_Interval, Sizes DEF Offsets
<1>2. IsFiniteSet(Blocks) /\ Cardinality(Blocks) = NumBlocks
  BY FS_Interval, Sizes DEF Blocks
<1>3. IsFiniteSet(Logical) /\ Cardinality(Logical) = NumLogical
  BY FS_Interval, Sizes DEF Logical
<1>4. ASSUME NEW S \in SUBSET Offsets
      PROVE  /\ IsFiniteSet(S) /\ Cardinality(S) \in 0 .. PagesPerBlock
             /\ Cardinality(S) = PagesPerBlock => S = Offsets
  <2>1. IsFiniteSet(S) /\ Cardinality(S) <= PagesPerBlock /\ (Cardinality(S) = PagesPerBlock => S = Offsets)
    BY <1>1, FS_Subset
  <2>2. Cardinality(S) \in Nat BY <2>1, FS_CardinalityType
  <2> QED BY <2>1, <2>2, Sizes
<1>5. ASSUME NEW S \in SUBSET Blocks
      PROVE  /\ IsFiniteSet(S) /\ Cardinality(S) \in 0 .. NumBlocks
             /\ Cardinality(S) = NumBlocks => S = Blocks
  <2>1. IsFiniteSet(S) /\ Cardinality(S) <= NumBlocks /\ (Cardinality(S) = NumBlocks => S = Blocks)
    BY <1>2, FS_Subset
  <2>2. Cardinality(S) \in Nat BY <2>1, FS_CardinalityType
  <2> QED BY <2>1, <2>2, Sizes
<1> QED BY <1>1, <1>2, <1>3, <1>4, <1>5

\* The collector ends: every step of upkeep leaves less to do, although the
\* copies go into blocks the scan has still to look at.
THEOREM CollectorEnds == Spec => UpkeepProgress
<1>1. FlashInv /\ [Next]_vars => [pc # "cmd" /\ pc' # "cmd" => Remaining' < Remaining]_vars
  <2> SUFFICES ASSUME FlashInv, Next, pc # "cmd", pc' # "cmd" PROVE Remaining' < Remaining
    OBVIOUS
  <2> USE DEF FlashInv
  <2> DEFINE W == PagesPerBlock + 2
             left == (NumBlocks - scanned) * W
  <2>1. W \in Nat /\ W > 0 /\ scanned \in Nat /\ NumBlocks \in Nat /\ scanned <= NumBlocks /\ left \in Int
    BY Sizes DEF TypeOK
  <2>2. Cardinality(live) \in 0 .. PagesPerBlock BY Counting DEF TypeOK
  <2>3. CASE Upkeep
    <3>1. pc = "upkeep" /\ pc' = "scan" /\ scanned' = 0 BY <2>3 DEF Upkeep
    <3>2. Remaining = left + (scanned + 1) * W BY <3>1 DEF Remaining
    <3>3. Remaining' = NumBlocks * W + 0 BY <2>1, <3>1 DEF Remaining
    <3> HIDE DEF W
    <3>4. left + (scanned + 1) * W = NumBlocks * W + W /\ NumBlocks * W \in Int BY <2>1
    <3> QED BY <2>1, <3>2, <3>3, <3>4
  <2>4. CASE Scan
    <3>1. pc = "scan" BY <2>4 DEF Scan
    <3>2. Remaining = left BY <2>1, <3>1 DEF Remaining
    <3>3. CASE Skipped(ScanBlock)
      <4>1. pc' = "scan" /\ scanned' = scanned + 1 BY <2>4, <3>1, <3>3 DEF Scan
      <4>2. Remaining' = (NumBlocks - (scanned + 1)) * W + 0 BY <4>1 DEF Remaining
      <4> HIDE DEF W
      <4>3. (NumBlocks - (scanned + 1)) * W = left - W BY <2>1
      <4> QED BY <2>1, <3>2, <4>2, <4>3
    <3>4. CASE ~Skipped(ScanBlock)
      <4>1. pc' = "copy" /\ scanned' = scanned /\ live' = LiveIn(ScanBlock) BY <2>4, <3>4 DEF Scan
      <4>2. Cardinality(live') \in 0 .. PagesPerBlock BY <4>1, Counting DEF LiveIn
      <4>3. Remaining' = left + (Cardinality(live') - PagesPerBlock - 1) BY <4>1 DEF Remaining
      <4> HIDE DEF left
      <4> QED BY <2>1, <3>2, <4>2, <4>3, Sizes
    <3> QED BY <3>3, <3>4
  <2>5. CASE Copy
    <3>1. PICK i \in live : live' = live \ {i} BY <2>5 DEF Copy
    <3>2. pc = "copy" /\ pc' = "copy" /\ scanned' = scanned BY <2>5 DEF Copy
    <3>3. IsFiniteSet(live) BY Counting DEF TypeOK
    <3>4. Cardinality(live') = Cardinality(live) - 1 BY <3>1, <3>3, FS_RemoveElement
    <3>5. Remaining = left + (Cardinality(live) - PagesPerBlock - 1) BY <3>2 DEF Remaining
    <3>6. Remaining' = left + (Cardinality(live') - PagesPerBlock - 1) BY <3>2 DEF Remaining
    <3> HIDE DEF left
    <3> QED BY <2>1, <2>2, <3>4, <3>5, <3>6, Sizes
  <2>6. CASE Erase
    <3>1. pc = "copy" /\ pc' = "scan" /\ scanned' = scanned + 1 /\ live = {} BY <2>6 DEF Erase
    <3>2. Cardinality(live) = 0 BY <3>1, FS_EmptySet
    <3>3. Remaining = left + (0 - PagesPerBlock - 1) BY <3>1, <3>2 DEF Remaining
    <3>4. Remaining' = (NumBlocks - (scanned + 1)) * W + 0 BY <3>1 DEF Remaining
    <3>5. (NumBlocks - (scanned + 1)) * W = left - W
      <4> HIDE DEF W
      <4> QED BY <2>1
    <3>6. W = PagesPerBlock + 2 OBVIOUS
    <3> HIDE DEF left, W
    <3> QED BY <2>1, <3>3, <3>4, <3>5, <3>6, Sizes
  <2>7. pc = "cmd" \/ pc' = "cmd" \/ Upkeep \/ Scan \/ Copy \/ Erase
    BY DEF Next, Trim, Read, Write, Illegal, Answered, ScanEnds
  <2> QED BY <2>3, <2>4, <2>5, <2>6, <2>7
<1> QED BY <1>1, FlashSound, PTL DEF Spec, UpkeepProgress

-----------------------------------------------------------------------------
\* Room enough on a log: one block more than the high water mark, two more than
\* the low one, and four more than the logical pages fill.
RoomEnough ==
  /\ HighWater < NumBlocks /\ LowWater + 2 <= NumBlocks
  /\ (NumLogical \div PagesPerBlock) + 4 <= NumBlocks

\* Pages left under the cursor.
Ahead == IF current_page = NoPage THEN 0 ELSE PagesPerBlock - current_page[2]

\* The blocks the running scan has finished with.
ScanAt(k) == IF gc_current_block + k < NumBlocks THEN gc_current_block + k
             ELSE gc_current_block + k - NumBlocks
Looked == {ScanAt(k) : k \in 0 .. scanned - 1}

\* Blocks that hold a live page at every offset, and blocks with no dead page.
FullLive == {b \in Blocks : LiveIn(b) = Offsets}
NoneDead(b) == \A i \in Offsets : state[<<b, i>>] = "VALID" => IsLive(<<b, i>>)

\* Behind the cursor the block being written is programmed.
CursorBehind ==
  current_block \in used =>
    \A i \in Offsets : current_page = NoPage \/ i < current_page[2]
                         => state[<<current_block, i>>] = "VALID"

\* What the scan has left in use behind it: blocks of live pages only, the block
\* c that was current when it started, and the block that is current now, which
\* holds nothing but copies of live pages if it is not c.
ScanLeaves ==
  \E c \in Blocks : /\ current_block = c \/ NoneDead(current_block)
                    /\ Looked \cap used \subseteq FullLive \cup {c, current_block}

\* A free block is kept for the next command and another for the collector,
\* whose copies out of one block need at most one block more.
RoomInv ==
  /\ ~dropped /\ out # "full"
  /\ ssd_type = "log" =>
       /\ CursorBehind
       /\ pc = "cmd" => Cardinality(used) <= NumBlocks - 2
       /\ pc \in {"upkeep", "scan"} => Cardinality(used) <= NumBlocks - 1
       /\ pc = "copy" => /\ Cardinality(live) < PagesPerBlock
                         /\ \/ Cardinality(used) <= NumBlocks - 1
                            \/ ScanBlock \in used /\ Cardinality(live) <= Ahead
       /\ pc \in {"scan", "copy"} => ScanLeaves

\* Live pages belong to different logical pages, so the blocks full of them are
\* few enough.
LEMMA FullLiveFew ==
  ASSUME TypeOK
  PROVE  Cardinality(FullLive) <= NumLogical \div PagesPerBlock
<1> DEFINE S == FullLive \X Offsets
           f == [q \in S |-> reverse_map[q]]
<1> USE DEF TypeOK
<1>1. IsFiniteSet(FullLive) /\ Cardinality(FullLive) \in Nat BY Counting DEF FullLive
<1>2. \A q \in S : q \in Pages /\ IsLive(q)
  <2> SUFFICES ASSUME NEW q \in S PROVE q \in Pages /\ IsLive(q) OBVIOUS
  <2>1. q[1] \in FullLive /\ q[2] \in Offsets /\ q = <<q[1], q[2]>> OBVIOUS
  <2>2. q[1] \in Blocks /\ q[2] \in LiveIn(q[1]) BY <2>1 DEF FullLive
  <2>3. IsLive(<<q[1], q[2]>>) BY <2>2 DEF LiveIn
  <2>4. <<q[1], q[2]>> \in Pages BY <2>1, <2>2, PageFacts
  <2> QED BY <2>1, <2>3, <2>4
<1>3. \A q \in S : reverse_map[q] \in Logical /\ forward_map[reverse_map[q]] = q BY <1>2 DEF IsLive
<1>4. f \in Injection(S, Logical)
  <2>1. f \in [S -> Logical] BY <1>3
  <2>2. \A p, q \in S : f[p] = f[q] => p = q BY <1>3
  <2> HIDE DEF f, S
  <2> QED BY <2>1, <2>2 DEF Injection, IsInjective
<1>5. IsFiniteSet(S) /\ Cardinality(S) = Cardinality(FullLive) * PagesPerBlock
  BY <1>1, Counting, FS_Product
<1>6. Cardinality(S) <= NumLogical BY <1>4, Counting, FS_Injection
<1> DEFINE n == Cardinality(FullLive)
           quot == NumLogical \div PagesPerBlock
           rest == NumLogical % PagesPerBlock
<1>7. quot \in Nat /\ rest \in 0 .. PagesPerBlock - 1 BY Sizes
<1>8. NumLogical = PagesPerBlock * quot + rest BY Sizes
<1> HIDE DEF S, n, quot, rest
<1>9. n * PagesPerBlock <= PagesPerBlock * quot + rest BY <1>5, <1>6, <1>8 DEF n
<1>10. n \in Nat BY <1>1 DEF n
<1>11. n <= quot
  <2> SUFFICES ASSUME n >= quot + 1 PROVE FALSE BY <1>7, <1>10
  <2>1. n * PagesPerBlock >= (quot + 1) * PagesPerBlock BY <1>7, <1>10, Sizes
  <2>2. (quot + 1) * PagesPerBlock = PagesPerBlock * quot + PagesPerBlock BY <1>7, Sizes
  <2>3. n * PagesPerBlock \in Int /\ PagesPerBlock * quot \in Int BY <1>7, <1>10, Sizes
  <2> QED BY <1>7, <1>9, <2>1, <2>2, <2>3, Sizes
<1> QED BY <1>11 DEF n, quot

\* A log with a block that is not in use is not full.
LEMMA NotFull ==
  ASSUME TypeOK, UsedAreOpened, Cardinality(used) <= NumBlocks - 1 PROVE ~DeviceFull
<1>1. used # Blocks BY Counting, Sizes
<1>2. PICK b \in Blocks : b \notin used BY <1>1 DEF TypeOK
<1>3. state[First(b)] \in {"INVALID", "ERASED"} BY <1>2, PageFacts DEF UsedAreOpened, TypeOK
<1> QED BY <1>3 DEF DeviceFull, FreeBlocks

\* What a successful write_logging does to the count of blocks in use and to the
\* room under the cursor.
LEMMA LogRoom ==
  ASSUME TypeOK, LogInv, CursorBehind, NEW l, NEW d, WriteLogging(l, d)
  PROVE  /\ CursorBehind'
         /\ \/ /\ used' = used /\ current_block' = current_block
               /\ Ahead \in Nat \ {0} /\ Ahead' = Ahead - 1
            \/ /\ current_page = NoPage /\ current_block' \in Blocks \ used
               /\ used' = used \cup {current_block'} /\ Cardinality(used') = Cardinality(used) + 1
               /\ Ahead' = PagesPerBlock - 1
<1> USE PageFacts DEF TypeOK
<1>1. CASE /\ current_page \in Pages
           /\ current_block' = current_block /\ used' = used /\ current_page' = After(current_page)
           /\ state' = [q \in Pages |-> IF q = current_page THEN "VALID" ELSE state[q]]
  <2>1. current_page # NoPage /\ current_page[2] \in Offsets /\ current_page[1] = current_block
    BY <1>1 DEF LogInv, CursorAhead
  <2>2. current_block \in used BY <2>1 DEF LogInv, CursorAhead, UsedAreOpened
  <2>3. Ahead = PagesPerBlock - current_page[2] /\ Ahead \in Nat \ {0} BY <2>1, Sizes DEF Ahead, Offsets
  <2>4. Ahead' = Ahead - 1
    <3>1. CASE current_page[2] + 1 = PagesPerBlock
      <4>1. current_page' = NoPage BY <1>1, <3>1 DEF After
      <4> QED BY <2>1, <2>3, <3>1, <4>1, Sizes DEF Ahead, Offsets
    <3>2. CASE current_page[2] + 1 # PagesPerBlock
      <4>1. current_page' = <<current_page[1], current_page[2] + 1>> BY <1>1, <3>2 DEF After
      <4>2. current_page' # NoPage BY <2>1, <4>1, Sizes DEF NoPage, Offsets
      <4> QED BY <2>1, <2>3, <4>1, <4>2, Sizes DEF Ahead, Offsets
    <3> QED BY <3>1, <3>2
  <2>5. CursorBehind'
    <3> SUFFICES ASSUME NEW i \in Offsets, current_page' = NoPage \/ i < current_page'[2]
                 PROVE  state'[<<current_block, i>>] = "VALID"
      BY <1>1 DEF CursorBehind
    <3>1. i <= current_page[2]
      <4>1. CASE current_page[2] + 1 = PagesPerBlock BY <2>1, <4>1, Sizes DEF Offsets
      <4>2. CASE current_page[2] + 1 # PagesPerBlock
        <5>1. current_page' = <<current_page[1], current_page[2] + 1>> BY <1>1, <4>2 DEF After
        <5>2. current_page' # NoPage BY <2>1, <5>1, Sizes DEF NoPage, Offsets
        <5> QED BY <2>1, <5>1, <5>2, Sizes DEF Offsets
      <4> QED BY <4>1, <4>2
    <3>2. CASE i = current_page[2]
      <4>1. <<current_block, i>> = current_page BY <1>1, <2>1, <3>2
      <4> QED BY <1>1, <4>1
    <3>3. CASE i # current_page[2]
      <4>0. i \in Int /\ current_page[2] \in Int BY <2>1, Sizes DEF Offsets
      <4> DEFINE j == current_page[2]
      <4>1. i < j
        <5>1. i \in Int /\ j \in Int /\ i <= j /\ i # j BY <3>1, <3>3, <4>0
        <5> QED BY ONLY <5>1
      <4>2. state[<<current_block, i>>] = "VALID" BY <2>2, <4>1 DEF CursorBehind
      <4> QED BY <1>1, <4>2
    <3> QED BY <3>2, <3>3
  <2> QED BY <1>1, <2>3, <2>4, <2>5
<1>2. ASSUME NEW b \in Blocks \ used,
             current_block' = b, used' = used \cup {b}, current_page' = After(First(b)),
             state' = [q \in Pages |-> IF q = First(b) THEN "VALID"
                                      ELSE IF q[1] = b THEN "ERASED" ELSE state[q]]
      PROVE  /\ CursorBehind'
             /\ Cardinality(used') = Cardinality(used) + 1
             /\ Ahead' = PagesPerBlock - 1
  <2>1. Cardinality(used') = Cardinality(used) + 1 BY <1>2, Counting, FS_AddElement
  <2>2. CASE PagesPerBlock = 1
    <3>1. current_page' = NoPage BY <1>2, <2>2 DEF After, First
    <3>2. Offsets = {0} BY <2>2 DEF Offsets
    <3>3. state'[<<b, 0>>] = "VALID" BY <1>2 DEF First
    <3> QED BY <1>2, <2>1, <2>2, <3>1, <3>2, <3>3 DEF Ahead, CursorBehind
  <2>3. CASE PagesPerBlock # 1
    <3>1. current_page' = <<b, 1>> BY <1>2, <2>3 DEF After, First
    <3>2. current_page' # NoPage BY <3>1 DEF NoPage
    <3>3. \A i \in Offsets : i < 1 => i = 0 BY Sizes DEF Offsets
    <3>4. state'[<<b, 0>>] = "VALID" BY <1>2 DEF First
    <3>5. CursorBehind' BY <1>2, <3>1, <3>2, <3>3, <3>4 DEF CursorBehind
    <3> QED BY <1>2, <2>1, <3>1, <3>2, <3>5 DEF Ahead
  <2> QED BY <2>2, <2>3
<1> QED BY <1>1, <1>2, LogPlace

\* A copy keeps every live page but the one it supersedes, and brings no dead
\* page into any block but the one it empties.
LEMMA CopyKeeps ==
  ASSUME TypeOK, NEW page \in Pages, NEW l \in Logical, l = reverse_map[page], forward_map[l] = page,
         NEW p \in Pages, MapTo(l, p),
         \A q \in Pages \ {p} : state'[q] = "VALID" => state[q] = "VALID"
  PROVE  /\ \A q \in Pages \ {page} : IsLive(q) => IsLive(q)'
         /\ \A b \in Blocks \ {page[1]} : NoneDead(b) => NoneDead(b)'
         /\ \A b \in FullLive : b # page[1] => b \in FullLive'
<1> USE PageFacts DEF TypeOK
<1>0. l # NoLogical BY Sizes DEF Logical, NoLogical
<1>1. ASSUME NEW q \in Pages, q # page, IsLive(q) PROVE IsLive(q)'
  <2>1. CASE q = p BY <1>0, <2>1 DEF IsLive, MapTo
  <2>2. CASE q # p
    <3>1. reverse_map'[q] = reverse_map[q] BY <2>2 DEF MapTo
    <3>2. reverse_map[q] \in Logical /\ forward_map[reverse_map[q]] = q BY <1>1 DEF IsLive
    <3>3. reverse_map[q] # l BY <1>1, <3>2
    <3>4. forward_map'[reverse_map[q]] = q BY <3>2, <3>3 DEF MapTo
    <3> QED BY <1>1, <3>1, <3>4 DEF IsLive
  <2> QED BY <2>1, <2>2
<1>2. IsLive(p)' BY <1>0 DEF IsLive, MapTo
<1>3. ASSUME NEW b \in Blocks, b # page[1], NoneDead(b) PROVE NoneDead(b)'
  <2> SUFFICES ASSUME NEW i \in Offsets, state'[<<b, i>>] = "VALID" PROVE IsLive(<<b, i>>)'
    BY DEF NoneDead
  <2>1. <<b, i>> \in Pages /\ <<b, i>> # page BY <1>3
  <2>2. CASE <<b, i>> = p BY <1>2, <2>2
  <2>3. CASE <<b, i>> # p
    <3>1. IsLive(<<b, i>>) BY <1>3, <2>1, <2>3 DEF NoneDead
    <3> QED BY <1>1, <2>1, <3>1
  <2> QED BY <2>2, <2>3
<1>4. ASSUME NEW b \in FullLive, b # page[1] PROVE b \in FullLive'
  <2>1. b \in Blocks /\ \A i \in Offsets : IsLive(<<b, i>>) BY DEF FullLive, LiveIn
  <2>2. \A i \in Offsets : <<b, i>> \in Pages /\ <<b, i>> # page BY <1>4, <2>1
  <2>3. \A i \in Offsets : IsLive(<<b, i>>)' BY <1>1, <2>1, <2>2
  <2> QED BY <2>1, <2>3 DEF FullLive, LiveIn
<1> QED BY <1>1, <1>3, <1>4

\* A step of the scan looks at the block after the last one it looked at.
LEMMA LookedNext ==
  ASSUME TypeOK, scanned < NumBlocks, scanned' = scanned + 1, gc_current_block' = gc_current_block
  PROVE  Looked' = Looked \cup {ScanBlock}
<1>1. scanned \in Nat /\ gc_current_block \in Nat BY Sizes DEF TypeOK, Blocks
<1>2. ScanBlock = ScanAt(scanned) BY <1>1, Sizes DEF ScanAt, ScanBlock
<1>3. \A k : k \in 0 .. scanned' - 1 <=> k \in 0 .. scanned - 1 \/ k = scanned BY <1>1
<1>4. \A k : ScanAt(k)' = ScanAt(k) BY DEF ScanAt
<1>5. Looked' = {ScanAt(k) : k \in 0 .. scanned' - 1} BY <1>4 DEF Looked
<1>6. Looked = {ScanAt(k) : k \in 0 .. scanned - 1} BY DEF Looked
<1> QED BY ONLY <1>2, <1>3, <1>5, <1>6

\* A scan that has made NumBlocks steps has looked at every block.
LEMMA LookedAll ==
  ASSUME TypeOK, scanned = NumBlocks PROVE Blocks \subseteq Looked
<1> SUFFICES ASSUME NEW b \in Blocks PROVE \E k \in 0 .. NumBlocks - 1 : b = ScanAt(k)
  BY DEF Looked
<1> DEFINE k == IF b >= gc_current_block THEN b - gc_current_block ELSE b - gc_current_block + NumBlocks
<1>1. k \in 0 .. NumBlocks - 1 BY Sizes DEF TypeOK, Blocks
<1>2. b = ScanAt(k) BY Sizes DEF TypeOK, Blocks, ScanAt
<1> QED BY <1>1, <1>2

\* At the end of the scan two blocks are free again.
LEMMA ScanFrees ==
  ASSUME RoomEnough, TypeOK, scanned = NumBlocks, ScanLeaves
  PROVE  Cardinality(used) <= NumBlocks - 2
<1>1. PICK c \in Blocks : Looked \cap used \subseteq FullLive \cup {c, current_block} BY DEF ScanLeaves
<1> DEFINE F == FullLive
           G == F \cup {c}
           H == G \cup {current_block}
<1>2. used \subseteq H BY <1>1, LookedAll DEF TypeOK
<1>3. IsFiniteSet(F) /\ Cardinality(F) \in Nat BY Counting DEF FullLive
<1>4. Cardinality(F) <= NumLogical \div PagesPerBlock BY FullLiveFew
<1>5. IsFiniteSet(G) /\ Cardinality(G) \in Nat /\ Cardinality(G) <= Cardinality(F) + 1
  <2> HIDE DEF F
  <2>1. IsFiniteSet(G) /\ (Cardinality(G) = Cardinality(F) \/ Cardinality(G) = Cardinality(F) + 1)
    BY <1>3, FS_AddElement
  <2> HIDE DEF G
  <2> QED BY <1>3, <2>1
<1>6. IsFiniteSet(H) /\ Cardinality(H) \in Nat /\ Cardinality(H) <= Cardinality(G) + 1
  <2> HIDE DEF G
  <2>1. IsFiniteSet(H) /\ (Cardinality(H) = Cardinality(G) \/ Cardinality(H) = Cardinality(G) + 1)
    BY <1>5, FS_AddElement
  <2> HIDE DEF H
  <2> QED BY <1>5, <2>1
<1>7. Cardinality(used) <= Cardinality(H) BY <1>2, <1>6, FS_Subset
<1>8. Cardinality(used) \in Nat BY Counting, Sizes DEF TypeOK
<1> DEFINE quot == NumLogical \div PagesPerBlock
<1>9. quot \in Nat /\ quot + 4 <= NumBlocks /\ Cardinality(F) <= quot
  BY <1>4, Sizes DEF RoomEnough
<1> HIDE DEF F, G, H, quot
<1> QED BY <1>3, <1>5, <1>6, <1>7, <1>8, <1>9, Sizes

\* Every step keeps a free block for the next command and, while a block is
\* being emptied, the room its live pages need.
LEMMA RoomStep ==
  ASSUME RoomEnough, FlashInv, FlashInv', MapInv, RoomInv, [Next]_vars
  PROVE  RoomInv'
<1> USE PageFacts DEF FlashInv
<1> DEFINE n == Cardinality(used)
<1>0. n \in 0 .. NumBlocks /\ n' \in 0 .. NumBlocks /\ NumBlocks \in Nat
  BY Counting, Sizes DEF TypeOK
\* A step that leaves the log alone.
<1>a. ASSUME UNCHANGED <<ssd_type, state, used, current_page, current_block, dropped>>,
             out' # "full",
             pc \in {"upkeep", "scan"} /\ ssd_type = "log" => n <= NumBlocks - 1,
             pc' = "cmd" /\ ssd_type = "log" => n <= NumBlocks - 2,
             pc' \in {"upkeep", "scan", "copy"} /\ ssd_type = "log" => n <= NumBlocks - 1,
             pc' = "copy" /\ ssd_type = "log" => Cardinality(live') < PagesPerBlock,
             pc' \in {"scan", "copy"} /\ ssd_type = "log" => ScanLeaves'
      PROVE  RoomInv'
  <2>1. CursorBehind => CursorBehind' BY <1>a DEF CursorBehind
  <2> QED BY <1>a, <2>1 DEF RoomInv
<1>1. ASSUME NEW l \in Logical, NEW d \in Data, Write(l, d) PROVE RoomInv'
  <2>0. pc = "cmd" /\ pc' = "upkeep" /\ UNCHANGED <<ssd_type, dropped>> BY <1>1 DEF Write, Answered
  <2>1. CASE ssd_type # "log"
    <3>1. out' = "success" BY <1>1, <2>1 DEF Write
    <3> QED BY <2>0, <2>1, <3>1 DEF RoomInv
  <2>2. CASE ssd_type = "log"
    <3>1. n <= NumBlocks - 2 /\ CursorBehind /\ LogInv BY <2>0, <2>2 DEF RoomInv
    <3>2. n <= NumBlocks - 1 BY <1>0, <3>1
    <3>3. ~DeviceFull BY <3>1, <3>2, NotFull DEF LogInv
    <3>4. WriteLogging(l, d) /\ out' = "success" BY <1>1, <2>2, <3>3 DEF Write
    <3>5. CursorBehind' /\ (used' = used \/ n' = n + 1) BY <3>1, <3>4, LogRoom
    <3>6. n' <= NumBlocks - 1 BY <1>0, <3>1, <3>5
    <3> QED BY <2>0, <3>4, <3>5, <3>6 DEF RoomInv
  <2> QED BY <2>1, <2>2
<1>b. ASSUME Answered, UNCHANGED <<state, used, current_page, current_block>>, out' # "full"
      PROVE  RoomInv'
  <2>1. pc = "cmd" /\ pc' = "upkeep" /\ UNCHANGED <<ssd_type, dropped>> BY <1>b DEF Answered
  <2>2. ssd_type = "log" => n <= NumBlocks - 1
    <3>1. ssd_type = "log" => n <= NumBlocks - 2 BY <2>1 DEF RoomInv
    <3> QED BY <1>0, <3>1
  <2> QED BY <1>a, <1>b, <2>1, <2>2
<1>2. ASSUME NEW l \in Logical, Trim(l) PROVE RoomInv'
  BY <1>2, <1>b DEF Trim, Refuse, flash, cursor
<1>3. ASSUME NEW l \in Logical, Read(l) PROVE RoomInv'
  <2>1. "full" \notin Data BY SSDAssumption, Zenon
  <2>2. forward_map[l] # NoPage => data[forward_map[l]] # "full" BY <2>1 DEF TypeOK, Blank
  <2>3. out' # "full" BY <1>3, <2>2 DEF Read
  <2> QED BY <1>3, <1>b, <2>3 DEF Read, flash, cursor
<1>4. CASE Illegal
  BY <1>4, <1>b DEF Illegal, Refuse, flash, cursor
<1>5. CASE Upkeep
  <2>1. /\ UNCHANGED <<ssd_type, state, used, current_page, current_block, dropped>>
        /\ pc = "upkeep" /\ out' = "none" /\ scanned' = 0
        /\ pc' = IF n >= HighWater THEN "scan" ELSE "cmd"
    BY <1>5 DEF Upkeep, flash, cursor
  <2>2. ssd_type = "log" => n <= NumBlocks - 1 BY <2>1 DEF RoomInv
  <2>3. pc' = "cmd" => n <= NumBlocks - 2 BY <1>0, <2>1, Sizes DEF RoomEnough
  <2>4. ScanLeaves'
    <3>1. 0 .. 0 - 1 = {} OBVIOUS
    <3>2. Looked' = {} BY <2>1, <3>1 DEF Looked, ScanAt
    <3>3. current_block' \in Blocks BY DEF TypeOK
    <3> QED BY <3>2, <3>3 DEF ScanLeaves
  <2>5. pc' # "copy" BY <2>1
  <2> QED BY <1>a, <2>1, <2>2, <2>3, <2>4, <2>5
<1>6. CASE Scan
  <2>1. /\ UNCHANGED <<ssd_type, state, used, current_page, current_block, dropped, out>>
        /\ UNCHANGED <<forward_map, reverse_map, gc_current_block>>
        /\ pc = "scan" /\ scanned < NumBlocks
    BY <1>6 DEF Scan, flash, cursor, maps
  <2>2. ssd_type = "log" BY <2>1 DEF InPlaceInv
  <2>3. n <= NumBlocks - 1 /\ ScanLeaves /\ out # "full" BY <2>1, <2>2 DEF RoomInv
  <2>4. ScanBlock \in Blocks BY <2>1, ScanBlockType
  <2>5. /\ FullLive' = FullLive
        /\ \A b : NoneDead(b)' <=> NoneDead(b)
    BY <2>1 DEF FullLive, LiveIn, IsLive, NoneDead
  <2>6. PICK c \in Blocks : /\ current_block = c \/ NoneDead(current_block)
                            /\ Looked \cap used \subseteq FullLive \cup {c, current_block}
    BY <2>3 DEF ScanLeaves
  <2>7. ASSUME Looked' \cap used \subseteq FullLive \cup {c, current_block} PROVE ScanLeaves'
    BY <2>1, <2>5, <2>6, <2>7 DEF ScanLeaves
  <2>8. CASE Skipped(ScanBlock)
    <3>1. scanned' = scanned + 1 /\ pc' = "scan" BY <1>6, <2>1, <2>8 DEF Scan
    <3>2. Looked' = Looked \cup {ScanBlock} BY <2>1, <3>1, LookedNext
    <3>3. ScanBlock \in used => ScanBlock \in FullLive \cup {current_block}
      BY <2>2, <2>4, <2>8 DEF Skipped, LogInv, UsedAreOpened, FullLive
    <3>4. ScanLeaves' BY <2>6, <2>7, <3>2, <3>3
    <3> QED BY <1>a, <2>1, <2>3, <3>1, <3>4
  <2>9. CASE ~Skipped(ScanBlock)
    <3>1. scanned' = scanned /\ pc' = "copy" /\ live' = LiveIn(ScanBlock) BY <1>6, <2>9 DEF Scan
    <3>2. Looked' = Looked BY <2>1, <3>1 DEF Looked, ScanAt
    <3>3. ScanLeaves' BY <2>6, <2>7, <3>2
    <3>4. live' \in SUBSET Offsets /\ live' # Offsets BY <2>9, <3>1 DEF Skipped, LiveIn
    <3>5. Cardinality(live') < PagesPerBlock BY <3>4, Counting, Sizes
    <3> QED BY <1>a, <2>1, <2>3, <3>1, <3>3, <3>5
  <2> QED BY <2>8, <2>9
<1>7. CASE ScanEnds
  <2>1. /\ UNCHANGED <<ssd_type, state, used, current_page, current_block, dropped, out>>
        /\ pc = "scan" /\ pc' = "cmd" /\ scanned = NumBlocks
    BY <1>7 DEF ScanEnds, flash, cursor
  <2>2. ssd_type = "log" BY <2>1 DEF InPlaceInv
  <2>3. n <= NumBlocks - 1 /\ ScanLeaves /\ out # "full" BY <2>1, <2>2 DEF RoomInv
  <2>4. n <= NumBlocks - 2 BY <2>1, <2>3, ScanFrees
  <2> QED BY <1>a, <2>1, <2>3, <2>4
<1>8. CASE Copy
  <2>1. PICK i \in live : CopyPage(<<ScanBlock, i>>) /\ live' = live \ {i} BY <1>8 DEF Copy
  <2>2. UNCHANGED <<ssd_type, gc_current_block, scanned, pc, out>> /\ pc = "copy" BY <1>8 DEF Copy
  <2> DEFINE page == <<ScanBlock, i>>
             l == reverse_map[page]
             m == Cardinality(live)
  <2>3. ssd_type = "log" /\ scanned < NumBlocks /\ ScanBlock' = ScanBlock /\ ScanBlock # current_block
    BY <2>2 DEF CopyInv, ScanBlock
  <2>4. page \in Pages /\ page[1] = ScanBlock /\ ScanBlock \in Blocks BY <2>3, ScanBlockType DEF TypeOK
  <2>5. l \in Logical /\ forward_map[l] = page BY <2>1, <2>2, <2>4 DEF MapInv, IsLive, TypeOK
  <2>6. data[page] \in Data \cup {Blank} BY <2>4 DEF TypeOK
  <2>7. /\ CursorBehind /\ ScanLeaves /\ LogInv /\ ~dropped /\ out # "full" /\ m < PagesPerBlock
        /\ n <= NumBlocks - 1 \/ (ScanBlock \in used /\ m <= Ahead)
    BY <2>2, <2>3 DEF RoomInv
  <2>8. m \in Nat \ {0} /\ Cardinality(live') = m - 1
    <3>1. IsFiniteSet(live) /\ m \in Nat BY Counting DEF TypeOK
    <3>2. m # 0 BY <2>1, <3>1, FS_EmptySet
    <3>3. Cardinality(live') = m - 1 BY <2>1, <3>1, FS_RemoveElement
    <3> QED BY <3>1, <3>2, <3>3
  <2> HIDE DEF m
  <2>9. ~DeviceFull
    <3>1. CASE n <= NumBlocks - 1 BY <2>7, <3>1, NotFull DEF LogInv
    <3>2. CASE m <= Ahead
      <4>1. Ahead # 0 BY <2>8, <3>2
      <4> QED BY <4>1 DEF Ahead, DeviceFull
    <3> QED BY <2>7, <3>1, <3>2
  <2>10. WriteLogging(l, data[page]) /\ dropped' = dropped BY <2>1, <2>9 DEF CopyPage
  <2>l. l = reverse_map[page] OBVIOUS
  <2> HIDE DEF l, page
  <2>11. /\ CursorBehind'
         /\ \/ /\ used' = used /\ current_block' = current_block
               /\ Ahead \in Nat \ {0} /\ Ahead' = Ahead - 1
            \/ /\ current_page = NoPage /\ current_block' \in Blocks \ used
               /\ used' = used \cup {current_block'} /\ n' = n + 1
               /\ Ahead' = PagesPerBlock - 1
    BY <2>7, <2>10, LogRoom
  <2>12. PICK p \in Pages : /\ MapTo(l, p)
                            /\ \A q \in Pages \ {p} : state'[q] = "VALID" => state[q] = "VALID"
    BY <2>5, <2>6, <2>7, <2>10, LogWrite
  <2>13. /\ \A b \in Blocks \ {ScanBlock} : NoneDead(b) => NoneDead(b)'
         /\ \A b \in FullLive : b # ScanBlock => b \in FullLive'
    BY <2>4, <2>5, <2>l, <2>12, CopyKeeps
  <2>14. ScanBlock \notin FullLive
    <3>1. LiveIn(ScanBlock) \subseteq live
      <4> SUFFICES ASSUME NEW j \in Offsets, IsLive(<<ScanBlock, j>>) PROVE j \in live
        BY DEF LiveIn
      <4> DEFINE q == <<ScanBlock, j>>
                 k == reverse_map[q]
      <4>1. q \in Pages /\ q[1] = ScanBlock /\ q[2] = j BY <2>4
      <4>2. k \in Logical /\ forward_map[k] = q BY <4>1 DEF IsLive, TypeOK
      <4> HIDE DEF k, q
      <4>3. Mapped(k) BY <4>1, <4>2 DEF Mapped
      <4> QED BY <2>2, <4>1, <4>2, <4>3 DEF MapInv
    <3>2. live # Offsets BY <2>7, <2>8, Counting DEF m
    <3> QED BY <3>1, <3>2 DEF FullLive, TypeOK
  <2>15. ScanLeaves'
    <3>1. PICK c \in Blocks : /\ current_block = c \/ NoneDead(current_block)
                              /\ Looked \cap used \subseteq FullLive \cup {c, current_block}
      BY <2>7 DEF ScanLeaves
    <3>2. Looked' = Looked /\ FullLive \subseteq FullLive' BY <2>2, <2>13, <2>14 DEF Looked, ScanAt
    <3>3. CASE used' = used /\ current_block' = current_block
      <4>1. PICK e \in Blocks \ {ScanBlock} : e = current_block BY <2>3 DEF TypeOK
      <4>2. NoneDead(e) => NoneDead(e)' BY <2>13
      <4>3. e = c \/ NoneDead(e)' BY <3>1, <4>1, <4>2
      <4>4. Looked' \cap used' \subseteq FullLive' \cup {c, e} BY <3>1, <3>2, <3>3, <4>1
      <4> QED BY <3>3, <4>1, <4>3, <4>4 DEF ScanLeaves, NoneDead
    <3>4. CASE /\ current_page = NoPage /\ current_block' \in Blocks \ used
               /\ used' = used \cup {current_block'}
      <4>1. PICK b \in Blocks \ {ScanBlock} : b = current_block' BY <2>2, <2>3, <3>4 DEF CopyInv
      <4>2. \A j \in Offsets : state[<<b, j>>] # "VALID"
        BY <2>7, <3>4, <4>1 DEF LogInv, BlocksUniform, UsedAreOpened
      <4>3. NoneDead(b) BY <4>2 DEF NoneDead
      <4>4. NoneDead(b)' BY <2>13, <4>3
      <4>5. current_block \in used => current_block = c \/ current_block \in FullLive
        <5> SUFFICES ASSUME current_block \in used, NoneDead(current_block) PROVE current_block \in FullLive
          BY <3>1
        <5>1. \A j \in Offsets : state[<<current_block, j>>] = "VALID" BY <2>7, <3>4 DEF CursorBehind
        <5>2. \A j \in Offsets : IsLive(<<current_block, j>>) BY <5>1 DEF NoneDead
        <5> QED BY <5>2 DEF FullLive, LiveIn, TypeOK
      <4>6. Looked' \cap used' \subseteq FullLive' \cup {c, current_block'}
        BY <3>1, <3>2, <3>4, <4>5
      <4> QED BY <4>1, <4>4, <4>6 DEF ScanLeaves, NoneDead
    <3> QED BY <2>11, <3>3, <3>4
  <2>16. \/ n' <= NumBlocks - 1
         \/ ScanBlock' \in used' /\ Cardinality(live') <= Ahead'
    <3> HIDE DEF n
    <3>1. ScanBlock \in used
      <4>1. state[First(ScanBlock)] = "VALID" BY <2>1, <2>2 DEF CopyInv
      <4> QED BY <2>4, <2>7, <4>1 DEF LogInv, UsedAreOpened
    <3>2. CASE used' = used /\ Ahead \in Nat \ {0} /\ Ahead' = Ahead - 1
      <4>1. n' = n BY <3>2 DEF n
      <4>2. CASE n <= NumBlocks - 1 BY <4>1, <4>2
      <4>3. CASE m <= Ahead
        <5>1. Cardinality(live') <= Ahead' BY <2>8, <3>2, <4>3
        <5> QED BY <2>3, <3>1, <3>2, <5>1
      <4> QED BY <2>7, <4>2, <4>3
    <3>3. CASE current_page = NoPage /\ used' = used \cup {current_block'} /\ Ahead' = PagesPerBlock - 1
      <4>1. Cardinality(live') <= Ahead' BY <2>7, <2>8, <3>3, Sizes
      <4> QED BY <2>3, <3>1, <3>3, <4>1
    <3> QED BY <2>11, <3>2, <3>3
  <2>17. Cardinality(live') < PagesPerBlock BY <2>7, <2>8, Sizes
  <2> QED BY <2>2, <2>7, <2>10, <2>11, <2>15, <2>16, <2>17 DEF RoomInv
<1>9. CASE Erase
  <2> DEFINE b == ScanBlock
  <2>1. /\ pc = "copy" /\ UNCHANGED <<ssd_type, current_page, current_block, out, dropped>>
        /\ UNCHANGED <<forward_map, reverse_map>>
        /\ used' = used \ {b}
        /\ state' = [q \in Pages |-> IF q[1] = b THEN "ERASED" ELSE state[q]]
    BY <1>9 DEF Erase, maps
  <2>2. \/ n' <= LowWater /\ pc' = "cmd"
        \/ pc' = "scan" /\ scanned' = scanned + 1 /\ gc_current_block' = gc_current_block
    BY <1>9 DEF Erase
  <2>3. ssd_type = "log" /\ b # current_block /\ scanned < NumBlocks BY <2>1 DEF CopyInv
  <2>4. b \in Blocks /\ current_block \in Blocks BY <2>3, ScanBlockType DEF TypeOK
  <2>5. /\ CursorBehind /\ ScanLeaves /\ ~dropped /\ out # "full"
        /\ n <= NumBlocks - 1 \/ b \in used
    BY <2>1, <2>3 DEF RoomInv
  <2>6. n' <= NumBlocks - 1
    <3>1. IsFiniteSet(used) BY Counting DEF TypeOK
    <3>2. CASE b \in used
      <4>1. n' = n - 1 BY <2>1, <3>1, <3>2, FS_RemoveElement
      <4> QED BY <1>0, <4>1
    <3>3. CASE b \notin used
      <4>1. used' = used BY <2>1, <3>3
      <4> QED BY <2>5, <3>3, <4>1
    <3> QED BY <3>2, <3>3
  <2>7. pc' = "cmd" => n' <= NumBlocks - 2 BY <1>0, <2>2, Sizes DEF RoomEnough
  <2> HIDE DEF b
  <2>8. \A c \in Blocks \ {b}, j \in Offsets : state'[<<c, j>>] = state[<<c, j>>] BY <2>1
  <2>9. CursorBehind' BY <2>1, <2>3, <2>4, <2>5, <2>8 DEF CursorBehind
  <2>10. ASSUME pc' = "scan" PROVE ScanLeaves'
    <3>1. Looked' = Looked \cup {b} BY <2>2, <2>3, <2>10, LookedNext DEF b
    <3>2. FullLive' = FullLive BY <2>1 DEF FullLive, LiveIn, IsLive
    <3>3. PICK c \in Blocks : /\ current_block = c \/ NoneDead(current_block)
                              /\ Looked \cap used \subseteq FullLive \cup {c, current_block}
      BY <2>5 DEF ScanLeaves
    <3>4. NoneDead(current_block) =>
            \A j \in Offsets : state'[<<current_block, j>>] = "VALID" => IsLive(<<current_block, j>>)'
      BY <2>1, <2>3, <2>4, <2>8 DEF NoneDead, IsLive
    <3> QED BY <2>1, <3>1, <3>2, <3>3, <3>4 DEF ScanLeaves, NoneDead
  <2> QED BY <2>1, <2>2, <2>5, <2>6, <2>7, <2>9, <2>10 DEF RoomInv
<1>10. CASE UNCHANGED vars
  <2>1. /\ UNCHANGED <<ssd_type, state, used, current_page, current_block, dropped, out, pc>>
        /\ UNCHANGED <<forward_map, reverse_map, gc_current_block, scanned, live>>
    BY <1>10 DEF vars, flash, cursor, maps, gc
  <2>2. CursorBehind => CursorBehind' BY <2>1 DEF CursorBehind
  <2>3. Ahead' = Ahead /\ ScanBlock' = ScanBlock BY <2>1 DEF Ahead, ScanBlock
  <2>4. Looked' = Looked BY <2>1 DEF Looked, ScanAt
  <2>5. FullLive' = FullLive BY <2>1 DEF FullLive, LiveIn, IsLive
  <2>6. NoneDead(current_block) => NoneDead(current_block)' BY <2>1 DEF NoneDead, IsLive
  <2>7. ScanLeaves => ScanLeaves' BY <2>1, <2>4, <2>5, <2>6 DEF ScanLeaves
  <2> QED BY <2>1, <2>2, <2>3, <2>7 DEF RoomInv
<1> QED BY <1>1, <1>2, <1>3, <1>4, <1>5, <1>6, <1>7, <1>8, <1>9, <1>10 DEF Next

\* On a device with room enough all three invariants hold in every state.
LEMMA RoomInvHolds == ASSUME RoomEnough PROVE Spec => [](FlashInv /\ MapInv /\ RoomInv)
<1>1. Init => RoomInv
  <2> SUFFICES ASSUME Init PROVE RoomInv OBVIOUS
  <2>1. Cardinality(used) = 0 BY FS_EmptySet DEF Init
  <2>2. NumLogical \div PagesPerBlock \in Nat BY Sizes
  <2>3. 0 <= NumBlocks - 2 BY <2>2, Sizes DEF RoomEnough
  <2> QED BY <2>1, <2>3 DEF Init, RoomInv, CursorBehind
<1>2. FlashInv /\ FlashInv' /\ (~dropped => MapInv) /\ RoomInv /\ [Next]_vars => RoomInv'
  <2> SUFFICES ASSUME FlashInv, FlashInv', ~dropped => MapInv, RoomInv, [Next]_vars PROVE RoomInv' OBVIOUS
  <2>1. MapInv BY DEF RoomInv
  <2> QED BY <2>1, RoomStep
<1>3. RoomInv => ~dropped BY DEF RoomInv
<1> QED BY <1>1, <1>2, <1>3, FlashSound, MapInvHolds, PTL DEF Spec

\* On a device with room enough no write is ever refused and the collector
\* always finds a place for the live pages it moves, whatever is written and
\* trimmed and in whatever order.
THEOREM NeverRefused == ASSUME RoomEnough PROVE Spec => []NeverFull
<1>1. RoomInv => NeverFull BY DEF RoomInv, NeverFull
<1> QED BY <1>1, RoomInvHolds, PTL

\* On such a device the maps are therefore consistent without a proviso.
THEOREM MapsAlwaysSound == ASSUME RoomEnough PROVE Spec => []MapsConsistent
<1>1. RoomInv => ~dropped BY DEF RoomInv
<1> QED BY <1>1, RoomInvHolds, MapsSound, PTL

\* And the device is the array of logical pages: garbage collection never loses
\* or changes what the host wrote.
THEOREM StoreAlwaysRefined == ASSUME RoomEnough PROVE Spec => ImplementsStore
<1>1. RoomInv => ~dropped BY DEF RoomInv
<1> QED BY <1>1, RoomInvHolds, StoreRefinement, PTL
====
