------------------------------ MODULE MCMemory ------------------------------
(* Virtual memory: the two allocators, page replacement and address          *)
(* translation, each run alone.                                              *)
EXTENDS MM, Sequences
CONSTANTS ListStart, ListSize, ListSizes, Options, MaxAllocs,   \* those of malloc.py
          Runs, Traces,                                         \* paging-policy.py
          pageSize, physPages, vpages, Allocated,               \* the page tables
          Machines, Given                                       \* relocation.py, segmentation.py
ASSUME ListAssumption ==
  /\ ListStart \in Nat /\ ListSize \in Nat \ {0} /\ MaxAllocs \in Nat /\ ListSizes \subseteq Nat
  /\ Options \subseteq
       [policy : {"FIRST", "BEST", "WORST"}, coalesce : BOOLEAN, align : {-1} \cup (Nat \ {0}),
        order : {"ADDRSORT", "SIZESORT+", "SIZESORT-", "INSERT-FRONT", "INSERT-BACK"},
        headerSize : Nat, list : BOOLEAN]
  /\ \A n \in ListSizes, o \in Options : n + o.headerSize > 0
ASSUME ReplacementAssumption ==
  /\ Runs \subseteq [policy : {"FIFO", "LRU", "MRU", "RAND", "CLOCK", "OPT", "UNOPT"},
                    cachesize : Nat \ {0}, clockbits : Nat]
  /\ Traces \subseteq Seq(Nat)
ASSUME TranslationAssumption ==
  /\ {pageSize, physPages} \subseteq Nat \ {0} /\ vpages \in Nat
  /\ Machines \subseteq [asize : Nat, psize : Nat]
  /\ Given \subseteq [base0 : Nat \cup {-1}, len0 : Nat \cup {-1}, base1 : Nat \cup {-1}, len1 : Nat \cup {-1}]

VARIABLES package,
  freelist, sizemap, p, c, up, options,
  run, addrList, addrIndex, cache, count, ref, hits, miss, scanning,
  kind, numPages, used, usedPagesCount, pt, memory, pdbr, mapped, filling,
  asize, psize, given, base0, len0, base1, len1, stage

F == INSTANCE FreeSpace WITH start <- ListStart, size <- ListSize, Sizes <- ListSizes
P == INSTANCE PagePolicy WITH memory <- cache
T == INSTANCE PageTables WITH state <- filling
G == INSTANCE Registers

MCHandles == 1..3
Option(policy, order, coalesce, align, header, list) ==
  [policy |-> policy, order |-> order, coalesce |-> coalesce, align |-> align,
   headerSize |-> header, list |-> list]
MCOptions ==
  {Option(policy, order, coalesce, -1, 1, list) :
     policy \in {"FIRST", "BEST", "WORST"}, coalesce \in BOOLEAN, list \in BOOLEAN,
     order \in {"ADDRSORT", "SIZESORT+", "SIZESORT-", "INSERT-FRONT", "INSERT-BACK"}}
  \cup {Option("BEST", "ADDRSORT", TRUE, 4, 0, FALSE)}
MCRuns ==
  [policy : {"FIFO", "LRU", "MRU", "RAND", "OPT", "UNOPT"}, cachesize : 1..3, clockbits : {2}]
  \cup [policy : {"CLOCK"}, cachesize : 1..3, clockbits : {0, 1, 2}]
(* Every list of six references to at most four pages, pages named in the    *)
(* order of their first reference: the policies never compare names.         *)
MCTraces ==
  {t \in [1..6 -> 1..4] : \A i \in 1..6 : t[i] = 1 \/ \E k \in 1..i - 1 : t[i] <= t[k] + 1}
Registers(b0, l0, b1, l1) == [base0 |-> b0, len0 |-> l0, base1 |-> b1, len1 |-> l1]
MCGiven ==
  {Registers(-1, -1, -1, -1), Registers(-1, 4, -1, 4), Registers(2, 4, -1, 3), Registers(0, 3, 18, 3),
   Registers(16, 5, -1, -1), Registers(0, 0, 20, 0)}
MCMachines == {[asize |-> a, psize |-> s] : a \in {7, 8}, s \in {8, 16, 18}}

fvars == <<freelist, sizemap, p, c, up, options>>
pvars == <<run, addrList, addrIndex, cache, count, ref, hits, miss, scanning>>
tvars == <<numPages, used, usedPagesCount, pt, memory, pdbr, mapped, filling>>
gvars == <<asize, psize, given, base0, len0, base1, len1, stage>>

NoHeaps == Init /\ F!Init /\ NEXT_FIT = FALSE /\ options = CHOOSE o \in Options : TRUE
NoP == /\ run = 0 /\ addrList = 0 /\ addrIndex = 0 /\ cache = 0 /\ count = 0 /\ ref = 0 /\ hits = 0
       /\ miss = 0 /\ scanning = 0
NoT == /\ numPages = 0 /\ used = 0 /\ usedPagesCount = 0 /\ pt = 0 /\ memory = 0 /\ pdbr = 0
       /\ mapped = 0 /\ filling = 0
NoG == /\ asize = 0 /\ psize = 0 /\ given = 0 /\ base0 = 0 /\ len0 = 0 /\ base1 = 0 /\ len1 = 0
       /\ stage = 0
MCInit ==
  \/ /\ Init /\ F!Init /\ NoP /\ NoT /\ NoG /\ kind = 0
     /\ \/ package = "mm.c" /\ options = CHOOSE o \in Options : TRUE
        \/ package = "malloc.py" /\ NEXT_FIT = FALSE
  \/ package = "paging-policy.py" /\ NoHeaps /\ P!Init /\ NoT /\ NoG /\ kind = 0
  \/ package = "page tables" /\ T!Init /\ NoHeaps /\ NoP /\ NoG
  \/ package = "registers" /\ G!Init /\ NoHeaps /\ NoP /\ NoT
MCNext ==
  /\ \/ package = "mm.c" /\ Next /\ UNCHANGED <<fvars, pvars, tvars, gvars, kind>>
     \/ package = "malloc.py" /\ F!Next /\ UNCHANGED <<vars, pvars, tvars, gvars, kind>>
     \/ package = "paging-policy.py" /\ P!Next /\ UNCHANGED <<vars, fvars, tvars, gvars, kind>>
     \/ package = "page tables" /\ T!Next /\ UNCHANGED <<vars, fvars, pvars, gvars>>
     \/ package = "registers" /\ G!Next /\ UNCHANGED <<vars, fvars, pvars, tvars>>
  /\ UNCHANGED package
MCSpec == MCInit /\ [][MCNext]_<<vars, fvars, pvars, tvars, gvars, kind, package>>

Of(name, property) == package = name => property

(* Every program's state, and what the allocators hand out, are well typed.  *)
MemoryTypeOK ==
  /\ Of("mm.c", TypeOK) /\ Of("malloc.py", F!TypeOK) /\ Of("paging-policy.py", P!TypeOK)
  /\ Of("page tables", T!TypeOK) /\ Of("registers", G!TypeOK)
(* mm.c's blocks are tagged alike at both ends, tile the heap, no two free   *)
(* ones are neighbours and the rover is on one of them.  malloc.py's chunks, *)
(* free and allocated, tile its heap; a list by address stays sorted though  *)
(* it is sorted only on free, and with -C no two of its chunks are           *)
(* neighbours; the random driver loses no pointer.                           *)
HeapsConsistent ==
  /\ Of("mm.c", HeapConsistent)
  /\ Of("malloc.py", F!Tiled /\ F!SortedAndMerged /\ F!PointersCurrent)
(* Both packages are allocators: whatever the build of mm.c, the policy, the *)
(* order and the driver of malloc.py, regions in use are apart, aligned and  *)
(* inside the heap, and change only by what malloc, free and realloc do.     *)
ImplementAllocator == ImplementsAllocator /\ F!ImplementsAllocator
(* The page cache is what its policy says: a set within its size, ordered by *)
(* last use where the policy reads the order.                                *)
CacheKept == Of("paging-policy.py", P!CacheSound /\ P!OrderKept)
(* OPT misses as little as any choice of victims allows, and no policy       *)
(* misses less; CLOCK's scan ends.                                           *)
ReplacementSound ==
  /\ [](Of("paging-policy.py", P!OptimalIsBest))
  /\ [][Of("paging-policy.py", P!ScanNearer)]_pvars
(* Translation is sound: no two valid virtual addresses share a byte of      *)
(* memory, all are inside it and within bounds, and the walk of a table kept *)
(* in the memory it maps finds exactly the pages given to the process.       *)
TranslationSound ==
  /\ Of("page tables", T!LinearSound /\ T!WalkFindsAll)
  /\ Of("registers", G!PlacementSound /\ G!BoundsKept)
=============================================================================
