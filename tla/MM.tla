--------------------------------- MODULE MM ---------------------------------
(***************************************************************************)
(* The malloc package of vm/malloc/mm.c over the heap of memlib.c, word by *)
(* word: an implicit list of blocks with boundary tags, first fit or next  *)
(* fit, immediate coalescing.  Addresses and sizes are in bytes, counted   *)
(* from the start of the heap.  A word is a number: a tag of the allocator *)
(* (PACK), or below 0 what a client has stored.                            *)
(*                                                                         *)
(* The client keeps pointers it was given, stores its own mark in all it   *)
(* has asked for, and frees or resizes only what it holds.                 *)
(***************************************************************************)
EXTENDS Integers, FiniteSets, FiniteSetsExt

CONSTANTS MAX_HEAP, CHUNKSIZE,
          Sizes,                \* the sizes asked for
          Handles               \* where the client keeps its pointers: 1..n

ASSUME MMAssumption ==
  /\ MAX_HEAP \in Nat /\ MAX_HEAP % 8 = 0 /\ MAX_HEAP >= 16
  /\ CHUNKSIZE \in Nat /\ CHUNKSIZE % 8 = 0 /\ CHUNKSIZE >= 16
  /\ Sizes \subseteq Nat \ {0} /\ Handles \subseteq Nat \ {0}

VARIABLES mem, mem_brk,
          heap_listp, rover,
          NEXT_FIT,             \* whether the package is built with NEXT_FIT
          held                  \* the pointer and the size in each handle

vars == <<mem, mem_brk, heap_listp, rover, NEXT_FIT, held>>

WSIZE == 4
DSIZE == 8
NULL == 0
Garbage == -100                 \* what a word holds before it is first written
Nothing == [ptr |-> NULL, size |-> 0]

(* The package's own state, as its functions pass it on. *)
Heap == [mem |-> mem, brk |-> mem_brk, listp |-> heap_listp, rover |-> rover]
-----------------------------------------------------------------------------
(* Words and tags. *)

PACK(size, alloc) == size + alloc
GET_SIZE(H, p) == H.mem[p] - (H.mem[p] % 8)
GET_ALLOC(H, p) == H.mem[p] % 2
HDRP(bp) == bp - WSIZE
FTRP(H, bp) == bp + GET_SIZE(H, HDRP(bp)) - DSIZE
NEXT_BLKP(H, bp) == bp + GET_SIZE(H, HDRP(bp))
PREV_BLKP(H, bp) == bp - GET_SIZE(H, bp - DSIZE)

PUT(H, p, val) == [H EXCEPT !.mem[p] = val]
(* Header, then footer: where the footer is depends on the header written. *)
Tagged(H, bp, size, alloc) ==
  LET headed == PUT(H, HDRP(bp), PACK(size, alloc))
  IN PUT(headed, FTRP(headed, bp), PACK(size, alloc))
-----------------------------------------------------------------------------
(* The functions of mm.c, each the heap it leaves and what it returns. *)

Returning(H, bp) == [H |-> H, bp |-> bp]

RoveredNever(H, bp) == H
Rovered(H, bp) ==
  IF NEXT_FIT /\ bp < H.rover /\ H.rover < NEXT_BLKP(H, bp) THEN [H EXCEPT !.rover = bp] ELSE H

MergedNext(H, bp, sum) == Returning(Tagged(H, bp, sum, 0), bp)
Merged(H, bp, size, prev_alloc, next_alloc) ==
  CASE prev_alloc /\ ~next_alloc ->
         MergedNext(H, bp, size + GET_SIZE(H, HDRP(NEXT_BLKP(H, bp))))
    [] ~prev_alloc /\ next_alloc ->
         LET prev == PREV_BLKP(H, bp)
             sum == size + GET_SIZE(H, HDRP(prev))
         IN Returning(PUT(PUT(H, FTRP(H, bp), PACK(sum, 0)), HDRP(prev), PACK(sum, 0)), prev)
    [] OTHER ->
         LET prev == PREV_BLKP(H, bp)
             next == NEXT_BLKP(H, bp)
             sum == size + GET_SIZE(H, HDRP(prev)) + GET_SIZE(H, FTRP(H, next))
         IN Returning(PUT(PUT(H, HDRP(prev), PACK(sum, 0)), FTRP(H, next), PACK(sum, 0)), prev)

CoalesceNextOnly(H, bp) ==
  IF GET_ALLOC(H, HDRP(NEXT_BLKP(H, bp))) = 1 THEN Returning(H, bp)
  ELSE MergedNext(H, bp, GET_SIZE(H, HDRP(bp)) + GET_SIZE(H, HDRP(NEXT_BLKP(H, bp))))
Coalesce(H, bp) ==
  LET prev_alloc == GET_ALLOC(H, FTRP(H, PREV_BLKP(H, bp))) = 1
      next_alloc == GET_ALLOC(H, HDRP(NEXT_BLKP(H, bp))) = 1
      merged == Merged(H, bp, GET_SIZE(H, HDRP(bp)), prev_alloc, next_alloc)
  IN IF prev_alloc /\ next_alloc
       THEN Returning(H, bp)
       ELSE [merged EXCEPT !.H = Rovered(@, merged.bp)]

SbrkUnmoved(H, incr) == H
Sbrk(H, incr) == [H EXCEPT !.brk = @ + incr]
CanGrow(H, incr) == H.brk + incr <= MAX_HEAP
ExtendHeap(H, words) ==
  LET size == (words + (words % 2)) * WSIZE
      grown == Tagged(Sbrk(H, size), H.brk, size, 0)
  IN IF CanGrow(H, size)
       THEN Coalesce(PUT(grown, HDRP(NEXT_BLKP(grown, H.brk)), PACK(0, 1)), H.brk)
       ELSE Returning(H, NULL)

Place(H, bp, asize) ==
  LET csize == GET_SIZE(H, HDRP(bp))
      placed == Tagged(H, bp, asize, 1)
  IN IF csize - asize >= 2 * DSIZE
       THEN Tagged(placed, NEXT_BLKP(placed, bp), csize - asize, 0)
       ELSE Tagged(H, bp, csize, 1)

(* The blocks from bp on, by following the sizes in the headers to the one  *)
(* of size 0, which leads to itself.                                        *)
BlocksFrom(H, bp) ==
  LET within[steps \in Nat] ==
        IF steps = 0 THEN {bp} ELSE UNION {{p, NEXT_BLKP(H, p)} : p \in within[steps - 1]}
  IN {p \in within[MAX_HEAP \div DSIZE] : GET_SIZE(H, HDRP(p)) # 0}
FittingFrom(H, bp, asize) ==
  {p \in BlocksFrom(H, bp) : GET_ALLOC(H, HDRP(p)) = 0 /\ asize <= GET_SIZE(H, HDRP(p))}

FindFit(H, asize) ==
  LET ahead == FittingFrom(H, IF NEXT_FIT THEN H.rover ELSE H.listp, asize)
      behind == {p \in FittingFrom(H, H.listp, asize) : NEXT_FIT /\ p < H.rover}
      found == IF ahead # {} THEN ahead ELSE behind
      bp == Min(found)
  IN IF found = {} THEN Returning(H, NULL)
     ELSE Returning(IF NEXT_FIT THEN [H EXCEPT !.rover = bp] ELSE H, bp)

MmInitUnpadded(H) ==
  LET empty == PUT(PUT(PUT(H, 0, PACK(DSIZE, 1)), 4, PACK(DSIZE, 1)), 8, PACK(0, 1))
  IN ExtendHeap([empty EXCEPT !.brk = 3 * WSIZE, !.listp = WSIZE, !.rover = WSIZE],
                CHUNKSIZE \div WSIZE).H
MmInit(H) ==
  LET empty == PUT(PUT(PUT(PUT(H, 0, 0), 4, PACK(DSIZE, 1)), 8, PACK(DSIZE, 1)), 12, PACK(0, 1))
  IN ExtendHeap([empty EXCEPT !.brk = 4 * WSIZE, !.listp = 2 * WSIZE, !.rover = 2 * WSIZE],
                CHUNKSIZE \div WSIZE).H

AdjustedSize(size) ==
  IF size <= DSIZE THEN 2 * DSIZE ELSE DSIZE * ((size + DSIZE + DSIZE - 1) \div DSIZE)

MmMalloc(H0, size) ==
  LET H == IF H0.listp = NULL THEN MmInit(H0) ELSE H0
      asize == AdjustedSize(size)
      fit == FindFit(H, asize)
      grown == ExtendHeap(H, Max({asize, CHUNKSIZE}) \div WSIZE)
      chosen == IF fit.bp # NULL THEN fit ELSE grown
  IN IF chosen.bp = NULL THEN chosen
     ELSE Returning(Place(chosen.H, chosen.bp, asize), chosen.bp)

MmFree(H, bp) ==
  IF bp = NULL THEN H ELSE Coalesce(Tagged(H, bp, GET_SIZE(H, HDRP(bp)), 0), bp).H

CopiedLessTags(H, to, from, bytes) ==
  [H EXCEPT !.mem = [p \in DOMAIN @ |->
     IF p >= to /\ p < to + bytes - 2 * WSIZE THEN @[from + (p - to)] ELSE @[p]]]
Copied(H, to, from, bytes) ==
  [H EXCEPT !.mem = [p \in DOMAIN @ |->
     IF p >= to /\ p < to + bytes THEN @[from + (p - to)] ELSE @[p]]]

MmReallocLeaking(H, ptr, size) ==
  IF size = 0 THEN Returning(MmFree(H, ptr), NULL) ELSE MmMalloc(H, size)
MmRealloc(H, ptr, size) ==
  LET new == MmMalloc(H, size)
      oldsize == GET_SIZE(H, HDRP(ptr))
  IN CASE size = 0 -> Returning(MmFree(H, ptr), NULL)
       [] size # 0 /\ (ptr = NULL \/ new.bp = NULL) -> new
       [] OTHER -> Returning(MmFree(Copied(new.H, new.bp, ptr, Min({size, oldsize})), ptr), new.bp)
-----------------------------------------------------------------------------
(* The client. *)

Mark(h) == -h
Filled(H, h, from, to) ==
  [H EXCEPT !.mem = [p \in DOMAIN @ |-> IF p >= from /\ p < to THEN Mark(h) ELSE @[p]]]

Becomes(H) ==
  /\ mem' = H.mem
  /\ mem_brk' = H.brk
  /\ heap_listp' = H.listp
  /\ rover' = H.rover
  /\ UNCHANGED NEXT_FIT

Words == {4 * i : i \in 0..MAX_HEAP \div WSIZE - 1}
Init ==
  /\ mem = [p \in Words |-> Garbage]
  /\ mem_brk = 0 /\ heap_listp = NULL /\ rover = NULL
  /\ NEXT_FIT \in BOOLEAN
  /\ held = [h \in Handles |-> Nothing]

FirstFree(h) == held[h] = Nothing /\ \A g \in Handles : g < h => held[g] # Nothing

Malloc(h, size) ==
  /\ FirstFree(h)
  /\ \E got \in {MmMalloc(Heap, size)} :
       IF got.bp = NULL
         THEN Becomes(got.H) /\ UNCHANGED held
         ELSE /\ Becomes(Filled(got.H, h, got.bp, got.bp + size))
              /\ held' = [held EXCEPT ![h] = [ptr |-> got.bp, size |-> size]]

Free(h) ==
  /\ held[h] # Nothing
  /\ \E H \in {MmFree(Heap, held[h].ptr)} : Becomes(H)
  /\ held' = [held EXCEPT ![h] = Nothing]

Realloc(h, size) ==
  /\ held[h] # Nothing \/ FirstFree(h)
  /\ \E got \in {MmRealloc(Heap, held[h].ptr, size)} :
       IF got.bp = NULL
         THEN /\ Becomes(got.H)
              /\ held' = IF size = 0 THEN [held EXCEPT ![h] = Nothing] ELSE held
         ELSE /\ Becomes(Filled(got.H, h, got.bp + held[h].size, got.bp + size))
              /\ held' = [held EXCEPT ![h] = [ptr |-> got.bp, size |-> size]]

Next == \E h \in Handles :
  \/ \E size \in Sizes : Malloc(h, size)
  \/ Free(h)
  \/ \E size \in Sizes \cup {0} : Realloc(h, size)

Spec == Init /\ [][Next]_vars
-----------------------------------------------------------------------------
(* Properties. *)

Blocks == IF heap_listp = NULL THEN {} ELSE BlocksFrom(Heap, heap_listp)
IsFree(bp) == GET_ALLOC(Heap, HDRP(bp)) = 0

(* The words past the break have never been written, and the client's       *)
(* pointers are addresses of the heap.                                      *)
TypeOK ==
  /\ mem \in [Words -> Int] /\ mem_brk \in Words \cup {MAX_HEAP}
  /\ \A p \in Words : p >= mem_brk => mem[p] = Garbage
  /\ heap_listp \in Words /\ rover \in 0..mem_brk /\ NEXT_FIT \in BOOLEAN
  /\ held \in [Handles -> [ptr : 0..MAX_HEAP - 1, size : Sizes \cup {0}]]

(* From the prologue, the sizes in the headers lead through blocks whose    *)
(* headers and footers agree to an epilogue, the last word of the heap.     *)
TagsAgree ==
  /\ mem[HDRP(heap_listp)] = PACK(DSIZE, 1)
  /\ \A bp \in Blocks : mem[HDRP(bp)] = mem[FTRP(Heap, bp)]
  /\ NEXT_BLKP(Heap, Max(Blocks)) = mem_brk
  /\ mem[HDRP(mem_brk)] = PACK(0, 1)
NoFreeNeighbours ==
  \A bp \in Blocks : IsFree(bp) => NEXT_BLKP(Heap, bp) = mem_brk \/ ~IsFree(NEXT_BLKP(Heap, bp))
RoverOnList == NEXT_FIT => rover \in Blocks
(* What checkheap and checkblock look for, after any order of calls: the    *)
(* boundary tags agree; mm_free and extend_heap coalesce at once, so that   *)
(* no two free blocks are neighbours; with next fit the rover is always a   *)
(* block of the list, though the one it was left at may since have been     *)
(* merged into the one before it.                                           *)
HeapConsistent == heap_listp # NULL => TagsAgree /\ NoFreeNeighbours /\ RoverOnList

(* The allocated blocks are the prologue and those the client holds, with   *)
(* room for what was asked: none is lost by a split, a merge or a realloc.  *)
AllocatedAreHeld ==
  /\ {bp \in Blocks : ~IsFree(bp)} \ {heap_listp} = {held[h].ptr : h \in Handles} \ {NULL}
  /\ \A h \in Handles : held[h] # Nothing =>
       GET_SIZE(Heap, HDRP(held[h].ptr)) >= held[h].size + 2 * WSIZE

(* No call changes what the client has stored in a block it holds: neither  *)
(* a tag nor another block's copy lands in it, and realloc copies it whole. *)
MarksIntact ==
  \A h \in Handles, p \in Words :
    p >= held[h].ptr /\ p < held[h].ptr + held[h].size => mem[p] = Mark(h)

(* What the client holds is what is allocated, and as the client left it.   *)
HeldIntact == AllocatedAreHeld /\ MarksIntact

live == [p \in {held[h].ptr : h \in Handles} \ {NULL} |->
           held[CHOOSE h \in Handles : held[h].ptr = p].size]
A == INSTANCE Allocator WITH Low <- 0, High <- MAX_HEAP, Alignment <- 8
(* The package is an allocator: blocks in use are apart, aligned to double  *)
(* words and inside the heap, through every malloc, free and realloc.       *)
ImplementsAllocator == A!Spec
=============================================================================
