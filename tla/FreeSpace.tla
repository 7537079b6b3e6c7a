----------------------------- MODULE FreeSpace ------------------------------
(***************************************************************************)
(* The allocator of vm-freespace/malloc.py: an explicit list of free       *)
(* chunks, kept in one of five orders and searched with one of three       *)
(* policies, optionally coalesced on every free; and its driver, which     *)
(* frees by the number of the allocation, with -A even one that failed or  *)
(* has been freed before.                                                  *)
(***************************************************************************)
EXTENDS Integers, FiniteSets, Sequences, SequencesExt

CONSTANTS start, size,       \* the heap
          Options,           \* the options the program is started with
          Sizes,             \* the sizes asked for
          MaxAllocs          \* bound: allocations in one run

VARIABLES freelist,          \* sequence of <<address, size>>
          sizemap,           \* the size of each allocated chunk, by its address
          p,                 \* the driver's pointers, by the number of the allocation
          c,                 \* allocations asked for so far
          up,                \* FALSE once the program has ended with an exception
          options

vars == <<freelist, sizemap, p, c, up, options>>

Init ==
  /\ freelist = <<<<start, size>>>>
  /\ sizemap = [a \in {} |-> 0]
  /\ p = [i \in {} |-> 0]
  /\ c = 0 /\ up = TRUE
  /\ options \in Options

Needed(n) ==
  LET left == n % options.align
  IN options.headerSize + (IF options.align = -1 \/ left = 0 THEN n ELSE n + options.align - left)

(* The indices of the free list that policy prefers among those that fit;   *)
(* the search takes the first.                                              *)
Preferred(n) ==
  LET fits == {i \in DOMAIN freelist : freelist[i][2] >= n}
  IN CASE options.policy = "FIRST" -> fits
       [] options.policy = "BEST" -> {i \in fits : \A j \in fits : freelist[i][2] <= freelist[j][2]}
       [] options.policy = "WORST" -> {i \in fits : \A j \in fits : freelist[i][2] >= freelist[j][2]}
Chosen(n) == {i \in Preferred(n) : \A j \in Preferred(n) : i <= j}

With(f, a, v) == [x \in DOMAIN f \cup {a} |-> IF x = a THEN v ELSE f[x]]
Without(f, a) == [x \in DOMAIN f \ {a} |-> f[x]]
AfterSplitWhole(i, n) == RemoveAt(freelist, i)
AfterSplit(i, n) ==
  LET chunk == freelist[i]
  IN IF chunk[2] > n THEN [freelist EXCEPT ![i] = <<chunk[1] + n, chunk[2] - n>>]
     ELSE RemoveAt(freelist, i)

Malloc(n) ==
  /\ \/ \E i \in Chosen(Needed(n)) :
          /\ freelist' = AfterSplit(i, Needed(n))
          /\ sizemap' = With(sizemap, freelist[i][1], Needed(n))
          /\ p' = With(p, c, freelist[i][1])
     \/ Chosen(Needed(n)) = {} /\ UNCHANGED <<freelist, sizemap, p>>
  /\ c' = c + 1
  /\ UNCHANGED <<up, options>>

(* sorted(list, key): key gives the key of each chunk, by its index.  Chunks *)
(* with equal keys stay in order; a chunk's place is after all those that    *)
(* belong before it.                                                         *)
Place(key, i) ==
  Cardinality({j \in DOMAIN key : key[j] < key[i] \/ (key[j] = key[i] /\ j <= i)})
Sorted(list, key) ==
  [n \in DOMAIN list |-> list[CHOOSE i \in DOMAIN list : Place(key, i) = n]]
ReturnedUnsorted(list, chunk) == Append(list, chunk)
Returned(list, chunk) ==
  LET all == Append(list, chunk)
  IN CASE options.order = "INSERT-BACK" -> all
       [] options.order = "INSERT-FRONT" -> <<chunk>> \o list
       [] options.order = "ADDRSORT" -> Sorted(all, [i \in DOMAIN all |-> all[i][1]])
       [] options.order = "SIZESORT+" -> Sorted(all, [i \in DOMAIN all |-> all[i][2]])
       [] options.order = "SIZESORT-" -> Sorted(all, [i \in DOMAIN all |-> -all[i][2]])

(* One pass over the list: a chunk that begins where the last one ends is    *)
(* joined to it.                                                             *)
Joined(done, chunk) ==
  LET curr == done[Len(done)]
  IN IF chunk[1] = curr[1] + curr[2]
       THEN [done EXCEPT ![Len(done)] = <<curr[1], curr[2] + chunk[2]>>]
       ELSE Append(done, chunk)
Coalesced(list) ==
  LET done[i \in 1..Len(list)] == IF i = 1 THEN <<list[1]>> ELSE Joined(done[i - 1], list[i])
  IN done[Len(list)]

(* free answers -1 for an address that is not allocated. *)
FreeAt(addr) ==
  IF addr \in DOMAIN sizemap
    THEN LET list == Returned(freelist, <<addr, sizemap[addr]>>)
         IN /\ freelist' = IF options.coalesce THEN Coalesced(list) ELSE list
            /\ sizemap' = Without(sizemap, addr)
    ELSE UNCHANGED <<freelist, sizemap>>

(* The random driver forgets a pointer it has freed. *)
FreeRandom(i) ==
  /\ ~options.list
  /\ i \in DOMAIN p
  /\ FreeAt(p[i])
  /\ p' = Without(p, i)
  /\ UNCHANGED <<c, up, options>>

(* The driver of -A keeps it, and compares a number with how many pointers  *)
(* there are: the number of a failed allocation may pass, and ends the      *)
(* program (a KeyError); that of a later one may be skipped.                *)
FreeListed(i) ==
  /\ options.list
  /\ i < Cardinality(DOMAIN p)
  /\ IF i \in DOMAIN p THEN FreeAt(p[i]) /\ UNCHANGED up
     ELSE up' = FALSE /\ UNCHANGED <<freelist, sizemap>>
  /\ UNCHANGED <<p, c, options>>

Next ==
  /\ up
  /\ \/ c < MaxAllocs /\ \E n \in Sizes : Malloc(n)
     \/ \E i \in 0..MaxAllocs - 1 : FreeRandom(i) \/ FreeListed(i)

Spec == Init /\ [][Next]_vars
-----------------------------------------------------------------------------
TypeOK ==
  /\ \A i \in DOMAIN freelist : freelist[i] \in Nat \X (1..size)
  /\ DOMAIN sizemap \subseteq Nat
  /\ DOMAIN p \subseteq 0..c - 1 /\ c \in 0..MaxAllocs
  /\ up \in BOOLEAN /\ options \in Options

(* Free and allocated chunks always tile the heap: no split, merge or free  *)
(* of what is not allocated loses or makes space, and no chunk is listed    *)
(* twice.                                                                   *)
Span(chunk) == chunk[1]..chunk[1] + chunk[2] - 1
Tiled ==
  LET held == {<<a, sizemap[a]>> : a \in DOMAIN sizemap}
      free == {freelist[i] : i \in DOMAIN freelist}
  IN /\ \A i, j \in DOMAIN freelist : freelist[i] = freelist[j] => i = j
     /\ free \cap held = {}
     /\ \A d, e \in free \cup held : d # e => Span(d) \cap Span(e) = {}
     /\ UNION {Span(d) : d \in free \cup held} = start..start + size - 1

(* With ADDRSORT the list stays in the order of addresses though it is only *)
(* sorted on free, and with -C then no two chunks on it are neighbours:     *)
(* freeing everything gives back one chunk.                                 *)
SortedAndMerged ==
  options.order = "ADDRSORT" =>
    \A i \in 1..Len(freelist) - 1 :
      LET end == freelist[i][1] + freelist[i][2]
      IN IF options.coalesce THEN end < freelist[i + 1][1] ELSE end <= freelist[i + 1][1]

(* The random driver's pointers are the allocated chunks, one each.         *)
PointersCurrent ==
  ~options.list =>
    /\ {p[i] : i \in DOMAIN p} = DOMAIN sizemap
    /\ \A i, j \in DOMAIN p : p[i] = p[j] => i = j

A == INSTANCE Allocator WITH live <- sizemap, Low <- start, High <- start + size, Alignment <- 1
(* Whatever the policy, the order and the driver, malloc and free are those *)
(* of an allocator: no address is in two allocated chunks.                  *)
ImplementsAllocator == A!Spec
=============================================================================
