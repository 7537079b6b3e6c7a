---------------------------- MODULE PagePolicy ----------------------------
(***************************************************************************)
(* The page cache of paging-policy.py: a list of references is served one  *)
(* by one under a replacement policy.  CLOCK's scan for a victim draws     *)
(* pages at random and is a step for each draw; everything else of a       *)
(* reference is one step.  Options are drawn from Runs.                    *)
(***************************************************************************)
EXTENDS Integers, Sequences, SequencesExt, FiniteSets, FiniteSetsExt

CONSTANTS
  Runs,   \* records policy, cachesize, clockbits
  Traces  \* the reference lists

VARIABLES
  run, addrList,
  addrIndex,  \* references served so far
  memory,     \* the cached pages, FirstIn or LRU on the left
  count,      \* of the pages, as the code keeps it
  ref,        \* reference bits: a function on the pages it has counted
  hits, miss,
  scanning    \* CLOCK looks for a victim

pageVars == <<run, addrList, addrIndex, memory, count, ref, hits, miss, scanning>>

Policies == {"FIFO", "LRU", "MRU", "RAND", "CLOCK", "OPT", "UNOPT"}
Pages == ToSet(addrList)
n == addrList[addrIndex + 1]

Init ==
  /\ addrList \in Traces /\ run \in Runs
  /\ addrIndex = 0 /\ memory = <<>> /\ count = 0 /\ hits = 0 /\ miss = 0
  /\ ref = [p \in {} |-> 0] /\ scanning = FALSE

(***************************************************************************)
(* The reference bit of the page just referenced: a new page gets 1 even   *)
(* when clockbits is 0.                                                    *)
(***************************************************************************)
\* Mutant of Referenced: the bits of the other pages are left behind.
ReferencedAlone(bits) == [p \in {n} |-> 1]
Referenced(bits) ==
  [p \in DOMAIN bits \cup {n} |->
     IF p # n THEN bits[p]
     ELSE IF n \notin DOMAIN bits THEN 1
     ELSE Min({bits[n] + 1, run.clockbits})]

(***************************************************************************)
(* When a cached page is next referenced: its index in addrList, or the    *)
(* length of addrList if never again.  Both count from 0 in the code.      *)
(***************************************************************************)
\* Mutant of whenReferenced: the next reference is skipped.
whenReferencedLater(page) ==
  Min({Len(addrList)} \cup {i - 1 : i \in {k \in addrIndex + 3 .. Len(addrList) : addrList[k] = page}})
whenReferenced(page) ==
  Min({Len(addrList)} \cup {i - 1 : i \in {k \in addrIndex + 2 .. Len(addrList) : addrList[k] = page}})

\* OPT takes the last of the pages needed latest, UNOPT the first of those needed soonest.
OptIndex ==
  Max({i \in 1 .. count : \A k \in 1 .. count :
         whenReferenced(memory[k]) <= whenReferenced(memory[i])})
UnoptIndex ==
  Min({i \in 1 .. count : \A k \in 1 .. count :
         whenReferenced(memory[k]) >= whenReferenced(memory[i])})

VictimIndexes ==
  CASE run.policy \in {"FIFO", "LRU"} -> {1}
    [] run.policy = "MRU" -> {count}
    [] run.policy = "RAND" -> 1 .. count
    [] run.policy = "OPT" -> {OptIndex}
    [] run.policy = "UNOPT" -> {UnoptIndex}

\* The page at index i is taken out and the one referenced put at the end: a victim
\* and its successor, or, on a hit, one page (which is in the list once).
\* Mutant of Renewed: the page takes the place of the one taken out.
RenewedInPlace(i) == [memory EXCEPT ![i] = n]
Renewed(i) == Append(RemoveAt(memory, i), n)

Hit ==
  /\ ~scanning /\ addrIndex < Len(addrList)
  /\ hits' = hits + 1
  /\ \E i \in DOMAIN memory :
       /\ memory[i] = n
       /\ memory' = IF run.policy \in {"LRU", "MRU"} THEN Renewed(i) ELSE memory
  /\ ref' = Referenced(ref)
  /\ addrIndex' = addrIndex + 1
  /\ UNCHANGED <<run, addrList, count, miss, scanning>>

\* A miss with room left.
Fill ==
  /\ ~scanning /\ addrIndex < Len(addrList)
  /\ n \notin ToSet(memory) /\ count # run.cachesize
  /\ miss' = miss + 1 /\ count' = count + 1
  /\ memory' = Append(memory, n)
  /\ ref' = Referenced(ref)
  /\ addrIndex' = addrIndex + 1
  /\ UNCHANGED <<run, addrList, hits, scanning>>

Replace ==
  /\ ~scanning /\ addrIndex < Len(addrList) /\ run.policy # "CLOCK"
  /\ n \notin ToSet(memory) /\ count = run.cachesize
  /\ miss' = miss + 1
  /\ \E i \in VictimIndexes : memory' = Renewed(i)
  /\ ref' = Referenced(ref)
  /\ addrIndex' = addrIndex + 1
  /\ UNCHANGED <<run, addrList, count, hits, scanning>>

\* A miss of CLOCK: the scan begins.
StartScan ==
  /\ ~scanning /\ addrIndex < Len(addrList) /\ run.policy = "CLOCK"
  /\ n \notin ToSet(memory) /\ count = run.cachesize
  /\ miss' = miss + 1 /\ scanning' = TRUE
  /\ UNCHANGED <<run, addrList, addrIndex, memory, count, ref, hits>>

\* One draw: the page loses a reference, or is the victim.
Scan(i) ==
  /\ scanning
  /\ LET page == memory[i] IN
       IF ref[page] >= 1
         THEN /\ ref' = [ref EXCEPT ![page] = @ - 1]
              /\ UNCHANGED <<memory, addrIndex, scanning>>
         ELSE /\ memory' = Renewed(i)
              /\ ref' = Referenced([p \in DOMAIN ref \ {page} |-> ref[p]])
              /\ addrIndex' = addrIndex + 1
              /\ scanning' = FALSE
  /\ UNCHANGED <<run, addrList, count, hits, miss>>

Next == Hit \/ Fill \/ Replace \/ StartScan \/ \E i \in 1 .. count : Scan(i)

Spec == Init /\ [][Next]_pageVars
-----------------------------------------------------------------------------
Served == addrIndex = Len(addrList)

TypeOK ==
  /\ run.policy \in Policies
  /\ addrIndex \in 0 .. Len(addrList) /\ scanning \in BOOLEAN
  /\ memory \in Seq(Pages) /\ count \in 0 .. run.cachesize
  /\ DOMAIN ref \subseteq Pages /\ \A p \in DOMAIN ref : ref[p] \in 0 .. Max({1, run.clockbits})
  /\ hits + miss \in 0 .. Len(addrList)

(***************************************************************************)
(* The cache is a set of at most cachesize pages, the code's count is its  *)
(* size, every served reference is a hit or a miss, and the page served    *)
(* last is cached.  CLOCK counts references of the cached pages alone.     *)
(***************************************************************************)
CacheSound ==
  /\ IsInjective(memory) /\ count = Len(memory) /\ count <= run.cachesize
  /\ hits + miss = addrIndex + (IF scanning THEN 1 ELSE 0)
  /\ addrIndex > 0 => addrList[addrIndex] \in ToSet(memory)
  /\ run.policy = "CLOCK" => DOMAIN ref = ToSet(memory)

LastUse(page) == Max({i \in 1 .. addrIndex : addrList[i] = page})

(***************************************************************************)
(* The order of the list is what its policy reads off it: under LRU and    *)
(* MRU by last use; under LRU it holds the pages used most recently.       *)
(***************************************************************************)
OrderKept ==
  run.policy \in {"LRU", "MRU"} =>
    /\ \A i, k \in 1 .. Len(memory) : i < k => LastUse(memory[i]) < LastUse(memory[k])
    /\ run.policy = "LRU" =>
         \A p \in ToSet(memory), q \in Pages \ ToSet(memory) :
           (\E i \in 1 .. addrIndex : addrList[i] = q) => LastUse(q) < LastUse(p)

(***************************************************************************)
(* The fewest misses any choice of victims allows, by trying them all:     *)
(* Best[k][C] is the number of misses of references k onwards from cache C.*)
(***************************************************************************)
BestMisses(trace, size) ==
  LET Caches == {C \in SUBSET ToSet(trace) : Cardinality(C) <= size}
      Best[k \in 1 .. Len(trace) + 1] ==
        [C \in Caches |->
          IF k > Len(trace) THEN 0
          ELSE IF trace[k] \in C THEN Best[k + 1][C]
          ELSE IF Cardinality(C) < size THEN 1 + Best[k + 1][C \cup {trace[k]}]
          ELSE 1 + Min({Best[k + 1][(C \ {v}) \cup {trace[k]}] : v \in C})]
  IN Best[1][{}]

(***************************************************************************)
(* OPT earns its name: no choice of victims misses less, whatever tie it   *)
(* breaks, and no policy beats it.                                         *)
(***************************************************************************)
OptimalIsBest ==
  Served => /\ miss >= BestMisses(addrList, run.cachesize)
            /\ run.policy = "OPT" => miss = BestMisses(addrList, run.cachesize)

(***************************************************************************)
(* CLOCK's scan ends whatever pages it draws: every draw that finds no     *)
(* victim uses up a reference, and no reference is added meanwhile.        *)
(***************************************************************************)
Credits == FoldSet(LAMBDA page, sum : ref[page] + sum, 0, DOMAIN ref)
ScanNearer == (scanning /\ scanning') => Credits' < Credits
=============================================================================
