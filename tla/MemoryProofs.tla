---------------------------- MODULE MemoryProofs ----------------------------
(***************************************************************************)
(* Proofs about the programs of module MCMemory.  First those of the two   *)
(* allocators: of vm-freespace/malloc.py (F), for a heap of any size, all  *)
(* options, sizes and numbers of calls, and, with what MMProofs shows of   *)
(* the malloc package, the properties that MCMemory states of both.  Then  *)
(* those of the others, for machines, registers, page tables, caches and   *)
(* lists of references of any size: the address translations of            *)
(* relocation.py and segmentation.py (G), paging-linear-translate.py and   *)
(* paging-multilevel-translate.py (T) are sound, and paging-policy.py (P)  *)
(* keeps its cache and its order.  The types of all six programs follow.   *)
(***************************************************************************)
EXTENDS MCMemory, MMProofs, Sequences, FiniteSetTheorems

-----------------------------------------------------------------------------
(* Sorting. *)

\* The key of every index of a list of n chunks.
Keys(n, key) == n \in Nat /\ key \in [1..n -> Int]
\* The indices that belong no later than i: key's order, and that of the list
\* where keys are equal.
UpTo(n, key, i) == {j \in 1..n : key[j] < key[i] \/ (key[j] = key[i] /\ j <= i)}

\* The modules of an instance count as this one does.
LEMMA Counts == \A S : F!Cardinality(S) = Cardinality(S)
BY DEF F!Cardinality, Cardinality

\* A chunk's place is the number of chunks that belong no later.
LEMMA PlaceIs ==
  ASSUME NEW n, NEW key, Keys(n, key), NEW i
  PROVE  F!Place(key, i) = Cardinality(UpTo(n, key, i))
<1>1. DOMAIN key = 1..n BY DEF Keys
<1> QED BY <1>1, Counts DEF F!Place, UpTo

\* Places are numbers of the list, and a chunk that belongs before another has an
\* earlier one.
LEMMA PlacesOrdered ==
  ASSUME NEW n, NEW key, Keys(n, key), NEW i \in 1..n, NEW j \in 1..n,
         key[i] < key[j] \/ (key[i] = key[j] /\ i < j)
  PROVE  /\ F!Place(key, i) \in 1..n /\ F!Place(key, j) \in 1..n
         /\ F!Place(key, i) < F!Place(key, j)
<1>1. n \in Nat /\ key \in [1..n -> Int] BY DEF Keys
<1>2. key[i] \in Int /\ key[j] \in Int BY <1>1
<1>3. IsFiniteSet(1..n) /\ Cardinality(1..n) = n BY <1>1, FS_Interval
<1> DEFINE I == UpTo(n, key, i)
           J == UpTo(n, key, j)
<1>4. I \subseteq 1..n /\ J \subseteq 1..n BY DEF UpTo
<1>5. IsFiniteSet(I) /\ IsFiniteSet(J) /\ Cardinality(J) <= n /\ Cardinality(I) \in Nat /\ Cardinality(J) \in Nat
  BY <1>3, <1>4, FS_Subset, FS_CardinalityType
<1>6. i \in I BY <1>2 DEF UpTo
<1>7. I \subseteq J \ {j}
  <2> SUFFICES ASSUME NEW k \in I PROVE k \in J \ {j} OBVIOUS
  <2>1. k \in 1..n /\ key[k] \in Int BY <1>1 DEF UpTo
  <2>2. key[k] < key[i] \/ (key[k] = key[i] /\ k <= i) BY DEF UpTo
  <2>3. key[k] < key[j] \/ (key[k] = key[j] /\ k <= j) BY <1>2, <2>1, <2>2
  <2>4. k # j BY <1>2, <2>1, <2>2
  <2> QED BY <2>1, <2>3, <2>4 DEF UpTo
<1>8. j \in J BY <1>2 DEF UpTo
<1> HIDE DEF I, J
<1>9. IsFiniteSet(J \ {j}) /\ Cardinality(J \ {j}) = Cardinality(J) - 1 BY <1>5, <1>8, FS_RemoveElement
<1>10. Cardinality(I) <= Cardinality(J \ {j}) BY <1>7, <1>9, FS_Subset
<1>11. Cardinality(I) # 0 BY <1>5, <1>6, FS_EmptySet
<1>12. F!Place(key, i) = Cardinality(I) /\ F!Place(key, j) = Cardinality(J) BY PlaceIs DEF I, J
<1> QED BY <1>1, <1>5, <1>9, <1>10, <1>11, <1>12

\* f rearranges 1..n.
Reorders(n, f) ==
  /\ f \in [1..n -> 1..n]
  /\ \A i, j \in 1..n : f[i] = f[j] => i = j
  /\ \A i \in 1..n : \E k \in 1..n : f[k] = i

\* A list sorted by key has the chunks of the list, each once, with their keys
\* ascending.
LEMMA SortedIs ==
  ASSUME NEW n, NEW key, Keys(n, key), NEW L, DOMAIN L = 1..n
  PROVE  \E f : /\ Reorders(n, f)
                /\ F!Sorted(L, key) = [k \in 1..n |-> L[f[k]]]
                /\ \A i, j \in 1..n : i < j => key[f[i]] <= key[f[j]]
<1>1. n \in Nat /\ key \in [1..n -> Int] BY DEF Keys
<1> DEFINE g == [i \in 1..n |-> F!Place(key, i)]
           f == [k \in 1..n |-> CHOOSE i \in 1..n : F!Place(key, i) = k]
<1>2. ASSUME NEW i \in 1..n PROVE F!Place(key, i) \in 1..n
  <2> DEFINE I == UpTo(n, key, i)
  <2>1. IsFiniteSet(1..n) /\ Cardinality(1..n) = n BY <1>1, FS_Interval
  <2>2. I \subseteq 1..n /\ i \in I BY <1>1, <1>2 DEF UpTo
  <2>3. F!Place(key, i) = Cardinality(I) BY PlaceIs
  <2> HIDE DEF I
  <2>4. IsFiniteSet(I) /\ Cardinality(I) <= n BY <1>1, <2>1, <2>2, FS_Subset, FS_CardinalityType
  <2>5. Cardinality(I) \in Nat /\ Cardinality(I) # 0 BY <2>2, <2>4, FS_CardinalityType, FS_EmptySet
  <2> QED BY <1>1, <2>3, <2>4, <2>5
<1>3. ASSUME NEW i \in 1..n, NEW j \in 1..n, i # j PROVE g[i] # g[j]
  <2>1. key[i] \in Int /\ key[j] \in Int BY <1>1
  <2>2. CASE key[i] < key[j] \/ (key[i] = key[j] /\ i < j)
    <3>1. F!Place(key, i) \in 1..n /\ F!Place(key, j) \in 1..n /\ F!Place(key, i) < F!Place(key, j)
      BY <1>3, <2>2, PlacesOrdered
    <3> QED BY <1>1, <1>3, <3>1
  <2>3. CASE key[j] < key[i] \/ (key[j] = key[i] /\ j < i)
    <3>1. F!Place(key, i) \in 1..n /\ F!Place(key, j) \in 1..n /\ F!Place(key, j) < F!Place(key, i)
      BY <1>3, <2>3, PlacesOrdered
    <3> QED BY <1>1, <1>3, <3>1
  <2> QED BY <1>3, <2>1, <2>2, <2>3
<1>4. g \in Injection(1..n, 1..n) BY <1>2, <1>3 DEF Injection, IsInjective
<1>5. g \in Surjection(1..n, 1..n)
  <2>1. IsFiniteSet(1..n) BY <1>1, FS_Interval
  <2> QED BY <1>4, <2>1, FS_Injection
<1>6. ASSUME NEW k \in 1..n PROVE \E i \in 1..n : F!Place(key, i) = k BY <1>5 DEF Surjection
<1>7. ASSUME NEW k \in 1..n PROVE f[k] \in 1..n /\ F!Place(key, f[k]) = k BY <1>6
<1>8. \A i, j \in 1..n : f[i] = f[j] => i = j BY <1>7
<1>9. ASSUME NEW i \in 1..n PROVE \E k \in 1..n : f[k] = i
  <2>1. F!Place(key, i) \in 1..n BY <1>2
  <2>2. f[F!Place(key, i)] \in 1..n /\ F!Place(key, f[F!Place(key, i)]) = F!Place(key, i) BY <1>7, <2>1
  <2>3. f[F!Place(key, i)] = i BY <1>3, <2>2
  <2> QED BY <2>1, <2>3
<1>10. f \in [1..n -> 1..n] BY <1>7
<1>11. Reorders(n, f) BY <1>8, <1>9, <1>10 DEF Reorders
<1>12. F!Sorted(L, key) = [k \in 1..n |-> L[f[k]]] BY DEF F!Sorted
<1>13. ASSUME NEW i \in 1..n, NEW j \in 1..n, i < j PROVE key[f[i]] <= key[f[j]]
  <2>1. f[i] \in 1..n /\ f[j] \in 1..n /\ F!Place(key, f[i]) = i /\ F!Place(key, f[j]) = j BY <1>7
  <2>2. key[f[i]] \in Int /\ key[f[j]] \in Int BY <1>1, <2>1
  <2>3. ~(key[f[j]] < key[f[i]])
    <3> SUFFICES ASSUME key[f[j]] < key[f[i]] PROVE FALSE OBVIOUS
    <3> HIDE DEF f
    <3>1. j < i BY <2>1, PlacesOrdered
    <3> QED BY <1>1, <1>13, <3>1
  <2> QED BY ONLY <2>2, <2>3
<1> QED BY <1>11, <1>12, <1>13

-----------------------------------------------------------------------------
(* Lists of chunks, by the addresses they hold. *)

Chunk == Nat \X (Nat \ {0})
Inside(d, x) == d[1] <= x /\ x < d[1] + d[2]
Covers(L, x) == \E i \in DOMAIN L : Inside(L[i], x)
\* No address is in two chunks of the list.
Single(L) == \A x \in Int : \A i, j \in DOMAIN L : Inside(L[i], x) /\ Inside(L[j], x) => i = j
\* Chunks in the order of their addresses, and those with room between any two.
Ascending(L) == \A i, j \in DOMAIN L : i < j => L[i][1] + L[i][2] <= L[j][1]
Spaced(L) == \A i, j \in DOMAIN L : i < j => L[i][1] + L[i][2] < L[j][1]

\* What a chunk is, and that its first address is in it.
LEMMA ChunkIs ==
  ASSUME NEW d \in Chunk
  PROVE  /\ d[1] \in Int /\ d[2] \in Int /\ 0 <= d[1] /\ 0 < d[2] /\ d = <<d[1], d[2]>>
         /\ Inside(d, d[1]) /\ Inside(d, d[1] + d[2] - 1)
BY DEF Chunk, Inside

\* Rearranging a list changes neither what it covers nor that chunks are apart.
LEMMA ReorderedIs ==
  ASSUME NEW L \in Seq(Chunk), NEW f, Reorders(Len(L), f), NEW R, R = [k \in 1..Len(L) |-> L[f[k]]]
  PROVE  /\ R \in Seq(Chunk) /\ Len(R) = Len(L)
         /\ Single(L) => Single(R)
         /\ \A x \in Int : Covers(R, x) <=> Covers(L, x)
<1> DEFINE n == Len(L)
<1>1. n \in Nat /\ DOMAIN L = 1..n /\ \A i \in 1..n : L[i] \in Chunk OBVIOUS
<1>2. /\ \A i \in 1..n : f[i] \in 1..n
      /\ \A i, j \in 1..n : f[i] = f[j] => i = j
      /\ \A i \in 1..n : \E k \in 1..n : f[k] = i
  BY DEF Reorders
<1> HIDE DEF n
<1>3. DOMAIN R = 1..n /\ \A k \in 1..n : R[k] = L[f[k]] BY DEF n
<1>4. R \in [1..n -> Chunk] BY <1>1, <1>2 DEF n
<1>5. R \in Seq(Chunk) /\ Len(R) = n BY <1>1, <1>4
<1>6. Single(L) => Single(R)
  <2> SUFFICES ASSUME Single(L), NEW x \in Int, NEW i \in 1..n, NEW j \in 1..n, Inside(R[i], x), Inside(R[j], x)
               PROVE  i = j
    BY <1>3 DEF Single
  <2>1. Inside(L[f[i]], x) /\ Inside(L[f[j]], x) /\ f[i] \in 1..n /\ f[j] \in 1..n BY <1>2, <1>3
  <2>2. f[i] = f[j] BY <1>1, <2>1 DEF Single
  <2> QED BY <1>2, <2>2
<1>7. \A x \in Int : Covers(R, x) <=> Covers(L, x) BY <1>1, <1>2, <1>3 DEF Covers
<1> QED BY <1>5, <1>6, <1>7 DEF n

\* A chunk put at either end of a list that covers none of it.
LEMMA PutAtEnd ==
  ASSUME NEW L \in Seq(Chunk), Single(L), NEW d \in Chunk, \A x \in Int : ~(Covers(L, x) /\ Inside(d, x))
  PROVE  /\ Append(L, d) \in Seq(Chunk) /\ Len(Append(L, d)) = Len(L) + 1
         /\ Single(Append(L, d))
         /\ \A x \in Int : Covers(Append(L, d), x) <=> Covers(L, x) \/ Inside(d, x)
<1> DEFINE n == Len(L)
           R == Append(L, d)
<1>1. n \in Nat /\ DOMAIN L = 1..n OBVIOUS
<1>2. R \in Seq(Chunk) /\ Len(R) = n + 1 /\ DOMAIN R = 1..n + 1 /\ R[n + 1] = d /\ \A i \in 1..n : R[i] = L[i]
  OBVIOUS
<1> HIDE DEF n, R
<1>i. 1..n + 1 = 1..n \cup {n + 1} BY <1>1
<1>3. ASSUME NEW x \in Int PROVE Covers(R, x) <=> Covers(L, x) \/ Inside(d, x) BY <1>1, <1>2, <1>i DEF Covers
<1>4. ASSUME NEW x \in Int, NEW i \in 1..n + 1, NEW j \in 1..n + 1, Inside(R[i], x), Inside(R[j], x)
      PROVE  i = j
  <2>1. \A k \in 1..n : ~(Inside(L[k], x) /\ Inside(d, x)) BY <1>1 DEF Covers
  <2>2. CASE i \in 1..n /\ j \in 1..n BY <1>1, <1>2, <1>4, <2>2 DEF Single
  <2>3. CASE i = n + 1 /\ j \in 1..n BY <1>2, <1>4, <2>1, <2>3
  <2>4. CASE j = n + 1 /\ i \in 1..n BY <1>2, <1>4, <2>1, <2>4
  <2> QED BY <1>i, <1>4, <2>2, <2>3, <2>4
<1> QED BY <1>2, <1>3, <1>4 DEF n, R, Single

\* The same for the front.
LEMMA PutInFront ==
  ASSUME NEW L \in Seq(Chunk), Single(L), NEW d \in Chunk, \A x \in Int : ~(Covers(L, x) /\ Inside(d, x))
  PROVE  /\ <<d>> \o L \in Seq(Chunk) /\ Len(<<d>> \o L) = Len(L) + 1
         /\ Single(<<d>> \o L)
         /\ \A x \in Int : Covers(<<d>> \o L, x) <=> Covers(L, x) \/ Inside(d, x)
<1> DEFINE n == Len(L)
           all == Append(L, d)
           R == <<d>> \o L
           f == [k \in 1..n + 1 |-> IF k = 1 THEN n + 1 ELSE k - 1]
<1>1. n \in Nat /\ Len(all) = n + 1 /\ all[n + 1] = d /\ \A i \in 1..n : all[i] = L[i] OBVIOUS
<1>2. R \in Seq(Chunk) /\ DOMAIN R = 1..n + 1 /\ R[1] = d /\ \A i \in 1..n : R[i + 1] = L[i] OBVIOUS
<1>3. R = [k \in DOMAIN R |-> R[k]] OBVIOUS
<1> HIDE DEF n, all, R
<1>4. Reorders(n + 1, f)
  <2>1. f \in [1..n + 1 -> 1..n + 1] BY <1>1
  <2>2. \A i, j \in 1..n + 1 : f[i] = f[j] => i = j BY <1>1
  <2>3. ASSUME NEW i \in 1..n + 1 PROVE \E k \in 1..n + 1 : f[k] = i
    <3>1. CASE i = n + 1 BY <1>1, <3>1
    <3>2. CASE i # n + 1
      <4>1. i + 1 \in 1..n + 1 /\ f[i + 1] = i BY <1>1, <2>3, <3>2
      <4> QED BY <4>1
    <3> QED BY <3>1, <3>2
  <2> QED BY <2>1, <2>2, <2>3 DEF Reorders
<1>5. ASSUME NEW k \in 1..n + 1 PROVE R[k] = all[f[k]]
  <2>1. CASE k = 1 BY <1>1, <1>2, <2>1
  <2>2. CASE k # 1
    <3>1. k - 1 \in 1..n /\ k - 1 + 1 = k /\ f[k] = k - 1 BY <1>1, <1>5, <2>2
    <3>2. R[k] = L[k - 1] BY <1>2, <3>1
    <3> QED BY <1>1, <3>1, <3>2
  <2> QED BY <2>1, <2>2
<1> HIDE DEF f
<1>6. R = [k \in 1..Len(all) |-> all[f[k]]] BY <1>1, <1>2, <1>3, <1>5
<1>7. all \in Seq(Chunk) /\ Single(all) /\ \A x \in Int : Covers(all, x) <=> Covers(L, x) \/ Inside(d, x)
  BY PutAtEnd DEF all
<1>8. Len(R) = n + 1 /\ Single(R) /\ \A x \in Int : Covers(R, x) <=> Covers(all, x)
  BY <1>1, <1>4, <1>6, <1>7, ReorderedIs
<1> QED BY <1>2, <1>7, <1>8 DEF n, R

\* What is assumed of the options, part by part.
LEMMA OptionsAre ==
  ASSUME NEW o \in Options
  PROVE  /\ o.policy \in {"FIRST", "BEST", "WORST"}
         /\ o.order \in {"ADDRSORT", "SIZESORT+", "SIZESORT-", "INSERT-FRONT", "INSERT-BACK"}
         /\ o.coalesce \in BOOLEAN /\ o.list \in BOOLEAN
         /\ o.headerSize \in Nat /\ o.align \in {-1} \cup (Nat \ {0})
         /\ \A n \in ListSizes : n + o.headerSize > 0
<1>1. Options \subseteq
        [policy : {"FIRST", "BEST", "WORST"}, coalesce : BOOLEAN, align : {-1} \cup (Nat \ {0}),
         order : {"ADDRSORT", "SIZESORT+", "SIZESORT-", "INSERT-FRONT", "INSERT-BACK"},
         headerSize : Nat, list : BOOLEAN]
  BY ListAssumption, Zenon
<1>2. \A n \in ListSizes, b \in Options : n + b.headerSize > 0 BY ListAssumption, Zenon
<1>3. o \in [policy : {"FIRST", "BEST", "WORST"}, coalesce : BOOLEAN, align : {-1} \cup (Nat \ {0}),
             order : {"ADDRSORT", "SIZESORT+", "SIZESORT-", "INSERT-FRONT", "INSERT-BACK"},
             headerSize : Nat, list : BOOLEAN]
  BY <1>1, Zenon
<1> QED BY ONLY <1>2, <1>3, o \in Options

\* A list sorted by its keys, and sorted by addresses if these are the keys.
LEMMA SortedList ==
  ASSUME NEW L \in Seq(Chunk), Single(L), NEW key, Keys(Len(L), key)
  PROVE  /\ F!Sorted(L, key) \in Seq(Chunk) /\ Len(F!Sorted(L, key)) = Len(L)
         /\ Single(F!Sorted(L, key))
         /\ \A x \in Int : Covers(F!Sorted(L, key), x) <=> Covers(L, x)
         /\ (\A i \in DOMAIN L : key[i] = L[i][1]) => Ascending(F!Sorted(L, key))
<1> DEFINE n == Len(L)
           R == F!Sorted(L, key)
<1>1. n \in Nat /\ DOMAIN L = 1..n /\ \A i \in 1..n : L[i] \in Chunk OBVIOUS
<1>2. PICK f : /\ Reorders(n, f)
               /\ R = [k \in 1..n |-> L[f[k]]]
               /\ \A i, j \in 1..n : i < j => key[f[i]] <= key[f[j]]
  BY <1>1, SortedIs
<1> HIDE DEF R
<1>3. /\ R \in Seq(Chunk) /\ Len(R) = n /\ Single(R)
      /\ \A x \in Int : Covers(R, x) <=> Covers(L, x)
  BY <1>2, ReorderedIs
<1> HIDE DEF n
<1>4. (\A i \in DOMAIN L : key[i] = L[i][1]) => Ascending(R)
  <2> SUFFICES ASSUME \A i \in 1..n : key[i] = L[i][1], NEW i \in 1..n, NEW j \in 1..n, i < j
               PROVE  R[i][1] + R[i][2] <= R[j][1]
    BY <1>1, <1>2 DEF Ascending
  <2>1. f[i] \in 1..n /\ f[j] \in 1..n BY <1>2 DEF Reorders
  <2>2. R[i] = L[f[i]] /\ R[j] = L[f[j]] /\ R[i] \in Chunk /\ R[j] \in Chunk BY <1>1, <1>2, <2>1
  <2>3. R[i][1] <= R[j][1] BY <1>2, <2>1, <2>2
  <2>4. /\ R[i][1] \in Int /\ R[i][2] \in Int /\ R[j][1] \in Int /\ R[j][2] \in Int /\ 0 < R[j][2]
    BY <2>2, ChunkIs
  <2>5. ~(R[j][1] < R[i][1] + R[i][2])
    <3> SUFFICES ASSUME R[j][1] < R[i][1] + R[i][2] PROVE FALSE OBVIOUS
    <3>1. Inside(R[i], R[j][1]) BY ONLY <2>3, <2>4, R[j][1] < R[i][1] + R[i][2] DEF Inside
    <3>2. Inside(R[j], R[j][1]) BY <2>2, ChunkIs
    <3>3. i = j BY <1>2, <1>3, <2>4, <3>1, <3>2 DEF Single
    <3> QED BY <1>1, <3>3
  <2> QED BY ONLY <2>4, <2>5
<1> QED BY <1>3, <1>4 DEF n, R

\* The list with a chunk given back to it, in whatever order it is kept.
LEMMA ReturnedIs ==
  ASSUME NEW L \in Seq(Chunk), Single(L), NEW d \in Chunk, \A x \in Int : ~(Covers(L, x) /\ Inside(d, x)),
         options \in Options
  PROVE  /\ F!Returned(L, d) \in Seq(Chunk) /\ Len(F!Returned(L, d)) = Len(L) + 1
         /\ Single(F!Returned(L, d))
         /\ \A x \in Int : Covers(F!Returned(L, d), x) <=> Covers(L, x) \/ Inside(d, x)
         /\ options.order = "ADDRSORT" => Ascending(F!Returned(L, d))
<1> DEFINE all == Append(L, d)
           byAddr == [i \in DOMAIN all |-> all[i][1]]
           bySize == [i \in DOMAIN all |-> all[i][2]]
           byLess == [i \in DOMAIN all |-> -all[i][2]]
           R == F!Returned(L, d)
<1>1. options.order \in {"ADDRSORT", "SIZESORT+", "SIZESORT-", "INSERT-FRONT", "INSERT-BACK"} BY OptionsAre
<1>2. /\ all \in Seq(Chunk) /\ Len(all) = Len(L) + 1 /\ Single(all)
      /\ \A x \in Int : Covers(all, x) <=> Covers(L, x) \/ Inside(d, x)
  BY PutAtEnd
<1>3. Keys(Len(all), byAddr) /\ Keys(Len(all), bySize) /\ Keys(Len(all), byLess)
  <2>1. Len(all) \in Nat /\ DOMAIN all = 1..Len(all) BY <1>2
  <2> HIDE DEF all
  <2>2. \A i \in DOMAIN all : all[i] \in Chunk BY <1>2
  <2>3. \A i \in DOMAIN all : all[i][1] \in Int /\ all[i][2] \in Int BY <2>2, ChunkIs
  <2> QED BY <2>1, <2>3 DEF Keys
<1>4. \A i \in DOMAIN all : byAddr[i] = all[i][1] OBVIOUS
<1>r. /\ options.order = "INSERT-BACK" => R = all
      /\ options.order = "INSERT-FRONT" => R = <<d>> \o L
      /\ options.order = "ADDRSORT" => R = F!Sorted(all, byAddr)
      /\ options.order = "SIZESORT+" => R = F!Sorted(all, bySize)
      /\ options.order = "SIZESORT-" => R = F!Sorted(all, byLess)
  BY DEF F!Returned
<1> HIDE DEF R, all, byAddr, bySize, byLess
<1>5. CASE options.order = "INSERT-BACK" BY <1>2, <1>5, <1>r DEF R
<1>6. CASE options.order = "INSERT-FRONT" BY <1>6, <1>r, PutInFront DEF R
<1>7. CASE options.order = "ADDRSORT" 
  <2> DEFINE S == F!Sorted(all, byAddr)
  <2>1. /\ S \in Seq(Chunk) /\ Len(S) = Len(all) /\ Single(S)
        /\ \A x \in Int : Covers(S, x) <=> Covers(all, x)
        /\ (\A i \in DOMAIN all : byAddr[i] = all[i][1]) => Ascending(S)
    BY <1>2, <1>3, SortedList
  <2>2. R = S BY <1>7, <1>r
  <2> HIDE DEF S
  <2> QED BY <1>2, <1>4, <1>7, <2>1, <2>2 DEF R
<1>8. CASE options.order = "SIZESORT+" 
  <2> DEFINE S == F!Sorted(all, bySize)
  <2>1. /\ S \in Seq(Chunk) /\ Len(S) = Len(all) /\ Single(S)
        /\ \A x \in Int : Covers(S, x) <=> Covers(all, x)
        /\ (\A i \in DOMAIN all : bySize[i] = all[i][1]) => Ascending(S)
    BY <1>2, <1>3, SortedList
  <2>2. R = S BY <1>8, <1>r
  <2> HIDE DEF S
  <2> QED BY <1>2, <1>8, <2>1, <2>2 DEF R
<1>9. CASE options.order = "SIZESORT-" 
  <2> DEFINE S == F!Sorted(all, byLess)
  <2>1. /\ S \in Seq(Chunk) /\ Len(S) = Len(all) /\ Single(S)
        /\ \A x \in Int : Covers(S, x) <=> Covers(all, x)
        /\ (\A i \in DOMAIN all : byLess[i] = all[i][1]) => Ascending(S)
    BY <1>2, <1>3, SortedList
  <2>2. R = S BY <1>9, <1>r
  <2> HIDE DEF S
  <2> QED BY <1>2, <1>9, <2>1, <2>2 DEF R
<1> QED BY <1>1, <1>5, <1>6, <1>7, <1>8, <1>9

-----------------------------------------------------------------------------
(* Coalescing. *)

\* W gives what the pass over the list L has made of its first k chunks, for k in D.
Passes(L, D, W) == W = [k \in D |-> IF k = 1 THEN <<L[1]>> ELSE F!Joined(W[k - 1], L[k])]

\* The pass can be made over a list of any length.
LEMMA PassEver ==
  ASSUME NEW L, NEW n \in Nat, 1 <= n
  PROVE  \E W : Passes(L, 1..n, W)
<1> SUFFICES ASSUME ~ \E W : Passes(L, 1..n, W) PROVE FALSE OBVIOUS
<1> DEFINE Bad == {i \in Nat : 1 <= i /\ ~ \E W : Passes(L, 1..i, W)}
<1>1. Bad \in SUBSET Nat /\ Bad # {} OBVIOUS
<1>2. PICK i \in Bad : \A j \in Bad : i <= j BY <1>1, LeastNumber
<1>3. i # 1
  <2>1. \A k \in 1..1 : k = 1 OBVIOUS
  <2>2. Passes(L, 1..1, [k \in 1..1 |-> <<L[1]>>]) BY <2>1 DEF Passes
  <2> QED BY <1>2, <2>2
<1>4. i \in Nat /\ i - 1 \in Nat /\ 1 <= i - 1 /\ ~(i <= i - 1) BY <1>2, <1>3
<1>5. PICK W : Passes(L, 1..i - 1, W) BY <1>2, <1>4
<1> DEFINE V == [k \in 1..i |-> IF k = i THEN F!Joined(W[i - 1], L[i]) ELSE W[k]]
<1>6. ASSUME NEW k \in 1..i PROVE V[k] = IF k = 1 THEN <<L[1]>> ELSE F!Joined(V[k - 1], L[k])
  <2>1. CASE k = i
    <3>1. V[k] = F!Joined(W[i - 1], L[i]) /\ k # 1 BY <1>3, <2>1
    <3>2. V[k - 1] = W[i - 1] BY <1>4, <2>1
    <3> QED BY <3>1, <3>2, <2>1
  <2>2. CASE k # i
    <3>1. k \in 1..i - 1 /\ V[k] = W[k] BY <1>4, <1>6, <2>2
    <3>2. W[k] = IF k = 1 THEN <<L[1]>> ELSE F!Joined(W[k - 1], L[k]) BY <1>5, <3>1 DEF Passes
    <3>3. CASE k = 1 BY <3>1, <3>2, <3>3
    <3>4. CASE k # 1
      <4>1. k - 1 \in 1..i /\ k - 1 # i BY <1>4, <3>1, <3>4
      <4>2. V[k - 1] = W[k - 1] BY <4>1
      <4> QED BY <3>1, <3>2, <3>4, <4>2
    <3> QED BY <3>3, <3>4
  <2> QED BY <2>1, <2>2
<1>7. V = [k \in 1..i |-> V[k]] OBVIOUS
<1> HIDE DEF V
<1>8. Passes(L, 1..i, V) BY <1>6, <1>7 DEF Passes
<1> QED BY <1>2, <1>8

\* What the pass gives is that of its last chunk.
LEMMA CoalescedIs ==
  ASSUME NEW L, NEW n \in Nat, 1 <= n, Len(L) = n
  PROVE  \E W : Passes(L, 1..n, W) /\ F!Coalesced(L) = W[n]
<1> DEFINE W == CHOOSE W : Passes(L, 1..n, W)
<1>1. Passes(L, 1..n, W) BY PassEver
<1>2. F!Coalesced(L) = W[n] BY DEF F!Coalesced, Passes
<1> QED BY <1>1, <1>2

\* What is made of the first k chunks covers what they cover, no two of its chunks
\* share an address, and it ends where the last of them does; if chunks come in the
\* order of addresses, none of its chunks has a neighbour.
PassInv(L, k, M) ==
  /\ M \in Seq(Chunk) /\ 1 <= Len(M)
  /\ M[Len(M)][1] + M[Len(M)][2] = L[k][1] + L[k][2]
  /\ Single(M)
  /\ \A x \in Int : Covers(M, x) <=> \E i \in 1..k : Inside(L[i], x)
  /\ Ascending(L) => Spaced(M)

\* One more chunk keeps that.
LEMMA JoinedKeeps ==
  ASSUME NEW L \in Seq(Chunk), Single(L), NEW k \in 2..Len(L), NEW M, PassInv(L, k - 1, M)
  PROVE  PassInv(L, k, F!Joined(M, L[k]))
<1> DEFINE n == Len(M)
           d == L[k]
           last == M[n]
           R == F!Joined(M, d)
<1>0. Len(L) \in Nat /\ DOMAIN L = 1..Len(L) OBVIOUS
<1>1. M \in Seq(Chunk) /\ 1 <= n /\ last[1] + last[2] = L[k - 1][1] + L[k - 1][2] /\ Single(M)
      /\ n \in Nat /\ DOMAIN M = 1..n /\ n \in 1..n
  BY DEF PassInv
<1>2. \A x \in Int : Covers(M, x) <=> \E i \in 1..k - 1 : Inside(L[i], x) BY DEF PassInv
<1>3. d \in Chunk /\ last \in Chunk BY <1>1
<1>4. /\ d[1] \in Int /\ d[2] \in Int /\ 0 < d[2] /\ 0 <= d[1] /\ Inside(d, d[1])
      /\ last[1] \in Int /\ last[2] \in Int /\ 0 < last[2] /\ 0 <= last[1]
  BY <1>3, ChunkIs
<1>5. \A x \in Int : ~(Covers(M, x) /\ Inside(d, x))
  <2> SUFFICES ASSUME NEW x \in Int, NEW i \in 1..k - 1, Inside(L[i], x), Inside(d, x) PROVE FALSE BY <1>2
  <2>1. i \in 1..Len(L) /\ k \in 1..Len(L) /\ i # k BY <1>0
  <2> QED BY <2>1 DEF Single
<1>6. \A x \in Int : (\E i \in 1..k : Inside(L[i], x)) <=> Covers(M, x) \/ Inside(d, x)
  <2>1. 1..k = 1..k - 1 \cup {k} BY <1>0
  <2> QED BY <1>2, <2>1
<1>7. Ascending(L) => Spaced(M) BY DEF PassInv
<1>8. Ascending(L) => last[1] + last[2] <= d[1]
  <2>1. k - 1 \in 1..Len(L) /\ k \in 1..Len(L) /\ k - 1 < k BY <1>0
  <2> QED BY <1>1, <2>1 DEF Ascending
<1>j. R = IF d[1] = last[1] + last[2] THEN [M EXCEPT ![n] = <<last[1], last[2] + d[2]>>] ELSE Append(M, d)
  BY DEF F!Joined
<1>m. \A i \in 1..n : M[i] \in Chunk BY <1>1
<1>g. k \in Int BY <1>0
<1> HIDE DEF n, d, last, R
<1>9. CASE d[1] = last[1] + last[2]
  <2> DEFINE e == <<last[1], last[2] + d[2]>>
  <2>1. R = [M EXCEPT ![n] = e] BY <1>9, <1>j
  <2>n. last[1] \in Nat /\ last[2] + d[2] \in Nat \ {0} BY <1>4
  <2>e. e = <<last[1], last[2] + d[2]>> OBVIOUS
  <2>2. e \in Chunk /\ e[1] = last[1] /\ e[2] = last[2] + d[2] BY ONLY <2>n, <2>e DEF Chunk
  <2>3. \A x \in Int : Inside(e, x) <=> Inside(last, x) \/ Inside(d, x) BY <1>4, <1>9, <2>2 DEF Inside
  <2> HIDE DEF e
  <2>4. R \in Seq(Chunk) /\ Len(R) = n /\ DOMAIN R = 1..n BY <1>1, <2>1, <2>2
  <2>5. R[n] = e /\ \A i \in 1..n : i # n => R[i] = M[i] BY <1>1, <2>1
  <2>l. M[n] = last BY DEF last
  <2>6. R[n][1] + R[n][2] = d[1] + d[2] BY <1>4, <1>9, <2>2, <2>5
  <2>7. ASSUME NEW x \in Int PROVE Covers(R, x) <=> Covers(M, x) \/ Inside(d, x)
    BY <1>1, <2>3, <2>4, <2>5, <2>l DEF Covers
  <2>8. Single(R)
    <3> SUFFICES ASSUME NEW x \in Int, NEW i \in 1..n, NEW j \in 1..n, Inside(R[i], x), Inside(R[j], x)
                 PROVE  i = j
      BY <2>4 DEF Single
    <3>1. \A b \in 1..n : ~(Inside(M[b], x) /\ Inside(d, x)) BY <1>1, <1>5 DEF Covers
    <3>2. ASSUME NEW a \in 1..n, NEW b \in 1..n, Inside(R[a], x), Inside(R[b], x), a # n PROVE a = b
      <4>1. Inside(M[a], x) /\ ~Inside(d, x) BY <2>5, <3>1, <3>2
      <4>2. Inside(M[b], x) BY <2>3, <2>5, <2>l, <3>2, <4>1
      <4> QED BY <1>1, <3>2, <4>1, <4>2 DEF Single
    <3> QED BY <3>2
  <2>9. Ascending(L) => Spaced(R)
    <3> SUFFICES ASSUME Spaced(M), NEW i \in 1..n, NEW j \in 1..n, i < j PROVE R[i][1] + R[i][2] < R[j][1]
      BY <1>7, <2>4 DEF Spaced
    <3>1. i # n /\ R[i] = M[i] BY <1>1, <2>5
    <3>2. R[j][1] = M[j][1] BY <2>2, <2>5, <2>l
    <3> QED BY <1>1, <3>1, <3>2 DEF Spaced
  <2> QED BY <1>1, <1>6, <2>4, <2>6, <2>7, <2>8, <2>9 DEF PassInv, R, d
<1>10. CASE d[1] # last[1] + last[2]
  <2>1. R = Append(M, d) BY <1>10, <1>j
  <2>2. /\ R \in Seq(Chunk) /\ Len(R) = n + 1 /\ Single(R)
        /\ \A x \in Int : Covers(R, x) <=> Covers(M, x) \/ Inside(d, x)
    BY <1>1, <1>3, <1>5, <2>1, PutAtEnd DEF n
  <2>3. DOMAIN R = 1..n + 1 /\ R[n + 1] = d /\ \A i \in 1..n : R[i] = M[i] BY <1>1, <2>1 DEF n
  <2>4. Ascending(L) => Spaced(R)
    <3> SUFFICES ASSUME Spaced(M), last[1] + last[2] <= d[1], NEW i \in 1..n + 1, NEW j \in 1..n + 1, i < j
                 PROVE  R[i][1] + R[i][2] < R[j][1]
      BY <1>7, <1>8, <2>3 DEF Spaced
    <3>1. i \in 1..n /\ R[i] = M[i] BY <1>1, <2>3
    <3>2. CASE j # n + 1
      <4>1. j \in 1..n /\ R[j] = M[j] BY <1>1, <2>3, <3>2
      <4> QED BY <1>1, <3>1, <4>1 DEF Spaced
    <3>3. CASE j = n + 1
      <4>1. R[j] = d /\ last[1] + last[2] < d[1] BY <1>4, <1>10, <2>3, <3>3
      <4>2. M[i] \in Chunk BY <1>m, <3>1
      <4>3. M[i][1] \in Int /\ M[i][2] \in Int BY <4>2, ChunkIs
      <4>4. M[n] = last BY DEF last
      <4>5. CASE i = n BY <3>1, <4>1, <4>4, <4>5
      <4>6. CASE i # n
        <5>1. i < n BY <1>1, <3>1, <4>6
        <5>2. M[i][1] + M[i][2] < last[1] BY <1>1, <3>1, <4>4, <5>1 DEF Spaced
        <5> QED BY <1>4, <3>1, <4>1, <4>3, <5>2
      <4> QED BY <4>5, <4>6
    <3> QED BY <3>2, <3>3
  <2>5. R[Len(R)][1] + R[Len(R)][2] = d[1] + d[2] /\ 1 <= Len(R) BY <1>1, <2>2, <2>3
  <2> QED BY <1>6, <2>2, <2>4, <2>5 DEF PassInv, R, d
<1> QED BY <1>9, <1>10

\* Coalescing changes neither what is covered nor that chunks are apart, and leaves
\* no neighbours on a list sorted by addresses.
LEMMA CoalescedKeeps ==
  ASSUME NEW L \in Seq(Chunk), Single(L), 1 <= Len(L)
  PROVE  /\ F!Coalesced(L) \in Seq(Chunk) /\ Single(F!Coalesced(L))
         /\ \A x \in Int : Covers(F!Coalesced(L), x) <=> Covers(L, x)
         /\ Ascending(L) => Spaced(F!Coalesced(L))
<1> DEFINE n == Len(L)
<1>1. n \in Nat /\ 1 <= n /\ DOMAIN L = 1..n /\ \A i \in 1..n : L[i] \in Chunk OBVIOUS
<1>2. PICK W : Passes(L, 1..n, W) /\ F!Coalesced(L) = W[n] BY <1>1, CoalescedIs
<1> HIDE DEF n
<1>3. \A k \in 1..n : W[k] = IF k = 1 THEN <<L[1]>> ELSE F!Joined(W[k - 1], L[k]) BY <1>2 DEF Passes
<1>4. PassInv(L, 1, W[1])
  <2> DEFINE M == <<L[1]>>
  <2>1. W[1] = M BY <1>1, <1>3
  <2>2. M \in Seq(Chunk) /\ Len(M) = 1 /\ DOMAIN M = {1} /\ M[1] = L[1] BY <1>1
  <2>3. \A i : i \in 1..1 <=> i = 1 OBVIOUS
  <2> HIDE DEF M
  <2>4. Single(M) BY <2>2 DEF Single
  <2>5. Spaced(M) BY <2>2 DEF Spaced
  <2>6. \A x \in Int : Covers(M, x) <=> \E i \in 1..1 : Inside(L[i], x) BY <2>2, <2>3 DEF Covers
  <2> QED BY <2>1, <2>2, <2>4, <2>5, <2>6 DEF PassInv
<1>5. PassInv(L, n, W[n])
  <2> SUFFICES ASSUME ~PassInv(L, n, W[n]) PROVE FALSE OBVIOUS
  <2> DEFINE Bad == {i \in Nat : 1 <= i /\ i <= n /\ ~PassInv(L, i, W[i])}
  <2>1. Bad \in SUBSET Nat /\ Bad # {} BY <1>1
  <2>2. PICK i \in Bad : \A j \in Bad : i <= j BY <2>1, LeastNumber
  <2>3. i # 1 /\ i \in Nat /\ 1 <= i /\ i <= n /\ ~PassInv(L, i, W[i]) BY <1>4, <2>2
  <2>4. i - 1 \in Nat /\ 1 <= i - 1 /\ i - 1 <= n /\ ~(i <= i - 1) /\ i \in 2..n BY <1>1, <2>3
  <2>5. PassInv(L, i - 1, W[i - 1]) BY <2>2, <2>4
  <2>6. W[i] = F!Joined(W[i - 1], L[i]) BY <1>3, <2>3
  <2>7. PassInv(L, i, F!Joined(W[i - 1], L[i])) BY <2>4, <2>5, JoinedKeeps DEF n
  <2> QED BY <2>3, <2>6, <2>7
<1>6. \A x \in Int : Covers(L, x) <=> \E i \in 1..n : Inside(L[i], x) BY <1>1 DEF Covers
<1> QED BY <1>2, <1>5, <1>6 DEF PassInv

-----------------------------------------------------------------------------
(* Free and allocated chunks tile the heap. *)

\* The chunk allocated at a, and the addresses of all allocated chunks.
At(m, a) == <<a, m[a]>>
Owned(m, x) == \E a \in DOMAIN m : Inside(At(m, a), x)

\* Every address of the heap, and no other, is in a chunk of the list or in an
\* allocated one, in one of them only.
TileInv(L, m) ==
  /\ L \in Seq(Chunk) /\ Single(L)
  /\ \A a \in DOMAIN m : At(m, a) \in Chunk
  /\ \A x \in Int : \A a, b \in DOMAIN m : Inside(At(m, a), x) /\ Inside(At(m, b), x) => a = b
  /\ \A x \in Int : ~(Covers(L, x) /\ Owned(m, x))
  /\ \A x \in Int : Covers(L, x) \/ Owned(m, x) <=> ListStart <= x /\ x < ListStart + ListSize

\* A list without its i-th element.
LEMMA RemoveAtIs ==
  ASSUME NEW S, NEW L \in Seq(S), NEW i \in 1..Len(L)
  PROVE  /\ F!RemoveAt(L, i) \in Seq(S) /\ Len(F!RemoveAt(L, i)) = Len(L) - 1
         /\ \A k \in 1..Len(L) - 1 : F!RemoveAt(L, i)[k] = L[IF k < i THEN k ELSE k + 1]
<1> DEFINE n == Len(L)
           front == SubSeq(L, 1, i - 1)
           back == SubSeq(L, i + 1, n)
<1>1. n \in Nat /\ i \in Int /\ 1 <= i /\ i <= n OBVIOUS
<1>2. front \in Seq(S) /\ Len(front) = i - 1 /\ \A k \in 1..i - 1 : front[k] = L[k] BY <1>1
<1>3. back \in Seq(S) /\ Len(back) = n - i /\ \A k \in 1..n - i : back[k] = L[i + k] BY <1>1
<1>4. F!RemoveAt(L, i) = front \o back BY DEF F!RemoveAt
<1> HIDE DEF n, front, back
<1>5. front \o back \in Seq(S) /\ Len(front \o back) = n - 1
  <2>1. front \in Seq(S) /\ back \in Seq(S) BY <1>2, <1>3
  <2>2. front \o back \in Seq(S) /\ Len(front \o back) = Len(front) + Len(back) BY ONLY <2>1
  <2> QED BY <1>1, <1>2, <1>3, <2>2
<1>6. ASSUME NEW k \in 1..n - 1 PROVE (front \o back)[k] = L[IF k < i THEN k ELSE k + 1]
  <2>1. CASE k < i
    <3>1. k \in 1..i - 1 BY <1>1, <1>6, <2>1
    <3> QED BY <1>1, <1>2, <1>3, <2>1, <3>1
  <2>2. CASE ~(k < i)
    <3>1. k - (i - 1) \in 1..n - i /\ i + (k - (i - 1)) = k + 1 BY <1>1, <1>6, <2>2
    <3>2. (front \o back)[k] = back[k - (i - 1)] BY <1>1, <1>2, <1>3, <1>6, <2>2
    <3> QED BY <1>3, <2>2, <3>1, <3>2
  <2> QED BY <2>1, <2>2
<1> QED BY <1>4, <1>5, <1>6 DEF n

\* The list once n addresses of its i-th chunk are allocated.
Taken(L, i, n) ==
  IF L[i][2] > n THEN [L EXCEPT ![i] = <<L[i][1] + n, L[i][2] - n>>] ELSE F!RemoveAt(L, i)

\* Allocating n addresses of a chunk takes them, and no others, from the list, which
\* stays sorted if it was.
LEMMA SplitIs ==
  ASSUME NEW L \in Seq(Chunk), Single(L), NEW i \in DOMAIN L, NEW n \in Nat \ {0}, n <= L[i][2]
  PROVE  /\ Taken(L, i, n) \in Seq(Chunk) /\ Single(Taken(L, i, n))
         /\ \A x \in Int : Covers(Taken(L, i, n), x) <=> Covers(L, x) /\ ~Inside(<<L[i][1], n>>, x)
         /\ \A x \in Int : Inside(<<L[i][1], n>>, x) => Covers(L, x)
         /\ Ascending(L) => Ascending(Taken(L, i, n))
         /\ Spaced(L) => Spaced(Taken(L, i, n))
<1> DEFINE z == Len(L)
           d == L[i]
           R == Taken(L, i, n)
<1>0. z \in Nat /\ DOMAIN L = 1..z /\ i \in 1..z /\ \A k \in 1..z : L[k] \in Chunk OBVIOUS
<1>1. d \in Chunk /\ d[1] \in Int /\ d[2] \in Int /\ 0 <= d[1] /\ 0 < d[2] BY <1>0, ChunkIs
<1>2. n \in Int /\ 0 < n /\ n <= d[2] BY <1>1
<1>3. \A x \in Int : Inside(<<d[1], n>>, x) <=> d[1] <= x /\ x < d[1] + n BY DEF Inside
<1>r. R = IF d[2] > n THEN [L EXCEPT ![i] = <<d[1] + n, d[2] - n>>] ELSE F!RemoveAt(L, i)
  BY DEF Taken
<1>d. L[i] = d OBVIOUS
<1>rem. /\ F!RemoveAt(L, i) \in Seq(Chunk) /\ Len(F!RemoveAt(L, i)) = z - 1
        /\ \A k \in 1..z - 1 : F!RemoveAt(L, i)[k] = L[IF k < i THEN k ELSE k + 1]
  BY <1>0, RemoveAtIs
<1> HIDE DEF z, d, R
<1>4. ASSUME NEW x \in Int, Inside(<<d[1], n>>, x) PROVE Inside(d, x) /\ Covers(L, x)
  <2>1. Inside(d, x) BY <1>1, <1>2, <1>3, <1>4 DEF Inside
  <2> QED BY <1>0, <1>d, <2>1 DEF Covers
<1>5. \A k \in 1..z : k # i => \A x \in Int : ~(Inside(L[k], x) /\ Inside(d, x)) BY <1>0, <1>d DEF Single
<1>6. CASE d[2] > n
  <2> DEFINE e == <<d[1] + n, d[2] - n>>
  <2>1. R = [L EXCEPT ![i] = e] BY <1>6, <1>r
  <2>n. d[1] + n \in Nat /\ d[2] - n \in Nat \ {0} BY <1>1, <1>2, <1>6
  <2>e. e = <<d[1] + n, d[2] - n>> OBVIOUS
  <2>2. e \in Chunk /\ e[1] = d[1] + n /\ e[2] = d[2] - n BY ONLY <2>n, <2>e DEF Chunk
  <2>3. \A x \in Int : Inside(e, x) <=> Inside(d, x) /\ ~Inside(<<d[1], n>>, x)
    BY <1>1, <1>2, <1>3, <2>2 DEF Inside
  <2> HIDE DEF e
  <2>4. R \in Seq(Chunk) /\ DOMAIN R = 1..z /\ R[i] = e /\ \A k \in 1..z : k # i => R[k] = L[k]
    BY <1>0, <2>1, <2>2
  <2>5. ASSUME NEW x \in Int PROVE Covers(R, x) <=> Covers(L, x) /\ ~Inside(<<d[1], n>>, x)
    <3>1. ASSUME NEW k \in 1..z, Inside(R[k], x) PROVE Covers(L, x) /\ ~Inside(<<d[1], n>>, x)
      <4>1. CASE k = i BY <1>0, <1>d, <2>3, <2>4, <3>1, <4>1 DEF Covers
      <4>2. CASE k # i
        <5>1. Inside(L[k], x) BY <2>4, <3>1, <4>2
        <5>2. ~Inside(d, x) BY <1>5, <4>2, <5>1
        <5> QED BY <1>0, <1>4, <5>1, <5>2 DEF Covers
      <4> QED BY <4>1, <4>2
    <3>2. ASSUME NEW k \in 1..z, Inside(L[k], x), ~Inside(<<d[1], n>>, x) PROVE Covers(R, x)
      <4>1. CASE k = i
        <5>1. Inside(R[i], x) BY <1>d, <2>3, <2>4, <3>2, <4>1
        <5> QED BY <1>0, <2>4, <5>1 DEF Covers
      <4>2. CASE k # i BY <1>0, <2>4, <3>2, <4>2 DEF Covers
      <4> QED BY <4>1, <4>2
    <3> QED BY <1>0, <2>4, <3>1, <3>2 DEF Covers
  <2>6. Single(R)
    <3> SUFFICES ASSUME NEW x \in Int, NEW a \in 1..z, NEW b \in 1..z, Inside(R[a], x), Inside(R[b], x)
                 PROVE  a = b
      BY <2>4 DEF Single
    <3>1. Inside(L[a], x) /\ Inside(L[b], x) BY <1>d, <2>3, <2>4
    <3> QED BY <1>0, <3>1 DEF Single
  <2>7. ASSUME NEW a \in 1..z, NEW b \in 1..z
        PROVE  /\ R[a][1] + R[a][2] = L[a][1] + L[a][2] /\ L[b][1] <= R[b][1]
               /\ L[a][1] + L[a][2] \in Int /\ L[b][1] \in Int /\ R[b][1] \in Int
    <3>1. /\ L[a] \in Chunk /\ L[b] \in Chunk
          /\ L[a][1] \in Int /\ L[a][2] \in Int /\ L[b][1] \in Int
      BY <1>0, ChunkIs
    <3>2. R[a][1] + R[a][2] = L[a][1] + L[a][2]
      <4>1. CASE a = i BY <1>1, <1>2, <1>d, <2>2, <2>4, <4>1
      <4>2. CASE a # i BY <2>4, <4>2
      <4> QED BY <4>1, <4>2
    <3>3. L[b][1] <= R[b][1] /\ R[b][1] \in Int
      <4>1. CASE b = i BY <1>1, <1>2, <1>d, <2>2, <2>4, <4>1
      <4>2. CASE b # i BY <2>4, <3>1, <4>2
      <4> QED BY <4>1, <4>2
    <3> QED BY <3>1, <3>2, <3>3
  <2>8. Ascending(L) => Ascending(R)
    <3> SUFFICES ASSUME Ascending(L), NEW a \in 1..z, NEW b \in 1..z, a < b PROVE R[a][1] + R[a][2] <= R[b][1]
      BY <2>4 DEF Ascending
    <3>1. L[a][1] + L[a][2] <= L[b][1] BY <1>0 DEF Ascending
    <3> QED BY <2>7, <3>1
  <2>9. Spaced(L) => Spaced(R)
    <3> SUFFICES ASSUME Spaced(L), NEW a \in 1..z, NEW b \in 1..z, a < b PROVE R[a][1] + R[a][2] < R[b][1]
      BY <2>4 DEF Spaced
    <3>1. L[a][1] + L[a][2] < L[b][1] BY <1>0 DEF Spaced
    <3> QED BY <2>7, <3>1
  <2> QED BY <1>4, <2>4, <2>5, <2>6, <2>8, <2>9 DEF d, R
<1>7. CASE ~(d[2] > n)
  <2> DEFINE old(k) == IF k < i THEN k ELSE k + 1
  <2>1. n = d[2] BY <1>1, <1>2, <1>7
  <2>2. R \in Seq(Chunk) /\ DOMAIN R = 1..z - 1 /\ \A k \in 1..z - 1 : R[k] = L[old(k)]
    BY <1>0, <1>7, <1>r, <1>rem
  <2>3. \A k \in 1..z - 1 : old(k) \in 1..z /\ old(k) # i BY <1>0
  <2>4. \A a, b \in 1..z - 1 : a < b => old(a) < old(b) BY <1>0
  <2>5. \A k \in 1..z : k # i => \E b \in 1..z - 1 : old(b) = k
    <3> SUFFICES ASSUME NEW k \in 1..z, k # i PROVE \E b \in 1..z - 1 : old(b) = k OBVIOUS
    <3>1. CASE k < i
      <4>1. k \in 1..z - 1 /\ old(k) = k BY <1>0, <3>1
      <4> QED BY <4>1
    <3>2. CASE ~(k < i)
      <4>1. k - 1 \in 1..z - 1 /\ old(k - 1) = k BY <1>0, <3>2
      <4> QED BY <4>1
    <3> QED BY <3>1, <3>2
  <2>6. \A x \in Int : Inside(<<d[1], n>>, x) <=> Inside(d, x) BY <1>3, <2>1 DEF Inside
  <2> HIDE DEF old
  <2>7. ASSUME NEW x \in Int PROVE Covers(R, x) <=> Covers(L, x) /\ ~Inside(<<d[1], n>>, x)
    <3>1. ASSUME NEW k \in 1..z - 1, Inside(R[k], x) PROVE Covers(L, x) /\ ~Inside(d, x)
      <4>1. Inside(L[old(k)], x) /\ old(k) \in 1..z /\ old(k) # i BY <2>2, <2>3, <3>1
      <4> QED BY <1>0, <1>5, <4>1 DEF Covers
    <3>2. ASSUME NEW k \in 1..z, Inside(L[k], x), ~Inside(d, x) PROVE Covers(R, x)
      <4>1. k # i BY <1>d, <3>2
      <4>2. PICK b \in 1..z - 1 : old(b) = k BY <2>5, <4>1
      <4>3. Inside(R[b], x) BY <2>2, <3>2, <4>2
      <4> QED BY <2>2, <4>3 DEF Covers
    <3> QED BY <1>0, <2>2, <2>6, <3>1, <3>2 DEF Covers
  <2>8. Single(R)
    <3> SUFFICES ASSUME NEW x \in Int, NEW a \in 1..z - 1, NEW b \in 1..z - 1, Inside(R[a], x), Inside(R[b], x)
                 PROVE  a = b
      BY <2>2 DEF Single
    <3>1. Inside(L[old(a)], x) /\ Inside(L[old(b)], x) /\ old(a) \in 1..z /\ old(b) \in 1..z BY <2>2, <2>3
    <3>2. old(a) = old(b) BY <1>0, <3>1 DEF Single
    <3>3. ~(a < b) /\ ~(b < a) BY <1>0, <2>3, <2>4, <3>2
    <3> QED BY <3>3
  <2>9. Ascending(L) => Ascending(R) BY <1>0, <2>2, <2>3, <2>4 DEF Ascending
  <2>10. Spaced(L) => Spaced(R) BY <1>0, <2>2, <2>3, <2>4 DEF Spaced
  <2> QED BY <1>4, <2>2, <2>7, <2>8, <2>9, <2>10 DEF d, R
<1> QED BY <1>6, <1>7

\* An allocation keeps the tiling: its addresses are the heap's, and nobody has them.
LEMMA TakenTiles ==
  ASSUME NEW L, NEW m, TileInv(L, m), NEW i \in DOMAIN L, NEW n \in Nat \ {0}, n <= L[i][2]
  PROVE  /\ TileInv(Taken(L, i, n), F!With(m, L[i][1], n))
         /\ L[i][1] \notin DOMAIN m
         /\ L[i][1] \in Nat /\ ListStart <= L[i][1] /\ L[i][1] + n <= ListStart + ListSize
         /\ \A x \in Int : ~(Inside(<<L[i][1], n>>, x) /\ Owned(m, x))
<1> DEFINE a == L[i][1]
           w == F!With(m, a, n)
           R == Taken(L, i, n)
<1>1. /\ L \in Seq(Chunk) /\ Single(L)
      /\ \A b \in DOMAIN m : At(m, b) \in Chunk
      /\ \A x \in Int : \A b, d \in DOMAIN m : Inside(At(m, b), x) /\ Inside(At(m, d), x) => b = d
      /\ \A x \in Int : ~(Covers(L, x) /\ Owned(m, x))
      /\ \A x \in Int : Covers(L, x) \/ Owned(m, x) <=> ListStart <= x /\ x < ListStart + ListSize
  BY DEF TileInv
<1>2. L[i] \in Chunk /\ a \in Nat /\ a \in Int /\ n \in Int /\ 0 < n
  <2>1. L[i] \in Chunk BY <1>1
  <2> QED BY <2>1 DEF Chunk
<1>3. /\ R \in Seq(Chunk) /\ Single(R)
      /\ \A x \in Int : Covers(R, x) <=> Covers(L, x) /\ ~Inside(<<a, n>>, x)
      /\ \A x \in Int : Inside(<<a, n>>, x) => Covers(L, x)
  BY <1>1, SplitIs
<1>4. DOMAIN w = DOMAIN m \cup {a} /\ \A b \in DOMAIN w : w[b] = IF b = a THEN n ELSE m[b] BY DEF F!With
<1>c. ListStart \in Int /\ ListSize \in Int BY ListAssumption
<1> HIDE DEF a, w, R
<1>5. \A x \in Int : ~(Inside(<<a, n>>, x) /\ Owned(m, x)) BY <1>1, <1>3
<1>6. a \notin DOMAIN m
  <2> SUFFICES ASSUME a \in DOMAIN m PROVE FALSE OBVIOUS
  <2>1. At(m, a) \in Chunk /\ At(m, a)[1] = a BY <1>1 DEF At
  <2>2. Inside(At(m, a), a) BY <2>1, ChunkIs
  <2>3. Inside(<<a, n>>, a) BY <1>2 DEF Inside
  <2> QED BY <1>2, <1>5, <2>2, <2>3 DEF Owned
<1>7. /\ At(w, a) = <<a, n>> /\ \A b \in DOMAIN m : At(w, b) = At(m, b)
  BY <1>4, <1>6 DEF At
<1>8. \A x \in Int : Owned(w, x) <=> Owned(m, x) \/ Inside(<<a, n>>, x) BY <1>4, <1>7 DEF Owned
<1>9. <<a, n>> \in Chunk BY <1>2 DEF Chunk
<1>10. \A b \in DOMAIN w : At(w, b) \in Chunk BY <1>1, <1>4, <1>7, <1>9
<1>11. ASSUME NEW x \in Int, NEW b \in DOMAIN w, NEW d \in DOMAIN w, Inside(At(w, b), x), Inside(At(w, d), x)
       PROVE  b = d
  <2>1. \A k \in DOMAIN m : ~(Inside(At(m, k), x) /\ Inside(<<a, n>>, x)) BY <1>5 DEF Owned
  <2> QED BY <1>1, <1>4, <1>7, <1>11, <2>1
<1>12. TileInv(R, w) BY <1>1, <1>3, <1>5, <1>8, <1>10, <1>11 DEF TileInv
<1>13. ListStart <= a /\ a + n <= ListStart + ListSize
  <2>1. a + n - 1 \in Int /\ Inside(<<a, n>>, a) /\ Inside(<<a, n>>, a + n - 1) BY <1>2 DEF Inside
  <2>2. ListStart <= a /\ a + n - 1 < ListStart + ListSize BY <1>1, <1>2, <1>3, <2>1
  <2> QED BY <1>2, <1>c, <2>2
<1> QED BY <1>2, <1>5, <1>6, <1>12, <1>13 DEF a, w, R

\* A chunk given back to the list keeps the tiling, however the list is kept.
LEMMA FreedTiles ==
  ASSUME NEW L, NEW m, TileInv(L, m), NEW a \in DOMAIN m,
         NEW R, R \in Seq(Chunk), Single(R), \A x \in Int : Covers(R, x) <=> Covers(L, x) \/ Inside(At(m, a), x)
  PROVE  TileInv(R, F!Without(m, a))
<1> DEFINE w == F!Without(m, a)
<1>1. /\ \A b \in DOMAIN m : At(m, b) \in Chunk
      /\ \A x \in Int : \A b, d \in DOMAIN m : Inside(At(m, b), x) /\ Inside(At(m, d), x) => b = d
      /\ \A x \in Int : ~(Covers(L, x) /\ Owned(m, x))
      /\ \A x \in Int : Covers(L, x) \/ Owned(m, x) <=> ListStart <= x /\ x < ListStart + ListSize
  BY DEF TileInv
<1>2. DOMAIN w = DOMAIN m \ {a} /\ \A b \in DOMAIN w : At(w, b) = At(m, b) BY DEF F!Without, At
<1> HIDE DEF w
<1>3. \A x \in Int : Owned(w, x) <=> Owned(m, x) /\ ~Inside(At(m, a), x) BY <1>1, <1>2 DEF Owned
<1>4. \A x \in Int : Inside(At(m, a), x) => Owned(m, x) BY DEF Owned
<1>5. \A b \in DOMAIN w : At(w, b) \in Chunk BY <1>1, <1>2
<1>6. \A x \in Int : \A b, d \in DOMAIN w : Inside(At(w, b), x) /\ Inside(At(w, d), x) => b = d
  BY <1>1, <1>2
<1>7. TileInv(R, w) BY <1>1, <1>3, <1>4, <1>5, <1>6 DEF TileInv
<1> QED BY <1>7 DEF w

\* The chunk to be given back is none of the list's.
LEMMA FreedApart ==
  ASSUME NEW L, NEW m, TileInv(L, m), NEW a \in DOMAIN m
  PROVE  /\ L \in Seq(Chunk) /\ Single(L) /\ <<a, m[a]>> \in Chunk /\ <<a, m[a]>> = At(m, a)
         /\ \A x \in Int : ~(Covers(L, x) /\ Inside(<<a, m[a]>>, x))
BY DEF TileInv, Owned, At

-----------------------------------------------------------------------------
(* The invariant of malloc.py. *)

\* Chunks tile the heap, and a list by addresses is in their order.
ListInv ==
  /\ options \in Options
  /\ TileInv(freelist, sizemap)
  /\ options.order = "ADDRSORT" => IF options.coalesce THEN Spaced(freelist) ELSE Ascending(freelist)
\* The driver has as many pointers as calls at most; the random one has each
\* allocated chunk once.
PointersInv ==
  /\ c \in 0..MaxAllocs /\ up \in BOOLEAN
  /\ DOMAIN p \subseteq 0..c - 1
  /\ F!PointersCurrent
FInv == ListInv /\ PointersInv

\* What is asked of the list is a number of addresses.
LEMMA NeededIs ==
  ASSUME options \in Options, NEW n \in ListSizes
  PROVE  F!Needed(n) \in Nat \ {0}
<1> DEFINE h == options.headerSize
           al == options.align
           left == n % al
<1>1. h \in Nat /\ al \in {-1} \cup (Nat \ {0}) /\ n + h > 0 BY OptionsAre
<1>2. n \in Nat BY ListAssumption
<1>3. F!Needed(n) = h + (IF al = -1 \/ left = 0 THEN n ELSE n + al - left) BY DEF F!Needed
<1>4. al # -1 => left \in Int /\ 0 <= left /\ left < al BY <1>1, <1>2
<1> HIDE DEF h, al, left
<1>5. CASE al = -1 \/ left = 0 BY <1>1, <1>2, <1>3, <1>5
<1>6. CASE ~(al = -1 \/ left = 0) BY <1>1, <1>2, <1>3, <1>4, <1>6
<1> QED BY <1>5, <1>6

\* The chunk chosen is on the list and large enough.
LEMMA ChosenIs ==
  ASSUME options \in Options, NEW n, NEW i \in F!Chosen(n)
  PROVE  i \in DOMAIN freelist /\ n <= freelist[i][2]
<1>1. i \in F!Preferred(n) BY DEF F!Chosen
<1>2. options.policy \in {"FIRST", "BEST", "WORST"} BY OptionsAre
<1>3. i \in DOMAIN freelist /\ freelist[i][2] >= n
  <2>1. CASE options.policy = "FIRST" BY <1>1, <2>1 DEF F!Preferred
  <2>2. CASE options.policy = "BEST" BY <1>1, <2>2 DEF F!Preferred
  <2>3. CASE options.policy = "WORST" BY <1>1, <2>3 DEF F!Preferred
  <2> QED BY <1>2, <2>1, <2>2, <2>3
<1> QED BY <1>3

\* What the step of an allocator does to the chunks allocated.
AllocStep == F!A!Next \/ UNCHANGED sizemap

\* The abstract allocator has room for what is taken from the list.
LEMMA TakenIsMalloc ==
  ASSUME NEW L, TileInv(L, sizemap), NEW i \in DOMAIN L, NEW n \in Nat \ {0}, n <= L[i][2],
         sizemap' = F!With(sizemap, L[i][1], n)
  PROVE  F!A!Next
<1> DEFINE a == L[i][1]
<1>1. /\ a \notin DOMAIN sizemap /\ a \in Nat /\ ListStart <= a /\ a + n <= ListStart + ListSize
      /\ \A x \in Int : ~(Inside(<<a, n>>, x) /\ Owned(sizemap, x))
  BY TakenTiles
<1>2. DOMAIN sizemap' = DOMAIN sizemap \cup {a} /\ sizemap'[a] = n
      /\ sizemap' = [x \in DOMAIN sizemap \cup {a} |-> IF x = a THEN n ELSE sizemap[x]]
  BY DEF F!With
<1>c. ListStart \in Nat /\ ListSize \in Nat BY ListAssumption
<1>t. \A b \in DOMAIN sizemap : At(sizemap, b) \in Chunk BY DEF TileInv
<1> HIDE DEF a
<1>3. F!A!Region(a, n) \subseteq ListStart..((ListStart + ListSize) - 1) BY <1>1, <1>c DEF F!A!Region
<1>4. ASSUME NEW b \in DOMAIN sizemap PROVE F!A!Region(a, n) \cap F!A!Region(b, sizemap[b]) = {}
  <2>1. b \in Int /\ sizemap[b] \in Int
    <3>1. At(sizemap, b)[1] \in Int /\ At(sizemap, b)[2] \in Int BY <1>t, <1>4, ChunkIs
    <3> QED BY <3>1 DEF At
  <2> SUFFICES ASSUME NEW x \in F!A!Region(a, n), x \in F!A!Region(b, sizemap[b]) PROVE FALSE OBVIOUS
  <2>2. x \in Int /\ a <= x /\ x < a + n /\ b <= x /\ x < b + sizemap[b] BY <1>1, <2>1 DEF F!A!Region
  <2>3. Inside(<<a, n>>, x) /\ Inside(At(sizemap, b), x) BY <2>2 DEF Inside, At
  <2> QED BY <1>1, <2>2, <2>3 DEF Owned
<1>5. a % 1 = 0 BY <1>1
<1>6. F!A!Room(sizemap, a, n) BY <1>3, <1>4, <1>5 DEF F!A!Room
<1>7. sizemap' = F!A!With(sizemap, a, n) BY <1>2 DEF F!A!With
<1>8. a \in DOMAIN sizemap' \ DOMAIN sizemap /\ sizemap'[a] = n /\ n > 0 BY <1>1, <1>2
<1>9. F!A!Malloc(a, sizemap'[a]) BY <1>6, <1>7, <1>8 DEF F!A!Malloc
<1> QED BY <1>8, <1>9 DEF F!A!Next

\* A call of malloc keeps the invariant, and is one of the abstract allocator.
LEMMA MallocKeeps ==
  ASSUME FInv, NEW n \in ListSizes, c < MaxAllocs, F!Malloc(n)
  PROVE  FInv' /\ AllocStep
<1> DEFINE k == F!Needed(n)
<1>1. options \in Options /\ TileInv(freelist, sizemap)
      /\ (options.order = "ADDRSORT" => IF options.coalesce THEN Spaced(freelist) ELSE Ascending(freelist))
      /\ c \in 0..MaxAllocs /\ up \in BOOLEAN /\ DOMAIN p \subseteq 0..c - 1 /\ F!PointersCurrent
  BY DEF FInv, ListInv, PointersInv
<1>2. k \in Nat \ {0} BY <1>1, NeededIs
<1>3. c' = c + 1 /\ up' = up /\ options' = options BY DEF F!Malloc
<1>4. MaxAllocs \in Nat /\ c \in Int /\ c' \in 0..MaxAllocs BY <1>1, <1>3, ListAssumption
<1>5. CASE F!Chosen(k) = {} /\ UNCHANGED <<freelist, sizemap, p>>
  <2>1. ListInv' BY <1>1, <1>3, <1>5 DEF ListInv
  <2>2. DOMAIN p' \subseteq 0..c' - 1 BY <1>1, <1>3, <1>4, <1>5
  <2>3. F!PointersCurrent' BY <1>1, <1>3, <1>5 DEF F!PointersCurrent
  <2> QED BY <1>1, <1>3, <1>4, <1>5, <2>1, <2>2, <2>3 DEF FInv, PointersInv, AllocStep
<1>6. ASSUME NEW i \in F!Chosen(k), freelist' = F!AfterSplit(i, k),
             sizemap' = F!With(sizemap, freelist[i][1], k), p' = F!With(p, c, freelist[i][1])
      PROVE  FInv' /\ AllocStep
  <2> DEFINE a == freelist[i][1]
  <2>1. i \in DOMAIN freelist /\ k <= freelist[i][2] BY <1>1, <1>6, ChosenIs
  <2>2. freelist' = Taken(freelist, i, k) BY <1>6 DEF F!AfterSplit, Taken
  <2>3. TileInv(freelist', sizemap') /\ a \notin DOMAIN sizemap
    <3>1. TileInv(Taken(freelist, i, k), F!With(sizemap, freelist[i][1], k)) /\ a \notin DOMAIN sizemap
      BY <1>1, <1>2, <2>1, TakenTiles
    <3> QED BY <1>6, <2>2, <3>1
  <2>4. freelist \in Seq(Chunk) /\ Single(freelist) BY <1>1 DEF TileInv
  <2>5. (Ascending(freelist) => Ascending(freelist')) /\ (Spaced(freelist) => Spaced(freelist'))
    BY <1>2, <2>1, <2>2, <2>4, SplitIs
  <2>6. ListInv' BY <1>1, <1>3, <2>3, <2>5 DEF ListInv
  <2>7. F!A!Next BY <1>1, <1>2, <1>6, <2>1, TakenIsMalloc
  <2>8. DOMAIN p' = DOMAIN p \cup {c} /\ \A j \in DOMAIN p' : p'[j] = IF j = c THEN a ELSE p[j] BY <1>6 DEF F!With
  <2>9. DOMAIN sizemap' = DOMAIN sizemap \cup {a} BY <1>6 DEF F!With
  <2>10. c \notin DOMAIN p /\ DOMAIN p' \subseteq 0..c' - 1 BY <1>1, <1>3, <1>4, <2>8
  <2>11. F!PointersCurrent'
    <3> SUFFICES ASSUME ~options.list
                 PROVE  /\ {p'[j] : j \in DOMAIN p'} = DOMAIN sizemap'
                        /\ \A x, y \in DOMAIN p' : p'[x] = p'[y] => x = y
      BY <1>3 DEF F!PointersCurrent
    <3> HIDE DEF a
    <3>1. {p[j] : j \in DOMAIN p} = DOMAIN sizemap /\ \A x, y \in DOMAIN p : p[x] = p[y] => x = y
      BY <1>1 DEF F!PointersCurrent
    <3>2. {p'[j] : j \in DOMAIN p'} = {p[j] : j \in DOMAIN p} \cup {a} BY <2>8, <2>10
    <3>3. \A j \in DOMAIN p : p[j] # a BY <2>3, <3>1
    <3> QED BY <2>8, <2>9, <2>10, <3>1, <3>2, <3>3
  <2> QED BY <1>1, <1>3, <1>4, <2>6, <2>7, <2>10, <2>11 DEF FInv, PointersInv, AllocStep
<1> QED BY <1>5, <1>6 DEF F!Malloc

\* A call of free keeps the invariant of the chunks: the chunk at addr is given back,
\* or nothing changes.
LEMMA FreeAtKeeps ==
  ASSUME ListInv, NEW addr, F!FreeAt(addr), options' = options
  PROVE  /\ ListInv' /\ AllocStep
         /\ addr \in DOMAIN sizemap => sizemap' = F!Without(sizemap, addr)
         /\ addr \notin DOMAIN sizemap => sizemap' = sizemap
<1>1. options \in Options /\ TileInv(freelist, sizemap)
      /\ (options.order = "ADDRSORT" => IF options.coalesce THEN Spaced(freelist) ELSE Ascending(freelist))
  BY DEF ListInv
<1>2. CASE addr \notin DOMAIN sizemap
  <2>1. UNCHANGED <<freelist, sizemap>> BY <1>2 DEF F!FreeAt
  <2> QED BY <1>1, <1>2, <2>1 DEF ListInv, AllocStep
<1>3. CASE addr \in DOMAIN sizemap
  <2> DEFINE d == <<addr, sizemap[addr]>>
             list == F!Returned(freelist, d)
  <2>1. freelist' = (IF options.coalesce THEN F!Coalesced(list) ELSE list) /\ sizemap' = F!Without(sizemap, addr)
    BY <1>3 DEF F!FreeAt
  <2>2. /\ freelist \in Seq(Chunk) /\ Single(freelist) /\ d \in Chunk /\ d = At(sizemap, addr)
        /\ \A x \in Int : ~(Covers(freelist, x) /\ Inside(d, x))
    BY <1>1, <1>3, FreedApart
  <2> HIDE DEF d
  <2>3. /\ list \in Seq(Chunk) /\ Len(list) = Len(freelist) + 1 /\ Single(list)
        /\ \A x \in Int : Covers(list, x) <=> Covers(freelist, x) \/ Inside(d, x)
        /\ options.order = "ADDRSORT" => Ascending(list)
    BY <1>1, <2>2, ReturnedIs
  <2>4. 1 <= Len(list) BY <2>2, <2>3
  <2> HIDE DEF list
  <2>5. /\ freelist' \in Seq(Chunk) /\ Single(freelist')
        /\ \A x \in Int : Covers(freelist', x) <=> Covers(list, x)
        /\ options.order = "ADDRSORT" => IF options.coalesce THEN Spaced(freelist') ELSE Ascending(freelist')
    <3>1. CASE options.coalesce
      <4>1. freelist' = F!Coalesced(list) BY <2>1, <3>1
      <4> QED BY <2>3, <2>4, <3>1, <4>1, CoalescedKeeps
    <3>2. CASE ~options.coalesce
      <4>1. freelist' = list BY <2>1, <3>2
      <4> QED BY <2>3, <3>2, <4>1
    <3> QED BY <3>1, <3>2
  <2>6. TileInv(freelist', sizemap') BY <1>1, <1>3, <2>1, <2>2, <2>3, <2>5, FreedTiles
  <2>7. F!A!Next
    <3>1. sizemap' = F!A!Without(sizemap, addr) BY <2>1 DEF F!Without, F!A!Without
    <3> QED BY <1>3, <3>1 DEF F!A!Next, F!A!Free
  <2> QED BY <1>1, <1>3, <2>1, <2>5, <2>6, <2>7 DEF ListInv, AllocStep
<1> QED BY <1>2, <1>3

\* The random driver gives back the chunk of a pointer and forgets it.
LEMMA FreeRandomKeeps ==
  ASSUME FInv, NEW i, F!FreeRandom(i)
  PROVE  FInv' /\ AllocStep
<1>1. ~options.list /\ i \in DOMAIN p /\ F!FreeAt(p[i]) /\ p' = F!Without(p, i)
      /\ c' = c /\ up' = up /\ options' = options
  BY DEF F!FreeRandom
<1>2. ListInv /\ c \in 0..MaxAllocs /\ up \in BOOLEAN /\ DOMAIN p \subseteq 0..c - 1 /\ F!PointersCurrent
  BY DEF FInv, PointersInv
<1>3. {p[j] : j \in DOMAIN p} = DOMAIN sizemap /\ \A x, y \in DOMAIN p : p[x] = p[y] => x = y
  BY <1>1, <1>2 DEF F!PointersCurrent
<1>4. ListInv' /\ AllocStep /\ sizemap' = F!Without(sizemap, p[i])
  <2>1. p[i] \in DOMAIN sizemap BY <1>1, <1>3
  <2> QED BY <1>1, <1>2, <2>1, FreeAtKeeps
<1>5. DOMAIN p' = DOMAIN p \ {i} /\ \A j \in DOMAIN p' : p'[j] = p[j] BY <1>1 DEF F!Without
<1>6. DOMAIN sizemap' = DOMAIN sizemap \ {p[i]} BY <1>4 DEF F!Without
<1>7. {p'[j] : j \in DOMAIN p'} = DOMAIN sizemap'
  <2>1. \A j \in DOMAIN p' : p[j] # p[i] BY <1>1, <1>3, <1>5
  <2> QED BY <1>3, <1>5, <1>6, <2>1
<1>8. \A x, y \in DOMAIN p' : p'[x] = p'[y] => x = y BY <1>3, <1>5
<1>9. F!PointersCurrent' BY <1>7, <1>8 DEF F!PointersCurrent
<1>10. DOMAIN p' \subseteq 0..c' - 1 BY <1>1, <1>2, <1>5
<1> QED BY <1>1, <1>2, <1>4, <1>9, <1>10 DEF FInv, PointersInv

\* The driver of -A keeps the pointer, or ends.
LEMMA FreeListedKeeps ==
  ASSUME FInv, NEW i, F!FreeListed(i)
  PROVE  FInv' /\ AllocStep
<1>1. options.list /\ p' = p /\ c' = c /\ options' = options
      /\ IF i \in DOMAIN p THEN F!FreeAt(p[i]) /\ up' = up ELSE up' = FALSE /\ UNCHANGED <<freelist, sizemap>>
  BY DEF F!FreeListed
<1>2. ListInv /\ c \in 0..MaxAllocs /\ up \in BOOLEAN /\ DOMAIN p \subseteq 0..c - 1
  BY DEF FInv, PointersInv
<1>3. F!PointersCurrent' BY <1>1 DEF F!PointersCurrent
<1>4. ListInv' /\ AllocStep
  <2>1. CASE i \in DOMAIN p BY <1>1, <1>2, <2>1, FreeAtKeeps
  <2>2. CASE i \notin DOMAIN p BY <1>1, <1>2, <2>2 DEF ListInv, AllocStep
  <2> QED BY <2>1, <2>2
<1>5. up' \in BOOLEAN BY <1>1, <1>2
<1> QED BY <1>1, <1>2, <1>3, <1>4, <1>5 DEF FInv, PointersInv

\* At the start the heap is one chunk of the list.
LEMMA FInit ==
  ASSUME F!Init
  PROVE  FInv
<1> DEFINE d == <<ListStart, ListSize>>
           L == <<d>>
<1>1. /\ freelist = L /\ sizemap = [a \in {} |-> 0] /\ p = [i \in {} |-> 0]
      /\ c = 0 /\ up = TRUE /\ options \in Options
  BY DEF F!Init
<1>2. ListStart \in Nat /\ ListSize \in Nat \ {0} /\ MaxAllocs \in Nat BY ListAssumption
<1>3. d \in Chunk /\ d[1] = ListStart /\ d[2] = ListSize BY <1>2 DEF Chunk
<1> HIDE DEF d
<1>4. L \in Seq(Chunk) /\ DOMAIN L = {1} /\ L[1] = d BY <1>3
<1> HIDE DEF L
<1>5. \A x \in Int : Covers(L, x) <=> ListStart <= x /\ x < ListStart + ListSize BY <1>3, <1>4 DEF Covers, Inside
<1>6. Single(L) /\ Spaced(L) /\ Ascending(L) BY <1>4 DEF Single, Spaced, Ascending
<1>7. DOMAIN sizemap = {} /\ DOMAIN p = {} BY <1>1
<1>8. \A x \in Int : ~Owned(sizemap, x) BY <1>7 DEF Owned
<1>9. TileInv(L, sizemap) BY <1>4, <1>5, <1>6, <1>7, <1>8 DEF TileInv
<1>10. ListInv BY <1>1, <1>6, <1>9 DEF ListInv
<1>11. F!PointersCurrent BY <1>7 DEF F!PointersCurrent
<1> QED BY <1>1, <1>2, <1>7, <1>10, <1>11 DEF FInv, PointersInv

\* Every step of malloc.py keeps the invariant and is one of an allocator.
LEMMA FStep ==
  ASSUME FInv, F!Next
  PROVE  FInv' /\ AllocStep
<1>1. CASE c < MaxAllocs /\ \E n \in ListSizes : F!Malloc(n) BY <1>1, MallocKeeps
<1>2. CASE \E i \in 0..MaxAllocs - 1 : F!FreeRandom(i) \/ F!FreeListed(i)
  BY <1>2, FreeRandomKeeps, FreeListedKeeps
<1> QED BY <1>1, <1>2 DEF F!Next

\* Where the variables of malloc.py are unchanged, so is its invariant.
LEMMA FStutter ==
  ASSUME FInv, UNCHANGED fvars
  PROVE  FInv' /\ AllocStep
BY DEF FInv, ListInv, PointersInv, fvars, F!PointersCurrent, AllocStep

-----------------------------------------------------------------------------
(* What the invariant says of the list and of the heap. *)

\* Chunks that tile the heap are the parts of it.
LEMMA Tiles == FInv => F!Tiled
<1> SUFFICES ASSUME FInv PROVE F!Tiled OBVIOUS
<1> DEFINE L == freelist
           m == sizemap
           held0 == {At(m, a) : a \in DOMAIN m}
           free0 == {L[i] : i \in DOMAIN L}
<1>1. /\ L \in Seq(Chunk) /\ Single(L)
      /\ \A a \in DOMAIN m : At(m, a) \in Chunk
      /\ \A x \in Int : \A a, b \in DOMAIN m : Inside(At(m, a), x) /\ Inside(At(m, b), x) => a = b
      /\ \A x \in Int : ~(Covers(L, x) /\ Owned(m, x))
      /\ \A x \in Int : Covers(L, x) \/ Owned(m, x) <=> ListStart <= x /\ x < ListStart + ListSize
  BY DEF FInv, ListInv, TileInv
<1>2. \A i \in DOMAIN L : L[i] \in Chunk BY <1>1
<1> HIDE DEF L, m
<1>3. \A d \in free0 \cup held0 : d \in Chunk BY <1>1, <1>2
<1>4. \A d \in Chunk : d[1] \in Int /\ Inside(d, d[1]) BY ChunkIs
<1>5. ASSUME NEW d \in Chunk, NEW x PROVE x \in F!Span(d) <=> x \in Int /\ Inside(d, x)
  <2>1. d[1] \in Int /\ d[2] \in Int BY ChunkIs
  <2> QED BY <2>1 DEF F!Span, Inside
<1>6. ASSUME NEW i \in DOMAIN L, NEW j \in DOMAIN L, L[i] = L[j] PROVE i = j
  <2>1. L[i] \in Chunk BY <1>2
  <2> QED BY <1>1, <1>4, <1>6, <2>1 DEF Single
<1>7. ASSUME NEW x \in Int, NEW d \in free0 \cup held0, NEW e \in free0 \cup held0, Inside(d, x), Inside(e, x)
      PROVE  d = e
  <2>1. d \in free0 => Covers(L, x) BY <1>7 DEF Covers
  <2>2. e \in free0 => Covers(L, x) BY <1>7 DEF Covers
  <2>3. d \in held0 => Owned(m, x) BY <1>7 DEF Owned
  <2>4. e \in held0 => Owned(m, x) BY <1>7 DEF Owned
  <2>5. CASE d \in free0 /\ e \in free0
    <3>1. PICK i \in DOMAIN L, j \in DOMAIN L : d = L[i] /\ e = L[j] BY <2>5
    <3> QED BY <1>1, <1>7, <3>1 DEF Single
  <2>6. CASE d \in held0 /\ e \in held0
    <3>1. PICK a \in DOMAIN m, b \in DOMAIN m : d = At(m, a) /\ e = At(m, b) BY <2>6
    <3> QED BY <1>1, <1>7, <3>1
  <2> QED BY <1>1, <1>7, <2>1, <2>2, <2>3, <2>4, <2>5, <2>6
<1>8. free0 \cap held0 = {}
  <2> SUFFICES ASSUME NEW i \in DOMAIN L, NEW a \in DOMAIN m, L[i] = At(m, a) PROVE FALSE OBVIOUS
  <2>1. L[i] \in Chunk BY <1>2
  <2>2. L[i][1] \in Int /\ Inside(L[i], L[i][1]) /\ Inside(At(m, a), L[i][1]) BY <1>4, <2>1
  <2> QED BY <1>1, <2>2 DEF Covers, Owned
<1>9. ASSUME NEW d \in free0 \cup held0, NEW e \in free0 \cup held0, d # e PROVE F!Span(d) \cap F!Span(e) = {}
  <2> SUFFICES ASSUME NEW x \in F!Span(d), x \in F!Span(e) PROVE FALSE OBVIOUS
  <2>1. d \in Chunk /\ e \in Chunk BY <1>3, <1>9
  <2>2. x \in Int /\ Inside(d, x) /\ Inside(e, x) BY <1>5, <2>1
  <2> QED BY <1>7, <1>9, <2>2
<1>10. UNION {F!Span(d) : d \in free0 \cup held0} = ListStart..ListStart + ListSize - 1
  <2>1. ASSUME NEW x \in Int, ListStart <= x, x < ListStart + ListSize
        PROVE  \E d \in free0 \cup held0 : x \in F!Span(d)
    <3>1. \E d \in free0 \cup held0 : Inside(d, x) BY <1>1, <2>1 DEF Covers, Owned
    <3> QED BY <1>3, <1>5, <2>1, <3>1
  <2>2. ASSUME NEW d \in free0 \cup held0, NEW x \in F!Span(d)
        PROVE  x \in Int /\ ListStart <= x /\ x < ListStart + ListSize
    <3>1. d \in Chunk BY <1>3, <2>2
    <3>2. x \in Int /\ Inside(d, x) BY <1>5, <2>2, <3>1
    <3>3. d \in free0 => Covers(L, x) BY <3>2 DEF Covers
    <3>4. d \in held0 => Owned(m, x) BY <3>2 DEF Owned
    <3> QED BY <1>1, <2>2, <3>2, <3>3, <3>4
  <2>3. ListStart \in Int /\ ListSize \in Int BY ListAssumption
  <2>4. \A x : x \in ListStart..ListStart + ListSize - 1 <=> x \in Int /\ ListStart <= x /\ x < ListStart + ListSize
    BY <2>3
  <2> HIDE DEF free0, held0
  <2> QED BY <2>1, <2>2, <2>4
<1>h. held0 = {<<a, m[a]>> : a \in DOMAIN m} BY DEF At
<1>f. free0 = {freelist[i] : i \in DOMAIN freelist} /\ held0 = {<<a, sizemap[a]>> : a \in DOMAIN sizemap}
  BY <1>h DEF L, m
<1>i. \A i, j \in DOMAIN freelist : freelist[i] = freelist[j] => i = j BY <1>6 DEF L
<1> HIDE DEF free0, held0
<1> QED BY <1>i, <1>f, <1>8, <1>9, <1>10 DEF F!Tiled

\* A list by addresses is in their order, and coalesced has no neighbours.
LEMMA Sorts == FInv => F!SortedAndMerged
<1> SUFFICES ASSUME FInv, options.order = "ADDRSORT", NEW i \in 1..Len(freelist) - 1
             PROVE  IF options.coalesce THEN freelist[i][1] + freelist[i][2] < freelist[i + 1][1]
                    ELSE freelist[i][1] + freelist[i][2] <= freelist[i + 1][1]
  BY DEF F!SortedAndMerged
<1>1. freelist \in Seq(Chunk) /\ IF options.coalesce THEN Spaced(freelist) ELSE Ascending(freelist)
  BY DEF FInv, ListInv, TileInv
<1>2. i \in DOMAIN freelist /\ i + 1 \in DOMAIN freelist /\ i < i + 1 BY <1>1
<1> QED BY <1>1, <1>2 DEF Spaced, Ascending

\* What the code keeps is well typed.
LEMMA ListTypes == FInv => F!TypeOK
<1> SUFFICES ASSUME FInv PROVE F!TypeOK OBVIOUS
<1>1. TileInv(freelist, sizemap) /\ options \in Options /\ c \in 0..MaxAllocs /\ up \in BOOLEAN
      /\ DOMAIN p \subseteq 0..c - 1
  BY DEF FInv, ListInv, PointersInv
<1>2. ListStart \in Nat /\ ListSize \in Nat BY ListAssumption
<1>3. ASSUME NEW i \in DOMAIN freelist PROVE freelist[i] \in Nat \X (1..ListSize)
  <2>1. freelist[i] \in Chunk BY <1>1 DEF TileInv
  <2> DEFINE d == freelist[i]
  <2>2. d = <<d[1], d[2]>> /\ d[1] \in Int /\ d[2] \in Int /\ 0 <= d[1] /\ 0 < d[2]
        /\ Inside(d, d[1]) /\ Inside(d, d[1] + d[2] - 1)
    BY <2>1, ChunkIs
  <2>3. \A x \in Int : Inside(d, x) => ListStart <= x /\ x < ListStart + ListSize BY <1>1 DEF TileInv, Covers
  <2> HIDE DEF d
  <2>4. d[1] + d[2] - 1 \in Int BY <2>2
  <2>5. ListStart <= d[1] /\ d[1] + d[2] - 1 < ListStart + ListSize BY <2>2, <2>3, <2>4
  <2>6. d[1] \in Nat /\ d[2] \in 1..ListSize BY <1>2, <2>2, <2>5
  <2>7. d \in Nat \X (1..ListSize) BY <2>2, <2>6
  <2> QED BY <2>7 DEF d
<1>4. DOMAIN sizemap \subseteq Nat
  <2> SUFFICES ASSUME NEW a \in DOMAIN sizemap PROVE a \in Nat OBVIOUS
  <2>1. At(sizemap, a) \in Chunk BY <1>1 DEF TileInv
  <2> QED BY <2>1 DEF At, Chunk
<1> QED BY <1>1, <1>3, <1>4 DEF F!TypeOK

-----------------------------------------------------------------------------
(* Both allocators, each run alone. *)

\* Whichever program runs, the invariants of both allocators hold.
HeapsInv == IInv /\ FInv
everything == <<vars, fvars, pvars, tvars, gvars, kind, package>>

\* A step of MCMemory is one of the package and of the simulator, or leaves them.
LEMMA StepOfEach ==
  ASSUME [MCNext]_everything
  PROVE  [Next]_vars /\ [F!Next]_fvars
BY DEF MCNext, everything

\* Both allocators start as their modules say.
LEMMA StartOfEach ==
  ASSUME MCInit
  PROVE  Init /\ F!Init
BY DEF MCInit, NoHeaps

\* The invariants hold after any calls.
LEMMA HeapsInvHolds == MCSpec => []HeapsInv
<1>1. MCInit => HeapsInv BY StartOfEach, InitInv, FInit DEF HeapsInv
<1>2. HeapsInv /\ [MCNext]_everything => HeapsInv'
  <2> SUFFICES ASSUME IInv, FInv, [MCNext]_everything PROVE IInv' /\ FInv' BY DEF HeapsInv
  <2>1. [Next]_vars /\ [F!Next]_fvars BY StepOfEach
  <2>2. IInv' BY <2>1, StepInv
  <2>3. FInv' BY <2>1, FStep, FStutter
  <2> QED BY <2>2, <2>3
<1> QED BY <1>1, <1>2, PTL DEF MCSpec, everything

\* THE THEOREM.  mm.c's blocks are tagged alike at both ends, tile the heap and are
\* coalesced, with the rover on one of them; malloc.py's free and allocated chunks
\* tile its heap under every policy, order and driver, a list by addresses stays in
\* their order though malloc never sorts it and has no neighbours with -C, and the
\* random driver has a pointer to each allocated chunk.
THEOREM HeapsSound == MCSpec => []HeapsConsistent
<1>1. HeapsInv => HeapsConsistent
  <2>1. FInv => F!PointersCurrent BY DEF FInv, PointersInv
  <2> QED BY <2>1, ConsistencyFollows, Tiles, Sorts DEF HeapsInv, HeapsConsistent, Of
<1> QED BY <1>1, HeapsInvHolds, PTL

\* Both programs implement the abstract allocator: every call takes a region apart
\* from all others and inside the heap, gives one back, or does both; malloc.py's
\* assertion that an address is not in its map never fails.
THEOREM BothImplemented == MCSpec => ImplementAllocator
<1>1. MCInit => A!Init /\ F!A!Init
  <2> SUFFICES ASSUME MCInit PROVE A!Init /\ F!A!Init OBVIOUS
  <2>1. A!Init BY StartOfEach, AbstractInit
  <2>2. F!A!Init BY StartOfEach DEF F!Init, F!A!Init
  <2> QED BY <2>1, <2>2
<1>2. HeapsInv /\ [MCNext]_everything => [A!Next]_live /\ [F!A!Next]_sizemap
  <2> SUFFICES ASSUME IInv, FInv, [MCNext]_everything PROVE [A!Next]_live /\ [F!A!Next]_sizemap
    BY DEF HeapsInv
  <2>1. [Next]_vars /\ [F!Next]_fvars BY StepOfEach
  <2>2. [A!Next]_live BY <2>1, AbstractStep
  <2>3. AllocStep BY <2>1, FStep, FStutter
  <2> QED BY <2>2, <2>3 DEF AllocStep
<1> QED
  BY <1>1, <1>2, HeapsInvHolds, PTL
  DEF MCSpec, everything, ImplementAllocator, ImplementsAllocator, A!Spec, F!ImplementsAllocator, F!A!Spec

-----------------------------------------------------------------------------
(* Base and limit registers. *)

\* What is known of the registers at each stage: a drawn length is a length, a
\* drawn base leaves room for its segment, a drawn base1 keeps it apart from the
\* first one, and segmentation.py has checked that both fit their half.
Drawn0 == given.base0 = -1 => base0 \in Nat /\ base0 + len0 < psize
TwoApart == base1 > base0 + len0 \/ base1 + len1 < base0
RegistersInv ==
  /\ kind \in {"relocation", "segmentation"} /\ asize \in Nat /\ psize \in Nat
  /\ base0 \in Int /\ len0 \in Int /\ base1 \in Int /\ len1 \in Int
  /\ stage \in {"lengths", "base0", "base1", "ready", "error"}
  /\ len0 >= -1 /\ len1 >= -1 /\ base0 >= -1
  /\ stage \in {"lengths", "base0"} => base0 = given.base0
  /\ stage \in {"lengths", "base0", "base1"} => base1 = given.base1
  /\ stage \in {"base0", "base1", "ready"} => len0 \in Nat /\ (kind = "segmentation" => len1 \in Nat)
  /\ stage \in {"base1", "ready"} => base0 \in Nat /\ Drawn0
  /\ stage = "base1" => kind = "segmentation"
  /\ stage = "ready" /\ kind = "segmentation" =>
       /\ 2 * len0 <= asize /\ 2 * len1 <= asize
       /\ G!Placed => base1 \in Nat /\ base1 + len1 < psize /\ TwoApart

\* Machines and given registers are numbers.
LEMMA RegisterTypes ==
  /\ \A m \in Machines : m.asize \in Nat /\ m.psize \in Nat
  /\ \A g \in Given : /\ g.base0 \in Nat \cup {-1} /\ g.len0 \in Nat \cup {-1}
                      /\ g.base1 \in Nat \cup {-1} /\ g.len1 \in Nat \cup {-1}
BY TranslationAssumption

\* The registers are as RegistersInv says from the start, and every step that
\* draws or checks them keeps it so.
LEMMA RegistersInit == G!Init => RegistersInv
<1> SUFFICES ASSUME G!Init PROVE RegistersInv OBVIOUS
<1>1. asize \in Nat /\ psize \in Nat BY RegisterTypes DEF G!Init
<1>2. given \in Given BY DEF G!Init
<1>3. /\ base0 \in Nat \cup {-1} /\ len0 \in Nat \cup {-1} /\ base1 \in Nat \cup {-1} /\ len1 \in Nat \cup {-1}
      /\ base0 = given.base0 /\ base1 = given.base1
  BY <1>2, RegisterTypes DEF G!Init
<1>4. stage = "lengths" /\ kind \in {"relocation", "segmentation"} BY DEF G!Init
<1> QED BY <1>1, <1>3, <1>4 DEF RegistersInv

\* Drawing a length or a base, and the checks in between, keep RegistersInv.
LEMMA RegistersStep == RegistersInv /\ G!Next => RegistersInv'
<1> SUFFICES ASSUME RegistersInv, G!Next PROVE RegistersInv' OBVIOUS
<1> USE DEF RegistersInv
<1>1. CASE G!SetLengths
  <2>1. stage = "lengths" /\ UNCHANGED <<kind, asize, psize, given>> BY <1>1 DEF G!SetLengths, G!fixed
  <2>2. CASE G!Error BY <2>1, <2>2 DEF G!Error
  <2>3. CASE /\ len0' \in IF len0 = -1 THEN G!DrawnLengths ELSE {len0}
             /\ len1' \in IF len1 = -1 /\ kind = "segmentation" THEN G!DrawnLengths ELSE {len1}
             /\ stage' = "base0" /\ UNCHANGED <<base0, base1>>
    <3>1. \A n \in G!DrawnLengths : n \in Nat BY DEF G!DrawnLengths
    <3>2. len0' \in Nat /\ (kind = "segmentation" => len1' \in Nat) /\ len1' \in Int /\ len1' >= -1
      BY <2>3, <3>1
    <3> QED BY <2>1, <2>3, <3>2
  <2> QED BY <1>1, <2>2, <2>3 DEF G!SetLengths
<1>2. CASE G!SetBase0
  <2>1. stage = "base0" /\ UNCHANGED <<kind, asize, psize, given, len0, base1, len1>>
    BY <1>2 DEF G!SetBase0, G!fixed
  <2>2. base0' \in Nat /\ (given.base0 = -1 => base0' + len0 < psize)
    <3>1. base0' \in IF base0 = -1 THEN {b \in 0 .. psize - 1 : b + len0 < psize} ELSE {base0}
      BY <1>2 DEF G!SetBase0
    <3>2. CASE base0 = -1
      <4>1. base0' \in 0 .. psize - 1 /\ base0' + len0 < psize BY ONLY <3>1, <3>2
      <4>2. psize \in Nat OBVIOUS
      <4> QED BY ONLY <4>1, <4>2
    <3>3. CASE base0 # -1
      <4>1. base0' = base0 /\ base0 \in Nat BY <3>1, <3>3
      <4>2. given.base0 = base0 BY <2>1
      <4> QED BY ONLY <3>3, <4>1, <4>2
    <3> QED BY <3>2, <3>3
  <2>3. Drawn0' BY <2>1, <2>2 DEF Drawn0
  <2>5. base0' >= -1 /\ base0' \in Int BY <2>2
  <2>4. \/ stage' = "base1" /\ kind = "segmentation"
        \/ stage' \in {"error", "ready"} /\ kind # "segmentation"
    BY <1>2 DEF G!SetBase0
  <2> QED BY <2>1, <2>2, <2>3, <2>4, <2>5
<1>3. CASE G!SetBase1
  <2>1. stage = "base1" /\ UNCHANGED <<kind, asize, psize, given, base0, len0, len1>>
    BY <1>3 DEF G!SetBase1, G!fixed
  <2>2. base1' \in Int /\ (given.base1 = -1 => base1' \in Nat /\ base1' + len1 < psize /\ TwoApart')
    <3>1. base1' \in IF base1 = -1
                       THEN {b \in 0 .. psize - 1 : /\ b + len1 < psize
                                                    /\ b > base0 + len0 \/ b + len1 < base0}
                       ELSE {base1 - len1}
      BY <1>3 DEF G!SetBase1
    <3>2. CASE base1 = -1
      <4>1. /\ base1' \in 0 .. psize - 1 /\ base1' + len1 < psize
            /\ base1' > base0 + len0 \/ base1' + len1 < base0
        BY ONLY <3>1, <3>2
      <4>2. psize \in Nat OBVIOUS
      <4>3. base1' \in Nat BY ONLY <4>1, <4>2
      <4>4. TwoApart' BY <2>1, <4>1 DEF TwoApart
      <4>5. base1' \in Int BY ONLY <4>3
      <4> QED BY ONLY <4>1, <4>3, <4>4, <4>5
    <3>3. CASE base1 # -1 BY <2>1, <3>1, <3>3
    <3> QED BY <3>2, <3>3
  <2>3. Drawn0' BY <2>1 DEF Drawn0
  <2>4. stage' = "error" \/ (stage' = "ready" /\ 2 * len0 <= asize /\ 2 * len1 <= asize)
    BY <1>3, <2>1 DEF G!SetBase1
  <2>5. G!Placed' => given.base1 = -1 BY <2>1 DEF G!Placed
  <2> QED BY <2>1, <2>2, <2>3, <2>4, <2>5
<1> QED BY <1>1, <1>2, <1>3 DEF G!Next

\* Ready registers that the program drew itself translate exactly the addresses
\* below the limits, each to a byte of its own inside physical memory.
LEMMA RegistersSound == RegistersInv => G!PlacementSound /\ G!BoundsKept
<1> SUFFICES ASSUME RegistersInv, stage = "ready" PROVE G!PlacementSound /\ G!BoundsKept
  BY DEF G!PlacementSound, G!BoundsKept
<1> DEFINE Addr == 0 .. asize - 1
           tr(v) == G!Translate(v)
           top == IF kind = "relocation" THEN asize ELSE asize - len1
<1>0. asize \in Nat /\ psize \in Nat /\ base0 \in Int /\ base1 \in Int /\ len1 \in Int /\ len0 \in Nat
  BY DEF RegistersInv
<1>1. CASE kind = "relocation"
  <2>1. \A v \in Addr : tr(v) = IF v >= len0 THEN -1 ELSE v + base0
    BY <1>1 DEF G!Translate, G!Relocate, G!Violation
  <2>2. G!BoundsKept BY <1>0, <2>1 DEF G!BoundsKept, G!Violation
  <2>3. ASSUME G!Placed PROVE G!PlacementSound
    <3>1. base0 \in Nat /\ base0 + len0 < psize BY <2>3 DEF RegistersInv, Drawn0, G!Placed
    <3> HIDE DEF tr
    <3>2. {v \in Addr : tr(v) # -1} = {v \in Addr : v < len0 \/ v >= top} BY <1>0, <1>1, <2>1, <3>1
    <3>3. \A v \in Addr : tr(v) # -1 => tr(v) \in 0 .. psize - 1 BY <1>0, <2>1, <3>1
    <3>4. \A v, w \in Addr : tr(v) # -1 /\ tr(v) = tr(w) => v = w BY <1>0, <2>1, <3>1
    <3> QED BY <3>2, <3>3, <3>4 DEF G!PlacementSound, G!Violation, tr
  <2> QED BY <2>2, <2>3 DEF G!PlacementSound
<1>2. CASE kind = "segmentation"
  <2>0. len1 \in Nat /\ 2 * len0 <= asize /\ 2 * len1 <= asize BY <1>2 DEF RegistersInv
  <2>1. \A v \in Addr : tr(v) = IF 2 * v >= asize
                               THEN IF base1 + len1 + v - asize < base1 THEN -1 ELSE base1 + len1 + v - asize
                               ELSE IF v >= len0 THEN -1 ELSE v + base0
    BY <1>0, <1>2 DEF G!Translate, G!Segment, G!Violation
  <2> HIDE DEF tr
  <2>2. \A v \in Addr : tr(v) # -1 =>
          \/ tr(v) \in base0 .. base0 + len0 - 1
          \/ tr(v) \in base1 .. base1 + len1 - 1
    BY <1>0, <2>0, <2>1
  <2>3. G!BoundsKept BY <1>2, <2>2 DEF G!BoundsKept, G!Violation, tr
  <2>4. ASSUME G!Placed PROVE G!PlacementSound
    <3>1. base0 \in Nat /\ base0 + len0 < psize BY <2>4 DEF RegistersInv, Drawn0, G!Placed
    <3>2. base1 \in Nat /\ base1 + len1 < psize /\ TwoApart BY <1>2, <2>4 DEF RegistersInv
    <3>3. \A v \in Addr : tr(v) # -1 <=> v < len0 \/ v >= asize - len1 BY <1>0, <2>0, <2>1, <3>1, <3>2
    <3>4. \A v \in Addr : tr(v) # -1 => tr(v) \in 0 .. psize - 1 BY <1>0, <2>0, <2>2, <3>1, <3>2
    <3>5. \A v, w \in Addr : tr(v) # -1 /\ tr(v) = tr(w) => v = w
      BY <1>0, <2>0, <2>1, <3>1, <3>2 DEF TwoApart
    <3>6. {v \in Addr : tr(v) # -1} = {v \in Addr : v < len0 \/ v >= top} BY <1>2, <3>3
    <3> QED BY <3>4, <3>5, <3>6 DEF G!PlacementSound, G!Violation, tr
  <2> QED BY <2>3, <2>4 DEF G!PlacementSound
<1> QED BY <1>1, <1>2 DEF RegistersInv

-----------------------------------------------------------------------------
(* The linear page table. *)

Offs == 0 .. pageSize - 1

\* The sizes are numbers.
LEMMA TableSizes == pageSize \in Nat \ {0} /\ physPages \in Nat \ {0} /\ vpages \in Nat
BY TranslationAssumption

\* The page tables' module counts as this one does.
LEMMA SameCount == ASSUME NEW S PROVE T!Cardinality(S) = Cardinality(S)
BY DEF T!Cardinality, Cardinality

\* An address is a page and an offset.
LEMMA Division ==
  /\ \A f \in Nat, i \in Offs : (f * pageSize + i) \div pageSize = f /\ (f * pageSize + i) % pageSize = i
  /\ \A v \in Nat : v \div pageSize \in Nat /\ v % pageSize \in Offs
                    /\ v = (v \div pageSize) * pageSize + (v % pageSize)
  /\ \A m \in Nat : \A v \in 0 .. m * pageSize - 1 : v \div pageSize \in 0 .. m - 1
  /\ \A m \in Nat : \A f \in 0 .. m - 1, i \in Offs : f * pageSize + i \in 0 .. m * pageSize - 1
<1> USE TableSizes DEF Offs
<1>1. ASSUME NEW f \in Nat, NEW i \in Offs
      PROVE  (f * pageSize + i) \div pageSize = f /\ (f * pageSize + i) % pageSize = i
  OBVIOUS
<1>2. ASSUME NEW v \in Nat
      PROVE  v \div pageSize \in Nat /\ v % pageSize \in Offs
             /\ v = (v \div pageSize) * pageSize + (v % pageSize)
  OBVIOUS
<1>3. ASSUME NEW m \in Nat, NEW v \in 0 .. m * pageSize - 1 PROVE v \div pageSize \in 0 .. m - 1
  <2> DEFINE q == v \div pageSize
             r == v % pageSize
  <2>1. v \in Nat /\ m * pageSize \in Nat /\ v < m * pageSize OBVIOUS
  <2>2. q \in Nat /\ r \in Nat /\ v = q * pageSize + r BY <1>2, <2>1
  <2> HIDE DEF q, r
  <2>3. q * pageSize + r < m * pageSize BY <2>1, <2>2
  <2>4. q < m
    <3> SUFFICES ASSUME q >= m PROVE FALSE BY <2>2
    <3>1. q * pageSize >= m * pageSize BY <2>2
    <3>2. q * pageSize \in Nat /\ m * pageSize \in Nat BY <2>2
    <3> QED BY <2>2, <2>3, <3>1, <3>2
  <2> QED BY <2>2, <2>4 DEF q
<1>4. ASSUME NEW m \in Nat, NEW f \in 0 .. m - 1, NEW i \in Offs
      PROVE  f * pageSize + i \in 0 .. m * pageSize - 1
  <2>1. (f + 1) * pageSize <= m * pageSize BY TableSizes
  <2>2. (f + 1) * pageSize = f * pageSize + pageSize BY TableSizes
  <2>3. f * pageSize \in Nat /\ m * pageSize \in Nat BY TableSizes
  <2> QED BY <2>1, <2>2, <2>3
<1> QED BY <1>1, <1>2, <1>3, <1>4

\* The frames in use are those in the table, each in one entry.
LinearInv ==
  kind = "linear" =>
    /\ pt \in Seq(T!Frames \cup {-1})
    /\ \A u : u \in used <=> u \in T!Frames /\ \E i \in 1 .. Len(pt) : pt[i] = u
    /\ \A i, k \in 1 .. Len(pt) : pt[i] # -1 /\ pt[i] = pt[k] => i = k
    /\ filling = "ready" => Len(pt) = vpages

\* The empty table is as LinearInv says.
LEMMA LinearInit == T!Init => LinearInv
BY DEF T!Init, LinearInv

\* Each page the program decides on keeps LinearInv.
LEMMA LinearStep == LinearInv /\ T!Next => LinearInv'
<1> SUFFICES ASSUME LinearInv, T!Next, kind = "linear" PROVE LinearInv'
  <2>1. T!Next => kind' = kind
    BY DEF T!Next, T!Assign, T!NewDirectory, T!NotValid, T!AllocInTable, T!AllocWithTable, T!OutOfFrames
  <2> QED BY <2>1 DEF LinearInv
<1>1. -1 \notin T!Frames BY DEF T!Frames
<1>2. ASSUME NEW x \in T!Frames \cup {-1}, pt' = Append(pt, x), kind' = kind,
             filling' = IF Len(pt') = vpages THEN "ready" ELSE filling,
             filling = "filling",
             \/ x = -1 /\ used' = used
             \/ x \in T!Frames \ used /\ used' = used \cup {x}
      PROVE  LinearInv'
  <2>1. /\ pt' \in Seq(T!Frames \cup {-1}) /\ Len(pt') = Len(pt) + 1 /\ Len(pt) \in Nat
        /\ \A i \in 1 .. Len(pt) : pt'[i] = pt[i]
        /\ pt'[Len(pt) + 1] = x
    BY <1>2 DEF LinearInv
  <2>2. \A i \in 1 .. Len(pt') : i \in 1 .. Len(pt) \/ i = Len(pt) + 1 BY <2>1
  <2>3. \A i \in 1 .. Len(pt) : i \in 1 .. Len(pt') BY <2>1
  <2>4. Len(pt) + 1 \in 1 .. Len(pt') BY <2>1
  <2>5. \A u : u \in used' <=> u \in T!Frames /\ \E i \in 1 .. Len(pt') : pt'[i] = u
    BY <1>1, <1>2, <2>1, <2>2, <2>3, <2>4 DEF LinearInv
  <2>6. \A i, k \in 1 .. Len(pt') : pt'[i] # -1 /\ pt'[i] = pt'[k] => i = k
    BY <1>1, <1>2, <2>1, <2>2 DEF LinearInv
  <2>7. filling' = "ready" => Len(pt') = vpages BY <1>2
  <2> QED BY <1>2, <2>1, <2>5, <2>6, <2>7 DEF LinearInv
<1>3. ASSUME NEW u \in T!Frames, T!Assign(u) PROVE LinearInv'
  BY <1>2, <1>3 DEF T!Assign
<1>4. CASE T!NotValid
  BY <1>2, <1>4 DEF T!NotValid
<1> QED BY <1>3, <1>4 DEF T!Next, T!NewDirectory, T!AllocInTable, T!AllocWithTable, T!OutOfFrames, T!Loop

\* A full linear table translates every valid address to a byte of its own, of
\* a frame marked used, and the valid addresses fill the frames in use.
LEMMA LinearHolds == LinearInv => T!LinearSound
<1> SUFFICES ASSUME LinearInv, kind = "linear", filling = "ready" PROVE T!LinearSound
  BY DEF T!LinearSound
<1> DEFINE V == 0 .. vpages * pageSize - 1
           lin(v) == T!Linear(v)
           valid == {v \in V : lin(v) >= 0}
           at(v) == pt[(v \div pageSize) + 1]
<1>0. \A v \in V : v \in Nat BY TableSizes
<1>1. \A v \in V : (v \div pageSize) + 1 \in 1 .. Len(pt)
  <2> SUFFICES ASSUME NEW v \in V PROVE (v \div pageSize) + 1 \in 1 .. Len(pt) OBVIOUS
  <2>1. v \div pageSize \in 0 .. vpages - 1 BY ONLY Division, TableSizes, v \in V
  <2>2. Len(pt) = vpages BY DEF LinearInv
  <2> HIDE DEF V
  <2> QED BY ONLY <2>1, <2>2, TableSizes
<1>2. \A v \in V : at(v) \in T!Frames \cup {-1} BY <1>1 DEF LinearInv
<1>3. \A v \in V : lin(v) = IF at(v) < 0 THEN -1 ELSE at(v) * pageSize + (v % pageSize)
  BY DEF T!Linear
<1>4. \A f \in T!Frames : f \in Nat BY TableSizes DEF T!Frames
<1> HIDE DEF lin, at
<1>5. \A v \in V : v \in valid <=> at(v) \in T!Frames
  <2> SUFFICES ASSUME NEW v \in V PROVE lin(v) >= 0 <=> at(v) \in T!Frames OBVIOUS
  <2>1. CASE at(v) = -1
    <3>1. at(v) \notin T!Frames BY <1>4, <2>1
    <3> QED BY <1>3, <2>1, <3>1
  <2>2. CASE at(v) \in T!Frames
    <3>1. at(v) * pageSize + (v % pageSize) \in Nat
      <4>1. at(v) \in Nat /\ v \in Nat BY <1>0, <1>4, <2>2
      <4>2. at(v) * pageSize \in Nat BY ONLY <4>1, TableSizes
      <4>3. v % pageSize \in Nat BY ONLY <4>1, Division, TableSizes DEF Offs
      <4> QED BY ONLY <4>2, <4>3
    <3> QED BY <1>3, <1>4, <2>2, <3>1
  <2> QED BY <1>2, <2>1, <2>2
<1>6. \A v \in valid : /\ at(v) \in used
                       /\ lin(v) \div pageSize = at(v) /\ lin(v) % pageSize = v % pageSize
  <2> SUFFICES ASSUME NEW v \in valid
               PROVE  /\ at(v) \in used
                      /\ lin(v) \div pageSize = at(v) /\ lin(v) % pageSize = v % pageSize
    OBVIOUS
  <2>1. at(v) \in T!Frames /\ at(v) \in Nat BY <1>4, <1>5
  <2>2. lin(v) = at(v) * pageSize + (v % pageSize) BY <1>3, <2>1
  <2>3. v % pageSize \in Offs BY <1>0, Division
  <2>4. at(v) \in used BY <1>1, <2>1 DEF at, LinearInv
  <2> QED BY <2>1, <2>2, <2>3, <2>4, Division
<1>7. ASSUME NEW v \in valid, NEW w \in valid, at(v) = at(w), v % pageSize = w % pageSize PROVE v = w
  <2>1. (v \div pageSize) + 1 = (w \div pageSize) + 1
    <3>1. at(v) # -1 BY <1>4, <1>5
    <3> QED BY <1>1, <1>7, <3>1 DEF at, LinearInv
  <2>2. v \in Nat /\ w \in Nat BY <1>0
  <2>4. v \div pageSize \in Nat /\ w \div pageSize \in Nat BY ONLY <2>2, Division
  <2>3. v \div pageSize = w \div pageSize BY ONLY <2>1, <2>4
  <2> QED BY <1>7, <2>2, <2>3, Division
<1>8. Cardinality(valid) = pageSize * Cardinality(used)
  <2> DEFINE g == [v \in valid |-> <<at(v), v % pageSize>>]
             S == used \X Offs
  <2>1. g \in [valid -> S]
    <3>1. \A v \in valid : at(v) \in used /\ v % pageSize \in Offs BY <1>0, <1>6, Division
    <3> HIDE DEF valid
    <3> QED BY <3>1
  <2>2. \A v, w \in valid : g[v] = g[w] => v = w BY <1>7
  <2>3. ASSUME NEW s \in S PROVE \E v \in valid : g[v] = s
    <3>1. PICK u \in used, o \in Offs : s = <<u, o>> OBVIOUS
    <3>2. u \in T!Frames BY DEF LinearInv
    <3>3. PICK i \in 1 .. Len(pt) : pt[i] = u BY DEF LinearInv
    <3>4. i - 1 \in 0 .. vpages - 1 /\ i - 1 \in Nat BY DEF LinearInv
    <3> DEFINE v == (i - 1) * pageSize + o
    <3>5. v \in V BY <3>4, Division, TableSizes
    <3>6. v \div pageSize = i - 1 /\ v % pageSize = o BY <3>4, Division
    <3> HIDE DEF v
    <3>7. at(v) = u BY <3>3, <3>4, <3>6 DEF at
    <3>8. v \in valid BY <1>5, <3>2, <3>5, <3>7
    <3> QED BY <3>1, <3>6, <3>7, <3>8
  <2> HIDE DEF g, S, valid
  <2>4. g \in Bijection(valid, S)
    BY <2>1, <2>2, <2>3 DEF Bijection, Injection, IsInjective, Surjection
  <2>5. used \subseteq 0 .. physPages - 1 BY DEF LinearInv, T!Frames
  <2>6. IsFiniteSet(0 .. physPages - 1) BY FS_Interval, TableSizes
  <2>7. IsFiniteSet(used) BY <2>5, <2>6, FS_Subset
  <2>8. IsFiniteSet(Offs) /\ Cardinality(Offs) = pageSize BY FS_Interval, TableSizes DEF Offs
  <2>9. IsFiniteSet(S) /\ Cardinality(S) = Cardinality(used) * pageSize
    BY <2>7, <2>8, FS_Product DEF S
  <2>10. IsFiniteSet(V) BY FS_Interval, TableSizes
  <2>11. valid \subseteq V BY DEF valid
  <2>12. IsFiniteSet(valid) BY <2>10, <2>11, FS_Subset
  <2>13. ExistsBijection(valid, S) BY <2>4 DEF ExistsBijection
  <2>15. Cardinality(valid) = Cardinality(S) BY <2>12, <2>13, FS_Bijection
  <2>14. Cardinality(used) \in Nat BY <2>7, FS_CardinalityType
  <2> QED BY <2>9, <2>14, <2>15, TableSizes
<1>9. \A v \in valid : lin(v) \div pageSize \in used BY <1>6
<1>10. \A v, w \in valid : lin(v) = lin(w) => v = w BY <1>6, <1>7
<1> HIDE DEF V
<1>11. T!Cardinality(valid) = pageSize * T!Cardinality(used) BY <1>8, SameCount, Zenon
<1> QED BY <1>9, <1>10, <1>11, Zenon DEF T!LinearSound, lin, V

-----------------------------------------------------------------------------
(* The two-level page table.  Entry j of the page in frame f is a byte of the
   simulated memory; d is the directory's frame, mp the pages given to the
   process and us the frames in use. *)
Bytes == 0 .. physPages * pageSize - 1
Entry(m, f, j) == m[f * pageSize + j]
TablesOf(m, d) == {q \in T!Frames : \E i \in Offs : Entry(m, d, i) = T!VALID + q}
DataOf(mp) == {mp[vp] : vp \in DOMAIN mp}
KeysOf(mp) == {vp \div pageSize : vp \in DOMAIN mp}

\* An entry of the directory is a marker or names a frame in use, another one in
\* each entry; the entries of that frame are the process's pages or markers, and
\* a page's frame is neither the directory nor a table page.
WalkInv(m, d, mp, us) ==
  /\ us \subseteq T!Frames /\ d \in us
  /\ \A i \in Offs : Entry(m, d, i) = T!Marker \/ \E q \in us \ {d} : Entry(m, d, i) = T!VALID + q
  /\ \A i, k \in Offs : Entry(m, d, i) >= T!VALID /\ Entry(m, d, i) = Entry(m, d, k) => i = k
  /\ \A i \in Offs, q \in T!Frames : Entry(m, d, i) = T!VALID + q =>
       \A j \in Offs : Entry(m, q, j) = IF i * pageSize + j \in DOMAIN mp
                                          THEN T!VALID + mp[i * pageSize + j] ELSE T!Marker
  /\ \A vp \in DOMAIN mp : /\ mp[vp] \in us \ {d} /\ Entry(m, d, vp \div pageSize) >= T!VALID
                           /\ \A i \in Offs : Entry(m, d, i) # T!VALID + mp[vp]

\* Every frame in use is the directory, a table page some page needs, or a page.
Accounted(m, d, mp, us) ==
  /\ us = {d} \cup TablesOf(m, d) \cup DataOf(mp)
  /\ \A i \in Offs : Entry(m, d, i) >= T!VALID => i \in KeysOf(mp)
  /\ Cardinality(us) = 1 + Cardinality(KeysOf(mp)) + Cardinality(DOMAIN mp)

MultiInv ==
  kind = "multilevel" =>
    /\ memory \in [Bytes -> Int] /\ used \subseteq T!Frames /\ usedPagesCount = Cardinality(used)
    /\ DOMAIN mapped \subseteq 0 .. T!vaPages - 1
    /\ filling \in {"filling", "ready", "AssertionError"}
    /\ pdbr = -1 => used = {} /\ DOMAIN mapped = {} /\ filling = "filling"
    /\ pdbr # -1 => WalkInv(memory, pdbr, mapped, used)
    /\ pdbr # -1 /\ filling # "AssertionError" => Accounted(memory, pdbr, mapped, used)
    /\ filling = "AssertionError" => used = T!Frames

\* A virtual page is an entry of the directory and one of a table page.
LEMMA Pages ==
  /\ \A vp \in 0 .. T!vaPages - 1 :
       /\ vp \in Nat /\ vp \div pageSize \in Offs /\ vp % pageSize \in Offs
       /\ vp = (vp \div pageSize) * pageSize + (vp % pageSize)
  /\ \A i, j \in Offs : /\ i * pageSize + j \in 0 .. T!vaPages - 1
                        /\ (i * pageSize + j) \div pageSize = i /\ (i * pageSize + j) % pageSize = j
<1>0. pageSize \in Nat /\ T!vaPages = pageSize * pageSize /\ T!vaPages \in Nat BY TableSizes DEF T!vaPages
<1>1. ASSUME NEW vp \in 0 .. T!vaPages - 1
      PROVE  /\ vp \in Nat /\ vp \div pageSize \in Offs /\ vp % pageSize \in Offs
             /\ vp = (vp \div pageSize) * pageSize + (vp % pageSize)
  <2>1. vp \in Nat BY <1>0
  <2>2. vp \in 0 .. pageSize * pageSize - 1 BY <1>0
  <2>3. vp \div pageSize \in Offs BY ONLY <1>0, <2>2, Division DEF Offs
  <2> QED BY ONLY <2>1, <2>3, Division
<1>2. ASSUME NEW i \in Offs, NEW j \in Offs
      PROVE  /\ i * pageSize + j \in 0 .. T!vaPages - 1
             /\ (i * pageSize + j) \div pageSize = i /\ (i * pageSize + j) % pageSize = j
  <2>1. i \in Nat BY TableSizes DEF Offs
  <2>2. i * pageSize + j \in 0 .. pageSize * pageSize - 1 BY ONLY <1>0, Division, i \in Offs, j \in Offs DEF Offs
  <2>3. (i * pageSize + j) \div pageSize = i /\ (i * pageSize + j) % pageSize = j
    BY ONLY <2>1, Division, j \in Offs
  <2> QED BY <1>0, <2>2, <2>3
<1> QED BY <1>1, <1>2

\* What reading an entry finds after a page was filled.
LEMMA SlotReads ==
  ASSUME NEW m \in [Bytes -> Int], NEW g \in T!Frames, NEW x \in Int
  PROVE  /\ T!Filled(m, g, x) \in [Bytes -> Int]
         /\ \A f \in T!Frames, j \in Offs :
              Entry(T!Filled(m, g, x), f, j) = IF f = g THEN x ELSE Entry(m, f, j)
<1>1. ASSUME NEW f \in T!Frames, NEW j \in Offs
      PROVE  Entry(T!Filled(m, g, x), f, j) = IF f = g THEN x ELSE Entry(m, f, j)
  <2>1. f \in Nat /\ f \in 0 .. physPages - 1 BY TableSizes DEF T!Frames
  <2>2. f * pageSize + j \in Bytes BY <2>1, Division, TableSizes DEF Bytes
  <2>3. (f * pageSize + j) \div pageSize = f BY <2>1, Division
  <2> DEFINE a == f * pageSize + j
  <2> HIDE DEF a
  <2>4. a \in Bytes /\ a \div pageSize = f BY <2>2, <2>3 DEF a
  <2>5. T!Filled(m, g, x)[a] = IF f = g THEN x ELSE m[a] BY <2>4 DEF T!Filled
  <2> QED BY <2>5 DEF Entry, a
<1> QED BY <1>1 DEF T!Filled

\* What reading an entry finds after one was set.
LEMMA ReadsSet ==
  ASSUME NEW m \in [Bytes -> Int], NEW g \in T!Frames, NEW k \in Offs, NEW x \in T!Frames
  PROVE  /\ T!setEntry(m, T!Byte(g, k), x) \in [Bytes -> Int]
         /\ \A f \in T!Frames, j \in Offs :
              Entry(T!setEntry(m, T!Byte(g, k), x), f, j)
                = IF f = g /\ j = k THEN T!VALID + x ELSE Entry(m, f, j)
<1>1. T!VALID + x \in Int BY TableSizes DEF T!VALID, T!Frames
<1>2. \A f \in T!Frames, j \in Offs : f \in Nat /\ f * pageSize + j \in Bytes
  <2> SUFFICES ASSUME NEW f \in T!Frames, NEW j \in Offs PROVE f \in Nat /\ f * pageSize + j \in Bytes OBVIOUS
  <2>1. f \in Nat /\ f \in 0 .. physPages - 1 BY TableSizes DEF T!Frames
  <2> QED BY <2>1, Division, TableSizes DEF Bytes
<1>3. ASSUME NEW f \in T!Frames, NEW j \in Offs, f * pageSize + j = g * pageSize + k PROVE f = g /\ j = k
  BY <1>2, <1>3, Division
<1>4. ASSUME NEW f \in T!Frames, NEW j \in Offs
      PROVE  Entry(T!setEntry(m, T!Byte(g, k), x), f, j)
               = IF f = g /\ j = k THEN T!VALID + x ELSE Entry(m, f, j)
  <2> DEFINE a == f * pageSize + j
             b == g * pageSize + k
  <2>1. a \in Bytes /\ b \in Bytes BY <1>2
  <2>2. a = b <=> f = g /\ j = k BY <1>3
  <2>3. T!setEntry(m, T!Byte(g, k), x) = [m EXCEPT ![b] = T!VALID + x] BY DEF T!setEntry, T!Byte
  <2> HIDE DEF a, b
  <2>4. T!setEntry(m, T!Byte(g, k), x)[a] = IF a = b THEN T!VALID + x ELSE m[a] BY <2>1, <2>3
  <2> QED BY <2>2, <2>4 DEF Entry, a
<1>5. T!setEntry(m, T!Byte(g, k), x) \in [Bytes -> Int] BY <1>1, <1>2 DEF T!setEntry, T!Byte
<1> QED BY <1>4, <1>5

\* A marker is no valid entry, and a valid entry names one frame.
LEMMA Values ==
  /\ T!Marker \in Int /\ T!VALID \in Nat /\ T!Marker < T!VALID
  /\ \A q \in T!Frames : q \in Nat /\ T!VALID + q >= T!VALID /\ T!VALID + q # T!Marker /\ T!VALID + q # 0
  /\ \A q, r \in T!Frames : T!VALID + q = T!VALID + r => q = r
BY TableSizes DEF T!Marker, T!VALID, T!Frames

\* The memory n that m becomes when frame q is made an empty table page for entry
\* e of the directory, or frame pp a page in entry t of the table page in frame q.
WithTable(m, n, d, e, q) ==
  \A f \in T!Frames, j \in Offs :
    Entry(n, f, j) = IF f = q THEN T!Marker
                     ELSE IF f = d /\ j = e THEN T!VALID + q ELSE Entry(m, f, j)
WithData(m, n, q, t, pp) ==
  \A f \in T!Frames, j \in Offs :
    Entry(n, f, j) = IF f = pp THEN 0
                     ELSE IF f = q /\ j = t THEN T!VALID + pp ELSE Entry(m, f, j)

\* Installing an empty table page in frame q for entry e of the directory.
LEMMA AddTable ==
  ASSUME NEW m, NEW n, NEW d, NEW mp, NEW us, NEW e \in Offs, NEW q \in T!Frames \ us,
         WalkInv(m, d, mp, us), DOMAIN mp \subseteq 0 .. T!vaPages - 1,
         Entry(m, d, e) = T!Marker, WithTable(m, n, d, e, q)
  PROVE  WalkInv(n, d, mp, us \cup {q})
<1> USE DEF WalkInv
<1>1. d \in T!Frames /\ d # q /\ us \subseteq T!Frames OBVIOUS
<1>2. \A i \in Offs : Entry(n, d, i) = IF i = e THEN T!VALID + q ELSE Entry(m, d, i) BY <1>1 DEF WithTable
<1>3. \A f \in us \ {d}, j \in Offs : Entry(n, f, j) = Entry(m, f, j) BY <1>1 DEF WithTable
<1>4. \A j \in Offs : Entry(n, q, j) = T!Marker BY DEF WithTable
<1>5. \A i \in Offs, r \in T!Frames : Entry(m, d, i) = T!VALID + r => r \in us \ {d}
  BY <1>1, Values
<1>6. \A vp \in DOMAIN mp : vp \div pageSize \in Offs /\ vp \div pageSize # e BY Pages, Values
<1>7. \A j \in Offs : e * pageSize + j \notin DOMAIN mp BY <1>6, Pages
<1>a. us \cup {q} \subseteq T!Frames /\ d \in us \cup {q} BY <1>1
<1>b. \A i \in Offs : Entry(n, d, i) = T!Marker \/ \E r \in (us \cup {q}) \ {d} : Entry(n, d, i) = T!VALID + r
  BY <1>1, <1>2
<1>c. \A i, k \in Offs : Entry(n, d, i) >= T!VALID /\ Entry(n, d, i) = Entry(n, d, k) => i = k
  BY <1>1, <1>2, <1>5
<1>d. ASSUME NEW i \in Offs, NEW r \in T!Frames, Entry(n, d, i) = T!VALID + r, NEW j \in Offs
      PROVE  Entry(n, r, j) = IF i * pageSize + j \in DOMAIN mp
                                THEN T!VALID + mp[i * pageSize + j] ELSE T!Marker
  <2>1. CASE i = e BY <1>2, <1>4, <1>7, <1>d, <2>1, Values
  <2>2. CASE i # e
    <3>1. Entry(m, d, i) = T!VALID + r BY <1>2, <1>d, <2>2
    <3>2. Entry(n, r, j) = Entry(m, r, j) BY <1>3, <1>5, <3>1
    <3> QED BY <3>1, <3>2
  <2> QED BY <2>1, <2>2
<1>e. ASSUME NEW vp \in DOMAIN mp
      PROVE  /\ mp[vp] \in (us \cup {q}) \ {d} /\ Entry(n, d, vp \div pageSize) >= T!VALID
             /\ \A i \in Offs : Entry(n, d, i) # T!VALID + mp[vp]
  <2>1. mp[vp] \in us \ {d} /\ mp[vp] # q /\ mp[vp] \in T!Frames BY <1>1
  <2>2. Entry(n, d, vp \div pageSize) >= T!VALID BY <1>2, <1>6
  <2>3. \A i \in Offs : Entry(n, d, i) # T!VALID + mp[vp] BY <1>2, <2>1, Values
  <2> QED BY <2>1, <2>2, <2>3
<1> QED BY <1>a, <1>b, <1>c, <1>d, <1>e

\* Page vp is given frame pp, and the other pages keep theirs.
MapsTo(mp, nw, vp, pp) ==
  DOMAIN nw = DOMAIN mp \cup {vp} /\ nw[vp] = pp /\ \A v \in DOMAIN mp : nw[v] = mp[v]

\* Giving frame pp to virtual page vp, whose table page is in frame q.
LEMMA AddPage ==
  ASSUME NEW m, NEW n, NEW d, NEW mp, NEW nw, NEW us, NEW q \in T!Frames, NEW pp \in T!Frames \ us,
         NEW vp \in (0 .. T!vaPages - 1) \ DOMAIN mp, MapsTo(mp, nw, vp, pp),
         WalkInv(m, d, mp, us), DOMAIN mp \subseteq 0 .. T!vaPages - 1,
         Entry(m, d, vp \div pageSize) = T!VALID + q, WithData(m, n, q, vp % pageSize, pp)
  PROVE  WalkInv(n, d, nw, us \cup {pp})
<1> DEFINE e == vp \div pageSize
           t == vp % pageSize
<1>0. e \in Offs /\ t \in Offs /\ vp = e * pageSize + t BY Pages
<1>n. DOMAIN nw = DOMAIN mp \cup {vp} /\ nw[vp] = pp /\ \A v \in DOMAIN mp : nw[v] = mp[v] BY DEF MapsTo
<1> HIDE DEF e, t
<1> USE DEF WalkInv
<1>1. d \in T!Frames /\ d # pp /\ us \subseteq T!Frames /\ Entry(m, d, e) = T!VALID + q BY DEF e
<1>5. \A i \in Offs, r \in T!Frames : Entry(m, d, i) = T!VALID + r => r \in us \ {d}
  BY <1>1, Values
<1>q. q \in us \ {d} /\ q # pp BY <1>0, <1>1, <1>5
<1>2. \A i \in Offs : Entry(n, d, i) = Entry(m, d, i) BY <1>1, <1>q DEF WithData
<1>3. \A f \in us \ {d, q}, j \in Offs : Entry(n, f, j) = Entry(m, f, j) BY <1>1 DEF WithData
<1>4. \A j \in Offs : Entry(n, q, j) = IF j = t THEN T!VALID + pp ELSE Entry(m, q, j) BY <1>q DEF t, WithData
<1>a. us \cup {pp} \subseteq T!Frames /\ d \in us \cup {pp} BY <1>1
<1>b. \A i \in Offs : Entry(n, d, i) = T!Marker \/ \E r \in (us \cup {pp}) \ {d} : Entry(n, d, i) = T!VALID + r
  BY <1>1, <1>2
<1>c. \A i, k \in Offs : Entry(n, d, i) >= T!VALID /\ Entry(n, d, i) = Entry(n, d, k) => i = k
  BY <1>2
<1>d. ASSUME NEW i \in Offs, NEW r \in T!Frames, Entry(n, d, i) = T!VALID + r, NEW j \in Offs
      PROVE  Entry(n, r, j) = IF i * pageSize + j \in DOMAIN nw
                                THEN T!VALID + nw[i * pageSize + j] ELSE T!Marker
  <2>0. Entry(m, d, i) = T!VALID + r BY <1>2, <1>d
  <2>k. i * pageSize + j = vp <=> i = e /\ j = t BY <1>0, Pages DEF e, t
  <2>1. CASE i = e /\ j = t
    <3>1. r = q BY <1>1, <2>0, <2>1, Values
    <3>2. Entry(n, r, j) = T!VALID + pp BY <1>4, <2>1, <3>1
    <3> QED BY <1>n, <2>1, <2>k, <3>2
  <2>2. CASE ~(i = e /\ j = t)
    <3>1. Entry(n, r, j) = Entry(m, r, j)
      <4>1. CASE r = q
        <5>1. i = e BY <1>0, <1>1, <2>0, <4>1, Values
        <5> QED BY <1>4, <2>2, <4>1, <5>1
      <4>2. CASE r # q BY <1>3, <1>5, <2>0, <4>2
      <4> QED BY <4>1, <4>2
    <3>2. Entry(m, r, j) = IF i * pageSize + j \in DOMAIN mp
                             THEN T!VALID + mp[i * pageSize + j] ELSE T!Marker
      BY <2>0
    <3> DEFINE a == i * pageSize + j
    <3>3. a # vp BY <2>2, <2>k
    <3> HIDE DEF a
    <3> QED BY <1>n, <3>1, <3>2, <3>3 DEF a
  <2> QED BY <2>1, <2>2
<1>e. ASSUME NEW v \in DOMAIN nw
      PROVE  /\ nw[v] \in (us \cup {pp}) \ {d} /\ Entry(n, d, v \div pageSize) >= T!VALID
             /\ \A i \in Offs : Entry(n, d, i) # T!VALID + nw[v]
  <2>1. CASE v = vp
    <3>1. nw[v] = pp BY <1>n, <2>1
    <3>2. Entry(n, d, e) >= T!VALID BY <1>0, <1>1, <1>2, Values
    <3>3. \A i \in Offs : Entry(n, d, i) # T!VALID + pp BY <1>2, <1>5
    <3> QED BY <1>1, <2>1, <3>1, <3>2, <3>3 DEF e
  <2>2. CASE v # vp
    <3>1. v \in DOMAIN mp /\ nw[v] = mp[v] BY <1>n, <2>2
    <3>2. v \div pageSize \in Offs BY <3>1, Pages
    <3> QED BY <1>2, <3>1, <3>2
  <2> QED BY <2>1, <2>2
<1> QED BY <1>a, <1>b, <1>c, <1>d, <1>e

\* The sets counted are finite.
LEMMA Finite ==
  /\ IsFiniteSet(T!Frames) /\ Cardinality(T!Frames) = physPages
  /\ \A us \in SUBSET T!Frames : IsFiniteSet(us) /\ Cardinality(us) \in Nat
  /\ \A S \in SUBSET (0 .. T!vaPages - 1) : IsFiniteSet(S) /\ Cardinality(S) \in Nat
  /\ \A S \in SUBSET Offs : IsFiniteSet(S) /\ Cardinality(S) \in Nat
<1>1. T!vaPages \in Nat BY TableSizes DEF T!vaPages
<1>2. IsFiniteSet(0 .. T!vaPages - 1) BY <1>1, FS_Interval
<1>3. IsFiniteSet(Offs) BY TableSizes, FS_Interval DEF Offs
<1>4. IsFiniteSet(T!Frames) /\ Cardinality(T!Frames) = physPages BY TableSizes, FS_Interval DEF T!Frames
<1> QED BY <1>2, <1>3, <1>4, FS_Subset, FS_CardinalityType

\* A page given to the process, with its table page if it needed a new one,
\* leaves every frame in use accounted for.
LEMMA AccountPage ==
  ASSUME NEW m, NEW n, NEW d, NEW mp, NEW nw, NEW us \in SUBSET T!Frames, NEW more,
         NEW vp \in (0 .. T!vaPages - 1) \ DOMAIN mp, NEW pp \in T!Frames \ us, MapsTo(mp, nw, vp, pp),
         DOMAIN mp \subseteq 0 .. T!vaPages - 1, Accounted(m, d, mp, us),
         \/ /\ more = {} /\ vp \div pageSize \in KeysOf(mp)
            /\ \A i \in Offs : Entry(n, d, i) = Entry(m, d, i)
         \/ \E q \in T!Frames \ (us \cup {pp}) :
              /\ more = {q} /\ vp \div pageSize \notin KeysOf(mp)
              /\ Entry(m, d, vp \div pageSize) = T!Marker
              /\ \A i \in Offs : Entry(n, d, i) = IF i = vp \div pageSize THEN T!VALID + q
                                                  ELSE Entry(m, d, i)
  PROVE  Accounted(n, d, nw, us \cup {pp} \cup more)
<1> DEFINE e == vp \div pageSize
<1>1. DOMAIN nw = DOMAIN mp \cup {vp} /\ nw[vp] = pp /\ \A v \in DOMAIN mp : nw[v] = mp[v] BY DEF MapsTo
<1>2. KeysOf(nw) = KeysOf(mp) \cup {e} BY <1>1 DEF KeysOf
<1>3. DataOf(nw) = DataOf(mp) \cup {pp} BY <1>1 DEF DataOf
<1>4. e \in Offs /\ \A v \in DOMAIN mp : v \div pageSize \in Offs BY Pages
<1>5. KeysOf(mp) \subseteq Offs BY <1>4 DEF KeysOf
<1> HIDE DEF e
<1>6. Cardinality(DOMAIN nw) = Cardinality(DOMAIN mp) + 1 /\ Cardinality(DOMAIN mp) \in Nat
  BY <1>1, Finite, FS_AddElement
<1>7. Cardinality(us \cup {pp}) = Cardinality(us) + 1 /\ Cardinality(us) \in Nat
  BY Finite, FS_AddElement
<1>8. /\ us = {d} \cup TablesOf(m, d) \cup DataOf(mp)
      /\ \A i \in Offs : Entry(m, d, i) >= T!VALID => i \in KeysOf(mp)
      /\ Cardinality(us) = 1 + Cardinality(KeysOf(mp)) + Cardinality(DOMAIN mp)
  BY DEF Accounted
<1>9. CASE more = {} /\ e \in KeysOf(mp) /\ \A i \in Offs : Entry(n, d, i) = Entry(m, d, i)
  <2>1. KeysOf(nw) = KeysOf(mp) BY <1>2, <1>9
  <2>2. TablesOf(n, d) = TablesOf(m, d) BY <1>9 DEF TablesOf
  <2>3. us \cup {pp} \cup more = {d} \cup TablesOf(n, d) \cup DataOf(nw) BY <1>3, <1>8, <1>9, <2>2
  <2>4. \A i \in Offs : Entry(n, d, i) >= T!VALID => i \in KeysOf(nw) BY <1>8, <1>9, <2>1
  <2>5. us \cup {pp} \cup more = us \cup {pp} BY <1>9
  <2>6. Cardinality(KeysOf(mp)) \in Nat BY <1>5, Finite
  <2>7. Cardinality(us \cup {pp} \cup more) = 1 + Cardinality(KeysOf(nw)) + Cardinality(DOMAIN nw)
    <3>1. Cardinality(us \cup {pp} \cup more) = Cardinality(us) + 1 BY <1>7, <2>5, Zenon
    <3>2. Cardinality(KeysOf(nw)) = Cardinality(KeysOf(mp)) BY <2>1, Zenon
    <3> QED BY ONLY <1>6, <1>7, <1>8, <2>6, <3>1, <3>2
  <2> QED BY <2>3, <2>4, <2>7 DEF Accounted
<1>10. ASSUME NEW q \in T!Frames \ (us \cup {pp}), more = {q}, e \notin KeysOf(mp),
              Entry(m, d, e) = T!Marker,
              \A i \in Offs : Entry(n, d, i) = IF i = e THEN T!VALID + q ELSE Entry(m, d, i)
       PROVE  Accounted(n, d, nw, us \cup {pp} \cup more)
  <2>1. Cardinality(KeysOf(nw)) = Cardinality(KeysOf(mp)) + 1 /\ Cardinality(KeysOf(mp)) \in Nat
    BY <1>2, <1>5, <1>10, Finite, FS_AddElement
  <2>2. TablesOf(n, d) = TablesOf(m, d) \cup {q} BY <1>4, <1>10, Values DEF TablesOf
  <2>3. us \cup {pp} \cup more = {d} \cup TablesOf(n, d) \cup DataOf(nw) BY <1>3, <1>8, <1>10, <2>2
  <2>4. \A i \in Offs : Entry(n, d, i) >= T!VALID => i \in KeysOf(nw) BY <1>2, <1>8, <1>10
  <2>5. IsFiniteSet(us \cup {pp}) /\ q \notin us \cup {pp} BY Finite, <1>10
  <2>6. Cardinality(us \cup {pp} \cup more) = Cardinality(us \cup {pp}) + 1
    BY <1>10, <2>5, FS_AddElement
  <2>7. Cardinality(us \cup {pp} \cup more) = 1 + Cardinality(KeysOf(nw)) + Cardinality(DOMAIN nw)
    BY <1>6, <1>7, <1>8, <2>1, <2>6
  <2> QED BY <2>3, <2>4, <2>7 DEF Accounted
<1> QED BY <1>9, <1>10 DEF e

\* Before procAlloc the two-level table is as MultiInv says.
LEMMA MultiInit == T!Init => MultiInv
<1> SUFFICES ASSUME T!Init PROVE MultiInv OBVIOUS
<1>1. memory \in [Bytes -> Int] BY DEF T!Init, Bytes
<1>2. used = {} /\ usedPagesCount = 0 /\ pdbr = -1 /\ DOMAIN mapped = {} /\ filling = "filling"
  BY DEF T!Init
<1>3. usedPagesCount = Cardinality(used) BY <1>2, FS_EmptySet
<1> QED BY <1>1, <1>2, <1>3 DEF MultiInv

\* Every turn of procAlloc's loop keeps the table as MultiInv says: no assert on
\* an entry ever fails, and the one on the free frames only when none is left.
LEMMA MultiStep == MultiInv /\ T!Next => MultiInv'
<1> SUFFICES ASSUME MultiInv, T!Next, kind = "multilevel" PROVE MultiInv'
  <2>1. T!Next => kind' = kind
    BY DEF T!Next, T!Assign, T!NewDirectory, T!NotValid, T!AllocInTable, T!AllocWithTable, T!OutOfFrames
  <2> QED BY <2>1 DEF MultiInv
<1>0. /\ memory \in [Bytes -> Int] /\ used \subseteq T!Frames /\ usedPagesCount = Cardinality(used)
      /\ DOMAIN mapped \subseteq 0 .. T!vaPages - 1
      /\ filling \in {"filling", "ready", "AssertionError"}
  BY DEF MultiInv
<1>1. ASSUME NEW u \in T!Frames, T!NewDirectory(u) PROVE MultiInv'
  <2>1. /\ kind' = kind /\ mapped' = mapped /\ pdbr' = u /\ pdbr = -1 /\ used' = used \cup {u}
        /\ usedPagesCount' = usedPagesCount + 1 /\ memory' = T!Filled(memory, u, T!Marker)
        /\ filling' \in {"filling", "ready"}
    BY <1>1 DEF T!NewDirectory, T!initPageDir
  <2>2. used' = {u} /\ DOMAIN mapped' = {} /\ used = {} BY <2>1 DEF MultiInv
  <2>3. memory' \in [Bytes -> Int] /\ \A j \in Offs : Entry(memory', u, j) = T!Marker
    BY <1>0, <2>1, SlotReads, Values
  <2>4. Cardinality({u}) = 1 /\ Cardinality({}) = 0 BY FS_EmptySet, FS_Singleton
  <2>5. usedPagesCount' = Cardinality(used') BY <1>0, <2>1, <2>2, <2>4
  <2>6. WalkInv(memory', u, mapped', used') BY <2>2, <2>3, Values DEF WalkInv
  <2>7. Accounted(memory', u, mapped', used')
    <3>1. KeysOf(mapped') = {} /\ DataOf(mapped') = {} BY <2>2 DEF KeysOf, DataOf
    <3>2. TablesOf(memory', u) = {} BY <2>3, Values DEF TablesOf
    <3>3. \A i \in Offs : Entry(memory', u, i) >= T!VALID => i \in KeysOf(mapped') BY <2>3, Values
    <3>4. Cardinality(used') = 1 + Cardinality(KeysOf(mapped')) + Cardinality(DOMAIN mapped')
      BY <2>2, <2>4, <3>1
    <3> QED BY <2>2, <3>1, <3>2, <3>3, <3>4 DEF Accounted
  <2>8. u # -1 BY Values
  <2> QED BY <1>0, <2>1, <2>2, <2>3, <2>5, <2>6, <2>7, <2>8 DEF MultiInv
<1>2. ASSUME NEW vp \in 0 .. T!vaPages - 1, NEW pp \in T!Frames, T!AllocInTable(vp, pp)
      PROVE  MultiInv'
  <2> DEFINE e == vp \div pageSize
             t == vp % pageSize
             q == T!PDE(vp) - T!VALID
  <2>1. /\ kind' = kind /\ pdbr' = pdbr /\ pdbr # -1 /\ filling = "filling"
        /\ vp \notin DOMAIN mapped /\ pp \notin used /\ T!PDE(vp) >= T!VALID
        /\ used' = used \cup {pp} /\ usedPagesCount' = usedPagesCount + 1
        /\ T!MapPage(memory, vp, q, pp)
    BY <1>2 DEF T!AllocInTable, T!Loop
  <2>2. T!PDE(vp) = Entry(memory, pdbr, e) BY DEF T!PDE, Entry, T!Byte, T!pdeBits
  <2>3. WalkInv(memory, pdbr, mapped, used) /\ Accounted(memory, pdbr, mapped, used)
    BY <2>1 DEF MultiInv
  <2>4. e \in Offs /\ t \in Offs /\ vp = e * pageSize + t BY Pages
  <2>5. q \in used \ {pdbr} /\ q \in T!Frames /\ Entry(memory, pdbr, e) = T!VALID + q
    <3>1. PICK r \in used \ {pdbr} : Entry(memory, pdbr, e) = T!VALID + r
      BY <2>1, <2>2, <2>3, <2>4, Values DEF WalkInv
    <3>2. r \in Nat /\ r \in T!Frames BY <1>0, Values
    <3>3. q = r BY <2>2, <3>1, <3>2, Values
    <3> QED BY <3>1, <3>2, <3>3
  <2> HIDE DEF e, t, q
  <2>6. memory[T!Byte(q, T!pteBits(vp))] = T!Marker
    <3>1. Entry(memory, q, t) = T!Marker BY <2>1, <2>3, <2>4, <2>5 DEF WalkInv
    <3> QED BY <3>1 DEF Entry, T!Byte, T!pteBits, t
  <2>7. /\ memory' = T!Filled(T!setEntry(memory, T!Byte(q, t), pp), pp, 0)
        /\ mapped' = [v \in DOMAIN mapped \cup {vp} |-> IF v = vp THEN pp ELSE mapped[v]]
        /\ filling' \in {"ready", "filling"} /\ MapsTo(mapped, mapped', vp, pp)
    BY <2>1, <2>6 DEF MapsTo, T!MapPage, T!fillPage, T!WithPage, T!pteBits, t
  <2>g. MapsTo(mapped, mapped', vp, pp) BY <2>7
  <2>8. memory' \in [Bytes -> Int] /\ \A f \in T!Frames, j \in Offs :
           Entry(memory', f, j) = IF f = pp THEN 0
                            ELSE IF f = q /\ j = t THEN T!VALID + pp ELSE Entry(memory, f, j)
    <3> DEFINE m1 == T!setEntry(memory, T!Byte(q, t), pp)
    <3>1. m1 \in [Bytes -> Int] /\ \A f \in T!Frames, j \in Offs :
            Entry(m1, f, j) = IF f = q /\ j = t THEN T!VALID + pp ELSE Entry(memory, f, j)
      BY <1>0, <2>4, <2>5, ReadsSet
    <3> HIDE DEF m1
    <3>2. memory' = T!Filled(m1, pp, 0) BY <2>7 DEF m1
    <3>3. memory' \in [Bytes -> Int] /\ \A f \in T!Frames, j \in Offs :
            Entry(memory', f, j) = IF f = pp THEN 0 ELSE Entry(m1, f, j)
      BY <3>1, <3>2, SlotReads
    <3> QED BY <3>1, <3>3
  <2>9. /\ WalkInv(memory', pdbr, mapped', used')
        /\ \A i \in Offs : Entry(memory', pdbr, i) = Entry(memory, pdbr, i)
    <3>1. Entry(memory, pdbr, vp \div pageSize) = T!VALID + q BY <2>5 DEF e
    <3>2. WithData(memory, memory', q, vp % pageSize, pp) BY <2>8 DEF t, WithData
    <3>3. pp \in T!Frames \ used /\ vp \in (0 .. T!vaPages - 1) \ DOMAIN mapped BY <2>1
    <3>4. WalkInv(memory', pdbr, mapped', used \cup {pp})
      BY ONLY <1>0, <2>3, <2>5, <2>g, <3>1, <3>2, <3>3, AddPage
    <3>5. pdbr \in T!Frames /\ pdbr # pp /\ pdbr # q BY <2>1, <2>3, <2>5 DEF WalkInv
    <3>6. \A i \in Offs : Entry(memory', pdbr, i) = Entry(memory, pdbr, i) BY <2>8, <3>5
    <3> QED BY <2>1, <3>4, <3>6
  <2>10. e \in KeysOf(mapped) BY <2>1, <2>2, <2>3, <2>4 DEF Accounted, e
  <2>11. Accounted(memory', pdbr, mapped', used')
    <3>1. Accounted(memory', pdbr, mapped', used \cup {pp} \cup {})
      <4>1. vp \div pageSize \in KeysOf(mapped) BY <2>10 DEF e
      <4>2. used \in SUBSET T!Frames /\ pp \in T!Frames \ used
            /\ vp \in (0 .. T!vaPages - 1) \ DOMAIN mapped BY <1>0, <2>1
      <4> QED BY ONLY <1>0, <2>3, <2>9, <2>g, <4>1, <4>2, AccountPage
    <3>2. used' = used \cup {pp} \cup {} BY <2>1
    <3> QED BY <3>1, <3>2
  <2>12. usedPagesCount' = Cardinality(used') BY <1>0, <2>1, Finite, FS_AddElement
  <2>13. DOMAIN mapped' \subseteq 0 .. T!vaPages - 1 BY <1>0, <2>7
  <2> QED BY <1>0, <2>1, <2>7, <2>8, <2>9, <2>11, <2>12, <2>13 DEF MultiInv
<1>3. ASSUME NEW vp \in 0 .. T!vaPages - 1, NEW pp \in T!Frames, NEW q \in T!Frames,
             T!AllocWithTable(vp, pp, q)
      PROVE  MultiInv'
  <2> DEFINE e == vp \div pageSize
             t == vp % pageSize
             m1 == T!setEntry(memory, T!Byte(pdbr, e), q)
             m2 == T!Filled(m1, q, T!Marker)
             m3 == T!setEntry(m2, T!Byte(q, t), pp)
  <2>1. /\ kind' = kind /\ pdbr' = pdbr /\ pdbr # -1 /\ filling = "filling"
        /\ vp \notin DOMAIN mapped /\ pp \notin used /\ q \notin used \cup {pp} /\ T!PDE(vp) < T!VALID
    BY <1>3 DEF T!AllocWithTable, T!Loop
  <2>2. T!PDE(vp) = Entry(memory, pdbr, e) BY DEF T!PDE, Entry, T!Byte, T!pdeBits
  <2>3. WalkInv(memory, pdbr, mapped, used) /\ Accounted(memory, pdbr, mapped, used)
    BY <2>1 DEF MultiInv
  <2>4. e \in Offs /\ t \in Offs /\ vp = e * pageSize + t BY Pages
  <2>5. Entry(memory, pdbr, e) = T!Marker
    <3>1. \A r \in used : T!VALID + r >= T!VALID /\ T!VALID \in Int /\ T!VALID + r \in Int BY <1>0, Values
    <3> QED BY <2>1, <2>2, <2>3, <2>4, <3>1 DEF WalkInv
  <2>6. /\ used' = used \cup {pp, q} /\ usedPagesCount' = usedPagesCount + 2
        /\ T!MapPage(m2, vp, q, pp)
    BY <1>3, <2>2, <2>5 DEF T!AllocWithTable, T!initPageDir, T!pdeBits
  <2>7. pdbr \in T!Frames /\ pdbr \in used BY <2>3 DEF WalkInv
  <2> HIDE DEF e, t, m1, m2, m3
  <2>8. m1 \in [Bytes -> Int] /\ \A f \in T!Frames, j \in Offs :
          Entry(m1, f, j) = IF f = pdbr /\ j = e THEN T!VALID + q ELSE Entry(memory, f, j)
    BY <1>0, <2>4, <2>7, ReadsSet DEF m1
  <2>9. m2 \in [Bytes -> Int] /\ \A f \in T!Frames, j \in Offs :
          Entry(m2, f, j) = IF f = q THEN T!Marker ELSE Entry(m1, f, j)
    BY <2>8, SlotReads, Values DEF m2
  <2>10. /\ WalkInv(m2, pdbr, mapped, used \cup {q}) /\ Entry(m2, pdbr, e) = T!VALID + q
         /\ \A i \in Offs \ {e} : Entry(m2, pdbr, i) = Entry(memory, pdbr, i)
    <3>1. WithTable(memory, m2, pdbr, e, q) BY <2>8, <2>9 DEF WithTable
    <3>2. q \in T!Frames \ used /\ e \in Offs BY <2>1, <2>4
    <3>3. WalkInv(memory, pdbr, mapped, used) BY <2>3
    <3>4. DOMAIN mapped \subseteq 0 .. T!vaPages - 1 BY <1>0
    <3>5. WalkInv(m2, pdbr, mapped, used \cup {q}) BY ONLY <2>5, <3>1, <3>2, <3>3, <3>4, AddTable
    <3>6. /\ Entry(m2, pdbr, e) = T!VALID + q
          /\ \A i \in Offs \ {e} : Entry(m2, pdbr, i) = Entry(memory, pdbr, i)
      BY <2>1, <2>4, <2>7, <3>1 DEF WithTable
    <3> QED BY <3>5, <3>6
  <2>11. m2[T!Byte(q, T!pteBits(vp))] = T!Marker
    <3>1. Entry(m2, q, t) = T!Marker BY <2>4, <2>9
    <3> QED BY <3>1 DEF Entry, T!Byte, T!pteBits, t
  <2>12. /\ memory' = T!Filled(m3, pp, 0)
         /\ mapped' = [v \in DOMAIN mapped \cup {vp} |-> IF v = vp THEN pp ELSE mapped[v]]
         /\ filling' \in {"ready", "filling"} /\ MapsTo(mapped, mapped', vp, pp)
    BY <2>1, <2>6, <2>11 DEF MapsTo, T!MapPage, T!fillPage, T!WithPage, T!pteBits, t, m3
  <2>13. m3 \in [Bytes -> Int] /\ \A f \in T!Frames, j \in Offs :
          Entry(m3, f, j) = IF f = q /\ j = t THEN T!VALID + pp ELSE Entry(m2, f, j)
    BY <2>4, <2>9, ReadsSet DEF m3
  <2>14. memory' \in [Bytes -> Int] /\ \A f \in T!Frames, j \in Offs :
          Entry(memory', f, j) = IF f = pp THEN 0 ELSE Entry(m3, f, j)
    BY <2>12, <2>13, SlotReads
  <2>15. /\ WalkInv(memory', pdbr, mapped', used \cup {q} \cup {pp})
         /\ \A i \in Offs : Entry(memory', pdbr, i) = Entry(m2, pdbr, i)
    <3>1. WithData(m2, memory', q, vp % pageSize, pp) BY <2>13, <2>14 DEF t, WithData
    <3>2. pp \in T!Frames \ (used \cup {q}) /\ vp \in (0 .. T!vaPages - 1) \ DOMAIN mapped BY <2>1
    <3>3. Entry(m2, pdbr, vp \div pageSize) = T!VALID + q BY <2>10 DEF e
    <3>4. q \in T!Frames /\ MapsTo(mapped, mapped', vp, pp) /\ WalkInv(m2, pdbr, mapped, used \cup {q})
      BY <2>10, <2>12
    <3>5. WalkInv(memory', pdbr, mapped', used \cup {q} \cup {pp})
      BY ONLY <1>0, <3>1, <3>2, <3>3, <3>4, AddPage
    <3>6. \A i \in Offs : Entry(memory', pdbr, i) = Entry(m2, pdbr, i)
      BY <2>1, <2>7, <3>1 DEF WithData
    <3> QED BY <3>5, <3>6
  <2>16. used' = used \cup {q} \cup {pp} BY <2>6
  <2>17. e \notin KeysOf(mapped) BY <2>3, <2>5, Values DEF WalkInv, KeysOf
  <2>18. Accounted(memory', pdbr, mapped', used')
    <3>1. \A i \in Offs : Entry(memory', pdbr, i) = IF i = e THEN T!VALID + q ELSE Entry(memory, pdbr, i)
      BY <2>4, <2>10, <2>15
    <3>2. q \in T!Frames \ (used \cup {pp}) BY <2>1
    <3>3. Accounted(memory', pdbr, mapped', used \cup {pp} \cup {q})
      <4>1. /\ vp \div pageSize \notin KeysOf(mapped) /\ Entry(memory, pdbr, vp \div pageSize) = T!Marker
            /\ \A i \in Offs : Entry(memory', pdbr, i) = IF i = vp \div pageSize THEN T!VALID + q
                                                         ELSE Entry(memory, pdbr, i)
        BY <2>5, <2>17, <3>1 DEF e
      <4>2. used \in SUBSET T!Frames /\ pp \in T!Frames \ used
            /\ vp \in (0 .. T!vaPages - 1) \ DOMAIN mapped BY <1>0, <2>1
      <4> QED BY ONLY <1>0, <2>3, <2>12, <3>2, <4>1, <4>2, AccountPage
    <3>4. used' = used \cup {pp} \cup {q} BY <2>6
    <3> QED BY <3>3, <3>4
  <2>19. usedPagesCount' = Cardinality(used')
    <3>1. IsFiniteSet(used) /\ Cardinality(used) \in Nat BY <1>0, Finite
    <3>2. Cardinality(used \cup {q}) = Cardinality(used) + 1 /\ IsFiniteSet(used \cup {q})
      BY <2>1, <3>1, FS_AddElement
    <3>3. pp \notin used \cup {q} BY <2>1
    <3>4. Cardinality(used') = Cardinality(used \cup {q}) + 1
      BY <2>16, <3>2, <3>3, FS_AddElement
    <3> QED BY <1>0, <2>6, <3>1, <3>2, <3>4
  <2>20. DOMAIN mapped' \subseteq 0 .. T!vaPages - 1 BY <1>0, <2>12
  <2> QED BY <1>0, <2>1, <2>12, <2>14, <2>15, <2>16, <2>18, <2>19, <2>20 DEF MultiInv
<1>4. ASSUME NEW vp \in 0 .. T!vaPages - 1, T!OutOfFrames(vp) PROVE MultiInv'
  <2>1. /\ kind' = kind /\ pdbr' = pdbr /\ pdbr # -1 /\ filling' = "AssertionError"
        /\ memory' = memory /\ mapped' = mapped
    BY <1>4 DEF T!OutOfFrames, T!Loop, T!Fail
  <2>2. used' = T!Frames /\ usedPagesCount' = physPages
    <3>1. CASE usedPagesCount = physPages /\ UNCHANGED <<used, usedPagesCount>>
      <4>1. used = T!Frames BY <1>0, <3>1, Finite, FS_Subset
      <4> QED BY <3>1, <4>1
    <3> QED BY <1>4, <3>1 DEF T!OutOfFrames
  <2>3. WalkInv(memory, pdbr, mapped, used) BY <2>1 DEF MultiInv
  <2>4. WalkInv(memory', pdbr', mapped', used') BY <1>0, <2>1, <2>2, <2>3 DEF WalkInv
  <2>5. usedPagesCount' = Cardinality(used') BY <2>2, Finite
  <2> QED BY <1>0, <2>1, <2>2, <2>4, <2>5 DEF MultiInv
<1> QED BY <1>1, <1>2, <1>3, <1>4 DEF T!Next, T!Assign, T!NotValid

\* In such a memory the walk finds every page given, and no other.
LEMMA WalkHolds == MultiInv => T!WalkFindsAll
<1> SUFFICES ASSUME MultiInv, kind = "multilevel", pdbr # -1 PROVE T!WalkFindsAll
  BY DEF T!WalkFindsAll
<1> DEFINE pa(vp, o) == T!translate(vp * pageSize + o)
<1>1. WalkInv(memory, pdbr, mapped, used) /\ DOMAIN mapped \subseteq 0 .. T!vaPages - 1
  BY DEF MultiInv
<1>2. ASSUME NEW vp \in 0 .. T!vaPages - 1, NEW o \in Offs
      PROVE  IF vp \in DOMAIN mapped THEN pa(vp, o) = mapped[vp] * pageSize + o ELSE pa(vp, o) < 0
  <2> DEFINE e == vp \div pageSize
             t == vp % pageSize
             pde == Entry(memory, pdbr, e)
             pte == Entry(memory, pde - T!VALID, t)
  <2>1. vp \in Nat /\ e \in Offs /\ t \in Offs /\ vp = e * pageSize + t BY Pages
  <2>2. (vp * pageSize + o) \div pageSize = vp /\ (vp * pageSize + o) % pageSize = o
    BY ONLY <2>1, <1>2, Division
  <2>3. pa(vp, o) = IF pde < T!VALID THEN -1 ELSE IF pte < T!VALID THEN -2
                    ELSE (pte - T!VALID) * pageSize + o
    BY <2>2 DEF T!translate, T!PDE, T!Byte, T!pdeBits, T!pteBits, Entry
  <2> HIDE DEF pa, e, t, pde, pte
  <2>4. CASE pde = T!Marker
    <3>1. vp \notin DOMAIN mapped BY <1>1, <2>4, Values DEF WalkInv, pde, e
    <3> QED BY <2>3, <2>4, <3>1, Values
  <2>5. ASSUME NEW q \in used \ {pdbr}, pde = T!VALID + q
        PROVE IF vp \in DOMAIN mapped THEN pa(vp, o) = mapped[vp] * pageSize + o ELSE pa(vp, o) < 0
    <3>1. q \in T!Frames /\ q \in Nat BY <1>1, Values DEF WalkInv
    <3>2. pde - T!VALID = q /\ ~(pde < T!VALID) BY <2>5, <3>1, Values
    <3>3. pte = IF vp \in DOMAIN mapped THEN T!VALID + mapped[vp] ELSE T!Marker
      BY <1>1, <2>1, <2>5, <3>1, <3>2 DEF WalkInv, pte, pde
    <3>4. CASE vp \in DOMAIN mapped
      <4>1. mapped[vp] \in T!Frames /\ mapped[vp] \in Nat BY <1>1, <3>4, Values DEF WalkInv
      <4>2. pte - T!VALID = mapped[vp] /\ ~(pte < T!VALID) BY <3>3, <3>4, <4>1, Values
      <4> QED BY <2>3, <3>2, <3>4, <4>2
    <3>5. CASE vp \notin DOMAIN mapped BY <2>3, <3>2, <3>3, <3>5, Values
    <3> QED BY <3>4, <3>5
  <2> QED BY <1>1, <2>1, <2>4, <2>5 DEF WalkInv, pde
<1>3. \A vp \in 0 .. T!vaPages - 1, o \in 0 .. pageSize - 1 :
        IF vp \in DOMAIN mapped THEN pa(vp, o) = mapped[vp] * pageSize + o ELSE pa(vp, o) < 0
  BY <1>2 DEF Offs
<1>4. usedPagesCount = T!Cardinality(used) BY SameCount DEF MultiInv
<1>5. filling = "AssertionError" => used = T!Frames BY DEF MultiInv
<1>6. ASSUME filling # "AssertionError"
      PROVE  /\ used = {pdbr} \cup {q \in T!Frames : \E i \in 0 .. pageSize - 1 :
                                                       memory[T!Byte(pdbr, i)] = T!VALID + q}
                              \cup {mapped[vp] : vp \in DOMAIN mapped}
             /\ T!Cardinality(used) = 1 + T!Cardinality({vp \div pageSize : vp \in DOMAIN mapped})
                                        + T!Cardinality(DOMAIN mapped)
  <2>1. Accounted(memory, pdbr, mapped, used) BY <1>6 DEF MultiInv
  <2>2. /\ used = {pdbr} \cup TablesOf(memory, pdbr) \cup DataOf(mapped)
        /\ Cardinality(used) = 1 + Cardinality(KeysOf(mapped)) + Cardinality(DOMAIN mapped)
    BY <2>1 DEF Accounted
  <2>3. /\ T!Cardinality(used) = Cardinality(used)
        /\ T!Cardinality(KeysOf(mapped)) = Cardinality(KeysOf(mapped))
        /\ T!Cardinality(DOMAIN mapped) = Cardinality(DOMAIN mapped)
    BY SameCount
  <2>4. T!Cardinality(used) = 1 + T!Cardinality(KeysOf(mapped)) + T!Cardinality(DOMAIN mapped)
    BY ONLY <2>2, <2>3
  <2>5. used = {pdbr} \cup {q \in T!Frames : \E i \in 0 .. pageSize - 1 :
                                               memory[T!Byte(pdbr, i)] = T!VALID + q}
                      \cup {mapped[vp] : vp \in DOMAIN mapped}
    BY <2>2 DEF TablesOf, DataOf, Entry, T!Byte, Offs
  <2> QED BY <2>4, <2>5 DEF KeysOf
<1> QED BY <1>3, <1>4, <1>5, <1>6, Zenon DEF T!WalkFindsAll, pa

-----------------------------------------------------------------------------
(* Page replacement. *)

\* The pages of a list, and lists that hold each of theirs once.
InList(L) == {L[k] : k \in 1..Len(L)}
Distinct(L) == \A j, k \in 1..Len(L) : L[j] = L[k] => j = k

\* The community module's set of the elements of a sequence.
LEMMA PagesOf == \A S : \A L \in Seq(S) : P!ToSet(L) = InList(L)
BY DEF P!ToSet, InList

\* The least of some numbers, and the greatest of some that are bounded.
LEMMA LeastIs ==
  ASSUME NEW S \in SUBSET Nat, S # {}
  PROVE  P!Min(S) \in S /\ \A y \in S : P!Min(S) <= y
<1>1. \E x \in S : \A y \in S : x <= y BY LeastNumber
<1> QED BY <1>1, Zenon DEF P!Min

\* The same for the greatest.
LEMMA GreatestIs ==
  ASSUME NEW m \in Nat, NEW S \in SUBSET (0..m), S # {}
  PROVE  P!Max(S) \in S /\ \A y \in S : P!Max(S) >= y
<1> DEFINE D == {m - x : x \in S}
<1>1. D \in SUBSET Nat /\ D # {}
  <2>1. \A x \in S : x \in 0..m OBVIOUS
  <2>2. \A x \in 0..m : m - x \in Nat OBVIOUS
  <2> QED BY <2>1, <2>2
<1>2. PICK d \in D : \A y \in D : d <= y
  <2> HIDE DEF D
  <2> QED BY <1>1, LeastNumber
<1>3. PICK x \in S : d = m - x OBVIOUS
<1>4. ASSUME NEW y \in S PROVE x >= y
  <2>1. m - y \in D OBVIOUS
  <2>2. m - x <= m - y BY <1>2, <1>3, <2>1
  <2>3. x \in Int /\ y \in Int BY <1>3
  <2> QED BY <2>2, <2>3
<1>5. \E z \in S : \A y \in S : z >= y BY <1>3, <1>4
<1> QED BY <1>5, Zenon DEF P!Max

\* List W is L without index i, and with page v at its end.
Requeued(L, i, v, W) ==
  /\ Len(W) = Len(L) /\ W[Len(L)] = v
  /\ \A k \in 1..Len(L) - 1 : W[k] = L[IF k < i THEN k ELSE k + 1]

\* That is what the code's remove and append make of L.
LEMMA RequeuedIs ==
  ASSUME NEW S, NEW L \in Seq(S), NEW i \in 1..Len(L), NEW v \in S
  PROVE  /\ Append(P!RemoveAt(L, i), v) \in Seq(S)
         /\ Requeued(L, i, v, Append(P!RemoveAt(L, i), v))
<1> DEFINE R == P!RemoveAt(L, i)
<1>1. R = F!RemoveAt(L, i) BY DEF P!RemoveAt, F!RemoveAt
<1>2. /\ R \in Seq(S) /\ Len(R) = Len(L) - 1
      /\ \A k \in 1..Len(L) - 1 : R[k] = L[IF k < i THEN k ELSE k + 1]
  BY <1>1, RemoveAtIs
<1> HIDE DEF R
<1>3. Append(R, v) \in Seq(S) /\ Len(Append(R, v)) = Len(R) + 1 /\ Append(R, v)[Len(R) + 1] = v
      /\ \A k \in 1..Len(R) : Append(R, v)[k] = R[k]
  BY <1>2
<1>4. Len(L) \in Nat OBVIOUS
<1> QED BY <1>2, <1>3, <1>4 DEF Requeued, R

\* Its pages are those of L but the one taken out, and v.
LEMMA RequeuedPages ==
  ASSUME NEW S, NEW L \in Seq(S), NEW i \in 1..Len(L), NEW v, NEW W, Requeued(L, i, v, W),
         Distinct(L), v \in InList(L) => v = L[i]
  PROVE  Distinct(W) /\ InList(W) = (InList(L) \ {L[i]}) \cup {v}
<1> DEFINE from(k) == IF k < i THEN k ELSE k + 1
<1>0. Len(L) \in Nat /\ Len(W) = Len(L) /\ W[Len(L)] = v BY DEF Requeued
<1>1. \A k \in 1..Len(L) - 1 : W[k] = L[from(k)] /\ from(k) \in 1..Len(L) /\ from(k) # i
  BY <1>0 DEF Requeued
<1>2. \A j, k \in 1..Len(L) - 1 : from(j) = from(k) => j = k BY <1>0
<1>3. \A a \in 1..Len(L) : a # i => \E k \in 1..Len(L) - 1 : from(k) = a
  <2> SUFFICES ASSUME NEW a \in 1..Len(L), a # i PROVE \E k \in 1..Len(L) - 1 : from(k) = a OBVIOUS
  <2>1. CASE a < i
    <3>1. a \in 1..Len(L) - 1 /\ from(a) = a BY <1>0, <2>1
    <3> QED BY <3>1
  <2>2. CASE ~(a < i)
    <3>1. a - 1 \in 1..Len(L) - 1 /\ from(a - 1) = a BY <1>0, <2>2
    <3> QED BY <3>1
  <2> QED BY <2>1, <2>2
<1> HIDE DEF from
<1>4. \A k \in 1..Len(L) - 1 : L[from(k)] # v /\ L[from(k)] # L[i]
  <2> SUFFICES ASSUME NEW k \in 1..Len(L) - 1 PROVE L[from(k)] # v /\ L[from(k)] # L[i] OBVIOUS
  <2>1. from(k) \in 1..Len(L) /\ from(k) # i BY <1>1
  <2>2. L[from(k)] # L[i] BY <2>1 DEF Distinct
  <2> QED BY <2>1, <2>2 DEF InList
<1>5. \A k \in 1..Len(L) : k \in 1..Len(L) - 1 \/ k = Len(L) BY <1>0
<1>6. Distinct(W)
  <2> SUFFICES ASSUME NEW j \in 1..Len(L), NEW k \in 1..Len(L), W[j] = W[k] PROVE j = k
    BY <1>0 DEF Distinct
  <2>1. CASE j \in 1..Len(L) - 1 /\ k \in 1..Len(L) - 1
    <3>1. from(j) = from(k) BY <1>1, <2>1 DEF Distinct
    <3> QED BY <1>2, <2>1, <3>1
  <2>2. CASE j = Len(L) \/ k = Len(L) BY <1>0, <1>1, <1>4, <1>5, <2>2
  <2> QED BY <1>5, <2>1, <2>2
<1>7. InList(W) = (InList(L) \ {L[i]}) \cup {v}
  <2>1. ASSUME NEW k \in 1..Len(L) PROVE W[k] \in (InList(L) \ {L[i]}) \cup {v}
    BY <1>0, <1>1, <1>4, <1>5 DEF InList
  <2>2. ASSUME NEW a \in 1..Len(L), L[a] # L[i] PROVE L[a] \in InList(W)
    <3>1. PICK k \in 1..Len(L) - 1 : from(k) = a BY <1>3, <2>2
    <3>2. W[k] = L[a] /\ k \in 1..Len(W) BY <1>0, <1>1, <3>1
    <3> QED BY <3>2 DEF InList
  <2>3. v \in InList(W)
    <3>1. Len(L) \in 1..Len(W) BY <1>0
    <3> QED BY <1>0, <3>1 DEF InList
  <2> QED BY <1>0, <2>1, <2>2, <2>3 DEF InList
<1> QED BY <1>6, <1>7

Top == IF run.clockbits > 1 THEN run.clockbits ELSE 1
Counting(bits) == DOMAIN bits \subseteq P!Pages /\ \A q \in DOMAIN bits : bits[q] \in 0..Top

\* What the cache keeps: the pages once each, as many as counted and no more than
\* fit, the last page served among them; CLOCK counts references of its pages only,
\* and its scan is for a page not among them.
CacheInv ==
  /\ run \in Runs /\ addrList \in Seq(Nat) /\ addrIndex \in 0..Len(addrList) /\ scanning \in BOOLEAN
  /\ cache \in Seq(P!Pages) /\ Distinct(cache) /\ count = Len(cache) /\ count <= run.cachesize
  /\ hits \in Nat /\ miss \in Nat /\ hits + miss = addrIndex + (IF scanning THEN 1 ELSE 0)
  /\ addrIndex > 0 => addrList[addrIndex] \in InList(cache)
  /\ Counting(ref) /\ (run.policy = "CLOCK" => DOMAIN ref = InList(cache))
  /\ scanning => addrIndex < Len(addrList) /\ run.policy = "CLOCK" /\ P!n \notin InList(cache)

\* The options are as the assumption says, and the next page is one of the list.
LEMMA RunIs ==
  ASSUME run \in Runs
  PROVE  /\ run.policy \in {"FIFO", "LRU", "MRU", "RAND", "CLOCK", "OPT", "UNOPT"}
         /\ run.cachesize \in Nat \ {0} /\ run.clockbits \in Nat /\ Top \in Nat \ {0}
<1>1. run \in [policy : {"FIFO", "LRU", "MRU", "RAND", "CLOCK", "OPT", "UNOPT"},
               cachesize : Nat \ {0}, clockbits : Nat]
  BY ReplacementAssumption
<1>2. /\ run.policy \in {"FIFO", "LRU", "MRU", "RAND", "CLOCK", "OPT", "UNOPT"}
      /\ run.cachesize \in Nat \ {0} /\ run.clockbits \in Nat
  BY <1>1, Zenon
<1> QED BY <1>2 DEF Top

\* While references are left, the next page is one of the list.
LEMMA NextPage ==
  ASSUME addrList \in Seq(Nat), addrIndex \in 0..Len(addrList), addrIndex < Len(addrList)
  PROVE  P!n \in P!Pages /\ P!n = addrList[addrIndex + 1] /\ addrIndex + 1 \in 1..Len(addrList)
<1>1. addrIndex + 1 \in 1..Len(addrList) OBVIOUS
<1>2. addrIndex + 1 \in DOMAIN addrList BY <1>1
<1> QED BY <1>1, <1>2 DEF P!n, P!Pages, P!ToSet

\* Referencing the next page counts it, and leaves the counts in their bounds.
LEMMA ReferencedIs ==
  ASSUME run \in Runs, NEW bits, Counting(bits), P!n \in P!Pages
  PROVE  Counting(P!Referenced(bits)) /\ DOMAIN P!Referenced(bits) = DOMAIN bits \cup {P!n}
<1> DEFINE next == P!n
           one == P!Min({bits[next] + 1, run.clockbits})
<1>1. P!Referenced(bits) = [q \in DOMAIN bits \cup {next} |->
                              IF q # next THEN bits[q] ELSE IF next \notin DOMAIN bits THEN 1 ELSE one]
  BY DEF P!Referenced
<1>2. Top \in Nat \ {0} /\ run.clockbits \in Nat /\ run.clockbits <= Top BY RunIs DEF Top
<1>3. next \in DOMAIN bits => one \in 0..Top
  <2> SUFFICES ASSUME next \in DOMAIN bits PROVE one \in 0..Top OBVIOUS
  <2> DEFINE S == {bits[next] + 1, run.clockbits}
  <2>1. bits[next] \in 0..Top BY DEF Counting
  <2>2. bits[next] + 1 \in Nat BY <1>2, <2>1
  <2>3. S \in SUBSET Nat /\ S # {} /\ run.clockbits \in S BY <1>2, <2>2
  <2> HIDE DEF S
  <2>4. P!Min(S) \in S /\ \A y \in S : P!Min(S) <= y BY <2>3, LeastIs
  <2>5. P!Min(S) \in Nat /\ P!Min(S) <= run.clockbits BY <2>3, <2>4
  <2> QED BY <1>2, <2>5 DEF S
<1> HIDE DEF next, one
<1>4. \A q \in DOMAIN bits : bits[q] \in 0..Top /\ q \in P!Pages BY DEF Counting
<1>5. next \in P!Pages BY DEF next
<1> QED BY <1>1, <1>2, <1>3, <1>4, <1>5 DEF Counting, next

\* Nothing is cached at first.
LEMMA CacheInit == P!Init => CacheInv
<1> SUFFICES ASSUME P!Init PROVE CacheInv OBVIOUS
<1>1. run \in Runs /\ addrList \in Seq(Nat) BY ReplacementAssumption DEF P!Init
<1>2. /\ addrIndex = 0 /\ cache = <<>> /\ count = 0 /\ hits = 0 /\ miss = 0
      /\ ref = [q \in {} |-> 0] /\ scanning = FALSE
  BY DEF P!Init
<1>3. run.cachesize \in Nat BY <1>1, RunIs
<1>4. Counting(ref) /\ DOMAIN ref = {} BY <1>2 DEF Counting
<1>5. InList(cache) = {} /\ Distinct(cache) /\ Len(cache) = 0 BY <1>2 DEF InList, Distinct
<1>6. cache \in Seq(P!Pages) BY <1>2
<1>7. addrIndex \in 0..Len(addrList) /\ ~(addrIndex > 0) BY <1>1, <1>2
<1>8. count <= run.cachesize /\ count = Len(cache) BY <1>2, <1>3, <1>5
<1>9. hits \in Nat /\ miss \in Nat /\ hits + miss = addrIndex + (IF scanning THEN 1 ELSE 0) BY <1>2
<1>10. scanning \in BOOLEAN /\ ~scanning BY <1>2
<1> QED BY <1>1, <1>4, <1>5, <1>6, <1>7, <1>8, <1>9, <1>10 DEF CacheInv

\* Each victim a policy may choose is in the list.
LEMMA VictimsAre ==
  ASSUME CacheInv, count = run.cachesize, run.policy # "CLOCK"
  PROVE  P!VictimIndexes \subseteq 1..count
<1>1. count \in Nat /\ 1 <= count /\ Len(addrList) \in Nat BY RunIs DEF CacheInv
<1> DEFINE w(k) == P!whenReferenced(cache[k])
           W == {w(k) : k \in 1..count}
<1>2. \A k \in 1..count : w(k) \in 0..Len(addrList)
  <2> SUFFICES ASSUME NEW k \in 1..count PROVE w(k) \in 0..Len(addrList) OBVIOUS
  <2> DEFINE S == {Len(addrList)} \cup
                  {i - 1 : i \in {j \in addrIndex + 2 .. Len(addrList) : addrList[j] = cache[k]}}
  <2>1. addrIndex \in Nat BY DEF CacheInv
  <2>2. S \in SUBSET Nat /\ Len(addrList) \in S
    <3>1. \A i \in addrIndex + 2 .. Len(addrList) : i - 1 \in Nat BY <1>1, <2>1
    <3> QED BY <1>1, <3>1
  <2>3. w(k) = P!Min(S) BY DEF P!whenReferenced
  <2> HIDE DEF S, w
  <2>4. P!Min(S) \in S /\ P!Min(S) <= Len(addrList) BY <2>2, LeastIs
  <2>5. P!Min(S) \in Nat BY <2>2, <2>4
  <2> QED BY <1>1, <2>3, <2>4, <2>5
<1> HIDE DEF w
<1>3. W \in SUBSET (0..Len(addrList)) /\ W \in SUBSET Nat /\ W # {} BY <1>1, <1>2
<1>4. \E i \in 1..count : \A k \in 1..count : w(k) <= w(i)
  <2> HIDE DEF W
  <2>1. P!Max(W) \in W /\ \A y \in W : P!Max(W) >= y BY <1>1, <1>3, GreatestIs
  <2>2. PICK i \in 1..count : P!Max(W) = w(i) BY <2>1 DEF W
  <2>3. \A k \in 1..count : w(i) >= w(k) BY <2>1, <2>2 DEF W
  <2>4. \A k \in 1..count : w(k) \in Int BY <1>1, <1>2
  <2> QED BY <2>3, <2>4
<1>5. \E i \in 1..count : \A k \in 1..count : w(k) >= w(i)
  <2> HIDE DEF W
  <2>1. P!Min(W) \in W /\ \A y \in W : P!Min(W) <= y BY <1>3, LeastIs
  <2>2. PICK i \in 1..count : P!Min(W) = w(i) BY <2>1 DEF W
  <2>3. \A k \in 1..count : w(i) <= w(k) BY <2>1, <2>2 DEF W
  <2>4. \A k \in 1..count : w(k) \in Int BY <1>1, <1>2
  <2> QED BY <2>3, <2>4
<1>6. P!OptIndex \in 1..count
  <2> DEFINE S == {i \in 1..count : \A k \in 1..count : w(k) <= w(i)}
  <2>1. S \in SUBSET (0..count) /\ S # {} BY <1>1, <1>4
  <2>2. P!OptIndex = P!Max(S) BY DEF P!OptIndex, w
  <2>3. S \subseteq 1..count OBVIOUS
  <2> HIDE DEF S
  <2>4. P!Max(S) \in S BY <1>1, <2>1, GreatestIs
  <2> QED BY <2>2, <2>3, <2>4
<1>7. P!UnoptIndex \in 1..count
  <2> DEFINE S == {i \in 1..count : \A k \in 1..count : w(k) >= w(i)}
  <2>1. S \in SUBSET Nat /\ S # {} BY <1>1, <1>5
  <2>2. P!UnoptIndex = P!Min(S) BY DEF P!UnoptIndex, w
  <2>3. S \subseteq 1..count OBVIOUS
  <2> HIDE DEF S
  <2>4. P!Min(S) \in S BY <2>1, LeastIs
  <2> QED BY <2>2, <2>3, <2>4
<1>8. 1 \in 1..count /\ count \in 1..count BY <1>1
<1>9. run.policy \in {"FIFO", "LRU", "MRU", "RAND", "OPT", "UNOPT"} BY RunIs DEF CacheInv
<1> QED BY <1>6, <1>7, <1>8, <1>9 DEF P!VictimIndexes

\* A reference that ends with its page cached, and counted once, keeps CacheInv.
LEMMA ServedKeeps ==
  ASSUME CacheInv, addrIndex < Len(addrList), UNCHANGED <<run, addrList>>,
         addrIndex' = addrIndex + 1, scanning' = FALSE,
         cache' \in Seq(P!Pages), Distinct(cache)', count' = Len(cache'), count' <= run.cachesize,
         P!n \in InList(cache'),
         hits' \in Nat, miss' \in Nat, hits' + miss' = addrIndex + 1,
         NEW bits, Counting(bits), ref' = P!Referenced(bits),
         run.policy = "CLOCK" => DOMAIN bits \cup {P!n} = InList(cache')
  PROVE  CacheInv'
<1>1. addrList \in Seq(Nat) /\ addrIndex \in 0..Len(addrList) /\ run \in Runs BY DEF CacheInv
<1>2. P!n \in P!Pages /\ P!n = addrList[addrIndex + 1] /\ addrIndex + 1 \in 1..Len(addrList)
  BY <1>1, NextPage
<1>3. Counting(ref') /\ DOMAIN ref' = DOMAIN bits \cup {P!n} BY <1>1, <1>2, ReferencedIs
<1>4. Counting(ref)' BY <1>3 DEF Counting, Top, P!Pages
<1>5. (cache \in Seq(P!Pages))' BY DEF P!Pages
<1>6. (addrIndex > 0 => addrList[addrIndex] \in InList(cache))' BY <1>2
<1>7. (addrIndex \in 0..Len(addrList))' BY <1>1, <1>2
<1>8. (hits + miss = addrIndex + (IF scanning THEN 1 ELSE 0))'
  <2>1. addrIndex' = addrIndex' + 0 BY <1>7
  <2>2. hits' + miss' = addrIndex' OBVIOUS
  <2> QED BY <2>1, <2>2
<1>9. (count = Len(cache) /\ count <= run.cachesize)' OBVIOUS
<1>10. (run.policy = "CLOCK" => DOMAIN ref = InList(cache))' BY <1>3
<1>11. (run \in Runs /\ addrList \in Seq(Nat) /\ scanning \in BOOLEAN /\ hits \in Nat /\ miss \in Nat
        /\ Distinct(cache))'
  BY <1>1
<1>12. (~scanning)' OBVIOUS
<1> QED BY <1>4, <1>5, <1>6, <1>7, <1>8, <1>9, <1>10, <1>11, <1>12 DEF CacheInv

\* Every reference, and every draw of CLOCK's, keeps CacheInv.
LEMMA CacheStep == CacheInv /\ P!Next => CacheInv'
<1> SUFFICES ASSUME CacheInv, P!Next PROVE CacheInv' OBVIOUS
<1>1. /\ run \in Runs /\ addrList \in Seq(Nat) /\ addrIndex \in 0..Len(addrList)
      /\ cache \in Seq(P!Pages) /\ Distinct(cache) /\ count = Len(cache) /\ count <= run.cachesize
      /\ hits \in Nat /\ miss \in Nat /\ hits + miss = addrIndex + (IF scanning THEN 1 ELSE 0)
      /\ Counting(ref) /\ (run.policy = "CLOCK" => DOMAIN ref = InList(cache))
      /\ Len(cache) \in Nat /\ run.cachesize \in Nat
  BY RunIs DEF CacheInv
<1>2. addrIndex < Len(addrList) => P!n \in P!Pages BY <1>1, NextPage
\* A page taken out of the list, and the next one put at its end.
<1>3. ASSUME NEW i \in 1..Len(cache), cache' = Append(P!RemoveAt(cache, i), P!n),
             P!n \in InList(cache) => P!n = cache[i], addrIndex < Len(addrList)
      PROVE  /\ cache' \in Seq(P!Pages) /\ Distinct(cache') /\ Len(cache') = Len(cache)
             /\ InList(cache') = (InList(cache) \ {cache[i]}) \cup {P!n}
  <2>1. cache' \in Seq(P!Pages) /\ Requeued(cache, i, P!n, cache') BY <1>1, <1>2, <1>3, RequeuedIs
  <2>2. Distinct(cache') /\ InList(cache') = (InList(cache) \ {cache[i]}) \cup {P!n}
    BY <1>1, <1>3, <2>1, RequeuedPages
  <2>3. Len(cache') = Len(cache) BY <2>1 DEF Requeued
  <2> QED BY <2>1, <2>2, <2>3
<1>4. CASE P!Hit
  <2>1. /\ ~scanning /\ addrIndex < Len(addrList) /\ hits' = hits + 1 /\ ref' = P!Referenced(ref)
        /\ addrIndex' = addrIndex + 1 /\ UNCHANGED <<run, addrList, count, miss, scanning>>
    BY <1>4 DEF P!Hit
  <2>2. PICK i \in DOMAIN cache :
          /\ cache[i] = P!n
          /\ cache' = IF run.policy \in {"LRU", "MRU"} THEN Append(P!RemoveAt(cache, i), P!n) ELSE cache
    BY <1>4 DEF P!Hit, P!Renewed
  <2>3. i \in 1..Len(cache) BY <1>1
  <2>4. P!n \in InList(cache) BY <2>2, <2>3 DEF InList
  <2>5. cache' \in Seq(P!Pages) /\ Distinct(cache') /\ Len(cache') = Len(cache) /\ InList(cache') = InList(cache)
    <3>1. CASE run.policy \in {"LRU", "MRU"} BY <1>3, <2>1, <2>2, <2>3, <2>4, <3>1
    <3>2. CASE run.policy \notin {"LRU", "MRU"} BY <1>1, <2>2, <3>2
    <3> QED BY <3>1, <3>2
  <2>6. run.policy = "CLOCK" => DOMAIN ref \cup {P!n} = InList(cache') BY <1>1, <2>4, <2>5
  <2>7. /\ count' = Len(cache') /\ count' <= run.cachesize /\ P!n \in InList(cache') /\ scanning' = FALSE
        /\ Distinct(cache)'
    BY <1>1, <2>1, <2>4, <2>5
  <2>8. hits' \in Nat /\ miss' \in Nat /\ hits' + miss' = addrIndex + 1 BY <1>1, <2>1
  <2> QED BY <1>1, <2>1, <2>5, <2>6, <2>7, <2>8, ServedKeeps
<1>5. CASE P!Fill
  <2>1. /\ ~scanning /\ addrIndex < Len(addrList) /\ miss' = miss + 1 /\ ref' = P!Referenced(ref)
        /\ addrIndex' = addrIndex + 1 /\ UNCHANGED <<run, addrList, hits, scanning>>
        /\ count' = count + 1 /\ count # run.cachesize /\ cache' = Append(cache, P!n)
        /\ P!n \notin P!ToSet(cache)
    BY <1>5 DEF P!Fill
  <2>2. P!n \notin InList(cache) BY <1>1, <2>1, PagesOf
  <2>3. /\ cache' \in Seq(P!Pages) /\ Len(cache') = Len(cache) + 1 /\ cache'[Len(cache) + 1] = P!n
        /\ \A k \in 1..Len(cache) : cache'[k] = cache[k]
    BY <1>1, <1>2, <2>1
  <2>4. \A k \in 1..Len(cache') : k \in 1..Len(cache) \/ k = Len(cache) + 1 BY <1>1, <2>3
  <2>5. Distinct(cache')
    <3>1. \A k \in 1..Len(cache) : cache[k] # P!n BY <2>2 DEF InList
    <3> QED BY <1>1, <2>3, <2>4, <3>1 DEF Distinct
  <2>6. InList(cache') = InList(cache) \cup {P!n}
    <3>1. Len(cache) + 1 \in 1..Len(cache') /\ \A k \in 1..Len(cache) : k \in 1..Len(cache') BY <1>1, <2>3
    <3> QED BY <2>3, <2>4, <3>1 DEF InList
  <2>7. run.policy = "CLOCK" => DOMAIN ref \cup {P!n} = InList(cache') BY <1>1, <2>6
  <2>8. /\ count' = Len(cache') /\ count' <= run.cachesize /\ P!n \in InList(cache') /\ scanning' = FALSE
        /\ Distinct(cache)'
    BY <1>1, <2>1, <2>3, <2>5, <2>6
  <2>9. hits' \in Nat /\ miss' \in Nat /\ hits' + miss' = addrIndex + 1 BY <1>1, <2>1
  <2> QED BY <1>1, <2>1, <2>3, <2>7, <2>8, <2>9, ServedKeeps
<1>6. CASE P!Replace
  <2>1. /\ ~scanning /\ addrIndex < Len(addrList) /\ miss' = miss + 1 /\ ref' = P!Referenced(ref)
        /\ addrIndex' = addrIndex + 1 /\ UNCHANGED <<run, addrList, count, hits, scanning>>
        /\ count = run.cachesize /\ run.policy # "CLOCK" /\ P!n \notin P!ToSet(cache)
    BY <1>6 DEF P!Replace
  <2>2. PICK i \in P!VictimIndexes : cache' = Append(P!RemoveAt(cache, i), P!n) BY <1>6 DEF P!Replace, P!Renewed
  <2>3. P!n \notin InList(cache) BY <1>1, <2>1, PagesOf
  <2>4. i \in 1..Len(cache) BY <1>1, <2>1, VictimsAre
  <2>5. /\ cache' \in Seq(P!Pages) /\ Distinct(cache') /\ Len(cache') = Len(cache) /\ P!n \in InList(cache')
    BY <1>3, <2>1, <2>2, <2>3, <2>4
  <2>6. count' = Len(cache') /\ count' <= run.cachesize BY <1>1, <2>1, <2>5
  <2>8. scanning' = FALSE /\ Distinct(cache)' BY <2>1, <2>5
  <2>7. hits' \in Nat /\ miss' \in Nat /\ hits' + miss' = addrIndex + 1 BY <1>1, <2>1
  <2> QED BY <1>1, <2>1, <2>5, <2>6, <2>7, <2>8, ServedKeeps
<1>7. CASE P!StartScan
  <2>1. /\ ~scanning /\ addrIndex < Len(addrList) /\ miss' = miss + 1 /\ scanning' = TRUE
        /\ UNCHANGED <<run, addrList, addrIndex, cache, count, ref, hits>>
        /\ run.policy = "CLOCK" /\ P!n \notin P!ToSet(cache)
    BY <1>7 DEF P!StartScan
  <2>2. P!n \notin InList(cache) BY <1>1, <2>1, PagesOf
  <2>3. hits' \in Nat /\ miss' \in Nat /\ hits' + miss' = addrIndex' + 1 BY <1>1, <2>1
  <2>4. addrIndex > 0 => addrList[addrIndex] \in InList(cache) BY DEF CacheInv
  <2> QED BY <1>1, <2>1, <2>2, <2>3, <2>4 DEF CacheInv, Counting, Top, P!Pages, P!n
<1>8. ASSUME NEW i \in 1..count, P!Scan(i) PROVE CacheInv'
  <2> DEFINE page == cache[i]
  <2>1. /\ scanning /\ addrIndex < Len(addrList) /\ run.policy = "CLOCK" /\ P!n \notin InList(cache)
        /\ UNCHANGED <<run, addrList, count, hits, miss>>
    BY <1>8 DEF P!Scan, CacheInv
  <2>2. i \in 1..Len(cache) /\ page \in InList(cache) /\ page \in DOMAIN ref BY <1>1, <2>1 DEF InList
  <2>3. ref[page] \in 0..Top /\ Top \in Nat BY <1>1, <2>2, RunIs DEF Counting
  <2>4. CASE ref[page] >= 1
    <3>1. ref' = [ref EXCEPT ![page] = @ - 1] /\ UNCHANGED <<cache, addrIndex, scanning>>
      BY <1>8, <2>4 DEF P!Scan
    <3>2. ref[page] - 1 \in 0..Top BY <2>3, <2>4
    <3>3. DOMAIN ref' = DOMAIN ref /\ \A q \in DOMAIN ref : ref'[q] = IF q = page THEN ref[page] - 1 ELSE ref[q]
      BY <3>1
    <3>4. Counting(ref') BY <1>1, <3>2, <3>3 DEF Counting
    <3>5. addrIndex > 0 => addrList[addrIndex] \in InList(cache) BY DEF CacheInv
    <3> QED BY <1>1, <2>1, <3>1, <3>3, <3>4, <3>5 DEF CacheInv, Counting, Top, P!Pages, P!n
  <2>5. CASE ~(ref[page] >= 1)
    <3> DEFINE bits == [q \in DOMAIN ref \ {page} |-> ref[q]]
    <3>1. /\ cache' = Append(P!RemoveAt(cache, i), P!n) /\ ref' = P!Referenced(bits)
          /\ addrIndex' = addrIndex + 1 /\ scanning' = FALSE
      BY <1>8, <2>5 DEF P!Scan, P!Renewed
    <3>2. Counting(bits) /\ DOMAIN bits = DOMAIN ref \ {page} BY <1>1 DEF Counting
    <3>3. /\ cache' \in Seq(P!Pages) /\ Distinct(cache') /\ Len(cache') = Len(cache)
          /\ InList(cache') = (InList(cache) \ {page}) \cup {P!n}
      BY <1>3, <2>1, <2>2, <3>1
    <3> HIDE DEF bits, page
    <3>4. DOMAIN bits \cup {P!n} = InList(cache') /\ P!n \in InList(cache') BY <1>1, <2>1, <3>2, <3>3
    <3>5. count' = Len(cache') /\ count' <= run.cachesize /\ Distinct(cache)' BY <1>1, <2>1, <3>3
    <3>6. hits' \in Nat /\ miss' \in Nat /\ hits' + miss' = addrIndex + 1 BY <1>1, <2>1
    <3> QED BY <1>1, <2>1, <3>1, <3>2, <3>3, <3>4, <3>5, <3>6, ServedKeeps
  <2> QED BY <2>4, <2>5
<1> QED BY <1>4, <1>5, <1>6, <1>7, <1>8 DEF P!Next

\* Page q is among the first m references of list X; the last of them that is to q.
Uses(X, m, q) == \E i \in 1..m : X[i] = q
LastOf(X, m, q) == P!Max({i \in 1..m : X[i] = q})

\* Cache C is in the order of the policies that read it, after the first m
\* references of list X: its pages have been referenced, under LRU and MRU it is by
\* last use, and under LRU no page outside it has been used since one of its pages.
InOrder(X, m, C, policy) ==
  /\ \A k \in 1..Len(C) : Uses(X, m, C[k])
  /\ policy \in {"LRU", "MRU"} =>
       \A j, k \in 1..Len(C) : j < k => LastOf(X, m, C[j]) < LastOf(X, m, C[k])
  /\ policy = "LRU" =>
       \A q : \A k \in 1..Len(C) :
         q \notin InList(C) /\ Uses(X, m, q) => LastOf(X, m, q) < LastOf(X, m, C[k])

\* The last use of a page that was used is one of the references served.
LEMMA LastOfIs ==
  \A X : \A m \in Nat : \A q : Uses(X, m, q) => LastOf(X, m, q) \in 1..m
<1> SUFFICES ASSUME NEW X, NEW m \in Nat, NEW q, Uses(X, m, q) PROVE LastOf(X, m, q) \in 1..m OBVIOUS
<1> DEFINE S == {i \in 1..m : X[i] = q}
<1>1. S \in SUBSET (0..m) /\ S # {} /\ S \subseteq 1..m BY DEF Uses
<1>2. LastOf(X, m, q) = P!Max(S) BY DEF LastOf
<1> HIDE DEF S
<1>3. P!Max(S) \in S BY <1>1, GreatestIs
<1> QED BY <1>1, <1>2, <1>3

\* Serving a reference is the last use of its page, and no use of another.
LEMMA LastOfNext ==
  ASSUME NEW X, NEW m \in Nat
  PROVE  /\ Uses(X, m + 1, X[m + 1]) /\ LastOf(X, m + 1, X[m + 1]) = m + 1
         /\ \A q : q # X[m + 1] => (Uses(X, m + 1, q) <=> Uses(X, m, q))
         /\ \A q : q # X[m + 1] => LastOf(X, m + 1, q) = LastOf(X, m, q)
<1>1. \A i \in 1..m + 1 : i \in 1..m \/ i = m + 1 OBVIOUS
<1>2. m + 1 \in 1..m + 1 /\ \A i \in 1..m : i \in 1..m + 1 OBVIOUS
<1>3. Uses(X, m + 1, X[m + 1]) BY <1>2 DEF Uses
<1>4. LastOf(X, m + 1, X[m + 1]) = m + 1
  <2> DEFINE S == {i \in 1..m + 1 : X[i] = X[m + 1]}
  <2>1. S \in SUBSET (0..m + 1) /\ m + 1 \in S BY <1>2
  <2>2. LastOf(X, m + 1, X[m + 1]) = P!Max(S) BY DEF LastOf
  <2>3. m + 1 \in Nat OBVIOUS
  <2> HIDE DEF S
  <2>4. P!Max(S) \in S /\ P!Max(S) >= m + 1 BY <2>1, <2>3, GreatestIs
  <2>5. P!Max(S) \in 0..m + 1 BY <2>1, <2>4
  <2> QED BY <2>2, <2>4, <2>5
<1>5. ASSUME NEW q, q # X[m + 1]
      PROVE  (Uses(X, m + 1, q) <=> Uses(X, m, q)) /\ LastOf(X, m + 1, q) = LastOf(X, m, q)
  <2>1. {i \in 1..m + 1 : X[i] = q} = {i \in 1..m : X[i] = q} BY <1>1, <1>2, <1>5
  <2>2. LastOf(X, m + 1, q) = LastOf(X, m, q) BY <2>1 DEF LastOf
  <2>3. Uses(X, m + 1, q) <=> Uses(X, m, q) BY <1>1, <1>2, <1>5 DEF Uses
  <2> QED BY <2>2, <2>3
<1> QED BY <1>3, <1>4, <1>5

\* List W holds pages of C in their order, and at its end the page v now served;
\* under LRU the pages it leaves out of C come before those it keeps.
Extends(C, W, v, policy) ==
  /\ Len(W) \in Nat \ {0} /\ W[Len(W)] = v
  /\ \A k \in 1..Len(W) - 1 : W[k] # v /\ \E a \in 1..Len(C) : W[k] = C[a]
  /\ \A j, k \in 1..Len(W) - 1 : j < k => \E a, b \in 1..Len(C) : a < b /\ W[j] = C[a] /\ W[k] = C[b]
  /\ policy = "LRU" =>
       \A a \in 1..Len(C) : C[a] \notin InList(W) =>
         \A k \in 1..Len(W) - 1 : \E b \in 1..Len(C) : a < b /\ W[k] = C[b]

\* Such a list is in order when C is.
LEMMA OrderExtended ==
  ASSUME NEW X, NEW m \in Nat, NEW C, NEW W, NEW policy,
         InOrder(X, m, C, policy), Extends(C, W, X[m + 1], policy)
  PROVE  InOrder(X, m + 1, W, policy)
<1> DEFINE v == X[m + 1]
           used0(q) == Uses(X, m, q)
           used1(q) == Uses(X, m + 1, q)
           last0(q) == LastOf(X, m, q)
           last1(q) == LastOf(X, m + 1, q)
<1>1. used1(v) /\ last1(v) = m + 1
      /\ \A q : q # v => (used1(q) <=> used0(q)) /\ last1(q) = last0(q)
  BY LastOfNext
<1>2. \A q : used0(q) => last0(q) \in 1..m BY LastOfIs
<1>3. /\ Len(W) \in Nat \ {0} /\ W[Len(W)] = v
      /\ \A k \in 1..Len(W) - 1 : W[k] # v /\ \E a \in 1..Len(C) : W[k] = C[a]
      /\ \A j, k \in 1..Len(W) - 1 : j < k => \E a, b \in 1..Len(C) : a < b /\ W[j] = C[a] /\ W[k] = C[b]
  BY DEF Extends
<1>4. \A k \in 1..Len(W) : k \in 1..Len(W) - 1 \/ k = Len(W) BY <1>3
<1>5. \A k \in 1..Len(C) : used0(C[k]) BY DEF InOrder
<1> HIDE DEF v, used0, used1, last0, last1
<1>6. \A k \in 1..Len(W) - 1 : used0(W[k]) /\ used1(W[k]) /\ last1(W[k]) = last0(W[k]) /\ last0(W[k]) \in 1..m
  BY <1>1, <1>2, <1>3, <1>5
<1>7. \A k \in 1..Len(W) : used1(W[k]) BY <1>1, <1>3, <1>4, <1>6
<1>8. ASSUME policy \in {"LRU", "MRU"}, NEW j \in 1..Len(W), NEW k \in 1..Len(W), j < k
      PROVE  last1(W[j]) < last1(W[k])
  <2>0. j \in 1..Len(W) - 1 BY <1>3, <1>8
  <2>1. CASE k = Len(W) BY <1>1, <1>3, <1>6, <2>0, <2>1
  <2>2. CASE k \in 1..Len(W) - 1
    <3>1. PICK a, b \in 1..Len(C) : a < b /\ W[j] = C[a] /\ W[k] = C[b] BY <1>3, <1>8, <2>0, <2>2
    <3>2. last0(C[a]) < last0(C[b]) BY <1>8, <3>1 DEF InOrder, last0
    <3> QED BY <1>6, <2>0, <2>2, <3>1, <3>2
  <2> QED BY <1>4, <2>1, <2>2
<1>9. ASSUME policy = "LRU", NEW q, q \notin InList(W), used1(q), NEW k \in 1..Len(W)
      PROVE  last1(q) < last1(W[k])
  <2>1. q # v
    <3>1. Len(W) \in 1..Len(W) BY <1>3
    <3> QED BY <1>3, <1>9, <3>1 DEF InList
  <2>2. used0(q) /\ last1(q) = last0(q) /\ last0(q) \in 1..m BY <1>1, <1>2, <1>9, <2>1
  <2>3. CASE k = Len(W) BY <1>1, <1>3, <2>2, <2>3
  <2>4. CASE k \in 1..Len(W) - 1
    <3>1. CASE q \notin InList(C)
      <4>1. PICK a \in 1..Len(C) : W[k] = C[a] BY <1>3, <2>4
      <4>2. last0(q) < last0(C[a]) BY <1>9, <2>2, <3>1 DEF InOrder, last0, used0
      <4> QED BY <1>6, <2>2, <2>4, <4>1, <4>2
    <3>2. CASE q \in InList(C)
      <4>1. PICK a \in 1..Len(C) : q = C[a] BY <3>2 DEF InList
      <4>2. PICK b \in 1..Len(C) : a < b /\ W[k] = C[b] BY <1>9, <2>4, <4>1 DEF Extends, v
      <4>3. last0(C[a]) < last0(C[b]) BY <1>9, <4>2 DEF InOrder, last0
      <4> QED BY <1>6, <2>2, <2>4, <4>1, <4>2, <4>3
    <3> QED BY <3>1, <3>2
  <2> QED BY <1>4, <2>3, <2>4
<1> QED BY <1>7, <1>8, <1>9 DEF InOrder, used1, last1

\* The code's remove and append make such a list, of the page itself or, under LRU,
\* of the first one; so does appending a page that is not in the list.
LEMMA RequeuedExtends ==
  ASSUME NEW S, NEW C \in Seq(S), Distinct(C), NEW i \in 1..Len(C), NEW v, NEW W, NEW policy,
         Requeued(C, i, v, W), v \in InList(C) => v = C[i], policy = "LRU" => i = 1 \/ v = C[i]
  PROVE  Extends(C, W, v, policy)
<1> DEFINE from(k) == IF k < i THEN k ELSE k + 1
<1>0. Len(C) \in Nat \ {0} /\ Len(W) = Len(C) /\ W[Len(C)] = v BY DEF Requeued
<1>1. \A k \in 1..Len(C) - 1 : W[k] = C[from(k)] /\ from(k) \in 1..Len(C) /\ from(k) # i
  BY <1>0 DEF Requeued
<1>2. \A j, k \in 1..Len(C) - 1 : j < k => from(j) < from(k) BY <1>0
<1>3. i = 1 => \A k \in 1..Len(C) - 1 : i < from(k) BY <1>0
<1> HIDE DEF from
<1>4. \A k \in 1..Len(C) - 1 : W[k] # v /\ \E a \in 1..Len(C) : W[k] = C[a]
  <2> SUFFICES ASSUME NEW k \in 1..Len(C) - 1 PROVE W[k] # v /\ \E a \in 1..Len(C) : W[k] = C[a] OBVIOUS
  <2>1. W[k] = C[from(k)] /\ from(k) \in 1..Len(C) /\ from(k) # i BY <1>1
  <2>2. C[from(k)] # C[i] BY <2>1 DEF Distinct
  <2> QED BY <2>1, <2>2 DEF InList
<1>5. \A j, k \in 1..Len(C) - 1 : j < k => \E a, b \in 1..Len(C) : a < b /\ W[j] = C[a] /\ W[k] = C[b]
  BY <1>1, <1>2
<1>6. ASSUME policy = "LRU", NEW a \in 1..Len(C), C[a] \notin InList(W), NEW k \in 1..Len(C) - 1
      PROVE  \E b \in 1..Len(C) : a < b /\ W[k] = C[b]
  <2>1. InList(W) = (InList(C) \ {C[i]}) \cup {v} BY RequeuedPages
  <2>2. C[a] = C[i] /\ C[i] # v BY <1>6, <2>1 DEF InList
  <2>3. a = i /\ i = 1 BY <1>6, <2>2 DEF Distinct
  <2> QED BY <1>1, <1>3, <1>6, <2>3
<1> QED BY <1>0, <1>4, <1>5, <1>6 DEF Extends

\* A page added at the end leaves the others in order.
LEMMA AppendedExtends ==
  ASSUME NEW S, NEW C \in Seq(S), NEW v \in S, v \notin InList(C), NEW policy
  PROVE  Extends(C, Append(C, v), v, policy)
<1> DEFINE W == Append(C, v)
<1>1. Len(W) = Len(C) + 1 /\ Len(C) \in Nat /\ W[Len(C) + 1] = v /\ \A k \in 1..Len(C) : W[k] = C[k]
  OBVIOUS
<1> HIDE DEF W
<1>2. Len(W) - 1 = Len(C) /\ Len(W) \in Nat \ {0} /\ W[Len(W)] = v BY <1>1
<1>3. \A k \in 1..Len(C) : C[k] # v /\ C[k] \in InList(W)
  <2>1. \A k \in 1..Len(C) : k \in 1..Len(W) BY <1>1
  <2> QED BY <1>1, <2>1 DEF InList
<1> QED BY <1>1, <1>2, <1>3 DEF Extends, W

\* A policy that does not read the order needs only pages that were referenced.
LEMMA OrderUnread ==
  ASSUME NEW X, NEW m \in Nat, NEW C, NEW W, NEW policy, InOrder(X, m, C, policy),
         policy \notin {"LRU", "MRU"}, InList(W) \subseteq InList(C) \cup {X[m + 1]}
  PROVE  InOrder(X, m + 1, W, policy)
<1>1. ASSUME NEW k \in 1..Len(W) PROVE Uses(X, m + 1, W[k])
  <2>1. W[k] = X[m + 1] \/ \E a \in 1..Len(C) : W[k] = C[a] BY DEF InList
  <2>2. \A a \in 1..Len(C) : Uses(X, m, C[a]) BY DEF InOrder
  <2>3. W[k] = X[m + 1] \/ Uses(X, m, W[k]) BY <2>1, <2>2
  <2> QED BY <2>3, LastOfNext
<1> QED BY <1>1 DEF InOrder

\* The order of the cache under the run's policy.
OrderInv == InOrder(addrList, addrIndex, cache, run.policy)

\* The empty cache is in order; every reference served and every draw leaves it so.
LEMMA OrderInit == P!Init => OrderInv
BY DEF P!Init, OrderInv, InOrder, InList

\* The steps: a hit, a page filled in, a victim replaced, a draw of the scan.
LEMMA OrderStep == CacheInv /\ OrderInv /\ P!Next => OrderInv'
<1> SUFFICES ASSUME CacheInv, OrderInv, P!Next PROVE OrderInv' OBVIOUS
<1>1. /\ run \in Runs /\ addrList \in Seq(Nat) /\ addrIndex \in 0..Len(addrList) /\ addrIndex \in Nat
      /\ cache \in Seq(P!Pages) /\ Distinct(cache) /\ count = Len(cache)
      /\ Len(cache) \in Nat /\ run.cachesize \in Nat \ {0}
  BY RunIs DEF CacheInv
<1>2. addrIndex < Len(addrList) => P!n \in P!Pages /\ P!n = addrList[addrIndex + 1] BY <1>1, NextPage
<1>3. ASSUME UNCHANGED <<run, addrList>>, addrIndex < Len(addrList), addrIndex' = addrIndex + 1,
             Extends(cache, cache', P!n, run.policy)
      PROVE  OrderInv'
  <2>1. InOrder(addrList, addrIndex + 1, cache', run.policy) BY <1>1, <1>2, <1>3, OrderExtended DEF OrderInv
  <2> QED BY <1>3, <2>1 DEF OrderInv
<1>4. CASE P!Hit
  <2>1. addrIndex < Len(addrList) /\ addrIndex' = addrIndex + 1 /\ UNCHANGED <<run, addrList>>
    BY <1>4 DEF P!Hit
  <2>2. PICK i \in DOMAIN cache :
          /\ cache[i] = P!n
          /\ cache' = IF run.policy \in {"LRU", "MRU"} THEN Append(P!RemoveAt(cache, i), P!n) ELSE cache
    BY <1>4 DEF P!Hit, P!Renewed
  <2>3. i \in 1..Len(cache) BY <1>1
  <2>4. CASE run.policy \in {"LRU", "MRU"}
    <3>1. Requeued(cache, i, P!n, cache') BY <1>1, <1>2, <2>1, <2>2, <2>3, <2>4, RequeuedIs
    <3>2. Extends(cache, cache', P!n, run.policy) BY <1>1, <2>2, <2>3, <3>1, RequeuedExtends
    <3> QED BY <1>3, <2>1, <3>2
  <2>5. CASE run.policy \notin {"LRU", "MRU"}
    <3>1. cache' = cache BY <2>2, <2>5
    <3>2. InOrder(addrList, addrIndex + 1, cache, run.policy) BY <1>1, <2>5, OrderUnread DEF OrderInv
    <3> QED BY <2>1, <3>1, <3>2 DEF OrderInv
  <2> QED BY <2>4, <2>5
<1>5. CASE P!Fill
  <2>1. /\ addrIndex < Len(addrList) /\ addrIndex' = addrIndex + 1 /\ UNCHANGED <<run, addrList>>
        /\ cache' = Append(cache, P!n) /\ P!n \notin P!ToSet(cache)
    BY <1>5 DEF P!Fill
  <2>2. P!n \notin InList(cache) BY <1>1, <2>1, PagesOf
  <2>3. Extends(cache, cache', P!n, run.policy) BY <1>1, <1>2, <2>1, <2>2, AppendedExtends
  <2> QED BY <1>3, <2>1, <2>3
<1>6. CASE P!Replace
  <2>1. /\ addrIndex < Len(addrList) /\ addrIndex' = addrIndex + 1 /\ UNCHANGED <<run, addrList>>
        /\ count = run.cachesize /\ run.policy # "CLOCK" /\ P!n \notin P!ToSet(cache)
    BY <1>6 DEF P!Replace
  <2>2. PICK i \in P!VictimIndexes : cache' = Append(P!RemoveAt(cache, i), P!n) BY <1>6 DEF P!Replace, P!Renewed
  <2>3. P!n \notin InList(cache) BY <1>1, <2>1, PagesOf
  <2>4. i \in 1..Len(cache) /\ (run.policy = "LRU" => i = 1)
    <3>1. run.policy = "LRU" => P!VictimIndexes = {1} BY DEF P!VictimIndexes
    <3> QED BY <1>1, <2>1, <2>2, <3>1, VictimsAre
  <2>5. Requeued(cache, i, P!n, cache') BY <1>1, <1>2, <2>1, <2>2, <2>4, RequeuedIs
  <2>6. Extends(cache, cache', P!n, run.policy) BY <1>1, <2>3, <2>4, <2>5, RequeuedExtends
  <2> QED BY <1>3, <2>1, <2>6
<1>7. CASE P!StartScan BY <1>7 DEF P!StartScan, OrderInv
<1>8. ASSUME NEW i \in 1..count, P!Scan(i) PROVE OrderInv'
  <2>1. scanning /\ UNCHANGED <<run, addrList>> BY <1>8 DEF P!Scan
  <2>2. addrIndex < Len(addrList) /\ run.policy = "CLOCK" /\ P!n \notin InList(cache) BY <2>1 DEF CacheInv
  <2>3. CASE UNCHANGED <<cache, addrIndex>> BY <2>1, <2>3 DEF OrderInv
  <2>4. CASE cache' = Append(P!RemoveAt(cache, i), P!n) /\ addrIndex' = addrIndex + 1
    <3>1. Requeued(cache, i, P!n, cache') BY <1>1, <1>2, <2>2, <2>4, RequeuedIs
    <3>2. Extends(cache, cache', P!n, run.policy) BY <1>1, <2>2, <3>1, RequeuedExtends
    <3> QED BY <1>3, <2>1, <2>2, <2>4, <3>2
  <2>5. UNCHANGED <<cache, addrIndex>> \/ (cache' = Append(P!RemoveAt(cache, i), P!n) /\ addrIndex' = addrIndex + 1)
    BY <1>8 DEF P!Scan, P!Renewed
  <2> QED BY <2>3, <2>4, <2>5
<1> QED BY <1>4, <1>5, <1>6, <1>7, <1>8 DEF P!Next

\* The two together are what the cache is said to keep.
LEMMA CacheFollows == CacheInv /\ OrderInv => P!TypeOK /\ P!CacheSound /\ P!OrderKept
<1> SUFFICES ASSUME CacheInv, OrderInv PROVE P!TypeOK /\ P!CacheSound /\ P!OrderKept OBVIOUS
<1> USE DEF CacheInv
<1>1. P!ToSet(cache) = InList(cache) BY PagesOf
<1>2. P!TypeOK
  <2>1. P!Max({1, run.clockbits}) = Top
    <3> DEFINE S == {1, run.clockbits}
    <3>1. Top \in Nat /\ run.clockbits \in Nat BY RunIs
    <3>2. S \in SUBSET (0..Top) /\ Top \in S BY <3>1 DEF Top
    <3> HIDE DEF S
    <3>3. P!Max(S) \in S /\ P!Max(S) >= Top BY <3>1, <3>2, GreatestIs
    <3>4. P!Max(S) \in 0..Top BY <3>2, <3>3
    <3>5. P!Max(S) = Top BY <3>1, <3>3, <3>4
    <3> QED BY <3>5 DEF S
  <2>2. run.policy \in P!Policies BY RunIs DEF P!Policies
  <2>3. count \in 0..run.cachesize BY RunIs
  <2>4. hits + miss \in 0..Len(addrList) OBVIOUS
  <2>5. DOMAIN ref \subseteq P!Pages /\ \A q \in DOMAIN ref : ref[q] \in 0..P!Max({1, run.clockbits})
    BY <2>1 DEF Counting
  <2> QED BY <2>2, <2>3, <2>4, <2>5 DEF P!TypeOK
<1>3. P!CacheSound
  <2>1. P!IsInjective(cache) BY DEF P!IsInjective, Distinct
  <2> QED BY <1>1, <2>1 DEF P!CacheSound
<1>4. P!OrderKept
  <2>1. \A q : P!LastUse(q) = LastOf(addrList, addrIndex, q) BY DEF P!LastUse, LastOf
  <2>2. \A q : (\E i \in 1..addrIndex : addrList[i] = q) <=> Uses(addrList, addrIndex, q) BY DEF Uses
  <2>3. \A q \in InList(cache) : \E k \in 1..Len(cache) : q = cache[k] BY DEF InList
  <2> QED BY <1>1, <2>1, <2>2, <2>3 DEF P!OrderKept, OrderInv, InOrder
<1> QED BY <1>2, <1>3, <1>4

-----------------------------------------------------------------------------
(* Types. *)

\* A byte of the memory is 0, the marker or an entry.
BytesOK(m) == \A a \in DOMAIN m : m[a] \in 0 .. 2 * physPages - 1
TableInv ==
  /\ kind \in {"linear", "multilevel"} /\ (kind = "linear" => usedPagesCount = 0)
  /\ used \subseteq T!Frames /\ pt \in Seq(T!Frames \cup {-1}) /\ Len(pt) <= vpages /\ BytesOK(memory)
  /\ pdbr \in T!Frames \cup {-1} /\ filling \in {"filling", "ready", "AssertionError"}

\* Filling a page with a byte, and setting an entry, write bytes.
LEMMA WritesBytes ==
  /\ \A m : BytesOK(m) => \A f : BytesOK(T!initPageDir(m, f)) /\ BytesOK(T!fillPage(m, f))
  /\ \A m : BytesOK(m) => \A a : \A f \in T!Frames : BytesOK(T!setEntry(m, a, f))
<1>1. ASSUME NEW m, BytesOK(m), NEW f, NEW byte \in 0 .. 2 * physPages - 1
      PROVE  BytesOK(T!Filled(m, f, byte))
  BY <1>1 DEF BytesOK, T!Filled
<1>2. T!Marker \in 0 .. 2 * physPages - 1 /\ 0 \in 0 .. 2 * physPages - 1 BY TableSizes DEF T!Marker
<1>3. ASSUME NEW m, BytesOK(m), NEW a, NEW f \in T!Frames PROVE BytesOK(T!setEntry(m, a, f))
  <2>1. T!VALID + f \in 0 .. 2 * physPages - 1 BY TableSizes DEF T!VALID, T!Frames
  <2> QED BY <1>3, <2>1 DEF BytesOK, T!setEntry
<1> QED BY <1>1, <1>2, <1>3 DEF T!initPageDir, T!fillPage

\* Both programs keep TableInv.
LEMMA TableInit == T!Init => TableInv
<1> SUFFICES ASSUME T!Init PROVE TableInv OBVIOUS
<1>1. /\ kind \in {"linear", "multilevel"} /\ used = {} /\ usedPagesCount = 0 /\ pt = <<>> /\ pdbr = -1
      /\ memory = [a \in 0 .. physPages * pageSize - 1 |-> 0] /\ filling = "filling"
  BY DEF T!Init
<1>2. BytesOK(memory) BY <1>1, TableSizes DEF BytesOK
<1>3. pt \in Seq(T!Frames \cup {-1}) /\ Len(pt) <= vpages BY <1>1, TableSizes
<1> QED BY <1>1, <1>2, <1>3 DEF TableInv

\* Every entry filled and every page or table page given leaves the tables typed.
LEMMA TableStep == TableInv /\ T!Next => TableInv'
<1> SUFFICES ASSUME TableInv, T!Next PROVE TableInv' OBVIOUS
<1> USE DEF TableInv
<1>1. ASSUME NEW m, BytesOK(m), NEW vp, NEW q, NEW pp \in T!Frames, T!MapPage(m, vp, q, pp)
      PROVE  BytesOK(memory') /\ filling' \in {"filling", "ready", "AssertionError"}
  <2>1. BytesOK(T!fillPage(T!setEntry(m, T!Byte(q, T!pteBits(vp)), pp), pp)) BY <1>1, WritesBytes
  <2> QED BY <1>1, <2>1 DEF T!MapPage, T!Fail
<1>2. ASSUME NEW x \in T!Frames \cup {-1}, pt' = Append(pt, x), Len(pt) < vpages
      PROVE  pt' \in Seq(T!Frames \cup {-1}) /\ Len(pt') <= vpages
  BY <1>2, TableSizes
<1>3. ASSUME NEW u \in T!Frames, T!Assign(u) PROVE TableInv'
  BY <1>2, <1>3 DEF T!Assign
<1>4. CASE T!NotValid BY <1>2, <1>4 DEF T!NotValid
<1>5. ASSUME NEW u \in T!Frames, T!NewDirectory(u) PROVE TableInv'
  BY <1>5, WritesBytes DEF T!NewDirectory
<1>6. ASSUME NEW vp, NEW pp \in T!Frames, T!AllocInTable(vp, pp) PROVE TableInv'
  <2>1. /\ kind = "multilevel" /\ used' = used \cup {pp} /\ T!MapPage(memory, vp, T!PDE(vp) - T!VALID, pp)
        /\ UNCHANGED <<kind, pt, pdbr>>
    BY <1>6 DEF T!AllocInTable, T!Loop
  <2> QED BY <1>1, <2>1
<1>7. ASSUME NEW vp, NEW pp \in T!Frames, NEW q \in T!Frames, T!AllocWithTable(vp, pp, q) PROVE TableInv'
  <2>1. kind = "multilevel" /\ used' \subseteq T!Frames /\ UNCHANGED <<kind, pt, pdbr>>
    BY <1>7 DEF T!AllocWithTable, T!Loop
  <2>2. BytesOK(memory') /\ filling' \in {"filling", "ready", "AssertionError"}
    <3> DEFINE m == T!initPageDir(T!setEntry(memory, T!Byte(pdbr, T!pdeBits(vp)), q), q)
    <3>1. BytesOK(m) BY WritesBytes
    <3>2. T!MapPage(m, vp, q, pp) \/ (filling' = "AssertionError" /\ memory' = memory)
      BY <1>7 DEF T!AllocWithTable, T!Fail
    <3> HIDE DEF m
    <3> QED BY <1>1, <3>1, <3>2
  <2> QED BY <2>1, <2>2
<1>8. ASSUME NEW vp, T!OutOfFrames(vp) PROVE TableInv'
  BY <1>8 DEF T!OutOfFrames, T!Loop, T!Fail
<1> QED BY <1>3, <1>4, <1>5, <1>6, <1>7, <1>8 DEF T!Next

\* The programs' types follow from what they keep: no more frames are counted than
\* there are, and the registers that are ready are numbers.
LEMMA TableTypes == TableInv /\ MultiInv => T!TypeOK
<1> SUFFICES ASSUME TableInv, MultiInv PROVE T!TypeOK OBVIOUS
<1>1. usedPagesCount \in 0 .. physPages
  <2>1. CASE kind = "linear" BY <2>1, TableSizes DEF TableInv
  <2>2. CASE kind = "multilevel"
    <3>1. usedPagesCount = Cardinality(used) /\ used \subseteq T!Frames BY <2>2 DEF MultiInv
    <3>2. /\ IsFiniteSet(T!Frames) /\ Cardinality(T!Frames) = physPages BY Finite
    <3>3. IsFiniteSet(used) /\ Cardinality(used) <= Cardinality(T!Frames) BY <3>1, <3>2, FS_Subset
    <3>4. Cardinality(used) \in Nat BY <3>3, FS_CardinalityType
    <3> QED BY <3>1, <3>2, <3>3, <3>4, TableSizes
  <2> QED BY <2>1, <2>2 DEF TableInv
<1> QED BY <1>1 DEF TableInv, T!TypeOK, BytesOK

\* And so are the registers.
LEMMA RegistersTyped == RegistersInv => G!TypeOK
BY DEF RegistersInv, G!TypeOK

-----------------------------------------------------------------------------
(* All programs, each run alone. *)

\* What each of the other programs keeps, whichever of them the run is.
TranslationInv == /\ Of("page tables", LinearInv /\ MultiInv /\ TableInv)
                  /\ Of("registers", RegistersInv)
ReplacementInv == Of("paging-policy.py", CacheInv /\ OrderInv)

\* Each program keeps its invariant, and a step of another one does not touch it.
LEMMA TranslationInvHolds == MCSpec => []TranslationInv
<1>1. MCInit => TranslationInv
  BY LinearInit, MultiInit, TableInit, RegistersInit DEF MCInit, TranslationInv, Of
<1>2. TranslationInv /\ [MCNext]_everything => TranslationInv'
  <2> SUFFICES ASSUME TranslationInv, [MCNext]_everything PROVE TranslationInv' OBVIOUS
  <2>0. package' = package BY DEF MCNext, everything
  <2>1. CASE package = "page tables" /\ T!Next
    BY <2>0, <2>1, LinearStep, MultiStep, TableStep DEF TranslationInv, Of
  <2>2. CASE package = "registers" /\ G!Next
    BY <2>0, <2>2, RegistersStep DEF TranslationInv, Of
  <2>3. CASE package \notin {"page tables", "registers"}
    BY <2>0, <2>3 DEF TranslationInv, Of
  <2>4. CASE UNCHANGED everything
    <3>1. UNCHANGED <<kind, package, numPages, used, usedPagesCount, pt, memory, pdbr, mapped, filling,
                      asize, psize, given, base0, len0, base1, len1, stage>>
      BY <2>4 DEF everything, tvars, gvars
    <3> QED BY <3>1 DEF TranslationInv, Of, LinearInv, MultiInv, TableInv, RegistersInv, Drawn0, TwoApart,
                        G!Placed
  <2> QED BY <2>1, <2>2, <2>3, <2>4 DEF MCNext
<1> QED BY <1>1, <1>2, PTL DEF MCSpec, everything

\* The same for the page cache.
LEMMA ReplacementInvHolds == MCSpec => []ReplacementInv
<1>1. MCInit => ReplacementInv
  BY CacheInit, OrderInit DEF MCInit, ReplacementInv, Of
<1>2. ReplacementInv /\ [MCNext]_everything => ReplacementInv'
  <2> SUFFICES ASSUME ReplacementInv, [MCNext]_everything PROVE ReplacementInv' OBVIOUS
  <2>0. package' = package BY DEF MCNext, everything
  <2>1. CASE package = "paging-policy.py" /\ P!Next
    BY <2>0, <2>1, CacheStep, OrderStep DEF ReplacementInv, Of
  <2>2. CASE package # "paging-policy.py" BY <2>0, <2>2 DEF ReplacementInv, Of
  <2>3. CASE UNCHANGED everything
    <3>1. UNCHANGED <<package, run, addrList, addrIndex, cache, count, ref, hits, miss, scanning>>
      BY <2>3 DEF everything, pvars
    <3> QED BY <3>1 DEF ReplacementInv, Of, CacheInv, OrderInv, Counting, Top, P!Pages, P!n
  <2> QED BY <2>1, <2>2, <2>3 DEF MCNext
<1> QED BY <1>1, <1>2, PTL DEF MCSpec, everything

\* THE THEOREM.  Whatever the sizes of the machine, the page tables and the given
\* registers, and whichever frames, lengths and bases the programs draw, no two
\* valid virtual addresses share a byte, every valid address is inside memory
\* and its bounds, the walk of the two-level table finds exactly the pages given
\* to the process, and its asserts fail only when the frames have run out.
THEOREM TranslationHolds == MCSpec => []TranslationSound
<1>1. TranslationInv => TranslationSound
  BY LinearHolds, WalkHolds, RegistersSound DEF TranslationInv, TranslationSound, Of
<1> QED BY <1>1, TranslationInvHolds, PTL

\* THE THEOREM.  Under every policy, cache size and reference list the page cache
\* is a set within its size, its counters agree with it, the page last served is in
\* it, CLOCK counts references of its pages alone, and the list is by last use where
\* the policy reads that off it; under LRU it holds the pages used most recently.
THEOREM CacheHolds == MCSpec => []CacheKept
<1>1. ReplacementInv => CacheKept BY CacheFollows DEF ReplacementInv, CacheKept, Of
<1> QED BY <1>1, ReplacementInvHolds, PTL

\* THE THEOREM.  The state of every program of this module is well typed, and what
\* it counts is within the bounds of what it counts.
THEOREM MemoryTyped == MCSpec => []MemoryTypeOK
<1>1. HeapsInv /\ TranslationInv /\ ReplacementInv => MemoryTypeOK
  BY TypesFollow, ListTypes, CacheFollows, TableTypes, RegistersTyped
     DEF HeapsInv, TranslationInv, ReplacementInv, MemoryTypeOK, Of
<1> QED BY <1>1, HeapsInvHolds, TranslationInvHolds, ReplacementInvHolds, PTL
=============================================================================
