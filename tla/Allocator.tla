----------------------------- MODULE Allocator ------------------------------
(***************************************************************************)
(* What a memory allocator promises its caller: the regions handed out and *)
(* not yet given back lie inside the heap, are aligned, and never share an *)
(* address.  It may refuse any request.                                    *)
(***************************************************************************)
EXTENDS Integers

CONSTANTS Low, High,   \* the heap is the addresses Low..High - 1
          Alignment    \* of the first address of a region

VARIABLE live          \* the size of each region handed out, by its address

Region(a, n) == a..a + n - 1
Room(regions, a, n) ==
  /\ Region(a, n) \subseteq Low..High - 1
  /\ a % Alignment = 0
  /\ \A b \in DOMAIN regions : Region(a, n) \cap Region(b, regions[b]) = {}
With(regions, a, n) == [b \in DOMAIN regions \cup {a} |-> IF b = a THEN n ELSE regions[b]]
Without(regions, a) == [b \in DOMAIN regions \ {a} |-> regions[b]]

Init == live = [a \in {} |-> 0]

Malloc(a, n) == n > 0 /\ Room(live, a, n) /\ live' = With(live, a, n)
Free(a) == live' = Without(live, a)
(* The new region is taken before the old one is given back. *)
Realloc(a, b, n) == n > 0 /\ Room(live, b, n) /\ live' = Without(With(live, b, n), a)

Next ==
  \/ \E a \in DOMAIN live' \ DOMAIN live : Malloc(a, live'[a])
  \/ \E a \in DOMAIN live : Free(a)
  \/ \E a \in DOMAIN live, b \in DOMAIN live' \ DOMAIN live : Realloc(a, b, live'[b])

Spec == Init /\ [][Next]_live
=============================================================================
