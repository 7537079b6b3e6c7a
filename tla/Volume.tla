------------------------------ MODULE Volume ------------------------------
(***************************************************************************)
(* What a redundant array promises: a row of blocks.  A write changes      *)
(* blocks that follow one another and no other, and nothing else ever      *)
(* changes one.  Values are one bit, and a write flips it.                 *)
(***************************************************************************)
EXTENDS Naturals

CONSTANTS Size  \* number of logical blocks
VARIABLES blocks

Blocks == 0 .. Size - 1

Init == blocks = [b \in Blocks |-> 0]

Write(begin, end) ==
  blocks' = [b \in Blocks |-> IF begin <= b /\ b < end THEN 1 - blocks[b] ELSE blocks[b]]

Next == \E begin, end \in 0 .. Size : begin < end /\ Write(begin, end)

Spec == Init /\ [][Next]_blocks
=============================================================================
