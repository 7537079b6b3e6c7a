----------------------------- MODULE Registers -----------------------------
(***************************************************************************)
(* relocation.py (one base and limit) and segmentation.py (two segments,   *)
(* the second growing down from the top of the address space): registers   *)
(* are given or drawn until they fit, then virtual addresses are           *)
(* translated.                                                             *)
(***************************************************************************)
EXTENDS Integers

CONSTANTS
  Machines,  \* records asize, psize
  Given      \* records base0, len0, base1, len1; -1 asks for a drawn one

VARIABLES
  kind,                     \* "relocation" or "segmentation"
  asize, psize, given,
  base0, len0, base1, len1, \* relocation.py has the first two alone
  stage                     \* "lengths", "base0", "base1", "ready" or "error"

registerVars == <<kind, asize, psize, given, base0, len0, base1, len1, stage>>

Init ==
  /\ kind \in {"relocation", "segmentation"}
  /\ \E m \in Machines : asize = m.asize /\ psize = m.psize
  /\ given \in Given
  /\ base0 = given.base0 /\ len0 = given.len0 /\ base1 = given.base1 /\ len1 = given.len1
  /\ stage = "lengths"

fixed == <<kind, asize, psize, given>>

\* A drawn length is between a quarter and a half of the address space.
DrawnLengths == (asize \div 4) .. ((asize + 1) \div 2 - 1)
Error == stage' = "error" /\ UNCHANGED <<base0, len0, base1, len1>>
SizesFit ==  \* the checks both programs make first
  psize > (IF kind = "relocation" THEN 1 ELSE 4) /\ asize # 0 /\ psize > asize

SetLengths ==
  /\ stage = "lengths"
  /\ IF /\ SizesFit
        /\ (kind = "segmentation" /\ (base0 = -1 \/ base1 = -1)) => psize > 2 * asize
       THEN /\ len0' \in IF len0 = -1 THEN DrawnLengths ELSE {len0}
            /\ len1' \in IF len1 = -1 /\ kind = "segmentation" THEN DrawnLengths ELSE {len1}
            /\ stage' = "base0" /\ UNCHANGED <<base0, base1>>
       ELSE Error
  /\ UNCHANGED fixed

\* Relocation's registers are complete after this one.
SetBase0 ==
  /\ stage = "base0"
  /\ base0' \in IF base0 = -1 THEN {b \in 0 .. psize - 1 : b + len0 < psize} ELSE {base0}
  /\ stage' = IF kind = "segmentation" THEN "base1"
              ELSE IF base0' + len0 > psize THEN "error" ELSE "ready"
  /\ UNCHANGED <<fixed, len0, base1, len1>>

\* A given base1 is the top of the segment; internally it is the bottom.
SetBase1 ==
  /\ stage = "base1"
  /\ base1' \in IF base1 = -1
                  THEN {b \in 0 .. psize - 1 : /\ b + len1 < psize
                                               /\ b > base0 + len0 \/ b + len1 < base0}
                  ELSE {base1 - len1}
  /\ stage' = IF \/ psize < base0 + len0 - 1 \/ psize < base1'
                 \/ 2 * len0 > asize \/ 2 * len1 > asize
                 \/ (len0 + base0 > base1' /\ base1' > base0)
                THEN "error" ELSE "ready"
  /\ UNCHANGED <<fixed, base0, len0, len1>>

Next == SetLengths \/ SetBase0 \/ SetBase1

Spec == Init /\ [][Next]_registerVars
-----------------------------------------------------------------------------
Violation == -1

Relocate(vaddr) == IF vaddr >= len0 THEN Violation ELSE vaddr + base0

\* Mutant of Segment: the stack is taken to grow up.
SegmentUp(vaddr) ==
  IF 2 * vaddr >= asize
    THEN IF 2 * vaddr - asize >= 2 * len1 THEN Violation ELSE base1 + vaddr - (asize + 1) \div 2
    ELSE IF vaddr >= len0 THEN Violation ELSE vaddr + base0
Segment(vaddr) ==
  IF 2 * vaddr >= asize
    THEN LET paddr == (base1 + len1) + (vaddr - asize) IN
           IF paddr < base1 THEN Violation ELSE paddr
    ELSE IF vaddr >= len0 THEN Violation ELSE vaddr + base0

Translate(vaddr) == IF kind = "relocation" THEN Relocate(vaddr) ELSE Segment(vaddr)

TypeOK ==
  /\ stage \in {"lengths", "base0", "base1", "ready", "error"}
  /\ stage = "ready" => base0 \in Nat /\ len0 \in IF kind = "segmentation" THEN 0 .. asize ELSE Nat

(***************************************************************************)
(* With registers the program placed itself, exactly the addresses below   *)
(* the limits are valid, no two of them share a byte, and all bytes are    *)
(* inside physical memory.  (Registers given by hand are checked less: an  *)
(* overlap from below and a segment one byte too high pass the checks.)    *)
(***************************************************************************)
Placed == given.base0 = -1 /\ given.base1 = -1
PlacementSound ==
  (stage = "ready" /\ Placed) =>
    LET valid == {v \in 0 .. asize - 1 : Translate(v) # Violation}
        top == IF kind = "relocation" THEN asize ELSE asize - len1
    IN /\ valid = {v \in 0 .. asize - 1 : v < len0 \/ v >= top}
       /\ \A v \in valid : Translate(v) \in 0 .. psize - 1
       /\ \A v, w \in valid : Translate(v) = Translate(w) => v = w
\* A byte beyond the limits is never reached, whoever set the registers.
BoundsKept ==
  stage = "ready" => \A v \in 0 .. asize - 1 :
    Translate(v) # Violation =>
      \/ Translate(v) \in base0 .. base0 + len0 - 1
      \/ kind = "segmentation" /\ Translate(v) \in base1 .. base1 + len1 - 1
=============================================================================
