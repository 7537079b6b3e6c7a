---------------------------- MODULE PageTables ----------------------------
(***************************************************************************)
(* Two programs that fill page tables with frames drawn at random, and     *)
(* walk them.  paging-linear-translate.py decides page by page whether a   *)
(* page is valid; paging-multilevel-translate.py (class OS) keeps a        *)
(* two-level table in the simulated memory itself, next to the data, and   *)
(* takes the frames of the table from the same pool.                       *)
(***************************************************************************)
EXTENDS Integers, Sequences, FiniteSets

CONSTANTS
  pageSize,   \* bytes of a page; an entry is one byte, so also entries of a table page
  physPages,  \* frames; also 0x80, the valid bit of an entry
  vpages,     \* virtual pages of the linear table
  Allocated   \* the values of -a, pages to allocate

VARIABLES
  kind,        \* "linear" or "multilevel"
  numPages,    \* -a
  used,        \* the frames taken: used, usedPages
  usedPagesCount,
  pt,          \* the linear table as far as it is filled, -1 if not valid
  memory,      \* the bytes of the simulated memory
  pdbr,        \* frame of the page directory, -1 before procAlloc
  mapped,      \* virtual page -> frame given to it (procAlloc's used and pp)
  state        \* "filling", "ready" or "AssertionError"

tableVars == <<kind, numPages, used, usedPagesCount, pt, memory, pdbr, mapped, state>>

Frames == 0 .. physPages - 1
VALID == physPages
Marker == physPages - 1        \* 0x7f, what initPageDir fills a table with
vaPages == pageSize * pageSize
pdeBits(vp) == vp \div pageSize
pteBits(vp) == vp % pageSize
Byte(frame, i) == frame * pageSize + i

Init ==
  /\ kind \in {"linear", "multilevel"}
  /\ numPages \in IF kind = "linear" THEN {0} ELSE Allocated
  /\ used = {} /\ usedPagesCount = 0 /\ pt = <<>> /\ pdbr = -1
  /\ mapped = [vp \in {} |-> 0]
  /\ memory = [a \in 0 .. physPages * pageSize - 1 |-> 0]
  /\ state = "filling"

(***************************************************************************)
(* The linear table: a page gets a frame no other page has, or none.       *)
(***************************************************************************)
Assign(u) ==
  /\ kind = "linear" /\ state = "filling" /\ Len(pt) < vpages
  /\ u \notin used
  /\ used' = used \cup {u} /\ pt' = Append(pt, u)
  /\ state' = IF Len(pt') = vpages THEN "ready" ELSE state
  /\ UNCHANGED <<kind, numPages, usedPagesCount, memory, pdbr, mapped>>

NotValid ==
  /\ kind = "linear" /\ state = "filling" /\ Len(pt) < vpages
  /\ pt' = Append(pt, -1)
  /\ state' = IF Len(pt') = vpages THEN "ready" ELSE state
  /\ UNCHANGED <<kind, numPages, used, usedPagesCount, memory, pdbr, mapped>>

(***************************************************************************)
(* Memory as the OS class changes it.  A table page is all markers; a data *)
(* page is filled with numbers that are no valid entry.                    *)
(***************************************************************************)
Filled(m, frame, byte) ==
  [a \in DOMAIN m |-> IF a \div pageSize = frame THEN byte ELSE m[a]]
\* Mutant of initPageDir: a table page is used as it is found.
initPageDirNot(m, frame) == m
initPageDir(m, frame) == Filled(m, frame, Marker)
fillPage(m, frame) == Filled(m, frame, 0)
setEntry(m, addr, frame) == [m EXCEPT ![addr] = VALID + frame]

Fail == state' = "AssertionError"

\* procAlloc begins: a frame for the directory.
NewDirectory(frame) ==
  /\ kind = "multilevel" /\ state = "filling" /\ pdbr = -1
  /\ frame \notin used
  /\ used' = used \cup {frame} /\ usedPagesCount' = usedPagesCount + 1
  /\ pdbr' = frame /\ memory' = initPageDir(memory, frame)
  /\ state' = IF numPages = 0 THEN "ready" ELSE state
  /\ UNCHANGED <<kind, numPages, pt, mapped>>

(***************************************************************************)
(* One turn of procAlloc's loop: a virtual page not used before, a frame   *)
(* for it, a frame for its table page if the directory entry is not valid, *)
(* and the asserts on what the entries held.                               *)
(***************************************************************************)
PDE(vp) == memory[Byte(pdbr, pdeBits(vp))]

Loop == kind = "multilevel" /\ state = "filling" /\ pdbr # -1
LastPage == Cardinality(DOMAIN mapped) + 1 = numPages
WithPage(vp, pp) ==
  mapped' = [v \in DOMAIN mapped \cup {vp} |-> IF v = vp THEN pp ELSE mapped[v]]

\* The page-table page ptePage is in m; pp goes into its entry.
MapPage(m, vp, ptePage, pp) ==
  LET pteAddr == Byte(ptePage, pteBits(vp)) IN
    IF m[pteAddr] = Marker
      THEN /\ memory' = fillPage(setEntry(m, pteAddr, pp), pp)
           /\ WithPage(vp, pp)
           /\ state' = IF LastPage THEN "ready" ELSE state
      ELSE Fail /\ UNCHANGED <<memory, mapped>>

AllocInTable(vp, pp) ==
  /\ Loop /\ vp \notin DOMAIN mapped /\ pp \notin used
  /\ PDE(vp) >= VALID
  /\ used' = used \cup {pp} /\ usedPagesCount' = usedPagesCount + 1
  /\ MapPage(memory, vp, PDE(vp) - VALID, pp)
  /\ UNCHANGED <<kind, numPages, pt, pdbr>>

AllocWithTable(vp, pp, ptePage) ==
  /\ Loop /\ vp \notin DOMAIN mapped /\ pp \notin used /\ ptePage \notin used \cup {pp}
  /\ PDE(vp) < VALID
  /\ IF PDE(vp) = Marker
       THEN /\ used' = used \cup {pp, ptePage} /\ usedPagesCount' = usedPagesCount + 2
            /\ MapPage(initPageDir(setEntry(memory, Byte(pdbr, pdeBits(vp)), ptePage), ptePage),
                       vp, ptePage, pp)
       ELSE /\ used' = used \cup {pp} /\ usedPagesCount' = usedPagesCount + 1
            /\ Fail /\ UNCHANGED <<memory, mapped>>
  /\ UNCHANGED <<kind, numPages, pt, pdbr>>

\* findFree asserts that a frame is left: for the page, or then for its table page.
OutOfFrames(vp) ==
  /\ Loop /\ vp \notin DOMAIN mapped
  /\ \/ usedPagesCount = physPages /\ UNCHANGED <<used, usedPagesCount>>
     \/ /\ usedPagesCount + 1 = physPages /\ PDE(vp) < VALID
        /\ used' = Frames /\ usedPagesCount' = physPages
  /\ Fail /\ UNCHANGED <<kind, numPages, pt, memory, pdbr, mapped>>

Next ==
  \/ \E u \in Frames : Assign(u) \/ NewDirectory(u)
  \/ NotValid
  \/ \E vp \in 0 .. vaPages - 1 :
       \/ \E pp \in Frames : AllocInTable(vp, pp) \/ \E q \in Frames : AllocWithTable(vp, pp, q)
       \/ OutOfFrames(vp)

Spec == Init /\ [][Next]_tableVars
-----------------------------------------------------------------------------
(***************************************************************************)
(* Translation of a virtual address: its physical address, -1 for a page   *)
(* (or a directory entry) that is not valid, -2 for a table entry that is. *)
(***************************************************************************)
Linear(vaddr) ==
  LET vpn == vaddr \div pageSize IN
    IF pt[vpn + 1] < 0 THEN -1 ELSE pt[vpn + 1] * pageSize + (vaddr % pageSize)

translate(vaddr) ==
  LET vp == vaddr \div pageSize
      pde == PDE(vp)
      pte == memory[Byte(pde - VALID, pteBits(vp))]
  IN IF pde < VALID THEN -1
     ELSE IF pte < VALID THEN -2
     ELSE (pte - VALID) * pageSize + (vaddr % pageSize)

TypeOK ==
  /\ used \subseteq Frames /\ usedPagesCount \in 0 .. physPages
  /\ pt \in Seq(Frames \cup {-1}) /\ Len(pt) <= vpages
  /\ \A a \in DOMAIN memory : memory[a] \in 0 .. 2 * physPages - 1
  /\ pdbr \in Frames \cup {-1} /\ state \in {"filling", "ready", "AssertionError"}

(***************************************************************************)
(* No frame has two owners: a translation that is valid is unique, inside  *)
(* memory, and to a frame marked used.                                     *)
(***************************************************************************)
LinearSound ==
  (kind = "linear" /\ state = "ready") =>
    LET valid == {v \in 0 .. vpages * pageSize - 1 : Linear(v) >= 0} IN
      /\ \A v \in valid : Linear(v) \div pageSize \in used
      /\ \A v, w \in valid : Linear(v) = Linear(w) => v = w
      /\ Cardinality(valid) = pageSize * Cardinality(used)

(***************************************************************************)
(* Walking the table kept in memory finds every page the process was given *)
(* and no other, at the frame it was given, though data, table pages and   *)
(* the directory share the memory and its frames are drawn blindly; every  *)
(* frame in use is the directory, a table page, or one page's data; an     *)
(* entry is never found taken, and the frames run out only when all are in *)
(* use.                                                                    *)
(***************************************************************************)
WalkFindsAll ==
  (kind = "multilevel" /\ pdbr # -1) =>
    LET tables == {q \in Frames : \E i \in 0 .. pageSize - 1 : memory[Byte(pdbr, i)] = VALID + q}
        data == {mapped[vp] : vp \in DOMAIN mapped}
    IN /\ \A vp \in 0 .. vaPages - 1, o \in 0 .. pageSize - 1 :
            LET pa == translate(vp * pageSize + o) IN
              IF vp \in DOMAIN mapped THEN pa = mapped[vp] * pageSize + o ELSE pa < 0
       /\ usedPagesCount = Cardinality(used)
       /\ state = "AssertionError" => used = Frames
       /\ state # "AssertionError" =>
            /\ used = {pdbr} \cup tables \cup data
            /\ Cardinality(used) = 1 + Cardinality({vp \div pageSize : vp \in DOMAIN mapped})
                                     + Cardinality(DOMAIN mapped)

=============================================================================
