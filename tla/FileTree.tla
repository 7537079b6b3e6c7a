------------------------------ MODULE FileTree ------------------------------
(***************************************************************************)
(* What the file-system simulators promise: a tree of names.  A path names *)
(* a node; several paths may name one regular file, which lives as long as *)
(* one of them does.  Nothing is said of blocks, inodes or a log.          *)
(*                                                                         *)
(* Each command is the set of what it may make of a file system f, which   *)
(* is [tree, node]: the node that each existing path names, and what the   *)
(* nodes are.  A command that cannot do what it says has no effect.        *)
(***************************************************************************)
EXTENDS Integers, Sequences, FiniteSets, SequencesExt

CONSTANTS
  Paths,         \* the paths commands may name: non-empty sequences of names
  Ids,           \* what nodes are called: one node per id at a time
  Contents,      \* what a block of a file may hold
  FileBlocks,    \* the most blocks a file has
  DirCapacity    \* the most names a directory holds

VARIABLE fs

Root == <<>>
Hole == -1
Empty(kind, size) == [kind |-> kind, size |-> size, data |-> [k \in 0..FileBlocks - 1 |-> Hole]]
Dir == Empty("dir", 1)
File == Empty("reg", 0)

Init == \E id \in Ids : fs = [tree |-> [p \in {Root} |-> id], node |-> [i \in {id} |-> Dir]]

Exists(f, p) == p \in DOMAIN f.tree
IsA(f, p, kind) == Exists(f, p) /\ f.node[f.tree[p]].kind = kind
NamesIn(f, d) == {p \in DOMAIN f.tree \ {Root} : Front(p) = d}
CanName(f, p) ==
  ~Exists(f, p) /\ IsA(f, Front(p), "dir") /\ Cardinality(NamesIn(f, Front(p))) < DirCapacity
CanCreate(f, p) == CanName(f, p) /\ DOMAIN f.node # Ids
CanLink(f, from, to) == IsA(f, from, "reg") /\ CanName(f, to)

Named(f, p, id) == [q \in DOMAIN f.tree \cup {p} |-> IF q = p THEN id ELSE f.tree[q]]

Create(f, p, new) ==
  {[tree |-> Named(f, p, id),
    node |-> [i \in DOMAIN f.node \cup {id} |-> IF i = id THEN new ELSE f.node[i]]] :
     id \in IF CanCreate(f, p) THEN Ids \ DOMAIN f.node ELSE {}}

Link(f, from, to) ==
  IF CanLink(f, from, to) THEN {[f EXCEPT !.tree = Named(f, to, f.tree[from])]} ELSE {}

Unlink(f, p) ==
  LET rest == DOMAIN f.tree \ {p}
  IN IF IsA(f, p, "reg")
       THEN {[tree |-> [q \in rest |-> f.tree[q]],
              node |-> [i \in {f.tree[q] : q \in rest} |-> f.node[i]]]}
       ELSE {}

(* cs are the blocks to write from block off on; what passes the end of the *)
(* largest file is not written, and the size grows to the last block        *)
(* reached.                                                                 *)
Overwritten(file, off, cs) ==
  LET end == IF off + Len(cs) > FileBlocks THEN FileBlocks ELSE off + Len(cs)
  IN [file EXCEPT !.data = [k \in DOMAIN @ |-> IF k \in off..end - 1 THEN cs[k - off + 1] ELSE @[k]],
                  !.size = IF end > @ THEN end ELSE @]
Write(f, p, off, cs) ==
  IF IsA(f, p, "reg") THEN {[f EXCEPT !.node[f.tree[p]] = Overwritten(@, off, cs)]} ELSE {}

BlockLists == UNION {[1..n -> Contents] : n \in 0..FileBlocks}
Outcome(f, g) ==
  \/ g = f
  \/ \E p \in Paths : g \in Create(f, p, File) \cup Create(f, p, Dir) \cup Unlink(f, p)
  \/ \E p, q \in Paths : g \in Link(f, p, q)
  \/ \E p \in Paths, off \in 0..FileBlocks - 1, cs \in BlockLists : g \in Write(f, p, off, cs)

Next == \E now \in {fs}, then \in {fs'} : Outcome(now, then)

Spec == Init /\ [][Next]_fs
=============================================================================
