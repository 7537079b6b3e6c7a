----------------------------- MODULE ForkTree -----------------------------
(***************************************************************************)
(* The process tree of fork.py.  A list of actions, given on the command   *)
(* line or drawn at random against a list of names of its own              *)
(* (temp_process_list), is then carried out on the tree.                   *)
(***************************************************************************)
EXTENDS Naturals, Sequences, SequencesExt, FiniteSets

CONSTANTS
  Names,       \* the names get_name hands out, in order; the first is the root's
  MaxActions,  \* -a
  ActionLists  \* the lists given with -A; <<>> asks for random ones

VARIABLES
  leaf_only, local_reparent,
  action_list, given,
  temp_process_list, curr_index,          \* the generator's
  process_list, children, parents,        \* the tree
  next,     \* the action to carry out
  outcome   \* "generate", "run", "done", "bad action" or "root exits"

forkVars == <<leaf_only, local_reparent, action_list, given, temp_process_list, curr_index,
              process_list, children, parents, next, outcome>>

root_name == Names[1]
Gone == <<"gone">>  \* the -1 of an exited process's entries
Fork(p, c) == [kind |-> "+", proc |-> p, child |-> c]
Exit(p) == [kind |-> "-", proc |-> p, child |-> p]

Init ==
  /\ leaf_only \in BOOLEAN /\ local_reparent \in BOOLEAN
  /\ given \in ActionLists /\ action_list = given
  /\ temp_process_list = <<root_name>> /\ curr_index = 2
  /\ process_list = <<root_name>>
  /\ children = [p \in {root_name} |-> <<>>] /\ parents = [p \in {} |-> root_name]
  /\ next = 1 /\ outcome = IF given = <<>> THEN "generate" ELSE "run"

tree == <<process_list, children, parents>>
opts == <<leaf_only, local_reparent, given>>

(***************************************************************************)
(* run, first half: draw the actions.                                      *)
(***************************************************************************)
GenerateFork(p) ==
  /\ outcome = "generate" /\ Len(action_list) < MaxActions
  /\ p \in ToSet(temp_process_list)
  /\ action_list' = Append(action_list, Fork(p, Names[curr_index]))
  /\ temp_process_list' = Append(temp_process_list, Names[curr_index])
  /\ curr_index' = curr_index + 1
  /\ UNCHANGED <<opts, tree, next, outcome>>

GenerateExit(p) ==
  /\ outcome = "generate" /\ Len(action_list) < MaxActions
  /\ p \in ToSet(temp_process_list) \ {root_name}
  /\ action_list' = Append(action_list, Exit(p))
  /\ temp_process_list' = Remove(temp_process_list, p)
  /\ UNCHANGED <<opts, tree, curr_index, next, outcome>>

Generated ==
  /\ outcome = "generate" /\ Len(action_list) = MaxActions
  /\ outcome' = "run"
  /\ UNCHANGED <<opts, tree, action_list, temp_process_list, curr_index, next>>

(***************************************************************************)
(* collect_children: the process, then its subtree in preorder.            *)
(***************************************************************************)
collect_children(p) ==
  LET Below[d \in 0 .. Len(process_list)] ==
        [q \in ToSet(process_list) |->
          IF d = 0 THEN <<q>>
          ELSE <<q>> \o FlattenSeq([i \in DOMAIN children[q] |-> Below[d - 1][children[q][i]]])]
  IN Below[Len(process_list)][p]

(***************************************************************************)
(* run, second half: carry out the actions.                                *)
(***************************************************************************)
action == action_list[next]
Stop(why) ==
  /\ outcome' = why
  /\ UNCHANGED <<opts, tree, action_list, temp_process_list, curr_index, next>>
Advance ==
  /\ next' = next + 1
  /\ outcome' = IF next = Len(action_list) THEN "done" ELSE outcome
  /\ UNCHANGED <<opts, action_list, temp_process_list, curr_index>>

BadAction ==
  /\ outcome = "run" /\ action.proc \notin ToSet(process_list)
  /\ Stop("bad action")

DoFork ==
  /\ outcome = "run" /\ action.kind = "+" /\ action.proc \in ToSet(process_list)
  /\ LET p == action.proc
         c == action.child
         fresh == [q \in DOMAIN children \cup {c} |-> IF q = c THEN <<>> ELSE children[q]]
     IN /\ process_list' = Append(process_list, c)
        /\ children' = [fresh EXCEPT ![p] = Append(@, c)]
        /\ parents' = [q \in DOMAIN parents \cup {c} |-> IF q = c THEN p ELSE parents[q]]
  /\ Advance

\* A process that has children does not exit when only leaves may.
ExitRefused ==
  /\ outcome = "run" /\ action.kind = "-" /\ action.proc \in ToSet(process_list)
  /\ leaf_only /\ children[action.proc] # <<>>
  /\ Advance /\ UNCHANGED tree

RootExits ==
  /\ outcome = "run" /\ action.kind = "-" /\ action.proc = root_name
  /\ ~(leaf_only /\ children[root_name] # <<>>)
  /\ Stop("root exits")

\* The orphans go to the exiting process's parent, or all descendants to the root.
\* Mutant of Adopted: only the children are collected.
AdoptedChildren(p) == children[p]
Adopted(p) == IF local_reparent THEN children[p] ELSE Tail(collect_children(p))
NewParent(p) == IF local_reparent THEN parents[p] ELSE root_name

DoExit ==
  /\ outcome = "run" /\ action.kind = "-"
  /\ action.proc \in ToSet(process_list) \ {root_name}
  /\ ~(leaf_only /\ children[action.proc] # <<>>)
  /\ \E p \in {action.proc} : \E L \in {Adopted(p)} : \E q \in {NewParent(p)} :
       LET emptied == [d \in DOMAIN children |->
                         IF ~local_reparent /\ d \in ToSet(L) THEN <<>> ELSE children[d]]
           adopted == [emptied EXCEPT ![q] = @ \o L]
           removed == [adopted EXCEPT ![parents[p]] = Remove(@, p)]
       IN /\ process_list' = Remove(process_list, p)
          /\ children' = [removed EXCEPT ![p] = Gone]
          /\ parents' = [d \in DOMAIN parents |->
                           IF d = p THEN Gone ELSE IF d \in ToSet(L) THEN q ELSE parents[d]]
  /\ Advance

Next ==
  \/ \E p \in ToSet(temp_process_list) : GenerateFork(p) \/ GenerateExit(p)
  \/ Generated
  \/ BadAction \/ DoFork \/ ExitRefused \/ RootExits \/ DoExit

Spec == Init /\ [][Next]_forkVars /\ WF_forkVars(Next)
-----------------------------------------------------------------------------
Living == ToSet(process_list)

TypeOK ==
  /\ Living \subseteq ToSet(Names) /\ ToSet(temp_process_list) \subseteq ToSet(Names)
  /\ DOMAIN children \subseteq ToSet(Names) /\ DOMAIN parents \subseteq ToSet(Names)
  /\ curr_index \in 1 .. Len(Names) + 1
  /\ next \in 1 .. Len(action_list) + 1
  /\ outcome \in {"generate", "run", "done", "bad action", "root exits"}

\* An -A list that uses a name again as a child is carried out without a word; it is left out.
NoNameTwice ==
  \A i, k \in DOMAIN action_list :
    (action_list[i].kind = "+" /\ action_list[k].kind = "+" /\ i # k) =>
      /\ action_list[i].child # action_list[k].child
      /\ action_list[i].child # root_name

(***************************************************************************)
(* However processes fork and exit, the living ones form one tree: each    *)
(* but the root is on exactly one living process's list of children, once, *)
(* and that process is its parent; an exited process is on no list; and    *)
(* walking down from the root meets every one of them.                     *)
(***************************************************************************)
TreeSound ==
  NoNameTwice =>
    /\ IsInjective(process_list) /\ root_name \in Living
    /\ \A p \in Living : IsInjective(children[p]) /\ ToSet(children[p]) \subseteq Living \ {root_name}
    /\ \A c \in Living \ {root_name} :
         /\ parents[c] \in Living
         /\ {p \in Living : c \in ToSet(children[p])} = {parents[c]}
    /\ ToSet(collect_children(root_name)) = Living

(***************************************************************************)
(* The names the generator believes alive are alive: an exit that is       *)
(* refused leaves a process it never mentions again, never the reverse, so *)
(* no action it draws is bad.                                              *)
(***************************************************************************)
GeneratorInStep ==
  (given = <<>>) =>
    /\ outcome \notin {"bad action", "root exits"}
    /\ outcome = "done" => ToSet(temp_process_list) \subseteq Living
    /\ (outcome = "done" /\ ~leaf_only) => ToSet(temp_process_list) = Living

Ended == outcome \in {"done", "bad action", "root exits"}
=============================================================================
