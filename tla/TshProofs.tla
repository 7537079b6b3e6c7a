----------------------------- MODULE TshProofs -----------------------------
(***************************************************************************)
(* Proofs about Tsh, for any number of job slots, any set of pids and any  *)
(* bound on the job ids.                                                   *)
(***************************************************************************)
EXTENDS Tsh, TLAPS, WellFoundedInduction

\* A nonempty set of numbers has a least one: the loops of tsh.c over the job
\* list stop at a first slot.
LEMMA LeastNumber ==
  ASSUME NEW S \in SUBSET Nat, S # {}
  PROVE  \E x \in S : \A y \in S : x <= y
<1>1. PICK x \in S : \A y \in S : ~ (<<y, x>> \in OpToRel(<, Nat))
  BY NatLessThanWellFounded, WFMin, Zenon
<1>2. \A y \in S : <<y, x>> \in OpToRel(<, Nat) <=> y < x
  BY DEF OpToRel
<1>3. \A y \in S : ~ (y < x) BY <1>1, <1>2, Zenon
<1> QED BY ONLY S \in SUBSET Nat, x \in S, <1>3

\* FirstOf answers 0 for no slot at all, and one of the slots otherwise.
LEMMA FirstSlot ==
  ASSUME NEW S \in SUBSET Slots
  PROVE  /\ S = {} => FirstOf(S) = 0
         /\ S # {} => FirstOf(S) \in S
<1>1. CASE S = {} BY <1>1 DEF FirstOf
<1>2. CASE S # {}
  <2>1. S \in SUBSET Nat BY TshJobsAssumption DEF Slots
  <2>2. \E x \in S : \A y \in S : x =< y BY <1>2, <2>1, LeastNumber
  <2>3. Min(S) \in S BY <2>2 DEF Min
  <2> QED BY <1>2, <2>3 DEF FirstOf
<1> QED BY <1>1, <1>2

\* getjobpid finds a slot with the pid if there is one.
LEMMA Getjobpid ==
  ASSUME NEW J \in [Slots -> Job], NEW p \in Pids
  PROVE  \/ getjobpid(J, p) = 0 /\ \A s \in Slots : J[s].pid # p
         \/ getjobpid(J, p) \in Slots /\ J[getjobpid(J, p)].pid = p
<1> DEFINE S == {s \in Slots : p >= 1 /\ J[s].pid = p}
<1>1. p >= 1 BY TshJobsAssumption
<1>2. getjobpid(J, p) = FirstOf(S) BY DEF getjobpid
<1>3. S \in SUBSET Slots OBVIOUS
<1>4. CASE S = {} BY <1>1, <1>2, <1>3, <1>4, FirstSlot
<1>5. CASE S # {} 
  <2>1. FirstOf(S) \in S BY <1>3, <1>5, FirstSlot
  <2> QED BY <1>2, <2>1
<1> QED BY <1>4, <1>5

\* The list has a largest job id, 0 if it is empty.
LEMMA MaxjidType ==
  ASSUME NEW J \in [Slots -> Job]
  PROVE  maxjid(J) \in Nat
<1> DEFINE Bounds(n, m) == /\ m = 0 \/ \E s \in 1 .. n : m = J[s].jid
                           /\ \A s \in 1 .. n : J[s].jid <= m
           Bad == {n \in Nat : n <= MAXJOBS /\ ~ \E m \in Nat : Bounds(n, m)}
<1>1. \A s \in 1 .. MAXJOBS : J[s].jid \in Nat BY DEF Slots, Job
<1>2. Bad = {}
  <2> SUFFICES ASSUME Bad # {} PROVE FALSE OBVIOUS
  <2>1. PICK n \in Bad : \A k \in Bad : n <= k BY LeastNumber
  <2>2. n # 0
    <3>1. Bounds(0, 0) OBVIOUS
    <3> QED BY <2>1, <3>1
  <2>3. /\ n \in Nat /\ n - 1 \in Nat /\ n - 1 <= MAXJOBS
        /\ n \in 1 .. MAXJOBS /\ 1 .. n - 1 \subseteq 1 .. MAXJOBS
    BY <2>1, <2>2, TshJobsAssumption
  <2>4. PICK m \in Nat : Bounds(n - 1, m) BY <2>1, <2>3
  <2>5. 1 .. n = (1 .. n - 1) \cup {n} BY <2>3
  <2>6. CASE J[n].jid <= m
    <3>1. Bounds(n, m) BY <2>4, <2>5, <2>6
    <3> QED BY <2>1, <3>1
  <2>7. CASE ~ (J[n].jid <= m)
    <3>1. J[n].jid \in Nat BY <1>1, <2>3
    <3>2. \A s \in 1 .. n - 1 : J[s].jid \in Nat BY <1>1, <2>3
    <3>3. Bounds(n, J[n].jid) BY <2>3, <2>4, <2>5, <2>7, <3>1, <3>2
    <3> QED BY <2>1, <3>1, <3>3
  <2> QED BY <2>6, <2>7
<1>3. PICK m \in Nat : Bounds(MAXJOBS, m) BY <1>2, TshJobsAssumption
<1> DEFINE T == {J[s].jid : s \in Slots} \cup {0}
<1>4. m \in T /\ \A y \in T : m >= y BY <1>3 DEF Slots
<1>5. \E x \in T : \A y \in T : x >= y BY <1>4
<1>6. Max(T) \in T BY <1>5 DEF Max
<1>7. T \subseteq Nat BY <1>1 DEF Slots
<1> QED BY <1>6, <1>7 DEF maxjid

\* addjob fills one free slot, or changes nothing when there is none.
LEMMA AddJob ==
  ASSUME NEW J \in [Slots -> Job], NEW n \in Nat \ {0}, NEW p \in Pids \cup {0},
         NEW st \in States
  PROVE  /\ addjob(J, n, p, st) \in [Slots -> Job]
         /\ nextAfterAdd(J, n) \in Nat \ {0}
         /\ \/ addjob(J, n, p, st) = J
            \/ \E s \in Slots :
                 /\ J[s].pid = 0
                 /\ addjob(J, n, p, st) = [J EXCEPT ![s] = [pid |-> p, jid |-> n, state |-> st]]
<1> DEFINE S == {s \in Slots : J[s].pid = 0}
<1>1. FreeSlot(J) = FirstOf(S) BY DEF FreeSlot
<1>2. [pid |-> p, jid |-> n, state |-> st] \in Job BY DEF Job
<1>3. nextAfterAdd(J, n) \in Nat \ {0} BY TshJobsAssumption DEF nextAfterAdd
<1>4. CASE S = {}
  <2>1. FreeSlot(J) = 0 BY <1>1, <1>4, FirstSlot
  <2> QED BY <1>3, <2>1 DEF addjob
<1>5. CASE S # {}
  <2>1. FreeSlot(J) \in S BY <1>1, <1>5, FirstSlot
  <2>2. FreeSlot(J) # 0 BY <2>1, TshJobsAssumption DEF Slots
  <2>3. addjob(J, n, p, st) = [J EXCEPT ![FreeSlot(J)] = [pid |-> p, jid |-> n, state |-> st]]
    BY <2>2 DEF addjob
  <2> QED BY <1>2, <1>3, <2>1, <2>3
<1> QED BY <1>4, <1>5

\* deletejob clears one slot of the pid, or changes nothing when there is none.
LEMMA DeleteJob ==
  ASSUME NEW J \in [Slots -> Job], NEW n \in Nat \ {0}, NEW p \in Pids
  PROVE  /\ deletejob(J, p) \in [Slots -> Job]
         /\ nextAfterDelete(J, n, p) \in Nat \ {0}
         /\ \/ deletejob(J, p) = J /\ \A s \in Slots : J[s].pid # p
            \/ \E s \in Slots : J[s].pid = p /\ deletejob(J, p) = [J EXCEPT ![s] = Clear]
<1>1. Clear \in Job BY DEF Clear, Job, States
<1>2. 0 \notin Slots BY TshJobsAssumption DEF Slots
<1>3. deletejob(J, p) \in [Slots -> Job]
  BY <1>1, Getjobpid DEF deletejob
<1>4. maxjid(deletejob(J, p)) \in Nat BY <1>3, MaxjidType
<1>5. nextAfterDelete(J, n, p) \in Nat \ {0} BY <1>4 DEF nextAfterDelete
<1>6. CASE getjobpid(J, p) = 0
  BY <1>2, <1>3, <1>5, <1>6, Getjobpid DEF deletejob
<1>7. CASE getjobpid(J, p) # 0
  <2>1. getjobpid(J, p) \in Slots /\ J[getjobpid(J, p)].pid = p BY <1>7, Getjobpid
  <2>2. deletejob(J, p) = [J EXCEPT ![getjobpid(J, p)] = Clear] BY <1>7 DEF deletejob
  <2> QED BY <1>3, <1>5, <2>1, <2>2
<1> QED BY <1>6, <1>7

\* Every step of the shell, its handlers, the kernel and the children keeps
\* the type invariant.
THEOREM TshTypeCorrect == Spec => []TypeOK
<1>0. Clear \in Job /\ NoJobs \in [Slots -> Job] /\ 1 \in Slots
  BY TshJobsAssumption DEF NoJobs, Clear, Job, States, Slots
<1>1. Init => TypeOK
  <2> SUFFICES ASSUME Init PROVE TypeOK OBVIOUS
  <2>1. jobs \in [Slots -> Job] /\ slot \in Slots BY <1>0 DEF Init
  <2>2. nextjid \in Nat \ {0} /\ pc \in PCs /\ wpid \in Pids \cup {0} BY DEF Init, PCs
  <2>3. proc \in [Pids -> ProcStates] BY DEF Init, ProcStates
  <2> QED BY <2>1, <2>2, <2>3 DEF Init, TypeOK
<1>2. TypeOK /\ [Next]_vars => TypeOK'
  <2> SUFFICES ASSUME TypeOK, [Next]_vars PROVE TypeOK' OBVIOUS
  <2> USE DEF TypeOK
  <2>1. ASSUME NEW p \in Pids, NEW b \in BOOLEAN, Eval(p, b) PROVE TypeOK'
    BY <2>1, <1>0 DEF Eval, Goto, At, PCs, ProcStates
  <2>2. ASSUME NEW s \in Slots, NEW b \in BOOLEAN, DoBgfg(s, b) PROVE TypeOK'
    BY <2>2, <1>0 DEF DoBgfg, Goto, At, PCs, kernel
  <2>3. CASE EvalParent
    <3>1. (IF bg THEN "BG" ELSE "FG") \in States BY DEF States
    <3>2. jobs' \in [Slots -> Job] /\ nextjid' \in Nat \ {0} BY <2>3, <3>1, AddJob DEF EvalParent
    <3> QED BY <2>3, <3>2, <1>0 DEF EvalParent, Goto, At, PCs, kernel
  <2>4. CASE SendCont
    <3>1. jobs[slot].pid \in Pids \cup {0} BY DEF Job
    <3> HIDE DEF TypeOK
    <3>2. UNCHANGED <<jobs, nextjid, wpid, bg, slot, inHandler>> /\ pc' \in PCs
      BY <2>4 DEF SendCont, PCs
    <3>3. /\ pending' \subseteq Signals /\ proc' \in [Pids -> ProcStates]
          /\ stopNews' \subseteq Pids /\ intPending' \subseteq Pids /\ contNews' \subseteq Pids
      BY <2>4, <3>1 DEF SendCont, Continue, kernel, Signals, ProcStates, TypeOK
    <3> QED BY <3>2, <3>3 DEF TypeOK
  <2>5. CASE SetState
    <3>1. jobs' \in [Slots -> Job] BY <2>5 DEF SetState, Job, States
    <3> QED BY <2>5, <3>1, <1>0 DEF SetState, Goto, At, PCs, kernel
  <2>6. CASE ReadPid
    <3>1. jobs[slot].pid \in Pids \cup {0} BY DEF Job
    <3> QED BY <2>6, <3>1, <1>0 DEF ReadPid, Goto, At, PCs, kernel
  <2>7. CASE Check BY <2>7, <1>0 DEF Check, Goto, At, PCs, kernel
  <2>8. CASE Suspend BY <2>8 DEF Suspend, At, PCs, kernel
  <2>0. ASSUME Exit PROVE TypeOK'
    <3>1. jobs' \in [Slots -> Job] /\ slot' \in Slots BY <2>0, <1>0 DEF Exit
    <3>2. nextjid' \in Nat \ {0} /\ pc' \in PCs /\ wpid' \in Pids \cup {0} BY <2>0 DEF Exit, PCs
    <3> QED BY <2>0, <3>1, <3>2 DEF Exit, kernel
  <2>9. CASE Quit BY <2>0, <2>9 DEF Quit
  <2>10. CASE SigchldEnter BY <2>10 DEF SigchldEnter, shell, kernel
  <2>11. CASE SigchldExit BY <2>11 DEF SigchldExit, PcAfterHandler, PCs, kernel
  <2>12. CASE SigintHandler
    BY <2>12 DEF SigintHandler, PcAfterHandler, PCs, Signals, ProcStates
  <2>13. CASE SigtstpHandler
    BY <2>13 DEF SigtstpHandler, PcAfterHandler, PCs, Signals, ProcStates
  <2>14. CASE SigquitHandler BY <2>0, <2>14 DEF SigquitHandler
  <2>15. ASSUME NEW p \in Pids, SigchldReap(p) PROVE TypeOK'
    <3>1. jobs' \in [Slots -> Job] /\ nextjid' \in Nat \ {0}
      <4>1. CASE proc[p] = "zombie" BY <2>15, <4>1, DeleteJob DEF SigchldReap
      <4>2. CASE proc[p] # "zombie"
        <5>1. [jobs EXCEPT ![getjobpid(jobs, p)].state = "ST"] \in [Slots -> Job]
          BY DEF Job, States
        <5> QED BY <2>15, <4>2, <5>1 DEF SigchldReap
      <4> QED BY <4>1, <4>2
    <3>2. proc' \in [Pids -> ProcStates] BY <2>15 DEF SigchldReap, ProcStates
    <3> QED BY <2>15, <3>1, <3>2 DEF SigchldReap
  <2>16. ASSUME NEW p \in Pids, ChildStart(p) PROVE TypeOK'
    BY <2>16 DEF ChildStart, shell, ProcStates
  <2>17. ASSUME NEW p \in Pids, ChildExit(p) PROVE TypeOK'
    BY <2>17 DEF ChildExit, shell, ProcStates, Signals
  <2>18. ASSUME NEW p \in Pids, ChildStop(p) PROVE TypeOK'
    BY <2>18 DEF ChildStop, shell, ProcStates, Signals
  <2>19. ASSUME NEW p \in Pids, ChildContinued(p) PROVE TypeOK'
    BY <2>19 DEF ChildContinued, shell, Signals
  <2>20. ASSUME NEW sig \in {"SIGINT", "SIGTSTP"}, Keyboard(sig) PROVE TypeOK'
    BY <2>20 DEF Keyboard, shell, kernel, Signals
  <2>21. CASE UNCHANGED vars BY <2>21 DEF vars, shell, kernel
  <2> QED BY <2>1, <2>2, <2>3, <2>4, <2>5, <2>6, <2>7, <2>8, <2>9, <2>10, <2>11, <2>12, <2>13,
             <2>14, <2>15, <2>16, <2>17, <2>18, <2>19, <2>20, <2>21 DEF Next
<1> QED BY <1>1, <1>2, PTL DEF Spec

-----------------------------------------------------------------------------
\* Between the fork and addjob the child is not reaped and not yet listed: the
\* signals are blocked, so sigchld_handler cannot run.
ForkedUnlisted ==
  pc = "forked" => /\ ~inHandler
                   /\ wpid \in Pids /\ proc[wpid] # "none"
                   /\ \A s \in Slots : jobs[s].pid # wpid

\* No process is listed twice: deletejob, which clears the first entry of a
\* pid, then leaves none.
PidsDistinct == \A s, t \in Slots : jobs[s].pid = jobs[t].pid /\ jobs[s].pid # 0 => s = t

\* The inductive invariant of the job list.
ListInv == NoReapedJobs /\ PidsDistinct /\ ForkedUnlisted

\* No process is reaped while it is listed or about to be: the list never
\* names a process the kernel has forgotten, whatever signal arrives between
\* whichever two steps of eval, do_bgfg and waitfg.
THEOREM ListSound == Spec => [](NoReapedJobs /\ PidsDistinct)
<1>1. Init => ListInv
  <2> SUFFICES ASSUME Init PROVE ListInv OBVIOUS
  <2>1. \A s \in Slots : jobs[s].pid = 0 BY DEF Init, NoJobs, Clear
  <2>2. pc # "forked" BY DEF Init
  <2> QED BY <2>1, <2>2 DEF ListInv, NoReapedJobs, PidsDistinct, ForkedUnlisted
<1>2. TypeOK /\ ListInv /\ [Next]_vars => ListInv'
  <2> SUFFICES ASSUME TypeOK, ListInv, [Next]_vars PROVE ListInv' OBVIOUS
  <2>0. \A s \in Slots : jobs[s].pid \in Pids \cup {0} BY DEF TypeOK, Job
  \* A step that reaps no child and leaves the main thread and the pids alone.
  <2>a. ASSUME \A s \in Slots : jobs'[s].pid = jobs[s].pid,
               \A p \in Pids : proc[p] # "none" => proc'[p] # "none",
               pc' = "forked" => pc = "forked" /\ wpid' = wpid /\ ~inHandler'
        PROVE  ListInv'
    BY <2>0, <2>a DEF ListInv, NoReapedJobs, PidsDistinct, ForkedUnlisted
  <2> USE DEF TypeOK
  <2>1. ASSUME NEW p \in Pids, NEW b \in BOOLEAN, Eval(p, b) PROVE ListInv'
    <3>1. proc[p] = "none" /\ proc' = [proc EXCEPT ![p] = "forked"] /\ jobs' = jobs
          /\ wpid' = p /\ inHandler' = inHandler /\ ~inHandler
      BY <2>1 DEF Eval, Goto, At
    <3>2. \A s \in Slots : jobs[s].pid # p
      BY <3>1, TshJobsAssumption DEF ListInv, NoReapedJobs
    <3> QED BY <2>0, <3>1, <3>2 DEF ListInv, NoReapedJobs, PidsDistinct, ForkedUnlisted
  <2>2. ASSUME NEW s \in Slots, NEW b \in BOOLEAN, DoBgfg(s, b) PROVE ListInv'
    BY <2>2, <2>a DEF DoBgfg, Goto, kernel
  <2>3. CASE EvalParent
    <3>1. pc = "forked" /\ pc' # "forked" /\ proc' = proc BY <2>3 DEF EvalParent, At, Goto, kernel
    <3> DEFINE st == IF bg THEN "BG" ELSE "FG"
               rec == [pid |-> wpid, jid |-> nextjid, state |-> st]
    <3>2. st \in States /\ jobs' = addjob(jobs, nextjid, wpid, st) BY <2>3 DEF EvalParent, States
    <3> HIDE DEF st
    <3>3. jobs' = jobs \/ \E s \in Slots : jobs[s].pid = 0 /\ jobs' = [jobs EXCEPT ![s] = rec]
      BY <3>2, AddJob
    <3>4. CASE jobs' = jobs BY <2>a, <3>1, <3>4
    <3>5. ASSUME NEW s \in Slots, jobs' = [jobs EXCEPT ![s] = rec] PROVE ListInv'
      <4>1. \A t \in Slots : jobs'[t].pid = IF t = s THEN wpid ELSE jobs[t].pid BY <3>5
      <4> QED BY <2>0, <3>1, <4>1 DEF ListInv, NoReapedJobs, PidsDistinct, ForkedUnlisted
    <3> QED BY <3>3, <3>4, <3>5
  <2>4. CASE SendCont
    <3>1. \A p \in Pids : proc[p] # "none" => proc'[p] # "none"
      BY <2>4 DEF SendCont, Continue, kernel
    <3> QED BY <2>4, <2>a, <3>1 DEF SendCont
  <2>5. CASE SetState
    <3>1. \A s \in Slots : jobs'[s].pid = jobs[s].pid BY <2>5 DEF SetState, Job
    <3> QED BY <2>5, <2>a, <3>1 DEF SetState, Goto, kernel
  <2>6. CASE ReadPid BY <2>6, <2>a DEF ReadPid, Goto, kernel
  <2>7. CASE Check BY <2>7, <2>a DEF Check, Goto, kernel
  <2>8. CASE Suspend BY <2>8, <2>a DEF Suspend, kernel
  <2>9. ASSUME Exit PROVE ListInv'
    <3>1. \A s \in Slots : jobs'[s].pid = 0 BY <2>9 DEF Exit, NoJobs, Clear
    <3> QED BY <2>9, <3>1 DEF Exit, ListInv, NoReapedJobs, PidsDistinct, ForkedUnlisted
  <2>10. CASE SigchldEnter BY <2>10, <2>a DEF SigchldEnter, Deliverable, Blocked, shell, kernel
  <2>11. CASE SigchldExit
    BY <2>11, <2>a DEF SigchldExit, PcAfterHandler, kernel
  <2>12. CASE SigintHandler
    <3>1. pc # "forked" /\ pc' # "forked" /\ jobs' = jobs
      BY <2>12 DEF SigintHandler, Deliverable, Blocked, PcAfterHandler
    <3>2. \A p \in Pids : proc[p] # "none" => proc'[p] # "none" BY <2>12 DEF SigintHandler
    <3> QED BY <2>a, <3>1, <3>2
  <2>13. CASE SigtstpHandler
    <3>1. pc # "forked" /\ pc' # "forked" /\ jobs' = jobs
      BY <2>13 DEF SigtstpHandler, Deliverable, Blocked, PcAfterHandler
    <3>2. \A p \in Pids : proc[p] # "none" => proc'[p] # "none" BY <2>13 DEF SigtstpHandler
    <3> QED BY <2>a, <3>1, <3>2
  <2>15. ASSUME NEW p \in Pids, SigchldReap(p) PROVE ListInv'
    <3>0. pc # "forked" /\ pc' = pc BY <2>15 DEF SigchldReap, ListInv, ForkedUnlisted
    <3>1. CASE proc[p] = "zombie"
      <4>1. jobs' = deletejob(jobs, p) /\ proc' = [proc EXCEPT ![p] = "none"]
        BY <2>15, <3>1 DEF SigchldReap
      <4>2. CASE jobs' = jobs /\ \A s \in Slots : jobs[s].pid # p
        BY <2>0, <3>0, <4>1, <4>2 DEF ListInv, NoReapedJobs, PidsDistinct, ForkedUnlisted
      <4>3. ASSUME NEW s \in Slots, jobs[s].pid = p, jobs' = [jobs EXCEPT ![s] = Clear]
            PROVE  ListInv'
        <5>1. \A t \in Slots : jobs'[t].pid = IF t = s THEN 0 ELSE jobs[t].pid
          BY <4>3 DEF Clear
        <5>2. \A t \in Slots \ {s} : jobs[t].pid # p
          BY <4>3, TshJobsAssumption DEF ListInv, PidsDistinct
        <5> QED BY <2>0, <3>0, <4>1, <5>1, <5>2
                DEF ListInv, NoReapedJobs, PidsDistinct, ForkedUnlisted
      <4> QED BY <4>1, <4>2, <4>3, DeleteJob
    <3>2. CASE proc[p] # "zombie"
      <4>1. \A s \in Slots : jobs'[s].pid = jobs[s].pid BY <2>15, <3>2 DEF SigchldReap, Job
      <4> QED BY <2>15, <2>a, <3>0, <3>2, <4>1 DEF SigchldReap
    <3> QED BY <3>1, <3>2
  <2>16. ASSUME NEW p \in Pids, ChildStart(p) \/ ChildExit(p) \/ ChildStop(p) \/ ChildContinued(p)
         PROVE  ListInv'
    <3>1. UNCHANGED <<shell, inHandler>>
      BY <2>16 DEF ChildStart, ChildExit, ChildStop, ChildContinued
    <3>2. \A q \in Pids : proc[q] # "none" => proc'[q] # "none"
      BY <2>16 DEF ChildStart, ChildExit, ChildStop, ChildContinued
    <3> QED BY <3>1, <3>2 DEF shell, ListInv, NoReapedJobs, PidsDistinct, ForkedUnlisted, Job
  <2>17. ASSUME NEW sig \in {"SIGINT", "SIGTSTP"}, Keyboard(sig) PROVE ListInv'
    BY <2>17 DEF Keyboard, shell, kernel, ListInv, NoReapedJobs, PidsDistinct, ForkedUnlisted
  <2>18. CASE UNCHANGED vars
    BY <2>18 DEF vars, shell, kernel, ListInv, NoReapedJobs, PidsDistinct, ForkedUnlisted
  <2> QED BY <2>1, <2>2, <2>3, <2>4, <2>5, <2>6, <2>7, <2>8, <2>9, <2>10, <2>11, <2>12, <2>13,
             <2>15, <2>16, <2>17, <2>18 DEF Next, Quit, SigquitHandler
<1>3. ListInv => NoReapedJobs /\ PidsDistinct BY DEF ListInv
<1> QED BY <1>1, <1>2, <1>3, TshTypeCorrect, PTL DEF Spec

-----------------------------------------------------------------------------
IsFG(s) == jobs[s].state = "FG"

\* Which jobs may be in the foreground, by what the main thread is doing: none
\* before it has put one there, then at most the one it is about to wait for.
\* The entry may have been cleared meanwhile: its pid and wpid are then both 0.
ForegroundInv ==
  /\ \A s, t \in Slots : IsFG(s) /\ IsFG(t) => s = t
  /\ pc \in {"prompt", "forked", "cont", "setstate", "exited"} => \A s \in Slots : ~IsFG(s)
  /\ pc = "readpid" => \A s \in Slots : IsFG(s) => s = slot
  /\ pc \in {"check", "presuspend", "suspend"} =>
       \A s \in Slots : IsFG(s) => jobs[s].pid = wpid

\* At most one job is in the foreground and none at the prompt, whatever
\* handlers run between the steps of eval, do_bgfg and waitfg.
THEOREM ForegroundSound == Spec => []AtMostOneFG
<1> USE DEF IsFG
<1>1. Init => ForegroundInv
  <2> SUFFICES ASSUME Init PROVE ForegroundInv OBVIOUS
  <2>1. \A s \in Slots : jobs[s].state = "UNDEF" BY DEF Init, NoJobs, Clear
  <2> QED BY <2>1 DEF ForegroundInv
<1>2. TypeOK /\ ForegroundInv /\ [Next]_vars => ForegroundInv'
  <2> SUFFICES ASSUME TypeOK, ForegroundInv, [Next]_vars PROVE ForegroundInv' OBVIOUS
  <2> USE DEF TypeOK
  <2>1. ASSUME NEW p \in Pids, NEW b \in BOOLEAN, Eval(p, b) PROVE ForegroundInv'
    BY <2>1 DEF Eval, Goto, At, ForegroundInv
  <2>2. ASSUME NEW s \in Slots, NEW b \in BOOLEAN, DoBgfg(s, b) PROVE ForegroundInv'
    BY <2>2 DEF DoBgfg, Goto, At, ForegroundInv
  <2>3. CASE EvalParent
    <3>1. pc = "forked" /\ pc' = IF bg THEN "prompt" ELSE "check" BY <2>3 DEF EvalParent, At, Goto
    <3>2. \A s \in Slots : ~IsFG(s) BY <3>1 DEF ForegroundInv
    <3> DEFINE st == IF bg THEN "BG" ELSE "FG"
               rec == [pid |-> wpid, jid |-> nextjid, state |-> st]
    <3>3. st \in States /\ jobs' = addjob(jobs, nextjid, wpid, st) /\ (bg => st # "FG")
      BY <2>3 DEF EvalParent, States
    <3>4. ~bg => wpid' = wpid BY <2>3 DEF EvalParent, Goto
    <3> HIDE DEF st
    <3>5. CASE jobs' = jobs BY <3>1, <3>2, <3>5 DEF ForegroundInv
    <3>6. ASSUME NEW s \in Slots, jobs' = [jobs EXCEPT ![s] = rec] PROVE ForegroundInv'
      <4>1. \A t \in Slots \ {s} : jobs'[t].state # "FG" BY <3>2, <3>6
      <4>2. jobs'[s].state = st /\ jobs'[s].pid = wpid BY <3>6
      <4>3. CASE bg BY <3>1, <3>3, <4>1, <4>2, <4>3 DEF ForegroundInv
      <4>4. CASE ~bg BY <3>1, <3>4, <4>1, <4>2, <4>4 DEF ForegroundInv
      <4> QED BY <4>3, <4>4
    <3>7. jobs' = jobs \/ \E s \in Slots : jobs' = [jobs EXCEPT ![s] = rec] BY <3>3, AddJob
    <3> QED BY <3>5, <3>6, <3>7
  <2>4. CASE SendCont BY <2>4 DEF SendCont, At, ForegroundInv
  <2>5. CASE SetState
    <3>1. pc = "setstate" /\ pc' = IF bg THEN "prompt" ELSE "readpid" BY <2>5 DEF SetState, At, Goto
    <3>2. \A s \in Slots : ~IsFG(s) BY <3>1 DEF ForegroundInv
    <3>3. \A s \in Slots : jobs'[s].state =
             IF s = slot THEN IF bg THEN "BG" ELSE "FG" ELSE jobs[s].state
      BY <2>5 DEF SetState, Job
    <3>4. ~bg => slot' = slot BY <2>5 DEF SetState, Goto
    <3> QED BY <3>1, <3>2, <3>3, <3>4 DEF ForegroundInv
  <2>6. CASE ReadPid BY <2>6 DEF ReadPid, Goto, At, ForegroundInv
  <2>7. CASE Check
    <3>1. pc = "check" /\ jobs' = jobs BY <2>7 DEF Check, At
    <3>2. CASE fgpid(jobs) = wpid
      BY <2>7, <3>1, <3>2 DEF Check, Goto, ForegroundInv
    <3>3. CASE fgpid(jobs) # wpid
      <4>1. \A s \in Slots : ~IsFG(s)
        <5> SUFFICES ASSUME NEW s \in Slots, IsFG(s) PROVE FALSE OBVIOUS
        <5> DEFINE F == {x \in Slots : jobs[x].state = "FG"}
        <5>1. F = {s} BY DEF ForegroundInv
        <5>2. FirstOf(F) \in F BY <5>1, FirstSlot
        <5>3. FirstOf(F) = s /\ s # 0 BY <5>1, <5>2, TshJobsAssumption DEF Slots
        <5>4. fgpid(jobs) = jobs[s].pid BY <5>3 DEF fgpid
        <5> QED BY <3>1, <3>3, <5>4 DEF ForegroundInv
      <4>2. pc' = "prompt" BY <2>7, <3>3 DEF Check, Goto
      <4> QED BY <3>1, <4>1, <4>2 DEF ForegroundInv
    <3> QED BY <3>2, <3>3
  <2>8. CASE Suspend BY <2>8 DEF Suspend, At, ForegroundInv
  <2>9. ASSUME Exit PROVE ForegroundInv'
    <3>1. \A s \in Slots : jobs'[s].state = "UNDEF" BY <2>9 DEF Exit, NoJobs, Clear
    <3> QED BY <2>9, <3>1 DEF Exit, ForegroundInv
  <2>10. CASE SigchldEnter BY <2>10 DEF SigchldEnter, shell, ForegroundInv
  <2>11. CASE SigchldExit BY <2>11 DEF SigchldExit, PcAfterHandler, ForegroundInv
  <2>12. CASE SigintHandler BY <2>12 DEF SigintHandler, PcAfterHandler, ForegroundInv
  <2>13. CASE SigtstpHandler BY <2>13 DEF SigtstpHandler, PcAfterHandler, ForegroundInv
  <2>15. ASSUME NEW p \in Pids, SigchldReap(p) PROVE ForegroundInv'
    <3>1. \A s \in Slots : IsFG(s)' => IsFG(s) /\ jobs'[s].pid = jobs[s].pid
      <4>1. CASE proc[p] = "zombie"
        <5>1. jobs' = deletejob(jobs, p) BY <2>15, <4>1 DEF SigchldReap
        <5>2. jobs' = jobs \/ \E s \in Slots : jobs' = [jobs EXCEPT ![s] = Clear]
          BY <5>1, DeleteJob
        <5> QED BY <5>2 DEF Clear
      <4>2. CASE proc[p] # "zombie" BY <2>15, <4>2 DEF SigchldReap, Job
      <4> QED BY <4>1, <4>2
    <3>2. UNCHANGED <<pc, wpid, slot>> BY <2>15 DEF SigchldReap
    <3> QED BY <3>1, <3>2 DEF ForegroundInv
  <2>16. ASSUME NEW p \in Pids, ChildStart(p) \/ ChildExit(p) \/ ChildStop(p) \/ ChildContinued(p)
         PROVE  ForegroundInv'
    <3>1. UNCHANGED shell BY <2>16 DEF ChildStart, ChildExit, ChildStop, ChildContinued
    <3> QED BY <3>1 DEF shell, ForegroundInv
  <2>17. ASSUME NEW sig \in {"SIGINT", "SIGTSTP"}, Keyboard(sig) PROVE ForegroundInv'
    BY <2>17 DEF Keyboard, shell, ForegroundInv
  <2>18. CASE UNCHANGED vars BY <2>18 DEF vars, shell, ForegroundInv
  <2> QED BY <2>1, <2>2, <2>3, <2>4, <2>5, <2>6, <2>7, <2>8, <2>9, <2>10, <2>11, <2>12, <2>13,
             <2>15, <2>16, <2>17, <2>18 DEF Next, Quit, SigquitHandler
<1>3. ForegroundInv => AtMostOneFG BY DEF ForegroundInv, AtMostOneFG
<1> QED BY <1>1, <1>2, <1>3, TshTypeCorrect, PTL DEF Spec

\* No dead or newly stopped child is forgotten: while one is there to report,
\* a SIGCHLD is pending or the handler is still in its loop.
THEOREM ReapingSound == Spec => []ReapIsDue
<1> USE DEF Alive, Reportable
<1>1. Init => ReapIsDue BY DEF Init, ReapIsDue
<1>2. TypeOK /\ ReapIsDue /\ [Next]_vars => ReapIsDue'
  <2> SUFFICES ASSUME TypeOK, ReapIsDue, [Next]_vars PROVE ReapIsDue' OBVIOUS
  \* A step with no new child to report that takes back no SIGCHLD.
  <2>a. ASSUME Alive' => Alive, Reportable' \subseteq Reportable,
               "SIGCHLD" \in pending => "SIGCHLD" \in pending', inHandler => inHandler'
        PROVE  ReapIsDue'
    BY <2>a DEF ReapIsDue
  <2>b. ASSUME "SIGCHLD" \in pending' \/ inHandler' PROVE ReapIsDue' BY <2>b DEF ReapIsDue
  <2> USE DEF TypeOK
  <2>1. ASSUME NEW p \in Pids, NEW b \in BOOLEAN, Eval(p, b) PROVE ReapIsDue'
    BY <2>1, <2>a DEF Eval, At
  <2>2. ASSUME NEW s \in Slots, NEW b \in BOOLEAN, DoBgfg(s, b) PROVE ReapIsDue'
    BY <2>2, <2>a DEF DoBgfg, At, kernel
  <2>3. CASE EvalParent BY <2>3, <2>a DEF EvalParent, At, kernel
  <2>4. CASE SendCont BY <2>4, <2>a, <2>b DEF SendCont, At, Continue, kernel
  <2>5. CASE SetState BY <2>5, <2>a DEF SetState, At, kernel
  <2>6. CASE ReadPid BY <2>6, <2>a DEF ReadPid, At, kernel
  <2>7. CASE Check BY <2>7, <2>a DEF Check, At, kernel
  <2>8. CASE Suspend BY <2>8, <2>a DEF Suspend, At, kernel
  <2>9. ASSUME Exit PROVE ReapIsDue' BY <2>9 DEF Exit, ReapIsDue
  <2>10. CASE SigchldEnter BY <2>10, <2>b DEF SigchldEnter
  <2>11. CASE SigchldExit BY <2>11 DEF SigchldExit, ReapingDone, ReapIsDue, kernel
  <2>12. CASE SigintHandler BY <2>12, <2>a, <2>b DEF SigintHandler, Deliverable
  <2>13. CASE SigtstpHandler BY <2>13, <2>a, <2>b DEF SigtstpHandler, Deliverable
  <2>15. ASSUME NEW p \in Pids, SigchldReap(p) PROVE ReapIsDue' BY <2>15, <2>b DEF SigchldReap
  <2>16. ASSUME NEW p \in Pids, ChildStart(p) PROVE ReapIsDue'
    BY <2>16, <2>a DEF ChildStart
  <2>17. ASSUME NEW p \in Pids, ChildExit(p) \/ ChildStop(p) \/ ChildContinued(p)
         PROVE  ReapIsDue'
    BY <2>17, <2>b DEF ChildExit, ChildStop, ChildContinued
  <2>18. ASSUME NEW sig \in {"SIGINT", "SIGTSTP"}, Keyboard(sig) PROVE ReapIsDue'
    BY <2>18, <2>a DEF Keyboard, kernel, shell
  <2>19. CASE UNCHANGED vars BY <2>19 DEF vars, shell, kernel, ReapIsDue
  <2> QED BY <2>1, <2>2, <2>3, <2>4, <2>5, <2>6, <2>7, <2>8, <2>9, <2>10, <2>11, <2>12, <2>13,
             <2>15, <2>16, <2>17, <2>18, <2>19 DEF Next, Quit, SigquitHandler
<1> QED BY <1>1, <1>2, TshTypeCorrect, PTL DEF Spec
====
