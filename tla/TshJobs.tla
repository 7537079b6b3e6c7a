------------------------------ MODULE TshJobs ------------------------------
(***************************************************************************)
(* The job list of tsh.c (CMU-CSAPP-master/shlab/shlab-handout): an array  *)
(* of MAXJOBS slots, each with a pid, a job id and a state; pid 0 marks a  *)
(* free slot.  The operators take the array as an argument: the shell and  *)
(* its signal handlers share it.                                           *)
(***************************************************************************)
EXTENDS Naturals, FiniteSetsExt

CONSTANTS MAXJOBS,  \* number of slots
          Pids      \* process ids the kernel hands out, all positive

ASSUME TshJobsAssumption == MAXJOBS \in Nat \ {0} /\ Pids \subseteq Nat \ {0}

Slots == 1 .. MAXJOBS
States == {"UNDEF", "FG", "BG", "ST"}
Job == [pid : Pids \cup {0}, jid : Nat, state : States]

\* clearjob
Clear == [pid |-> 0, jid |-> 0, state |-> "UNDEF"]

\* initjobs
NoJobs == [s \in Slots |-> Clear]

\* The lowest slot that satisfies a test of the loops below, 0 if none does.
FirstOf(S) == IF S = {} THEN 0 ELSE Min(S)

FreeSlot(jobs) == FirstOf({s \in Slots : jobs[s].pid = 0})
getjobpid(jobs, pid) == FirstOf({s \in Slots : pid >= 1 /\ jobs[s].pid = pid})
getjobjid(jobs, jid) == FirstOf({s \in Slots : jid >= 1 /\ jobs[s].jid = jid})
maxjid(jobs) == Max({jobs[s].jid : s \in Slots} \cup {0})

\* fgpid: the pid of the first slot in state FG, 0 if there is none.
fgpid(jobs) == LET s == FirstOf({x \in Slots : jobs[x].state = "FG"})
               IN  IF s = 0 THEN 0 ELSE jobs[s].pid

\* addjob: the list is unchanged when it is full.
addjob(jobs, next, pid, state) ==
  LET s == FreeSlot(jobs)
  IN  IF s = 0 THEN jobs ELSE [jobs EXCEPT ![s] = [pid |-> pid, jid |-> next, state |-> state]]

\* nextjid after addjob: it wraps to 1 beyond MAXJOBS.
nextAfterAdd(jobs, next) ==
  IF FreeSlot(jobs) = 0 THEN next ELSE IF next + 1 > MAXJOBS THEN 1 ELSE next + 1

\* deletejob, and nextjid after it: one more than the largest id left.
deletejob(jobs, pid) ==
  LET s == getjobpid(jobs, pid) IN IF s = 0 THEN jobs ELSE [jobs EXCEPT ![s] = Clear]

\* Mutant of nextAfterDelete: the largest id itself.
nextAfterDeleteShort(jobs, next, pid) ==
  IF getjobpid(jobs, pid) = 0 THEN next ELSE maxjid(deletejob(jobs, pid))

nextAfterDelete(jobs, next, pid) ==
  IF getjobpid(jobs, pid) = 0 THEN next ELSE maxjid(deletejob(jobs, pid)) + 1
=============================================================================
