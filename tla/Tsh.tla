-------------------------------- MODULE Tsh --------------------------------
(***************************************************************************)
(* The shell tsh.c: one main thread, interrupted by its own signal         *)
(* handlers, which share the job list with it, and the children it forks.  *)
(*                                                                         *)
(* The main thread is a program counter pc.  A step of the main thread is  *)
(* the code between two points where an unblocked signal can be delivered  *)
(* and change what the code reads next.  sigint_handler and                *)
(* sigtstp_handler are one step each: what they read (fgpid) and what they *)
(* send commute with the handler that could interrupt them.  Pids are      *)
(* handed out again once their process is reaped.                          *)
(***************************************************************************)
EXTENDS TshJobs

CONSTANT MaxJid   \* bound on the job ids of the model: tsh.c has none

VARIABLES
  jobs, nextjid,  \* the job list and the next job id
  pc,             \* where the main thread is
  wpid,           \* eval's pid, then waitfg's argument
  bg,             \* eval's bg flag, and "the command is bg" in do_bgfg
  slot,           \* do_bgfg's job pointer
  pending,        \* signals pending for the shell
  inHandler,      \* sigchld_handler is running
  proc,           \* the kernel's view of every child
  stopNews,       \* stopped children waitpid(WUNTRACED) has not reported
  intPending,     \* stopped children with a SIGINT pending
  contNews        \* continued children whose SIGCHLD is still to be raised

shell == <<jobs, nextjid, pc, wpid, bg, slot>>
kernel == <<proc, stopNews, intPending, contNews>>
vars == <<shell, pending, inHandler, kernel>>

Signals == {"SIGCHLD", "SIGINT", "SIGTSTP"}
ProcStates == {"none", "forked", "running", "stopped", "zombie"}
PCs == {"prompt", "forked", "cont", "setstate", "readpid", "check", "presuspend",
        "suspend", "exited"}

Init ==
  /\ jobs = NoJobs /\ nextjid = 1
  /\ pc = "prompt" /\ wpid = 0 /\ bg = FALSE /\ slot = 1
  /\ pending = {} /\ inHandler = FALSE
  /\ proc = [p \in Pids |-> "none"]
  /\ stopNews = {} /\ intPending = {} /\ contNews = {}

(***************************************************************************)
(* The main thread.                                                        *)
(***************************************************************************)
Alive == pc # "exited"

At(l) == pc = l /\ ~inHandler

\* The thread goes on at l; the locals of eval and do_bgfg die at the prompt.
Goto(l, w, b, s) ==
  /\ pc' = l
  /\ wpid' = IF l = "prompt" THEN 0 ELSE w
  /\ bg' = (l # "prompt" /\ b)
  /\ slot' = IF l = "prompt" THEN 1 ELSE s

\* Mutant of Blocked: eval forks with its signals unblocked.
NeverBlocked == FALSE

\* sigprocmask(SIG_BLOCK): eval blocks every signal around fork and addjob.
Blocked == pc = "forked"

\* eval, up to the fork.
Eval(p, b) ==
  /\ At("prompt")
  /\ proc[p] = "none"
  /\ nextjid <= MaxJid
  /\ Goto("forked", p, b, slot)
  /\ proc' = [proc EXCEPT ![p] = "forked"]
  /\ UNCHANGED <<jobs, nextjid, pending, inHandler, stopNews, intPending, contNews>>

\* eval in the parent: addjob, unblock, and waitfg for a foreground job.
EvalParent ==
  /\ At("forked")
  /\ jobs' = addjob(jobs, nextjid, wpid, IF bg THEN "BG" ELSE "FG")
  /\ nextjid' = nextAfterAdd(jobs, nextjid)
  /\ Goto(IF bg THEN "prompt" ELSE "check", wpid, bg, slot)
  /\ UNCHANGED <<pending, inHandler, kernel>>

\* exit(): the shell's memory and its pending signals are gone, its children
\* are not.
Exit ==
  /\ pc' = "exited" /\ wpid' = 0 /\ bg' = FALSE /\ slot' = 1
  /\ jobs' = NoJobs /\ nextjid' = 1
  /\ pending' = {} /\ inHandler' = FALSE
  /\ UNCHANGED kernel

\* builtin_cmd: quit; main: end of file.
Quit == At("prompt") /\ Exit

\* do_bgfg, up to the job pointer: the user names a listed job by pid or jid.
DoBgfg(s, b) ==
  /\ At("prompt")
  /\ \/ \E p \in Pids : s = getjobpid(jobs, p)
     \/ \E j \in 1 .. MaxJid : s = getjobjid(jobs, j)
  /\ Goto("cont", wpid, b, s)
  /\ UNCHANGED <<jobs, nextjid, pending, inHandler, kernel>>

\* The kernel on SIGCONT: a stopped child runs on, its unreported stop is
\* forgotten; one with a SIGINT pending dies of it.
Continue(p) ==
  IF p \notin Pids \/ proc[p] # "stopped" THEN UNCHANGED <<kernel, pending>>
  ELSE /\ stopNews' = stopNews \ {p}
       /\ intPending' = intPending \ {p}
       /\ IF p \in intPending
            THEN /\ proc' = [proc EXCEPT ![p] = "zombie"]
                 /\ pending' = pending \cup {"SIGCHLD"}
                 /\ UNCHANGED contNews
            ELSE /\ proc' = [proc EXCEPT ![p] = "running"]
                 /\ contNews' = contNews \cup {p}
                 /\ UNCHANGED pending

\* kill(-(job->pid), SIGCONT): the slot may have been cleared, its pid is then
\* 0 and the signal goes to the shell's own group, where it has no effect.
SendCont ==
  /\ At("cont")
  /\ Continue(jobs[slot].pid)
  /\ pc' = "setstate"
  /\ UNCHANGED <<jobs, nextjid, wpid, bg, slot, inHandler>>

\* Mutant of SetState: fg does not wait.
SetStateNoWait ==
  /\ At("setstate")
  /\ jobs' = [jobs EXCEPT ![slot].state = IF bg THEN "BG" ELSE "FG"]
  /\ Goto("prompt", wpid, bg, slot)
  /\ UNCHANGED <<nextjid, pending, inHandler, kernel>>

\* job->state = FG or BG, whatever became of the job since.
SetState ==
  /\ At("setstate")
  /\ jobs' = [jobs EXCEPT ![slot].state = IF bg THEN "BG" ELSE "FG"]
  /\ Goto(IF bg THEN "prompt" ELSE "readpid", wpid, bg, slot)
  /\ UNCHANGED <<nextjid, pending, inHandler, kernel>>

\* The argument of do_bgfg's waitfg(job->pid).
ReadPid ==
  /\ At("readpid")
  /\ Goto("check", jobs[slot].pid, FALSE, 1)
  /\ UNCHANGED <<jobs, nextjid, pending, inHandler, kernel>>

\* waitfg: the loop's test.
Check ==
  /\ At("check")
  /\ Goto(IF fgpid(jobs) = wpid THEN "presuspend" ELSE "prompt", wpid, bg, slot)
  /\ UNCHANGED <<jobs, nextjid, pending, inHandler, kernel>>

\* waitfg: sigsuspend is entered.
Suspend ==
  /\ At("presuspend")
  /\ pc' = "suspend"
  /\ UNCHANGED <<jobs, nextjid, wpid, bg, slot, pending, inHandler, kernel>>

Main == EvalParent \/ SendCont \/ SetState \/ ReadPid \/ Check \/ Suspend

(***************************************************************************)
(* The signal handlers.  sigsuspend returns when a handler has run.        *)
(***************************************************************************)
Deliverable(sig) == sig \in pending /\ ~Blocked /\ Alive

PcAfterHandler == IF pc = "suspend" THEN "check" ELSE pc

SigchldEnter ==
  /\ Deliverable("SIGCHLD") /\ ~inHandler
  /\ pending' = pending \ {"SIGCHLD"}
  /\ inHandler' = TRUE
  /\ UNCHANGED <<shell, kernel>>

\* What waitpid(-1, WNOHANG | WUNTRACED) can return.
Reportable == {p \in Pids : proc[p] = "zombie" \/ p \in stopNews}

\* One turn of the loop: the job of a dead child is deleted, that of a stopped
\* child marked ST.
SigchldReap(p) ==
  /\ inHandler /\ Alive
  /\ p \in Reportable
  /\ IF proc[p] = "zombie"
       THEN /\ proc' = [proc EXCEPT ![p] = "none"]
            /\ jobs' = deletejob(jobs, p)
            /\ nextjid' = nextAfterDelete(jobs, nextjid, p)
       ELSE /\ jobs' = IF getjobpid(jobs, p) = 0 THEN jobs
                       ELSE [jobs EXCEPT ![getjobpid(jobs, p)].state = "ST"]
            /\ UNCHANGED <<proc, nextjid>>
  /\ stopNews' = stopNews \ {p}
  /\ UNCHANGED <<pc, wpid, bg, slot, pending, inHandler, intPending, contNews>>

\* Mutant of ReapingDone: if in the place of while, not every child is reaped.
ReapedSome == TRUE

\* The loop goes on until nothing is left to report.
ReapingDone == Reportable = {}

SigchldExit ==
  /\ inHandler /\ Alive
  /\ ReapingDone
  /\ inHandler' = FALSE
  /\ pc' = PcAfterHandler
  /\ UNCHANGED <<jobs, nextjid, wpid, bg, slot, pending, kernel>>

\* sigint_handler: a running child dies, a stopped one once it is continued; a
\* child that has not reached execve swallows the signal.
SigintHandler ==
  LET p == fgpid(jobs)
      hits == p \in Pids /\ proc[p] = "running"
  IN  /\ Deliverable("SIGINT")
      /\ pending' = (pending \ {"SIGINT"}) \cup (IF hits THEN {"SIGCHLD"} ELSE {})
      /\ proc' = IF hits THEN [proc EXCEPT ![p] = "zombie"] ELSE proc
      /\ intPending' = IF p \in Pids /\ proc[p] = "stopped" THEN intPending \cup {p} ELSE intPending
      /\ pc' = IF inHandler THEN pc ELSE PcAfterHandler
      /\ UNCHANGED <<jobs, nextjid, wpid, bg, slot, inHandler, stopNews, contNews>>

\* sigtstp_handler: a running child stops.
SigtstpHandler ==
  LET p == fgpid(jobs)
      hits == p \in Pids /\ proc[p] = "running"
  IN  /\ Deliverable("SIGTSTP")
      /\ pending' = (pending \ {"SIGTSTP"}) \cup (IF hits THEN {"SIGCHLD"} ELSE {})
      /\ proc' = IF hits THEN [proc EXCEPT ![p] = "stopped"] ELSE proc
      /\ stopNews' = IF hits THEN stopNews \cup {p} ELSE stopNews
      /\ pc' = IF inHandler THEN pc ELSE PcAfterHandler
      /\ UNCHANGED <<jobs, nextjid, wpid, bg, slot, inHandler, intPending, contNews>>

\* sigquit_handler: the driver ends the shell.
SigquitHandler == Alive /\ ~Blocked /\ Exit

(***************************************************************************)
(* The children and the keyboard, for as long as the shell lives.          *)
(***************************************************************************)
\* The child sets its process group and calls execve.
ChildStart(p) ==
  /\ Alive /\ proc[p] = "forked"
  /\ proc' = [proc EXCEPT ![p] = "running"]
  /\ UNCHANGED <<shell, pending, inHandler, stopNews, intPending, contNews>>

\* A child exits by itself; "Command not found" exits before execve.
ChildExit(p) ==
  /\ Alive /\ proc[p] \in {"forked", "running"}
  /\ proc' = [proc EXCEPT ![p] = "zombie"]
  /\ pending' = pending \cup {"SIGCHLD"}
  /\ contNews' = contNews \ {p}
  /\ UNCHANGED <<shell, inHandler, stopNews, intPending>>

\* A child stops itself (the traces' mystop raises SIGTSTP).
ChildStop(p) ==
  /\ Alive /\ proc[p] = "running"
  /\ proc' = [proc EXCEPT ![p] = "stopped"]
  /\ stopNews' = stopNews \cup {p}
  /\ pending' = pending \cup {"SIGCHLD"}
  /\ contNews' = contNews \ {p}
  /\ UNCHANGED <<shell, inHandler, intPending>>

\* SIGCHLD for a child that continued: the handler is installed without
\* SA_NOCLDSTOP.
ChildContinued(p) ==
  /\ Alive /\ p \in contNews
  /\ contNews' = contNews \ {p}
  /\ pending' = pending \cup {"SIGCHLD"}
  /\ UNCHANGED <<shell, inHandler, proc, stopNews, intPending>>

Keyboard(sig) ==
  /\ Alive /\ sig \notin pending
  /\ pending' = pending \cup {sig}
  /\ UNCHANGED <<shell, inHandler, kernel>>

Next ==
  \/ \E p \in Pids, b \in BOOLEAN : Eval(p, b)
  \/ \E s \in Slots, b \in BOOLEAN : DoBgfg(s, b)
  \/ EvalParent \/ SendCont \/ SetState \/ ReadPid \/ Check \/ Suspend \/ Quit
  \/ SigchldEnter \/ SigchldExit \/ SigintHandler \/ SigtstpHandler \/ SigquitHandler
  \/ \E p \in Pids : \/ SigchldReap(p) \/ ChildStart(p) \/ ChildExit(p) \/ ChildStop(p)
                      \/ ChildContinued(p)
  \/ Keyboard("SIGINT") \/ Keyboard("SIGTSTP")

Spec == Init /\ [][Next]_vars

\* The main thread and a running handler go on; the kernel delivers a pending
\* signal at the latest when the shell returns to user mode with it unblocked,
\* so delivery is strongly fair: sigprocmask blocks it only for a while.
\* Nothing is assumed of the user or of what children do once they run.
FairSpec ==
  /\ Spec
  /\ WF_vars(Main)
  /\ WF_vars(SigchldExit \/ \E p \in Pids : SigchldReap(p))
  /\ SF_vars(SigchldEnter)
  /\ \A p \in Pids : WF_vars(ChildContinued(p))
-----------------------------------------------------------------------------
TypeOK ==
  /\ jobs \in [Slots -> Job]
  /\ nextjid \in Nat \ {0}
  /\ pc \in PCs
  /\ wpid \in Pids \cup {0}
  /\ bg \in BOOLEAN /\ inHandler \in BOOLEAN
  /\ slot \in Slots
  /\ pending \subseteq Signals
  /\ proc \in [Pids -> ProcStates]
  /\ stopNews \subseteq Pids /\ intPending \subseteq Pids /\ contNews \subseteq Pids

\* At most one job is in state FG, as the comment on the job states says,
\* however fg commands, launches, stops and terminations interleave; and while
\* the shell reads commands none is, or a process would hold the terminal
\* behind the prompt.
AtMostOneFG ==
  /\ \A s, t \in Slots : jobs[s].state = "FG" /\ jobs[t].state = "FG" => s = t
  /\ pc = "prompt" => \A s \in Slots : jobs[s].state # "FG"

\* The list never names a process that has been reaped: a child cannot be
\* reaped before eval has added it (the reason eval blocks signals), and a
\* reaped child's entry does not come back.
NoReapedJobs == \A s \in Slots : jobs[s].pid # 0 => proc[jobs[s].pid] # "none"

\* sigchld_handler "reaps all available zombie children": while a child is dead
\* or its stop unreported, a SIGCHLD is pending or the handler is still in its
\* loop, though the signals of several children merge into one.
ReapIsDue == Alive /\ Reportable # {} => "SIGCHLD" \in pending \/ inHandler

\* waitfg blocks only "until process pid is no longer the foreground process".
WaitfgReturns == (pc = "suspend" /\ fgpid(jobs) # wpid) ~> pc # "suspend"
=============================================================================
