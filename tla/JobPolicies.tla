---------------------------- MODULE JobPolicies -----------------------------
(***************************************************************************)
(* The job schedulers of cpu-sched/scheduler.py (FIFO, SJF, RR) and        *)
(* cpu-sched-lottery/lottery.py.  A step is one turn of the main loop: a   *)
(* job runs to its end, or for a quantum.                                  *)
(***************************************************************************)
EXTENDS Integers, Sequences, FiniteSets, FiniteSetsExt, SequencesExt, Functions

CONSTANTS Joblists,   \* sequences of [runtime, tickets]
          Policies,   \* among "FIFO", "SJF", "RR", "LOTTERY"
          Quanta

VARIABLES joblist, policy, quantum,
          runlist,            \* <<job, time left>> in the order they are to run
          thetime,
          response, turnaround, wait, lastran,   \* statistics of each job
          tickTotal, rounds   \* of the lottery: tickets in play and turns of its loop

stats == <<response, turnaround, wait, lastran>>
vars == <<joblist, policy, quantum, runlist, thetime, stats, tickTotal, rounds>>

NEVER == -1
Jobs == DOMAIN joblist
Sum(f) == FoldFunction(LAMBDA x, sum : x + sum, 0, f)
RunTotal == Sum([j \in Jobs |-> joblist[j].runtime])
Listed(jobs) == [j \in DOMAIN jobs |-> <<j, jobs[j].runtime>>]
(* Python's sort is stable: equal jobs stay in order. *)
Unsorted(jobs) == Listed(jobs)
ShortestFirst(jobs) ==
  SortSeq(Listed(jobs), LAMBDA a, b : a[2] < b[2] \/ (a[2] = b[2] /\ a[1] < b[1]))

Init ==
  /\ joblist \in Joblists /\ policy \in Policies
  /\ quantum \in IF policy \in {"RR", "LOTTERY"} THEN Quanta ELSE {RunTotal}
  /\ runlist = IF policy = "SJF" THEN ShortestFirst(joblist) ELSE Listed(joblist)
  /\ thetime = 0 /\ rounds = 0
  /\ response = [j \in Jobs |-> NEVER]
  /\ turnaround = [j \in Jobs |-> 0] /\ wait = [j \in Jobs |-> 0] /\ lastran = [j \in Jobs |-> 0]
  /\ tickTotal = Sum([j \in Jobs |-> joblist[j].tickets])

Left(j) == IF \E k \in DOMAIN runlist : runlist[k][1] = j
             THEN runlist[CHOOSE k \in DOMAIN runlist : runlist[k][1] = j][2] ELSE 0
Unfinished == {j \in Jobs : turnaround[j] = 0}

(* RR: a job that has more than a quantum left goes to the back.  FIFO and  *)
(* SJF run it to its end.                                                   *)
Ran(left) == Min({left, quantum})
Back(job) == IF job[2] > quantum THEN <<<<job[1], job[2] - quantum>>>> ELSE <<>>
RunTurn ==
  /\ policy # "LOTTERY" /\ runlist # <<>>
  /\ LET j == Head(runlist)[1]
         left == Head(runlist)[2]
     IN /\ runlist' = Tail(runlist) \o Back(Head(runlist))
        /\ response' = [response EXCEPT ![j] = IF @ = NEVER THEN thetime ELSE @]
        /\ wait' = [wait EXCEPT ![j] = @ + thetime - lastran[j]]
        /\ thetime' = thetime + Ran(left)
        /\ lastran' = [lastran EXCEPT ![j] = thetime']
        /\ turnaround' = [turnaround EXCEPT ![j] = IF left > quantum THEN @ ELSE thetime']
  /\ UNCHANGED <<joblist, policy, quantum, tickTotal, rounds>>

(* The lottery walks the list to the ticket drawn; finished jobs have none. *)
Tickets(j) == IF j \in Unfinished THEN joblist[j].tickets ELSE 0
Winner(ticket) == Min({j \in Jobs : Sum([i \in 1..j |-> Tickets(i)]) > ticket})
MaxRoundsOfJobs == Len(joblist)
MaxRounds == RunTotal
Draw(ticket) ==
  /\ policy = "LOTTERY" /\ Unfinished # {} /\ rounds < MaxRounds
  /\ LET j == Winner(ticket)
         left == Max({0, Left(j) - quantum})
     IN /\ runlist' = [k \in DOMAIN runlist |-> IF runlist[k][1] = j THEN <<j, left>> ELSE runlist[k]]
        /\ thetime' = thetime + quantum
        /\ turnaround' = [turnaround EXCEPT ![j] = IF left = 0 THEN thetime' ELSE @]
        /\ tickTotal' = IF left = 0 THEN tickTotal - joblist[j].tickets ELSE tickTotal
        /\ rounds' = rounds + 1
  /\ UNCHANGED <<joblist, policy, quantum, response, wait, lastran>>

Next == RunTurn \/ \E ticket \in 0..tickTotal - 1 : Draw(ticket)
Spec == Init /\ [][Next]_vars /\ WF_vars(Next)
-----------------------------------------------------------------------------
TypeOK ==
  /\ joblist \in Joblists /\ policy \in Policies
  /\ \A k \in DOMAIN runlist : runlist[k][1] \in Jobs /\ runlist[k][2] \in 0..RunTotal
  /\ \A j \in Jobs : response[j] <= thetime /\ turnaround[j] <= thetime /\ lastran[j] <= thetime

(* A job that is not finished has one place in the list and time left; the  *)
(* tickets in play are those of the jobs that are not finished.             *)
OnePlace ==
  \A j \in Jobs :
    /\ (j \in Unfinished) = (Left(j) > 0)
    /\ Cardinality({k \in DOMAIN runlist : runlist[k][1] = j}) <= 1
    /\ policy = "LOTTERY" => tickTotal = Sum([i \in Jobs |-> Tickets(i)])

(* What a list of jobs run one after the other adds up to in turnaround. *)
TurnaroundOf(order) ==
  Sum([n \in DOMAIN order |-> Sum([k \in 1..n |-> joblist[order[k]].runtime])])

(* Round robin keeps any two unfinished jobs within a quantum of each other, *)
(* and the time a job has waited and run adds up to its turnaround; the      *)
(* order of SJF makes the average turnaround as small as any order does; the *)
(* winner of a lottery is a job with time left.                              *)
FairShare ==
  /\ policy = "RR" => \A i, j \in Unfinished :
       (joblist[i].runtime - Left(i)) - (joblist[j].runtime - Left(j)) <= quantum
  /\ policy # "LOTTERY" => \A j \in Jobs \ Unfinished : turnaround[j] = wait[j] + joblist[j].runtime
  /\ policy = "SJF" /\ Unfinished = {} =>
       \A order \in SetToSeqs(Jobs) : Sum(turnaround) <= TurnaroundOf(order)
  /\ policy = "LOTTERY" => \A ticket \in 0..tickTotal - 1 : Winner(ticket) \in Unfinished

(* Every job ends: for a lottery, one round for each unit of run time is    *)
(* enough, whatever tickets are drawn.                                      *)
Termination == <>(Unfinished = {})
=============================================================================
