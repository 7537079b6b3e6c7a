------------------------------ MODULE MultiCPU ------------------------------
(***************************************************************************)
(* The multiprocessor scheduler of cpu-sched-multi/multi.py: one queue for *)
(* all processors or one for each (-p), from which processors that have    *)
(* none steal, and a cache for each processor in which a job gets warm and *)
(* then runs faster.  A tick of the simulation is a step for the end of a  *)
(* time slice, then one for each processor that may steal, is given a job  *)
(* and runs.                                                               *)
(***************************************************************************)
EXTENDS Integers, Sequences, FiniteSets, FiniteSetsExt, SequencesExt

CONSTANTS CPUs,       \* 0..n - 1
          Workloads,  \* sequences of [run_time, working_set_size, affinity]
          Options     \* [per_cpu, peek_interval, time_slice, random_order, cache_size, warmup_time]

VARIABLES jobs,          \* the workload
          time_left,     \* of each job
          finished,      \* the jobs that have ended
          sched_queue,   \* by processor; by 0 alone if it is central
          sched_current, \* the job each processor runs, or IDLE
          cache_contents, cache_warming,  \* of each processor: its warm jobs, and how long for the others
          system_time,
          pc,            \* the part of the tick: "interrupts", "steal", "assign" or "run"
          todo,          \* the processors still to do it
          options

caches == <<cache_contents, cache_warming>>
vars == <<jobs, time_left, finished, sched_queue, sched_current, caches, system_time, pc, todo, options>>

IDLE == 0
WARM_RATE == 2     \* the -r option's default
Jobs == DOMAIN jobs
Order == [k \in 1..Cardinality(CPUs) |-> k - 1]
QueueOf(cpu) == IF options.per_cpu THEN cpu ELSE 0

Allowed(job, cpu) == job.affinity = {} \/ cpu \in job.affinity
MayRun(cpu) == {j \in Jobs : Allowed(jobs[j], cpu)}
FirstIn(queue, S) == SelectInSeq(queue, LAMBDA j : j \in S)

(* Each processor in turn is given the first job left that may run on it. *)
DealtTo(w, cpu, T) ==
  LET k == FirstIn(T.left, {j \in DOMAIN w : Allowed(w[j], cpu)})
  IN IF k = 0 THEN T
     ELSE [left |-> RemoveAt(T.left, k), queue |-> [T.queue EXCEPT ![cpu] = Append(@, T.left[k])]]
Dealt(w) ==
  LET dealt[n \in 0..Len(w) * Len(Order)] ==
        IF n = 0 THEN [left |-> [j \in DOMAIN w |-> j], queue |-> [cpu \in CPUs |-> <<>>]]
        ELSE DealtTo(w, (n - 1) % Len(Order), dealt[n - 1])
  IN dealt[Len(w) * Len(Order)].queue

Init ==
  /\ jobs \in Workloads /\ options \in Options
  /\ time_left = [j \in Jobs |-> jobs[j].run_time]
  /\ finished = {}
  /\ sched_queue = IF options.per_cpu THEN Dealt(jobs) ELSE [q \in {0} |-> [j \in Jobs |-> j]]
  /\ sched_current = [cpu \in CPUs |-> IDLE]
  /\ cache_contents = [cpu \in CPUs |-> <<>>]
  /\ cache_warming = [cpu \in CPUs |-> [j \in {} |-> 0]]
  /\ system_time = 0 /\ pc = "interrupts" /\ todo = <<>>

(* Caches. *)
WorkingSets(contents) == FoldSeq(LAMBDA j, sum : jobs[j].working_set_size + sum, 0, contents)
Counters(cpu, new) ==
  [i \in DOMAIN cache_warming[cpu] \cup new |-> IF i \in new THEN options.warmup_time ELSE cache_warming[cpu][i]]
Without(counters, j) == [i \in DOMAIN counters \ {j} |-> counters[i]]

(* A job that gets warm comes first, and those at the end are put out until *)
(* what is left fits (adjust_size); one too big puts all out, itself last.  *)
KeptAll(contents) == Len(contents)
Kept(contents) ==
  Max({n \in 0..Len(contents) : WorkingSets(SubSeq(contents, 1, n)) <= options.cache_size})
BecomesWarm(cpu, j) ==
  \E contents \in {<<j>> \o cache_contents[cpu]} : \E n \in {Kept(contents)} :
    /\ cache_contents' = [cache_contents EXCEPT ![cpu] = SubSeq(contents, 1, n)]
    /\ cache_warming' =
         [cache_warming EXCEPT ![cpu] = LET out == Range(SubSeq(contents, n + 1, Len(contents)))
                                        IN IF j \in out THEN Counters(cpu, out) ELSE Without(Counters(cpu, out), j)]

IsWarm(cpu, j) == j \in Range(cache_contents[cpu])
NewJob(cpu, j) ==
  CASE IsWarm(cpu, j) \/ j \in DOMAIN cache_warming[cpu] -> UNCHANGED caches
    [] ~IsWarm(cpu, j) /\ j \notin DOMAIN cache_warming[cpu] /\ options.warmup_time = 0 -> BecomesWarm(cpu, j)
    [] OTHER -> /\ cache_warming' = [cache_warming EXCEPT ![cpu] = Counters(cpu, {j})]
                /\ UNCHANGED cache_contents
UpdateWarming(cpu, j) ==
  CASE j \notin DOMAIN cache_warming[cpu] -> UNCHANGED caches
    [] j \in DOMAIN cache_warming[cpu] /\ cache_warming[cpu][j] > 1 ->
         cache_warming' = [cache_warming EXCEPT ![cpu][j] = @ - 1] /\ UNCHANGED cache_contents
    [] OTHER -> BecomesWarm(cpu, j)

(* The end of a time slice puts the running jobs back. *)
SliceOver == system_time > 0 /\ system_time % options.time_slice = 0
Peeks == options.per_cpu /\ options.peek_interval > 0 /\ system_time > 0
         /\ system_time % options.peek_interval = 0
Orders == IF options.random_order THEN SetToSeqs(CPUs) ELSE {Order}
Running == {cpu \in CPUs : sched_current[cpu] # IDLE}
Put(queues, cpu) == [queues EXCEPT ![QueueOf(cpu)] = Append(@, sched_current[cpu])]
PutBack ==
  LET queues[n \in 0..Len(Order)] ==
        IF n = 0 THEN sched_queue
        ELSE IF n - 1 \in Running THEN Put(queues[n - 1], n - 1)
        ELSE queues[n - 1]
  IN queues[Len(Order)]
HandleInterrupts ==
  /\ pc = "interrupts" /\ finished # Jobs
  /\ IF SliceOver
       THEN /\ sched_queue' = PutBack
            /\ sched_current' = [cpu \in CPUs |-> IDLE]
       ELSE UNCHANGED <<sched_queue, sched_current>>
  /\ \/ Peeks /\ pc' = "steal" /\ todo' = Order
     \/ ~Peeks /\ pc' = "assign" /\ todo' \in Orders
  /\ UNCHANGED <<jobs, time_left, finished, caches, system_time, options>>

(* The processor at hand is done with, and the next one comes, or the next  *)
(* part of the tick.                                                        *)
Done(next, orders) ==
  IF Len(todo) > 1 THEN todo' = Tail(todo) /\ UNCHANGED pc ELSE pc' = next /\ todo' \in orders

(* A processor with an empty queue takes a job from another's, chosen at    *)
(* random.  The code looks for its number in the whole record of the job    *)
(* and not in its affinity: it finds it if it happens to be the job's run   *)
(* time or the size of its working set.                                     *)
CanSteal(cpu) == {j \in Jobs : jobs[j].affinity = {} \/ cpu \in {jobs[j].run_time, jobs[j].working_set_size}}
Steal(cpu) ==
  /\ pc = "steal" /\ cpu = Head(todo)
  /\ \E other \in CPUs \ {cpu} : LET k == FirstIn(sched_queue[other], CanSteal(cpu))
       IN IF sched_queue[cpu] # <<>> \/ k = 0 THEN UNCHANGED sched_queue
          ELSE sched_queue' = [sched_queue EXCEPT ![cpu] = <<sched_queue[other][k]>>,
                                                  ![other] = RemoveAt(@, k)]
  /\ Done("assign", Orders)
  /\ UNCHANGED <<jobs, time_left, finished, sched_current, caches, system_time, options>>

GetJob(cpu) ==
  /\ pc = "assign" /\ cpu = Head(todo)
  /\ LET queue == sched_queue[QueueOf(cpu)]
         k == FirstIn(queue, MayRun(cpu))
     IN IF sched_current[cpu] # IDLE \/ k = 0 THEN UNCHANGED <<sched_queue, sched_current, caches>>
        ELSE /\ sched_queue' = [sched_queue EXCEPT ![QueueOf(cpu)] = RemoveAt(@, k)]
             /\ sched_current' = [sched_current EXCEPT ![cpu] = queue[k]]
             /\ NewJob(cpu, queue[k])
  /\ Done("run", {Order})
  /\ UNCHANGED <<jobs, time_left, finished, system_time, options>>

Rate(cpu, j) == IF IsWarm(cpu, j) THEN WARM_RATE ELSE 1
LeftAfterUnbounded(cpu, j) == time_left[j] - Rate(cpu, j)
LeftAfter(cpu, j) == Max({0, time_left[j] - Rate(cpu, j)})
RunOneTick(cpu) ==
  /\ pc = "run" /\ cpu = Head(todo)
  /\ IF sched_current[cpu] = IDLE THEN UNCHANGED <<time_left, finished, sched_current, caches>>
     ELSE \E j \in {sched_current[cpu]} : \E left \in {LeftAfter(cpu, j)} :
          /\ time_left' = [time_left EXCEPT ![j] = left]
          /\ UpdateWarming(cpu, j)
          /\ IF left > 0 THEN UNCHANGED <<finished, sched_current>>
             ELSE finished' = finished \cup {j} /\ sched_current' = [sched_current EXCEPT ![cpu] = IDLE]
  /\ Done("interrupts", {<<>>})
  /\ system_time' = IF Len(todo) = 1 THEN system_time + 1 ELSE system_time
  /\ UNCHANGED <<jobs, sched_queue, options>>

Next == HandleInterrupts \/ \E cpu \in CPUs : Steal(cpu) \/ GetJob(cpu) \/ RunOneTick(cpu)
Spec == Init /\ [][Next]_vars /\ WF_vars(Next)
-----------------------------------------------------------------------------
TypeOK ==
  /\ jobs \in Workloads /\ options \in Options
  /\ \A j \in Jobs : time_left[j] \in 0..jobs[j].run_time
  /\ finished \subseteq Jobs /\ sched_current \in [CPUs -> Jobs \cup {IDLE}]
  /\ \A q \in DOMAIN sched_queue : Range(sched_queue[q]) \subseteq Jobs
  /\ \A cpu \in CPUs, j \in Jobs : j \in DOMAIN cache_warming[cpu] =>
       cache_warming[cpu][j] \in 0..options.warmup_time

Places(j) ==
  {<<"cpu", cpu>> : cpu \in {c \in CPUs : sched_current[c] = j}}
  \cup {e \in (DOMAIN sched_queue) \X (1..Len(jobs)) :
           e[2] \in DOMAIN sched_queue[e[1]] /\ sched_queue[e[1]][e[2]] = j}

(* No interrupt, theft or end of a job loses or doubles a job: it runs on   *)
(* one processor or waits once in one queue until it has ended.  A job in a *)
(* cache is warm once, or getting warm; several are warm only if they fit.  *)
OnePlace ==
  /\ \A j \in Jobs : Cardinality(Places(j)) = IF j \in finished THEN 0 ELSE 1
  /\ \A cpu \in CPUs :
       /\ Len(cache_contents[cpu]) > 1 => WorkingSets(cache_contents[cpu]) <= options.cache_size
       /\ IsInjective(cache_contents[cpu])
       /\ Range(cache_contents[cpu]) \cap DOMAIN cache_warming[cpu] = {}

(* A job runs on a processor of its affinity list only, and with -p waits   *)
(* for one only.                                                            *)
AffinityKept ==
  \A cpu \in CPUs :
    /\ sched_current[cpu] # IDLE => sched_current[cpu] \in MayRun(cpu)
    /\ options.per_cpu => Range(sched_queue[cpu]) \subseteq MayRun(cpu)

(* Every job ends: none waits for ever behind the others. *)
Termination == <>(finished = Jobs)
=============================================================================
