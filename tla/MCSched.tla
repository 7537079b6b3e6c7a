------------------------------ MODULE MCSched -------------------------------
(* The schedulers: of jobs on processors, of threads on the simulated       *)
(* processor of x86.py, of requests on the disk of disk.py, and the tree of *)
(* processes of fork.py.  Each is run alone: what is not running has no     *)
(* state.                                                                   *)
EXTENDS Integers, Sequences, FiniteSets

CONSTANTS MLFQWorkloads, MLFQOptions, Programs, ProcessOptions, CPUs, MultiWorkloads, MultiOptions,
          Joblists, Quanta,
          X86Set, Schedules, Intfreqs, Loadaddr, Memsize,               \* those of x86.py
          Names, MaxActions, ActionLists,                               \* fork.py
          DEGREES, trackWidth, Setups, MaxStarts, MaxPauses             \* disk.py

VARIABLES
  package, options,
  job, queue, ioDone, currTime, ran,                                      \* mlfq.py
  proc_info, curr_proc, io_finish_times, clock_tick, started, failed,     \* process-run.py
  jobs, time_left, finished, sched_queue, sched_current, cache_contents, cache_warming,
  system_time, pc, todo,                                                  \* multi.py
  joblist, policy, quantum, runlist, thetime, response, turnaround, wait, lastran,
  tickTotal, rounds,                                                      \* scheduler.py, lottery.py
  program, code, memory, PC, registers, conditions, plist, procsched, curr, intfreq, intrand,
  interrupt,                                                              \* x86.py
  leaf_only, local_reparent, action_list, given, temp_process_list, curr_index, process_list,
  children, parents, next, outcome,                                       \* fork.py
  opt, requestQueue, requestState, lateCount, requestCount, currWindow, currentIndex, state,
  armTrack, armTarget, arm, angle, timer, begin, total, totalEst, isDone, doAnimate, starting,
  starts, pauses                                                          \* disk.py

mvars == <<job, queue, ioDone, currTime, ran>>
pvars == <<proc_info, curr_proc, io_finish_times, clock_tick, started, failed>>
cvars == <<jobs, time_left, finished, sched_queue, sched_current, cache_contents, cache_warming,
           system_time, pc, todo>>
jvars == <<joblist, policy, quantum, runlist, thetime, response, turnaround, wait, lastran,
           tickTotal, rounds>>
xvars == <<program, code, memory, PC, registers, conditions, plist, procsched, curr, intfreq,
           intrand, interrupt>>
kvars == <<leaf_only, local_reparent, action_list, given, temp_process_list, curr_index,
           process_list, children, parents, next, outcome>>
dvars == <<opt, requestQueue, requestState, lateCount, requestCount, currWindow, currentIndex,
           state, armTrack, armTarget, arm, angle, timer, begin, total, totalEst, isDone,
           doAnimate, starting, starts, pauses>>
vars == <<package, options, mvars, pvars, cvars, jvars, xvars, kvars, dvars>>

M == INSTANCE MLFQ WITH Workloads <- MLFQWorkloads, Options <- MLFQOptions
P == INSTANCE ProcessRun WITH Processes <- 1..3, Options <- ProcessOptions
C == INSTANCE MultiCPU WITH Workloads <- MultiWorkloads, Options <- MultiOptions
J == INSTANCE JobPolicies WITH Policies <- {"FIFO", "SJF", "RR", "LOTTERY"}
X == INSTANCE X86 WITH Programs <- X86Set
K == INSTANCE ForkTree
D == INSTANCE Disk
Text == INSTANCE X86Programs

(* mlfq.py: queues are numbered from 0, slices and jobs have ticks, and but  *)
(* for the lowest queue allotments are positive.                             *)
ASSUME MLFQAssumption ==
  /\ MLFQWorkloads \subseteq Seq([startTime : Nat, runTime : Nat \ {0}, ioFreq : Nat])
  /\ \A o \in MLFQOptions : \E h \in DOMAIN o.quantum :
       /\ h \in Nat /\ o.quantum \in [0..h -> Nat \ {0}] /\ o.allotment \in [0..h -> Int]
       /\ \A q \in 1..h : o.allotment[q] > 0
       /\ o.boost \in Nat /\ o.ioTime \in Nat /\ o.stay \in BOOLEAN /\ o.iobump \in BOOLEAN
(* process-run.py: an I/O ends in a later tick than the one it starts in. *)
ASSUME ProcessAssumption ==
  /\ Programs \subseteq Seq({"cpu", "io"})
  /\ ProcessOptions \subseteq [handles : BOOLEAN, on_io : BOOLEAN, immediate : BOOLEAN, io_length : Nat]
  /\ \A o \in ProcessOptions : o.handles \/ o.io_length > 0
(* multi.py: processors are numbered from 0. *)
ASSUME MultiAssumption ==
  /\ IsFiniteSet(CPUs) /\ CPUs = 0..Cardinality(CPUs) - 1
  /\ MultiWorkloads \subseteq Seq([run_time : Nat, working_set_size : Nat, affinity : SUBSET CPUs])
(* No job's run time or working set size is the number of a processor the    *)
(* job may not run on, for which steal_jobs would mistake it.                *)
ASSUME NumbersApart ==
  \A w \in MultiWorkloads : \A j \in DOMAIN w :
    w[j].affinity = {} \/ {w[j].run_time, w[j].working_set_size} \cap CPUs \subseteq w[j].affinity
ASSUME X86Assumption == X!OptionsWellFormed

Slices(q) == [p \in 0..1 |-> q[p + 1]]
OneJob(start, run, freq) == [startTime |-> start, runTime |-> run, ioFreq |-> freq]
MCMLFQWorkloads ==
  {<<OneJob(0, run, freq), OneJob(start, 4, other), OneJob(0, 2, 0)>> :
     run \in {3, 5}, freq \in {0, 2}, start \in {0, 2}, other \in {0, 1}}
MCMLFQOptions ==
  [quantum : {Slices(<<2, 1>>), Slices(<<3, 2>>)}, allotment : {Slices(<<1, 1>>), Slices(<<1, 2>>)},
   boost : {0, 3}, ioTime : {0, 2}, stay : BOOLEAN, iobump : BOOLEAN]
MCPrograms == {<<>>, <<"cpu", "cpu">>, <<"io">>, <<"cpu", "io", "io">>}
MCProcessOptions == [handles : BOOLEAN, on_io : BOOLEAN, immediate : BOOLEAN, io_length : {1, 3}]
MCMultiWorkloads ==
  {<<a, b, [run_time |-> 3, working_set_size |-> 2, affinity |-> {}]>> :
     a, b \in [run_time : {2, 4}, working_set_size : {3, 5}, affinity : {{}, {1}}]}
MCMultiOptions ==
  [per_cpu : BOOLEAN, peek_interval : {0, 1}, time_slice : {1, 2}, random_order : {TRUE},
   cache_size : {4}, warmup_time : {0, 1, 2}]
MCJoblists == [1..3 -> [runtime : {1, 2, 4}, tickets : {1}]] \cup [1..2 -> [runtime : {1, 3}, tickets : {1, 2}]]

MCX86Set == Text!All
MCSchedules == {<<>>, <<0, 1>>, <<1, 1, 0, 0, 0>>}
MCNames == <<"a", "b", "c", "d", "e">>
Forks(parent, child) == [kind |-> "+", proc |-> parent, child |-> child]
Exits(who) == [kind |-> "-", proc |-> who, child |-> who]
MCActionLists ==
  {<<>>, <<Forks("a", "b"), Forks("b", "c"), Exits("b"), Exits("b")>>, <<Forks("a", "b"), Exits("a")>>,
   <<Forks("a", "b"), Forks("b", "c"), Forks("c", "d"), Forks("b", "e"), Exits("b"), Exits("c")>>}
Setup(policy_, window, skew, zoning, seek, rotate, list, late, graphics) ==
  [policy |-> policy_, window |-> window, skew |-> skew, zoning |-> zoning, seekSpeed |-> seek,
   rotateSpeed |-> rotate, requests |-> list, late |-> late, graphics |-> graphics]
MCSetups ==
  {Setup(how, window, 1, zoning, 1, rotate, list, late, FALSE) :
     how \in {"SATF", "BSATF", "SSTF"}, window \in {-1, 1, 2}, zoning \in {<<4, 4, 4>>, <<2, 3, 4>>},
     rotate \in {1, 2}, list \in {<<1, 7, 3, 2>>, <<2, 0>>}, late \in {<<>>, <<1, 4>>}}
  \cup {Setup("FIFO", -1, 0, zoning, 2, rotate, list, <<1, 4>>, FALSE) :
          zoning \in {<<4, 4, 4>>, <<2, 3, 4>>}, rotate \in {1, 5}, list \in {<<1, 7, 3>>, <<2, 0, 1>>, <<>>}}
  \cup {Setup(how, 2, 0, <<4, 4, 4>>, 1, 1, <<1, 8>>, <<3>>, TRUE) : how \in {"SATF", "BSATF", "SSTF", "FIFO"}}

NoM == job = 0 /\ queue = 0 /\ ioDone = 0 /\ currTime = 0 /\ ran = 0
NoP == proc_info = 0 /\ curr_proc = 0 /\ io_finish_times = 0 /\ clock_tick = 0 /\ started = 0 /\ failed = 0
NoC == /\ jobs = 0 /\ time_left = 0 /\ finished = 0 /\ sched_queue = 0 /\ sched_current = 0
       /\ cache_contents = 0 /\ cache_warming = 0 /\ system_time = 0 /\ pc = 0 /\ todo = 0
NoJ == /\ joblist = 0 /\ policy = 0 /\ quantum = 0 /\ runlist = 0 /\ thetime = 0 /\ response = 0
       /\ turnaround = 0 /\ wait = 0 /\ lastran = 0 /\ tickTotal = 0 /\ rounds = 0
NoX == /\ program = 0 /\ code = 0 /\ memory = 0 /\ PC = 0 /\ registers = 0 /\ conditions = 0 /\ plist = 0
       /\ procsched = 0 /\ curr = 0 /\ intfreq = 0 /\ intrand = 0 /\ interrupt = 0
NoK == /\ leaf_only = 0 /\ local_reparent = 0 /\ action_list = 0 /\ given = 0 /\ temp_process_list = 0
       /\ curr_index = 0 /\ process_list = 0 /\ children = 0 /\ parents = 0 /\ next = 0 /\ outcome = 0
NoD == /\ opt = 0 /\ requestQueue = 0 /\ requestState = 0 /\ lateCount = 0 /\ requestCount = 0
       /\ currWindow = 0 /\ currentIndex = 0 /\ state = 0 /\ armTrack = 0 /\ armTarget = 0 /\ arm = 0
       /\ angle = 0 /\ timer = 0 /\ begin = 0 /\ total = 0 /\ totalEst = 0 /\ isDone = 0
       /\ doAnimate = 0 /\ starting = 0 /\ starts = 0 /\ pauses = 0
MCInit ==
  \/ package = "mlfq.py" /\ M!Init /\ NoP /\ NoC /\ NoJ /\ NoX /\ NoK /\ NoD
  \/ package = "process-run.py" /\ P!Init /\ NoM /\ NoC /\ NoJ /\ NoX /\ NoK /\ NoD
  \/ package = "multi.py" /\ C!Init /\ NoM /\ NoP /\ NoJ /\ NoX /\ NoK /\ NoD
  \/ package = "scheduler.py" /\ J!Init /\ options = 0 /\ NoM /\ NoP /\ NoC /\ NoX /\ NoK /\ NoD
  \/ package = "x86.py" /\ X!Init /\ options = 0 /\ NoM /\ NoP /\ NoC /\ NoJ /\ NoK /\ NoD
  \/ package = "fork.py" /\ K!Init /\ options = 0 /\ NoM /\ NoP /\ NoC /\ NoJ /\ NoX /\ NoD
  \/ package = "disk.py" /\ D!Init /\ options = 0 /\ NoM /\ NoP /\ NoC /\ NoJ /\ NoX /\ NoK
MCNext ==
  /\ \/ package = "mlfq.py" /\ M!Next /\ UNCHANGED <<pvars, cvars, jvars, xvars, kvars, dvars>>
     \/ package = "process-run.py" /\ P!Next /\ UNCHANGED <<mvars, cvars, jvars, xvars, kvars, dvars>>
     \/ package = "multi.py" /\ C!Next /\ UNCHANGED <<mvars, pvars, jvars, xvars, kvars, dvars>>
     \/ /\ package = "scheduler.py" /\ J!Next
        /\ UNCHANGED <<mvars, pvars, cvars, xvars, kvars, dvars, options>>
     \/ package = "x86.py" /\ X!Next /\ UNCHANGED <<mvars, pvars, cvars, jvars, kvars, dvars, options>>
     \/ package = "fork.py" /\ K!Next /\ UNCHANGED <<mvars, pvars, cvars, jvars, xvars, dvars, options>>
     \/ package = "disk.py" /\ D!Next /\ UNCHANGED <<mvars, pvars, cvars, jvars, xvars, kvars, options>>
  /\ UNCHANGED package
MCSpec == MCInit /\ [][MCNext]_vars /\ WF_vars(MCNext)

Of(name, property) == package = name => property

(* Every scheduler's state is well typed. *)
SchedTypeOK ==
  /\ Of("mlfq.py", M!TypeOK) /\ Of("process-run.py", P!TypeOK) /\ Of("multi.py", C!TypeOK)
  /\ Of("scheduler.py", J!TypeOK) /\ Of("x86.py", X!TypeOK) /\ Of("fork.py", K!TypeOK)
  /\ Of("disk.py", D!TypeOK)
(* No scheduler loses or doubles a job: until it ends it runs, or waits in   *)
(* one queue, or for one event, and only where its state says.  fork.py's    *)
(* living processes form one tree, each the child of one living parent;      *)
(* disk.py serves every request, late ones and abandoned ones too, once.     *)
OnePlace ==
  /\ Of("mlfq.py", M!OnePlace) /\ Of("process-run.py", P!OnePlace) /\ Of("multi.py", C!OnePlace)
  /\ Of("scheduler.py", J!OnePlace) /\ Of("fork.py", K!TreeSound /\ K!GeneratorInStep)
  /\ Of("disk.py", D!ServedOnce)
(* The processor is given to whom it should be: process-run.py never leaves  *)
(* it idle, or does not switch, as asked; multi.py keeps to the affinities   *)
(* (of jobs whose numbers cannot be mistaken for a processor's); x86.py runs *)
(* a thread that has not halted.                                             *)
RightOneRuns ==
  Of("process-run.py", P!RightOneRuns) /\ Of("multi.py", C!AffinityKept) /\ Of("x86.py", X!LiveOneRuns)
(* No job gets more than its share: at a priority of mlfq.py, of round       *)
(* robin's turns, of the lottery; SJF's order is the best one; no request to *)
(* disk.py is overtaken further than its window allows.                      *)
FairShare ==
  Of("mlfq.py", M!NoGaming) /\ Of("scheduler.py", J!FairShare) /\ Of("disk.py", D!WindowKept)
(* x86.py's processor, with its interrupts, yields and halts, is a machine   *)
(* of threads that each have registers of their own and take turns by whole  *)
(* instructions; the programs leave the results such a machine allows: both  *)
(* locks lose no update, the unlocked counter may.                           *)
MachineSound ==
  /\ Of("x86.py", X!Ideal!Init) /\ [](Of("x86.py", X!ResultsAllowed))
  /\ [][Of("x86.py", X!Ideal!Next)]_xvars
(* disk.py's clock is accounted for, the arm is over the track it reads, and *)
(* the access time SATF chooses by comes true.                               *)
DiskTimesTrue ==
  /\ [](Of("disk.py", D!TimeAccounted))
  /\ [][Of("disk.py", D!EstimateKept)]_dvars
(* Every job of every scheduler ends, every thread of x86.py halts although  *)
(* others spin, fork.py carries out its list, and disk.py comes to rest.     *)
AllEnd ==
  \/ package = "mlfq.py" /\ \A j \in M!Jobs : M!Finished(j)
  \/ package = "process-run.py" /\ P!Finished
  \/ package = "multi.py" /\ finished = C!Jobs
  \/ package = "scheduler.py" /\ J!Unfinished = {}
  \/ package = "x86.py" /\ X!AllDone(plist)
  \/ package = "fork.py" /\ K!Ended
  \/ package = "disk.py" /\ D!Halted
Termination == <>AllEnd
=============================================================================
