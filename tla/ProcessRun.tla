----------------------------- MODULE ProcessRun -----------------------------
(***************************************************************************)
(* The process states of cpu-intro/process-run.py, and of the copy of it   *)
(* in file-devices, where an I/O takes one tick less and no instruction    *)
(* handles its end.  A step is one tick of the clock: ends of I/O, then at *)
(* most one instruction of the current process, then what it leads to.     *)
(***************************************************************************)
EXTENDS Integers, Sequences, FiniteSets, FiniteSetsExt, SequencesExt

CONSTANTS Programs,   \* sequences of "cpu" and "io" a process may be asked to execute
          Processes,  \* how many there may be
          Options     \* [handles, on_io, immediate, io_length]

VARIABLES proc_info,        \* [code, state] of each process, by pid from 0
          curr_proc,
          io_finish_times,  \* of each process
          clock_tick,
          started,          \* history: the processes that have executed an instruction
          failed,           \* an assertion of move_to_* has failed
          options

vars == <<proc_info, curr_proc, io_finish_times, clock_tick, started, failed, options>>

Pids == DOMAIN proc_info

(* What load_program makes of them: a handled I/O is two instructions. *)
Loaded(program, o) ==
  FlattenSeq([k \in DOMAIN program |-> IF program[k] = "io" /\ o.handles THEN <<"io", "io_done">>
                                       ELSE <<program[k]>>])

Init ==
  /\ options \in Options
  /\ \E n \in Processes : \E text \in [0..n - 1 -> Programs] :
       /\ proc_info = [pid \in 0..n - 1 |->
                         [code |-> Loaded(text[pid], options), state |-> IF pid = 0 THEN "RUNNING" ELSE "READY"]]
       /\ io_finish_times = [pid \in 0..n - 1 |-> {}]
  /\ curr_proc = 0 /\ clock_tick = 0 /\ started = {} /\ failed = FALSE

(* The scheduler's state, as its procedures change it. *)
Now == [info |-> proc_info, curr |-> curr_proc, failed |-> failed]
Is(S, pid, state) == S.info[pid].state = state
Move(S, pid, expected, state) ==
  IF Is(S, pid, expected) THEN [S EXCEPT !.info[pid].state = state] ELSE [S EXCEPT !.failed = TRUE]

(* The next process by number that is ready, the current one last. *)
RunProc(S, pid) == Move([S EXCEPT !.curr = pid], pid, "READY", "RUNNING")
Ahead(S, k) == (S.curr + k) % Cardinality(Pids)
NextProc(S) ==
  LET ready == {k \in 1..Cardinality(Pids) : Is(S, Ahead(S, k), "READY")}
  IN IF ready = {} THEN S ELSE RunProc(S, Ahead(S, Min(ready)))

NumActive(S) == Cardinality({pid \in Pids : ~Is(S, pid, "DONE")})
NumRunnable(S) == Cardinality({pid \in Pids : Is(S, pid, "READY") \/ Is(S, pid, "RUNNING")})
CheckIfDone(S) ==
  IF S.info[S.curr].code = <<>> /\ Is(S, S.curr, "RUNNING")
    THEN NextProc(Move(S, S.curr, "RUNNING", "DONE"))
    ELSE S

(* The process whose I/O has ended is run at once (IO_RUN_IMMEDIATE), or    *)
(* when nothing else can: with SWITCH_ON_END the processor waited for it.   *)
RunImmediately(S, pid) ==
  RunProc(IF S.curr # pid /\ Is(S, S.curr, "RUNNING") THEN Move(S, S.curr, "RUNNING", "READY") ELSE S, pid)
RunLaterAlways(S, pid) == S
RunLater(S, pid) ==
  LET resumed == IF ~options.on_io /\ NumRunnable(S) > 1 THEN RunProc(S, pid) ELSE S
  IN IF NumRunnable(resumed) = 1 THEN RunProc(resumed, pid) ELSE resumed
IoDone(S, pid) ==
  LET ready == Move(S, pid, "BLOCKED", "READY")
  IN CheckIfDone(IF options.immediate THEN RunImmediately(ready, pid) ELSE RunLater(ready, pid))

(* The ends of I/O at this tick, process by process. *)
Interrupted(S, tick) ==
  LET after[n \in 0..Cardinality(Pids)] ==
        IF n = 0 THEN S
        ELSE IF tick \in io_finish_times[n - 1] THEN IoDone(after[n - 1], n - 1)
        ELSE after[n - 1]
  IN after[Cardinality(Pids)]

Executes(S) == Is(S, S.curr, "RUNNING") /\ S.info[S.curr].code # <<>>
StartsIo(S) == Executes(S) /\ Head(S.info[S.curr].code) = "io"
Executed(S) == IF Executes(S) THEN [S EXCEPT !.info[S.curr].code = Tail(@)] ELSE S
Blocked(S) ==
  LET waiting == Move(S, S.curr, "RUNNING", "BLOCKED")
  IN IF options.on_io THEN NextProc(waiting) ELSE waiting

(* cpu-intro's I/O ends one tick later, and the instruction that handles it *)
(* follows it in the program.                                               *)
FinishTime(tick) == IF options.handles THEN tick + options.io_length + 1 ELSE tick + options.io_length

Tick ==
  /\ ~failed /\ NumActive(Now) > 0
  /\ clock_tick' = clock_tick + 1
  /\ \E S \in {Interrupted(Now, clock_tick')} :
     \E T \in {CheckIfDone(IF StartsIo(S) THEN Blocked(Executed(S)) ELSE Executed(S))} :
       /\ proc_info' = T.info /\ curr_proc' = T.curr /\ failed' = T.failed
       /\ io_finish_times' = IF StartsIo(S) THEN [io_finish_times EXCEPT ![S.curr] = @ \cup {FinishTime(clock_tick')}]
                             ELSE io_finish_times
       /\ started' = IF Executes(S) THEN started \cup {S.curr} ELSE started
  /\ UNCHANGED options

Next == Tick
Spec == Init /\ [][Next]_vars /\ WF_vars(Next)
-----------------------------------------------------------------------------
TypeOK ==
  /\ \A pid \in Pids : proc_info[pid].state \in {"RUNNING", "READY", "BLOCKED", "DONE"}
  /\ curr_proc \in Pids /\ started \subseteq Pids /\ options \in Options

Finished == NumActive(Now) = 0

(* One processor: no process but the current one is running; each blocked   *)
(* one waits for one end of I/O, nothing else does, and every change of     *)
(* state starts from the state the code expects.                            *)
OnePlace ==
  /\ ~failed
  /\ \A pid \in Pids :
       /\ Is(Now, pid, "RUNNING") => pid = curr_proc
       /\ Cardinality({t \in io_finish_times[pid] : t > clock_tick}) = IF Is(Now, pid, "BLOCKED") THEN 1 ELSE 0
       /\ Is(Now, pid, "DONE") => proc_info[pid].code = <<>>

(* With SWITCH_ON_IO the processor is never left without a process while    *)
(* one is ready; with SWITCH_ON_END no process starts before the one before *)
(* it has ended.                                                            *)
RightOneRuns ==
  IF options.on_io
    THEN (\E pid \in Pids : Is(Now, pid, "READY")) => Is(Now, curr_proc, "RUNNING")
    ELSE \A p, q \in Pids : p < q /\ q \in started => Is(Now, p, "DONE")

(* Every process ends. *)
Termination == <>Finished
=============================================================================
