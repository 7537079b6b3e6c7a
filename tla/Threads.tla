------------------------------- MODULE Threads -------------------------------
(***************************************************************************)
(* Execution of the programs of module SyncPrograms: the threads of one     *)
(* program run in any interleaving of their instructions, over the mutexes, *)
(* condition variables and semaphores of pthreads.                          *)
(***************************************************************************)
EXTENDS SyncPrograms

CONSTANTS
  Names,                 \* the programs to run
  Spurious               \* how often a condition wait may end unsignalled

ASSUME NamesAssumption == Names \subseteq DOMAIN Programs
ASSUME BoundsAssumption == Spurious \in Nat /\ Loops \in Nat \ {0} /\ Slots \in Nat \ {0}

VARIABLES
  name,                  \* the program that runs
  pc,                    \* thread |-> next instruction; 0 before its creation
  mode,                  \* thread |-> "run", "asleep" or "woken" in a condition wait
  owner,                 \* mutexes that are locked |-> thread that locked it
  sem,                   \* semaphore |-> value
  mem,                   \* shared variable |-> value
  reg,                   \* thread |-> its tmp and its accumulator
  failed,                \* the process has crashed, or exited in ensure()
  spurious,              \* unsignalled wake-ups left
  put, out               \* history: values put into the buffer; output and values taken

vars == <<name, pc, mode, owner, sem, mem, reg, failed, spurious, put, out>>
data == <<mem, reg>>
history == <<put, out>>

Text == Programs[name]
Tids == DOMAIN Text.code
AllTids == UNION {DOMAIN Programs[n].code : n \in Names}
Code(t) == Text.code[t]

Init ==
  \E n \in Names :
    LET prog == Programs[n] T == DOMAIN prog.code
    IN /\ name = n
       /\ pc = [t \in T |-> IF t \in prog.late THEN 0 ELSE 1]
       /\ mode = [t \in T |-> "run"]
       /\ owner = <<>>
       /\ sem = prog.sem
       /\ mem = prog.mem
       /\ reg = [t \in T |-> [tmp |-> 0, acc |-> 0]]
       /\ failed = FALSE
       /\ spurious = Spurious
       /\ put = <<>> /\ out = <<>>

Ended(t) == pc[t] > Len(Code(t))
Running(t) == t \in Tids /\ ~failed /\ pc[t] > 0 /\ ~Ended(t) /\ mode[t] = "run"
Instr(t) == Code(t)[pc[t]]
At(t, op) == Running(t) /\ Instr(t)[1] = op
Arg(t) == Instr(t)[2]
Arg2(t) == Instr(t)[3]

GoTo(t, d) == pc' = [pc EXCEPT ![t] = @ + d]
Step(t) == GoTo(t, 1)
-----------------------------------------------------------------------------
(* pthreads *)

Free(m) == m \notin DOMAIN owner
Taken(m, t) == (m :> t) @@ owner
Released(m) == [x \in DOMAIN owner \ {m} |-> owner[x]]

LockMutex(t) ==
  /\ At(t, "lock") /\ Free(Arg(t))
  /\ owner' = Taken(Arg(t), t)
  /\ Step(t)
  /\ UNCHANGED <<name, mode, sem, data, failed, spurious, history>>

UnlockMutex(t) ==
  /\ At(t, "unlock")
  /\ owner' = Released(Arg(t))
  /\ Step(t)
  /\ UNCHANGED <<name, mode, sem, data, failed, spurious, history>>

TryLockMutex(t) ==
  /\ At(t, "trylock")
  /\ IF Free(Arg(t)) THEN owner' = Taken(Arg(t), t) /\ Step(t)
                     ELSE UNCHANGED owner /\ GoTo(t, Arg2(t))
  /\ UNCHANGED <<name, mode, sem, data, failed, spurious, history>>

CondWait(t) ==
  /\ At(t, "wait")
  /\ owner' = Released(Arg2(t))
  /\ mode' = [mode EXCEPT ![t] = "asleep"]
  /\ UNCHANGED <<name, pc, sem, data, failed, spurious, history>>

Waiters(c) == {t \in Tids : mode[t] = "asleep" /\ Arg(t) = c}

CondSignal(t) ==
  /\ At(t, "signal")
  /\ \/ Waiters(Arg(t)) = {} /\ UNCHANGED mode
     \/ \E u \in Waiters(Arg(t)) : mode' = [mode EXCEPT ![u] = "woken"]
  /\ Step(t)
  /\ UNCHANGED <<name, owner, sem, data, failed, spurious, history>>

WakeSpuriously(t) ==
  /\ t \in Tids /\ ~failed /\ mode[t] = "asleep" /\ spurious > 0
  /\ mode' = [mode EXCEPT ![t] = "woken"]
  /\ spurious' = spurious - 1
  /\ UNCHANGED <<name, pc, owner, sem, data, failed, history>>

Relock(t) ==
  /\ t \in Tids /\ ~failed /\ mode[t] = "woken" /\ Free(Arg2(t))
  /\ owner' = Taken(Arg2(t), t)
  /\ mode' = [mode EXCEPT ![t] = "run"]
  /\ GoTo(t, Instr(t)[4])
  /\ UNCHANGED <<name, sem, data, failed, spurious, history>>

SemWait(t) ==
  /\ At(t, "P") /\ sem[Arg(t)] > 0
  /\ sem' = [sem EXCEPT ![Arg(t)] = @ - 1]
  /\ Step(t)
  /\ UNCHANGED <<name, mode, owner, data, failed, spurious, history>>

SemPost(t) ==
  /\ At(t, "V")
  /\ sem' = [sem EXCEPT ![Arg(t)] = @ + 1]
  /\ Step(t)
  /\ UNCHANGED <<name, mode, owner, data, failed, spurious, history>>

CreateThread(t) ==
  /\ At(t, "create")
  /\ pc' = [pc EXCEPT ![t] = @ + 1, ![Arg(t)] = 1]
  /\ UNCHANGED <<name, mode, owner, sem, data, failed, spurious, history>>

JoinThreads(t) ==
  /\ At(t, "join") /\ \A u \in Arg(t) : Ended(u)
  /\ Step(t)
  /\ UNCHANGED <<name, mode, owner, sem, data, failed, spurious, history>>
-----------------------------------------------------------------------------
(* The programs' own statements *)

Holds(c, t) ==
  CASE c[1] = "is"      -> mem[c[2]] = c[3]
    [] c[1] = "isnot"   -> mem[c[2]] # c[3]
    [] c[1] = "full"    -> mem.num_full = mem.max
    [] c[1] = "empty"   -> mem.num_full = 0
    [] c[1] = "eos"     -> reg[t].tmp = END_OF_STREAM

Branch(t) ==
  /\ \/ At(t, "unless") /\ GoTo(t, IF Holds(Arg(t), t) THEN 1 ELSE Arg2(t))
     \/ At(t, "goto") /\ GoTo(t, Arg(t))
  /\ UNCHANGED <<name, mode, owner, sem, data, failed, spurious, history>>

Register(t, r, v) == reg' = [reg EXCEPT ![t][r] = v]

Compute(t) ==
  /\ \/ At(t, "load") /\ Register(t, "acc", mem[Arg(t)])
     \/ At(t, "plus") /\ Register(t, "acc", mem[Arg(t)] + Arg2(t))
     \/ At(t, "count") /\ Register(t, "acc", Min({mem[Arg(t)] + 1, RETRIES}))
     \/ At(t, "sum")  /\ Register(t, "acc", mem[Arg(t)] + mem[Arg2(t)])
  /\ Step(t)
  /\ UNCHANGED <<name, mode, owner, sem, mem, failed, spurious, history>>

SlotOf(t) == (mem[Arg(t)] % mem.max) + 1

Write(t) ==
  /\ \/ At(t, "store")   /\ mem' = [mem EXCEPT ![Arg(t)] = reg[t].acc]
     \/ At(t, "set")     /\ mem' = [mem EXCEPT ![Arg(t)] = Arg2(t)]
     \/ At(t, "xadd")    /\ mem' = [mem EXCEPT ![Arg(t)] = @ + reg[t].acc]
     \/ At(t, "advance") /\ mem' = [mem EXCEPT ![Arg(t)] = (@ + 1) % mem.max]
     \/ At(t, "clear")   /\ mem' = [mem EXCEPT !.buffer[SlotOf(t)] = EMPTY]
  /\ Step(t)
  /\ UNCHANGED <<name, mode, owner, sem, reg, failed, spurious, history>>

FillSlot(t) ==
  /\ At(t, "fill")
  /\ mem' = [mem EXCEPT !.buffer[SlotOf(t)] = Arg2(t)]
  /\ put' = Append(put, Arg2(t))
  /\ Step(t)
  /\ UNCHANGED <<name, mode, owner, sem, reg, failed, spurious, out>>

GetSlot(t) ==
  /\ At(t, "get")
  /\ Register(t, "tmp", mem.buffer[SlotOf(t)])
  /\ out' = Append(out, mem.buffer[SlotOf(t)])
  /\ Step(t)
  /\ UNCHANGED <<name, mode, owner, sem, mem, failed, spurious, put>>

Output(t) ==
  /\ \/ At(t, "emit") /\ out' = Append(out, Arg(t))
     \/ At(t, "emitacc") /\ out' = Append(out, reg[t].acc)
  /\ Step(t)
  /\ UNCHANGED <<name, mode, owner, sem, data, failed, spurious, put>>

(* A NULL dereference ends the process, and so does a failed ensure(). *)
Check(t) ==
  /\ \/ At(t, "deref") /\ failed' = (mem[Arg(t)] = 0)
     \/ At(t, "ensure") /\ failed' = ((mem.buffer[SlotOf(t)] = EMPTY) # Arg2(t))
  /\ Step(t)
  /\ UNCHANGED <<name, mode, owner, sem, data, spurious, history>>

ThreadStep(t) ==
  \/ LockMutex(t) \/ UnlockMutex(t) \/ TryLockMutex(t)
  \/ CondWait(t) \/ CondSignal(t) \/ Relock(t) \/ SemWait(t) \/ SemPost(t)
  \/ CreateThread(t) \/ JoinThreads(t) \/ Branch(t) \/ Compute(t) \/ Write(t)
  \/ FillSlot(t) \/ GetSlot(t) \/ Output(t) \/ Check(t)

Next == \E t \in AllTids : ThreadStep(t) \/ WakeSpuriously(t)

Fairness == \A t \in AllTids : WF_vars(t \in Tids /\ ThreadStep(t))
Spec == Init /\ [][Next]_vars
FairSpec == Spec /\ Fairness
-----------------------------------------------------------------------------
(* Programs whose sources, or the READMEs beside them, present a failure;    *)
(* and one whose vectors are guarded, but not its count of failed tries.    *)
Racing == {"join_no_lock", "join_spin", "ordering", "atomicity", "badcnt",
           "race", "vector_nolock", "vector_nolock_opposed"}
Unguarded == IF name = "vector_try_wait" THEN {"retry"} ELSE {}
Hanging == {"join_no_lock", "join_no_state_var", "vector_deadlock", "vector_try_wait",
            "deadlock", "main_deadlock", "dining_philosophers_deadlock",
            "pc_single_cv", "one_cv_while", "two_cvs_if"}
Crashing == {"ordering", "atomicity", "two_cvs_if"}
Misordered == {"join_no_state_var", "race", "two_cvs_if"}

(* Control and data stay within the program's text and its buffer. *)
TypeOK ==
  /\ name \in Names
  /\ \A t \in Tids : pc[t] \in 0..(Len(Code(t)) + 1) /\ mode[t] \in {"run", "asleep", "woken"}
  /\ \A m \in DOMAIN owner : owner[m] \in Tids
  /\ \A s \in DOMAIN sem : sem[s] \in Nat
  /\ failed \in BOOLEAN /\ spurious \in 0..Spurious
  /\ "max" \in DOMAIN mem =>
       mem.buffer \in [1..mem.max -> Int] /\ {mem.fill_ptr, mem.use_ptr} \subseteq 0..(mem.max - 1)

(* A mutex is released, and a condition waited for, only by the thread that *)
(* holds the mutex (anything else is undefined in pthreads); no thread uses *)
(* a pointer that another has not set yet or has cleared; and no buffer     *)
(* slot is filled twice or emptied twice.                                   *)
MutexDiscipline ==
  \A t \in Tids :
    /\ At(t, "unlock") => ~Free(Arg(t)) /\ owner[Arg(t)] = t
    /\ At(t, "wait") => ~Free(Arg2(t)) /\ owner[Arg2(t)] = t
NoMisuse == MutexDiscipline /\ (failed => name \in Crashing)

ConditionReads(c) ==
  CASE c[1] \in {"is", "isnot"}   -> {c[2]}
    [] c[1] \in {"full", "empty"} -> {"num_full"}
    [] OTHER -> {}
Reads(t) ==
  CASE At(t, "unless") -> ConditionReads(Arg(t))
    [] At(t, "load") \/ At(t, "plus") \/ At(t, "count") \/ At(t, "deref") -> {Arg(t)}
    [] At(t, "sum") -> {Arg(t), Arg2(t)}
    [] At(t, "get") \/ At(t, "ensure") -> {Arg(t), "buffer"}
    [] At(t, "fill") \/ At(t, "clear") -> {Arg(t)}
    [] OTHER -> {}
Writes(t) ==
  CASE At(t, "store") \/ At(t, "set") \/ At(t, "xadd") \/ At(t, "advance") -> {Arg(t)}
    [] At(t, "fill") \/ At(t, "clear") -> {"buffer"}
    [] OTHER -> {}

(* No thread is about to write a variable that another is about to access:  *)
(* the locks and semaphores order every two accesses to shared data.  With  *)
(* -d vector-try-wait.c races on retry, and on nothing else.                *)
NoDataRace ==
  name \notin Racing =>
    \A t, u \in Tids : t # u => Writes(t) \cap (Reads(u) \cup Writes(u)) \subseteq Unguarded

Count(s, v) == Cardinality({k \in DOMAIN s : s[k] = v})

OutputAllowed ==
  name \notin Misordered =>
    /\ "max" \in DOMAIN mem => IsPrefix(out, put)
    /\ Text.output # {} => \E o \in Text.output : IsPrefix(out, o)
    /\ name \in {"throttle", "throttle_zem"} => Count(out, 1) - Count(out, 0) <= 2

Idle(t) == t \in Text.serve /\ Running(t) /\ Instr(t)[1] = "P" /\ sem[Arg(t)] = 0
Finished == ~failed /\ \A t \in Tids : Ended(t) \/ Idle(t)
FinalValues ==
  (Finished /\ name # "badcnt") =>
    \E f \in Text.final : \A x \in DOMAIN f : mem[x] = f[x]

(* What is taken from a buffer is what was put into it, in that order; a    *)
(* parent ends after its child has run, threads output the numbers they     *)
(* were given, a throttle lets no more than two threads in, and counters    *)
(* and vectors end with a value that some serial order gives.               *)
ResultsSerial == OutputAllowed /\ FinalValues

(* Every program ends: no thread waits for ever. *)
Termination == <>(Finished \/ failed \/ name \in Hanging)
=============================================================================
