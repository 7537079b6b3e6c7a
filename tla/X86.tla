-------------------------------- MODULE X86 ---------------------------------
(***************************************************************************)
(* The thread simulator of threads-locks/x86.py: one processor that runs   *)
(* the threads of a program in turn, saving and restoring registers and    *)
(* condition codes.  A turn ends with a halt, a yield, or an interrupt     *)
(* after intfreq instructions (with -r, a random number of them); with -P, *)
(* the threads run in the order of a list, one instruction each.           *)
(***************************************************************************)
EXTENDS X86ISA

CONSTANTS
  Programs,    \* [source, argv: the registers each thread starts with, results]
  Schedules,   \* the lists -P may give, <<>> for none
  Intfreqs,    \* values of -i
  Loadaddr, Memsize

VARIABLES
  program, code,                       \* what was loaded
  memory, PC, registers, conditions,   \* the processor
  plist, procsched, curr,              \* the threads, and whose turn it is
  intfreq, intrand, interrupt          \* when the turn ends

cpu == <<memory, PC, registers, conditions>>
setup == <<program, code, procsched, intfreq, intrand>>
vars == <<setup, cpu, plist, curr, interrupt>>

(* What the command line gives: a list of threads' registers, lists of turns. *)
OptionsWellFormed == (\A p \in Programs : Len(p.argv) \in Nat) /\ Schedules \subseteq Seq(Nat)

Threads == DOMAIN plist
Manual(sched) == sched # <<>>
RoundRobin(n) == [k \in 1..n |-> k - 1]
Setint(freq, rand) == IF rand THEN 1..freq ELSE {freq}

(* Thread t starts with the registers it was given and a stack of its own. *)
Process(t, regs) ==
  [pc |-> Loadaddr, cc |-> {}, done |-> FALSE,
   regs |-> [r \in Registers |-> IF r = "sp" THEN Memsize * 1000 - 1000 * t
                                 ELSE IF r \in DOMAIN regs THEN regs[r] ELSE 0]]
Legal(sched, n) == Range(sched) = 0..n - 1

Init ==
  /\ program \in Programs /\ Loads(program.source, Loadaddr)
  /\ code = Load(program.source, Loadaddr)
  /\ plist = [t \in 0..Len(program.argv) - 1 |-> Process(t, program.argv[t + 1])]
  /\ \E sched \in Schedules :
       /\ Manual(sched) => Legal(sched, Len(program.argv))
       /\ procsched = IF Manual(sched) THEN sched ELSE RoundRobin(Len(program.argv))
       /\ intfreq \in IF Manual(sched) THEN {1} ELSE Intfreqs
       /\ intrand \in IF Manual(sched) THEN {FALSE} ELSE BOOLEAN
  /\ interrupt \in Setint(intfreq, intrand)
  /\ curr = 1
  /\ memory = << >>
  /\ LET first == plist[procsched[curr]]
     IN PC = first.pc /\ registers = first.regs /\ conditions = first.cc
-----------------------------------------------------------------------------
(* procs.next(): the next place in the schedule whose thread is not done.  *)
Place(k) == ((k - 1) % Len(procsched)) + 1
\* Mutant of NextPlace: threads that are done are not passed over.
NextPlaceAny(threads, k) == Place(k + 1)
NextPlace(threads, k) ==
  Place(k + Min({d \in 1..Len(procsched) : ~threads[procsched[Place(k + d)]].done}))

(* Where a switch from the context c at place k leads: after a halt c is    *)
(* gone, otherwise it is saved.                                             *)
Switched(s) ==
  LET k == NextPlace(s.plist, s.curr)
      p == s.plist[procsched[k]]
  IN [s EXCEPT !.curr = k, !.pc = p.pc, !.regs = p.regs, !.cc = p.cc]
Done(s) == [s EXCEPT !.plist[procsched[s.curr]].done = TRUE]
\* Mutant of Save: the conditions are not saved.
SaveRegisters(s) == LET t == procsched[s.curr] IN [s EXCEPT !.plist[t].pc = s.pc, !.plist[t].regs = s.regs]
Save(s) == LET t == procsched[s.curr]
           IN [s EXCEPT !.plist[t].pc = s.pc, !.plist[t].regs = s.regs, !.plist[t].cc = s.cc]
AllDone(threads) == \A t \in DOMAIN threads : threads[t].done

Becomes(s) ==
  /\ memory' = s.mem /\ PC' = s.pc /\ registers' = s.regs /\ conditions' = s.cc
  /\ plist' = s.plist /\ curr' = s.curr

(* One instruction, and what follows it: a halt switches, or ends the run;  *)
(* then the interrupt counts down, and switches (again), as a yield does.   *)
Executed ==
  LET m == Execute([mem |-> memory, pc |-> PC + 1, regs |-> registers, cc |-> conditions], code[PC])
  IN [mem |-> m.mem, pc |-> m.pc, regs |-> m.regs, cc |-> m.cc, plist |-> plist, curr |-> curr]
Step ==
  /\ ~AllDone(plist)
  /\ \E s \in {Executed} :
       \E h \in {IF code[PC].op # "halt" THEN s
                 ELSE IF AllDone(Done(s).plist) THEN Done(s) ELSE Switched(Done(s))} :
         IF AllDone(h.plist) THEN Becomes(h) /\ UNCHANGED interrupt
         ELSE IF interrupt = 1 \/ code[PC].op = "yield"
                THEN Becomes(Switched(Save(h))) /\ interrupt' \in Setint(intfreq, intrand)
                ELSE Becomes(h) /\ interrupt' = interrupt - 1
  /\ UNCHANGED setup

Next == Step
Spec == Init /\ [][Next]_vars /\ WF_vars(Next)
-----------------------------------------------------------------------------
TypeOK ==
  /\ registers \in [Registers -> Int] /\ conditions \subseteq Conditions
  /\ plist \in [Threads -> [pc : DOMAIN code, cc : SUBSET Conditions, regs : [Registers -> Int], done : BOOLEAN]]
  /\ curr \in DOMAIN procsched /\ interrupt \in 1..intfreq
  /\ ~AllDone(plist) => PC \in DOMAIN code

Halted == [live |-> FALSE, pc |-> 0, regs |-> [r \in Registers |-> 0], cc |-> {}]
Current == procsched[curr]
Context(t) ==
  CASE plist[t].done -> Halted
    [] ~plist[t].done /\ t = Current -> [live |-> TRUE, pc |-> PC, regs |-> registers, cc |-> conditions]
    [] OTHER -> [live |-> TRUE, pc |-> plist[t].pc, regs |-> plist[t].regs, cc |-> plist[t].cc]
Ideal == INSTANCE Machine WITH context <- [t \in Threads |-> Context(t)]

(* While the program runs, the processor runs a thread that has not halted. *)
LiveOneRuns == AllDone(plist) \/ ~plist[Current].done

(* What the threads leave in memory when all have halted is a result the    *)
(* program may have.                                                        *)
ResultsAllowed ==
  AllDone(plist) => \A a \in DOMAIN program.results : Read(memory, a) \in program.results[a]
=============================================================================
