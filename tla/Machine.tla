------------------------------ MODULE Machine -------------------------------
(***************************************************************************)
(* What the simulator of x86.py stands for: threads with registers and     *)
(* condition codes of their own, over one memory, whose instructions take  *)
(* effect one at a time, in any interleaving.                              *)
(***************************************************************************)
EXTENDS X86ISA

VARIABLES
  code,      \* the instruction at each address
  memory,
  context    \* of each thread: whether it is live, its pc, registers and conditions

Halted == [live |-> FALSE, pc |-> 0, regs |-> [r \in Registers |-> 0], cc |-> {}]

Init ==
  /\ memory = << >>
  /\ \A t \in DOMAIN context : context[t].cc = {}

Step(t) ==
  /\ context[t].live
  /\ \E i \in {code[context[t].pc]} :
       \E m \in {Execute([mem |-> memory, pc |-> context[t].pc + 1, regs |-> context[t].regs,
                          cc |-> context[t].cc], i)} :
         /\ memory' = m.mem
         /\ context' = [context EXCEPT ![t] = IF i.op = "halt" THEN Halted
                                              ELSE [live |-> TRUE, pc |-> m.pc, regs |-> m.regs, cc |-> m.cc]]
  /\ UNCHANGED code

Next == \E t \in DOMAIN context : Step(t)

Spec == Init /\ [][Next]_<<code, memory, context>>
=============================================================================
