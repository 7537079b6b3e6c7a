---------------------------- MODULE X86Programs -----------------------------
(***************************************************************************)
(* Programs for the simulator of x86.py: the ones its READMEs list, and    *)
(* locks and calls made of the instructions the READMEs describe.          *)
(***************************************************************************)
EXTENDS X86ISA

(* A program, the registers its threads start with, and the values each    *)
(* address may have when all have halted.                                  *)
Program(source, argv, results) == [source |-> source, argv |-> argv, results |-> results]
At(address) == Mem(address, "zero", "zero", 1)
Result(address, values) == [a \in {address} |-> values]
NoArgs(n) == [t \in 1..n |-> << >>]
Loops(n, times) == [t \in 1..n |-> [bx |-> times]]

Increment(address) ==
  <<Line("mov", <<address, Reg("ax")>>), Line("add", <<Imm(1), Reg("ax")>>),
    Line("mov", <<Reg("ax"), address>>)>>
AgainOrHalt ==
  <<Line("sub", <<Imm(1), Reg("bx")>>), Line("test", <<Imm(0), Reg("bx")>>),
    Line("jgt", <<Label("top")>>), Line("halt", <<>>)>>

(* threads-intro/README.md:21-25, 120-124 and 174-183 *)
SimpleRace ==
  Program(<<LabelLine("main")>> \o Increment(At(2000)) \o <<Line("halt", <<>>)>>, NoArgs(2), Result(2000, 1..2))
Loop ==
  Program(<<LabelLine("main"), LabelLine("top"), Line("sub", <<Imm(1), Reg("dx")>>),
            Line("test", <<Imm(0), Reg("dx")>>), Line("jgte", <<Label("top")>>), Line("halt", <<>>)>>,
          <<[dx |-> 2], [dx |-> 0]>>, << >>)
LoopingRace ==
  Program(<<LabelLine("main"), LabelLine("top")>> \o Increment(At(2000)) \o AgainOrHalt, Loops(2, 2),
          Result(2000, 2..4))

(* A spin lock of xchg, with a yield while it is taken. *)
SpinLock ==
  Program(<<VarLine("mutex", 1), VarLine("count", 1), LabelLine("main"), LabelLine("top"), LabelLine("acquire"),
            Line("mov", <<Imm(1), Reg("ax")>>), Line("xchg", <<Reg("ax"), Var("mutex")>>),
            Line("test", <<Imm(0), Reg("ax")>>), Line("je", <<Label("critical")>>), Line("yield", <<>>),
            Line("j", <<Label("acquire")>>), LabelLine("critical")>>
          \o Increment(Var("count")) \o <<Line("mov", <<Imm(0), Var("mutex")>>)>> \o AgainOrHalt,
          Loops(2, 2), Result(104, {4}))

(* A ticket lock of fetchadd, around a turn of its own. *)
TicketLock ==
  Program(<<VarLine("ticket", 1), VarLine("turn", 1), VarLine("count", 1), LabelLine("main"), LabelLine("top"),
            Line("mov", <<Imm(1), Reg("ax")>>), Line("fetchadd", <<Reg("ax"), Var("ticket")>>),
            LabelLine("tryagain"), Line("mov", <<Var("turn"), Reg("cx")>>),
            Line("test", <<Reg("cx"), Reg("ax")>>), Line("jne", <<Label("tryagain")>>)>>
          \o Increment(Var("count")) \o
          <<Line("mov", <<Imm(1), Reg("ax")>>), Line("fetchadd", <<Reg("ax"), Var("turn")>>)>> \o AgainOrHalt,
          Loops(2, 1), Result(108, {2}))

(* A function that adds up squares through its own stack: calls, pushes    *)
(* and pops on two stacks, and an array reached by scaled addresses.       *)
Calls ==
  Program(<<VarLine("square", 4), LabelLine("main"), LabelLine("top"),
            Line("push", <<Reg("bx")>>), Line("call", <<Label("f")>>), Line("pop", <<Reg("cx")>>),
            Line("lea", <<Mem(100, "zero", "cx", 4), Reg("dx")>>),
            Line("mov", <<Reg("ax"), Mem(0, "dx", "zero", 1)>>)>> \o AgainOrHalt \o
          <<LabelLine("f"), Line("mov", <<Mem(4, "sp", "zero", 1), Reg("ax")>>),
            Line("push", <<Mem(0, "ax", "zero", 1)>>), Line("mul", <<Reg("ax"), Reg("ax")>>),
            Line("neg", <<Reg("ax")>>), Line("pop", <<>>), Line("ret", <<>>)>>,
          Loops(2, 2), [a \in {104, 108} |-> IF a = 104 THEN {-1} ELSE {-4}])

All == {SimpleRace, Loop, LoopingRace, SpinLock, TicketLock, Calls}
=============================================================================
