------------------------------- MODULE X86ISA -------------------------------
(***************************************************************************)
(* The loader and the instructions of the simulator of threads-locks/      *)
(* x86.py.  A program is a sequence of lines: variables, labels and        *)
(* instructions whose arguments are operands.  The text of a line is not   *)
(* modelled, what the loader makes of it is: labels and variables become   *)
(* addresses, and an instruction with operands of the wrong kinds ends the *)
(* simulator before it runs.                                               *)
(***************************************************************************)
EXTENDS Integers, Sequences, FiniteSets, FiniteSetsExt, Functions

Registers == {"zero", "ax", "bx", "cx", "dx", "ex", "fx", "sp", "bp"}
Conditions == {"GT", "GTE", "LT", "LTE", "EQ", "NEQ"}

(* Operands, and the lines of a program. *)
Imm(n) == [type |-> "IMMEDIATE", value |-> n]
Reg(r) == [type |-> "REGISTER", reg |-> r]
Mem(value, reg1, reg2, scale) ==
  [type |-> "MEMORY", value |-> value, reg1 |-> reg1, reg2 |-> reg2, scale |-> scale]
Label(name) == [type |-> "LABEL", name |-> name]
Var(name) == [type |-> "VARIABLE", name |-> name]

VarLine(name, mul) == [kind |-> "var", name |-> name, mul |-> mul]
LabelLine(name) == [kind |-> "label", name |-> name]
Line(op, args) == [kind |-> "instruction", op |-> op, args |-> args]
-----------------------------------------------------------------------------
(* The loader.  Its first pass finds the addresses of labels and variables, *)
(* its second translates the instructions.                                  *)

DATA == 100
Before(source, k, kind) == {j \in 1..k - 1 : source[j].kind = kind}
Named(source, kind) == {k \in DOMAIN source : source[k].kind = kind}
LineOf(source, kind, name) == Max({k \in Named(source, kind) : source[k].name = name})

LabelAddress(source, loadaddr, name) ==
  loadaddr + Cardinality(Before(source, LineOf(source, "label", name), "instruction"))
DataEnd(source, k) == DATA + MapThenSumSet(LAMBDA j : 4 * source[j].mul, Before(source, k, "var"))
VarAddress(source, name) == DataEnd(source, LineOf(source, "var", name))

GetArg(source, loadaddr, arg) ==
  CASE arg.type = "VARIABLE" -> Mem(VarAddress(source, arg.name), "zero", "zero", 1)
    [] arg.type = "LABEL" -> Imm(LabelAddress(source, loadaddr, arg.name))
    [] OTHER -> arg

JumpIf == [jne |-> "NEQ", je |-> "EQ", jlt |-> "LT", jlte |-> "LTE", jgt |-> "GT", jgte |-> "GTE"]
IR == <<"IMMEDIATE", "REGISTER">>
RR == <<"REGISTER", "REGISTER">>
RM == <<"REGISTER", "MEMORY">>
MR == <<"MEMORY", "REGISTER">>
Forms(op) ==
  CASE op = "mov" -> {IR, MR, RM, RR, <<"IMMEDIATE", "MEMORY">>}
    [] op = "lea" -> {MR}
    [] op \in {"add", "sub", "mul"} -> {IR, RR}
    [] op \in {"xchg", "fetchadd"} -> {RM}
    [] op = "test" -> {IR, RR, <<"REGISTER", "IMMEDIATE">>}
    [] op = "neg" -> {<<"REGISTER">>}
    [] op = "pop" -> {<<>>, <<"REGISTER">>}
    [] op = "push" -> {<<"REGISTER">>, <<"MEMORY">>}
    [] op \in DOMAIN JumpIf \cup {"j", "call"} -> {<<"LABEL">>}
    [] op = "mdump" -> {<<"IMMEDIATE">>}
    [] op \in {"ret", "nop", "halt", "yield", "rdump"} -> {<<>>}
    [] OTHER -> {}
WellFormed(line) ==
  [k \in DOMAIN line.args |-> IF line.args[k].type = "VARIABLE" THEN "MEMORY" ELSE line.args[k].type]
    \in Forms(line.op)

Loads(source, loadaddr) ==
  /\ \A k \in Named(source, "instruction") : WellFormed(source[k])
  /\ \A k \in Named(source, "var") : DataEnd(source, k + 1) < loadaddr
Load(source, loadaddr) ==
  LET lines == Named(source, "instruction")
      place(k) == loadaddr + Cardinality(Before(source, k, "instruction"))
  IN [pc \in {place(k) : k \in lines} |->
        LET line == source[CHOOSE k \in lines : place(k) = pc]
        IN [op |-> line.op, args |-> [a \in DOMAIN line.args |-> GetArg(source, loadaddr, line.args[a])]]]
-----------------------------------------------------------------------------
(* The instructions, on a machine m: what has been written to memory, which *)
(* is 0 elsewhere, the program counter, already past the instruction, the   *)
(* registers and the conditions that hold.                                  *)

Read(mem, a) == IF a \in DOMAIN mem THEN mem[a] ELSE 0
Written(mem, a, v) == [b \in DOMAIN mem \cup {a} |-> IF b = a THEN v ELSE mem[b]]

Address(m, arg) == arg.value + m.regs[arg.reg1] + arg.scale * m.regs[arg.reg2]
Unscaled(m, arg) == Address(m, [arg EXCEPT !.scale = 1])
Value(m, arg) ==
  CASE arg.type = "IMMEDIATE" -> arg.value
    [] arg.type = "REGISTER" -> m.regs[arg.reg]
    [] arg.type = "MEMORY" -> Read(m.mem, Address(m, arg))
Put(m, arg, v) ==
  IF arg.type = "REGISTER" THEN [m EXCEPT !.regs[arg.reg] = v]
                           ELSE [m EXCEPT !.mem = Written(@, Address(m, arg), v)]

(* xchg and fetchadd read and write memory in one instruction.  Neither     *)
(* scales its second register.                                              *)
Exchanged(m, src, dst, new) ==
  LET at == Unscaled(m, dst)
  IN [m EXCEPT !.mem = Written(@, at, new), !.regs[src.reg] = Read(m.mem, at)]
\* Mutant of AtomicExchange: the register keeps its value.
ExchangeStore(m, src, dst) == [m EXCEPT !.mem = Written(@, Unscaled(m, dst), m.regs[src.reg])]
AtomicExchange(m, src, dst) == Exchanged(m, src, dst, m.regs[src.reg])
Fetchadd(m, src, dst) == Exchanged(m, src, dst, Read(m.mem, Unscaled(m, dst)) + m.regs[src.reg])

TestAll(src, dst) ==
  {c \in Conditions : CASE c = "GT" -> dst > src [] c = "GTE" -> dst >= src
                        [] c = "LT" -> dst < src [] c = "LTE" -> dst <= src
                        [] c = "EQ" -> dst = src [] c = "NEQ" -> dst # src}

(* push of a memory operand pushes its address. *)
Lowered(m) == [m EXCEPT !.regs["sp"] = @ - 4]
Raised(m) == [m EXCEPT !.regs["sp"] = @ + 4]
Push(m, v) == [m EXCEPT !.mem = Written(@, m.regs["sp"], v)]
PushArg(m, arg) == Push(Lowered(m), IF arg.type = "MEMORY" THEN Address(Lowered(m), arg) ELSE Value(Lowered(m), arg))
Top(m) == Read(m.mem, m.regs["sp"])
Call(m, target) == [Push(Lowered(m), m.pc) EXCEPT !.pc = target]
Ret(m) == Raised([m EXCEPT !.pc = Top(m)])
PopR(m, arg) == Raised(Put(m, arg, Top(m)))

Execute(m, i) ==
  LET src == i.args[1]
      dst == i.args[2]
  IN CASE i.op = "mov" -> Put(m, dst, Value(m, src))
       [] i.op = "lea" -> Put(m, dst, Address(m, src))
       [] i.op = "add" -> Put(m, dst, Value(m, dst) + Value(m, src))
       [] i.op = "sub" -> Put(m, dst, Value(m, dst) - Value(m, src))
       [] i.op = "mul" -> Put(m, dst, Value(m, dst) * Value(m, src))
       [] i.op = "neg" -> Put(m, src, -Value(m, src))
       [] i.op = "xchg" -> AtomicExchange(m, src, dst)
       [] i.op = "fetchadd" -> Fetchadd(m, src, dst)
       [] i.op = "test" -> [m EXCEPT !.cc = TestAll(Value(m, src), Value(m, dst))]
       [] i.op = "j" -> [m EXCEPT !.pc = src.value]
       [] i.op \in DOMAIN JumpIf -> IF JumpIf[i.op] \in m.cc THEN [m EXCEPT !.pc = src.value] ELSE m
       [] i.op = "call" -> Call(m, src.value)
       [] i.op = "ret" -> Ret(m)
       [] i.op = "push" -> PushArg(m, src)
       [] i.op = "pop" -> IF i.args = <<>> THEN Raised(m) ELSE PopR(m, src)
       [] OTHER -> m   \* halt, yield, nop, rdump, mdump
=============================================================================
