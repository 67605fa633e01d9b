-------------------------------- MODULE Exec -------------------------------
(***************************************************************************)
(* execute_instruction (execute/exe.c): the effect of one RTL instruction  *)
(* on the stores, for every opcode the executor lets through.              *)
(*                                                                         *)
(* Two-operand arithmetic reads the init of its second operand and not its *)
(* offset; ADD, SUB and SBB change the offset of the first one, the others *)
(* fold it into a new offset over the init 0.                              *)
(***************************************************************************)
EXTENDS Store

\* The first switch: operands whose size must not be 0; an opcode that is in none
\* of the sets ends the program.
Binary == {"ADD", "SUB", "SBB", "MUL", "IMUL", "AND", "OR", "XOR", "SHL", "SHR", "SAL", "SAR"}
Rejected(e) ==
  CASE e.op \in {"CMP", "TEST"} -> e.srcA.size = 0 \/ e.srcB.size = 0
    [] e.op \in {"MOV", "NEG", "NOT", "TRUNC"} -> e.srcA.size = 0 \/ e.dstA.size = 0
    [] e.op \in Binary \cup {"ADC"} -> 0 \in {e.srcA.size, e.srcB.size, e.dstA.size}
    [] OTHER -> e.op \notin {"NOP", "LOAD", "STORE", "JMPT", "JMP", "CALL", "IF"}

\* An unchanged value in the destination; a parameter moved is a local.
Moved(v) == IF v.scope = Param THEN Local ELSE v.scope

\* As AddResult, but in arithmetic that never wraps.
AddResultUnbounded(v1, v2) == [v1 EXCEPT !.off = @ + v2.init]
AddResult(v1, v2) == [v1 EXCEPT !.off = Plus(@, v2.init)]
SubResult(v1, v2) == [v1 EXCEPT !.off = Minus(@, v2.init)]
SbbResult(v1, v2) == [v1 EXCEPT !.off = Minus(@, v2.init)]

\* MUL and IMUL keep the init of srcB when srcA is a constant, but subtract that of srcA.
MulResult(v1, v2, imm) ==
  [IF imm THEN v2 ELSE v1 EXCEPT !.off = Minus(Times(Value(v1), Value(v2)), v1.init)]

Folded(v1, off) == Entry(v1.addr, 0, off, v1.scope)
AndResult(v1, v2) == Folded(v1, And(Value(v1), v2.init))
OrResult(v1, v2)  == Folded(v1, Or(Value(v1), v2.init))
XorResult(v1, v2) == Folded(v1, Xor(Value(v1), v2.init))
NegResult(v1)     == Folded(v1, Minus(0, Value(v1)))
NotResult(v1)     == Folded(v1, IF Value(v1) = 0 THEN 1 ELSE 0)
ShlResult(v1, v2) == Folded(v1, ShiftLeft(Value(v1), v2.init))
ShrResult(v1, v2) == Folded(v1, ShiftRight(Value(v1), v2.init))
SalResult(v1, v2) == Folded(v1, ShiftLeft(Value(v1), v2.init))
SarResult(v1, v2) == Folded(v1, ShiftRight(Value(v1), v2.init))

BinaryResult(e, v1, v2) ==
  CASE e.op = "ADD" -> AddResult(v1, v2)
    [] e.op = "SUB" -> SubResult(v1, v2)
    [] e.op = "SBB" -> SbbResult(v1, v2)
    [] e.op \in {"MUL", "IMUL"} -> MulResult(v1, v2, e.srcA.store = "IMM")
    [] e.op = "AND" -> AndResult(v1, v2)
    [] e.op = "OR"  -> OrResult(v1, v2)
    [] e.op = "XOR" -> XorResult(v1, v2)
    [] e.op = "SHL" -> ShlResult(v1, v2)
    [] e.op = "SHR" -> ShrResult(v1, v2)
    [] e.op = "SAL" -> SalResult(v1, v2)
    [] e.op = "SAR" -> SarResult(v1, v2)

\* What an instruction leaves: the stores, and whether it ended the program.
Done(st, v) == [st |-> st, exit |-> v.scope = Unknown]
Exited(st)  == [st |-> st, exit |-> TRUE]

\* XOR of an operand with itself makes no parameter of it; SAR reads both
\* sources as first ones.
ExecBinary(st, e) ==
  LET a == Get(st, e.srcA, e.op = "XOR" /\ e.srcA = e.srcB)
      b == Get(a.st, e.srcB, e.op # "SAR")
      v == BinaryResult(e, a.val, b.val)
  IN  Done(Put(b.st, e.dstA, v), v)

ExecMov(st, e) ==
  LET a == Get(st, e.srcA, FALSE)
      v == [a.val EXCEPT !.scope = Moved(a.val)]
  IN  IF v.scope = Unknown THEN Exited(a.st) ELSE Done(Put(a.st, e.dstA, v), v)

ExecLoad(st, e) ==
  LET a == Get(st, e.srcA, FALSE)
      v == [a.val EXCEPT !.scope = Local]
  IN  Done(Put(a.st, e.dstA, v), v)

\* STORE reads the address in srcB as well.
ExecStore(st, e) ==
  LET a == Get(st, e.srcA, FALSE)
      b == Get(a.st, e.srcB, TRUE)
      v == [a.val EXCEPT !.scope = IF e.dstA.ind = "STACK" THEN Local ELSE InData]
  IN  Done(Put(b.st, e.dstA, v), v)

ExecNeg(st, e) ==
  LET a == Get(st, e.srcA, FALSE) IN Done(Put(a.st, e.dstA, NegResult(a.val)), a.val)
ExecNot(st, e) ==
  LET a == Get(st, e.srcA, FALSE) IN Done(Put(a.st, e.dstA, NotResult(a.val)), a.val)

\* TRUNC keeps the low bits of both parts.
ExecTrunc(st, e) ==
  LET a == Get(st, e.srcA, FALSE)
      Low(x) == x % Modulus(e.dstA.size)
      v == Entry(a.val.addr, Low(a.val.init), Low(a.val.off), Moved(a.val))
  IN  Done(Put(a.st, e.dstA, v), v)

\* CMP and TEST read and store nothing.
ExecCmp(st, e) == [st |-> Get(Get(st, e.srcA, FALSE).st, e.srcB, TRUE).st, exit |-> FALSE]
ExecTest(st, e) ==
  LET a == Get(st, e.srcA, FALSE) IN Done(Get(a.st, e.srcB, TRUE).st, a.val)

\* ADC stores a value3 that nothing has set.
ExecAdc(st, e) == Exited(Get(Get(st, e.srcA, FALSE).st, e.srcB, TRUE).st)

\* IF leaves EIP to process_block; Target is what it queues.
Target(st, e) == Plus(Found(st.reg, IP).off, e.dstA.idx)
ExecIf(st, e) == [st |-> st, exit |-> FALSE]
ExecJmpt(st, e) ==
  LET a == Get(st, e.srcA, FALSE) IN Done(Get(a.st, e.dstA, TRUE).st, a.val)
ExecJmp(st, e) ==
  [st |-> [st EXCEPT !.reg = Update(@, AddResult(Found(@, IP), Entry(0, e.srcA.idx, 0, Const)))],
   exit |-> FALSE]

\* CALL makes AX an unknown local; registers and memory keep their values.
ExecCall(st, e) ==
  LET s == Get(Get(st, e.srcA, FALSE).st, e.srcB, TRUE).st
  IN  [st |-> Put(s, e.dstA, Entry(0, 0, 0, Local)), exit |-> FALSE]

\* execute_instruction
Execute(st, e) ==
  IF Rejected(e) THEN Exited(st) ELSE
  CASE e.op \in Binary  -> ExecBinary(st, e)
    [] e.op = "NOP"     -> [st |-> st, exit |-> FALSE]
    [] e.op = "MOV"     -> ExecMov(st, e)
    [] e.op = "LOAD"    -> ExecLoad(st, e)
    [] e.op = "STORE"   -> ExecStore(st, e)
    [] e.op = "NEG"     -> ExecNeg(st, e)
    [] e.op = "NOT"     -> ExecNot(st, e)
    [] e.op = "TRUNC"   -> ExecTrunc(st, e)
    [] e.op = "CMP"     -> ExecCmp(st, e)
    [] e.op = "TEST"    -> ExecTest(st, e)
    [] e.op = "ADC"     -> ExecAdc(st, e)
    [] e.op = "IF"      -> ExecIf(st, e)
    [] e.op = "JMPT"    -> ExecJmpt(st, e)
    [] e.op = "JMP"     -> ExecJmp(st, e)
    [] e.op = "CALL"    -> ExecCall(st, e)
=============================================================================
