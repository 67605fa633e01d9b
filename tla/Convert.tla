------------------------------ MODULE Convert ------------------------------
(***************************************************************************)
(* convert_ll_inst_to_rtl (input/convert_ll_inst_to_rtl/dis.c): from a     *)
(* low-level instruction to the sequence of RTL instructions that the      *)
(* executor runs and the log keeps.                                        *)
(*                                                                         *)
(* A memory operand is computed into TMP1, loaded into TMP2, and stored    *)
(* from TMP2.  FAILED is where the code prints an error and exits.         *)
(* Relocations of operands are left out.                                   *)
(***************************************************************************)
EXTENDS DecodeAsm

FAILED == <<Instruction("FAILED", 0, NoOp, NoOp, NoOp)>>

Empty(p) == [p EXCEPT !.kind = "EMPTY"]
Tmp(r) == [kind |-> "REG", size |-> 64, part |-> <<McReg(r, 64)>>]
Constant(o) == [kind |-> "IMM", size |-> 64, part |-> <<o>>]

\* convert_operand: part i of a low-level operand as an RTL operand.
ConvertOperand(p, i) ==
  CASE p.kind = "EMPTY" -> [NoOp EXCEPT !.size = 0]
    [] p.kind = "REG"   -> RegOp(p.part[i].v, p.part[i].size)
    [] p.kind = "IMM"   -> ImmOp(p.part[i].v, p.size)
    [] p.kind \in {"SCALE", "IND_SCALE"} ->
         IF i \in {1, 3, 5} THEN RegOp(p.part[i].v, p.part[i].size)
                            ELSE ImmOp(p.part[i].v, p.part[i].size)

Sized(o, size) == [o EXCEPT !.size = size]
Indirect(o, ind) == [o EXCEPT !.ind = ind]

\* base, multiplier, index and displacement of a memory operand.
Base(p)  == p.part[1]
Scale(p) == p.part[2]
Idx(p)   == p.part[3]
Disp(p)  == p.part[4]

\* The address computed so far: the instructions, and the low-level operand that
\* holds it (kind "EMPTY" while there is nothing).
None == [kind |-> "EMPTY", size |-> 0, part |-> <<>>]
HeldIn(o) == [kind |-> "REG", size |-> 64, part |-> <<o>>]
Step(code, held) == [code |-> code, held |-> held]
Into1(op, a, b) == Instruction(op, 0, a, b, RegOp(TMP1, 64))
Then1(s, op, a, b) == Step(Append(s.code, Into1(op, a, b)), Tmp(TMP1))

\* The index times its multiplier; a multiplier of 1 needs no instruction.
ScaledIndex(p, multiplier) ==
  CASE Idx(p).v = NoReg                   -> Step(<<>>, None)
    [] Idx(p).v # NoReg /\ Scale(p).v = 1 -> Step(<<>>, HeldIn(Idx(p)))
    [] OTHER -> Then1(Step(<<>>, None), "IMUL", ConvertOperand(p, 3), multiplier)

\* The displacement as a constant and the operation that applies its sign.
Magnitude(p) ==
  Constant([Disp(p) EXCEPT !.v = IF Negative(@) THEN Minus(0, @) ELSE @])
SignedOp(p) == IF Negative(Disp(p).v) THEN "SUB" ELSE "ADD"

\* LEA: index, displacement, base, in this order.  A negative displacement makes
\* the last step a SUB as well.
LeaAddress(p) ==
  LET index == ScaledIndex(p, ConvertOperand(p, 2))
      moved == CASE Disp(p).v = 0 -> index
                 [] Disp(p).v # 0 /\ index.held = None -> Step(index.code, Magnitude(p))
                 [] OTHER -> Then1(index, SignedOp(p), ConvertOperand(index.held, 1),
                                   ConvertOperand(Magnitude(p), 1))
  IN  IF moved.held = None
      THEN Then1(moved, "MOV", ConvertOperand(p, 1), NoOp)
      ELSE Then1(moved, SignedOp(p), ConvertOperand(p, 1), ConvertOperand(moved.held, 1))

\* convert_base without a memory operand.  The executor never sees the SCALE
\* operand of a LEA: MOV reads srcA only.
ConvertDirect(l, flags) ==
  LET lea == l.srcB.kind = "SCALE"
      pre == IF lea THEN LeaAddress(l.srcB).code ELSE <<>>
      a   == IF lea THEN Tmp(TMP1) ELSE l.srcA
  IN  Append(pre, Instruction(IF lea THEN "MOV" ELSE l.op, flags, ConvertOperand(a, 1),
                              ConvertOperand(l.srcB, 1), ConvertOperand(l.dstA, 1)))

\* A memory operand: index, base, displacement, always ending in TMP1.
MemAddress(p) ==
  LET index == ScaledIndex(p, ImmOp(Scale(p).v, 64))
      based == CASE Base(p).v = NoReg -> index
                 [] Base(p).v # NoReg /\ index.held = None -> Step(<<>>, HeldIn(Base(p)))
                 [] OTHER -> Then1(index, "ADD", ConvertOperand(index.held, 1),
                                   ConvertOperand(p, 1))
      held == IF based.held = None THEN ImmOp(0, 64) ELSE ConvertOperand(based.held, 1)
  IN  Then1(based, SignedOp(p), held, ConvertOperand(Magnitude(p), 1)).code

\* SP and BP point to the stack, every other base to memory.
Space(p) == IF Base(p).v \in SP .. BP THEN "STACK" ELSE "MEM"

\* convert_base with a memory operand: address, LOAD, operation, STORE.
ConvertIndirect(l, flags) ==
  LET InMem(p) == p.kind = "IND_SCALE"
      p == CASE InMem(l.srcB) -> l.srcB [] InMem(l.srcA) -> l.srcA [] OTHER -> l.dstA
      a == IF InMem(l.srcA) THEN Tmp(TMP2) ELSE l.srcA
      b == IF InMem(l.srcB) THEN Tmp(TMP2) ELSE l.srcB
      d == IF InMem(l.dstA) THEN RegOp(TMP2, l.dstA.size) ELSE ConvertOperand(l.dstA, 1)
      load == Instruction("LOAD", 0, Indirect(RegOp(TMP1, l.srcA.size), Space(p)),
                          RegOp(TMP1, 64), RegOp(TMP2, l.srcA.size))
      main == Instruction(l.op, flags, Sized(ConvertOperand(a, 1), l.srcA.size),
                          Sized(ConvertOperand(b, 1), l.srcB.size), d)
      store == Instruction("STORE", 0, RegOp(TMP2, l.srcA.size), RegOp(TMP1, 64),
                           Indirect(RegOp(TMP1, l.dstA.size), Space(p)))
  IN  MemAddress(p)
      \o (IF InMem(l.srcA) \/ InMem(l.srcB) THEN <<load>> ELSE <<>>)
      \o <<main>>
      \o (IF InMem(l.dstA) THEN <<store>> ELSE <<>>)

ConvertBase(l, flags) ==
  IF "IND_SCALE" \in {l.srcA.kind, l.srcB.kind, l.dstA.kind}
  THEN ConvertIndirect(l, flags) ELSE ConvertDirect(l, flags)

-----------------------------------------------------------------------------
(* convert_ll_inst_to_rtl, opcode by opcode *)

\* MOV takes its source from srcB.
FromB(l) == [l EXCEPT !.srcA = l.srcB, !.srcB = Empty(@)]
ConvertMov(l) == ConvertBase(FromB(l), 0)

\* Skip the rest of this machine instruction when the predicate holds.
Skip(pred) == Instruction("IF", 0, ImmOp(pred, 32), NoOp, ImmOp(0, 32))

\* CMOV: its source is in srcA, where the three-operand form puts it.
ConvertCmov(l) ==
  <<Skip(l.pred)>> \o ConvertBase([l EXCEPT !.op = "MOV", !.srcB = Empty(@)], 0)

\* SETCC: 1 under one predicate, 0 under the opposite one.
Opposite(pred) == IF pred % 2 = 1 THEN pred + 1 ELSE pred - 1
ConvertSetcc(l) ==
  LET Set(v) == [l EXCEPT !.op = "MOV", !.dstA = l.srcA,
                          !.srcA = [kind |-> "IMM", size |-> 8, part |-> <<McImm(v, 8)>>]]
  IN  <<Skip(l.pred)>> \o ConvertBase(Set(1), 0)
      \o <<Skip(Opposite(l.pred))>> \o ConvertBase(Set(0), 0)

\* DEC and INC: subtract or add a constant 1 of the width of the destination.
ConvertStep(l, op) ==
  IF l.dstA.size = 0 THEN FAILED
  ELSE ConvertBase([l EXCEPT !.op = op, !.srcA = l.dstA,
                             !.srcB = [kind |-> "IMM", size |-> l.dstA.size,
                                       part |-> <<McImm(1, l.dstA.size)>>]], 1)

ConvertTest(l) ==
  IF l.srcA.kind = "EMPTY" /\ l.srcB.kind # "EMPTY" /\ l.dstA.kind # "EMPTY"
  THEN ConvertBase([l EXCEPT !.srcA = l.dstA, !.dstA = Empty(@)], 1)
  ELSE ConvertBase(l, 1)

ConvertCmp(l) == ConvertBase([l EXCEPT !.dstA = Empty(@)], 1)

\* SEX; CDQE has no operands and stands for AX.
ConvertSex(l) ==
  LET cdqe == {l.srcA.kind, l.srcB.kind, l.dstA.kind} = {"EMPTY"}
      ax(p) == Reg(p, McReg(AX, p.size))
  IN  ConvertBase(FromB(IF cdqe THEN [l EXCEPT !.srcB = ax(@), !.dstA = ax(@)] ELSE l), 0)

\* Jumps: the target is relative to EIP, which is already behind the instruction.
Relative(l) == SignExtend(l.srcB.part[1].v, l.srcB.part[1].size)
ConvertJmp(l) == <<Instruction("JMP", 0, ImmOp(Relative(l), 64), NoOp, RegOp(IP, 64))>>
ConvertIf(l)  == <<Instruction("IF", 0, ImmOp(l.pred, 32), NoOp, ImmOp(Relative(l), 32))>>

\* JMPT and JMPM: an indirect jump, converted as one JMPT into IP.
SetLast(code, e) == [code EXCEPT ![Len(code)] = e]
ConvertJmpt(l) ==
  LET code == ConvertBase([l EXCEPT !.op = "JMPT"], 0)
  IN  SetLast(code, [code[Len(code)] EXCEPT !.dstA = RegOp(IP, 64)])

\* A call reads its target and SP and writes AX.
ConvertCall(l) ==
  <<Instruction("CALL", 0, ConvertOperand(l.srcB, 1), RegOp(SP, 64), RegOp(AX, 64))>>
ConvertCallm(l) ==
  LET code == ConvertBase([l EXCEPT !.op = "CALL"], 0)
  IN  SetLast(code, [code[Len(code)] EXCEPT !.srcB = RegOp(SP, 64), !.dstA = RegOp(AX, 64)])

Top(size) == Indirect(RegOp(SP, size), "STACK")
MoveSP(op, bytes) == Instruction(op, 0, RegOp(SP, 64), ImmOp(bytes, 64), RegOp(SP, 64))
Pop(d, size) == Instruction("LOAD", 0, Top(size), RegOp(SP, size), d)

\* As ConvertPush, but SP moves behind the STORE.
ConvertPushLate(l) ==
  << Instruction("STORE", 0, ConvertOperand(l.srcA, 1), RegOp(SP, 64), Top(l.srcA.size)),
     MoveSP("SUB", l.srcA.size \div 8) >>

ConvertPush(l) ==
  << MoveSP("SUB", l.srcA.size \div 8),
     Instruction("STORE", 0, ConvertOperand(l.srcA, 1), RegOp(SP, 64), Top(l.srcA.size)) >>

\* The form of POP puts its destination in srcA.
ConvertPop(l) ==
  << Pop(ConvertOperand(l.srcA, 1), l.srcA.size), MoveSP("ADD", l.srcA.size \div 8) >>

ConvertLeave ==
  << Instruction("MOV", 0, RegOp(BP, 64), NoOp, RegOp(SP, 64)),
     Pop(RegOp(BP, 64), 64), MoveSP("ADD", 8) >>

\* RET: the NOP of AX stands for the returned value.
ConvertRet ==
  LET Same(op, d, s) == Instruction(op, 0, RegOp(s, 64), RegOp(s, 64), RegOp(d, 64))
  IN  << Pop(RegOp(TMP1, 64), 64), MoveSP("ADD", 8), Same("NOP", AX, AX), Same("MOV", IP, TMP1) >>

\* MOVS: load through the source register, store through the destination register,
\* advance both by their width; a REP prefix adds a loop over CX around it.
ConvertMovs(l) ==
  LET s == ConvertOperand(l.srcA, 1)
      d == ConvertOperand(l.dstA, 1)
      Advance(r, size) == Instruction("ADD", 0, ImmOp(size \div 8, size), r, r)
      cx == RegOp(CX, l.srcA.size)
      head == << Instruction("CMP", 1, cx, ImmOp(0, l.srcA.size), ImmOp(0, 32)), Skip(4),
                 Instruction("SUB", 0, ImmOp(1, l.srcA.size), cx, cx) >>
      body == << Instruction("LOAD", 0, Indirect(s, "MEM"), s, RegOp(TMP2, 64)),
                 Instruction("STORE", 0, RegOp(TMP2, 64), d, Indirect(d, "MEM")),
                 Advance(s, l.srcA.size), Advance(d, l.dstA.size) >>
      back == << Instruction("JMP", 0, ImmOp(Minus(0, l.len), 64), NoOp, RegOp(IP, 64)) >>
  IN  IF l.rep = 1 THEN head \o body \o back ELSE body

\* IMULD and MULD: the product of two 32-bit registers over AX and the operand, which
\* gets the high half by a shift of half a word.
ConvertLongMul(l, widen) ==
  LET a(size) == RegOp(AX, size)
      s(size) == Sized(ConvertOperand(l.srcA, 1), size)
      One(op, flags, x, y, d) == Instruction(op, flags, x, y, d)
  IN  << One(widen, 0, s(32), NoOp, s(64)), One(widen, 0, a(32), NoOp, a(64)),
         One("MUL", 1, a(64), s(64), a(64)), One("SAR", 0, a(64), ImmOp(HalfBits, 64), s(64)),
         One("TRUNC", 0, a(64), NoOp, a(32)), One("TRUNC", 0, s(64), NoOp, s(32)) >>

\* MULD is written out again, with MOV in place of SEX.
ConvertMuld(l) == ConvertLongMul(l, "MOV")

Arithmetic == {"ADD", "ADC", "SUB", "SBB", "OR", "XOR", "AND", "NOT", "NEG", "MUL", "IMUL",
               "DIV", "IDIV", "ROL", "ROR", "RCL", "RCR", "SHL", "SHR", "SAL", "SAR"}

\* FAILED where the code exits or reports an instruction it does not handle.
ConvertLl(l) ==
  CASE l.op = "NOP"   -> <<>>
    [] l.op = "MOV"   -> ConvertMov(l)
    [] l.op = "CMOV"  -> ConvertCmov(l)
    [] l.op = "SETCC" -> ConvertSetcc(l)
    [] l.op = "DEC"   -> ConvertStep(l, "SUB")
    [] l.op = "INC"   -> ConvertStep(l, "ADD")
    [] l.op = "LEA"   -> ConvertBase(l, 0)
    [] l.op \in {"JMPT", "JMPM"} -> ConvertJmpt(l)
    [] l.op = "JMP"   -> ConvertJmp(l)
    [] l.op = "CALL"  -> ConvertCall(l)
    [] l.op = "CALLM" -> ConvertCallm(l)
    [] l.op = "IF"    -> ConvertIf(l)
    [] l.op \in {"LOAD", "STORE"} -> ConvertBase(l, 0)
    [] l.op = "SEX"   -> ConvertSex(l)
    [] l.op = "RET"   -> ConvertRet
    [] l.op \in Arithmetic -> ConvertBase(l, 1)
    [] l.op = "TEST"  -> ConvertTest(l)
    [] l.op = "CMP"   -> ConvertCmp(l)
    [] l.op = "LEAVE" -> ConvertLeave
    [] l.op = "PUSH"  -> ConvertPush(l)
    [] l.op = "POP"   -> ConvertPop(l)
    [] l.op = "MOVS"  -> ConvertMovs(l)
    [] l.op = "IMULD" -> ConvertLongMul(l, "SEX")
    [] l.op = "MULD"  -> ConvertMuld(l)
    [] OTHER          -> FAILED
=============================================================================
