----------------------------- MODULE DecodeAsm -----------------------------
(***************************************************************************)
(* DecodeAsmX86_64::DecodeInstruction (input/instruction_decoder/llvm/     *)
(* amd64/decode_asm_X86_64.cpp): from an MCInst of LLVM to a low-level     *)
(* instruction with the operands srcA, srcB and dstA.                      *)
(*                                                                         *)
(* LLVM is external.  An MCInst is its name, its operand form, its         *)
(* operands and the bytes it has.  An operand v of 32 or more bits goes    *)
(* through a uint32_t and loses its high half, but for displacements, for  *)
(* the immediates of the memory forms and for those of RawFrm.             *)
(***************************************************************************)
EXTENDS HelperTable

CONSTANTS Helper   \* new_helper[]: name of an instruction -> row

\* An operand of an MCInst: a register with its width or an immediate with the
\* number of bits it has in the encoding (dis_info->size; 0 for a scale).
McReg(r, size) == [t |-> "reg", v |-> r, size |-> size]
McImm(v, size) == [t |-> "imm", v |-> v, size |-> size]
McInst(name, form, ops, len, rep) ==
  [name |-> name, form |-> form, ops |-> ops, len |-> len, rep |-> rep]

Uint32(o) == [o EXCEPT !.v = @ % H]

\* The operands keep the size the helper table gives; decoding sets kind and parts.
Blank(size) == [kind |-> "EMPTY", size |-> size, part |-> <<>>]
Reg(p, o) == [p EXCEPT !.kind = "REG", !.part = <<o>>]
Imm(p, o) == [p EXCEPT !.kind = "IMM", !.part = <<o>>]
\* Base, multiplier, index, displacement and segment of a memory operand.
Mem(p, kind, o) ==
  [p EXCEPT !.kind = kind, !.part = <<o[1], Uint32(o[2]), o[3], o[4], o[5]>>]

\* The immediate or the register o in operand p.
RegImm(p, o) == IF o.t = "reg" THEN Reg(p, o) ELSE Imm(p, Uint32(o))

Undecoded == [op |-> "BAD"]

RawFrm(l, ops) ==
  CASE Len(ops) = 0 -> l
    [] Len(ops) = 1 -> [l EXCEPT !.dstA = Reg(@, McReg(AX, @.size)),
                                 !.srcA = Reg(@, McReg(AX, @.size)),
                                 !.srcB = Imm(@, ops[1])]
    [] OTHER -> Undecoded

AddRegFrm(l, ops) ==
  CASE Len(ops) = 1 -> [l EXCEPT !.srcA = Reg(@, ops[1])]
    [] Len(ops) = 2 -> [l EXCEPT !.dstA = Reg(@, ops[1]), !.srcB = Imm(@, Uint32(ops[2]))]
    [] OTHER -> Undecoded

\* As MRMDestReg, but with the destination last, as AT&T syntax prints it.
MRMDestRegSwapped(l, ops) ==
  CASE Len(ops) = 2 -> [l EXCEPT !.dstA = Reg(@, ops[2]), !.srcA = Reg(@, ops[2]),
                                 !.srcB = Reg(@, ops[1])]
    [] Len(ops) = 3 -> [l EXCEPT !.dstA = Reg(@, ops[1]), !.srcA = Reg(@, ops[2]),
                                 !.srcB = Reg(@, ops[3])]
    [] OTHER -> Undecoded

MRMDestReg(l, ops) ==
  CASE Len(ops) = 2 -> [l EXCEPT !.dstA = Reg(@, ops[1]), !.srcA = Reg(@, ops[1]),
                                 !.srcB = Reg(@, ops[2])]
    [] Len(ops) = 3 -> [l EXCEPT !.dstA = Reg(@, ops[1]), !.srcA = Reg(@, ops[2]),
                                 !.srcB = Reg(@, ops[3])]
    [] OTHER -> Undecoded

MRMDestMem(l, ops) ==
  LET a == Mem(l.srcA, "IND_SCALE", ops)
  IN  [l EXCEPT !.srcA = a, !.dstA = a, !.srcB = Reg(@, ops[6])]

MRMSrcReg(l, ops) ==
  CASE Len(ops) = 2 -> [l EXCEPT !.dstA = Reg(@, ops[1]), !.srcB = Reg(@, ops[2])]
    [] Len(ops) = 3 -> [l EXCEPT !.dstA = Reg(@, ops[1]), !.srcB = Reg(@, ops[2]),
                                 !.srcA = RegImm(@, ops[3])]
    [] OTHER -> Undecoded

MRMSrcMem6(l, ops) ==
  [l EXCEPT !.dstA = Reg(@, ops[1]),
            !.srcB = Mem(@, IF l.op = "LEA" THEN "SCALE" ELSE "IND_SCALE", Tail(ops))]

\* The three-operand IMUL has its immediate last.
MRMSrcMemImul(l, ops) ==
  [l EXCEPT !.dstA = Reg(@, ops[1]), !.srcB = Mem(@, "IND_SCALE", Tail(ops)),
            !.srcA = Imm(@, Uint32(ops[7]))]

MRMSrcMem7(l, ops) ==
  [l EXCEPT !.dstA = Reg(@, ops[1]), !.srcA = Reg(@, ops[2]),
            !.srcB = Mem(@, "IND_SCALE", Tail(Tail(ops)))]

MRMSrcMem(l, ops) ==
  CASE Len(ops) = 6 -> MRMSrcMem6(l, ops)
    [] Len(ops) = 7 -> IF l.op = "IMUL" THEN MRMSrcMemImul(l, ops) ELSE MRMSrcMem7(l, ops)
    [] OTHER -> Undecoded

RawFrmDstSrc(l, ops) ==
  IF Len(ops) # 3 THEN Undecoded
  ELSE [l EXCEPT !.dstA = Reg(@, ops[1]), !.srcA = Reg(@, ops[2])]

\* One of the eight /digit forms with a register.
MRMr(l, name, ops) ==
  LET a == Reg(l.srcA, ops[1])
      cl == name \in {"SHL64rCL", "SAR64rCL"}   \* the name ends in "CL"
  IN  CASE Len(ops) = 1 -> [l EXCEPT !.srcA = a]
        [] Len(ops) = 2 ->
             IF ops[2].t = "imm"
             THEN [l EXCEPT !.srcA = a, !.dstA = a, !.srcB = Imm(@, Uint32(ops[2]))]
             ELSE LET tied == Reg(l.srcA, ops[2])
                  IN [l EXCEPT !.srcA = tied, !.dstA = tied,
                               !.srcB = IF cl THEN Reg(@, McReg(CX, 8)) ELSE @]
        [] Len(ops) = 3 -> [l EXCEPT !.dstA = Reg(@, ops[1]), !.srcA = Reg(@, ops[2]),
                                     !.srcB = Imm(@, Uint32(ops[3]))]
        [] OTHER -> Undecoded

\* One of the eight /digit forms with a memory operand, and MRMXm the same.
MRMm(l, ops) ==
  LET a == Mem(l.srcA, "IND_SCALE", ops)
  IN  CASE Len(ops) = 5 -> [l EXCEPT !.srcA = a]
        [] Len(ops) = 6 -> [l EXCEPT !.srcA = a, !.dstA = a, !.srcB = Imm(@, ops[6])]
        [] OTHER -> Undecoded

MRMXm(l, ops) == MRMm(l, ops)

\* DecodeInstruction: the row of the helper table, then the operands by form.
DecodeInstruction(m) ==
  LET h == Helper[m.name]
      l == [op |-> h.op, pred |-> h.pred, len |-> m.len, rep |-> m.rep,
            srcA |-> Blank(h.sizeA), srcB |-> Blank(h.sizeB), dstA |-> Blank(h.sizeD)]
  IN  CASE m.form = "RawFrm"       -> RawFrm(l, m.ops)
        [] m.form = "AddRegFrm"    -> AddRegFrm(l, m.ops)
        [] m.form = "MRMDestReg"   -> MRMDestReg(l, m.ops)
        [] m.form = "MRMDestMem"   -> MRMDestMem(l, m.ops)
        [] m.form = "MRMSrcReg"    -> MRMSrcReg(l, m.ops)
        [] m.form = "MRMSrcMem"    -> MRMSrcMem(l, m.ops)
        [] m.form = "RawFrmDstSrc" -> RawFrmDstSrc(l, m.ops)
        [] m.form = "MRMr"         -> MRMr(l, m.name, m.ops)
        [] m.form = "MRMm"         -> MRMm(l, m.ops)
        [] m.form = "MRMXm"        -> MRMXm(l, m.ops)
        [] OTHER                   -> Undecoded
=============================================================================
