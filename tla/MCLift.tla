------------------------------ MODULE MCLift ------------------------------
(***************************************************************************)
(* Lift on words of 8 bits, whose low 4 bits stand for the low 32 bits of  *)
(* a word: rows of decode_inst_helper.h and machine instructions as LLVM   *)
(* gives them.                                                             *)
(***************************************************************************)
EXTENDS LiftProps, TLC

\* name -> number of its row and mnemonic.  CQO is one that is not supported.
Rows ==
     "MOV64rr" :> <<1537, "MOV">>           @@ "MOV64rm" :> <<1536, "MOV">>
  @@ "MOV64mr" :> <<1526, "MOV">>           @@ "MOV64ri" :> <<1534, "MOV">>
  @@ "MOV64ri32" :> <<1535, "MOV">>         @@ "ADD64rr" :> <<100, "ADD">>
  @@ "ADD64rm" :> <<99, "ADD">>             @@ "ADD64mr" :> <<94, "ADD">>
  @@ "ADD64ri8" :> <<97, "ADD">>            @@ "ADD64mi8" :> <<93, "ADD">>
  @@ "ADD64i32" :> <<91, "ADD">>            @@ "SUB64rr" :> <<2632, "SUB">>
  @@ "SUB64ri8" :> <<2630, "SUB">>          @@ "IMUL64rr" :> <<889, "IMUL">>
  @@ "IMUL64rri8" :> <<891, "IMUL">>        @@ "IMUL64rmi8" :> <<888, "IMUL">>
  @@ "DEC64r" :> <<664, "DEC">>             @@ "INC64r" :> <<912, "INC">>
  @@ "SHL64ri" :> <<2475, "SHL">>           @@ "SHL64rCL" :> <<2474, "SHL CL">>
  @@ "SAR64ri" :> <<2354, "SAR">>           @@ "XOR64rr" :> <<5140, "XOR">>
  @@ "AND64rr" :> <<192, "AND">>            @@ "OR64rr" :> <<1765, "OR">>
  @@ "AND64ri8" :> <<190, "AND">>           @@ "ADC64rr" :> <<54, "ADC">>
  @@ "SBB64rr" :> <<2390, "SBB">>           @@ "NEG64r" :> <<1725, "NEG">>
  @@ "NOT64r" :> <<1736, "NOT">>            @@ "LEA64r" :> <<1136, "LEA">>
  @@ "CMP64rr" :> <<542, "CMP">>            @@ "CMP64rm" :> <<541, "CMP">>
  @@ "TEST64rr" :> <<2725, "TEST">>         @@ "PUSH64r" :> <<2143, "PUSH">>
  @@ "POP64r" :> <<2023, "POP">>            @@ "LEAVE64" :> <<1138, "LEAVE">>
  @@ "RETQ" :> <<2260, "RET">>              @@ "JMP_1" :> <<1060, "JMP">>
  @@ "JE_1" :> <<1045, "JCC">>              @@ "JMP64r" :> <<1059, "JMPT">>
  @@ "CALL64pcrel32" :> <<356, "CALL">>     @@ "CALL64r" :> <<357, "CALL">>
  @@ "CMOVE64rr" :> <<412, "CMOV">>         @@ "SETEr" :> <<2418, "SETCC">>
  @@ "SETEm" :> <<2417, "SETCC">>           @@ "CDQE" :> <<362, "CDQE">>
  @@ "IMUL32r" :> <<877, "IMULD">>          @@ "MUL32r" :> <<1677, "MUL">>
  @@ "MOVSQ" :> <<1626, "MOVS">>            @@ "CQO" :> <<594, "CQO">>
  @@ "MOV32rr" :> <<1514, "MOV">>           @@ "MOV32ri" :> <<1511, "MOV">>
  @@ "ADD32rr" :> <<88, "ADD">>             @@ "ADD32ri8" :> <<84, "ADD">>
  @@ "SUB32rr" :> <<2622, "SUB">>           @@ "IMUL32rr" :> <<881, "IMUL">>
  @@ "SHL32ri" :> <<2468, "SHL">>           @@ "SAR32ri" :> <<2347, "SAR">>
  @@ "DEC64_32r" :> <<662, "DEC">>          @@ "INC64_32r" :> <<910, "INC">>
  @@ "LEA64_32r" :> <<1135, "LEA">>         @@ "XOR32rr" :> <<5130, "XOR">>

HelperRows == NewHelper([n \in DOMAIN Rows |-> Rows[n][1]])
Meanings   == [n \in DOMAIN Rows |-> Rows[n][2]]

R(r) == McReg(r, IF r = NoReg THEN 0 ELSE 64)
I(v, size) == McImm(v % W, size)
At5(base, scale, index, disp) ==
  <<R(base), I(scale, 0), R(index), I(disp, 32), McReg(NoReg, 0)>>
M(name, form, ops, len) == McInst(name, form, ops, len, 0)

\* dst OP src; the tied source comes between them.
RR(name, form, d, s) == M(name, form, <<R(d), R(d), R(s)>>, 3)
RI(name, d, v) == M(name, "MRMr", <<R(d), R(d), I(v, 8)>>, 4)
Load(name, d, at) == M(name, "MRMSrcMem", <<R(d)>> \o at, 4)
Store64(name, at, s) == M(name, "MRMDestMem", at \o <<R(s)>>, 4)
One(name, form, r) == M(name, form, <<R(r)>>, 1)
Zero(name, len) == M(name, "RawFrm", <<>>, len)
Rel(name, v, size, len) == M(name, "RawFrm", <<I(v, size)>>, len)

\* The frame of a function, and its ends: what the bases depend on.
Frame ==
  { One("PUSH64r", "AddRegFrm", BP),
    M("MOV64rr", "MRMDestReg", <<R(BP), R(SP)>>, 3),
    RI("SUB64ri8", SP, 8), RI("ADD64ri8", SP, 8),
    One("POP64r", "AddRegFrm", BP), Zero("LEAVE64", 1), Zero("RETQ", 1),
    Load("LEA64r", SP, At5(BP, 1, NoReg, -8)),
    One("PUSH64r", "AddRegFrm", AX), Rel("JE_1", 4, 8, 2) }

\* Every form and every opcode.
Moves ==
  { M("MOV64rr", "MRMDestReg", <<R(BX), R(AX)>>, 3),
    M("MOV64rr", "MRMDestReg", <<R(BP), R(SP)>>, 3),
    M("MOV64ri", "AddRegFrm", <<R(AX), I(3, 64)>>, 10),
    M("MOV64ri32", "MRMr", <<R(CX), I(-2, 32)>>, 7),
    Load("MOV64rm", AX, At5(BP, 1, NoReg, -8)),
    Load("MOV64rm", DX, At5(BX, 1, CX, 16)),
    Load("MOV64rm", CX, At5(NoReg, 1, NoReg, 8)),
    Load("MOV64rm", CX, At5(AX, 8, AX, 0)),
    Store64("MOV64mr", At5(BP, 1, NoReg, -8), AX),
    Store64("MOV64mr", At5(SP, 1, NoReg, 16), CX),
    Store64("MOV64mr", At5(NoReg, 4, BX, -4), AX),
    Load("LEA64r", SI, At5(SP, 1, AX, 8)),
    Load("LEA64r", DX, At5(BX, 1, AX, -4)), Load("LEA64r", DX, At5(BX, 2, AX, 0)),
    M("MOVSQ", "RawFrmDstSrc", <<R(DI), R(SI), McReg(NoReg, 0)>>, 2),
    McInst("MOVSQ", "RawFrmDstSrc", <<R(DI), R(SI), McReg(NoReg, 0)>>, 3, 1),
    M("CMOVE64rr", "MRMSrcReg", <<R(AX), R(AX), R(BX)>>, 4),
    M("SETEr", "MRMXr", <<McReg(AX, 8)>>, 3),
    M("SETEm", "MRMXm", At5(BP, 1, NoReg, -8), 4) }

Arith ==
  { RR("ADD64rr", "MRMDestReg", BX, AX), RR("SUB64rr", "MRMDestReg", BX, CX),
    RI("ADD64ri8", AX, 5), RI("SUB64ri8", AX, 7), RI("ADD64ri8", AX, -3),
    M("ADD64rm", "MRMSrcMem", <<R(AX), R(AX)>> \o At5(BP, 1, NoReg, -8), 4),
    Store64("ADD64mr", At5(BP, 1, NoReg, -8), AX),
    M("ADD64mi8", "MRMm", At5(BP, 1, NoReg, -8) \o <<I(-1, 8)>>, 5),
    Rel("ADD64i32", 6, 32, 6),
    RR("IMUL64rr", "MRMSrcReg", AX, BX),
    M("IMUL64rri8", "MRMSrcReg", <<R(CX), R(AX), I(3, 8)>>, 4),
    M("IMUL64rmi8", "MRMSrcMem", <<R(CX)>> \o At5(BP, 1, NoReg, -8) \o <<I(3, 8)>>, 5),
    M("DEC64r", "MRMr", <<R(CX), R(CX)>>, 3), M("INC64r", "MRMr", <<R(CX), R(CX)>>, 3),
    RI("SHL64ri", AX, 2), M("SHL64rCL", "MRMr", <<R(AX), R(AX)>>, 3), RI("SAR64ri", AX, 1),
    RR("XOR64rr", "MRMDestReg", AX, AX), RR("AND64rr", "MRMDestReg", AX, BX),
    RR("OR64rr", "MRMDestReg", AX, BX), RI("AND64ri8", AX, 6),
    RR("ADC64rr", "MRMDestReg", AX, BX), RR("SBB64rr", "MRMDestReg", AX, BX),
    M("NEG64r", "MRMr", <<R(AX), R(AX)>>, 3), M("NOT64r", "MRMr", <<R(AX), R(AX)>>, 3),
    M("CMP64rr", "MRMDestReg", <<R(AX), R(BX)>>, 3),
    Load("CMP64rm", AX, At5(BP, 1, NoReg, -8)),
    M("TEST64rr", "MRMSrcReg", <<R(AX), R(AX)>>, 3) }

\* Instructions of 32 bits, on registers.
N(r) == McReg(r, 32)
NN(name, form, d, s) == M(name, form, <<N(d), N(d), N(s)>>, 2)
NI(name, d, v) == M(name, "MRMr", <<N(d), N(d), I(v, 8)>>, 3)
Narrows ==
  { M("MOV32rr", "MRMDestReg", <<N(BX), N(AX)>>, 2), M("MOV32rr", "MRMDestReg", <<N(AX), N(CX)>>, 2),
    M("MOV32ri", "AddRegFrm", <<N(BX), I(-5, 32)>>, 5),
    NN("ADD32rr", "MRMDestReg", AX, BX), NI("ADD32ri8", AX, 5), NI("ADD32ri8", CX, -3),
    NN("SUB32rr", "MRMDestReg", BX, CX), NN("IMUL32rr", "MRMSrcReg", AX, BX),
    NI("SHL32ri", AX, 2), NI("SAR32ri", AX, 1),
    M("DEC64_32r", "MRMr", <<N(CX), N(CX)>>, 2), M("INC64_32r", "MRMr", <<N(CX), N(CX)>>, 2),
    M("LEA64_32r", "MRMSrcMem", <<N(DX)>> \o At5(BX, 1, CX, 4), 3), NN("XOR32rr", "MRMDestReg", AX, AX) }

Others ==
  { Rel("JMP_1", -4, 8, 2), Rel("JE_1", 4, 8, 2), One("JMP64r", "MRMr", AX),
    Rel("CALL64pcrel32", 5, 32, 5), One("CALL64r", "MRMr", AX),
    M("CALL64r", "MRMm", At5(AX, 1, NoReg, 0), 3),
    Zero("CDQE", 2), M("IMUL32r", "MRMr", <<N(BX)>>, 2), M("MUL32r", "MRMr", <<N(BX)>>, 2), M("MUL32r", "MRMr", <<N(AX)>>, 2), Zero("CQO", 2),
    Zero("RETQ", 1), M("MOV64rr", "none", <<>>, 3), M("TEST64rr", "MRMSrcReg", <<R(AX)>>, 3) }

WideInsts == Frame \cup Moves \cup Arith \cup Narrows \cup Others
FrameInsts == Frame

\* .data: at 8 there is a word that does not fit in 32 bits.
Bytes == [a \in Word |-> IF a = 8 THEN 37 ELSE (3 * a + 2) % H]
=============================================================================
