------------------------------- MODULE MCSsa -------------------------------
(* Functions with and without loops, calls, copies, pointers and two sizes.  *)
EXTENDS SsaProps, MCPaths

AX == 8
DI == 64
SI == 56
IP == 72
EQUAL == 164
TMP1 == 352
RegisterNumbers == {AX, DI, SI, SP, BP, IP, EQUAL, TMP1, TMP3}
ParamRegisters == <<DI, SI>>

-----------------------------------------------------------------------------
(* Instructions, as the executor leaves them: the first register read is a  *)
(* parameter (scope 1), what is written a local.                            *)
Reg(r) == Operand("reg", r, 64, 0, 2)
Reg32(r) == Operand("reg", r, 32, 0, 2)
Num(v) == Operand("imm", v, 64, 0, 0)
None == Operand("none", 0, 0, 0, 0)
Arg(c) == Operand("stack", SP, 64, c, 1)
Slot(c) == Operand("stack", SP, 64, c, 2)
Mem(r) == Operand("mem", r, 64, 1, 3)

I(op, a, b, d) == [op |-> op, a |-> a, b |-> b, d |-> d]
Mov(d, a) == I("MOV", a, None, d)
Add(d, a, b) == I("ADD", a, b, d)
Load(d, o) == I("LOAD", o, Reg(o.idx), d)
Save(o, a) == I("STORE", a, Reg(o.idx), o)
Sub(d, a, b) == I("SUB", a, b, d)
Call(o) == I("CALL", o, None, Reg(AX))
Jump == I("JMP", None, None, None)
Nop == I("NOP", None, None, None)

\* How the conversion ends a function.
Return == << Load(Reg(TMP1), Arg(0)), Add(Reg(SP), Num(8), Reg(SP)), I("RET", Reg(AX), None, None),
             Mov(Reg(IP), Reg(TMP1)) >>
Branch == << I("ICMP", Num(0), Reg(DI), Operand("reg", EQUAL, 1, 0, 2)),
             I("BC", Operand("reg", EQUAL, 1, 0, 2), None, None) >>
Switch == << Mov(Reg(TMP1), Reg(DI)), I("JMPT", Reg(TMP1), None, None) >>
EndOf(links) == CASE links = <<>> -> Return [] Len(links) = 1 -> <<Jump>>
                  [] Len(links) = 2 -> Branch [] OTHER -> Switch

\* The codes of a function with the bodies given.
CodeOf(next, Bodies) ==
  {[n \in DOMAIN next |-> body[n] \o EndOf(next[n])] : body \in [DOMAIN next -> Bodies]}
Each(seq, Bodies) ==
  LET All2[m \in 0 .. Len(seq)] ==
        IF m = 0 THEN {<<>>}
        ELSE {Append(x, c) : x \in All2[m - 1], c \in CodeOf(seq[m].next, Bodies)}
  IN  All2[Len(seq)]

-----------------------------------------------------------------------------
(* Graphs: no function begins with a loop.                                   *)
Small(n) == OneReturnAtMost(Shapes(n, LAMBDA k : LinkLists(2 .. n)))

\* The ways to every node with two predecessors or more: a node that reads behind a
\* join of ways that do not agree is left to the run about them.
Simple4 == {x \in Small(4) : Rets(x.next) # {}}
One == Code(<<<<>>>>)
Two == Code(<<<<2>>, <<>>>>)
Table == Code(<<<<2, 3, 4>>, <<4>>, <<4>>, <<>>>>)
Nested == Code(<<<<2, 3>>, <<3>>, <<4, 5>>, <<5>>, <<>>>>)
Dataflow == Simple4 \cup Small(3) \cup {Table}
Graphs == Dataflow \cup {One, Two}
Wide == {<<x>> : x \in Graphs} \cup {<<One, One>>, <<Two, One>>}

Move == {<<>>, <<Mov(Reg(AX), Num(1))>>, <<Add(Reg(AX), Reg(AX), Reg(DI))>>}
Rich == {<<Nop>>, <<Mov(Reg(AX), Reg(DI))>>, <<Mov(Reg32(AX), Num(1))>>,
         <<Mov(Reg32(AX), Num(1)), Add(Reg(AX), Num(8), Reg(AX))>>,
         <<Mov(Reg32(AX), Num(1)), Add(Reg(AX), Reg(AX), Reg(AX)), Add(Reg(DI), Reg(AX), Reg(DI))>>,
         <<Load(Reg(AX), Slot(NoCell))>>,
         <<Mov(Reg(AX), Reg(SP)), Add(Reg(AX), Num(8), Reg(AX))>>,
         <<Sub(Reg(SP), Num(8), Reg(SP)), Save(Slot(0-8), Reg(BP))>>,
         <<Load(Reg(AX), Slot(0-8))>>, <<Load(Reg(AX), Arg(8))>>,
         <<Load(Reg(AX), Mem(DI))>>, <<Save(Mem(DI), Reg(AX))>>,
         <<I("CMP", Reg(AX), Num(1), None)>>, <<I("TEST", Mem(DI), Reg(AX), None)>>, <<I("ADD", Reg32(AX), Num(1), Reg32(AX))>>,
         <<Mov(Operand("reg", AX, 64, 0, 0), Num(1))>>, <<I("XCHG", Reg(AX), Reg(AX), Reg(AX))>>, <<Call(Operand("mem", AX, 64, 0, 0))>>}
Calls == {<<>>, <<Call(Operand("function", 2, 64, 0, 0))>>,
          <<Mov(Reg(DI), Num(1)), Call(Operand("function", 2, 64, 0, 0))>>,
          <<Mov(Reg(DI), Reg(SI)), Call(Operand("function", 2, 64, 0, 0)), Add(Reg(AX), Reg(AX), Reg(DI))>>,
          <<Add(Reg(AX), Reg(SI), Reg(DI))>>}
WideCodes(seq) ==
  IF Len(seq) = 2 THEN Each(seq, Calls)
  ELSE Each(seq, Move) \cup (IF Len(seq[1].next) <= 2 THEN Each(seq, Rich) ELSE {})
Join == Code(<<<<2, 3>>, <<3>>, <<>>>>)
JoinOnly == {<<Join>>}
JoinGraphs == {Join}
NestedOnly == {<<Nested>>}
NestedGraphs == {Nested}
NestedCodes(seq) == Each(seq, Move)
=============================================================================
