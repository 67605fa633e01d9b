------------------------------ MODULE MCFlags -------------------------------
(* Two readers of one comparison, readers behind joins and in loops, and the *)
(* patterns with an SBB.                                                     *)
EXTENDS FlagsProps, MCExplore

Return1 == I("ret", 1, <<>>)
Op1 == I("op", 1, <<>>)
NotEqual == 6
Lower == 3
AX == 8
DX == 24
Registers == {AX, DX}

\* Straight-line code and branches, with an end behind them.
Branching ==
  LET Inner == {Op1, I("jmp", 1, <<4>>)} \cup {I("jcc", 1, <<t>>) : t \in {1, 3, 5}}
  IN  {Program(<<Return1, w, x, y, z, Return1, Return1>>, <<1>>) :
         w \in {Op1}, x \in Inner, y \in Inner, z \in Inner}
Line == {Program(<<Op1, Op1, Op1, Op1, z, Return1, Return1>>, <<0>>) : z \in {Op1, I("jcc", 1, <<6>>)}}
\* A jump table that leads twice to the first instruction.
JumpTables == {Program(<<Return1, Op1, I("jcc", 1, <<5>>), I("base", 1, <<1, 1, 5>>), I("switch", 1, <<1, 1, 5>>),
                         I("jcc", 1, <<6>>), Return1>>, <<1>>)}
\* A branch that reads what was set before the branch to it, logged behind the other side.
Sides == {Program(<<Return1, Op1, I("jcc", 1, <<5>>), Op1, I("jmp", 1, <<6>>), I("jcc", 1, <<3>>), Return1>>, <<1>>)}
FlagPrograms == Branching \cup Line \cup JumpTables \cup Sides

\* The instructions.
Sets(op, a, b, d) == Instr(op, 1, a, b, d, TRUE)
Mov == Instr("MOV", 0, AX, 0, DX, TRUE)
Compares == {Sets("CMP", AX, DX, 0), Sets("TEST", AX, DX, 0), Sets("SUB", AX, DX, DX), Mov}
Selecting == {Sets("CMP", AX, DX, 0), Sets("SUB", DX, AX, AX), Sets("SBB", AX, AX, AX),
              Sets("SBB", DX, AX, AX), Sets("rAND", 2, AX, AX), Sets("ADD", 3, AX, AX), Sets("ADC", AX, DX, DX),
              Sets("OR", AX, DX, DX)}

\* What the entries of a log may be: an IF has one of two predicates.
Fixed1(op) == Instr(op, 0, 0, 0, 0, FALSE)
LogsOf(l, Ops) ==
  LET Of(i) == CASE l[i].op = "OP" -> Ops [] l[i].op = "IF" -> {Instr("IF", 0, p, 0, 0, FALSE) : p \in {NotEqual, Lower}}
                 [] l[i].op = "ADD" /\ l[i].to # <<>> -> {Sets("ADD", 2, DX, DX)}
                 [] OTHER -> {Fixed1(l[i].op)}
      All2[i \in 0 .. LogSize] == IF i = 0 THEN {<<>>}
                                  ELSE IF i > 1 /\ l[i].prev = <<>> THEN All2[i - 1]
                                  ELSE {Append(c, e) : c \in All2[i - 1], e \in Of(i)}
  IN  All2[Max({i \in 1 .. LogSize - 1 : l[i].prev # <<>>})]
LogInsts(l) == IF l[4].op = "OP" /\ l[3].op = "OP" /\ l[2].op = "OP" THEN LogsOf(l, Selecting) ELSE LogsOf(l, Compares)
=============================================================================
