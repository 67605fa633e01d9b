------------------------------- MODULE MCCfg --------------------------------
EXTENDS CfgProps, MCExplore

Return1 == I("ret", 1, <<>>)

Plain1(kinds) == {I(k, 1, <<>>) : k \in kinds}
To(kind, targets) == {I(kind, 1, <<t>>) : t \in targets}
Returns(p) == Cardinality({a \in Offset : p.code[a].kind = "ret"})

\* Straight-line code, returns, jumps and branches at 1 .. 4, and a return behind them.
\* The function begins with code or a branch; no branch leads to the instruction
\* behind it.  Two returns at most are reached.
LoopPrograms ==
  LET Instr(a) == Plain1({"op", "ret"}) \cup To("jmp", 2 .. 5) \cup To("jcc", (1 .. 5) \ {a + 1})
  IN  {p \in {Program(<<Return1, v, w, x, y, Return1, Return1>>, <<1>>) :
                v \in Plain1({"op"}) \cup To("jcc", {1, 3, 4, 5}),
                w \in Instr(2), x \in Instr(3), y \in Instr(4)} : Returns(p) <= 4}

\* The same with three instructions and nothing left out: functions that begin in
\* straight-line code jumped back to, that are one ring, and branches to the
\* instruction behind them.
RingPrograms ==
  LET Instr == Plain1({"op", "ret"}) \cup To("jmp", 1 .. 4) \cup To("jcc", 1 .. 4)
  IN  {Program(<<Return1, v, w, x, Return1, Return1, Return1>>, <<1>>) :
         v \in Instr, w \in Instr, x \in Instr}

\* A function that begins with the head of a loop, whose body jumps back to it.
HeadCode == << Return1, I("jcc", 1, <<3>>), Return1, I("op", 1, <<>>), I("jmp", 1, <<1>>) >>
HeadPrograms == {Program(HeadCode \o <<Return1, Return1>>, <<1>>)}

\* Two functions with code of their own, each with a return at its end; the second
\* may be a ring.
FunctionPrograms ==
  LET Own(lo, hi, a) == Plain1({"op", "ret"}) \cup To("jcc", (lo .. hi) \ {a + 1}) \cup To("jmp", lo + 1 .. hi)
      Second == Own(4, 6, 4) \cup To("jmp", {4})
  IN  {p \in {Program(<<Return1, w, x, Return1, y, z, Return1>>, <<1, 4>>) :
                w \in Own(1, 3, 1), x \in Own(1, 3, 2), y \in Second, z \in Own(4, 6, 5)} :
         Returns(p) <= 5}

\* Jump tables that name a target twice, branches to the instruction behind them,
\* endless loops, and perhaps too few mid_nodes.
TablePrograms ==
  LET Instr == {I("op", 1, <<>>), Return1, I("jmp", 1, <<3>>),
              I("jcc", 1, <<1>>), I("jcc", 1, <<3>>), I("jcc", 1, <<4>>),
              I("base", 1, <<4, 3, 4, 3>>), I("switch", 1, <<4, 3, 4, 3>>)}
  IN  {Program(<<Return1, x, y, z, Return1, Return1, Return1>>, <<1>>) :
         x \in Instr, y \in Instr, z \in Instr}

\* What may go wrong on the way: undecodable bytes, instructions that overlap, NOPs,
\* code that runs past the end of .text and of memory_used.
OddPrograms ==
  LET Instr == {I("bad", 1, <<>>), I("nop", 1, <<>>), I("op", 1, <<>>), I("op", 2, <<>>),
                I("jcc", 1, <<4>>), I("jcc", 2, <<3>>), I("jmp", 1, <<5>>)}
  IN  {Program(<<Return1, x, y, z, Return1, w, w>>, <<1>>) :
         x \in Instr, y \in Instr, z \in Instr, w \in {I("op", 1, <<>>), I("op", 2, <<>>)}}

\* (The tags keep TLC from looking for every program in the sets before its own.)
CfgPrograms ==
  {t[1] : t \in (LoopPrograms \X {1}) \cup (HeadPrograms \X {2}) \cup (RingPrograms \X {3})
                \cup (FunctionPrograms \X {4}) \cup (TablePrograms \X {5}) \cup (OddPrograms \X {6})}
=============================================================================
