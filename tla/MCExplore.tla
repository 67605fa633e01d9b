----------------------------- MODULE MCExplore ------------------------------
EXTENDS ExploreProps

\* Every program of Size one-byte instructions of the given kinds that ends in a
\* return, with branch targets among Targets, one function at each of Starts.
Bytes(kinds, targets) ==
  {[kind |-> k, len |-> 1, to |-> <<>>] : k \in kinds \ {"jmp", "jcc"}}
  \cup {[kind |-> k, len |-> 1, to |-> <<t>>] : k \in kinds \cap {"jmp", "jcc"}, t \in targets}

AllPrograms(kinds, targets, starts) ==
  {[code |-> c, entries |-> starts] :
     c \in {f \in [Offset -> Bytes(kinds, targets)] : f[CodeSize - 1].kind = "ret"}}

I(k, l, t) == [kind |-> k, len |-> l, to |-> t]
Program(text, starts) == [code |-> [a \in Offset |-> text[a + 1]], entries |-> starts]

\* No jump back to offset 0 and no NOP.
BranchPrograms == AllPrograms({"op", "ret", "jmp", "jcc"}, 1 .. CodeSize - 1, <<0>>)

\* What may go wrong on the way: undecodable bytes, an instruction that is not run, an
\* indirect jump without a table or with one that is not of code, a branch into an
\* instruction, code that runs past the end of .text and of memory_used, and functions
\* that share so much code that the log is too short.
BreakingPrograms ==
  LET Op1 == I("op", 1, <<>>)  Op2 == I("op", 2, <<>>)  Return1 == I("ret", 1, <<>>)
      Tables == {I("base", 1, <<4, 3>>), I("stray", 1, <<4>>), I("switch", 1, <<4, 3>>)}
      Instr == {Op1, Op2, I("bad", 1, <<>>), I("refused", 1, <<>>), I("jcc", 1, <<4>>), I("jcc", 1, <<3>>)}
      Of(instr, starts) == {Program(<<w, x, y, Return1, z>>, starts) :
         w \in instr, x \in instr, y \in instr, z \in {Op1, Op2, Return1}}
  IN  Of(Instr \cup Tables, <<0>>) \cup Of(Instr, <<0, 0, 1, 2>>)

ExplorePrograms == BranchPrograms \cup BreakingPrograms
=============================================================================
