-------------------------------- MODULE Tip --------------------------------
(***************************************************************************)
(* What main does with the value ids (test/dis64.c, main 5507-5588 and     *)
(* 6100-6246): the tips say of which size and whether a pointer a label is *)
(* where it is used; extensions part labels of two sizes; additions to     *)
(* pointers become GEP1; copies share their label; the labels become the   *)
(* parameters and locals of the functions, and the calls get the values of *)
(* the callees' parameters.                                                *)
(*                                                                         *)
(* The passes run behind those of Ssa on the same state.                   *)
(***************************************************************************)
EXTENDS Ssa

\* The fields of an instruction that operand 1, 2 or 3 and its value id are in.
Part(op) == <<"a", "b", "d">>[op]
Value(op) == <<"v1", "v2", "v3">>[op]

-----------------------------------------------------------------------------
(* build_tip_table *)

PointerReg(o) == (IsReg(o) \/ IsCell(o)) /\ o.idx \in SP .. BP
Bit(b) == IF b THEN 1 ELSE 0

\* A tip: which operand with which id is a pointer, to what size, and of what size.
Clue(op, id, ptr, pointed, size) == [op |-> op, id |-> id, ptr |-> ptr, pointed |-> pointed, size |-> size]
PointerSize == 64

Clues(e) ==
  LET Plain(op, id, o) == Clue(op, id, Bit(PointerReg(o) \/ id = ReturnAddress), 0, o.size)
      moved == PointerReg(e.a) \/ PointerReg(e.d) \/ e.v1 = ReturnAddress
  IN  CASE e.op = "MOV" -> << Clue(1, e.v1, Bit(moved), 0, e.a.size),
                              Clue(3, e.v3, Bit(moved \/ e.v3 = ReturnAddress), 0, e.d.size) >>
        [] e.op = "LOAD"  -> << Clue(1, e.v1, 1, e.a.size, PointerSize), Clue(2, e.v2, 1, 0, e.b.size),
                                Plain(3, e.v3, e.d) >>
        [] e.op = "STORE" -> << Plain(1, e.v1, e.a), Clue(2, e.v2, 1, 0, e.b.size),
                                Clue(3, e.v3, 1, e.d.size, PointerSize) >>
        [] e.op \in Binary -> << Plain(1, e.v1, e.a), Plain(2, e.v2, e.b), Plain(3, e.v3, e.d) >>
        [] e.op \in {"RET", "BC"} -> << Clue(1, e.v1, 0, 0, e.a.size) >>
        [] OTHER -> <<>>

\* The table of a node ends at the first instruction it does not know, a call say.
Known == Binary \cup {"NOP", "MOV", "LOAD", "STORE", "RET", "JMP", "BC"}
Tipped(t, n) ==
  LET unknown == {m \in DOMAIN t.code[n] : t.log[t.code[n][m]].op \notin Known}
  IN  IF unknown = {} THEN t.code[n] ELSE SubSeq(t.code[n], 1, Min(unknown) - 1)

TipAdd(t, n, i, c) ==
  IF c.id = 0 THEN Exit(t)
  ELSE LET tip == [node |-> n, inst |-> i, op |-> c.op, ptr |-> c.ptr, pointed |-> c.pointed, size |-> c.size]
           old == IF c.id \in DOMAIN t.tips THEN t.tips[c.id] ELSE <<>>
       IN  [t EXCEPT !.tips = (c.id :> Append(old, tip)) @@ @]

\* A node without anything but NOPs in the table is an error.
BuildTipTable(s) ==
  EachNode(s, LAMBDA t, n :
    IF \A i \in Range(Tipped(t, n)) : t.log[i].op = "NOP" THEN Exit(t)
    ELSE EachIn(t, Tipped(t, n), LAMBDA u, i : EachIn(u, Clues(u.log[i]), LAMBDA v, c : TipAdd(v, n, i, c))))

\* The labels with tips, that is, those whose ids redirect to themselves.
TippedIds(t) ==
  LET Is(id) == id \in DOMAIN t.tips /\ LabelOf(t, id).scope # 0 /\ RedirectOf(t, id) = id
  IN  SelectSeq([id \in 1 .. t.next |-> id], Is)

-----------------------------------------------------------------------------
(* tip_add_zext *)

\* insert_nop_before.  An instruction in front of the first one of a node belongs to
\* no node: the node still begins where it did.
InsertBefore(t, n, i, e) ==
  LET new == Len(t.log) + 1
      at == {m \in DOMAIN t.code[n] : m > 1 /\ t.code[n][m] = i}
  IN  [t EXCEPT !.log = Append(@, e),
                !.code[n] = IF at = {} THEN @ ELSE InsertAt(@, Min(at), new)]

\* As Extend1, but the instruction goes on using the old id.
Extend1Kept(t, id, m) ==
  LET tip == t.tips[id][m]
      e == t.log[tip.inst]
      o == e[Part(tip.op)]
      new == [op |-> IF tip.size > t.tips[id][1].size THEN "ZEXT" ELSE "TRUNC",
              a |-> [o EXCEPT !.size = t.tips[id][1].size], b |-> Operand("none", 0, 0, 0, 0),
              d |-> [o EXCEPT !.idx = TMP3], v1 |-> id, v2 |-> 0, v3 |-> 0]
      at == Len(t.log) + 1
      named == AssignDst(InsertBefore(t, tip.node, tip.inst, new), tip.node, at)
  IN  IF e.op \in {"LOAD", "STORE"} THEN Exit(t)
      ELSE [named EXCEPT !.tips[id][m].inst = at, !.tips[id][m].op = 1,
                         !.tips[id][m].size = t.tips[id][1].size]

\* Use m of a label differs in size from the first: the value is extended or cut into
\* TMP3 in front of it, and the use is of that.
Extend1(t, id, m) ==
  LET tip == t.tips[id][m]
      size == t.tips[id][1].size
      e == t.log[tip.inst]
      o == e[Part(tip.op)]
      new == [op |-> IF tip.size > size THEN "ZEXT" ELSE "TRUNC",
              a |-> [o EXCEPT !.size = size], b |-> Operand("none", 0, 0, 0, 0),
              d |-> [o EXCEPT !.idx = TMP3], v1 |-> id, v2 |-> 0, v3 |-> 0]
      at == Len(t.log) + 1
      named == AssignDst(InsertBefore(t, tip.node, tip.inst, new), tip.node, at)
      used == [named EXCEPT !.log[tip.inst][Part(tip.op)].idx = TMP3,
                            !.log[tip.inst][Value(tip.op)] = t.next]
      clue == Clue(1, t.next, tip.ptr, 0, tip.size)
      told == TipAdd(TipAdd(used, tip.node, at, clue), tip.node, tip.inst, clue)
  IN  IF e.op \in {"LOAD", "STORE"} THEN Exit(t)
      ELSE [told EXCEPT !.tips[id][m].inst = at, !.tips[id][m].op = 1, !.tips[id][m].size = size]

\* The uses of a label one after the other; a return of another size ends the search.
TipAddZext(t, id) ==
  LET Step(x, tip) ==
        LET m == x.m + 1
            u == x.t
        IN  IF x.stop \/ u.exit \/ u.tips[id][m].size = u.tips[id][1].size THEN [x EXCEPT !.m = m]
            ELSE IF u.log[u.tips[id][m].inst].op = "RET" THEN [x EXCEPT !.stop = TRUE]
            ELSE [x EXCEPT !.m = m, !.t = Extend1(u, id, m)]
  IN  FoldLeft(Step, [t |-> t, m |-> 0, stop |-> FALSE], t.tips[id]).t
AddZext(s) == EachIn(s, TippedIds(s), TipAddZext)

-----------------------------------------------------------------------------
(* tip_process_label, change_add_to_gep1, redirect_mov_reg_reg_labels *)

ProcessTip(t, id, tip) ==
  IF tip.ptr = 0 THEN t ELSE [t EXCEPT !.labels[id].size = tip.size, !.labels[id].ptr = @ + 1]
ProcessLabels(s) ==
  EachIn(s, TippedIds(s), LAMBDA t, id : EachIn(t, t.tips[id], LAMBDA u, tip : ProcessTip(u, id, tip)))

\* An addition with a pointer is one to a pointer; a subtraction too, of the negated
\* number.
ToGep(t, n, i) ==
  LET e == t.log[i]
      ids == {RedirectOf(t, v) : v \in {e.v1, e.v2, e.v3}}
      pointer == \E id \in ids : LabelOf(t, id).ptr > 0
      gep == [t EXCEPT !.log[i].op = "GEP1"]
  IN  IF e.op \notin {"ADD", "SUB"} \/ ~pointer THEN t
      ELSE IF e.op = "ADD" THEN gep
      ELSE [gep EXCEPT !.labels[RedirectOf(t, e.v2)].value = 0 - @, !.log[i].b.idx = 0 - @]
ChangeAddToGep(s) == EachNode(s, LAMBDA t, n : EachInst(t, n, ToGep))

\* What is copied from a register or a constant shares the label of its source.
Redirect(t, n, i) ==
  LET e == t.log[i]
  IN  IF e.op = "MOV" /\ e.a.kind \in {"reg", "imm", "reloc"} /\ IsReg(e.d)
      THEN [t EXCEPT !.redirect = (e.v3 :> RedirectOf(t, e.v1)) @@ @] ELSE t
RedirectMovs(s) == EachNode(s, LAMBDA t, n : EachInst(t, n, Redirect))

-----------------------------------------------------------------------------
(* scan_for_labels_in_function_body and the order of the parameters *)

RegisterLabel(t, v) ==
  LET id == RedirectOf(t, v)
      Add(seq) == IF Contains(seq, id) THEN seq ELSE Append(seq, id)
      scope == LabelOf(t, id).scope
  IN  CASE scope = 1 -> [t EXCEPT !.locals = Add(@)]
        [] scope = 2 -> [t EXCEPT !.params = Add(@)]
        [] scope \in {3, 6} -> t
        [] OTHER -> Exit(t)

\* The values of an instruction that become labels, in order.  PHI nodes are not
\* looked at, nor are the conditions of branches.  Value 0 has no label and ends the
\* program like an operand in memory where it may not be.
InMemory(o) == o.kind \in {"mem", "data"}
Scanned(e) ==
  CASE e.op \in {"MOV", "SEX", "ZEXT", "TRUNC", "LOAD", "STORE"} -> <<e.v1, e.v3>>
    [] e.op \in {"ADC"} -> <<0>>
    [] e.op \in (Binary \ {"SEX", "ADC"}) \cup {"GEP1"} -> <<e.v1, e.v2, e.v3>>
    [] e.op = "CALL" -> IF InMemory(e.a) THEN <<e.v3, 0>> ELSE <<e.v3>>
    [] e.op \in Compare ->
         IF InMemory(e.b) THEN <<0>> ELSE IF InMemory(e.a) THEN <<e.v2, 0>> ELSE <<e.v2, e.v1>>
    [] e.op = "RET" -> IF InMemory(e.a) THEN <<0>> ELSE <<e.v1>>
    [] OTHER -> <<>>
Scan(s) ==
  EachNode(s, LAMBDA t, n : EachInst(t, n, LAMBDA u, k, i : EachIn(u, Scanned(u.log[i]), RegisterLabel)))

\* As OrderParams, but the registers come in the order they are read.
OrderParamsRead(s) ==
  LET Is(id) == LabelOf(s, id).scope = 2 /\ LabelOf(s, id).type = 1
  IN  [s EXCEPT !.ordered = SelectSeq(s.params, Is)]

\* The parameters in registers in the order of the calling convention, with gaps, and
\* those on the stack.
OrderParams(s) ==
  LET Is(m, id) == LabelOf(s, id).scope = 2 /\ LabelOf(s, id).type = 1 /\ LabelOf(s, id).value = ParamOrder[m]
      Of(m) == SelectSeq(s.params, LAMBDA id : Is(m, id))
      given == {m \in DOMAIN ParamOrder : Of(m) # <<>>}
  IN  [s EXCEPT !.ordered = [m \in 1 .. Max({0} \cup given) |-> IF m \in given THEN Last(Of(m)) ELSE 0],
                !.onStack = SelectSeq(s.params, LAMBDA id : LabelOf(s, id).scope = 2 /\ LabelOf(s, id).type = 2)]

-----------------------------------------------------------------------------
(* call_params_to_locals *)

\* A call of a function of the object file gets the ids its caller's registers had
\* there, of which one that is not known is an error, and where in the caller's frame
\* the callee's parameters on the stack are: SP is one word lower in the callee.
PassParams(t, n, i) ==
  LET e == t.log[i]
      callee == ssa[e.a.idx]
      Param(m) == LabelOf(callee, callee.ordered[m])
      Framed(id) == e.b.cell + LabelOf(callee, id).value - 8
      Given(m) == IF Param(m).scope = 2 /\ Param(m).type = 1 THEN t.calls[i].track[Param(m).value] ELSE 0
  IN  IF e.op # "CALL" \/ e.a.kind # "function" THEN t
      ELSE IF \E m \in DOMAIN callee.ordered : Param(m).scope = 2 /\ Param(m).type = 1 /\ Given(m) = 0
      THEN Exit(t)
      ELSE [t EXCEPT !.calls[i].regs = [m \in DOMAIN callee.ordered |-> Given(m)],
                     !.calls[i].stack = [k \in DOMAIN callee.onStack |-> Framed(callee.onStack[k])]]
CallParamsToLocals(s) == EachNode(s, LAMBDA t, n : EachInst(t, n, PassParams))

-----------------------------------------------------------------------------
(* main *)

TipStep ==
  \/ Pass("tips", BuildTipTable(S))
  \/ Pass("zext", AddZext(S))
  \/ Pass("pointers", ProcessLabels(S))
  \/ Pass("gep", ChangeAddToGep(S))
  \/ Pass("redirect", RedirectMovs(S))
  \/ Pass("scan", Scan(S))
  \/ Pass("order", OrderParams(S))
  \/ Pass("calls", CallParamsToLocals(S))

TipStopped ==
  \/ stage \in {"failed", "undefined", "exit", "done"}

TipNext == SsaStep \/ TipStep \/ (TipStopped /\ UNCHANGED ssaVars)
TipSpec == SsaInit /\ [][TipNext]_ssaVars /\ WF_ssaVars(SsaStep \/ TipStep)

=============================================================================
