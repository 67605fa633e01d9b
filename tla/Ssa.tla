-------------------------------- MODULE Ssa --------------------------------
(***************************************************************************)
(* Static single assignment form of the functions (test/dis64.c, main      *)
(* 5205-5523): which registers a node reads before it writes them, PHI     *)
(* nodes and where their values come from along the paths, a value id and  *)
(* a label for every value, and the value ids of the operands.             *)
(*                                                                         *)
(* The passes run behind Paths, one after the other and each over all      *)
(* functions.  The instructions of the nodes matter here first and are     *)
(* chosen here.  An operator named like a function of the code takes what  *)
(* is known of a function to what is known behind the pass; exit(1) sets   *)
(* the field exit and main stops.                                          *)
(***************************************************************************)
EXTENDS Paths, TLC

CONSTANTS
  Codes(_),     \* the instructions the nodes of an object file's functions may have
  Registers,    \* register numbers
  ParamOrder    \* reg_params_order

\* REG_ numbers (include/opcodes.h).
SP == 40
BP == 48
TMP3 == 416

ASSUME SsaAssumption ==
  /\ {SP, BP, TMP3} \subseteq Registers /\ Registers \subseteq Nat
  /\ ParamOrder \in Seq(Registers)

VARIABLES
  ssa,      \* what is known of the functions
  ready     \* instructions of the functions

ssaVars == <<vars, ssa, ready>>
pathVars == <<functions, again, g, waiting, paths, path, walking, heads, edges, loops, results>>

SsaInit == Init /\ ssa = <<>> /\ ready = FALSE

-----------------------------------------------------------------------------
(* Operands and labels *)

\* An operand is a constant ("imm", with a relocation "reloc", or an address in
\* memory "data"), a register ("reg"), or the cell of memory or of the stack a
\* register points at ("mem", "stack").  The executor left the cell and the scope of
\* the value; of a call, the cell of operand b is where SP points.
Operand(kind, idx, size, cell, scope) ==
  [kind |-> kind, idx |-> idx, size |-> size, cell |-> cell, scope |-> scope]
IsReg(o) == o.kind = "reg"
IsConst(o) == o.kind \in {"imm", "reloc", "data"}
IsCell(o) == o.kind \in {"mem", "stack"}

\* Of a label the scopes are 1 local, 2 parameter, 3 data, 6 constant, and the types 1
\* register and 2 stack, or 1 pointer, 2 address and 3 number of data.
Label(scope, type, value, size, ptr) ==
  [scope |-> scope, type |-> type, value |-> value, size |-> size, ptr |-> ptr]
NoLabel == Label(0, 0, 0, 0, 0)

\* The ids below FirstId are set aside; ReturnAddress is that of the cell with
\* the return address.
ReturnAddress == 3
FirstId == 4

\* A label nobody set on the stack of assign_labels_to_dst, and what may be there: a
\* label of the instruction before it, or other words.
Unset == Label(0 - 1, 0, 0, 0, 0)
OnTheStack == {NoLabel, Label(1, 1, FirstId, 64, 0), Label(2, 1, SP, 64, 0)}

\* Instructions with two sources and a register as destination.
Binary == {"ADD", "ADC", "SUB", "SBB", "MUL", "IMUL", "OR", "XOR", "rAND", "NOT", "NEG",
           "SHL", "SHR", "SAL", "SAR", "SEX", "ICMP"}
Compare == {"CMP", "TEST"}

RegOrder == SelectSeq([r \in 1 .. Max(Registers) |-> r], LAMBDA r : r \in Registers)
Unused == [seen |-> 0, size |-> 0, dst |-> 0, id |-> 0]

-----------------------------------------------------------------------------
(* The function at hand *)

F == results[fi]
Nodes == DOMAIN F.g.next
S == ssa[fi]

ValidNodes == SelectSeq([k \in Nodes |-> k], LAMBDA k : k \in F.g.valid)
Exit(s) == [s EXCEPT !.exit = TRUE]

\* A pass over the nodes, and over the instructions of a node.
EachNode(s, Do(_, _)) == FoldLeft(LAMBDA t, n : IF t.exit THEN t ELSE Do(t, n), s, ValidNodes)
EachInst(s, n, Do(_, _, _)) ==
  FoldLeft(LAMBDA t, i : IF t.exit THEN t ELSE Do(t, n, i), s, s.code[n])
EachIn(s, seq, Do(_, _)) == FoldLeft(LAMBDA t, x : IF t.exit THEN t ELSE Do(t, x), s, seq)

Order == <<"used", "phi dst", "phi src", "phi list", "dst", "phi dst labels", "depend",
           "reg params", "phi values", "phi sizes", "src", "tips", "zext", "pointers",
           "gep", "redirect", "scan", "order", "calls", "done">>
Behind(st) == Order[1 + CHOOSE m \in DOMAIN Order : Order[m] = st]

\* One pass of one function.
Pass(at, s) ==
  /\ stage = at /\ fi <= Len(results)
  /\ ssa' = [ssa EXCEPT ![fi] = s]
  /\ IF s.exit THEN stage' = "exit" /\ fi' = fi
     ELSE IF fi < Len(results) THEN stage' = stage /\ fi' = fi + 1
     ELSE stage' = Behind(stage) /\ fi' = 1
  /\ UNCHANGED <<pathVars, ready>>

\* The instructions of a function are numbered node by node.
Logged(code) ==
  LET before[n \in Nat] == IF n <= 1 THEN 0 ELSE before[n - 1] + Len(code[n - 1])
  IN  [code |-> [n \in DOMAIN code |-> [m \in DOMAIN code[n] |-> before[n] + m]],
       log  |-> [e \in DOMAIN FlattenSeq(code) |->
                   FlattenSeq(code)[e] @@ [v1 |-> 0, v2 |-> 0, v3 |-> 0]]]

\* The tables of a function: labels and redirects are those Initialise Labels sets.
Fresh(code) ==
  LET l == Logged(code) IN
  [code |-> l.code, log |-> l.log, exit |-> FALSE,
   used |-> [n \in DOMAIN code |-> [r \in Registers |-> Unused]],
   phi |-> [n \in DOMAIN code |-> <<>>],
   next |-> FirstId, labels |-> (ReturnAddress :> Label(2, 2, 0, 64, 1)),
   redirect |-> (ReturnAddress :> ReturnAddress),
   cells |-> (0 :> ReturnAddress), param |-> [r \in Registers |-> 0], regParams |-> 0, returned |-> 0,
   tips |-> <<>>, calls |-> <<>>, params |-> <<>>, locals |-> <<>>, ordered |-> <<>>, onStack |-> <<>>]

Enter ==
  /\ stage = "begin" /\ fi > Len(functions) /\ ~ready
  /\ \E codes \in Codes(functions) : ssa' = [f \in DOMAIN codes |-> Fresh(codes[f])]
  /\ ready' = TRUE /\ stage' = "used" /\ fi' = 1
  /\ UNCHANGED pathVars

LabelOf(s, id) == IF id \in DOMAIN s.labels THEN s.labels[id] ELSE NoLabel
RedirectOf(s, id) == IF id \in DOMAIN s.redirect THEN s.redirect[id] ELSE 0

\* The next value id gets the label l.
NewId(s, l) ==
  [s EXCEPT !.labels = (s.next :> l) @@ @, !.redirect = (s.next :> s.next) @@ @, !.next = @ + 1]

-----------------------------------------------------------------------------
(* Which registers a node reads before it writes them *)

Direct(o) == IF IsReg(o) THEN <<o>> ELSE <<>>
Through(o) == IF IsCell(o) THEN <<o>> ELSE <<>>

\* The registers an instruction reads; a store reads the one it stores through.
Reads(e) ==
  CASE e.op \in {"MOV", "TRUNC", "BC", "RET", "JMP", "JMPT"} -> Direct(e.a)
    [] e.op = "LOAD"  -> Through(e.a)
    [] e.op = "STORE" -> Direct(e.a) \o Through(e.d)
    [] e.op \in Binary \cup Compare -> Direct(e.a) \o Direct(e.b)
    [] e.op = "CALL"  -> <<Operand("reg", SP, 64, 0, 0), Operand("reg", BP, 64, 0, 0)>>
    [] OTHER          -> <<>>

Writing == {"MOV", "TRUNC", "LOAD", "CALL"} \cup Binary
Writes(e) == IF e.op \in Writing THEN Direct(e.d) ELSE <<>>

Refused(e) ==
  \/ e.op \notin Writing \cup Compare \cup {"NOP", "STORE", "IF", "BC", "RET", "JMP", "JMPT"}
  \/ e.op \in {"MOV", "TRUNC", "LOAD"} /\ IsCell(e.d)
  \/ e.op = "STORE" /\ IsReg(e.d)

\* As UseOf, but a register the instruction also writes counts as written.
UseOfDstFirst(t, n, i) ==
  LET e == t.log[i]
      New(u, o) == u.used[n][o.idx].seen = 0
      Read(u, o) == IF New(u, o) THEN [u EXCEPT !.used[n][o.idx].seen = 1, !.used[n][o.idx].size = o.size]
                    ELSE u
      Wrote(u, o) ==
        LET w == [u EXCEPT !.used[n][o.idx].dst = i]
        IN  IF New(u, o) THEN [w EXCEPT !.used[n][o.idx].seen = 2, !.used[n][o.idx].size = o.size] ELSE w
  IN  IF Refused(e) THEN Exit(t) ELSE FoldLeft(Read, FoldLeft(Wrote, t, Writes(e)), Reads(e))

\* How the first of the accesses went, and the last instruction that wrote it.  An
\* arithmetic operand needs a size, unless the register was met before.
UseOf(t, n, i) ==
  LET e == t.log[i]
      New(u, o) == u.used[n][o.idx].seen = 0
      Unsized(u, o) == New(u, o) /\ e.op \in Binary /\ o.size = 0
      Read(u, o) == IF Unsized(u, o) THEN Exit(u)
                    ELSE IF New(u, o)
                    THEN [u EXCEPT !.used[n][o.idx].seen = 1, !.used[n][o.idx].size = o.size]
                    ELSE u
      Wrote(u, o) ==
        LET w == [u EXCEPT !.used[n][o.idx].dst = i]
        IN  IF Unsized(u, o) THEN Exit(u)
            ELSE IF New(u, o) THEN [w EXCEPT !.used[n][o.idx].seen = 2, !.used[n][o.idx].size = o.size]
            ELSE w
  IN  IF Refused(e) THEN Exit(t) ELSE EachIn(EachIn(t, Reads(e), Read), Writes(e), Wrote)

FillUsed(s) == EachNode(s, LAMBDA t, n : EachInst(t, n, UseOf))

-----------------------------------------------------------------------------
(* PHI nodes and where their values come from *)

\* Back over single predecessors.  A function does not begin with a loop, in which
\* search_back_for_join would go round.
Back[m \in Nat, k \in Nat] ==
  IF m = 0 \/ Len(F.g.prev[k]) # 1 THEN k ELSE Back[m - 1, F.g.prev[k][1]]
JoinBefore(n) == {k \in {Back[Cardinality(Nodes), n]} : Len(F.g.prev[k]) > 1}

Phis(t, n, r) == {m \in DOMAIN t.phi[n] : t.phi[n][m].reg = r}
AddPhi(t, n, r) ==
  IF Phis(t, n, r) # {} THEN t
  ELSE [t EXCEPT !.phi[n] = Append(@, [reg |-> r, ways |-> <<>>, list |-> <<>>, id |-> 0])]

\* The join before a node that reads a register gets a PHI for it.
FillPhiDst(s) ==
  EachNode(s, LAMBDA t, n :
    IF JoinBefore(n) = {} THEN t
    ELSE EachIn(t, SelectSeq(RegOrder, LAMBDA r : t.used[n][r].seen = 1),
                LAMBDA u, r : AddPhi(u, CHOOSE k \in JoinBefore(n) : TRUE, r)))

\* The nodes of the path p of the function, from its beginning.
Way[p \in Nat, m \in Nat] ==
  LET own == SubSeq(F.paths[p].nodes, 1, m)
  IN  IF F.paths[p].prev = p THEN own ELSE Way[F.paths[p].prev, F.paths[p].step] \o own

Gives(t, k, r) == t.used[k][r].dst # 0 \/ Phis(t, k, r) # {}

\* As SourceOn, but the node itself may give the value.
SourceOnSelf(t, p, n, r) ==
  LET way == Way[p, Len(F.paths[p].nodes)]
      at == Max({m \in DOMAIN way : way[m] = n})
      giving == {m \in 1 .. at : Gives(t, way[m], r)}
  IN  [prev |-> IF at = 1 THEN 0 ELSE way[at - 1],
       node |-> IF giving = {} THEN 0 ELSE way[Max(giving)]]

\* On the path p: the node before n, and the nearest before n with a value for r.
SourceOn(t, p, n, r) ==
  LET way == Way[p, Len(F.paths[p].nodes)]
      at == Max({m \in DOMAIN way : way[m] = n})
      giving == {m \in 1 .. at - 1 : Gives(t, way[m], r)}
  IN  [prev |-> IF at = 1 THEN 0 ELSE way[at - 1],
       node |-> IF giving = {} THEN 0 ELSE way[Max(giving)]]

EachPhi(s, Do(_, _, _)) ==
  EachNode(s, LAMBDA t, n : EachIn(t, [m \in DOMAIN t.phi[n] |-> m], LAMBDA u, m : Do(u, n, m)))

FillPhiSrc(s) ==
  EachPhi(s, LAMBDA t, n, m :
    [t EXCEPT !.phi[n][m].ways =
       LET on == F.onPaths[n] \o F.onLoops[n]
       IN  [w \in DOMAIN on |-> SourceOn(t, on[w], n, t.phi[n][m].reg)]])

\* The last of the ways that come by the predecessor k decides.
PhiList(ways, k) ==
  LET by == {w \in DOMAIN ways : ways[w].prev = k} IN IF by = {} THEN 0 ELSE ways[Max(by)].node

FillPhiNodeList(s) ==
  EachPhi(s, LAMBDA t, n, m :
    [t EXCEPT !.phi[n][m].list =
       [q \in DOMAIN F.g.prev[n] |->
          [prev |-> F.g.prev[n][q], node |-> PhiList(t.phi[n][m].ways, F.g.prev[n][q]), id |-> 0]]])

-----------------------------------------------------------------------------
(* A value id and a label for every value *)

\* log_to_label: of a constant, of a parameter or a local, in a register or on the
\* stack, or of what the executor found to be a cell of memory or a constant.  It leaves
\* the label of a parameter or a local in memory as it is.
ConstLabel(o, ptr) ==
  CASE o.kind = "data"  -> Label(3, 1, o.idx, o.size, 1)
    [] o.kind = "reloc" -> Label(3, 2, o.idx, o.size, ptr)
    [] OTHER            -> Label(3, 3, o.idx, o.size, 0)
LogToLabel(o, id) ==
  CASE IsConst(o) -> ConstLabel(o, 0)
    [] o.scope \in {1, 2} /\ o.kind = "mem" -> Unset
    [] o.scope = 1 -> IF o.kind = "stack" THEN Label(2, 2, o.cell, o.size, 0) ELSE Label(2, 1, o.idx, o.size, 0)
    [] o.scope = 2 -> IF o.kind = "stack" THEN Label(1, 2, 0 - o.cell, o.size, 0) ELSE Label(1, 1, id, o.size, 0)
    [] o.scope = 3 -> Label(1, 1, id, o.size, 1)
    [] o.scope = 4 -> Label(6, 1, id, o.size, 0)

\* A value that the executor takes for a parameter is a local once it is written.
Local(o) == IF o.scope = 1 THEN [o EXCEPT !.scope = 2] ELSE o

\* An id nobody will use; the label it gets was never set.
Burn(t) == [t EXCEPT !.next = @ + 1]

\* The cell of an operand of which the executor's memory, as it is now, has none.
NoCell == 4096
CellId(t, o) == IF o.cell \in DOMAIN t.cells THEN t.cells[o.cell] ELSE 0
NameCell(t, o) == NewId([t EXCEPT !.cells = (o.cell :> t.next) @@ @], LogToLabel(o, t.next))

DstLabels == (Writing \cup {"ZEXT"}) \ {"CALL"}

\* assign_id_label_dst.  A cell keeps the id it got first.  What the executor left without
\* a scope gets no label.
AssignDst(t, n, i) ==
  LET e == t.log[i]
      Named(u, id) == [u EXCEPT !.log[i].v3 = id]
      kept == e.op = "STORE" /\ CellId(t, e.d) # 0
  IN  CASE e.op = "STORE" /\ e.d.cell = NoCell -> Exit(t)
        [] kept -> Named(Burn(t), CellId(t, e.d))
        [] ~kept /\ e.op \in DstLabels \cup {"CALL", "STORE"} /\ e.d.scope = 0 -> Exit(t)
        [] e.op \in DstLabels /\ IsReg(e.d) /\ e.d.scope # 0 ->
             Named(NewId(t, LogToLabel(Local(e.d), t.next)), t.next)
        [] e.op = "CALL" /\ e.d.scope # 0 -> Named(NewId(t, LogToLabel(e.d, t.next)), t.next)
        [] e.op = "STORE" /\ ~kept /\ e.d.scope # 0 -> Named(NameCell(t, e.d), t.next)
        [] e.op \in Compare \cup {"IF", "BC", "RET", "JMP", "JMPT"} -> Burn(t)
        [] OTHER -> Exit(t)

\* The words on the stack are those of a label l.
AssignLabelsToDst(s, l) ==
  LET t == EachNode(s, LAMBDA u, n : EachInst(u, n, AssignDst))
  IN  [t EXCEPT !.labels = [id \in DOMAIN @ |-> IF @[id] = Unset THEN l ELSE @[id]]]

AssignPhiLabels(s) ==
  EachPhi(s, LAMBDA t, n, m :
    NewId([t EXCEPT !.phi[n][m].id = t.next], Label(1, 1, t.next, 0, 0)))

PhiId(t, n, r) == t.phi[n][Min(Phis(t, n, r))].id

\* Back over first predecessors to one with a value for r; 0 is none.
Giver(t, n, r) ==
  LET From[k \in Nodes] == IF F.g.prev[k] = <<>> THEN 0
                           ELSE LET p == F.g.prev[k][1] IN IF Gives(t, p, r) THEN p ELSE From[p]
  IN  From[n]

\* The id a register has where node n first reads it: that of the node's own PHI, of
\* a node before it, or of a parameter.
Depend(t, n, r) ==
  LET p == IF Phis(t, n, r) # {} THEN n ELSE Giver(t, n, r)
      Set(u, id) == [u EXCEPT !.used[n][r].id = id]
      param == t.param[r]
  IN  IF p # 0
      THEN Set(t, IF p # n /\ t.used[p][r].dst # 0 THEN t.log[t.used[p][r].dst].v3 ELSE PhiId(t, p, r))
      ELSE IF param # 0 THEN Set(t, param)
      ELSE Set(NewId([t EXCEPT !.param[r] = t.next], Label(2, 1, r, t.used[n][r].size, 0)), t.next)

FillRegDependency(s) ==
  EachNode(s, LAMBDA t, n :
    EachIn(t, SelectSeq(RegOrder, LAMBDA r : t.used[n][r].seen = 1), LAMBDA u, r : Depend(u, n, r)))

FillRegParamsSize(s) ==
  [s EXCEPT !.regParams = Max({0} \cup {m \in DOMAIN ParamOrder : s.param[ParamOrder[m]] # 0})]

\* What a source of a PHI had for the register at its end.  Source 0, the function's
\* parameter, gets no id.
IdAtEnd(t, k, r) ==
  IF t.used[k][r].dst # 0 THEN t.log[t.used[k][r].dst].v3 ELSE PhiId(t, k, r)
FillPhiSrcValueId(s) ==
  EachPhi(s, LAMBDA t, n, m :
    LET phi == t.phi[n][m]
        IdOf(from) == IF from.node = 0 THEN 0 ELSE IdAtEnd(t, from.node, phi.reg)
    IN  [t EXCEPT !.phi[n][m].list = [q \in DOMAIN @ |-> [@[q] EXCEPT !.id = IdOf(phi.list[q])]]])

\* A PHI has the size its sources agree on; a source without one does not count.
FillPhiDstSize(s) ==
  EachPhi(s, LAMBDA t, n, m :
    LET phi == t.phi[n][m]
        sizes == SelectSeq([q \in DOMAIN phi.list |-> LabelOf(t, phi.list[q].id).size], LAMBDA z : z # 0)
    IN  IF Cardinality(Range(sizes)) > 1 THEN Exit(t)
        ELSE [t EXCEPT !.labels[phi.id].size = IF sizes = <<>> THEN 0 ELSE sizes[1]])

-----------------------------------------------------------------------------
(* The value ids of the sources *)

\* track[r] is the id register r has at this point of the node (reg_tracker).
At(t, track) == [t |-> t, track |-> track]

\* Operand o of instruction i is field f: a constant gets an id of its own.
Source(x, i, f, o, ptr) ==
  LET Set(u, id) == [u EXCEPT !.log[i][f] = id]
  IN  [x EXCEPT !.t = CASE IsConst(o) -> Set(NewId(x.t, ConstLabel(o, ptr)), x.t.next)
                        [] IsReg(o)   -> Set(x.t, x.track[o.idx])
                        [] o.kind = "stack" /\ CellId(x.t, o) # 0 -> Set(x.t, CellId(x.t, o))
                        [] OTHER      -> x.t]

\* A load reads through a register, or from a cell of the stack, which has to be in the
\* executor's memory and is named after its scope when nothing was stored there.
SourceOfLoad(x, i, o) ==
  LET Set(u, id) == [u EXCEPT !.log[i].v1 = id]
  IN  CASE o.kind = "mem" -> [x EXCEPT !.t = Set(x.t, x.track[o.idx])]
        [] o.kind = "stack" /\ CellId(x.t, o) = 0 ->
             [x EXCEPT !.t = IF o.cell # NoCell /\ o.scope \in {1, 2} THEN Set(NameCell(x.t, o), x.t.next) ELSE Exit(x.t)]
        [] IsReg(o) -> [x EXCEPT !.t = Exit(x.t)]
        [] OTHER -> Source(x, i, "v1", o, 0)

Track(x, i) ==
  LET e == x.t.log[i] IN IF Writes(e) = <<>> THEN x ELSE [x EXCEPT !.track[e.d.idx] = e.v3]

\* A call keeps the ids of the registers for the parameters of the callee.
Keep(x, i) == [x EXCEPT !.t.calls = (i :> [track |-> x.track, regs |-> <<>>, stack |-> <<>>]) @@ @]

\* A conditional branch goes on as a return.
AssignSrc(x, i) ==
  LET e == x.t.log[i]
      a(y) == Source(y, i, "v1", e.a, 0)
      b(y) == Source(y, i, "v2", e.b, 0)
  IN  CASE e.op = "MOV"     -> IF IsCell(e.a) THEN [x EXCEPT !.t = Exit(x.t)] ELSE Track(a(x), i)
        [] e.op = "LOAD"    -> Track(b(SourceOfLoad(x, i, e.a)), i)
        [] e.op = "STORE"   -> b(IF e.a.kind = "mem" THEN Source(x, i, "v1", [e.a EXCEPT !.kind = "reg"], 0) ELSE a(x))
        [] e.op \in Binary  -> Track(Source(Source(x, i, "v1", e.a, 1), i, "v2", e.b, 1), i)
        [] e.op \in Compare ->
             LET Named(y, f, o) == Source(y, i, f, IF IsCell(o) THEN [o EXCEPT !.kind = "reg"] ELSE o, 0)
             IN  Named(Named(x, "v1", e.a), "v2", e.b)
        [] e.op = "CALL"    -> Track(Keep(x, i), i)
        [] e.op \in {"BC", "RET"} ->
             LET y == IF e.op = "BC" THEN a(x) ELSE x
                 z == Source(y, i, "v1", [e.a EXCEPT !.kind = "reg"], 0)
             IN  [z EXCEPT !.t.returned = z.t.log[i].v1]
        [] e.op \in {"NOP", "IF", "JMP", "JMPT"} -> x
        [] OTHER -> [x EXCEPT !.t = Exit(x.t)]

\* Registers the node reads first begin with the id they depend on.
AssignNode(t, n) ==
  LET start == At(t, [r \in Registers |-> IF t.used[n][r].seen = 1 THEN t.used[n][r].id ELSE 0])
  IN  FoldLeft(LAMBDA x, i : IF x.t.exit THEN x ELSE AssignSrc(x, i), start, t.code[n]).t
AssignLabelsToSrc(s) == EachNode(s, AssignNode)

-----------------------------------------------------------------------------
(* main *)

SsaStep ==
  \/ PathsStep /\ UNCHANGED <<ssa, ready>>
  \/ Enter
  \/ Pass("used", FillUsed(S))
  \/ Pass("phi dst", FillPhiDst(S))
  \/ Pass("phi src", FillPhiSrc(S))
  \/ Pass("phi list", FillPhiNodeList(S))
  \/ \E l \in OnTheStack : Pass("dst", AssignLabelsToDst(S, l))
  \/ Pass("phi dst labels", AssignPhiLabels(S))
  \/ Pass("depend", FillRegDependency(S))
  \/ Pass("reg params", FillRegParamsSize(S))
  \/ Pass("phi values", FillPhiSrcValueId(S))
  \/ Pass("phi sizes", FillPhiDstSize(S))
  \/ Pass("src", AssignLabelsToSrc(S))

=============================================================================
