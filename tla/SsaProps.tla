------------------------------ MODULE SsaProps ------------------------------
(***************************************************************************)
(* What the value ids promise, against a dataflow over the links of the    *)
(* nodes: which values of a register reach where.                          *)
(***************************************************************************)
EXTENDS Tip, FlowGraph

\* The value the instructions ms of node n leave in register r, if they write it.
Written(s, n, ms, r) ==
  LET Sets(m) == \E o \in Range(Writes(s.log[s.code[n][m]])) : o.idx = r
      by == {m \in ms : Sets(m)}
  IN  IF by = {} THEN {} ELSE {s.log[s.code[n][Max(by)]].v3}

PhiIds(s, n, r) == {phi.id : phi \in {x \in Range(s.phi[n]) : x.reg = r}}

\* The values of r that reach the beginning and the end of every node of function f: of
\* the PHI at the beginning, else of all the predecessors.  0 is what the caller left.
Reaching(f, r) ==
  LET s == ssa[f]
      prev == results[f].g.prev
      Ks == DOMAIN prev
      End(in, n) == LET w == Written(s, n, DOMAIN s.code[n], r) IN IF w # {} THEN w ELSE in[n]
      Begins(in, n) == IF PhiIds(s, n, r) # {} THEN PhiIds(s, n, r)
                       ELSE (IF n = 1 THEN {0} ELSE {}) \cup UNION {End(in, k) : k \in Range(prev[n])}
      In[i \in Nat] == IF i = 0 THEN [n \in Ks |-> {}] ELSE LET in == In[i - 1] IN [n \in Ks |-> Begins(in, n)]
      in == In[Cardinality(Ks) + 1]
  IN  [begin |-> in, end |-> [n \in Ks |-> End(in, n)]]

\* Those that reach instruction m of node n.
Holds(f, at, n, m, r) ==
  LET w == Written(ssa[f], n, 1 .. m - 1, r) IN IF w # {} THEN w ELSE at.begin[n]

\* v is the id of the one value in vs.
Names(f, r, v, vs) == v # 0 /\ \E x \in vs : vs = {x} /\ v = (IF x = 0 THEN ssa[f].param[r] ELSE x)

All(st) == stage = st /\ fi = 1
EveryNode(Ok(_, _)) == \A f \in DOMAIN ssa : \A n \in results[f].g.valid : Ok(f, n)

\* Every register an instruction reads has the id of the one value it can have there,
\* over all the ways to the instruction: that of an instruction, of a PHI or of a
\* parameter (assign_labels_to_src over fill_node_phi_dst).  A jump table gets no id.
ReadsRight ==
  All("tips") => \A r \in Registers : LET at == [f \in DOMAIN ssa |-> Reaching(f, r)] IN
    EveryNode(LAMBDA f, n : \A m \in DOMAIN ssa[f].code[n] :
      LET e == ssa[f].log[ssa[f].code[n][m]]
          Right(o, v) == o.kind = "reg" /\ o.idx = r => Names(f, r, v, Holds(f, at[f], n, m, r))
      IN  e.op # "JMPT" => Right(e.a, e.v1) /\ Right(e.b, e.v2))

\* What a PHI takes for a predecessor is a value that reaches the end of it, and where
\* it found no node that gives one, the value the caller left does (fill_node_phi_src,
\* fill_phi_node_list, fill_phi_src_value_id).  Which id is entered for the caller's value
\* is the question of ParamsEntered.  In an endless loop no path may visit the head a last
\* time by the way in.
PhiSourcesReach ==
  All("tips") => \A r \in Registers : LET at == [f \in DOMAIN ssa |-> Reaching(f, r)] IN
    EveryNode(LAMBDA f, n : \A phi \in Range(ssa[f].phi[n]) :
      phi.reg = r /\ Ends(results[f].g.next) => \A q \in DOMAIN phi.list :
        LET from == phi.list[q]
        IN  (IF from.node = 0 THEN 0 ELSE from.id) \in at[f].end[from.prev] /\ (from.node # 0 => from.id # 0))

\* Where the value of a PHI for a predecessor is what the caller left, the PHI has the
\* value id of the function's parameter in that register.  dis64.c:5477 says so of
\* fill_phi_src_value_id, which enters nothing.
ParamsEntered ==
  All("tips") => EveryNode(LAMBDA f, n : \A phi \in Range(ssa[f].phi[n]) :
    \A q \in DOMAIN phi.list : phi.list[q].node = 0 =>
      phi.list[q].id # 0 /\ phi.list[q].id = ssa[f].param[phi.reg])

\* All the paths through one predecessor agree on the node that gives the value.
\* docs/design-points/phi.txt:62 has it verified; fill_phi_node_list prints FAILED and
\* takes the last.
PathsAgree ==
  All("dst") => EveryNode(LAMBDA f, n : \A phi \in Range(ssa[f].phi[n]) :
    \A x, y \in Range(phi.ways) : x.prev = y.prev => x.node = y.node)

\* The instructions the sizes of whose operands count: those of a node up to the first
\* that build_tip_table does not know, where an extension is none, and the extensions in
\* front of the first of a node.
Extensions == {"ZEXT", "TRUNC"}
Sized(f, n) ==
  LET code == ssa[f].code[n]
      other == {m \in DOMAIN code : ssa[f].log[code[m]].op \notin Known \cup Extensions}
  IN  {code[m] : m \in {k \in DOMAIN code : \A x \in other : k < x}}
InFront(f) ==
  {i \in DOMAIN ssa[f].log : ssa[f].log[i].op \in Extensions /\ \A n \in DOMAIN ssa[f].code : i \notin Range(ssa[f].code[n])}

\* The uses of labels in an instruction, with their sizes.
Uses(e) ==
  IF e.op \in Extensions THEN {<<e.v1, e.a.size>>, <<e.v3, e.d.size>>} ELSE {<<c.id, c.size>> : c \in Range(Clues(e))}
Sizes(f, id) ==
  LET sized == InFront(f) \cup UNION {Sized(f, n) : n \in results[f].g.valid}
  IN  {use[2] : use \in {x \in UNION {Uses(ssa[f].log[i]) : i \in sized} : x[1] = id}}
OtherReturned(f, id) ==
  \E m \in DOMAIN ssa[f].tips[id] : LET tip == ssa[f].tips[id][m]
    IN  ssa[f].log[tip.inst].op = "RET" /\ tip.size # ssa[f].tips[id][1].size

\* Behind tip_add_zext all uses of a label have one size, among them what an extension
\* reads, what it makes and the operands renamed to that, unless the function returns
\* the label in another size, where the search ends.
SizesAgree ==
  All("pointers") => \A f \in DOMAIN ssa : \A id \in DOMAIN ssa[f].tips :
    OtherReturned(f, id) \/ LabelOf(ssa[f], id).scope = 0 \/ Cardinality(Sizes(f, id)) <= 1

\* A call of a function of the object file passes, in the place the calling convention
\* gives each register the callee takes a parameter from, the one value the register has
\* there (call_params_to_locals behind the order of the parameters).
CallsPass ==
  stage = "done" => \A q \in DOMAIN ParamOrder :
    LET r == ParamOrder[q]
        at == [f \in DOMAIN ssa |-> Reaching(f, r)]
        Takes(callee) == callee.param[r] \in Range(callee.params)
    IN  EveryNode(LAMBDA f, n : \A m \in DOMAIN ssa[f].code[n] :
          LET i == ssa[f].code[n][m]
              e == ssa[f].log[i]
          IN  e.op = "CALL" /\ e.a.kind = "function" /\ Takes(ssa[e.a.idx]) =>
                LET regs == ssa[f].calls[i].regs
                IN  q \in DOMAIN regs /\ Names(f, r, regs[q], Holds(f, at[f], n, m, r)))
=============================================================================
