------------------------------ MODULE MCPaths -------------------------------
EXTENDS PathsProps

\* Lists of two links at most.
LinkLists(ks) == {<<>>} \cup {<<j>> : j \in ks} \cup {s \in ks \X ks : s[1] # s[2]}

\* Whether the nodes are numbered as create_function_node_members does.
InSearchOrder(next) ==
  LET size == 2 * Len(next)
      put(w, k) == [w EXCEPT ![Min({m \in 1 .. size : w[m] = 0})] = k]
      Search[w \in Seq(Nat), seen \in Nat] ==
        LET queued == {m \in 1 .. size : w[m] # 0} IN
        IF queued = {} THEN seen = Len(next)
        ELSE LET m == Min(queued)
                 now == Max({seen, w[m]})
             IN  /\ now <= seen + 1
                 /\ Search[FoldLeft(put, [w EXCEPT ![m] = 0], SelectSeq(next[w[m]], LAMBDA j : j > now)), now]
  IN  Search[[m \in 1 .. size |-> IF m = 1 THEN 1 ELSE 0], 0]

\* No node has two links to another.
GraphOf(next, len) ==
  LET Ks == DOMAIN next
      Into(k) == SelectSeq([j \in Ks |-> j], LAMBDA j : k \in Range(next[j]))
      At(j, k) == CHOOSE l \in DOMAIN next[j] : next[j][l] = k
      prev == [k \in Ks |-> Into(k)]
  IN  [next |-> next, len |-> len, valid |-> Ks, prev |-> prev,
       index |-> [k \in Ks |-> [m \in DOMAIN prev[k] |-> At(prev[k][m], k)]]]

\* A node is numbered when one numbered before leads to it.
LedTo(next, k) == k = 1 \/ \E j \in DOMAIN next : k \in Range(next[j])

\* The graphs of n nodes in the numbers the search gives; LinksOf(k) are the lists
\* of links node k may have.
Shapes(n, LinksOf(_)) ==
  LET All[k \in 0 .. n] ==
        IF k = 0 THEN {<<>>}
        ELSE {Append(f, links) : f \in {before \in All[k - 1] : LedTo(before, k)}, links \in LinksOf(k)}
  IN  {next \in All[n] : InSearchOrder(next)}

Rets(next) == {k \in DOMAIN next : next[k] = <<>>}
Code(next) == GraphOf(next, [k \in DOMAIN next |-> 1])
OneReturnAtMost(shapes) == {Code(next) : next \in {f \in shapes : Cardinality(Rets(f)) <= 1}}

AnyOf(n) == Shapes(n, LAMBDA k : LinkLists(1 .. n))

\* Without loops; the first node may end in a jump table.
LooplessOf(n) ==
  Shapes(n, LAMBDA k : LinkLists(k + 1 .. n)
                         \cup (IF k = 1 THEN {s \in (2 .. n) \X (2 .. n) \X (2 .. n) : IsInjective(s)} ELSE {}))

\* Every graph of four nodes with one return at most.
FourNodes == OneReturnAtMost(AnyOf(4))
FourNodeFunctions == {<<x>> : x \in FourNodes}

\* Every graph of four nodes with two and more returns, of one to three instructions.
Returning4 ==
  UNION {{GraphOf(next, [k \in DOMAIN next |-> IF next[k] = <<>> THEN len[k] ELSE 1]) :
            len \in [Rets(next) -> 1 .. 3]} :
           next \in {f \in AnyOf(4) : Cardinality(Rets(f)) >= 2}}
ThreeReturns == Code(<<<<2, 3, 4>>, <<>>, <<>>, <<>>>>)
ReturningGraphs == Returning4 \cup {ThreeReturns}
ReturningFunctions == {<<x>> : x \in ReturningGraphs}
=============================================================================
