----------------------------- MODULE PathsProps -----------------------------
(***************************************************************************)
(* What the path table, the loop edges and the loops promise, against the  *)
(* walks, back links and loops of the graph (FlowGraph).                   *)
(***************************************************************************)
EXTENDS Paths, FlowGraph

PathType == [nodes : Seq(Node), prev : Nat, step : Nat, type : {"unknown", "loop"},
             head : {0} \cup Node]

PathsTypeOK ==
  /\ functions \in Programs /\ fi \in 1 .. Len(functions) + 1
  /\ stage \in {"begin", "paths", "returns", "loops", "keep", "failed", "undefined"}
  /\ again \in BOOLEAN /\ walking \in BOOLEAN
  /\ g \in [next : [Node -> Seq(Node)], prev : [Node -> Seq(Node)], index : [Node -> Seq(Nat \ {0})],
            len : [Node -> Nat \ {0}], valid : SUBSET Node]
  /\ waiting \in [Mid -> [node : {0} \cup Node, path : 0 .. PathsSize, step : 0 .. Cardinality(Node)]]
  /\ path \in 1 .. PathsSize + 1 /\ Len(paths) \in 0 .. PathsSize
  /\ paths \in Seq(PathType)
  /\ \A p \in DOMAIN paths : p < path \/ (walking /\ p = path) =>
       paths[p].prev \in 1 .. p /\ paths[p].step \in DOMAIN paths[paths[p].prev].nodes
  /\ heads \subseteq Node /\ edges \subseteq Links(g.next)
  /\ Len(loops) <= LoopsSize
  /\ loops \in Seq([head : Node, nest : {0} \cup Node, body : SUBSET Node])

AtLoops == stage = "loops"

\* The path table lists every way through the function: the walks that return,
\* and those that close a loop, which carry its head.  Each is listed once, unless
\* the returns a branch chose between were merged.
PathsComplete ==
  AtLoops =>
    LET ways == [p \in DOMAIN paths |-> Trace[p]] IN
    /\ Range(ways) = Returning(g.next) \cup Looping(g.next)
    /\ Len(paths) = path - 1
    /\ (\A k \in Node : IsInjective(g.next[k])) => IsInjective(ways)
    /\ \A p \in DOMAIN paths :
         /\ paths[p].type = "loop" <=> ways[p] \in Looping(g.next)
         /\ paths[p].head = IF ways[p] \in Looping(g.next) THEN Last(ways[p]) ELSE 0

\* Ways get lost when node_mid_start is full, but none is made up; and main gives
\* up only on functions that need the whole table.
PathsSound ==
  LET ways == Returning(functions[fi].next) \cup Looping(functions[fi].next)
      limits == Cardinality(ways) < PathsSize /\ Cardinality(BackLinks(functions[fi].next)) <= LoopsSize
  IN  /\ stage = "loops" /\ ~again => {Trace[p] : p \in DOMAIN paths} \subseteq ways
      /\ stage = "failed" => Returns # <<>> \/ ~limits

\* The loop edges are the links that close a loop on some way, and the heads are
\* where they lead: without them no loop is left.  And where every loop has one way
\* in, a loop has no nodes but those that reach a link back to its head without
\* passing it, and a loop without another inside has them all.
LoopsNatural ==
  /\ AtLoops => /\ edges = BackLinks(g.next)
                /\ heads = {Target(g.next, lk) : lk \in edges}
  /\ stage = "keep" /\ Reducible(g.next) =>
       /\ {loops[m].head : m \in DOMAIN loops} = heads /\ Len(loops) = Cardinality(heads)
       /\ \A m \in DOMAIN loops : LET nodes == NaturalLoop(g.next, loops[m].head) IN
            /\ loops[m].body \subseteq nodes
            /\ nodes \cap heads = {loops[m].head} => loops[m].body = nodes

\* Two returns, once merged, are one, and no way of the function gets lost:
\* the graph still leads everywhere it led before.
MergeKeepsWays ==
  AtLoops =>
    LET old == functions[fi].next IN
    /\ Reach(g.next, {1}, {}) = g.valid
    /\ Node \ g.valid \subseteq {k \in Node : old[k] = <<>>}
    /\ \A k \in g.valid : \A l \in DOMAIN old[k] :
         g.next[k][l] = old[k][l] \/ old[k][l] \notin g.valid
    /\ \A k \in g.valid : /\ Len(g.prev[k]) = Cardinality({lk \in Links(g.next) :
                                lk[1] \in g.valid /\ Target(g.next, lk) = k})
                          /\ \A m \in DOMAIN g.prev[k] : g.next[g.prev[k][m]][g.index[k][m]] = k

\* The passes end, whatever the graph.
PathsTerminate == <>PathsStopped
=============================================================================
