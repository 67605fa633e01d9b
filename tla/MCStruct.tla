------------------------------ MODULE MCStruct ------------------------------
(* Graphs for the paths, the loops and the passes behind them.             *)
EXTENDS MCPaths, StructProps

\* Every graph of four nodes with one return at most, and those of five without loops.
Loopless5 == OneReturnAtMost(LooplessOf(5))

\* Two functions, one after the other: with loops, the first with more of them, and
\* without.
ThreeNodes == OneReturnAtMost(AnyOf(3))
AllGraphs == ThreeNodes \cup FourNodes \cup Loopless5
LoopCount(x) == Cardinality(BackLinks(x.next))
AllFunctions ==
  {<<x>> : x \in FourNodes \cup Loopless5}
    \cup {<<x, y>> : x \in {z \in ThreeNodes : LoopCount(z) >= 2}, y \in {z \in ThreeNodes : LoopCount(z) <= 1}}
=============================================================================
