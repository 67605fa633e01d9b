----------------------------- MODULE FlowGraph ------------------------------
(***************************************************************************)
(* What the passes over the graph of a function are measured against:      *)
(* walks, loops and dominators, defined on the links of the nodes alone.   *)
(* A graph is a function from the nodes 1, 2, ... to the sequences of the  *)
(* nodes their links lead to; node 1 is where the function begins.         *)
(***************************************************************************)
EXTENDS Naturals, Sequences, FiniteSets, Functions

Links(next) == UNION {{k} \X DOMAIN next[k] : k \in DOMAIN next}
Target(next, lk) == next[lk[1]][lk[2]]
Step(next, S) == UNION {Range(next[k]) : k \in S}

\* The nodes reached from S by at most i links without entering Avoided.
Reach(next, S, Avoided) ==
  LET R[i \in Nat] == IF i = 0 THEN S \ Avoided
                      ELSE R[i - 1] \cup (Step(next, R[i - 1]) \ Avoided)
  IN  R[Cardinality(DOMAIN next)]

\* The graph of a function: every node is reached, and no two links of a node
\* lead to the same node.
Connected(next) ==
  /\ \A k \in DOMAIN next : Range(next[k]) \subseteq DOMAIN next
  /\ \A k \in DOMAIN next : Cardinality(Range(next[k])) = Len(next[k])
  /\ Reach(next, {1}, {}) = DOMAIN next

\* The walks from node 1 that visit no node twice.
Simple(next) ==
  LET Walk[i \in 1 .. Cardinality(DOMAIN next)] ==
        IF i = 1 THEN {<<1>>}
        ELSE UNION {{Append(w, k) : k \in Range(next[w[i - 1]]) \ Range(w)} : w \in Walk[i - 1]}
  IN  UNION {Walk[i] : i \in 1 .. Cardinality(DOMAIN next)}

\* Those that end the function, and those one link longer, back to a node of theirs.
Returning(next) == {w \in Simple(next) : next[w[Len(w)]] = <<>>}
Looping(next) ==
  UNION {{Append(w, k) : k \in Range(next[w[Len(w)]]) \cap Range(w)} : w \in Simple(next)}

\* The links that close a loop on the first walk that takes them.
BackLinks(next) == {lk \in Links(next) : \E w \in Looping(next) :
                      /\ w[Len(w) - 1] = lk[1] /\ w[Len(w)] = Target(next, lk)}

Dominates(next, d, k) == k \notin Reach(next, {1}, {d})
Dominators(next, k) == {d \in DOMAIN next : Dominates(next, d, k)} \ {k}

\* The dominator that all the others dominate.
ImmediateDominator(next, d, k) ==
  d \in Dominators(next, k) /\ \A e \in Dominators(next, k) : e = d \/ Dominates(next, e, d)

\* d is on every walk from k to an end of the function.
PostDominates(next, d, k) ==
  LET ends == {e \in DOMAIN next : next[e] = <<>>}
  IN  Reach(next, {k}, {d}) \cap ends = {}

\* All code of the function gets to an end of it.
Ends(next) == \A k \in DOMAIN next : \E e \in Reach(next, {k}, {}) : next[e] = <<>>

\* A graph is reducible when the links that close loops lead to dominators.
Reducible(next) ==
  \A lk \in BackLinks(next) : Dominates(next, Target(next, lk), lk[1])

Acyclic(next) == Looping(next) = {}

\* The nodes of the loop with head h: those that reach a link back to h without h.
NaturalLoop(next, h) ==
  LET From(k) == Reach(next, {k}, {h})
  IN  {h} \cup {k \in DOMAIN next \ {h} : \E j \in From(k) :
                  h \in Range(next[j]) /\ Dominates(next, h, j)}
=============================================================================
