---------------------------- MODULE StructProps -----------------------------
(***************************************************************************)
(* What the dominators, link kinds, node types and tails promise, against  *)
(* the graph itself (FlowGraph).                                           *)
(***************************************************************************)
EXTENDS PathsProps, Structure

Known(s) == 1 .. Len(s)
NextIn(f) == results[f].g.next

\* Functions that reach no node twice.
Loopless(f) == Acyclic(NextIn(f))

\* A node on a complete path has its immediate dominator.
DominatorsImmediate ==
  \A f \in Known(dominator) : \A k \in results[f].g.valid \ {1} :
    results[f].onPaths[k] # <<>> => ImmediateDominator(NextIn(f), dominator[f][k], k)

\* A link out of a loop: to a node outside of a loop its own node is in.
LeavesLoop(next, lk) ==
  \E h \in {Target(next, b) : b \in BackLinks(next)} :
    lk[1] \in NaturalLoop(next, h) /\ Target(next, lk) \notin NaturalLoop(next, h)

\* Loops that are apart: no node is in two.
Apart(next) ==
  \A b, c \in BackLinks(next) : LET i == Target(next, b)  j == Target(next, c) IN
    i = j \/ NaturalLoop(next, i) \cap NaturalLoop(next, j) = {}

\* Where loops have one way in and none lies in another, the links marked as exits
\* leave a loop, and every link from a loop to a node in none is marked.
ExitsLeave ==
  \A f \in Known(exits) : LET next == NextIn(f) IN Reducible(next) /\ Apart(next) =>
    \A lk \in Links(next) :
      /\ lk \in exits[f] => LeavesLoop(next, lk)
      /\ /\ LeavesLoop(next, lk)
         /\ \A b \in BackLinks(next) : Target(next, lk) \notin NaturalLoop(next, Target(next, b))
         => lk \in exits[f]

\* The sides of a branch meet again at its tail: the first node that every way
\* from the branch to the end of the function visits.
TailOf(next, k) ==
  CHOOSE d \in DOMAIN next \ {k} :
    /\ PostDominates(next, d, k)
    /\ \A e \in DOMAIN next \ {k} : PostDominates(next, e, k) => e = d \/ PostDominates(next, e, d)
TailIsRight(f) ==
  \A k \in results[f].g.valid : Len(NextIn(f)[k]) >= 2 => tail[f][k] = TailOf(NextIn(f), k)

\* In a function without loops the tail of every branch is where its sides meet
\* again; an if with an else has a tail inside of loops too, unless some code of
\* the function never gets to its end.
TailsRight ==
  stage = "registers" => \A f \in DOMAIN functions :
    /\ Loopless(f) => TailIsRight(f)
    /\ Ends(NextIn(f)) => \A k \in results[f].g.valid : type[f][k] = "if_then_else" => tail[f][k] # 0

\* main gives up on a function without loops only when its branches together take
\* too many steps to their tails: each has a type.
GivesUpLate ==
  (stage = "failed" /\ Len(results) = Len(functions) /\ Loopless(fi)) => count = TailsMax + 1

\* The passes end, whatever the graphs.
StructTerminates == <>StructStopped
=============================================================================
