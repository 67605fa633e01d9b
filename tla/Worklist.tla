------------------------------ MODULE Worklist ------------------------------
(***************************************************************************)
(* What finding all of a graph from a root promises, without tables, slots *)
(* or marks: a worklist that visits, root by root, the least set of places *)
(* that contains the root and is closed under succ.  main and              *)
(* process_block implement it over the offsets of the code, and            *)
(* create_function_node_members over the nodes of the control flow graph.  *)
(* How it fails (a code overrun, a full table) is not described: nothing   *)
(* is promised once it is no longer alive.                                 *)
(***************************************************************************)
VARIABLES
  succ,      \* the places control goes to from a place
  root,      \* where the search began, as a set
  visited,   \* places visited
  frontier,  \* places found but not dealt with
  alive      \* the search has lost nothing

vars == <<succ, root, visited, frontier, alive>>

Init == root = {} /\ visited = {} /\ frontier = {} /\ alive = TRUE

\* The next search, perhaps of another graph, once nothing is left of the last.
Begin ==
  /\ frontier = {}
  /\ root' = frontier' /\ visited' = {}

\* A place is visited at most once; it may be found again, or stay queued, and
\* need not be queued where it was visited before.
Visit(a) ==
  /\ a \in DOMAIN succ /\ a \notin visited
  /\ visited' = visited \cup {a}
  /\ (frontier \ {a}) \cup (succ[a] \ visited') \subseteq frontier'
  /\ frontier' \subseteq frontier \cup succ[a]
  /\ UNCHANGED <<succ, root>>

\* A place visited before needs nothing more.
Drop(a) ==
  /\ a \in visited
  /\ frontier' = frontier \ {a}
  /\ UNCHANGED <<succ, root, visited>>

Work == Begin \/ \E a \in frontier : Visit(a) \/ Drop(a)

Next == alive' => alive /\ Work

Spec == Init /\ [][Next]_vars

-----------------------------------------------------------------------------
Closed(S) == \A a \in S \cap DOMAIN succ : succ[a] \subseteq S

\* Nothing is reached that control cannot reach: whatever set contains the root
\* and is closed contains all that was visited or found.
Sound == alive => \A S : root \subseteq S /\ Closed(S) => visited \cup frontier \subseteq S

\* Nothing reachable is missed: what was found and not visited is in the
\* frontier, so an empty frontier leaves a closed set.
Complete == alive => /\ root \subseteq visited \cup frontier
                     /\ \A a \in visited : succ[a] \subseteq visited \cup frontier
=============================================================================
