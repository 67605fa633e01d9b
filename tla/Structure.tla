----------------------------- MODULE Structure ------------------------------
(***************************************************************************)
(* What the paths and loops say about the nodes (src/analyse/analyse.c,    *)
(* driven by main, test/dis64.c): dominators, the kinds of the links, the  *)
(* types of the nodes, the exits of the loops and where the two sides of a *)
(* branch meet again.                                                      *)
(*                                                                         *)
(* The passes run behind Paths, on what it keeps of the functions.  Those  *)
(* that treat every node on its own are one action per function; the       *)
(* search for the tails counts over the nodes of a function and takes one  *)
(* step per node.                                                          *)
(***************************************************************************)
EXTENDS Paths

CONSTANT TailsMax  \* steps build_node_if_tail allows for a function

ASSUME TailsAssumption == TailsMax \in Nat

VARIABLES
  dominator, \* of the nodes, function by function
  exits,     \* links with is_loop_exit
  type,      \* node types
  multi,     \* multi_exit: the exits of a loop, kept with its head
  tail,      \* if_tail of the nodes; 0 is none
  at,        \* node build_node_if_tail is at
  count      \* its count

svars == <<dominator, exits, type, multi, tail, at, count>>
allvars == <<vars, svars>>

StructInit ==
  /\ Init
  /\ dominator = <<>> /\ exits = <<>> /\ type = <<>> /\ multi = <<>> /\ tail = <<>>
  /\ at = 1 /\ count = 0

F == results[fi]
Nodes == DOMAIN F.g.next

\* is_subset: 1 for the same lists, 2 when a is in b.  b is searched from the
\* position in a on, as both lists are in order.
IsSubset(a, b) ==
  IF a = b THEN 1
  ELSE IF Len(a) <= Len(b) /\ \A i \in DOMAIN a : \E j \in i .. Len(b) : a[i] = b[j] THEN 2
  ELSE 0

Analyse ==
  /\ stage = "begin" /\ fi > Len(functions)
  /\ stage' = "dominance" /\ fi' = 1
  /\ UNCHANGED <<functions, again, g, waiting, paths, path, walking, heads, edges, loops, results, svars>>

-----------------------------------------------------------------------------
(* build_node_dominance *)

\* The first predecessor by a link that is no loop edge.
Up(k) ==
  LET ms == {m \in DOMAIN F.g.prev[k] : <<F.g.prev[k][m], F.g.index[k][m]>> \notin F.edges}
  IN  IF ms = {} THEN 0 ELSE F.g.prev[k][Min(ms)]

\* As Dominator, but loop edges are followed like the other links.
DominatorDirect(k) == Up(k)

\* Up from node b to one that all the paths of node k visit.
Climb[k \in Nat, b \in Nat] ==
  IF Up(b) = 0 \/ IsSubset(F.onPaths[k], F.onPaths[Up(b)]) # 0 THEN Up(b) ELSE Climb[k, Up(b)]

Dominator(k) == Climb[k, k]

Dominate ==
  /\ stage = "dominance" /\ fi <= Len(functions)
  /\ dominator' = Append(dominator, [k \in Nodes |-> Dominator(k)])
  /\ stage' = "links"
  /\ UNCHANGED <<functions, fi, again, g, waiting, paths, path, walking, heads, edges, loops, results,
                 exits, type, multi, tail, at, count>>

-----------------------------------------------------------------------------
(* analyse_control_flow_node_links *)

Leads(k, l) == F.g.next[k][l]
NodeLinks == {<<k, l>> \in Nodes \X (1 .. Cardinality(Nodes) + 1) : l <= Len(F.g.next[k])}

\* As IsExit, but the loops are compared the other way round.
IsExitSwapped(k, l) ==
  /\ <<k, l>> \notin F.edges
  /\ IF k \in F.heads THEN F.memberOf[Leads(k, l)] # <<k>>
     ELSE IsSubset(F.memberOf[k], F.memberOf[Leads(k, l)]) = 2

\* A link out of the head of a loop stays inside only if it leads to a node of that
\* loop and no other.  Any other link leaves a loop when the node it leads to is
\* in some of the loops of its own node only.
IsExit(k, l) ==
  /\ <<k, l>> \notin F.edges
  /\ IF k \in F.heads THEN F.memberOf[Leads(k, l)] # <<k>>
     ELSE IsSubset(F.memberOf[Leads(k, l)], F.memberOf[k]) = 2

\* A link that is neither loop edge nor exit is normal.
ClassifyLinks ==
  /\ stage = "links"
  /\ exits' = Append(exits, {lk \in NodeLinks : IsExit(lk[1], lk[2])})
  /\ stage' = "types"
  /\ UNCHANGED <<functions, fi, again, g, waiting, paths, path, walking, heads, edges, loops, results,
                 dominator, type, multi, tail, at, count>>

-----------------------------------------------------------------------------
(* build_node_type and build_control_flow_loops_multi_exit *)

Exits(k) == {l \in DOMAIN F.g.next[k] : <<k, l>> \in exits[fi]}
Normal(k) == {l \in DOMAIN F.g.next[k] : <<k, l>> \notin exits[fi] \cup F.edges}

\* As TypeOf, but the first link is looked at twice.
TypeOfFirst(k) ==
  CASE Len(F.g.next[k]) > 2 -> "jmpt"
    [] Len(F.g.next[k]) = 2 /\ Exits(k) # {} -> IF k \in F.heads THEN "loop" ELSE "if_then_goto"
    [] Len(F.g.next[k]) = 2 /\ Normal(k) = {1} -> "if_then_else"
    [] OTHER -> IF k \in F.heads THEN "loop" ELSE "unknown"

\* Nodes without a branch keep the type they have: that of loop heads is known.
TypeOf(k) ==
  CASE Len(F.g.next[k]) > 2 -> "jmpt"
    [] Len(F.g.next[k]) = 2 /\ Exits(k) # {} -> IF k \in F.heads THEN "loop" ELSE "if_then_goto"
    [] Len(F.g.next[k]) = 2 /\ Normal(k) = {1, 2} ->
         IF k \in F.heads THEN "loop_then_else" ELSE "if_then_else"
    [] OTHER -> IF k \in F.heads THEN "loop" ELSE "unknown"

TypeNodes ==
  /\ stage = "types"
  /\ type' = Append(type, [k \in Nodes |-> TypeOf(k)])
  /\ stage' = "multi"
  /\ UNCHANGED <<functions, fi, again, g, waiting, paths, path, walking, heads, edges, loops, results,
                 dominator, exits, multi, tail, at, count>>

CountExits ==
  /\ stage = "multi"
  /\ multi' = Append(multi, [k \in Nodes |->
       LET of == {m \in DOMAIN F.loops : F.loops[m].head = k}
       IN  IF of = {} THEN 0
           ELSE Cardinality({lk \in exits[fi] : lk[1] \in F.loops[Min(of)].body})])
  /\ IF fi < Len(functions) THEN fi' = fi + 1 /\ stage' = "dominance" /\ UNCHANGED tail
     ELSE fi' = 1 /\ stage' = "tails" /\ tail' = <<[k \in DOMAIN results[1].g.next |-> 0]>>
  /\ at' = 1 /\ count' = 0
  /\ UNCHANGED <<functions, again, g, waiting, paths, path, walking, heads, edges, loops, results,
                 dominator, exits, type>>

-----------------------------------------------------------------------------
(* build_node_if_tail *)

Failed == -1

\* How the search goes on from a branch: along the first path, the first looping
\* path, the exits, or the normal links; it compares paths or looping paths.
Way(k) ==
  CASE type[fi][k] \in {"if_then_else", "jmpt"} -> IF Len(F.onPaths[k]) >= 2 THEN "path" ELSE "looping"
    [] type[fi][k] = "if_then_goto" -> "exit"
    [] type[fi][k] = "loop" -> IF multi[fi][k] > 1 THEN "path" ELSE "exit"
    [] type[fi][k] = "loop_then_else" -> IF multi[fi][k] > 1 THEN "path" ELSE "normal"
    [] OTHER -> "none"

\* As Lists, but it is always the looping paths.
ListsLoops(k) == F.onLoops

\* The lists that are compared: of looping paths when the way is along those.
Lists(k) == IF Way(k) \in {"looping", "normal"} THEN F.onLoops ELSE F.onPaths

\* The nodes of a path of F from the beginning of the function.
KeptTo[p \in Nat, s \in Nat] ==
  LET own == SubSeq(F.paths[p].nodes, 1, s)
  IN  IF F.paths[p].prev = p THEN own ELSE KeptTo[F.paths[p].prev, F.paths[p].step] \o own
Kept(p) == KeptTo[p, Len(F.paths[p].nodes)]

\* The node behind the last b in t, if any.
Behind(t, b) ==
  LET ms == {m \in DOMAIN t : t[m] = b}
  IN  IF ms = {} \/ Max(ms) = Len(t) THEN 0 ELSE t[Max(ms) + 1]

\* The node behind the first b among the nodes a looping path does not share.
BehindOwn(t, b) ==
  LET ms == {m \in DOMAIN t : t[m] = b}
  IN  IF ms = {} THEN 0 ELSE IF Min(ms) = Len(t) THEN Failed ELSE t[Min(ms) + 1]

\* A node with one link has a way on, but the search ends there.
ByLink(b, links) ==
  IF Len(F.g.next[b]) # 2 \/ Exits(b) = {1, 2} \/ links = {} THEN 0
  ELSE Leads(b, Min(links))

NextNode(k, b) ==
  CASE Way(k) = "path" -> IF F.onPaths[k] = <<>> THEN Failed ELSE Behind(Kept(F.onPaths[k][1]), b)
    [] Way(k) = "looping" -> IF Len(F.onLoops[k]) < 2 THEN Failed
                             ELSE BehindOwn(F.paths[F.onLoops[k][1]].nodes, b)
    [] Way(k) = "exit" -> ByLink(b, Exits(b))
    [] Way(k) = "normal" -> ByLink(b, Normal(b))
    [] OTHER -> Failed

\* The tail of branch k, from b on, and the count then.
TailFrom[k \in Nat, b \in Nat, c \in Nat] ==
  LET next == NextNode(k, b) IN
  IF next = Failed THEN [node |-> Failed, count |-> c]
  ELSE IF next = 0 THEN [node |-> 0, count |-> c]
  ELSE IF c + 1 > TailsMax THEN [node |-> Failed, count |-> c + 1]
  ELSE IF IsSubset(Lists(k)[k], Lists(k)[next]) # 0 THEN [node |-> next, count |-> c + 1]
  ELSE TailFrom[k, next, c + 1]

\* Nodes that are no branches, or were merged into others, have none.
FindTail ==
  /\ stage = "tails" /\ at \in Nodes
  /\ IF at \notin F.g.valid \/ Len(F.g.next[at]) < 2
     THEN UNCHANGED <<tail, count, stage>>
     ELSE LET found == TailFrom[at, at, count] IN
          /\ tail' = [tail EXCEPT ![fi][at] = IF found.node = Failed THEN 0 ELSE found.node]
          /\ count' = found.count
          /\ stage' = IF found.node = Failed THEN "failed" ELSE stage
  /\ at' = at + 1
  /\ UNCHANGED <<functions, fi, again, g, waiting, paths, path, walking, heads, edges, loops, results,
                 dominator, exits, type, multi>>

\* As FunctionDone, but the same function is done again.
FunctionDoneAgain ==
  /\ stage = "tails" /\ at \notin Nodes
  /\ at' = 1 /\ count' = 0
  /\ UNCHANGED <<functions, fi, stage, again, g, waiting, paths, path, walking, heads, edges, loops,
                 results, dominator, exits, type, multi, tail>>

FunctionDone ==
  /\ stage = "tails" /\ at \notin Nodes
  /\ IF fi < Len(functions)
     THEN /\ fi' = fi + 1 /\ UNCHANGED stage
          /\ tail' = Append(tail, [k \in DOMAIN results[fi + 1].g.next |-> 0])
     ELSE stage' = "registers" /\ UNCHANGED <<fi, tail>>
  /\ at' = 1 /\ count' = 0
  /\ UNCHANGED <<functions, again, g, waiting, paths, path, walking, heads, edges, loops, results,
                 dominator, exits, type, multi>>

StructStep ==
  \/ Analyse \/ Dominate \/ ClassifyLinks \/ TypeNodes \/ CountExits \/ FindTail \/ FunctionDone

StructWork == (PathsStep /\ UNCHANGED svars) \/ StructStep
StructStopped == stage \in {"failed", "undefined", "registers"}
StructNext == StructWork \/ (StructStopped /\ UNCHANGED allvars)

StructSpec == StructInit /\ [][StructNext]_allvars /\ WF_allvars(StructWork)

=============================================================================
