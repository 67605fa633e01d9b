------------------------------- MODULE Paths --------------------------------
(***************************************************************************)
(* The paths through a function and its loops (src/analyse/analyse.c,      *)
(* driven by main, test/dis64.c).                                          *)
(*                                                                         *)
(* build_control_flow_paths lists every way through the graph of a         *)
(* function.  A path is kept as the nodes behind a branch of an earlier    *)
(* path; the table, the loops and the marks on the nodes are filled for    *)
(* one function after the other, through the same tables.  Nodes and paths *)
(* are numbered from 1; the code numbers paths from 0.                     *)
(***************************************************************************)
EXTENDS Integers, FiniteSets, Sequences, SequencesExt

CONSTANTS
  Graph,      \* graphs create_function_node_members leaves for a function
  Programs,   \* the object files, as sequences of graphs
  MidStarts,  \* size of node_mid_start
  PathsSize,  \* paths_size in main
  LoopsSize   \* loops_size in main

\* The nodes are numbered, their links lead to different nodes, and their lists and
\* sizes are there.
IsGraph(x) ==
  LET Nodes == 1 .. Len(x.next)
  IN  /\ x.next \in Seq(Seq(Nodes)) /\ x.next # <<>>
      /\ \A k \in Nodes : IsInjective(x.next[k])
      /\ x \in [next : [Nodes -> Seq(Nodes)], prev : [Nodes -> Seq(Nodes)],
                index : [Nodes -> Seq(Nat \ {0})], len : [Nodes -> Nat \ {0}], valid : {Nodes}]

ASSUME PathsAssumption ==
  /\ {MidStarts, PathsSize, LoopsSize} \subseteq Nat \ {0}
  /\ Programs \subseteq Seq(Graph) \ {<<>>}
  /\ \A x \in Graph : IsGraph(x)

VARIABLES
  functions, \* the graphs of the functions of the object file
  fi,        \* main's loop over them
  stage,     \* pass main is at
  again,     \* paths are built a second time
  g,         \* nodes of the function: links, predecessors, sizes, and which are valid
  waiting,   \* node_mid_start: ways out of branches, to go on from
  paths,     \* the path table
  path,      \* path under construction, or the next one
  walking,   \* the path is under construction
  heads,     \* nodes with loop_head
  edges,     \* links with is_loop_edge
  loops,     \* the loop table
  results    \* what is kept of the functions

vars == <<functions, fi, stage, again, g, waiting, paths, path, walking, heads, edges, loops, results>>

Node == DOMAIN g.next
Mid == 1 .. MidStarts
FreeMid == [node |-> 0, path |-> 0, step |-> 0]

Init ==
  /\ functions \in Programs
  /\ fi = 1 /\ stage = "begin" /\ again = FALSE /\ g = functions[1]
  /\ waiting = [m \in Mid |-> FreeMid] /\ paths = <<>> /\ path = 1 /\ walking = FALSE
  /\ heads = {} /\ edges = {} /\ loops = <<>> /\ results = <<>>

-----------------------------------------------------------------------------
(* build_control_flow_paths *)

Start == [m \in Mid |-> IF m = 1 THEN [node |-> 1, path |-> 1, step |-> 1] ELSE FreeMid]

\* As Begin, but the table keeps the paths of the function before.
BeginStale ==
  /\ stage = "begin" /\ fi <= Len(functions)
  /\ g' = functions[fi] /\ again' = FALSE /\ stage' = "paths"
  /\ waiting' = Start /\ path' = 1
  /\ heads' = {} /\ edges' = {} /\ loops' = <<>>
  /\ UNCHANGED <<functions, fi, paths, walking, results>>

\* main clears the tables before every function.
Begin ==
  /\ stage = "begin" /\ fi <= Len(functions)
  /\ g' = functions[fi] /\ again' = FALSE /\ stage' = "paths"
  /\ waiting' = Start /\ path' = 1 /\ paths' = <<>>
  /\ heads' = {} /\ edges' = {} /\ loops' = <<>>
  /\ UNCHANGED <<functions, fi, walking, results>>

Used == {m \in Mid : waiting[m].node # 0}
NewPath == [nodes |-> <<>>, prev |-> 0, step |-> 0, type |-> "unknown", head |-> 0]

\* The next path goes on from the first used entry of node_mid_start.  Built a
\* second time, a path keeps the type and the loop head it had.
TakeMid ==
  /\ stage = "paths" /\ ~walking /\ Used # {}
  /\ LET m == Min(Used)
         old == IF path <= Len(paths) THEN paths ELSE Append(paths, NewPath)
     IN  /\ paths' = [old EXCEPT ![path].nodes = <<waiting[m].node>>,
                                 ![path].prev = waiting[m].path, ![path].step = waiting[m].step]
         /\ waiting' = [waiting EXCEPT ![m].node = 0]
  /\ walking' = TRUE
  /\ UNCHANGED <<functions, fi, stage, again, g, path, heads, edges, loops, results>>

\* The nodes from the beginning of the function to the end of path p: those up to the
\* step of the path before where it branches off, and its own.
Trace[p \in DOMAIN paths] ==
  LET q == paths[p].prev
      before == Trace[q]
      behind == Len(paths[q].nodes) - paths[p].step
  IN  IF q = p THEN paths[p].nodes
      ELSE SubSeq(before, 1, Len(before) - behind) \o paths[p].nodes

Tip == Last(paths[path].nodes)
Walking == stage = "paths" /\ walking

\* path_loop_check looks back over as many nodes as the function has, and one.
Limit == Cardinality(Node) + 1
SeenBefore(t) == \E k \in 1 .. Limit : k < Len(t) /\ t[Len(t) - k] = Last(t)
LimitReached(t) == Len(t) > Limit

\* As Ended, but one path too many fits.
EndedLate ==
  /\ walking' = FALSE /\ path' = path + 1
  /\ stage' = IF path <= PathsSize THEN stage ELSE IF again THEN "loops" ELSE "failed"

\* The path is complete; main gives up when the table is full, but only the
\* first time.
Ended ==
  /\ walking' = FALSE /\ path' = path + 1
  /\ stage' = IF path < PathsSize THEN stage ELSE IF again THEN "loops" ELSE "failed"

LinksBetween(i, j) == {<<i, l>> : l \in {l \in DOMAIN g.next[i] : g.next[i][l] = j}}

\* The node the path comes from.
Before == LET t == Trace[path] IN t[Len(t) - 1]

\* The path is back at a node of its own: a loop.  A path of one node may also
\* be that node's link to itself.
CloseLoop ==
  /\ Walking /\ g.next[Tip] # <<>>
  /\ SeenBefore(Trace[path]) \/ LimitReached(Trace[path])
  /\ paths' = [paths EXCEPT ![path].head = Tip,
                            ![path].type = IF SeenBefore(Trace[path]) THEN "loop" ELSE @]
  /\ heads' = heads \cup {Tip}
  /\ edges' = edges \cup LinksBetween(Before, Tip)
                    \cup (IF Len(paths[path].nodes) = 1 THEN LinksBetween(Tip, Tip) ELSE {})
  /\ Ended
  /\ UNCHANGED <<functions, fi, again, g, waiting, loops, results>>

\* node_mid_start_add: every link but the first waits in a free entry; what
\* finds none is lost.
Vacant(w) == {m \in Mid : w[m].node = 0}
Queued(links, step) ==
  LET after[l \in 0 .. Len(links)] ==
        IF l = 0 THEN waiting
        ELSE IF Vacant(after[l - 1]) = {} THEN after[l - 1]
        ELSE [after[l - 1] EXCEPT ![Min(Vacant(after[l - 1]))] =
                [node |-> links[l], path |-> path, step |-> step]]
  IN  after[Len(links)]

\* As Extend, but the ways out wait for a path that begins behind the next node.
ExtendLate ==
  /\ Walking /\ g.next[Tip] # <<>>
  /\ ~SeenBefore(Trace[path]) /\ ~LimitReached(Trace[path])
  /\ paths' = [paths EXCEPT ![path].nodes = Append(@, g.next[Tip][1])]
  /\ waiting' = Queued(Tail(g.next[Tip]), Len(paths[path].nodes) + 1)
  /\ UNCHANGED <<functions, fi, stage, again, g, path, walking, heads, edges, loops, results>>

\* The path follows the first link.
Extend ==
  /\ Walking /\ g.next[Tip] # <<>>
  /\ ~SeenBefore(Trace[path]) /\ ~LimitReached(Trace[path])
  /\ paths' = [paths EXCEPT ![path].nodes = Append(@, g.next[Tip][1])]
  /\ waiting' = Queued(Tail(g.next[Tip]), Len(paths[path].nodes))
  /\ UNCHANGED <<functions, fi, stage, again, g, path, walking, heads, edges, loops, results>>

\* A node without links ends the path; it cannot have been seen before.
EndPath ==
  /\ Walking /\ g.next[Tip] = <<>>
  /\ Ended
  /\ UNCHANGED <<functions, fi, again, g, waiting, paths, heads, edges, loops, results>>

\* As PathsDone, but the returns are looked at after every build.
PathsDoneReturns ==
  /\ stage = "paths" /\ ~walking /\ Used = {} /\ stage' = "returns"
  /\ UNCHANGED <<functions, fi, again, g, waiting, paths, path, walking, heads, edges, loops, results>>

PathsDone ==
  /\ stage = "paths" /\ ~walking /\ Used = {}
  /\ stage' = IF again THEN "loops" ELSE "returns"
  /\ UNCHANGED <<functions, fi, again, g, waiting, paths, path, walking, heads, edges, loops, results>>

-----------------------------------------------------------------------------
(* analyse_multi_ret and analyse_merge_nodes *)

\* The paths of a set in the order of the table.
InOrder(S) == [m \in 1 .. Cardinality(S) |->
                 CHOOSE p \in S : Cardinality({q \in S : q <= p}) = m]

\* The nodes the complete paths end at: the one of the first path comes last.
EndNode(p) == Last(paths[p].nodes)
Complete == {p \in DOMAIN paths : paths[p].head = 0}
Returns ==
  LET found == InOrder({p \in Complete : \A q \in Complete : q < p => EndNode(q) # EndNode(p)})
      ends == [m \in DOMAIN found |-> EndNode(found[m])]
  IN  IF Len(ends) < 2 THEN <<>> ELSE Append(Tail(ends), Head(ends))

OneReturn ==
  /\ stage = "returns" /\ Returns = <<>>
  /\ stage' = "loops"
  /\ UNCHANGED <<functions, fi, again, g, waiting, paths, path, walking, heads, edges, loops, results>>

TooManyReturns ==
  /\ stage = "returns" /\ Len(Returns) > 2
  /\ stage' = "failed"
  /\ UNCHANGED <<functions, fi, again, g, waiting, paths, path, walking, heads, edges, loops, results>>

\* As Unified, but the lists of a stay as they are.
UnifiedHalf(a, b) ==
  LET into == {<<g.prev[b][m], g.index[b][m]>> : m \in DOMAIN g.prev[b]}
  IN  [g EXCEPT !.next = [k \in Node |-> [l \in DOMAIN g.next[k] |->
                                             IF <<k, l>> \in into THEN a ELSE g.next[k][l]]],
                !.valid = @ \ {b}]

\* The graph in which a and b, alike, are one node: b's predecessors lead to a.
Unified(a, b) ==
  LET into == {<<g.prev[b][m], g.index[b][m]>> : m \in DOMAIN g.prev[b]}
  IN  [g EXCEPT !.next = [k \in Node |-> [l \in DOMAIN g.next[k] |->
                                             IF <<k, l>> \in into THEN a ELSE g.next[k][l]]],
                !.prev = [g.prev EXCEPT ![a] = g.prev[a] \o g.prev[b], ![b] = <<>>],
                !.index = [g.index EXCEPT ![a] = g.index[a] \o g.index[b], ![b] = <<>>],
                !.valid = @ \ {b}]

\* The graph in which b, which ends like a, goes on to a instead.
Shortened(a, b) ==
  [g EXCEPT !.next[b] = <<a>>, !.prev[a] = Append(@, b), !.index[a] = Append(@, 1),
            !.len[b] = @ - g.len[a]]

\* As MergeReturns, but the paths of the old graph are kept.
MergeOnly(common) ==
  /\ stage = "returns" /\ Len(Returns) = 2 /\ common = g.len[Returns[1]]
  /\ g' = IF g.len[Returns[1]] = g.len[Returns[2]] THEN Unified(Returns[1], Returns[2]) ELSE g
  /\ stage' = "loops"
  /\ UNCHANGED <<functions, fi, again, waiting, paths, path, walking, heads, edges, loops, results>>

\* The two returns are compared from their ends: common instructions are alike.
\* When neither is the tail of the other main adds a node that realloc does not
\* clear.  The paths are built again over the old table.
MergeReturns(common) ==
  /\ stage = "returns" /\ Len(Returns) = 2
  /\ LET small(x, y) == g.len[x] <= g.len[y]
         a == IF small(Returns[1], Returns[2]) THEN Returns[1] ELSE Returns[2]
         b == IF a = Returns[1] THEN Returns[2] ELSE Returns[1]
     IN  /\ common <= g.len[a]
         /\ \/ common = 0 /\ g' = g
            \/ common = g.len[a] /\ g.len[a] = g.len[b] /\ g' = Unified(a, b)
            \/ common = g.len[a] /\ g.len[a] < g.len[b] /\ g' = Shortened(a, b)
  /\ stage' = "paths" /\ again' = TRUE /\ waiting' = Start /\ path' = 1
  /\ UNCHANGED <<functions, fi, paths, walking, heads, edges, loops, results>>

MergeTails(common) ==
  /\ stage = "returns" /\ Len(Returns) = 2
  /\ 0 < common /\ common < g.len[Returns[1]] /\ common < g.len[Returns[2]]
  /\ stage' = "undefined"
  /\ UNCHANGED <<functions, fi, again, g, waiting, paths, path, walking, heads, edges, loops, results>>

-----------------------------------------------------------------------------
(* build_control_flow_loops, build_control_flow_loops_node_members and         *)
(* build_node_paths                                                            *)

\* As LoopBody, but only the nodes of the path itself are added.
LoopBodyOwn(p) == Range(paths[p].nodes)

\* merge_path_into_loop: the nodes from the head on, or all when there is none.
LoopBody(p) ==
  LET t == Front(Trace[p])
      from == {k \in DOMAIN t : t[k] = paths[p].head}
  IN  Range(SubSeq(t, Max({1} \cup from), Len(t)))

\* The paths that are the first with their loop heads.
Heading == {p \in DOMAIN paths : /\ paths[p].head # 0
                                 /\ \A q \in 1 .. p - 1 : paths[q].head # paths[p].head}

\* The loops in the order their heads are met.  A loop is nested in the loop of the
\* path that its last path goes on from, if that path is one.
LoopTable ==
  LET outer(p) == paths[paths[p].prev].head
      Of(h) == {p \in DOMAIN paths : paths[p].head = h}
      Inner(h) == {p \in Of(h) : outer(p) # 0}
  IN  [m \in 1 .. Cardinality(Heading) |->
         LET h == paths[InOrder(Heading)[m]].head
         IN  [head |-> h, body |-> UNION {LoopBody(p) : p \in Of(h)},
              nest |-> IF Inner(h) = {} THEN 0 ELSE outer(Max(Inner(h)))]]

BuildLoops ==
  /\ stage = "loops"
  /\ IF Len(LoopTable) <= LoopsSize
     THEN loops' = LoopTable /\ stage' = "keep"
     ELSE loops' = loops /\ stage' = "failed"
  /\ UNCHANGED <<functions, fi, again, g, waiting, paths, path, walking, heads, edges, results>>

\* The heads of the loops a node is in, and the complete and the looping paths it
\* is on, in the order of the tables.
MemberOf(k) == LET of == SelectSeq(loops, LAMBDA loop : k \in loop.body)
               IN  [m \in DOMAIN of |-> of[m].head]
PathsOn(k, types) ==
  SelectSeq([p \in DOMAIN paths |-> p], LAMBDA p : paths[p].type \in types /\ k \in Range(Trace[p]))

\* Main keeps what was found of the function and goes on to the next.
KeepFunction ==
  /\ stage = "keep"
  /\ results' = Append(results,
       [g |-> g, heads |-> heads, edges |-> edges, loops |-> loops,
        paths |-> SubSeq(paths, 1, path - 1),
        memberOf |-> [k \in Node |-> MemberOf(k)],
        onPaths |-> [k \in Node |-> PathsOn(k, {"unknown"})],
        onLoops |-> [k \in Node |-> PathsOn(k, {"loop"})]])
  /\ fi' = fi + 1 /\ stage' = "begin"
  /\ UNCHANGED <<functions, again, g, waiting, paths, path, walking, heads, edges, loops>>

PathsStep ==
  \/ Begin \/ TakeMid \/ CloseLoop \/ Extend \/ EndPath \/ PathsDone
  \/ OneReturn \/ TooManyReturns
  \/ \E common \in 0 .. Max({g.len[k] : k \in Node}) : MergeReturns(common) \/ MergeTails(common)
  \/ BuildLoops \/ KeepFunction

PathsStopped == stage \in {"failed", "undefined"} \/ (stage = "begin" /\ fi > Len(functions))

Next == PathsStep \/ (PathsStopped /\ UNCHANGED vars)

Spec == Init /\ [][Next]_vars /\ WF_vars(PathsStep)

=============================================================================
