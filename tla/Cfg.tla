-------------------------------- MODULE Cfg ---------------------------------
(***************************************************************************)
(* From the log of RTL instructions to the control flow graph of nodes     *)
(* (src/analyse/analyse.c) and to the graph of each function               *)
(* (create_function_node_members, test/dis64.c).                           *)
(*                                                                         *)
(* The passes run one after the other behind the exploration, on the log   *)
(* it leaves.  A pass that treats every entry or node on its own, whatever *)
(* the order, is one action; the two that walk the graph, the search for   *)
(* the start node and the numbering of a function's nodes, take one step   *)
(* per entry or node.  Lists are 1-based here and 0-based in the code.     *)
(***************************************************************************)
EXTENDS Explore, SequencesExt

CONSTANT MidCount  \* size of mid_node in create_function_node_members

ASSUME MidAssumption == MidCount \in Nat \ {0}

VARIABLES
  stage,     \* pass main is at, behind the exploration
  starts,    \* entries with node_start
  ends,      \* entries with node_end
  member,    \* node_member of the entries
  nodes,     \* the global node table
  fi,        \* main's loop over the functions
  at,        \* entry find_node_from_inst has walked back to
  startNode, \* start_node of the functions
  mid,       \* mid_node: nodes to go on from; NoNode is a free slot
  number,    \* node_list: the number a node has in its function
  members    \* member_nodes of the functions

cfgvars == <<stage, starts, ends, member, nodes, fi, at, startNode, mid, number, members>>
allvars == <<vars, cfgvars>>

Insts == 1 .. ilog - 1
Mid == 1 .. MidCount
NoNode == -1

CfgInit ==
  /\ Init
  /\ stage = "tidy" /\ starts = {} /\ ends = {} /\ member = [i \in Index |-> 0]
  /\ nodes = <<>> /\ fi = 1 /\ at = 0 /\ startNode = <<>>
  /\ mid = [m \in Mid |-> NoNode] /\ number = <<>> /\ members = <<>>

At(s) == pc = "done" /\ stage = s

-----------------------------------------------------------------------------
(* tidy_inst_log *)

\* All but the last of equal elements are cleared.
Cleared(s) == [m \in DOMAIN s |-> IF \E l \in m + 1 .. Len(s) : s[l] = s[m] THEN 0 ELSE s[m]]

\* Cleared elements are closed up, one turn of the loop after the other.  It goes on
\* behind the element it has just moved down, and never looks at the last one.
Compacted(s) ==
  LET after[m \in 0 .. Len(s)] ==
        IF m = 0 THEN s
        ELSE LET t == after[m - 1]
             IN  IF m < Len(t) /\ t[m] = 0 THEN RemoveAt(t, m) ELSE t
  IN  after[Len(s)]

Tidied(s) == IF Len(s) > 1 THEN Compacted(Cleared(s)) ELSE s

TidyLog ==
  /\ At("tidy")
  /\ log' = [i \in Index |->
       IF i \notin Insts THEN log[i]
       ELSE LET prev == Tidied(log[i].prev)
            IN  [log[i] EXCEPT !.next = Tidied(@),
                               !.prev = IF prev = <<0>> THEN <<>> ELSE prev]]
  /\ stage' = "mark"
  /\ UNCHANGED <<program, fn, pc, used, slots, n, again, eip, cur, todo, pend, prevI, ilog,
                 mark, history, starts, ends, member, nodes, fi, at, startNode, mid, number, members>>

-----------------------------------------------------------------------------
(* build_control_flow_nodes *)

\* As Forks, but an entry with one successor ends a node too.
ForksFromOne == Insts

Forks == {i \in Insts : Len(log[i].next) # 1}
Joins == {i \in Insts : Len(log[i].prev) # 1}
IntoJoins == UNION {Range(log[j].prev) : j \in Joins}

\* A node ends where control forks or ends and in front of a join; what follows
\* an end starts a node.
MarkNodes ==
  /\ At("mark")
  /\ ends' = Forks \cup IntoJoins
  /\ starts' = Joins \cup (UNION {Range(log[i].next) : i \in Forks})
                     \cup {log[i].next[1] : i \in {k \in IntoJoins : Len(log[k].next) = 1}}
  /\ stage' = "build"
  /\ UNCHANGED <<vars, member, nodes, fi, at, startNode, mid, number, members>>

\* The entries of a node from i on.
Chain[i \in Insts] == IF i \in ends THEN <<i>> ELSE <<i>> \o Chain[log[i].next[1]]

\* Nodes are numbered in the order of their first entries.
Rank(i) == Cardinality({j \in starts \cap Insts : j <= i})
NodeCount == Cardinality(starts \cap Insts)
FirstOf(k) == CHOOSE i \in starts \cap Insts : Rank(i) = k

NewNode(k) == [first |-> FirstOf(k), last |-> Last(Chain[FirstOf(k)]),
               prev |-> <<>>, next |-> <<>>, index |-> <<>>]

\* As BuildNodes, but the first node has number 0.
BuildNodesFromZero ==
  /\ At("build")
  /\ nodes' = [k \in 1 .. NodeCount |-> NewNode(k)]
  /\ member' = [i \in Index |->
       Max({0} \cup {Rank(j) - 1 : j \in {j \in starts \cap Insts : i \in Range(Chain[j])}})]
  /\ stage' = "link"
  /\ UNCHANGED <<vars, starts, ends, fi, at, startNode, mid, number, members>>

BuildNodes ==
  /\ At("build")
  /\ nodes' = [k \in 1 .. NodeCount |-> NewNode(k)]
  /\ member' = [i \in Index |->
       Max({0} \cup {Rank(j) : j \in {j \in starts \cap Insts : i \in Range(Chain[j])}})]
  /\ stage' = "link"
  /\ UNCHANGED <<vars, starts, ends, fi, at, startNode, mid, number, members>>

\* find_node_from_inst: back along the first predecessors to the start of a node.
NoWayBack(i) == log[i].prev = <<>> \/ log[i].prev[1] = 0
FindNode[i \in Index] ==
  IF i \in starts THEN member[i]
  ELSE IF NoWayBack(i) THEN 0
  ELSE FindNode[log[i].prev[1]]

\* As LinkNodes, but the predecessors are those of the last entry.
LinkNodesLast ==
  /\ At("link")
  /\ nodes' = [k \in DOMAIN nodes |->
       LET in == log[nodes[k].last].prev  out == log[nodes[k].last].next
       IN  [nodes[k] EXCEPT !.prev = [m \in DOMAIN in |-> FindNode[in[m]]],
                            !.next = [m \in DOMAIN out |-> FindNode[out[m]]]]]
  /\ stage' = "index"
  /\ UNCHANGED <<vars, starts, ends, member, fi, at, startNode, mid, number, members>>

LinkNodes ==
  /\ At("link")
  /\ nodes' = [k \in DOMAIN nodes |->
       LET in == log[nodes[k].first].prev  out == log[nodes[k].last].next
       IN  [nodes[k] EXCEPT !.prev = [m \in DOMAIN in |-> FindNode[in[m]]],
                            !.next = [m \in DOMAIN out |-> FindNode[out[m]]]]]
  /\ stage' = "index"
  /\ UNCHANGED <<vars, starts, ends, member, fi, at, startNode, mid, number, members>>

\* The links by which a predecessor leads to node k; the last one is kept.
LinksTo(p, k) == IF p = 0 THEN {} ELSE {m \in DOMAIN nodes[p].next : nodes[p].next[m] = k}

\* external_entry_points[l].inst_log: where the log of a function begins.
FirstInst(f) == Min({i \in Insts : origin[i][1] = f})

IndexLinks ==
  /\ At("index")
  /\ nodes' = [k \in DOMAIN nodes |->
       [nodes[k] EXCEPT !.index =
          [l \in DOMAIN nodes[k].prev |-> Max({1} \cup LinksTo(nodes[k].prev[l], k))]]]
  /\ at' = FirstInst(1) /\ stage' = "start"
  /\ UNCHANGED <<vars, starts, ends, member, fi, startNode, mid, number, members>>

-----------------------------------------------------------------------------
(* main: the start node of every function *)

\* An entry without a way back always starts a node (else TLC would report a
\* deadlock): main's exit for a function without start node is out of reach.
WalkBack ==
  /\ At("start") /\ at \notin starts /\ ~NoWayBack(at)
  /\ at' = log[at].prev[1]
  /\ UNCHANGED <<vars, stage, starts, ends, member, nodes, fi, startNode, mid, number, members>>

\* As Found, but the walk for the next function begins where the last one ended.
FoundStale ==
  /\ At("start") /\ at \in starts
  /\ startNode' = Append(startNode, member[at])
  /\ IF fi < Len(entries) THEN fi' = fi + 1 /\ UNCHANGED stage
     ELSE fi' = 1 /\ stage' = "members"
  /\ UNCHANGED <<vars, starts, ends, member, nodes, at, mid, number, members>>

Found ==
  /\ At("start") /\ at \in starts
  /\ startNode' = Append(startNode, member[at])
  /\ IF fi < Len(entries)
     THEN fi' = fi + 1 /\ at' = FirstInst(fi + 1) /\ UNCHANGED stage
     ELSE fi' = 1 /\ stage' = "members" /\ UNCHANGED at
  /\ UNCHANGED <<vars, starts, ends, member, nodes, mid, number, members>>

-----------------------------------------------------------------------------
(* create_function_node_members *)

BeginMembers ==
  /\ At("members") /\ fi <= Len(entries)
  /\ mid' = [m \in Mid |-> IF m = 1 THEN startNode[fi] ELSE NoNode]
  /\ number' = [k \in 0 .. Len(nodes) |-> 0]
  /\ stage' = "collect"
  /\ UNCHANGED <<vars, starts, ends, member, nodes, fi, at, startNode, members>>

FreeIn(slot) == {m \in Mid : slot[m] = NoNode}
Numbered == {k \in DOMAIN number : number[k] # 0}

\* The elements of ks at the positions ms take the free slots of mid_node, one
\* after the other, and always the first one.
Placed(slot, ks, ms) ==
  LET after[m \in 0 .. Len(ks)] ==
        IF m = 0 THEN slot
        ELSE IF m \notin ms THEN after[m - 1]
        ELSE [after[m - 1] EXCEPT ![Min(FreeIn(after[m - 1]))] = ks[m]]
  IN  after[Len(ks)]

\* Node 0, where a link that was not found leads, has no links itself.
NextOf(k) == IF k = 0 THEN <<>> ELSE nodes[k].next

\* As Unnumbered, but only the first successor is followed, or every one again.
UnnumberedFirst(k, nums) == {m \in DOMAIN NextOf(k) : m = 1 /\ nums[NextOf(k)[m]] = 0}
AllOuts(k, nums) == DOMAIN NextOf(k)

\* The links of a node that lead to one without a number.
Unnumbered(k, nums) == {m \in DOMAIN NextOf(k) : nums[NextOf(k)[m]] = 0}

Numbering(k) == IF number[k] # 0 THEN number
                ELSE [number EXCEPT ![k] = Cardinality(Numbered) + 1]

\* The node of the first used slot gets the next number, unless it has one, and
\* its successors without a number are queued; without a free slot main exits.
CollectNode ==
  /\ At("collect") /\ FreeIn(mid) # Mid
  /\ LET slot == Min(Mid \ FreeIn(mid))
         left == [mid EXCEPT ![slot] = NoNode]
         outs == Unnumbered(mid[slot], Numbering(mid[slot]))
     IN  /\ number' = Numbering(mid[slot])
         /\ IF Cardinality(outs) <= Cardinality(FreeIn(left))
            THEN mid' = Placed(left, NextOf(mid[slot]), outs) /\ UNCHANGED stage
            ELSE stage' = "failed" /\ UNCHANGED mid
  /\ UNCHANGED <<vars, starts, ends, member, nodes, fi, at, startNode, members>>

Renumbered(s) == [m \in DOMAIN s |-> number[s[m]]]

\* The function's table gets the nodes in the order of their numbers, with links
\* in these numbers.  Its lists are not copies: the memcpy calls copy the
\* pointers, so the lists of the global table are renumbered.
EndMembers ==
  /\ At("collect") /\ FreeIn(mid) = Mid
  /\ members' = Append(members, [c \in 1 .. Cardinality(Numbered) |->
                                   CHOOSE k \in Numbered : number[k] = c])
  /\ nodes' = [k \in DOMAIN nodes |->
       IF k \notin Numbered THEN nodes[k]
       ELSE [nodes[k] EXCEPT !.prev = Renumbered(@), !.next = Renumbered(@)]]
  /\ fi' = fi + 1 /\ stage' = "members"
  /\ UNCHANGED <<vars, starts, ends, member, at, startNode, mid, number>>

CfgDone ==
  /\ At("members") /\ fi > Len(entries)
  /\ stage' = "paths"
  /\ UNCHANGED <<vars, starts, ends, member, nodes, fi, at, startNode, mid, number, members>>

CfgStopped ==
  /\ pc \in {"failed", "undefined"} \/ At("failed") \/ At("paths")
  /\ UNCHANGED allvars

CfgStep == \/ TidyLog \/ MarkNodes \/ BuildNodes \/ LinkNodes \/ IndexLinks
           \/ WalkBack \/ Found
           \/ BeginMembers \/ CollectNode \/ EndMembers \/ CfgDone

Work == (Step /\ UNCHANGED cfgvars) \/ CfgStep
CfgNext == Work \/ CfgStopped

CfgSpec == CfgInit /\ [][CfgNext]_allvars /\ WF_allvars(Work)

=============================================================================
