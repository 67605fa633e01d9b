------------------------------ MODULE CfgProps ------------------------------
(***************************************************************************)
(* What the nodes promise: the control flow graph of the functions, at the *)
(* grain of straight-line code.                                            *)
(***************************************************************************)
EXTENDS ExploreProps, Cfg

Before(ss) == pc = "done" => stage \in ss
Tidy == ~Before({"tidy"}) /\ pc = "done"
Built == Tidy /\ stage \notin {"mark", "build", "link", "index"}

CfgTypeOK ==
  /\ stage \in {"tidy", "mark", "build", "link", "index", "start", "members", "collect",
                "paths", "failed"}
  /\ starts \subseteq Index /\ ends \subseteq Index /\ member \in [Index -> Nat]
  /\ nodes \in Seq([first : Insts, last : Insts, prev : Seq(Nat), next : Seq(Nat),
                    index : Seq(Nat \ {0})])
  /\ fi \in 1 .. Len(entries) + 1 /\ at \in Index
  /\ startNode \in Seq(DOMAIN nodes)
  /\ mid \in [Mid -> {NoNode} \cup 0 .. Len(nodes)]
  /\ number = <<>> \/ number \in [0 .. Len(nodes) -> 0 .. Len(nodes) + 1]
  /\ members \in Seq(Seq(0 .. Len(nodes)))

-----------------------------------------------------------------------------
(* The logs on which the passes go wrong.  Each condition is about the log as a    *)
(* pass finds it, before it does anything.                                         *)

\* Of three equal neighbours in a list tidying leaves a 0 behind (analyse.c:60): a
\* branch to the instruction behind it, a jump table that names one place thrice.
Sparse(s) == \A m \in 1 .. Len(s) - 1 : Cleared(s)[m] = 0 => Cleared(s)[m + 1] # 0
SparseLists == At("tidy") => \A i \in Insts : Sparse(log[i].next) /\ Sparse(log[i].prev)

\* In a function that is one endless ring no entry starts a node, and the walk back to
\* one goes round for ever (analyse.c:118).  In any other control somewhere forks,
\* ends, meets other control, or begins where none comes back to.
NoRings ==
  At("mark") => \A f \in 1 .. Len(entries) : \E i \in Insts :
    origin[i][1] = f /\ (Len(log[i].next) # 1 \/ Len(log[i].prev) # 1)

\* A function that begins in straight-line code that is jumped back to is taken to
\* begin elsewhere in it (analyse.c:79).  In any other the first instruction, when it has
\* one predecessor, has one that leads elsewhere too.
HeadsLead ==
  At("mark") => \A f \in 1 .. Len(entries) :
    LET prev == log[FirstInst(f)].prev IN Len(prev) = 1 => Len(log[prev[1]].next) # 1

-----------------------------------------------------------------------------
(* The lists and the nodes of the log *)

\* Tidying removes what is listed twice and nothing else: the lists name entries
\* of the log, each once, and the two lists of an edge still agree.
ListsTidy ==
  \A i \in Insts :
    /\ Cardinality(Range(log[i].next)) = Len(log[i].next)
    /\ Cardinality(Range(log[i].prev)) = Len(log[i].prev)
    /\ Range(log[i].next) \cup Range(log[i].prev) \subseteq Insts
    /\ \A j \in Insts : Edge(i, j) <=> i \in Range(log[j].prev)

\* Every entry but the last of a node has one successor, which belongs to the node
\* and has no other predecessor.
IsBlock(k) ==
  /\ member[nodes[k].first] = k /\ member[nodes[k].last] = k
  /\ \A i \in Insts : member[i] = k /\ i # nodes[k].last =>
       \E j \in Insts : member[j] = k /\ log[i].next = <<j>> /\ log[j].prev = <<i>>

\* A node ends only where control forks, ends, or meets other control.
IsMaximal(k) ==
  LET next == log[nodes[k].last].next IN
  Len(next) = 1 => \/ Len(log[next[1]].prev) # 1
                   \/ next[1] \in {FirstInst(f) : f \in 1 .. Len(entries)}

NodesAreBasic ==
  /\ Tidy => ListsTidy
  /\ Built => /\ \A k \in DOMAIN nodes : IsBlock(k) /\ IsMaximal(k)
              /\ \A i \in Insts : member[i] \in DOMAIN nodes

\* The nodes are the basic blocks of the tidied log: inside one control neither
\* leaves nor enters, none could be longer, and no entry is left out of them.  The
\* passes find them from marks on single entries and on their neighbours.  Left out
\* are logs with three equal neighbours in a list and functions that are one ring.
NodesPartitionLog == []SparseLists /\ []NoRings => []NodesAreBasic

-----------------------------------------------------------------------------
(* The links, in the numbers of the functions *)

\* Functions whose nodes have their numbers.
Done(f) == Built /\ f <= Len(members)

\* The node with number c of a function, whose table is g.
LinksAsLogged ==
  \A f \in 1 .. Len(members) : Done(f) =>
    LET g == members[f]  F(c) == nodes[g[c]] IN
    /\ Range(g) \subseteq DOMAIN nodes
    /\ \A c \in DOMAIN g :
         /\ Range(F(c).next) \cup Range(F(c).prev) \subseteq DOMAIN g
         /\ [m \in DOMAIN F(c).next |-> F(F(c).next[m]).first] = log[F(c).last].next
         /\ [m \in DOMAIN F(c).prev |-> F(F(c).prev[m]).last] = log[F(c).first].prev
         /\ \A l \in DOMAIN F(c).prev : F(F(c).prev[l]).next[F(c).index[l]] = c

\* The links of a node lead to the nodes that begin where the log says control
\* goes from its last entry, and its predecessors are the nodes that lead to it;
\* prev_link_index names the link.  Left out are the logs NodesPartitionLog leaves out.
LinksFollowLog == []SparseLists /\ []NoRings => []LinksAsLogged

StartsFirst ==
  \A f \in DOMAIN startNode : nodes[startNode[f]].first = FirstInst(f)

\* The start node of a function begins with the first instruction of its code.  Left
\* out are functions that begin in straight-line code that is jumped back to.
StartRight == []HeadsLead => []StartsFirst

NodesOwned ==
  At("paths") =>
    /\ \A k \in DOMAIN nodes : \E f \in DOMAIN members : k \in Range(members[f])
    /\ \A f \in DOMAIN members : /\ Range(members[f]) \subseteq DOMAIN nodes
                                 /\ \A k \in Range(members[f]) : origin[nodes[k].first][1] = f

\* The functions share out the nodes: every node belongs to exactly one, the one
\* its instructions were decoded for.  Left out are logs with three equal neighbours
\* in a list: the 0 left there leads to node 0, which is none.
FunctionsPartition == []SparseLists => []NodesOwned

\* The nodes' graph as the log has it, whatever the links are numbered by.
NodeSucc(k) == {j \in DOMAIN nodes : nodes[j].first \in Range(log[nodes[k].last].next)}

NodesWL == INSTANCE Worklist WITH
             succ     <- IF At("collect") THEN [k \in DOMAIN nodes |-> NodeSucc(k)] ELSE <<>>,
             root     <- IF At("collect") THEN {startNode[fi]} ELSE {},
             visited  <- IF At("collect") THEN Numbered \ {0} ELSE {},
             frontier <- IF At("collect") THEN Range(mid) \ {NoNode, 0} ELSE {},
             alive    <- ~At("failed")

\* create_function_node_members finds the nodes of a function as the worklist
\* does, although a node may wait in several slots.
MembersImplementWorklist == NodesWL!Spec

\* The passes end on every log but one with a function that is an endless ring
\* (NoRings), in which find_node_from_inst does not end (analyse.c:118): the chains of the
\* nodes, the walk back to the start node and the numbering of the nodes come to an end
\* in loops too, and when main gives up.
CfgTerminates == []NoRings => <>(pc \in {"failed", "undefined"} \/ At("paths") \/ At("failed"))

=============================================================================
