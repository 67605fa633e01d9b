---------------------------- MODULE ExploreProps ----------------------------
(***************************************************************************)
(* What the exploration promises: the log is a control flow graph of the   *)
(* functions of the object file.                                           *)
(***************************************************************************)
EXTENDS Explore

Entry == [op : Op, to : Seq(Nat), prev : Seq(Index), next : Seq(Index)]

\* An IF and a JMP have one target.
RtlInst == {r \in [op : Op, to : Seq(Nat)] : r.op \in {"IF", "JMP"} => Len(r.to) = 1}

CodeOK ==
  /\ code \in [Offset -> Decoded] /\ entries \in Seq(Offset)
  /\ \A a \in Offset : code[a].kind \in {"jmp", "jcc"} => Len(code[a].to) = 1

MainOK ==
  /\ fn \in 0 .. Len(entries)
  /\ pc \in {"main", "scan", "fetch", "rtl", "queue", "return",
             "done", "failed", "undefined"}
  /\ used \subseteq Slot /\ slots \in [Slot -> [eip : Nat, prev : Index]]
  /\ n \in 0 .. SlotCount

BlockOK ==
  /\ eip \in Nat /\ cur \in Offset
  /\ todo \in Seq(RtlInst) /\ pend \in Seq(Nat)
  /\ prevI \in Index /\ ilog \in 1 .. LogSize

LogOK ==
  /\ log \in [Index -> Entry]
  /\ mark \in [0 .. UsedSize - 1 -> Int]

HistoryOK ==
  /\ origin \in [Index -> Nat \X Nat \X Int]
  /\ seen \subseteq Offset

FlagsOK == again \in BOOLEAN /\ lost \in BOOLEAN

\* The variables hold what the C types and table sizes allow: no counter, index
\* or list ever refers outside its table, whatever the code.
TypeOK == CodeOK /\ MainOK /\ BlockOK /\ LogOK /\ HistoryOK /\ FlagsOK

-----------------------------------------------------------------------------
(* The shape of the graph *)

\* Entries process_block has finished with; 0 is the predecessor of every function.
Logged == 1 .. ilog - 1

Edge(i, j) == j \in Range(log[i].next)

\* The two lists of every edge agree: j is a successor of i exactly when i is a
\* predecessor of j.  next is appended to conditionally, prev unconditionally.
EdgesPaired == \A i, j \in Index : Edge(i, j) <=> i \in Range(log[j].prev)

\* memory_used keeps every offset from being decoded twice for one function, so
\* no two entries stand for the same RTL instruction of the same function.
DecodedOnce == \A i, j \in Logged : origin[i] = origin[j] => i = j

-----------------------------------------------------------------------------
(* The edges against the code *)

\* Where control goes from the machine instruction at a.  A JMP to offset 0 is
\* not told from a return by process_block; here it is a jump.
Flow(a) ==
  LET d == code[a] IN
  CASE d.kind \in {"jmp", "switch"} -> Range(d.to)
    [] d.kind = "jcc"               -> {a + d.len} \cup Range(d.to)
    [] d.kind \in {"ret", "bad"}    -> {}
    [] OTHER                        -> {a + d.len}

\* The first instruction with RTL at or behind an offset.
Land[a \in Nat] ==
  IF a \in Offset /\ code[a].kind = "nop" THEN Land[a + code[a].len] ELSE a

\* Entry j follows entry i in the code: the next RTL instruction of the same
\* machine instruction, or the first one of an instruction control flows to.
Follows(i, j) ==
  LET f == origin[i][1]  a == origin[i][2]  k == origin[i][3] IN
  \/ k < Len(Rtl(code[a])) /\ origin[j] = <<f, a, k + 1>>
  \/ /\ k = Len(Rtl(code[a]))
     /\ \E b \in Flow(a) : origin[j] = <<f, Land[b], 1>>

\* Every edge of the log is a transfer of control of the program, to an entry
\* that exists and belongs to the same function.
EdgesReal ==
  \A i \in Logged : \A j \in Range(log[i].next) :
    (pc = "queue" /\ j = ilog) \/ (j \in Logged /\ Follows(i, j))

\* Once a function is explored every transfer of control out of its code has its
\* edge, unless the slot table was full.
Explored(i) == pc = "done" \/ origin[i][1] < fn
EdgesComplete ==
  lost \/ \A i \in Logged : Explored(i) /\ origin[i][3] = Len(Rtl(code[origin[i][2]]))
            => \A b \in Flow(origin[i][2]) :
                 \E j \in Logged : Edge(i, j) /\ Follows(i, j)
                                   /\ origin[j][2] = Land[b]

-----------------------------------------------------------------------------
(* The exploration implements the worklist *)

\* Control flow as process_block follows it: EIP 0 ends a function.
Succ(a) == IF code[a].kind = "jmp" THEN Range(code[a].to) \ {0} ELSE Flow(a)

\* Offsets found by the instruction being executed and not queued yet.
Ahead ==
  CASE pc = "fetch" -> {eip}
    [] pc = "rtl"   -> Succ(cur)
    [] pc = "queue" -> Range(pend) \cup
                       (IF eip = 0 \/ code[cur].kind \in {"ret", "switch"}
                        THEN {} ELSE {eip})
    [] OTHER        -> {}

Queued == {slots[m].eip : m \in used}

WL == INSTANCE Worklist WITH
        succ     <- [a \in Offset |-> Succ(a)],
        root     <- IF fn = 0 THEN {} ELSE {entries[fn]},
        visited  <- seen,
        frontier <- Queued \cup Ahead,
        alive    <- ~lost /\ pc \notin {"failed", "undefined"}

\* Every step of main and process_block is a step of the worklist or changes
\* nothing in it: a function's decoded offsets are the ones control can reach.
ImplementsWorklist == WL!Spec

-----------------------------------------------------------------------------
(* Tables and termination *)

Ways(a) == CASE code[a].kind = "jcc"    -> 2
             [] code[a].kind = "switch" -> Len(code[a].to)
             [] OTHER                   -> 0

\* The ways out of the branches decoded so far that go into the slot table.
WaysFound == UNION {{a} \X (1 .. Ways(a)) : a \in seen}

\* The slots in use never outnumber the root and the ways out of the branches
\* decoded so far, although the way that is followed at once is queued as well:
\* a table of that size drops nothing.
SlotsSuffice == Cardinality(used) + Len(pend) <= 1 + Cardinality(WaysFound)

\* Exploration ends whatever the branches do, loops included.
Terminates == <>(pc \in {"done", "failed", "undefined"})

=============================================================================
