# libbeauty: verification models

libbeauty decompiles an x86_64 object file.  It is one sequential program,
`test/dis64.c`, that runs a pipeline of passes over global tables.  This
directory holds TLA+ models of those passes, TLC configurations that check
them on small instances, and proofs checked by TLAPS.  Paths of code below are
relative to `src/libbeauty/`.

## 1. The system

| Component | State it keeps | Operations | What makes it correct |
|---|---|---|---|
| Loader (`libbfd/bfl.c`) | sections, symbols, relocations | read-only after start | - |
| Decoder (`llvm/amd64/decode_asm_X86_64.cpp`) | none between calls | one MCInst of LLVM to one low-level instruction | every operand form fills the operands it has, no value is cut |
| Conversion (`convert_ll_inst_to_rtl/dis.c`) | none | one low-level instruction to 0..n RTL instructions | the sequence computes what the instruction means |
| RTL execution (`exe.c`) | registers, stack and data stores of a function | load and store operands, arithmetic | one entry per address, SP, BP and EIP are exact, the tables do not overrun |
| Exploration (`process_block.c`, main 4808-4867) | `entry_point[]`, `memory_used[]`, `inst_log_entry[]`, `inst_log`, EIP | take a slot, decode, execute and log, queue ways out, join decoded code | the log is the control flow graph of the code: no instruction twice, no edge too many or too few, ends, nothing lost |
| Flags (`dis64.c` 3214-3995) | `flag_dependency[]`, entries inserted in the log | find the setter of the flags an instruction reads, put ICMPs into the log, rewrite SBB | the log stays linked, a branch tests what set its flags on every way to it |
| CFG of nodes (`analyse.c`) | `nodes[]`, `inst_log_entry[].node_start/node_end/node_number` | tidy, build nodes, links, members | every instruction in one node, links agree with the log |
| Paths, loops, dominance, node types (`analyse.c`) | `paths[]`, `loops[]`, per-node tables | enumerate paths, cut loops, dominators, if-tails | every path is a path, every node is reached, dominators dominate |
| SSA and PHI (`dis64.c` 717-1760) | `used_register[]` and `phi[]` of the nodes, labels, value ids | register use, PHI placement, PHI sources, labels | a read names the one value that can reach it, a PHI source reaches the end of its predecessor |
| TIP (`dis64.c`, main 5507-5588, 6100-6246) | `tip2` tables of the labels, parameters, locals | collect tips, extend, find pointers, pass parameters | all uses of a label have one size, a call passes what its callee takes |
| AST (`ast.c`) | `ast` tables | fold nodes into containers (call compiled out) | - |
| Outputs | none | .dot, C, LLVM IR | formatting |

The passes interact through the tables only: the exploration calls the
decoder, the conversion and the execution, queues work for itself in
`entry_point[]`, and every later pass reads the log and the nodes.  There are no
threads, no messages and nothing is persisted, so interleavings of processes,
message loss and crash recovery do not occur.  What makes the behaviour hard is
sequencing: branches are explored one after the other through one set of
tables, passes insert instructions into lists that others hold numbers of, and
a result depends on what an earlier branch, path or function left behind and on
the limits of the tables.

`PROJECT.json` lists the components with their status and, under `hazards`,
every place of this kind that was met, with the property that guards it.

## 2. The modules

| Module | Models | Extends / uses |
|---|---|---|
| `Worklist` | abstract: a search that visits all that can be reached from a root | - |
| `Explore`, `ExploreProps` | main's entry-point loop and `process_block`; properties | instance of `Worklist` |
| `Cfg`, `CfgProps` | `tidy_inst_log`, `build_control_flow_nodes`, start nodes, `create_function_node_members` | `Explore`: on the logs the exploration really leaves; instance of `Worklist` |
| `Flags`, `FlagsProps` | `build_flag_dependency_table`, `matcher_sbb`, `fix_flag_dependency_instructions`, `insert_nop_before/after` | `Cfg`: between `TidyLog` and the nodes |
| `FlowGraph` | abstract: walks, back links, natural loops, dominators of a graph | - |
| `Paths`, `PathsProps` | `build_control_flow_paths`, returns and their merging, loops, node paths | any graph of a function; `FlowGraph` |
| `Structure`, `StructProps` | dominators, kinds of links, node types, exits, if-tails | `Paths`: on the tables it leaves |
| `Ssa`, `Tip`, `SsaProps` | the SSA passes; the TIP passes; both against a dataflow | `Paths`, then each the one before; `FlowGraph` |
| `Rtl` | words, register numbers, operands and RTL instructions | - |
| `HelperTable` | the tables `decode_inst_helper` and `helper_reg_table` | `Rtl` |
| `DecodeAsm` | `DecodeInstruction` | `HelperTable` |
| `Convert` | `convert_ll_inst_to_rtl`, `convert_base`, `convert_operand` | `DecodeAsm` |
| `Store` | `search_store`, `add_new_store`, `read_data`, `get_value_...`, `put_value_...` | `Rtl` |
| `Exec` | `execute_instruction` | `Store` |
| `Lift`, `LiftProps` | what `process_block` does with one instruction after another; beside a reference processor | `Convert`, `Exec` |
| `MCExplore`, `MCCfg`, `MCFlags`, `MCPaths`, `MCStruct`, `MCSsa`, `MCLift` | the programs, graphs and instructions TLC runs on | the `...Props` modules |
| `ExploreProofs`, `EdgeProofs`, `TidyProofs`, `CfgProofs` | theorems (section 6), each module with the one before | `ExploreProps`, then `CfgProps` |
| `WorklistProofs`, `StoreProofs`, `FlagsProofs`, `PathsProofs` | theorems (section 6) | `Worklist`, `LiftProps`, `FlagsProps`, `PathsProps` |

The passes form a chain, and so do the modules.  There are three chains and two
cuts between them:

* `Explore` - `Cfg` - `Flags`: the log.  An instruction of the machine is one of nine
  kinds that differ in what they do to EIP and to the slots, and its RTL
  sequence is fixed by its kind.
* `Rtl` - `HelperTable` - `DecodeAsm` - `Convert` / `Store` - `Exec` - `Lift`: the values.  The
  code is arbitrary there: any instruction may come next, any path may end, any waiting
  slot may be taken, so that every order in which `Explore` can run blocks is
  among the behaviours.
* `Paths` - `Structure` and `Paths` - `Ssa` - `Tip`: one function and its graph.  They begin with
  the graphs that `create_function_node_members` leaves (nodes numbered in the
  order of its search, every node reached, no two links of a node to the same
  node, which is what tidying gives), because the graphs worth looking at come
  from programs much longer than those the exploration can be run on.

### Exploration (`Explore`)

| Specification | Code |
|---|---|
| `code`, `entries` | what the decoder reports at an offset of .text; the functions of the object file |
| `used`, `slots` | `entry_point[]`: `used`, and EIP and `previous_instuction` of a slot |
| `n`, `again`, `fn` | the loops of main, `not_finished` |
| `eip`, `prevI`, `ilog` | `memory_reg[2].offset_value`, `inst_log_prev`, `inst_log` |
| `log` | `inst_log_entry[]`: opcode, `prev[]`, `next[]` |
| `mark` | `memory_used[]` |
| `todo`, `pend` | the RTL loop of `process_block`, the loops that queue ways out |
| `StartFunction`, `TakeSlot`, `RepeatPass`, `FinishFunction`, `Return` | main 4808-4867 |
| `Decode`, `Rejoin`, `Execute`, `Queue`, `Advance` | `process_block`, in the order of the code |
| `Refused`, `NoTable`, `OverRan` | its error exits: `print_inst` or `execute_instruction` fails, a jump table is not found or not of code, code past the end |
| `MarkOverrun`, `BadMark`, `LogOverrun` | an index outside of a table: undefined, the model stops |

The operator `Rtl` of `Explore` has the RTL instructions each kind is converted to, as far as their opcodes
matter (a NOP has none, a RET four, the last of which sets EIP to 0).  Operands
and the contents of registers and stores are left out.  `origin`, `seen` and
`lost` are history variables.

### Nodes (`Cfg`)

A pass that treats each entry or node on its own is one action (`TidyLog`,
`MarkNodes`, `BuildNodes`, `LinkNodes`, `IndexLinks`); the walk back to the start
node (`WalkBack`, `Found`) and the search of `create_function_node_members`
(`BeginMembers`, `CollectNode`, `EndMembers`) take one step per entry or
node.  `Compacted` and `Cleared` follow the loops of `tidy_inst_log` including
the element they skip.  `EndMembers` renumbers the links of the global table,
because the `memcpy` of the code copies pointers to the lists and not the
lists.

### Flags (`Flags`)

`Enter` chooses what the entries of the tidied log are and allocates the
tables; one turn of each of the two loops is one action, by what it meets, but
the scan back for the setter takes a step per entry (`StartScan`, `ScanBack`;
`Prior` is `prev[0]`, `left` counts the entries still to look at).  `BeforeOf` and `BehindOf` are the two
insertions on all lists they touch, `entry` is `external_entry_points[].inst_log`,
which an insertion moves only where nothing comes before.  `matcher_sbb` is
`IsSelection`, `IsSum` and `IsMask`.  `flags_result_used`, which
`fix_flag_dependency_instructions` reads before it sets it, is the choice
`unset`; the register it leaves uninitialised for an SBB is a choice from
`Garbage`.  `before`, `made` and `moved` are history variables.

### Paths and loops (`Paths`)

`waiting` is `node_mid_start`, `paths` the path table (a path holds the nodes
behind the branch of the path it goes on from), `path` the number of the next
one, `edges` and `heads` the marks on links and nodes, `loops` the loop table,
`results` what main keeps per function.  `TakeMid`, `Extend`, `CloseLoop` and
`EndPath` are the loop of `build_control_flow_paths`; `MergeReturns` is
`analyse_multi_ret` with `analyse_merge_nodes`, after which the paths are built
again over the old table; `BuildLoops` is `build_control_flow_loops`;
`KeepFunction` stands for the tables of the nodes.  Instructions are abstracted
to the length of a node, and how many instructions two returns have in common
is chosen freely.

### Node types and tails (`Structure`)

`Dominate` is `build_node_dominance`, `ClassifyLinks`
`analyse_control_flow_node_links`, `TypeNodes` `build_node_type`, `CountExits`
`build_control_flow_loops_multi_exit`, and `FindTail` one turn of
`build_node_if_tail`, whose step count goes on over all the branches of a
function.

### SSA and TIP (`Ssa`, `Tip`)

Each pass of main is one `Pass` per function: an operator named after the
function of the code, from what is known of a function (`ssa[f]`: instructions
with their value ids, register use and PHI nodes of the nodes, labels, tips,
parameters) to what is known behind it; main runs a pass over all functions before the
next begins.  `EachNode`, `EachInst`, `EachIn` and `EachPhi` are the loops, which
end at the first error.  `FillPhiDst` goes over the nodes once, as the code does: a node reads
what a PHI added for a later one gives only if it reads the register itself.  Instructions enter with `Enter`, in the form the
executor leaves them: the scope and the cell of an operand are part of it.

### Values (`Rtl`, `HelperTable`, `DecodeAsm`, `Convert`, `Store`, `Exec`, `Lift`)

Words keep their width as `WordBits`, 32-bit halves as `HalfBits`, and operands cut by a
`uint32_t` are cut.  LLVM is external: an `MCInst` is its name, form, operands and length.
`HelperTable` is the whole of `decode_inst_helper.h`, by row numbers: of 5165 rows 930 are not
all zero, in some 210 blocks of rows that are alike; `NewHelper` takes from it the rows of the names that `MCLift` lists, for the constant `Helper`.  A store is the sequence of the valid
entries of a table; an entry has address, `init_value`, `offset_value` and scope.
`Decode`, `Run`, `RunIf` and `Resume` of `Lift` are the body of `process_block` and what
main restores from a slot.  `LiftProps` adds a processor (`cpu`) that executes the
same instructions by the meaning of their mnemonics, and the ghosts `good`, `bad` and `lost`,
which follow the places where the tool is known to be inexact: what they leave
out is named in `Lossy` and `Exact`, each a sentence of comment.

## 3. What each run checks

| Run | Instance | Shows |
|---|---|---|
| `Explore_branches` | all 10,000 programs of five one-byte instructions (straight-line, return, jump, branch; the last a return) and some 1,000 with bad bytes, instructions the executor fails on, overlaps, jump tables (also of no code), code past the end, functions that share code | the log is exactly the control flow graph of the code: no instruction twice, every edge real, none missing; slots suffice; exploration ends; it implements `Worklist`; and with every failure on the way the lists still agree |
| `Cfg_nodes` | seven-byte programs of straight-line code, jumps, branches and returns, with loops, rings and a loop head as first instruction; two functions in one log; jump tables with repeated targets and three `mid_node` slots; overlapping and undecodable code | nodes are the basic blocks of the log, all of it, and linked as it is; each function gets its start node and exactly its nodes, also when the slots run out; the numbering of the nodes implements `Worklist`; the passes end; each but for the logs its property names |
| `Flags_links` | seven-byte programs with up to three branches, of which two or three read one comparison, across joins and in loops; the four-instruction patterns of an SBB; a jump table back to the first instruction | the log tidied is linked, its lists agree behind all insertions, no function loses its beginning, and a branch tests an ICMP of what set its flags on every way to it |
| `Paths_returns` | every four-node graph with two or more returns of one to three instructions; a graph with three | the path table is complete, merged graphs keep their ways and their lists agree, the passes end |
| `Paths_limits` | every four-node graph, one entry in `node_mid_start`, 4 paths, 2 loops | ways are lost, none is made up, no table overruns, main gives up only on full tables |
| `Struct_all` | every four-node graph with at most one return, every five-node one without loops, with a jump table; pairs of three-node functions, the first with more loops; five steps for the tails | paths, loop edges, loops, dominators, exits and tails are those of the graph, nothing of the first function gets into the second, main gives up only when the steps are used up |
| `Lift_wide` | all sequences of three of 82 machine instructions: every form of the decoder and every opcode of converter and executor; one slot | what registers and cells hold is what the processor holds wherever no inexact step went in; entries stay unique, the tables bounded, every value has a scope |
| `Lift_frame` | five of the ten instructions that build, use and take down a frame, with branches; two slots | SP, BP and EIP are right on the path that goes on and on the paths taken from slots |
| `Lift_cmov` (violation) | `Lift_wide`, two instructions | finding 1 |
| `Ssa_values` | all graphs of three nodes, those of four with a return, a jump table, without a loop at the start, with all combinations of short bodies; two functions, of which the first calls the second and the second may call itself | every read names the value that reaches it, PHI sources reach the end of their predecessor, the uses of a label have one size, extensions and what they rename included, calls pass the callee's parameters |
| `Ssa_joins` (violation) | one graph with a branch in a branch | finding 2 |
| `Ssa_params` (violation) | a branch over one node | finding 3 |

Every property of a passing run has a mutant in `PROJECT.json`: a plausible
slip in the mapped code with which the same run finds the property violated.
The mutated forms stand in front of the definitions they replace, with a comment
that begins "As".  `CHECK_DEADLOCK FALSE` stands in the configurations of `Lift`
only, where the program stops at `exit(1)` and at the bound on instructions.

### Bounds

The sizes of the tables are constants and appear in the guards, as they do in the
code or, where it has no check, in the actions that end "undefined".

* Five or six instructions hold a loop with an exit, two branches that join,
  nested and overlapping loops, a jump into a loop and a slot that is queued
  twice; programs are enumerated, not sampled.  The tables are large enough for
  all of them (`SlotsSuffice` says why) but for those programs that are to fill
  the log.
* `LogSize` and the number of returns of `Cfg_nodes` bound the logs; a
  longer log has more nodes of the same kinds.
* `BackLimit` of `Flags` is 6 instead of the 15 entries the code goes back (it
  counts 30 down twice a turn): programs of seven bytes have ways longer than 6
  and none longer than 15.
* Four nodes hold two nested loops, loops that share a head, irreducible loops
  and both ways to merge returns; five are needed for a branch in a branch.
  All graphs of that size are run.  The path table of 30 is larger than any
  of them needs; `Paths_limits` makes the tables smaller than needed.
* Words of 8 bits with halves of 4: addresses, wrap-around, sign and the cut to
  the half are all met, since constants on both sides of each border are among
  the operands.  Compared with the processor are the forms of 64 bits and, on registers, those
  of 32 bits: MOV, ADD, SUB, IMUL, SHL, SAR, XOR, INC, DEC, LEA and MUL.  No instruction
  that writes 8 or 16 bits of a register is among them but SETE, which never writes, and none
  that accesses fewer than 64 bits of memory.  Three instructions are one that makes a value, one that changes it
  and one that uses it; a frame needs five.
* Bodies of one or two instructions in three and four nodes: a register is written on one
  side of a branch, on both, in a loop, behind a join.

### Preconditions inside properties

* `EdgesComplete` is silent once a way out found no slot (`lost`).
* The properties of `Cfg` name the logs they leave out as conditions that hold all along,
  each about the log a pass finds: `SparseLists` (three equal neighbours in a list, of
  which tidying leaves a 0; finding 5), `NoRings` (a function that is one endless ring, in
  which `find_node_from_inst` does not end) and `HeadsLead` (a function that begins in
  straight-line code jumped back to).  Such programs are among the inputs of `Cfg_nodes`.
* `LinksPaired` leaves out entries whose predecessors the SBB selection left
  behind (`moved`): the ADD goes on naming the AND.
* `BranchesTestTheirSetter` leaves out programs with a function that begins with
  the head of a loop (finding 6), and branches whose flags have more than one setter.
* `LoopsNatural` and the exits speak of reducible graphs: a loop with two ways
  in has no head that dominates it, and the code takes the node it met first.
  `ExitsLeave` asks that loops be apart, because what an exit is between nested
  loops is ambiguous in the code.  `TailsRight` asks for loopless functions, or
  that every node reach an end: in loops with breaks the code may take the loop
  head as tail.
* `RegistersExact` and `CellsExact` speak of what is `good`, and of cells while no
  store went astray (`~lost`).  A result of 32 bits is good when it has no high half,
  which the tool does not cut, and behind a MUL neither DX nor the register of the operand is
  (finding 9); `ScopesKnown` leaves out ADC, which always
  exits, and operands of size 0.
* `ReadsRight` leaves out the operand of a JMPT, which gets no id; `PhiSourcesReach` asks
  that every node reach an end, and of a source that no node gives only that the caller's value
  does get there (the id is finding 3); `SizesAgree` leaves out labels that are returned in
  another size than that of their first use, where the search for uses ends, and does not look
  behind an instruction `build_tip_table` does not know, such as a call.

Each run has many states that meet them: the mutants need them.

## 4. Fairness and liveness

The program is one thread that goes on until it is done, so the specifications
have weak fairness on their step (`WF_vars(Step)`, `WF_allvars(Work)`) and nothing
else: no action is favoured over another, and where the model chooses (a program, how
alike two returns are) the choice is an input.  `Terminates`, `CfgTerminates`,
`PathsTerminate` and `StructTerminates` say that each stage comes to an end.  They
are not obvious: slots are requeued, paths run through loops until
`path_loop_check` stops them, and `find_node_from_inst` does not end in a function that is
one endless ring, which `CfgTerminates` excludes by `NoRings`.  `FlagsSpec` and `CheckedSpec` have no fairness: only their safety is
checked; their loops are bounded by counters.

## 5. Abstract specifications

* `Worklist` says what finding all of a graph means, without tables.  Two
  components are shown to implement it: the exploration over the offsets of a
  function (`ImplementsWorklist`; visited is what was decoded, the frontier is the
  slots and what the current instruction leads to) and
  `create_function_node_members` over the nodes (`MembersImplementWorklist`).
* `FlowGraph` defines walks, loops and dominators on the links alone, and the
  properties of `Paths` and `Structure` compare the tables with it.
* The processor in `LiftProps` executes the machine instructions; decoder,
  converter and executor together are compared with it.
* `Reaching` in `SsaProps` is the textbook dataflow over the links of the nodes,
  without paths and without tables; the value ids and PHI sources are compared with it.

## 6. What is proved

For every value of the constants that meets their assumptions
(`SizesAssumption` and `ProgramsAssumption`: sizes are positive, a jump and a branch
have one target; `PathsAssumption`: a graph has a first node and no two links from one node
to another; `InstsAssumption`: besides types, that a MOVS names two registers; the others
give types):

* `ExploreProofs!TypeCorrect`: `Spec => []TypeOK`.  `TypeOK` is not inductive:
  that there is a next RTL instruction, that the log entry being executed is in
  the table and that the slot freed is one are facts about the control point
  (`PcOK`).
* `ExploreProofs!Paired`: `Spec => []EdgesPaired`, inductive with the types.  The
  lemma `LinkPaired` covers both places that link entries; the delicate one is
  `Rejoin`, which appends to `prev` always and to `next` only when the last
  successor differs.
* `ExploreProofs!Once`: `Spec => []DecodedOnce`.  `OnceInv` adds what makes it
  inductive: whatever was decoded for the function is marked (`SeenMarked`, kept
  although an overlapping instruction overwrites marks), whatever is logged was
  decoded (`LoggedSeen`), and of the current instruction nothing is logged beyond
  the position of the RTL loop (`LoggedUpTo`, `AtPosition`).
* `WorklistProofs!WorklistExact`: once nothing is left, a worklist has visited
  the least closed set that contains the root.
* `ExploreProofs!Implements`: `Spec /\ []TablesFound => ImplementsWorklist`, by a step
  simulation from `ReachInv` (which slots are in use where, that the offset of
  a slot is decoded before it is freed, that a mark used as an index stands on
  decoded code, what is left of the RTL of the instruction).  `TablesFound` says that
  the ADD found for an indirect jump, if one is, carries the table of that jump.  It is
  needed: the search takes the last ADD logged, which may belong to another
  path or to another table, so that the targets queued need not be those of the code.
* `ExploreProofs!Reachable`: from the two, the offsets decoded for a function are
  exactly those control can reach from its entry, unless a slot was lost.
* `ExploreProofs!SlotsBounded`: `Spec /\ []TablesFound => []SlotsSuffice`.  `SlotsInv` counts
  what the instruction being executed is going to queue (`Due`) with the slots in use;
  an offset is decoded once, so its ways out are new when it is decoded.
* `EdgeProofs!Edges`: `Spec /\ []TablesFound /\ []NopsFirst => []EdgesReal`.  The
  argument follows the three carriers of an edge.  `WayInv`: every slot in use, and
  `inst_log_prev` with EIP, hold a way out of a finished instruction and its offset, or
  the beginning of the function.  `MarksInv`: the mark of a decoded offset is the entry
  of the first RTL instruction at or behind it, or the next entry while that
  instruction is about to be logged.  `EdgeInv`: the edges made so far are real.
  `Land`, the first instruction with RTL behind an offset, is a recursive function; that
  its equation has a solution (`LandIs`) is an induction over the offsets, made from
  `Least` (every set of numbers has a least one).  `NopsFirst` (no NOP is decoded in front
  of decoded code) is needed: the mark of a NOP is the number of whatever is
  logged next, and if control turns into decoded code behind the NOP that is
  an entry of another path.
* `EdgeProofs!Complete`: `Spec /\ NoJumpToZero /\ []TablesFound /\ []NopsFirst =>
  []EdgesComplete`.  `CompleteInv` accounts for every way out of every entry at every
  moment: it has its edge, or it waits in a slot, or it is the one being followed.
  A jump to offset 0 is taken for a return and has no edge.
* `EdgeProofs!LogIsGraph`: the same conclusions, and `SlotsSuffice` and the worklist, from
  conditions on the code alone: no indirect jumps, no jump to offset 0, and `NopsLead`: what
  follows a NOP is reached through the NOP only, where the NOP is reached at all.
  `AroundInv` shows that `NopsLead` implies `NopsFirst`: until the NOP is decoded nothing is
  found but what control reaches around it.
* `TidyProofs!ListsTidied`: `CfgSpec /\ []TablesFound /\ []NopsFirst /\ []SparseLists =>
  [](Tidy => ListsTidy)`.  `TreeInv` says what the exploration leaves: every entry was logged
  behind an older one of its function, but the first, and a 0 stands only at the head of a
  `prev` list.  `SparseLists` says that no list makes the loop of `tidy_inst_log` skip an
  element (finding 5; a jump table that names one place three times does).  Under it
  `CompactedTurns` counts what is gone after each turn of the loop, so that what is left is
  what was not cleared (`TidiedIs`).
* `CfgProofs!NodesAreBlocks`: `CfgSpec /\ []TablesFound /\ []NopsFirst => NodesPartitionLog`.
  `[]SparseLists` and `[]NoRings` are conditions of the property itself.  `NoRings` says that no function is one endless ring of straight-line code; the node
  construction would not end in it.  `BlocksInv` has of the marks what a scan over single
  entries gives: between neighbours inside a block no mark stands, and following such
  neighbours ends, forwards and backwards (`NoLoops`, where `NoRings` is used).  From that
  the recursive `Chain` is a block (`ChainIs`, `ChainsMade`), blocks that share an entry are
  one (`OneBody`), and their numbers are those of their first entries (`RanksIs`).
* `CfgProofs!StartsRight`: `CfgSpec /\ []TablesFound /\ []NopsFirst /\ []SparseLists =>
  StartRight`, which has the condition `[]HeadsLead`.  The walk back ends in the
  node of the function's first entry always (`StartInv`); that the node begins there needs
  that the first entry, where it has one predecessor, is led to by one that also leads
  elsewhere (`HeadsLead`; finding 5 is what happens otherwise).  `HeadsLead` implies
  `NoRings` (`HeadsNoRings`).
* `CfgProofs!LinksFollow`, `CfgProofs!Partition`, `CfgProofs!MembersImplement`: from the same
  hypotheses, `LinksFollowLog`, which has the conditions of `NodesPartitionLog`; with `[]NoRings`
  besides, `FunctionsPartition`; and with `[]SparseLists` and `[]NoRings`,
  `MembersImplementWorklist`.  `LinkNodes` and `IndexLinks` are followed node by node
  (`Leads`, `Indexed`).  `CollectInv` says of the search for the nodes of a function that the
  numbers given are 1, 2, ... without gap or repetition, that everything numbered or waiting is
  of the function, and that a numbered node leads to numbered and waiting ones only;
  `PlacedIs` is what queuing does: a node waits afterwards if it did or is among those queued,
  whichever slots were free.  A node may wait in several slots and get its number from the
  first of them, so a turn may take a node that has one and leave it waiting: the abstract
  step is then a stutter or `Drop` (`SimulateCollect`).  When nothing waits, all nodes of the
  function have numbers (`AllNumbered`: the least entry whose node has none would have been
  logged behind an older one).  `TablesInv` joins the finished functions: `EndMembers`
  renumbers lists in place, and the entry behind each number is still the node the log
  names (`Renames`, `EndStep`), because no link leaves a function.
* `CfgProofs!CfgTypeCorrect`: `HasCode => (CfgSpec /\ ... => []CfgTypeOK)`, with the hypotheses of
  `MembersImplement` and `HasCode`, that every object file has a function (without one there is
  no first entry to look for a start node from).  Most of it follows from the
  invariant of the passes above; `TypesInv` adds what that does not say: the fields of a
  node, that the slots and numbers are blank until the table is made, and that the number given
  in the turn in which main gives up still fits.
* `StoreProofs!Unambiguous`: `CheckedSpec => []EntriesUnique`.  The values may
  be anything, so entries, tables and states are told by their shape
  (`IsEntry`, `IsTable`, `IsState`) and not by a set.  Inductive with it is that
  every table is a sequence of entries with distinct addresses and that the
  registers have an entry for EIP, which a jump looks up before it writes.  The
  lemmas follow the code: search, append, update, the operands read and
  written, each instruction, the step that advances EIP, and the restore of a
  slot, which keeps every address.
* `StoreProofs!StoresStayBounded`: `CheckedSpec => []StoresBounded`.  This one needs what the code
  of a machine instruction looks like, so decoder and converter are followed form by form and
  opcode by opcode: what is executed of it loads or stores one cell or only names registers
  and constants (`Formed`), memory is accessed in two places at most, and the stack in one or as a
  read and a write of one cell through TMP1 (`Shaped`, `PairAt`).  The invariant `Counted` has
  beside `IsState` and an entry for the stack pointer that the stores are bounded and that what is
  left to execute finds room (`Roomy`): between the read and the write of a pair the cell is
  already there, or TMP1, which the cell is named by, is still as it was (`Half`).  An IF drops
  what is behind it (finding 1), and `ReachedAt` counts only what is before.
* `StoreProofs!NoScopeMissing`: `CheckedSpec /\ []LiftTypeOK => []ScopesKnown`.  `Scoped` is `Counted`
  and that every entry has a scope, but for the register a MOVS reads through while it is
  under way, which its ADD gives one (`ScopeRoom`), and that the register of any other LOAD
  is there or is written before it (`Armed`).  Of the types the proof uses that EIP is kept in the
  third entry and is not 0 inside a machine instruction: at 0 a path would end, and a MOVS be
  cut off in its middle.  Where EIP goes is a question of values, which the proof does not look
  at; `LiftTypeOK` is checked by `Lift_wide`.
* `FlagsProofs!LinksKept`: `FlagsSpec /\ [](At("mark") => LogLinked) =>
  [](ilog <= LogSize => LinksPaired)`, for every log and all instructions in it.
  Assumed is that the log `TidyLog` leaves is linked, which `Flags_links` checks
  (the first part of `LinksPaired`) and which `ListsTidied` proves of the logs of `CfgSpec`;
  and the log must have room, which the code checks nowhere.  `FlagsInv`
  adds to the property that every list, table and entry point names an entry of the
  log, and that the ADD left behind by an SBB's selection is no SUB and has a
  predecessor (`MovedOK`): no entry is put in front of it, and no function begins there.
  The lemmas `BeforeLinks` and `BehindLinks` are the two insertions, `SelectionLinks` is
  the selection, which changes five lists at once.
* `PathsProofs!TableSound`: `Spec => []PathsSound`, for every graph and all sizes of the
  tables.  A row holds only the nodes behind the branch of the row it goes on from, so what
  a row means depends on other rows.  `Building` says therefore: of every row (`Rows`) that
  the one it branches from is older and long enough; of every row and every waiting entry
  that the way it stands for follows the links from the first node and meets no node
  twice but at its end (`Listed`, `Ready`); in the first build, that no two of them are one way
  or the beginning of the other (`Once`, `Apart`); that merging makes no new loop and heads
  lie on links back of the old graph (`NoNewLoop`, `HeadsBack`).  `TracesAre` shows that the
  recursive `Trace` is the way meant, `SimpleAre`, `ReturningIs` and `LoopingIs` that the
  sets of `FlowGraph`, defined length by length, are all such walks.  Once finished, rows
  that are different ways are no more than there are ways, which is why main's test
  for a full table is one for a function with too many (`TooSmall`).
* `PathsProofs!TableComplete`: `Spec /\ []RoomLeft => [](~again => PathsComplete)`.
  `RoomLeft` says that `node_mid_start` always has a free entry; `Extend` drops the ways out of
  a branch that find none.  It holds throughout `Paths_returns` and
  `Struct_all`; `Paths_limits` has ways lost without it.  `WholeInv` has in addition
  that every way of the graph begins with what a row or a waiting entry stands for (`Covers`),
  and that finished rows are marked as what they are (`Marks`).  When nothing waits and no row
  is under construction every way is a row; `Apart` makes it one row.
* `PathsProofs!TableAgain`: when two returns are merged the table is built again over the old
  rows.  What the rows of this build stand for are ways of the merged graph, and with
  `[]RoomLeft` all of them.
* `PathsProofs!EdgesExact`: what is marked a loop edge is the last link of a walk that comes
  back, and its head is where that link leads; with `[]RoomLeft` all those links are marked
  when the loops are built (what `LoopsNatural` says of `edges` and `heads`, for graphs of any
  shape).  `EdgesInv` has of every finished row that closes a loop that its link is marked;
  `WaysSame` carries the ways of the finished rows over to the longer table.
* `PathsProofs!MergeKeeps`: `Regular => (Spec => []MergeKeepsWays)`.  `Regular` is what the
  pass takes for granted of the graphs `create_function_node_members` leaves: every node is
  reached, and the lists of predecessors name every link once.  (Without it the links
  `analyse_merge_nodes` redirects, those b's own list names, need not be those that lead to
  b.  All graphs of the runs of `Paths` are so; `LinksFollow` and `Partition` say the like of the
  functions of `Cfg`.)  The property is about the merge once it is done; `KeptInv` carries it through
  the second build, whose first state it is proved for: `Merges` and `GoesOn` say what the
  two kinds of merge do to the links and lists, `MergedReach` and `LongerReach` that everything is
  still reached (`ReachIs`: `Reach`, defined step by step, is what walks lead to; a walk meets b at
  its end only, as b has no links), and `MergedInto` and `LongerInto` what the links to each
  node are, so that a's list, the two appended, has their number.  That the two
  returns are different nodes (`ReturnsDiffer`) comes from the order they are collected in.
* `PathsProofs!LoopsAreNatural`: `Connects => (Spec /\ []RoomLeft => [](~again => LoopsNatural))`,
  where `Connects` is the part of `Regular` that says that every node is reached.  By
  `TableComplete` the rows are all the walks that close a loop, so the body of a loop is what those
  walks pass between its head and the link back (`LoopTableIs`, `BodyIs`; `InOrderOnto`: every head
  has its place in the table).  Where every loop has one way in, a node passed there gets to a
  link back without the head (`LoopNodesIn`).  The other way round, a walk to a node of the natural
  loop that meets no node twice has the head on it, and goes on to a link back; if it met
  a node again on the way it would either get round the head, which dominates the link, or make a
  round inside the loop, which has a head of its own (`WayRound`): the loop would have
  another inside (`LoopNodesAll`).  `Splice`, `Slice` and `OnceFrom` join walks, cut them and take
  their rounds out, and with them `Reach` is what walks of any length lead to (`ReachAny`).
* `PathsProofs!PathsTyped`: `Spec => [](OfThisBuild => PathsTypeOK)`.  `OfThisBuild` leaves out only
  the time from the loops of a second build to the next function.  `TypesInv` needs the way a row
  stands for (`PathsIInv`): that no step is behind the last node a row can have holds because a path
  that is still followed meets no node twice (`WalksShort`), and that the body of a loop is made
  of nodes because its rows were all filled in order (`BodyIn`, `MaxIs`).  The merged graphs keep
  every link a loop edge is (`UnifiedTyped`, `ShortenedTyped`).

Only model-checked:

* Liveness, which is out of the prover's reach.
* `ImplementsWorklist` with jump tables that are not found.
* `PathsTypeOK` once the loops are made of a second build.  They are made of all rows of the
  table, those of the first build too that the second did not fill again; that it fills
  all of them needs that both builds go the same ways in the same order.
* `LoopsNatural` after two returns have been merged: the table then has rows of the first build,
  and marks of it.
* Everything of `Structure`: that the paths on a node meet all nodes a dominator cuts off is more
  graph theory still, and the passes after it read what the earlier ones left.
* `Ssa`, `Tip` and the values of `Lift` (`LiftTypeOK`, `RegistersExact`, `CellsExact`, `BasesExact`,
  where words are taken modulo a power of two and bit by bit): recursive functions and folds
  over instructions compute by induction over data, for which the library's induction
  theorems cannot be cited.
  Where a recursive function is proved about here, as `Land`, `Compacted`, `Chain` and
  `Trace`, the induction is made by hand from the least counterexample.
* `BranchesTestTheirSetter`, and that the log is linked before the passes of `Flags`.
* Of the invariants, `PathsIInv` and `WholeInv` speak of all sequences of nodes, `Counted` and
  `Scoped` of all positions and registers, and cannot be evaluated by TLC; the runs check what
  they imply.

## 7. Findings

With a run:

1. `Lift_cmov`: `process_block` leaves the RTL loop at any IF, so the MOV behind the IF of
   a CMOV is executed and logged on neither path; so are the bodies of SETCC
   and REP MOVS (`process_block.c:362`).
2. `Ssa_joins`: two paths through one predecessor of a PHI may come from different
   definitions when that predecessor is a join without a PHI; the code prints FAILED
   and keeps the last, where the design document has them verified (`dis64.c:1361`).
3. `Ssa_params`: where a PHI's source is the value the caller left, its id stays 0, also
   if the function has a parameter for that register (`dis64.c:1418` asks what to do);
   the comment at `dis64.c:5477` has the parameter's id entered.

Seen while modelling and kept in the model, each either excluded by a precondition
of section 3 or visible in an action:

4. EIP 0 is the return address of the caller and also the first offset of .text,
   so a jump back to offset 0 ends the function (`process_block.c:353`).  The mark of a
   NOP is the number of whatever is logged next (137).  The search for a jump
   table looks at the last three log entries whatever path they are of (52).
5. `tidy_inst_log` clears duplicates with 0, which is also the predecessor of a
   function's first instruction: if that is the head of a loop closed by a jump,
   the function is taken to begin in the loop (`analyse.c:79`), and in a function
   that is one loop `find_node_from_inst` does not end (118).  Of three equal
   neighbours in a list it leaves a 0 (60).
6. For the same reason a copy put in front of the first instruction of such a
   function does not become its entry point (`dis64.c:3911-3925`), and with a
   jump table that leads there twice the 0 stays and the program exits.
7. A link from one loop straight to the head of the next is no exit, and the
   branch then gets no type, which ends main (`analyse.c:1351`).  The nodes of an
   inner while loop are not all added to the outer one (237); the nesting of loops is
   taken from the path a path goes on from (307), so a loop can be nested in itself;
   the dominator of a node that is on looping paths only is its first predecessor (514).
8. Flags: a setter not found ends the table and main takes no notice; an SBB that
   changes the setter of a branch stops the pass for all the rest (3669); the selection of an
   SBB reads an uninitialised register and compares with LESS where the flag is
   BELOW; SBB of a register with itself turns any setter into an ICMP, losing its
   result; the flag register of a branch is one off from its name, so that the
   BELOW of an SBB collides with that of another predicate.
   `can_replace_inst` of docs/design-points/sbb-instruction-handling.txt does not exist.
9. Values: a second source is read without its offset; LEA with an index and a
   negative displacement subtracts both; MUL of 32 bits (`MUL32r`) puts the high half of the product
   into the register of its operand and never writes EDX (`dis.c:1529-1572`), which
   decode_inst_helper.h:111 calls "MUL with EDX,EAX desinations"; what a 32-bit instruction
   carries or borrows out of its half stays in the register, where the processor clears it; PUSH and POP of SP, NOT, SAR of a
   negative value and XOR of a register with itself behind an addition are wrong;
   immediates are cut to 32 bits; `read_data` reads 32 bits for every size
   and one byte beyond the section; only SP, BP and EIP are restored from a slot.
   REP MOVS tests condition 4, NOT_BELOW, where its comment says JZ, which is 5
   (convert_ll_inst_to_rtl/dis.c:1289; the executor looks at no condition).  The table takes CDQ for
   an extension of AX in place (decode_inst_helper.h:609), and the executor ends
   main on every SEX, whose case it has but whose size it does not check.
10. SSA: in a function that begins with a loop of single predecessors
   `search_back_for_join` does not end (`dis64.c:1025`); a node that begins with a CALL ends
   `build_tip_table`; a parameter set in an earlier node than its call ends main (4517);
   an extension put in front of a node's first instruction is in no node.

## 8. What is not modelled

* Decoders: LLVM is external; of `decode_asm_X86_64.cpp` the construction, the
  printing are left out.  Of the rows of `decode_inst_helper.h` the runs decode the 50 that
  `MCLift` names.  `amd64/dis.c` and `ia32` are not called by the program.
* `MergeTails`, where two returns share only a tail, ends "undefined": the code
  adds a node in memory from `realloc` that it does not clear, and what
  follows depends on what was there.
* Value types, ids and log references inside the executor, relocations of operands and the
  sections other than .data; the labels of main are modelled in `Ssa` and `Tip` from what the executor leaves.
* Functions that begin with a loop in `Ssa`: the code does not end for some of them.
* The order of symbols, and functions without code, in the external entry points.
* Outputs are formatting: they read the tables and change none.  `cfg_to_ast` is
  compiled out.  The loader wraps libbfd.  The register table generator, the test
  programs and `src/dis` are not part of the program.

## 9. Plan

Done, in this order: `Explore`, `Cfg`, `Paths` and `Structure` with `Worklist` and `FlowGraph`;
the values (`Rtl` to `Lift`); `Ssa` and `Tip`; `Flags`; the theorems of section 6.  Left:

1. Theorems: that a second build fills the rows of the first; the dominators found from the paths (`Structure`);
   a number of entries of `node_mid_start` that is enough for a graph.
2. A run that feeds the graphs `Cfg` leaves into `Paths`, and the logs of `Flags` into
   the nodes of `Cfg`, to close the cut of section 2.
3. Value ids and scopes of the executor composed with `Ssa`, whose operands carry
   them as an input now.
