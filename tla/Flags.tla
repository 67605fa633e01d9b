------------------------------- MODULE Flags -------------------------------
(***************************************************************************)
(* The flags (test/dis64.c, build_flag_dependency_table, matcher_sbb and   *)
(* fix_flag_dependency_instructions): every instruction that reads the     *)
(* flags gets the one that sets them.  A comparison becomes an ICMP with   *)
(* the flag in a register of its own, an IF the BC of that register, and   *)
(* an SBB a branch or a sign extension.                                    *)
(*                                                                         *)
(* main does this between tidy_inst_log and build_control_flow_nodes, on   *)
(* the log the exploration left.  The instructions in the log matter here  *)
(* first and are chosen here; there is room for those inserted.            *)
(***************************************************************************)
EXTENDS Cfg

CONSTANTS
  InstsOf(_),  \* the instructions the entries of a log may be
  BackLimit,   \* entries the scan for the flags goes back
  Garbage      \* what reg of fix_flag_dependency_instructions may hold

ASSUME FlagsAssumption == BackLimit \in Nat \ {0} /\ Garbage \subseteq Nat /\ Garbage # {}

VARIABLES
  inst,      \* the instructions of the log
  entry,     \* external_entry_points[].inst_log
  item,      \* n of the two passes
  size,      \* inst_max and max_log, where they end
  dep,       \* flag_dependency
  depOp,     \* flag_dependency_opcode
  users,     \* flag_result_users
  scanAt,    \* inst_log1_flags of build_flag_dependency_table, on its scan back
  left,      \* tmp: how many entries the scan still looks at
  unset,     \* flags_result_used of fix_flag_dependency_instructions, never set before it is read
  before,    \* history: the log, its instructions and the entry points before the two passes
  made,      \* history: the instruction whose flags an ICMP computes
  moved      \* history: entries whose list of predecessors an SBB left behind

exploreVars == <<program, fn, pc, used, slots, n, again, eip, cur, todo, pend, prevI, mark, history>>
nodeVars == <<starts, ends, member, nodes, fi, at, startNode, mid, number, members>>
tables == <<dep, depOp, users>>
scan == <<scanAt, left>>
flagVars == <<inst, entry, item, size, tables, scan, unset, before, made, moved>>
everything == <<allvars, flagVars>>

\* REG_ and predicate numbers (include/opcodes.h).
OVERFLOW == 160
BELOW == 162
LESS == 172
TMP1 == 352
EqualOrNot == {5, 6}

\* flags: whether the instruction sets them.  An IF has its predicate in a; reg: is d a
\* register.
Instr(op, flags, a, b, d, reg) == [op |-> op, flags |-> flags, a |-> a, b |-> b, d |-> d, reg |-> reg]
Blank == Instr("NOP", 0, 0, 0, 0, FALSE)

FlagsInit ==
  /\ CfgInit
  /\ inst = <<>> /\ entry = <<>> /\ item = 0 /\ size = 0 /\ dep = <<>> /\ depOp = <<>> /\ users = <<>>
  /\ scanAt = 0 /\ left = 0 /\ unset = FALSE /\ before = <<>> /\ made = <<>> /\ moved = {}

Enter ==
  /\ At("mark")
  /\ \E chosen \in InstsOf(log) : inst' = [i \in Index |-> IF i \in Insts THEN chosen[i] ELSE Blank]
  /\ entry' = [f \in DOMAIN entries |-> FirstInst(f)]
  /\ item' = 1 /\ size' = ilog /\ stage' = "table" /\ unset' \in BOOLEAN
  /\ dep' = [i \in Index |-> 0] /\ depOp' = [i \in Index |-> "NOP"] /\ users' = [i \in Index |-> 0]
  /\ before' = [log |-> log, inst |-> inst', entry |-> entry'] /\ made' = [i \in Index |-> 0]
  /\ UNCHANGED <<exploreVars, ilog, log, nodeVars, scan, moved>>

-----------------------------------------------------------------------------
(* insert_nop_before, insert_nop_after, substitute_inst *)

Put(s, x, y) == [m \in DOMAIN s |-> IF s[m] = x THEN y ELSE s[m]]

\* As BeforeOf, but only the first predecessor is led to the new entry.
BeforeOfFirst(i) ==
  [j \in Index |->
     IF j = ilog THEN [log[j] EXCEPT !.prev = log[i].prev, !.next = <<i>>]
     ELSE [log[j] EXCEPT !.next = IF log[i].prev # <<>> /\ j = log[i].prev[1] THEN Put(@, i, ilog) ELSE @,
                         !.prev = IF j = i THEN <<ilog>> ELSE @]]

\* The log with a new entry in front of entry i, and with one behind it.  A setter of
\* flags has no two successors.
BeforeOf(i) ==
  [j \in Index |->
     IF j = ilog THEN [log[j] EXCEPT !.prev = log[i].prev, !.next = <<i>>]
     ELSE [log[j] EXCEPT !.next = IF j \in Range(log[i].prev) THEN Put(@, i, ilog) ELSE @,
                         !.prev = IF j = i THEN <<ilog>> ELSE @]]
BehindOf(i) ==
  [j \in Index |->
     IF j = ilog THEN [log[j] EXCEPT !.prev = <<i>>, !.next = log[i].next]
     ELSE [log[j] EXCEPT !.prev = IF j \in Range(log[i].next) THEN Put(@, i, ilog) ELSE @,
                         !.next = IF j = i THEN <<ilog>> ELSE @]]

\* insert_nop_before exits where a predecessor is the beginning of a function.  Of the
\* first instruction of a loop tidy_inst_log leaves that 0 only with a jump table.
Immovable(i) == 0 \in Range(log[i].prev)
InsertBefore(i) ==
  /\ log' = BeforeOf(i) /\ ilog' = ilog + 1
  /\ entry' = IF log[i].prev = <<>> THEN Put(entry, i, ilog) ELSE entry
InsertAfter(i) == log' = BehindOf(i) /\ ilog' = ilog + 1 /\ UNCHANGED entry
KeepLog == UNCHANGED <<log, ilog, entry>>

-----------------------------------------------------------------------------
(* build_flag_dependency_table *)

\* As Prior, but the entry logged before.
PriorLogged == scanAt - 1

\* The entry the scan looks at next: the first predecessor; 0 is none.
Prior == IF log[scanAt].prev = <<>> THEN 0 ELSE log[scanAt].prev[1]

Building == stage = "table" /\ item < size
ReadsFlags(e) == e.op \in {"RCR", "RCL", "ADC", "SBB", "IF"}
Turn == item' = item + 1 /\ UNCHANGED stage
Halt(st) == stage' = st /\ UNCHANGED item
Rest == UNCHANGED <<exploreVars, nodeVars, size, scan, unset, before>>

DependOn(i, op) ==
  dep' = [dep EXCEPT ![item] = i] /\ depOp' = [depOp EXCEPT ![item] = op] /\ users' = [users EXCEPT ![i] = @ + 1]

NoFlagsRead ==
  /\ Building /\ ~ReadsFlags(inst[item])
  /\ Turn /\ KeepLog /\ UNCHANGED <<inst, tables, made, moved>> /\ Rest

StartScan ==
  /\ Building /\ ReadsFlags(inst[item])
  /\ scanAt' = item /\ left' = BackLimit
  /\ Halt("scan") /\ KeepLog
  /\ UNCHANGED <<exploreVars, nodeVars, inst, size, tables, unset, before, made, moved>>

SetsFlags(i) == i # 0 /\ inst[i].flags = 1
ScanBack ==
  /\ stage = "scan" /\ Prior # 0 /\ ~SetsFlags(Prior) /\ left > 1
  /\ scanAt' = Prior /\ left' = left - 1
  /\ UNCHANGED <<stage, item>> /\ KeepLog
  /\ UNCHANGED <<exploreVars, nodeVars, inst, size, tables, unset, before, made, moved>>

FoundSetter == stage = "scan" /\ SetsFlags(Prior)
NextReader == stage' = "table" /\ item' = item + 1

\* The first reader gets the setter itself.
FirstReader ==
  /\ FoundSetter /\ users[Prior] = 0
  /\ DependOn(Prior, inst[Prior].op)
  /\ NextReader /\ KeepLog /\ UNCHANGED <<inst, made, moved>> /\ Rest

\* Another one gets a copy in front of the setter, if that is a mere comparison.
AnotherReader ==
  /\ FoundSetter /\ users[Prior] > 0
  /\ inst[Prior].op \in {"CMP", "TEST"} /\ ~Immovable(Prior)
  /\ InsertBefore(Prior)
  /\ inst' = [inst EXCEPT ![ilog] = inst[Prior]]
  /\ made' = [made EXCEPT ![ilog] = Prior]
  /\ DependOn(ilog, inst[Prior].op)
  /\ NextReader /\ UNCHANGED moved /\ Rest

NoCopy ==
  /\ FoundSetter /\ users[Prior] > 0
  /\ inst[Prior].op \notin {"CMP", "TEST"} \/ Immovable(Prior)
  /\ Halt("exit") /\ KeepLog /\ UNCHANGED <<inst, tables, made, moved>> /\ Rest

\* The table ends with its last entry, or with the first reader whose setter was not
\* found: main takes no notice of it.
BuildEnds ==
  /\ \/ stage = "table" /\ item = size
     \/ stage = "scan" /\ ~SetsFlags(Prior) /\ (Prior = 0 \/ left = 1)
  /\ stage' = "fix" /\ item' = 1 /\ size' = ilog
  /\ KeepLog /\ UNCHANGED <<exploreVars, nodeVars, inst, tables, scan, unset, before, made, moved>>

-----------------------------------------------------------------------------
(* matcher_sbb *)

NextEntry(i) == IF log[i].next = <<>> THEN 0 ELSE log[i].next[1]
Next1 == NextEntry(item)
Next2 == NextEntry(Next1)
Next3 == NextEntry(Next2)

SameReg(i) == inst[i].b = inst[item].d /\ inst[i].d = inst[item].d

\* CMP, SBB of a register with itself, AND and ADD of a number: one of two numbers.
IsSelection ==
  /\ inst[item].reg /\ inst[item].a = inst[item].b
  /\ Next1 # 0 /\ Next2 # 0 /\ SameReg(Next1) /\ SameReg(Next2)
  /\ inst[dep[item]].op = "CMP" /\ inst[Next1].op = "rAND" /\ inst[Next2].op = "ADD"

\* CMP, SBB and ADD: matched, and left alone.
IsSum ==
  /\ inst[item].reg /\ inst[item].a = inst[item].b
  /\ Next1 # 0 /\ Next2 # 0 /\ SameReg(Next1) /\ SameReg(Next2)
  /\ inst[dep[item]].op = "CMP" /\ inst[Next1].op = "ADD"
IsMask == inst[item].reg /\ inst[item].a = inst[item].b

-----------------------------------------------------------------------------
(* fix_flag_dependency_instructions *)

\* The entry reads the flags of Flagger.
Fixing == stage = "fix" /\ item < size /\ dep[item] # 0
Flagger == dep[item]

Icmp(e, reg) == Instr("ICMP", 0, e.a, e.b, reg, TRUE)
Bc(e, reg) == Instr("BC", e.flags, reg, e.b, e.d, e.reg)
Sex(e, reg) == Instr("SEX", 0, reg, e.b, e.d, e.reg)
Anded(e, reg) == Instr("rAND", 0, e.a, e.b, reg, TRUE)
FlagOf(e) == OVERFLOW + e.a

NoDependency ==
  /\ stage = "fix" /\ item < size /\ dep[item] = 0
  /\ Turn /\ KeepLog /\ UNCHANGED <<inst, tables, made, moved>> /\ Rest

Unsupported ==
  /\ Fixing
  /\ \/ inst[item].op \in {"ADC", "RCR", "RCL"}
     \/ inst[item].op = "SBB" /\ users[item] > 0
  /\ Halt("exit") /\ KeepLog /\ UNCHANGED <<inst, tables, made, moved>> /\ Rest

SbbRead == Fixing /\ inst[item].op = "SBB" /\ users[item] = 0

\* The four become ICMP and BC to one MOV or another.  The way to the second leads over
\* a new entry and the JMP that was the AND; the ADD still names the AND for its
\* predecessor, and the register of the MOVs is what the last IF left in reg.
SbbSelects ==
  /\ SbbRead /\ ~unset /\ IsSelection
  /\ LET x == inst[Next1].a  y == inst[Next2].a
         links == [BehindOf(item) EXCEPT ![item].next = <<Next2, ilog>>, ![Next1].next[1] = Next3]
     IN  \E r \in Garbage :
         /\ log' = [links EXCEPT ![Next3].prev = Append(@, Next1)] /\ ilog' = ilog + 1
         /\ inst' = [inst EXCEPT ![Flagger] = Icmp(@, LESS), ![item] = Bc(@, LESS),
                                 ![ilog] = Instr("MOV", 0, x + y, r, r, TRUE),
                                 ![Next1] = Instr("JMP", 0, y, r, r, TRUE),
                                 ![Next2] = Instr("MOV", 0, y, r, r, TRUE)]
  /\ made' = [made EXCEPT ![Flagger] = IF @ = 0 THEN Flagger ELSE @] /\ moved' = moved \cup {Next2}
  /\ Turn /\ UNCHANGED <<entry, tables>> /\ Rest

\* All ones or zero.  The setter becomes an ICMP, whatever it was.
SbbExtends ==
  /\ SbbRead /\ ~unset /\ IsMask /\ ~IsSelection /\ ~IsSum
  /\ inst' = [inst EXCEPT ![Flagger] = Icmp(@, BELOW), ![item] = Sex(@, BELOW)]
  /\ made' = [made EXCEPT ![Flagger] = IF @ = 0 THEN Flagger ELSE @]
  /\ Turn /\ KeepLog /\ UNCHANGED <<tables, moved>> /\ Rest

SbbStays ==
  /\ SbbRead /\ (unset \/ ~IsMask \/ (IsSum /\ ~IsSelection))
  /\ Turn /\ KeepLog /\ UNCHANGED <<inst, tables, made, moved>> /\ Rest

IfRead == Fixing /\ inst[item].op = "IF"

\* An SBB has changed the setter since: the rest is not looked at, and main goes on.
SetterChanged ==
  /\ IfRead /\ inst[Flagger].op # depOp[item]
  /\ Halt("fixed") /\ KeepLog /\ UNCHANGED <<inst, tables, made, moved>> /\ Rest

IfAsDepended == IfRead /\ inst[Flagger].op = depOp[item]

IfCompares ==
  /\ IfAsDepended /\ inst[Flagger].op = "CMP"
  /\ inst' = [inst EXCEPT ![Flagger] = Icmp(@, FlagOf(inst[item])), ![item] = Bc(@, FlagOf(@))]
  /\ made' = [made EXCEPT ![Flagger] = IF @ = 0 THEN Flagger ELSE @]
  /\ Turn /\ KeepLog /\ UNCHANGED <<tables, moved>> /\ Rest

\* The result of the setter is compared with 0 behind it: that of a TEST goes to TMP1.
IfTestsResult ==
  /\ IfAsDepended
  /\ \/ inst[Flagger].op \in {"TEST", "rAND"}
     \/ inst[Flagger].op = "ADD" /\ inst[item].a \in EqualOrNot
  /\ InsertAfter(Flagger)
  /\ LET tested == IF inst[Flagger].op = "TEST" THEN Anded(inst[Flagger], TMP1) ELSE inst[Flagger]
     IN  inst' = [inst EXCEPT ![Flagger] = tested, ![item] = Bc(@, FlagOf(@)),
                              ![ilog] = Instr("ICMP", 0, 0, tested.d, FlagOf(inst[item]), TRUE)]
  /\ made' = [made EXCEPT ![ilog] = IF made[Flagger] = 0 THEN Flagger ELSE made[Flagger]]
  /\ Turn /\ UNCHANGED <<tables, moved>> /\ Rest

\* What a SUB subtracts is compared in front of it.
IfSubtracts ==
  /\ IfAsDepended /\ inst[Flagger].op = "SUB" /\ ~Immovable(Flagger)
  /\ InsertBefore(Flagger)
  /\ inst' = [inst EXCEPT ![ilog] = Icmp(inst[Flagger], FlagOf(inst[item])), ![item] = Bc(@, FlagOf(@))]
  /\ made' = [made EXCEPT ![ilog] = Flagger]
  /\ Turn /\ UNCHANGED <<tables, moved>> /\ Rest

IfStays ==
  /\ IfAsDepended /\ inst[Flagger].op = "ADD" /\ inst[item].a \notin EqualOrNot
  /\ Turn /\ KeepLog /\ UNCHANGED <<inst, tables, made, moved>> /\ Rest

IfUnsupported ==
  /\ IfAsDepended
  /\ inst[Flagger].op \notin {"CMP", "TEST", "rAND", "ADD", "SUB"} \/ (inst[Flagger].op = "SUB" /\ Immovable(Flagger))
  /\ Halt("exit") /\ KeepLog /\ UNCHANGED <<inst, tables, made, moved>> /\ Rest

FixEnds ==
  /\ stage = "fix" /\ item = size
  /\ Halt("fixed") /\ KeepLog /\ UNCHANGED <<inst, tables, made, moved>> /\ Rest

-----------------------------------------------------------------------------
(* main *)

Build == NoFlagsRead \/ StartScan \/ ScanBack \/ FirstReader \/ AnotherReader \/ NoCopy \/ BuildEnds
FixSbb == SbbSelects \/ SbbExtends \/ SbbStays
FixIf == SetterChanged \/ IfCompares \/ IfTestsResult \/ IfSubtracts \/ IfStays \/ IfUnsupported
Fix == NoDependency \/ Unsupported \/ FixSbb \/ FixIf \/ FixEnds

FlagsWork == (Step /\ UNCHANGED <<cfgvars, flagVars>>) \/ (TidyLog /\ UNCHANGED flagVars) \/ Enter \/ Build \/ Fix
FlagsStopped == (pc \in {"failed", "undefined"} \/ stage \in {"exit", "fixed"}) /\ UNCHANGED everything

FlagsNext == FlagsWork \/ FlagsStopped
FlagsSpec == FlagsInit /\ [][FlagsNext]_everything

=============================================================================
