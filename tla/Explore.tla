------------------------------ MODULE Explore ------------------------------
(***************************************************************************)
(* Recursive-descent disassembly: the entry-point loop of main             *)
(* (test/dis64.c) and process_block (src/execute/process_block.c).         *)
(*                                                                         *)
(* For every function of the object file main seeds one slot of the        *)
(* entry_point table and calls process_block on every used slot until a    *)
(* whole pass finds none.  process_block decodes from EIP, appends one log *)
(* entry per RTL instruction, links it to the entry executed before it,    *)
(* and queues the two ways out of an IF and every target of a jump table   *)
(* in free slots.  memory_used maps an offset to the log entry decoded     *)
(* there, so that arriving at decoded code adds an edge and stops.         *)
(*                                                                         *)
(* Data abstracted away: operands, register and memory contents (only EIP  *)
(* steers this loop), the assembler text.  The log, its prev/next lists,   *)
(* the slot table and memory_used are kept exactly.                        *)
(***************************************************************************)
EXTENDS Integers, Sequences, FiniteSets, Functions

CONSTANTS
  Programs,   \* object files to explore: records [code, entries]
  CodeSize,   \* inst_size: the offsets of .text are 0 .. CodeSize - 1
  SlotCount,  \* ENTRY_POINTS_SIZE
  LogSize,    \* INST_LOG_ENTRY_SIZE
  UsedSize    \* MEMORY_USED_SIZE

Offset == 0 .. CodeSize - 1
Slot   == 0 .. SlotCount - 1
Index  == 0 .. LogSize - 1

\* What disassemble() reports at an offset.  "base" is the ADD that carries the
\* relocation of a jump table, "stray" one with a relocation in its table that is not
\* to code, "switch" the indirect jump through it, "bad" an undecodable instruction,
\* "refused" one that is decoded, but print_inst or execute_instruction takes no
\* instruction of its kind.  to: branch targets, or the entries of the table.
Kind == {"bad", "nop", "op", "base", "stray", "refused", "ret", "jmp", "jcc", "switch"}
Decoded == [kind : Kind, len : Nat \ {0}, to : Seq(Nat)]
Op == {"NOP", "OP", "LOAD", "ADD", "STRAY", "REFUSED", "MOV", "JMP", "IF", "JMPT", "RET"}

ASSUME SizesAssumption ==
  /\ CodeSize \in Nat \ {0} /\ SlotCount \in Nat \ {0}
  /\ LogSize \in Nat \ {0} /\ UsedSize \in Nat

ASSUME ProgramsAssumption ==
  \A p \in Programs :
    /\ p \in [code : [Offset -> Decoded], entries : Seq(Offset)]
    /\ \A a \in Offset :
         /\ p.code[a].kind = "jmp" => Len(p.code[a].to) = 1
         /\ p.code[a].kind = "jcc" => Len(p.code[a].to) = 1

\* The RTL instructions one machine instruction is converted to; a NOP has none.
Plain(op) == [op |-> op, to |-> <<>>]
Rtl(d) ==
  CASE d.kind = "nop"    -> << >>
    [] d.kind = "ret"    -> << Plain("LOAD"), Plain("ADD"), Plain("NOP"), Plain("MOV") >>
    [] d.kind = "base"   -> << [op |-> "ADD", to |-> d.to] >>
    [] d.kind = "stray"  -> << [op |-> "STRAY", to |-> d.to] >>
    [] d.kind = "refused" -> << Plain("REFUSED") >>
    [] d.kind = "jmp"    -> << [op |-> "JMP", to |-> d.to] >>
    [] d.kind = "jcc"    -> << [op |-> "IF", to |-> d.to] >>
    [] d.kind = "switch" -> << Plain("JMPT") >>
    [] OTHER             -> << Plain("OP") >>

VARIABLES
  code,     \* the .text section
  entries,  \* values of the functions of the object file, in symbol order
  fn,       \* the function being explored
  pc,       \* where main and process_block are
  used,     \* the slots of entry_point[] in use
  slots,    \* entry_point[]: EIP and predecessor to go on from
  n,        \* main's loop index over the slots
  again,    \* not_finished
  eip,      \* memory_reg[2].offset_value
  cur,      \* offset of the machine instruction being executed
  todo,     \* its RTL instructions not yet executed
  pend,     \* ways out of the last RTL instruction not yet queued
  prevI,    \* inst_log_prev
  ilog,     \* inst_log
  log,      \* inst_log_entry[]
  mark,     \* memory_used[] of the function being explored
  origin,   \* history: function, offset and position an entry was decoded at
  seen,     \* history: offsets decoded for this function
  lost      \* history: a way out found no free slot

vars == <<code, entries, fn, pc, used, slots, n, again, eip, cur, todo, pend, prevI,
          ilog, log, mark, origin, seen, lost>>

program == <<code, entries>>
history == <<origin, seen, lost>>

\* calloc clears the log; opcode 0 is NOP.
EmptyEntry == [op |-> "NOP", to |-> <<>>, prev |-> <<>>, next |-> <<>>]
EmptySlot  == [eip |-> 0, prev |-> 0]

\* As Claim, but slot 0 is taken whether or not it is in use.
ClaimAny(to, from) ==
  used' = used \cup {0} /\ slots' = [slots EXCEPT ![0] = [eip |-> to, prev |-> from]]

Free == Slot \ used
IsLeast(m, S) == m \in S /\ \A k \in S : m <= k

\* The first free slot takes the way out; a full table drops it.
Claim(to, from) ==
  IF Free = {} THEN UNCHANGED <<used, slots>>
  ELSE \E m \in Free :
         /\ IsLeast(m, Free)
         /\ used' = used \cup {m}
         /\ slots' = [slots EXCEPT ![m] = [eip |-> to, prev |-> from]]

\* The ADD that search_for_jump_table_base finds: the nearest of the three
\* entries logged before the JMPT, whatever path they were logged for.
TableBases == {i \in Index : /\ i \in ilog - 3 .. ilog - 1
                             /\ log[i].op \in {"ADD", "STRAY"}}
Table == CHOOSE i \in TableBases : \A k \in TableBases : k <= i

Init ==
  /\ \E p \in Programs : code = p.code /\ entries = p.entries
  /\ fn = 0 /\ pc = "main" /\ n = 0 /\ again = FALSE
  /\ used = {} /\ slots = [m \in Slot |-> EmptySlot]
  /\ eip = 0 /\ cur = 0 /\ todo = <<>> /\ pend = <<>>
  /\ prevI = 0 /\ ilog = 1
  /\ log = [i \in Index |-> EmptyEntry]
  /\ mark = [a \in 0 .. UsedSize - 1 |-> 0]
  /\ origin = [i \in Index |-> <<0, 0, 0>>] /\ seen = {} /\ lost = FALSE

-----------------------------------------------------------------------------
(* main: one function after another, one slot after another *)

StartFunction ==
  /\ pc = "main" /\ fn < Len(entries)
  /\ fn' = fn + 1
  /\ used' = used \cup {0}
  /\ slots' = [slots EXCEPT ![0] = [eip |-> entries[fn + 1], prev |-> 0]]
  /\ mark' = [a \in 0 .. UsedSize - 1 |-> 0]
  /\ seen' = {}
  /\ n' = 0 /\ again' = FALSE /\ pc' = "scan"
  /\ UNCHANGED <<program, eip, cur, todo, pend, prevI, ilog, log, origin, lost>>

AllExplored ==
  /\ pc = "main" /\ fn = Len(entries)
  /\ pc' = "done"
  /\ UNCHANGED <<program, fn, used, slots, n, again, eip, cur, todo, pend, prevI, ilog,
                 log, mark, history>>

UsedFrom(k) == {m \in used : m >= k}

\* As TakeSlot, but inst_log_prev keeps the value the last block left.
TakeSlotKeepPrev ==
  /\ pc = "scan"
  /\ \E m \in UsedFrom(n) : IsLeast(m, UsedFrom(n)) /\ n' = m
  /\ eip' = slots[n'].eip /\ UNCHANGED prevI
  /\ again' = TRUE /\ pc' = "fetch"
  /\ UNCHANGED <<program, fn, used, slots, cur, todo, pend, ilog, log, mark, history>>

\* The next used slot of this pass gives EIP and the predecessor.
TakeSlot ==
  /\ pc = "scan"
  /\ \E m \in UsedFrom(n) : IsLeast(m, UsedFrom(n)) /\ n' = m
  /\ eip' = slots[n'].eip /\ prevI' = slots[n'].prev
  /\ again' = TRUE /\ pc' = "fetch"
  /\ UNCHANGED <<program, fn, used, slots, cur, todo, pend, ilog, log, mark, history>>

\* As RepeatPass, but not_finished stays set.
RepeatPassStale ==
  /\ pc = "scan" /\ UsedFrom(n) = {} /\ again
  /\ n' = 0
  /\ UNCHANGED <<program, fn, pc, used, slots, again, eip, cur, todo, pend, prevI, ilog, log, mark, history>>

\* End of a pass that did something: another one.
RepeatPass ==
  /\ pc = "scan" /\ UsedFrom(n) = {} /\ again
  /\ n' = 0 /\ again' = FALSE
  /\ UNCHANGED <<program, fn, pc, used, slots, eip, cur, todo, pend, prevI, ilog, log, mark, history>>

\* A whole pass found no used slot: the function is explored.
FinishFunction ==
  /\ pc = "scan" /\ UsedFrom(n) = {} /\ ~again
  /\ pc' = "main"
  /\ UNCHANGED <<program, fn, used, slots, n, again, eip, cur, todo, pend, prevI, ilog, log, mark, history>>

\* The slot is cleared only after process_block has returned.
Return ==
  /\ pc = "return"
  /\ used' = used \ {n}
  /\ n' = n + 1 /\ pc' = "scan"
  /\ UNCHANGED <<program, fn, slots, again, eip, cur, todo, pend, prevI, ilog, log, mark, history>>

-----------------------------------------------------------------------------
(* process_block: decode at EIP *)

Stop(how) ==
  /\ pc' = how
  /\ UNCHANGED <<program, fn, used, slots, n, again, eip, cur, todo, pend, prevI, ilog,
                 log, mark, history>>

OverRan == pc = "fetch" /\ eip >= CodeSize /\ Stop("failed")

CanFetch == pc = "fetch" /\ eip < CodeSize

\* memory_used is indexed without a bound: marking beyond it is undefined.
MarkOverrun ==
  /\ CanFetch
  /\ eip + code[eip].len > UsedSize
  /\ eip < UsedSize => mark[eip] = 0
  /\ Stop("undefined")

InMemory == CanFetch /\ eip < UsedSize

\* "FIXME: What to do in this case?": the mark is used as an index of the log
\* even when it is negative (the middle of an instruction) or beyond the log.
BadMark == InMemory /\ mark[eip] # 0 /\ mark[eip] \notin Index /\ Stop("undefined")

\* The log once the predecessor i has been linked to an entry j logged before: i
\* is appended to prev always, j to next unless it is the last one there, because
\* the duplicate scan tests next[next_size - 1] on every turn.
JoinedFirstOnly(i, j) ==
  LET linked == [log EXCEPT ![j].prev = Append(@, i)] IN
  IF log[i].next # <<>> THEN linked ELSE [linked EXCEPT ![i].next = Append(@, j)]

Joined(i, j) ==
  LET linked == [log EXCEPT ![j].prev = Append(@, i)]
      out    == log[i].next
  IN  IF out # <<>> /\ out[Len(out)] = j THEN linked
      ELSE [linked EXCEPT ![i].next = Append(@, j)]

\* Code decoded before: link the predecessor to it and return.
Rejoin ==
  /\ InMemory /\ mark[eip] # 0 /\ mark[eip] \in Index
  /\ log' = Joined(prevI, mark[eip])
  /\ pc' = "return"
  /\ UNCHANGED <<program, fn, used, slots, n, again, eip, cur, todo, pend, prevI, ilog, mark, history>>

\* The marks of an instruction: every byte holds minus its distance from the
\* first, and the first the number the next log entry will get.
MarkedLate(a) ==
  [b \in DOMAIN mark |-> IF b \in a .. a + code[a].len - 1 THEN a - b ELSE mark[b]]

Marked(a) ==
  [b \in DOMAIN mark |-> IF b = a THEN ilog
                         ELSE IF b \in a .. a + code[a].len - 1 THEN a - b
                         ELSE mark[b]]

\* First visit of an offset.  A NOP is marked too but creates no log entry.
Decode ==
  /\ InMemory /\ mark[eip] = 0 /\ eip + code[eip].len <= UsedSize
  /\ mark' = Marked(eip)
  /\ seen' = seen \cup {eip}
  /\ IF code[eip].kind = "bad"
     THEN pc' = "failed" /\ UNCHANGED <<eip, cur, todo>>
     ELSE /\ cur' = eip
          /\ eip' = eip + code[eip].len
          /\ todo' = Rtl(code[eip])
          /\ pc' = IF todo' = <<>> THEN "fetch" ELSE "rtl"
  /\ UNCHANGED <<program, fn, used, slots, n, again, pend, prevI, ilog, log, origin, lost>>

-----------------------------------------------------------------------------
(* process_block: execute the RTL instructions of the machine instruction *)

LogOverrun == pc = "rtl" /\ ilog \notin Index /\ Stop("undefined")

\* print_inst or execute_instruction returns an error, which main returns in turn.
\* (What is in the new entry by then is not counted, and goes with the program.)
Refused ==
  /\ pc = "rtl" /\ ilog \in Index /\ Head(todo).op = "REFUSED"
  /\ Stop("failed")

\* A JMPT with no ADD among the three entries before it ends the program, and so
\* does a relocation of its table that is not to code.
NoTable ==
  /\ pc = "rtl" /\ ilog \in Index /\ Head(todo).op = "JMPT"
  /\ TableBases # {} => log[Table].op = "STRAY"
  /\ Stop("failed")

\* The ways out that are queued: the fall-through and the target of an IF, and
\* the relocations found from the base of a jump table on.
WaysOutTwice(r) == IF r.op \in {"IF", "OP"} THEN <<eip, eip>> \o r.to ELSE <<>>

WaysOut(r) ==
  CASE r.op = "IF"   -> <<eip, r.to[1]>>
    [] r.op = "JMPT" -> log[Table].to
    [] OTHER         -> <<>>

\* Log the RTL instruction behind the one executed before it.  JMP moves EIP to
\* its target, the last MOV of a RET to the return address, which is 0.
Execute ==
  /\ pc = "rtl" /\ ilog \in Index
  /\ LET r == Head(todo) IN
     /\ r.op # "REFUSED"
     /\ r.op = "JMPT" => TableBases # {} /\ log[Table].op # "STRAY"
     /\ log' = [log EXCEPT ![ilog].op = r.op, ![ilog].to = r.to,
                           ![ilog].prev = Append(@, prevI),
                           ![prevI].next = Append(@, ilog)]
     /\ eip' = CASE r.op = "JMP" -> r.to[1]
                 [] r.op = "MOV" -> 0
                 [] OTHER        -> eip
     /\ pend' = WaysOut(r)
  /\ origin' = [origin EXCEPT ![ilog] =
                  <<fn, cur, Len(Rtl(code[cur])) - Len(todo) + 1>>]
  /\ pc' = "queue"
  /\ UNCHANGED <<program, fn, used, slots, n, again, cur, todo, prevI, ilog, mark, seen, lost>>

\* One way out of an IF or a JMPT goes into the slot table.
Queue ==
  /\ pc = "queue" /\ pend # <<>>
  /\ Claim(Head(pend), ilog)
  /\ lost' = (lost \/ Free = {})
  /\ pend' = Tail(pend)
  /\ UNCHANGED <<program, fn, pc, n, again, eip, cur, todo, prevI, ilog, log, mark, origin, seen>>

\* As Advance, but inst_log counts the RTL instructions still to come as well.
AdvanceAll ==
  /\ pc = "queue" /\ pend = <<>>
  /\ prevI' = ilog /\ ilog' = ilog + Len(todo)
  /\ todo' = IF eip = 0 \/ log[ilog].op \in {"JMPT", "IF"} THEN <<>> ELSE Tail(todo)
  /\ pc' = IF eip = 0 \/ log[ilog].op = "JMPT" THEN "return"
           ELSE IF todo' = <<>> THEN "fetch" ELSE "rtl"
  /\ UNCHANGED <<program, fn, used, slots, n, again, eip, cur, pend, log, mark, history>>

\* End of the RTL loop's body.  EIP 0 is a function exit, and a NOP logged just
\* before it becomes the RET; a JMPT ends the block, an IF only the RTL loop.
Advance ==
  /\ pc = "queue" /\ pend = <<>>
  /\ prevI' = ilog /\ ilog' = ilog + 1
  /\ log' = IF eip = 0 /\ log[prevI].op = "NOP"
            THEN [log EXCEPT ![prevI].op = "RET"] ELSE log
  /\ todo' = IF eip = 0 \/ log[ilog].op \in {"JMPT", "IF"} THEN <<>> ELSE Tail(todo)
  /\ pc' = IF eip = 0 \/ log[ilog].op = "JMPT" THEN "return"
           ELSE IF todo' = <<>> THEN "fetch" ELSE "rtl"
  /\ UNCHANGED <<program, fn, used, slots, n, again, eip, cur, pend, mark, history>>

Stopped == pc \in {"done", "failed", "undefined"} /\ UNCHANGED vars

Step == \/ StartFunction \/ AllExplored \/ TakeSlot \/ RepeatPass \/ FinishFunction
        \/ Return
        \/ OverRan \/ MarkOverrun \/ BadMark \/ Rejoin \/ Decode
        \/ LogOverrun \/ Refused \/ NoTable \/ Execute \/ Queue \/ Advance

Next == Step \/ Stopped

\* The program is sequential: fairness is that it keeps running.
Spec == Init /\ [][Next]_vars /\ WF_vars(Step)

=============================================================================
