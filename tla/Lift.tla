-------------------------------- MODULE Lift -------------------------------
(***************************************************************************)
(* The pipeline process_block runs for one function: disassemble a machine *)
(* instruction (DecodeAsm), convert it (Convert), advance EIP and execute  *)
(* its RTL instructions one after another (Exec).  At an IF the state of   *)
(* SP, BP and EIP goes into entry-point slots, the rest of the machine     *)
(* instruction is dropped, and exploration goes on behind it; a path that  *)
(* meets decoded code or returns is followed by one taken from a slot.     *)
(*                                                                         *)
(* Explore models the order of the paths and the log.  Here the code is    *)
(* arbitrary: any instruction of Insts may come next, any path may end     *)
(* after any instruction, and any waiting slot may be taken.               *)
(***************************************************************************)
EXTENDS Convert, Exec

CONSTANTS
  Insts,      \* machine instructions
  TextSize,   \* bytes of .text: nothing decodes behind them
  MaxInsts,   \* bound: instructions decoded
  MaxSlots    \* bound: slots that wait at once

\* The decoder takes every seven-operand IMUL for the one with an immediate; the
\* two-operand IMUL from memory would read parts of an earlier instruction.  A
\* register without a row makes get_reg_size_helper exit.  The one row of helper_inst
\* with MOVS is MOVSQ, an instruction of the form that names two registers.
ASSUME InstsAssumption ==
  /\ \A m \in Insts : m.name \in DOMAIN Helper
  /\ \A m \in Insts : \A i \in DOMAIN m.ops :
       m.ops[i].t = "reg" => m.ops[i].v \in HelperRegs[m.ops[i].size]
  /\ \A m \in Insts : Helper[m.name].op = "MOVS" => m.form = "RawFrmDstSrc"
  /\ \A m \in Insts : Helper[m.name].op = "IMUL" /\ Len(m.ops) = 7 => m.ops[7].t = "imm"
  /\ TextSize \in Word /\ MaxInsts \in Nat /\ MaxSlots \in Nat

VARIABLES
  st,       \* process_state: the three stores
  cur,      \* the machine instruction being executed
  todo,     \* its RTL instructions not yet executed
  exited,   \* exit(1) was called
  slots,    \* entry_point[]: SP, BP and EIP of the paths that wait
  count     \* machine instructions decoded

liftVars == <<st, cur, todo, exited, slots, count>>

\* cur before the first instruction of a path, and behind the last one.
NoInst == McInst("none", "none", <<>>, 0, 0)
Ended  == McInst("ended", "none", <<>>, 0, 0)

\* As Saved, but the frame pointer of the path is not saved.
SavedNoFrame(s, ip) == [sp |-> s.reg[1], bp |-> RegInit[2], ip |-> ip]

\* The first three register entries are those of SP, BP and EIP.
Saved(s, ip) == [sp |-> s.reg[1], bp |-> s.reg[2], ip |-> ip]
Restore(e, from) == Entry(e.addr, from.init, from.off, e.scope)
Restored(t, w) ==
  [i \in DOMAIN t |-> CASE i = 1 -> Restore(t[i], w.sp) [] i = 2 -> Restore(t[i], w.bp)
                       [] i = 3 -> Restore(t[i], w.ip) [] OTHER -> t[i]]

LiftInit ==
  /\ st = [reg |-> RegInit, stack |-> StackInit, data |-> <<>>]
  /\ cur = NoInst /\ todo = <<>> /\ exited = FALSE /\ slots = {} /\ count = 0

\* memory_reg[2].offset_value += octets
Advance(s, len) == [s EXCEPT !.reg[3].off = Plus(@, len)]

\* disassemble: exit(1) when decoding or conversion fails.
Lifted(l) == IF l.op = "BAD" THEN FAILED ELSE ConvertLl(l)

Decode(m) ==
  /\ todo = <<>> /\ cur # Ended /\ ~exited /\ count < MaxInsts
  /\ cur' = m /\ count' = count + 1
  /\ \E l \in {DecodeInstruction(m)} : \E code \in {Lifted(l)} :
       IF st.reg[3].off + m.len > TextSize \/ code = FAILED
       THEN exited' = TRUE /\ UNCHANGED <<st, todo>>
       ELSE exited' = FALSE /\ st' = Advance(st, m.len) /\ todo' = code
  /\ UNCHANGED slots

\* As RunIf, but the slot of the branch target keeps the EIP behind the branch.
RunIfNoTarget ==
  /\ todo # <<>> /\ ~exited /\ Head(todo).op = "IF"
  /\ todo' = <<>>
  /\ slots' = IF Cardinality(slots) < MaxSlots THEN slots \cup {Saved(st, st.reg[3])} ELSE slots
  /\ UNCHANGED <<st, cur, exited, count>>

\* An IF queues its target and drops the rest.  The way behind it is queued as
\* well, and followed at once, so that the queued one finds decoded code.
RunIf ==
  /\ todo # <<>> /\ ~exited /\ Head(todo).op = "IF"
  /\ todo' = <<>>
  /\ LET target == [st.reg[3] EXCEPT !.off = Target(st, Head(todo))]
     IN  slots' = IF Cardinality(slots) < MaxSlots THEN slots \cup {Saved(st, target)} ELSE slots
  /\ UNCHANGED <<st, cur, exited, count>>

\* A path ends with an indirect jump, and when the offset of EIP becomes 0: there
\* the return address 0 has been taken.
Ends(e, s) == e.op = "JMPT" \/ s.reg[3].off = 0

Run ==
  /\ todo # <<>> /\ ~exited /\ Head(todo).op # "IF"
  /\ LET r == Execute(st, Head(todo))
         ends == Ends(Head(todo), r.st)
     IN  /\ st' = r.st /\ exited' = r.exit
         /\ todo' = IF ends THEN <<>> ELSE Tail(todo)
         /\ cur'  = IF ends THEN Ended ELSE cur
  /\ UNCHANGED <<slots, count>>

\* main takes a slot: only SP, BP and EIP get the values of its path.
Resume(w) ==
  /\ todo = <<>> /\ ~exited
  /\ slots' = slots \ {w}
  /\ st' = [st EXCEPT !.reg = Restored(@, w)]
  /\ cur' = NoInst
  /\ UNCHANGED <<todo, exited, count>>

LiftNext ==
  \/ \E m \in Insts : Decode(m)
  \/ RunIf
  \/ Run
  \/ \E w \in slots : Resume(w)

LiftSpec == LiftInit /\ [][LiftNext]_liftVars
=============================================================================
