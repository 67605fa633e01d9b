----------------------------- MODULE LiftProps -----------------------------
(***************************************************************************)
(* What the stores of the executor are worth: Lift beside a reference      *)
(* processor that executes the same machine instructions by their meaning. *)
(*                                                                         *)
(* The executor is not exact, and does not have to be: it needs the stack  *)
(* pointer, the frame pointer and the addresses of cells.  `good', `bad'   *)
(* and `lost' follow the values through every RTL instruction: a value is  *)
(* good when all it was made of was good and no step that made it is one   *)
(* of the inexact ones, which Exact and Lossy name.                        *)
(***************************************************************************)
EXTENDS Lift

CONSTANTS Meaning   \* machine instruction name -> mnemonic

VARIABLES
  cpu,    \* the processor: registers, cells written, instruction pointer
  lossy,  \* the instruction being executed loses something in the decoder
  good,   \* registers whose entry is exact
  bad,    \* addresses whose entry is not
  lost,   \* a cell somewhere may be wrong
  snaps   \* what the processor had at each waiting slot

ghosts == <<cpu, lossy, good, bad, lost, snaps>>
checkedVars == <<liftVars, ghosts>>

General == {AX, CX, DX, BX, SI, DI}
Bases == {SP, BP}

-----------------------------------------------------------------------------
(* The processor *)

Initial(a) == IF a < DataSize THEN Data[a] ELSE 0
CpuInit ==
  [reg |-> [r \in General \cup Bases |-> CASE r = SP -> SP0 [] r = BP -> BP0 [] OTHER -> 0],
   mem |-> <<>>, ip |-> IP0]

Cell(c, a) == IF a \in DOMAIN c.mem THEN c.mem[a] ELSE Initial(a)
SetCell(c, a, v) ==
  [c EXCEPT !.mem = [x \in DOMAIN @ \cup {a} |-> IF x = a THEN v ELSE @[x]]]

RegOf(c, r) == IF r = NoReg THEN 0 ELSE c.reg[r]
\* base + multiplier * index + displacement
Address(c, o) == Plus(Plus(RegOf(c, o[1].v), Times(o[2].v, RegOf(c, o[3].v))), o[4].v)

AtMem(o) == [t |-> "mem", at |-> o]
ReadPlace(c, x) ==
  CASE x.t = "reg" -> c.reg[x.v] [] x.t = "imm" -> x.v
    [] x.t = "mem" -> Cell(c, Address(c, x.at))
WritePlace(c, x, v) ==
  CASE x.t = "reg" -> [c EXCEPT !.reg[x.v] = v]
    [] x.t = "mem" -> SetCell(c, Address(c, x.at), v)

\* Destination and sources by LLVM's order of operands: results, then sources,
\* a source tied to the result once more, five operands for a memory operand.
Places(m) ==
  LET o == m.ops
      n == Len(o)
      P(d, a, b) == [d |-> d, a |-> a, b |-> b]
  IN  CASE n = 0 -> P(McReg(AX, 64), McReg(AX, 64), McReg(AX, 64))
        [] n = 1 /\ m.form = "RawFrm" -> P(McReg(AX, 64), McReg(AX, 64), o[1])
        [] n \in 1 .. 3 /\ ~(n = 1 /\ m.form = "RawFrm") ->
             P(o[1], IF n = 3 THEN o[2] ELSE o[1], o[n])
        [] n = 5 -> P(AtMem(o), AtMem(o), AtMem(o))
        [] n = 6 /\ m.form = "MRMSrcMem" -> P(o[1], o[1], AtMem(Tail(o)))
        [] n = 6 /\ m.form # "MRMSrcMem" ->
             P(AtMem(SubSeq(o, 1, 5)), AtMem(SubSeq(o, 1, 5)), o[6])
        [] n = 7 /\ o[7].t = "imm" /\ o[2].t = "reg" /\ Meaning[m.name] = "IMUL" ->
             P(o[1], AtMem(SubSeq(o, 2, 6)), o[7])
        [] OTHER -> P(o[1], o[2], AtMem(SubSeq(o, 3, 7)))

\* The result for operands of w values, itself one of w values.
Alu(op, a, b, w) ==
  CASE op = "MOV"  -> b
    [] op = "ADD"  -> (a + b) % w
    [] op = "SUB"  -> (a + w - b) % w
    [] op = "AND"  -> And(a, b)
    [] op = "OR"   -> Or(a, b)
    [] op = "XOR"  -> Xor(a, b)
    [] op = "IMUL" -> (a * b) % w
    [] op = "SHL"  -> ShiftLeft(a, b) % w
    [] op = "SAR"  -> IF a < w \div 2 THEN ShiftRight(a, b)
                      ELSE w - 1 - ShiftRight(w - 1 - a, b)
    [] op = "INC"  -> (a + 1) % w
    [] op = "DEC"  -> (a + w - 1) % w

\* How many values a destination holds.  A register of 32 bits is read without its
\* high half, and writing it clears the high half.
Values(d) == IF d.t = "reg" THEN Modulus(d.size) ELSE W

\* The instruction's effect.  MUL leaves its product in DX and AX.  What reads or
\* writes only flags, and what the tool never finishes, changes nothing but the
\* instruction pointer here.
Effect(c, m) ==
  LET n  == [c EXCEPT !.ip = Plus(@, m.len)]
      mn == Meaning[m.name]
      x  == Places(m)
      sp == c.reg[SP]
  IN  CASE mn \in {"MOV", "ADD", "SUB", "AND", "OR", "XOR", "IMUL", "SHL", "SAR", "INC", "DEC"} ->
             LET w == Values(x.d)
             IN  WritePlace(n, x.d, Alu(mn, ReadPlace(c, x.a) % w, ReadPlace(c, x.b) % w, w))
        [] mn = "SHL CL" -> WritePlace(n, x.d, ShiftLeft(ReadPlace(c, x.a), c.reg[CX]))
        [] mn = "NEG"    -> WritePlace(n, x.d, Minus(0, ReadPlace(c, x.a)))
        [] mn = "MUL"    ->
             LET product == (c.reg[AX] % H) * (ReadPlace(c, x.a) % H)
             IN  [n EXCEPT !.reg[AX] = product % H, !.reg[DX] = (product \div H) % H]
        [] mn = "LEA"    -> WritePlace(n, x.d, Address(c, x.b.at) % Values(x.d))
        [] mn = "PUSH"   -> SetCell([n EXCEPT !.reg[SP] = Minus(sp, 8)], Minus(sp, 8),
                                    ReadPlace(c, x.a))
        [] mn = "POP"    -> [n EXCEPT !.reg[SP] = Plus(sp, 8), !.reg[x.d.v] = Cell(c, sp)]
        [] mn = "LEAVE"  -> [n EXCEPT !.reg[SP] = Plus(c.reg[BP], 8),
                                      !.reg[BP] = Cell(c, c.reg[BP])]
        [] mn = "RET"    -> [n EXCEPT !.reg[SP] = Plus(sp, 8), !.ip = Cell(c, sp)]
        [] mn = "JMP"    -> [n EXCEPT !.ip = Plus(@, m.ops[1].v)]
        [] mn = "MOVS"   -> [SetCell(n, c.reg[DI], Cell(c, c.reg[SI])) EXCEPT
                               !.reg[SI] = Plus(@, 8), !.reg[DI] = Plus(@, 8)]
        [] OTHER -> n

-----------------------------------------------------------------------------
(* Where the tool is not exact *)

\* Immediates of 64 bits these forms cut to 32; an address with an index and a negative
\* displacement, which LEA subtracts as a whole; SP pushed or popped while it moves.
Lossy(m) ==
  LET mn == Meaning[m.name]
      Cut(o) == o.t = "imm" /\ o.v >= H
  IN  \/ /\ m.form \in {"AddRegFrm", "MRMr", "MRMSrcReg"} /\ m.ops[1].size = 64
         /\ \E i \in DOMAIN m.ops : Cut(m.ops[i])
      \/ mn = "IMUL" /\ Len(m.ops) = 7 /\ Cut(m.ops[7])
      \/ mn = "LEA" /\ m.ops[4].v # NoReg /\ Negative(m.ops[5].v)
      \/ mn \in {"PUSH", "POP"} /\ m.ops[1].v = SP

\* Cells that share bytes with another one, or are in both stores.
StackCells(s) == {s.stack[i].addr : i \in DOMAIN s.stack}
DataCells(s)  == {s.data[i].addr : i \in DOMAIN s.data}
Overlaps(s) ==
  LET cells == StackCells(s) \cup DataCells(s)
  IN  (StackCells(s) \cap DataCells(s))
      \cup {a \in cells : \E b \in cells \ {a} : Minus(a, b) < 8 \/ Minus(b, a) < 8}

Sources(e) == IF e.op \in Binary THEN {e.srcA, e.srcB} ELSE {e.srcA}
Goes(o) == o.ind # "DIRECT"
At(s, o) == Pointed(Through(s, o.idx), o.idx)

\* Is operand o of an instruction executed in st good?  s is the state after it.
GoodSource(o, s) ==
  /\ o.store = "REG" => o.idx \in good
  /\ Goes(o) => ~lost /\ At(st, o) \notin bad \cup Overlaps(s)

\* A cell met for the first time gets a value, of 32 bits of the section or 0.
FirstExact(o) ==
  LET a == At(st, o)
  IN  CASE o.ind = "MEM"   -> Has(st.data, a) \/ ReadData(a) = Initial(a)
        [] o.ind = "STACK" -> Has(st.stack, a) \/ Initial(a) = 0
        [] OTHER -> TRUE

\* The executor computes with whole words: an operation of 32 bits is exact when
\* what it writes has no high half, a shift to the right when what it reads has none.
Narrow(e) == e.dstA.size < 64 \/ (e.op = "MOV" /\ e.srcA.size < 64)

\* Two-operand arithmetic reads the init of its second source; a multiplication
\* with a constant first is wrong by it; SAR shifts as if there were no sign; NOT
\* is the logical one; SBB knows no borrow.  s is the state after e.
Exact(e, s) ==
  LET Val(o) == Get(st, o, FALSE).val
  IN  /\ \A o \in Sources(e) : FirstExact(o)
      /\ e.op \in Binary \ {"MUL", "IMUL"} => Val(e.srcB).off = 0
      /\ e.op \in {"MUL", "IMUL"} => e.srcA.store = "REG"
      /\ e.op = "SAR" => Value(Val(e.srcA)) < Modulus(e.dstA.size) \div 2
      /\ e.op \notin {"NOT", "SBB"}
      /\ Narrow(e) => Value(Get(s, e.dstA, FALSE).val) < H

\* MUL leaves the high half of its product in the register of its operand, and DX as
\* it was: neither is right when it is over.
Misplaced == IF Meaning[cur.name] = "MUL" /\ Len(todo) = 1 THEN {DX, cur.ops[1].v} ELSE {}

\* good, bad and lost after e has led to s.
Follow(e, s) ==
  LET misread == {At(st, o) : o \in {x \in Sources(e) : ~FirstExact(x)}}
      wrong == bad \cup misread \cup Overlaps(s)
      ok == ~lossy /\ Exact(e, s) /\ \A o \in Sources(e) : GoodSource(o, s)
      d  == e.dstA
      a  == At(st, d)
  IN  CASE e.op \in {"NOP", "CMP", "TEST", "JMP"} ->
             good' = good /\ bad' = wrong /\ lost' = lost
        [] e.op = "JMPT" -> good' = good \ {IP} /\ bad' = wrong /\ lost' = lost
        [] e.op = "CALL" -> good' = good \cap (Bases \cup {IP}) /\ bad' = wrong /\ lost' = TRUE
        [] e.op \notin {"NOP", "CMP", "TEST", "JMP", "JMPT", "CALL"} /\ ~Goes(d) ->
             /\ good' = (IF ok THEN good \cup {d.idx} ELSE good \ {d.idx}) \ Misplaced
             /\ bad' = wrong /\ lost' = lost
        [] OTHER ->
             /\ good' = good
             /\ bad' = (IF ok THEN wrong \ {a} ELSE wrong \cup {a}) \cup Overlaps(s)
             /\ lost' = (lost \/ d.idx \notin good)

-----------------------------------------------------------------------------
(* Lift with its ghosts *)

CheckedInit ==
  /\ LiftInit
  /\ cpu = CpuInit /\ lossy = FALSE
  /\ good = General \cup Bases \cup {IP} /\ bad = {} /\ lost = FALSE /\ snaps = {}

CheckedDecode(m) ==
  /\ Decode(m)
  /\ cpu' = Effect(cpu, m) /\ lossy' = Lossy(m)
  /\ UNCHANGED <<good, bad, lost, snaps>>

\* A branch leaves for ip + rel; what CMOV, SETCC and REP MOVS would have written
\* is never written, and unknown from here on.
Named(m) ==
  IF Len(m.ops) = 5 THEN {}
  ELSE {CX} \cup {m.ops[i].v : i \in {j \in DOMAIN m.ops : m.ops[j].t = "reg"}}
CheckedIf ==
  /\ RunIf
  /\ LET jump == Meaning[cur.name] = "JCC"
         left == IF jump THEN good ELSE good \ Named(cur)
         to   == IF jump THEN Plus(cpu.ip, cur.ops[1].v) ELSE cpu.ip
     IN  /\ good' = left
         /\ lost' = (lost \/ Meaning[cur.name] \in {"MOVS", "SETCC"})
         /\ snaps' = snaps \cup {[slot |-> w, sp |-> cpu.reg[SP], bp |-> cpu.reg[BP],
                                  ip |-> to, good |-> left \cap (Bases \cup {IP})]
                                   : w \in slots' \ slots}
  /\ UNCHANGED <<cpu, lossy, bad>>

CheckedRun ==
  /\ Run
  /\ Follow(Head(todo), st')
  /\ UNCHANGED <<cpu, lossy, snaps>>

\* Behind a slot only what was saved is known; what the registers and the cells of
\* the processor hold is not compared before it is written again.
CheckedResume(w) ==
  /\ Resume(w)
  /\ \E s \in {x \in snaps : x.slot = w} :
       /\ cpu' = [reg |-> [CpuInit.reg EXCEPT ![SP] = s.sp, ![BP] = s.bp],
                  mem |-> <<>>, ip |-> s.ip]
       /\ good' = s.good
  /\ lossy' = FALSE /\ bad' = {} /\ lost' = TRUE
  /\ snaps' = {x \in snaps : x.slot # w}

CheckedNext ==
  \/ \E m \in Insts : CheckedDecode(m)
  \/ CheckedIf
  \/ CheckedRun
  \/ \E w \in slots : CheckedResume(w)

CheckedSpec == CheckedInit /\ [][CheckedNext]_checkedVars

-----------------------------------------------------------------------------
Between == todo = <<>> /\ ~exited
IsStore(s) ==
  \A i \in DOMAIN s : s[i].addr \in Word /\ s[i].init \in Word /\ s[i].off \in Word
                      /\ s[i].scope \in Scope

\* Types: words stay words in every entry, slot and register; inside a machine
\* instruction EIP has left the offset 0, where a path ends.
LiftTypeOK ==
  /\ IsStore(st.stack) /\ IsStore(st.data)
  /\ \A i \in DOMAIN st.reg : Value(st.reg[i]) \in Word /\ st.reg[i].scope \in Scope
  /\ Len(st.reg) >= 3 /\ <<st.reg[1].addr, st.reg[2].addr, st.reg[3].addr>> = <<SP, BP, IP>>
  /\ todo # <<>> => st.reg[3].off # 0
  /\ exited \in BOOLEAN /\ count \in 0 .. MaxInsts /\ Cardinality(slots) <= MaxSlots

\* Between two machine instructions every good register entry holds what the
\* processor's register holds: decoder, converter and executor together implement
\* the instruction, through temporaries, memory forms and implicit operands.  Not
\* good, and so left out, are DX and the operand's register behind a MUL (Misplaced),
\* and results of 32-bit instructions with a high half, which the tool does not cut.
RegistersExact ==
  Between => \A r \in good \cap General :
               Has(st.reg, r) => Value(Found(st.reg, r)) = cpu.reg[r]

\* The same for the cells of the stack and of the data section: every store went
\* to the address the processor stores to.
CellsExact ==
  Between /\ ~lost =>
    \A s \in {st.stack, st.data} : \A i \in DOMAIN s :
      s[i].addr \notin bad => Value(s[i]) = Cell(cpu, s[i].addr)

\* The stack pointer, the frame pointer and EIP are right, on a path taken from a
\* slot as well (dis64.c:4844 restores nothing else), until one is loaded from a
\* cell that another path may have written.
BasesExact ==
  Between =>
    /\ \A r \in good \cap Bases : Value(Found(st.reg, r)) = cpu.reg[r]
    /\ IP \in good => Value(Found(st.reg, IP)) = cpu.ip

\* No store has two entries with one start address: search_store would only ever
\* see the first of them.
EntriesUnique ==
  \A s \in {st.reg, st.stack, st.data} :
    \A i, j \in DOMAIN s : s[i].addr = s[j].addr => i = j

\* A machine instruction adds at most one entry to the stack store and two to the
\* data store: add_new_store, which never looks for the end of its table, stays in
\* it as long as the function has fewer instructions than the table has entries.
StoresBounded == Len(st.stack) <= 1 + count /\ Len(st.data) <= 2 * count

\* No instruction ends the program because the scope of a value is unknown: an
\* indirect access gives its register an entry without one, but every sequence the
\* converter emits has read that register, or does so, before its value is used.
\* Programs end at operands of size 0, at opcodes that are not handled and at ADC.
ScopesKnown ==
  todo # <<>> /\ ~exited /\ Head(todo).op \notin {"IF", "ADC"} /\ ~Rejected(Head(todo))
    => ~Execute(st, Head(todo)).exit

\* CMOV becomes an IF with the "CONDITION to skip mov instruction" (dis.c:601) and
\* that mov behind it: on the path the IF does not divert, the destination has been
\* written when the instruction is over.
CmovMoves ==
  Between /\ cur \in Insts /\ Meaning[cur.name] = "CMOV" => Has(st.reg, cur.ops[1].v)
=============================================================================
