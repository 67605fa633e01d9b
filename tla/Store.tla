------------------------------- MODULE Store -------------------------------
(***************************************************************************)
(* The stores of the RTL executor (execute/exe.c): three tables of entries *)
(* for registers, stack cells and data cells.  An entry has the value      *)
(* init + off: what the location held when it was first met, and what has  *)
(* been done to it since.  An entry is appended when its location is first *)
(* met; search_store takes the first entry with the start address and      *)
(* ignores sizes.                                                          *)
(*                                                                         *)
(* Left out: value types and ids, references to the log, lengths.          *)
(***************************************************************************)
EXTENDS Rtl

CONSTANTS
  SP0,        \* 0x10000: SP on entry; the return address is there
  BP0,        \* 0x20000: BP on entry
  IP0,        \* EIP_START, the base of EIP
  Data,       \* the bytes of .data: word at an offset, as far as it is read
  DataSize,   \* self->data_size
  NarrowBytes \* bytes of a 32-bit word

ASSUME StoreAssumption ==
  /\ SP0 \in Word /\ BP0 \in Word /\ IP0 \in Word
  /\ DataSize \in Word /\ NarrowBytes \in Nat \ {0}
  /\ Data \in [Word -> Word]

\* value_scope
Unknown == 0
Param == 1
Local == 2
InData == 3
Const == 4
Scope == Unknown .. Const

Entry(addr, init, off, scope) == [addr |-> addr, init |-> init, off |-> off, scope |-> scope]
Value(v) == Plus(v.init, v.off)

\* reg_init and stack_init.
RegInit == << Entry(SP, SP0, 0, Local), Entry(BP, BP0, 0, Local), Entry(IP, IP0, 0, InData) >>
StackInit == << Entry(SP0, 0, 0, Local) >>

Has(s, a) == \E i \in DOMAIN s : s[i].addr = a
Search(s, a) == CHOOSE i \in DOMAIN s : s[i].addr = a /\ \A j \in 1 .. i - 1 : s[j].addr # a
Found(s, a) == s[Search(s, a)]

\* As AddNew, but without the search for the address.
AddNewUnseen(s, e) == Append(s, e)

\* add_new_store, for an address search_store did not find.
AddNew(s, e) == IF Has(s, e.addr) THEN s ELSE Append(s, e)

\* What put_value_RTL_instruction does to the entry of an address.
Update(s, v) == [s EXCEPT ![Search(s, v.addr)] = v]

\* read_data always reads 32 bits; the last byte may be one behind the section.
ReadData(a) ==
  IF Plus(a, NarrowBytes - 1) <= DataSize THEN Data[a] % H ELSE 0

Got(st, val) == [st |-> st, val |-> val]

\* The entry of the register an indirect operand goes through; its scope stays 0.
Through(st, r) == [st EXCEPT !.reg = AddNew(@, Entry(r, 0, 0, Unknown))]
Pointed(st, r) == Value(Found(st.reg, r))

GetImm(st, o) == Got(st, Entry(0, o.idx, 0, Const))

\* As GetReg, but the entry of a register met first gets no scope.
GetRegNoScope(st, o, second) ==
  LET st1 == [st EXCEPT !.reg = AddNew(@, Entry(o.idx, 0, 0, Unknown))]
  IN  Got(st1, Found(st1.reg, o.idx))

\* A register met first as the second source counts as a local.
GetReg(st, o, second) ==
  LET st1 == [st EXCEPT !.reg =
                AddNew(@, Entry(o.idx, 0, 0, IF second THEN Local ELSE Param))]
  IN  Got(st1, Found(st1.reg, o.idx))

GetMem(st, o) ==
  LET st1 == Through(st, o.idx)
      a   == Pointed(st1, o.idx)
      st2 == [st1 EXCEPT !.data = AddNew(@, Entry(a, ReadData(a), 0, InData))]
  IN  Got(st2, Found(st2.data, a))

\* Cells above the return address are parameters.
GetStack(st, o) ==
  LET st1 == Through(st, o.idx)
      a   == Pointed(st1, o.idx)
      st2 == [st1 EXCEPT !.stack = AddNew(@, Entry(a, 0, 0, IF a > SP0 THEN Param ELSE Local))]
  IN  Got(st2, Found(st2.stack, a))

\* get_value_RTL_instruction; an operand of another kind is reported and leaves the value
\* as calloc did.
Get(st, o, second) ==
  CASE o.ind = "DIRECT" /\ o.store = "IMM" -> GetImm(st, o)
    [] o.ind = "DIRECT" /\ o.store = "REG" -> GetReg(st, o, second)
    [] o.ind = "MEM"                       -> GetMem(st, o)
    [] o.ind = "STACK"                     -> GetStack(st, o)
    [] OTHER                               -> Got(st, Entry(0, 0, 0, Unknown))

\* As Assign, but a store always takes a new entry.
AssignAnew(s, a, v) == Append(s, [v EXCEPT !.addr = a])

\* The entry at a gets the init, offset and scope of v.
Assign(s, a, v) == Update(AddNew(s, Entry(a, 0, 0, Unknown)), [v EXCEPT !.addr = a])

PutReg(st, o, v) == [st EXCEPT !.reg = Assign(@, o.idx, v)]
PutMem(st, o, v) ==
  LET st1 == Through(st, o.idx) IN [st1 EXCEPT !.data = Assign(@, Pointed(st1, o.idx), v)]
PutStack(st, o, v) ==
  LET st1 == Through(st, o.idx) IN [st1 EXCEPT !.stack = Assign(@, Pointed(st1, o.idx), v)]

\* put_value_RTL_instruction; a constant as destination, and an operand of another kind,
\* are reported and ignored.
Put(st, o, v) ==
  CASE o.ind = "DIRECT" /\ o.store = "REG" -> PutReg(st, o, v)
    [] o.ind = "MEM"                       -> PutMem(st, o, v)
    [] o.ind = "STACK"                     -> PutStack(st, o, v)
    [] OTHER                               -> st
=============================================================================
