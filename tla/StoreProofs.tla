---------------------------- MODULE StoreProofs ----------------------------
(***************************************************************************)
(* The stores of the executor: whatever the instructions, their operands   *)
(* and the order of the paths, no store has two entries for one address,   *)
(* none outgrows its table, and no entry is read that has no scope.        *)
(*                                                                         *)
(* The values are not looked at: they may be anything.  So entries, tables *)
(* and states are told by their shape and not by a set they are in.  The   *)
(* bounds and the scopes need the shape of the code as well: what the      *)
(* decoder and the converter make of any machine instruction accesses      *)
(* memory in few places (Formed), each behind what writes the register it  *)
(* goes through (Armed), or as the read and the write of one cell          *)
(* (PairAt), or is one of the three instructions left of a MOVS.           *)
(***************************************************************************)
EXTENDS LiftProps, TLAPS, SequenceTheorems

IsEntry(v) == v = Entry(v.addr, v.init, v.off, v.scope)

Elems(t) == {t[i] : i \in DOMAIN t}
Unique(t) == \A i, j \in DOMAIN t : t[i].addr = t[j].addr => i = j
IsTable(t) == t \in Seq(Elems(t)) /\ (\A i \in DOMAIN t : IsEntry(t[i])) /\ Unique(t)

\* The three stores, with an entry for EIP.
IsState(s) ==
  /\ s = [reg |-> s.reg, stack |-> s.stack, data |-> s.data]
  /\ IsTable(s.reg) /\ IsTable(s.stack) /\ IsTable(s.data)
  /\ Has(s.reg, IP)

-----------------------------------------------------------------------------
(* Tables *)

LEMMA EntryIsEntry == ASSUME NEW a, NEW i, NEW o, NEW c PROVE IsEntry(Entry(a, i, o, c)) /\ Entry(a, i, o, c).addr = a
BY DEF IsEntry, Entry

\* search_store finds the entry of an address that is there.
LEMMA SearchFinds ==
  ASSUME NEW t, IsTable(t), NEW a, Has(t, a)
  PROVE  /\ Search(t, a) \in DOMAIN t /\ t[Search(t, a)].addr = a
         /\ IsEntry(Found(t, a)) /\ Found(t, a).addr = a
<1>1. PICK i \in DOMAIN t : t[i].addr = a
  BY DEF Has
<1>2. DOMAIN t = 1 .. Len(t) /\ Len(t) \in Nat
  BY DEF IsTable
<1>3. \A j \in 1 .. i - 1 : t[j].addr # a
  BY <1>1, <1>2 DEF IsTable, Unique
<1>4. Search(t, a) \in DOMAIN t /\ t[Search(t, a)].addr = a
  BY <1>1, <1>3 DEF Search
<1> QED BY <1>4 DEF Found, IsTable

LEMMA AppendTable ==
  ASSUME NEW t, IsTable(t), NEW e, IsEntry(e), ~Has(t, e.addr)
  PROVE  /\ IsTable(Append(t, e)) /\ Has(Append(t, e), e.addr)
         /\ \A a : Has(t, a) => Has(Append(t, e), a)
<1> DEFINE S == Elems(t) \cup {e}
           u == Append(t, e)
           m == Len(t)
<1>1. t \in Seq(S) /\ m \in Nat /\ DOMAIN t = 1 .. m
  BY DEF IsTable
<1>2. u \in Seq(S) /\ Len(u) = m + 1 /\ DOMAIN u = 1 .. m + 1
  BY <1>1
<1>3. u[m + 1] = e /\ \A i \in 1 .. m : u[i] = t[i]
  BY <1>1
<1> HIDE DEF u, m
<1>4. u \in Seq(Elems(u))
  BY <1>2 DEF Elems
<1>5. \A i \in DOMAIN u : IsEntry(u[i])
  BY <1>1, <1>2, <1>3 DEF IsTable
<1>6. Unique(u)
  BY <1>1, <1>2, <1>3 DEF IsTable, Unique, Has
<1>7. Has(u, e.addr) /\ \A a : Has(t, a) => Has(u, a)
  BY <1>1, <1>2, <1>3 DEF Has
<1> QED BY <1>4, <1>5, <1>6, <1>7 DEF IsTable, u

\* add_new_store appends only what it did not find.
LEMMA AddNewTable ==
  ASSUME NEW t, IsTable(t), NEW e, IsEntry(e)
  PROVE  /\ IsTable(AddNew(t, e)) /\ Has(AddNew(t, e), e.addr)
         /\ \A a : Has(t, a) => Has(AddNew(t, e), a)
BY AppendTable DEF AddNew

\* Entries changed where they are, their addresses kept.
LEMMA SameAddresses ==
  ASSUME NEW t, IsTable(t), NEW u, u = [i \in DOMAIN t |-> u[i]],
         \A i \in DOMAIN t : IsEntry(u[i]) /\ u[i].addr = t[i].addr
  PROVE  IsTable(u) /\ \A a : Has(t, a) => Has(u, a)
<1>1. DOMAIN t = 1 .. Len(t) /\ Len(t) \in Nat
  BY DEF IsTable
<1>2. DOMAIN u = DOMAIN t
  OBVIOUS
<1>3. u \in [1 .. Len(t) -> Elems(u)]
  BY <1>1, <1>2 DEF Elems
<1>4. u \in Seq(Elems(u))
  BY <1>1, <1>3, SeqDef
<1>5. Unique(u)
  BY <1>2 DEF IsTable, Unique
<1>6. \A a : Has(t, a) => Has(u, a)
  BY <1>2 DEF Has
<1> QED BY <1>2, <1>4, <1>5, <1>6 DEF IsTable

LEMMA ReplaceTable ==
  ASSUME NEW t, IsTable(t), NEW k \in DOMAIN t, NEW v, IsEntry(v), v.addr = t[k].addr
  PROVE  /\ IsTable([t EXCEPT ![k] = v])
         /\ \A a : Has(t, a) => Has([t EXCEPT ![k] = v], a)
<1> DEFINE u == [t EXCEPT ![k] = v]
<1>1. u = [i \in DOMAIN t |-> u[i]] /\ u[k] = v /\ \A i \in DOMAIN t \ {k} : u[i] = t[i]
  OBVIOUS
<1> HIDE DEF u
<1>2. \A i \in DOMAIN t : IsEntry(u[i]) /\ u[i].addr = t[i].addr
  BY <1>1 DEF IsTable
<1>3. IsTable(u) /\ \A a : Has(t, a) => Has(u, a)
  BY <1>1, <1>2, SameAddresses
<1> QED BY <1>3 DEF u

LEMMA UpdateTable ==
  ASSUME NEW t, IsTable(t), NEW v, IsEntry(v), Has(t, v.addr)
  PROVE  /\ IsTable(Update(t, v))
         /\ \A a : Has(t, a) => Has(Update(t, v), a)
<1>1. Search(t, v.addr) \in DOMAIN t /\ t[Search(t, v.addr)].addr = v.addr
  BY SearchFinds
<1> QED BY <1>1, ReplaceTable DEF Update

LEMMA AssignTable ==
  ASSUME NEW t, IsTable(t), NEW v, IsEntry(v), NEW a
  PROVE  /\ IsTable(Assign(t, a, v))
         /\ \A b : Has(t, b) => Has(Assign(t, a, v), b)
<1> DEFINE e == Entry(a, 0, 0, Unknown)
           u == AddNew(t, e)
           w == [v EXCEPT !.addr = a]
<1>1. IsEntry(e) /\ e.addr = a
  BY EntryIsEntry
<1>2. IsEntry(w) /\ w.addr = a
  BY DEF IsEntry, Entry
<1> HIDE DEF e, w
<1>3. IsTable(u) /\ Has(u, a) /\ \A b : Has(t, b) => Has(u, b)
  BY <1>1, AddNewTable
<1> HIDE DEF u
<1>4. IsTable(Update(u, w)) /\ \A b : Has(u, b) => Has(Update(u, w), b)
  BY <1>2, <1>3, UpdateTable
<1>5. Assign(t, a, v) = Update(u, w)
  BY DEF Assign, u, e, w
<1> QED BY <1>3, <1>4, <1>5

-----------------------------------------------------------------------------
(* States *)

LEMMA WithReg ==
  ASSUME NEW s, IsState(s), NEW t, IsTable(t), Has(t, IP)
  PROVE  IsState([s EXCEPT !.reg = t]) /\ [s EXCEPT !.reg = t].reg = t
BY DEF IsState

LEMMA WithStack ==
  ASSUME NEW s, IsState(s), NEW t, IsTable(t)
  PROVE  IsState([s EXCEPT !.stack = t]) /\ [s EXCEPT !.stack = t].stack = t
BY DEF IsState

LEMMA WithData ==
  ASSUME NEW s, IsState(s), NEW t, IsTable(t)
  PROVE  IsState([s EXCEPT !.data = t]) /\ [s EXCEPT !.data = t].data = t
BY DEF IsState

LEMMA ThroughState ==
  ASSUME NEW s, IsState(s), NEW r PROVE IsState(Through(s, r))
<1> DEFINE t == AddNew(s.reg, Entry(r, 0, 0, Unknown))
<1>1. IsTable(t) /\ Has(t, IP)
  BY AddNewTable, EntryIsEntry DEF IsState
<1>2. Through(s, r) = [s EXCEPT !.reg = t]
  BY DEF Through
<1> HIDE DEF t
<1> QED BY <1>1, <1>2, WithReg

\* Reading an operand may add entries, and gives an entry.
LEMMA GetState ==
  ASSUME NEW s, IsState(s), NEW o, NEW second
  PROVE  IsState(Get(s, o, second).st) /\ IsEntry(Get(s, o, second).val)
<1>1. IsState(GetImm(s, o).st) /\ IsEntry(GetImm(s, o).val)
  BY EntryIsEntry DEF GetImm, Got
<1>2. IsState(GetReg(s, o, second).st) /\ IsEntry(GetReg(s, o, second).val)
  <2> DEFINE e == Entry(o.idx, 0, 0, IF second THEN Local ELSE Param)
             t == AddNew(s.reg, e)
             u == [s EXCEPT !.reg = t]
  <2>1. IsEntry(e) /\ e.addr = o.idx
    BY EntryIsEntry
  <2> HIDE DEF e
  <2>2. IsTable(t) /\ Has(t, o.idx) /\ Has(t, IP)
    BY <2>1, AddNewTable DEF IsState
  <2>3. GetReg(s, o, second) = Got(u, Found(u.reg, o.idx))
    BY DEF GetReg, e
  <2> HIDE DEF t
  <2>4. IsState(u) /\ u.reg = t
    BY <2>2, WithReg
  <2> HIDE DEF u
  <2> QED BY <2>2, <2>3, <2>4, SearchFinds DEF Got
<1>3. IsState(GetMem(s, o).st) /\ IsEntry(GetMem(s, o).val)
  <2> DEFINE s1 == Through(s, o.idx)
             a == Pointed(s1, o.idx)
             e == Entry(a, ReadData(a), 0, InData)
             t == AddNew(s1.data, e)
             u == [s1 EXCEPT !.data = t]
  <2>1. GetMem(s, o) = Got(u, Found(u.data, a))
    BY DEF GetMem
  <2>2. IsState(s1)
    BY ThroughState
  <2>3. IsEntry(e) /\ e.addr = a
    BY EntryIsEntry
  <2> HIDE DEF s1, a, e
  <2>4. IsTable(t) /\ Has(t, a)
    BY <2>2, <2>3, AddNewTable DEF IsState
  <2> HIDE DEF t
  <2>5. IsState(u) /\ u.data = t
    BY <2>2, <2>4, WithData
  <2> HIDE DEF u
  <2> QED BY <2>1, <2>4, <2>5, SearchFinds DEF Got
<1>4. IsState(GetStack(s, o).st) /\ IsEntry(GetStack(s, o).val)
  <2> DEFINE s1 == Through(s, o.idx)
             a == Pointed(s1, o.idx)
             e == Entry(a, 0, 0, IF a > SP0 THEN Param ELSE Local)
             t == AddNew(s1.stack, e)
             u == [s1 EXCEPT !.stack = t]
  <2>1. GetStack(s, o) = Got(u, Found(u.stack, a))
    BY DEF GetStack
  <2>2. IsState(s1)
    BY ThroughState
  <2>3. IsEntry(e) /\ e.addr = a
    BY EntryIsEntry
  <2> HIDE DEF s1, a, e
  <2>4. IsTable(t) /\ Has(t, a)
    BY <2>2, <2>3, AddNewTable DEF IsState
  <2> HIDE DEF t
  <2>5. IsState(u) /\ u.stack = t
    BY <2>2, <2>4, WithStack
  <2> HIDE DEF u
  <2> QED BY <2>1, <2>4, <2>5, SearchFinds DEF Got
<1>5. LET x == Got(s, Entry(0, 0, 0, Unknown)) IN IsState(x.st) /\ IsEntry(x.val)
  BY EntryIsEntry DEF Got
<1> QED BY <1>1, <1>2, <1>3, <1>4, <1>5 DEF Get

LEMMA PutState ==
  ASSUME NEW s, IsState(s), NEW o, NEW v, IsEntry(v)
  PROVE  IsState(Put(s, o, v))
<1>1. IsState(PutReg(s, o, v))
  <2> DEFINE t == Assign(s.reg, o.idx, v)
  <2>1. IsTable(t) /\ Has(t, IP)
    BY AssignTable DEF IsState
  <2>2. PutReg(s, o, v) = [s EXCEPT !.reg = t]
    BY DEF PutReg
  <2> HIDE DEF t
  <2> QED BY <2>1, <2>2, WithReg
<1>2. IsState(PutMem(s, o, v))
  <2> DEFINE s1 == Through(s, o.idx)
             t == Assign(s1.data, Pointed(s1, o.idx), v)
  <2>1. IsState(s1)
    BY ThroughState
  <2>2. PutMem(s, o, v) = [s1 EXCEPT !.data = t]
    BY DEF PutMem
  <2> HIDE DEF s1
  <2>3. IsTable(t)
    BY <2>1, AssignTable DEF IsState
  <2> HIDE DEF t
  <2> QED BY <2>1, <2>2, <2>3, WithData
<1>3. IsState(PutStack(s, o, v))
  <2> DEFINE s1 == Through(s, o.idx)
             t == Assign(s1.stack, Pointed(s1, o.idx), v)
  <2>1. IsState(s1)
    BY ThroughState
  <2>2. PutStack(s, o, v) = [s1 EXCEPT !.stack = t]
    BY DEF PutStack
  <2> HIDE DEF s1
  <2>3. IsTable(t)
    BY <2>1, AssignTable DEF IsState
  <2> HIDE DEF t
  <2> QED BY <2>1, <2>2, <2>3, WithStack
<1> QED BY <1>1, <1>2, <1>3 DEF Put

-----------------------------------------------------------------------------
(* Instructions *)

LEMMA ScopedEntry == ASSUME NEW v, IsEntry(v), NEW x PROVE IsEntry([v EXCEPT !.scope = x])
BY DEF IsEntry, Entry

\* Arithmetic gives an entry.
LEMMA BinaryEntry ==
  ASSUME NEW e, e.op \in Binary, NEW v1, IsEntry(v1), NEW v2, IsEntry(v2)
  PROVE  IsEntry(BinaryResult(e, v1, v2))
<1>1. \A x : IsEntry([v1 EXCEPT !.off = x])
  BY DEF IsEntry, Entry
<1>2. \A x : IsEntry([v2 EXCEPT !.off = x])
  BY DEF IsEntry, Entry
<1>3. \A x : IsEntry(Folded(v1, x))
  BY EntryIsEntry DEF Folded
<1>4. IsEntry(AddResult(v1, v2)) /\ IsEntry(SubResult(v1, v2)) /\ IsEntry(SbbResult(v1, v2))
  <2>1. AddResult(v1, v2) = [v1 EXCEPT !.off = Plus(v1.off, v2.init)]
    BY DEF AddResult
  <2>2. SubResult(v1, v2) = [v1 EXCEPT !.off = Minus(v1.off, v2.init)]
    BY DEF SubResult
  <2>3. SbbResult(v1, v2) = [v1 EXCEPT !.off = Minus(v1.off, v2.init)]
    BY DEF SbbResult
  <2> QED BY <1>1, <2>1, <2>2, <2>3
<1>5. \A b : IsEntry(MulResult(v1, v2, b))
  BY <1>1, <1>2 DEF MulResult
<1>6. /\ IsEntry(AndResult(v1, v2)) /\ IsEntry(OrResult(v1, v2)) /\ IsEntry(XorResult(v1, v2))
      /\ IsEntry(ShlResult(v1, v2)) /\ IsEntry(ShrResult(v1, v2))
      /\ IsEntry(SalResult(v1, v2)) /\ IsEntry(SarResult(v1, v2))
  BY <1>3 DEF AndResult, OrResult, XorResult, ShlResult, ShrResult, SalResult, SarResult
<1> QED BY <1>4, <1>5, <1>6 DEF BinaryResult, Binary

\* execute_instruction: whatever it is, it leaves three stores.
LEMMA ExecuteState ==
  ASSUME NEW s, IsState(s), NEW e
  PROVE  IsState(Execute(s, e).st)
<1> DEFINE a(x) == Get(s, e.srcA, x)
           b(x, y) == Get(a(x).st, e.srcB, y)
<1>1. \A x : IsState(a(x).st) /\ IsEntry(a(x).val)
  BY GetState
<1>2. \A x, y : IsState(b(x, y).st) /\ IsEntry(b(x, y).val)
  BY <1>1, GetState
<1> DEFINE x == e.op = "XOR" /\ e.srcA = e.srcB
           y == e.op # "SAR"
           v == BinaryResult(e, a(x).val, b(x, y).val)
<1>3. ASSUME e.op \in Binary PROVE IsState(ExecBinary(s, e).st)
  <2>1. ExecBinary(s, e).st = Put(b(x, y).st, e.dstA, v)
    BY DEF ExecBinary, Done
  <2> HIDE DEF a, b
  <2>2. IsEntry(v)
    BY <1>1, <1>2, <1>3, BinaryEntry
  <2> HIDE DEF v
  <2>3. IsState(Put(b(x, y).st, e.dstA, v))
    BY <1>2, <2>2, PutState
  <2> QED BY <2>1, <2>3
<1> HIDE DEF x, y, v
<1> DEFINE f == a(FALSE)
           g == b(FALSE, TRUE)
<1>4. \A w : IsEntry([f.val EXCEPT !.scope = w])
  BY <1>1, ScopedEntry
<1>5. IsState(ExecMov(s, e).st)
  <2> DEFINE w == [f.val EXCEPT !.scope = Moved(f.val)]
  <2>1. ExecMov(s, e).st = f.st \/ ExecMov(s, e).st = Put(f.st, e.dstA, w)
    BY DEF ExecMov, Done, Exited
  <2> HIDE DEF a, b
  <2>2. IsEntry(w)
    BY <1>4
  <2> HIDE DEF w, f
  <2> QED BY <1>1, <2>1, <2>2, PutState DEF f
<1>6. IsState(ExecLoad(s, e).st)
  <2> DEFINE w == [f.val EXCEPT !.scope = Local]
  <2>1. ExecLoad(s, e).st = Put(f.st, e.dstA, w)
    BY DEF ExecLoad, Done
  <2> HIDE DEF a, b
  <2>2. IsEntry(w)
    BY <1>4
  <2> HIDE DEF w, f
  <2> QED BY <1>1, <2>1, <2>2, PutState DEF f
<1>7. IsState(ExecStore(s, e).st)
  <2> DEFINE w == [f.val EXCEPT !.scope = IF e.dstA.ind = "STACK" THEN Local ELSE InData]
  <2>1. ExecStore(s, e).st = Put(g.st, e.dstA, w)
    BY DEF ExecStore, Done
  <2> HIDE DEF a, b
  <2>2. IsEntry(w)
    BY <1>4
  <2> HIDE DEF w, g
  <2> QED BY <1>2, <2>1, <2>2, PutState DEF g
<1>8. IsState(ExecNeg(s, e).st) /\ IsState(ExecNot(s, e).st)
  <2> DEFINE w == NegResult(f.val)
             z == NotResult(f.val)
  <2>1. ExecNeg(s, e).st = Put(f.st, e.dstA, w) /\ ExecNot(s, e).st = Put(f.st, e.dstA, z)
    BY DEF ExecNeg, ExecNot, Done
  <2> HIDE DEF a, b
  <2>2. IsEntry(w) /\ IsEntry(z)
    BY EntryIsEntry DEF NegResult, NotResult, Folded
  <2> HIDE DEF w, z, f
  <2> QED BY <1>1, <2>1, <2>2, PutState DEF f
<1>9. IsState(ExecTrunc(s, e).st)
  <2> DEFINE Low(z) == z % Modulus(e.dstA.size)
             w == Entry(f.val.addr, Low(f.val.init), Low(f.val.off), Moved(f.val))
  <2>1. ExecTrunc(s, e).st = Put(f.st, e.dstA, w)
    BY DEF ExecTrunc, Done
  <2> HIDE DEF a, b
  <2>2. IsEntry(w)
    BY EntryIsEntry
  <2> HIDE DEF w, f
  <2> QED BY <1>1, <2>1, <2>2, PutState DEF f
<1>10. IsState(ExecCmp(s, e).st) /\ IsState(ExecTest(s, e).st) /\ IsState(ExecAdc(s, e).st)
  BY <1>2 DEF ExecCmp, ExecTest, ExecAdc, Done, Exited, a, b
<1>11. IsState(ExecJmpt(s, e).st)
  BY <1>1, GetState DEF ExecJmpt, Done, a
<1>12. IsState(ExecJmp(s, e).st)
  <2> DEFINE z == Found(s.reg, IP)
             w == AddResult(z, Entry(0, e.srcA.idx, 0, Const))
             t == Update(s.reg, w)
  <2>1. ExecJmp(s, e).st = [s EXCEPT !.reg = t]
    BY DEF ExecJmp
  <2>2. IsEntry(z) /\ z.addr = IP
    BY SearchFinds DEF IsState
  <2> HIDE DEF z
  <2>3. IsEntry(w) /\ w.addr = IP
    BY <2>2 DEF IsEntry, Entry, AddResult
  <2> HIDE DEF w
  <2>4. IsTable(t) /\ Has(t, IP)
    BY <2>3, UpdateTable DEF IsState
  <2> HIDE DEF t
  <2> QED BY <2>1, <2>4, WithReg
<1>13. IsState(ExecCall(s, e).st)
  <2>1. ExecCall(s, e).st = Put(g.st, e.dstA, Entry(0, 0, 0, Local))
    BY DEF ExecCall
  <2> HIDE DEF a, b
  <2>2. IsState(g.st)
    BY <1>2
  <2> HIDE DEF g
  <2> QED BY <2>1, <2>2, PutState, EntryIsEntry
<1>14. Rejected(e) \/ e.op \in Binary \cup {"NOP", "MOV", "LOAD", "STORE", "NEG", "NOT", "TRUNC", "CMP", "TEST", "ADC",
                                             "IF", "JMPT", "JMP", "CALL"}
  BY DEF Rejected
<1> HIDE DEF a, b, f, g
<1> QED BY <1>3, <1>5, <1>6, <1>7, <1>8, <1>9, <1>10, <1>11, <1>12, <1>13, <1>14
        DEF Execute, Exited, ExecIf, Binary

-----------------------------------------------------------------------------
(* Steps *)

\* memory_reg[2].offset_value += octets
LEMMA AdvanceState ==
  ASSUME NEW s, IsState(s), NEW len PROVE IsState(Advance(s, len))
<1> DEFINE x == Plus(s.reg[3].off, len)
           v == [s.reg[3] EXCEPT !.off = x]
           t == [s.reg EXCEPT ![3] = v]
<1>1. Advance(s, len) = [s EXCEPT !.reg = t]
  BY DEF Advance, IsState
<1> HIDE DEF x
<1>2. IsTable(t) /\ Has(t, IP)
  <2>1. CASE 3 \in DOMAIN s.reg
    <3>1. IsEntry(s.reg[3])
      BY <2>1 DEF IsState, IsTable
    <3>2. IsEntry(v) /\ v.addr = s.reg[3].addr
      BY <3>1 DEF IsEntry, Entry
    <3> HIDE DEF v
    <3> QED BY <2>1, <3>2, ReplaceTable DEF IsState
  <2>2. CASE 3 \notin DOMAIN s.reg
    <3>1. t = s.reg
      BY <2>2 DEF IsState, IsTable
    <3> QED BY <3>1 DEF IsState
  <2> QED BY <2>1, <2>2
<1> HIDE DEF t
<1> QED BY <1>1, <1>2, WithReg

\* main restores the values of SP, BP and EIP and none of the addresses.
LEMMA RestoredState ==
  ASSUME NEW s, IsState(s), NEW w PROVE IsState([s EXCEPT !.reg = Restored(s.reg, w)])
<1> DEFINE u == Restored(s.reg, w)
<1>1. u = [i \in DOMAIN s.reg |-> u[i]]
  BY DEF Restored
<1>2. \A i \in DOMAIN s.reg : IsEntry(u[i]) /\ u[i].addr = s.reg[i].addr
  <2> TAKE i \in DOMAIN s.reg
  <2>1. IsEntry(s.reg[i])
    BY DEF IsState, IsTable
  <2>2. u[i] = s.reg[i] \/ \E x : u[i] = Restore(s.reg[i], x)
    BY DEF Restored
  <2> HIDE DEF u
  <2> QED BY <2>1, <2>2, EntryIsEntry DEF Restore
<1> HIDE DEF u
<1>3. IsTable(u) /\ Has(u, IP)
  BY <1>1, <1>2, SameAddresses DEF IsState
<1>4. IsState([s EXCEPT !.reg = u])
  BY <1>3, WithReg
<1> QED BY <1>4 DEF u

LEMMA InitState == LiftInit => IsState(st)
<1>1. IsTable(RegInit)
  <2>1. RegInit \in Seq(Elems(RegInit))
    BY DEF RegInit, Elems
  <2>2. \A i \in DOMAIN RegInit : IsEntry(RegInit[i])
    BY EntryIsEntry DEF RegInit
  <2>3. Unique(RegInit)
    BY DEF RegInit, Unique, Entry, SP, BP, IP
  <2> QED BY <2>1, <2>2, <2>3 DEF IsTable
<1>2. IsTable(StackInit)
  <2>1. StackInit \in Seq(Elems(StackInit))
    BY DEF StackInit, Elems
  <2>2. \A i \in DOMAIN StackInit : IsEntry(StackInit[i])
    BY EntryIsEntry DEF StackInit
  <2>3. Unique(StackInit)
    BY DEF StackInit, Unique
  <2> QED BY <2>1, <2>2, <2>3 DEF IsTable
<1>3. IsTable(<<>>)
  BY DEF IsTable, Unique, Elems
<1>4. Has(RegInit, IP)
  BY DEF Has, RegInit, Entry
<1> QED BY <1>1, <1>2, <1>3, <1>4 DEF LiftInit, IsState

LEMMA NextState == IsState(st) /\ [CheckedNext]_checkedVars => IsState(st)'
<1> SUFFICES ASSUME IsState(st), [CheckedNext]_checkedVars PROVE IsState(st')
  OBVIOUS
<1>1. ASSUME NEW m \in Insts, Decode(m) PROVE IsState(st')
  BY <1>1, AdvanceState DEF Decode
<1>2. CASE RunIf
  BY <1>2 DEF RunIf
<1>3. CASE Run
  BY <1>3, ExecuteState DEF Run
<1>4. ASSUME NEW w \in slots, Resume(w) PROVE IsState(st')
  BY <1>4, RestoredState DEF Resume
<1>5. CASE UNCHANGED checkedVars
  BY <1>5 DEF checkedVars, liftVars
<1> QED BY <1>1, <1>2, <1>3, <1>4, <1>5 DEF CheckedNext, CheckedDecode, CheckedIf, CheckedRun, CheckedResume

\* What search_store finds for an address is the only entry of it, in the stores of
\* registers, stack and data, whatever is executed and whichever slot is taken: no
\* value is ever written to one entry and read from another.
THEOREM Unambiguous == CheckedSpec => []EntriesUnique
<1>1. CheckedInit => IsState(st)
  BY InitState DEF CheckedInit
<1>2. IsState(st) => EntriesUnique
  BY DEF IsState, IsTable, Unique, EntriesUnique
<1> QED BY <1>1, <1>2, NextState, PTL DEF CheckedSpec

-----------------------------------------------------------------------------
(* Tables: how they grow, and entries without a scope *)

\* Only entries of addresses in X may have no scope.
KnownBut(t, X) == \A i \in DOMAIN t : t[i].scope = Unknown => t[i].addr \in X

\* Entries that are found are found unchanged, but for that of address a.
Kept(t, u, a) == \A b : b # a /\ Has(t, b) => Has(u, b) /\ Found(u, b) = Found(t, b)

LEMMA FoundIs ==
  ASSUME NEW t, IsTable(t), NEW i \in DOMAIN t, NEW a, t[i].addr = a
  PROVE  Has(t, a) /\ Search(t, a) = i /\ Found(t, a) = t[i]
<1>1. Has(t, a)
  BY DEF Has
<1>2. Search(t, a) \in DOMAIN t /\ t[Search(t, a)].addr = a
  BY <1>1, SearchFinds
<1>3. Search(t, a) = i
  BY <1>2 DEF IsTable, Unique
<1> QED BY <1>1, <1>3 DEF Found

LEMMA AddNewGrows ==
  ASSUME NEW t, IsTable(t), NEW e, IsEntry(e)
  PROVE  /\ Len(AddNew(t, e)) \in Nat /\ Len(t) \in Nat
         /\ Len(AddNew(t, e)) <= Len(t) + 1
         /\ Has(t, e.addr) => AddNew(t, e) = t
         /\ \A b : Has(t, b) => Found(AddNew(t, e), b) = Found(t, b)
         /\ ~Has(t, e.addr) => Found(AddNew(t, e), e.addr) = e
         /\ \A X : KnownBut(t, X) /\ (e.scope # Unknown \/ e.addr \in X \/ Has(t, e.addr))
                     => KnownBut(AddNew(t, e), X)
<1>1. t \in Seq(Elems(t)) /\ Len(t) \in Nat /\ DOMAIN t = 1 .. Len(t)
  BY DEF IsTable
<1>2. CASE Has(t, e.addr)
  BY <1>1, <1>2 DEF AddNew
<1>3. CASE ~Has(t, e.addr)
  <2> DEFINE u == Append(t, e)
             m == Len(t)
  <2>1. AddNew(t, e) = u
    BY <1>3 DEF AddNew
  <2>2. Len(u) = m + 1 /\ DOMAIN u = 1 .. m + 1 /\ u[m + 1] = e /\ \A i \in 1 .. m : u[i] = t[i]
    BY <1>1
  <2>3. IsTable(u)
    BY <1>3, AppendTable
  <2> HIDE DEF u
  <2>4. ASSUME NEW b, Has(t, b) PROVE Found(u, b) = Found(t, b)
    <3>1. PICK i \in DOMAIN t : t[i].addr = b
      BY <2>4 DEF Has
    <3>2. Found(t, b) = t[i]
      BY <3>1, FoundIs
    <3>3. i \in DOMAIN u /\ u[i] = t[i]
      BY <1>1, <2>2
    <3>4. Found(u, b) = u[i]
      BY <2>3, <3>1, <3>3, FoundIs
    <3> QED BY <3>2, <3>3, <3>4
  <2>5. Found(u, e.addr) = e
    <3>1. m + 1 \in DOMAIN u
      BY <1>1, <2>2
    <3> QED BY <2>2, <2>3, <3>1, FoundIs
  <2>6. ASSUME NEW X, KnownBut(t, X), e.scope # Unknown \/ e.addr \in X PROVE KnownBut(u, X)
    BY <1>1, <2>2, <2>6 DEF KnownBut
  <2> QED BY <1>1, <1>3, <2>1, <2>2, <2>4, <2>5, <2>6
<1> QED BY <1>2, <1>3

LEMMA UpdateKeeps ==
  ASSUME NEW t, IsTable(t), NEW v, IsEntry(v), Has(t, v.addr)
  PROVE  /\ Len(Update(t, v)) = Len(t) /\ Len(t) \in Nat
         /\ Kept(t, Update(t, v), v.addr)
         /\ Has(Update(t, v), v.addr)
         /\ \A X : v.scope # Unknown /\ KnownBut(t, X) => KnownBut(Update(t, v), X \ {v.addr})
<1> DEFINE k == Search(t, v.addr)
           u == [t EXCEPT ![k] = v]
<1>1. k \in DOMAIN t /\ t[k].addr = v.addr
  BY SearchFinds
<1>2. Update(t, v) = u
  BY DEF Update
<1>3. IsTable(Update(t, v)) /\ \A a : Has(t, a) => Has(Update(t, v), a)
  BY UpdateTable
<1>4. DOMAIN t = 1 .. Len(t) /\ Len(t) \in Nat
  BY DEF IsTable
<1> HIDE DEF k
<1>5. DOMAIN u = DOMAIN t /\ u[k] = v /\ \A i \in DOMAIN t \ {k} : u[i] = t[i]
  BY <1>1
<1> HIDE DEF u
<1>6. DOMAIN u = 1 .. Len(u) /\ Len(u) \in Nat
  BY <1>2, <1>3 DEF IsTable
<1>7. Len(u) = Len(t)
  BY <1>4, <1>5, <1>6
<1>8. ASSUME NEW b, b # v.addr, Has(t, b) PROVE Found(u, b) = Found(t, b)
  <2>1. PICK i \in DOMAIN t : t[i].addr = b
    BY <1>8 DEF Has
  <2>2. i # k
    BY <1>1, <1>8, <2>1
  <2>3. Found(t, b) = t[i]
    BY <2>1, FoundIs
  <2>4. Found(u, b) = u[i]
    BY <1>2, <1>3, <1>5, <2>1, <2>2, FoundIs
  <2> QED BY <1>5, <2>2, <2>3, <2>4
<1>9. ASSUME NEW X, v.scope # Unknown, KnownBut(t, X) PROVE KnownBut(u, X \ {v.addr})
  <2> SUFFICES ASSUME NEW i \in DOMAIN u, u[i].scope = Unknown PROVE u[i].addr \in X \ {v.addr}
    BY DEF KnownBut
  <2>1. i # k
    BY <1>5, <1>9
  <2>2. u[i] = t[i] /\ i \in DOMAIN t
    BY <1>5, <2>1
  <2>3. t[i].addr # v.addr
    BY <1>1, <2>1, <2>2 DEF IsTable, Unique
  <2> QED BY <1>9, <2>2, <2>3 DEF KnownBut
<1> QED BY <1>2, <1>3, <1>4, <1>7, <1>8, <1>9 DEF Kept

LEMMA AssignKeeps ==
  ASSUME NEW t, IsTable(t), NEW v, IsEntry(v), NEW a
  PROVE  /\ Len(Assign(t, a, v)) \in Nat /\ Len(t) \in Nat
         /\ Len(Assign(t, a, v)) <= Len(t) + 1
         /\ Has(t, a) => Len(Assign(t, a, v)) = Len(t)
         /\ Kept(t, Assign(t, a, v), a)
         /\ Has(Assign(t, a, v), a)
         /\ \A X : v.scope # Unknown /\ KnownBut(t, X) => KnownBut(Assign(t, a, v), X \ {a})
<1> DEFINE e == Entry(a, 0, 0, Unknown)
           u == AddNew(t, e)
           w == [v EXCEPT !.addr = a]
           z == Update(u, w)
<1>1. IsEntry(e) /\ e.addr = a
  BY EntryIsEntry
<1>2. IsEntry(w) /\ w.addr = a /\ w.scope = v.scope
  BY DEF IsEntry, Entry
<1>3. Assign(t, a, v) = z
  BY DEF Assign
<1> HIDE DEF e, w
<1>4. IsTable(u) /\ Has(u, a) /\ \A b : Has(t, b) => Has(u, b)
  BY <1>1, AddNewTable
<1>5. /\ Len(u) \in Nat /\ Len(t) \in Nat /\ Len(u) <= Len(t) + 1
      /\ Has(t, a) => u = t
      /\ \A b : Has(t, b) => Found(u, b) = Found(t, b)
  BY <1>1, AddNewGrows
<1>6. \A X : KnownBut(t, X) => KnownBut(u, X \cup {a})
  <2> SUFFICES ASSUME NEW X, KnownBut(t, X) PROVE KnownBut(u, X \cup {a})
    OBVIOUS
  <2>1. KnownBut(t, X \cup {a})
    BY DEF KnownBut
  <2> QED BY <1>1, <2>1, AddNewGrows
<1> HIDE DEF u
<1>7. /\ Len(z) = Len(u) /\ Kept(u, z, a) /\ Has(z, a)
      /\ \A X : v.scope # Unknown /\ KnownBut(u, X) => KnownBut(z, X \ {a})
  BY <1>2, <1>4, UpdateKeeps
<1> HIDE DEF z
<1>8. Kept(t, z, a)
  BY <1>4, <1>5, <1>7 DEF Kept
<1>9. ASSUME NEW X, v.scope # Unknown, KnownBut(t, X) PROVE KnownBut(z, X \ {a})
  <2>1. KnownBut(z, (X \cup {a}) \ {a})
    BY <1>6, <1>7, <1>9
  <2>2. (X \cup {a}) \ {a} = X \ {a}
    OBVIOUS
  <2> QED BY <2>1, <2>2
<1> QED BY <1>3, <1>5, <1>7, <1>8, <1>9

-----------------------------------------------------------------------------
(* Operands: what reading and writing them leaves alone *)

\* An operand that is a register or a constant, and no cell.
Plain(o) == o.ind = "DIRECT" /\ o.store \in {"REG", "IMM"}
PlainReg(o) == o.ind = "DIRECT" /\ o.store = "REG"

\* Only registers in X have no scope; memory and stack have one everywhere.
KnownState(s, X) == KnownBut(s.reg, X) /\ KnownBut(s.stack, {}) /\ KnownBut(s.data, {})

\* The register an indirect operand goes through has an entry, or may lack a scope.
Opened(s, o, X) == Goes(o) => Has(s.reg, o.idx) \/ o.idx \in X

\* The lengths of the stores are numbers.
Sizes(s) == Len(s.reg) \in Nat /\ Len(s.stack) \in Nat /\ Len(s.data) \in Nat

LEMMA StateSizes == ASSUME NEW s, IsState(s) PROVE Sizes(s)
BY DEF IsState, IsTable, Sizes

\* Registers are found as before.
SameRegs(s, u) == \A b : Has(s.reg, b) => Has(u.reg, b) /\ Found(u.reg, b) = Found(s.reg, b)

LEMMA ThroughKeeps ==
  ASSUME NEW s, IsState(s), NEW r
  PROVE  /\ IsState(Through(s, r)) /\ Has(Through(s, r).reg, r)
         /\ Through(s, r).stack = s.stack /\ Through(s, r).data = s.data
         /\ SameRegs(s, Through(s, r))
         /\ Has(s.reg, r) => Through(s, r).reg = s.reg
         /\ \A X : KnownState(s, X) /\ (Has(s.reg, r) \/ r \in X) => KnownState(Through(s, r), X)
<1> DEFINE e == Entry(r, 0, 0, Unknown)
           t == AddNew(s.reg, e)
           u == [s EXCEPT !.reg = t]
<1>1. IsEntry(e) /\ e.addr = r
  BY EntryIsEntry
<1>2. Through(s, r) = u
  BY DEF Through
<1> HIDE DEF e
<1>3. Has(t, r) /\ \A b : Has(s.reg, b) => Has(t, b)
  BY <1>1, AddNewTable DEF IsState
<1>4. /\ Has(s.reg, r) => t = s.reg
      /\ \A b : Has(s.reg, b) => Found(t, b) = Found(s.reg, b)
      /\ \A X : KnownBut(s.reg, X) /\ (r \in X \/ Has(s.reg, r)) => KnownBut(t, X)
  BY <1>1, AddNewGrows DEF IsState
<1> HIDE DEF t
<1>5. u.reg = t /\ u.stack = s.stack /\ u.data = s.data
  BY DEF IsState
<1>6. IsState(u)
  BY <1>2, ThroughState
<1> HIDE DEF u
<1> QED BY <1>2, <1>3, <1>4, <1>5, <1>6 DEF SameRegs, KnownState

\* What a read of operand o in s, with the outcome g, leaves.
ReadKeeps(s, o, g) ==
  /\ SameRegs(s, g.st) /\ Sizes(g.st)
  /\ o.ind # "STACK" => g.st.stack = s.stack
  /\ o.ind # "MEM" => g.st.data = s.data
  /\ Len(g.st.stack) <= Len(s.stack) + 1 /\ Len(g.st.data) <= Len(s.data) + 1
  /\ o.ind = "STACK" => Has(g.st.stack, Pointed(g.st, o.idx))

LEMMA GetKeeps ==
  ASSUME NEW s, IsState(s), NEW o, NEW second
  PROVE  ReadKeeps(s, o, Get(s, o, second))
<1> DEFINE g == Get(s, o, second)
<1> SUFFICES ReadKeeps(s, o, g)
  OBVIOUS
<1>0. IsState(g.st)
  BY GetState
<1>1. Sizes(g.st) /\ Sizes(s)
  BY <1>0, StateSizes
<1>2. CASE o.ind = "DIRECT" /\ o.store = "REG"
  <2> DEFINE e == Entry(o.idx, 0, 0, IF second THEN Local ELSE Param)
             t == AddNew(s.reg, e)
             u == [s EXCEPT !.reg = t]
  <2>1. IsEntry(e) /\ e.addr = o.idx
    BY EntryIsEntry
  <2>2. g.st = u
    BY <1>2 DEF Get, GetReg, Got
  <2> HIDE DEF e
  <2>3. \A b : Has(s.reg, b) => Has(t, b) /\ Found(t, b) = Found(s.reg, b)
    BY <2>1, AddNewTable, AddNewGrows DEF IsState
  <2> HIDE DEF t
  <2>4. u.reg = t /\ u.stack = s.stack /\ u.data = s.data
    BY DEF IsState
  <2> HIDE DEF u, g
  <2> QED BY <1>1, <1>2, <2>2, <2>3, <2>4 DEF SameRegs, Sizes, Goes, ReadKeeps
<1>3. CASE o.ind = "MEM"
  <2> DEFINE s1 == Through(s, o.idx)
             a == Pointed(s1, o.idx)
             e == Entry(a, ReadData(a), 0, InData)
             t == AddNew(s1.data, e)
             u == [s1 EXCEPT !.data = t]
  <2>1. g.st = u
    BY <1>3 DEF Get, GetMem, Got
  <2>2. /\ IsState(s1) /\ SameRegs(s, s1) /\ s1.stack = s.stack /\ s1.data = s.data
        /\ Has(s.reg, o.idx) => s1.reg = s.reg
    BY ThroughKeeps
  <2>3. IsEntry(e)
    BY EntryIsEntry
  <2> HIDE DEF s1, a, e
  <2>4. Len(t) <= Len(s1.data) + 1
    BY <2>2, <2>3, AddNewGrows DEF IsState
  <2> HIDE DEF t
  <2>5. u.reg = s1.reg /\ u.stack = s1.stack /\ u.data = t
    BY <2>2 DEF IsState
  <2> HIDE DEF u, g
  <2> QED BY <1>1, <1>3, <2>1, <2>2, <2>4, <2>5 DEF SameRegs, Sizes, ReadKeeps
<1>4. CASE o.ind = "STACK"
  <2> DEFINE s1 == Through(s, o.idx)
             a == Pointed(s1, o.idx)
             e == Entry(a, 0, 0, IF a > SP0 THEN Param ELSE Local)
             t == AddNew(s1.stack, e)
             u == [s1 EXCEPT !.stack = t]
  <2>1. g.st = u
    BY <1>4 DEF Get, GetStack, Got
  <2>2. /\ IsState(s1) /\ SameRegs(s, s1) /\ s1.stack = s.stack /\ s1.data = s.data
        /\ Has(s.reg, o.idx) => s1.reg = s.reg
    BY ThroughKeeps
  <2>3. IsEntry(e) /\ e.addr = a
    BY EntryIsEntry
  <2>6. a = Value(Found(s1.reg, o.idx))
    BY DEF Pointed
  <2> HIDE DEF s1, a, e
  <2>4. Len(t) <= Len(s1.stack) + 1 /\ Has(t, a)
    BY <2>2, <2>3, AddNewGrows, AddNewTable DEF IsState
  <2> HIDE DEF t
  <2>5. u.reg = s1.reg /\ u.stack = t /\ u.data = s1.data
    BY <2>2 DEF IsState
  <2> HIDE DEF u
  <2>7. Pointed(u, o.idx) = a
    BY <2>5, <2>6 DEF Pointed
  <2> HIDE DEF g
  <2> QED BY <1>1, <1>4, <2>1, <2>2, <2>4, <2>5, <2>7 DEF SameRegs, Sizes, ReadKeeps
<1>5. CASE ~(o.ind = "DIRECT" /\ o.store = "REG") /\ o.ind # "MEM" /\ o.ind # "STACK"
  <2>1. g.st = s
    BY <1>5 DEF Get, GetImm, Got
  <2> HIDE DEF g
  <2> QED BY <1>1, <1>5, <2>1 DEF SameRegs, Sizes, Goes, ReadKeeps
<1> QED BY <1>2, <1>3, <1>4, <1>5

\* An operand read has a scope where every entry it can meet has one.
ReadKnown(s, o, g, X) ==
  /\ KnownState(g.st, X)
  /\ Plain(o) /\ (PlainReg(o) => o.idx \notin X) => g.val.scope # Unknown
  /\ o.ind \in {"MEM", "STACK"} => g.val.scope # Unknown
  /\ PlainReg(o) => Has(g.st.reg, o.idx)

LEMMA GetKnown ==
  ASSUME NEW s, IsState(s), NEW o, NEW second, NEW X, KnownState(s, X), Opened(s, o, X)
  PROVE  ReadKnown(s, o, Get(s, o, second), X)
<1> DEFINE g == Get(s, o, second)
<1> SUFFICES ReadKnown(s, o, g, X)
  OBVIOUS
<1>2. CASE o.ind = "DIRECT" /\ o.store = "REG"
  <2> DEFINE e == Entry(o.idx, 0, 0, IF second THEN Local ELSE Param)
             t == AddNew(s.reg, e)
             u == [s EXCEPT !.reg = t]
  <2>1. IsEntry(e) /\ e.addr = o.idx /\ e.scope # Unknown
    BY EntryIsEntry DEF Entry, Unknown, Local, Param
  <2>2. g = Got(u, Found(u.reg, o.idx))
    BY <1>2 DEF Get, GetReg
  <2> HIDE DEF e
  <2>3. IsTable(t) /\ Has(t, o.idx)
    BY <2>1, AddNewTable DEF IsState
  <2>4. KnownBut(t, X)
    BY <2>1, AddNewGrows DEF IsState, KnownState
  <2> HIDE DEF t
  <2>5. u.reg = t /\ u.stack = s.stack /\ u.data = s.data
    BY DEF IsState
  <2> HIDE DEF u
  <2>6. g.st = u /\ g.val = Found(t, o.idx)
    BY <2>2, <2>5 DEF Got
  <2> HIDE DEF g
  <2>7. o.idx \notin X => Found(t, o.idx).scope # Unknown
    BY <2>3, <2>4, SearchFinds DEF KnownBut, Found
  <2>8. KnownState(u, X)
    BY <2>4, <2>5 DEF KnownState
  <2> QED BY <1>2, <2>3, <2>5, <2>6, <2>7, <2>8 DEF Plain, PlainReg, ReadKnown
<1>3. CASE o.ind = "MEM"
  <2> DEFINE s1 == Through(s, o.idx)
             a == Pointed(s1, o.idx)
             e == Entry(a, ReadData(a), 0, InData)
             t == AddNew(s1.data, e)
             u == [s1 EXCEPT !.data = t]
  <2>1. g = Got(u, Found(u.data, a))
    BY <1>3 DEF Get, GetMem
  <2>2. IsState(s1) /\ KnownState(s1, X)
    BY <1>3, ThroughKeeps DEF Opened, Goes
  <2>3. IsEntry(e) /\ e.addr = a /\ e.scope # Unknown
    BY EntryIsEntry DEF Entry, Unknown, InData
  <2> HIDE DEF s1, a, e
  <2>4. IsTable(t) /\ Has(t, a)
    BY <2>2, <2>3, AddNewTable DEF IsState
  <2>5. KnownBut(t, {})
    BY <2>2, <2>3, AddNewGrows DEF IsState, KnownState
  <2> HIDE DEF t
  <2>6. u.reg = s1.reg /\ u.stack = s1.stack /\ u.data = t
    BY <2>2 DEF IsState
  <2> HIDE DEF u
  <2>7. g.st = u /\ g.val = Found(t, a)
    BY <2>1, <2>6 DEF Got
  <2> HIDE DEF g
  <2>8. Found(t, a).scope # Unknown
    BY <2>4, <2>5, SearchFinds DEF KnownBut, Found
  <2>9. KnownState(u, X)
    BY <2>2, <2>5, <2>6 DEF KnownState
  <2> QED BY <1>3, <2>7, <2>8, <2>9 DEF Plain, PlainReg, ReadKnown
<1>4. CASE o.ind = "STACK"
  <2> DEFINE s1 == Through(s, o.idx)
             a == Pointed(s1, o.idx)
             e == Entry(a, 0, 0, IF a > SP0 THEN Param ELSE Local)
             t == AddNew(s1.stack, e)
             u == [s1 EXCEPT !.stack = t]
  <2>1. g = Got(u, Found(u.stack, a))
    BY <1>4 DEF Get, GetStack
  <2>2. IsState(s1) /\ KnownState(s1, X)
    BY <1>4, ThroughKeeps DEF Opened, Goes
  <2>3. IsEntry(e) /\ e.addr = a /\ e.scope # Unknown
    BY EntryIsEntry DEF Entry, Unknown, Local, Param
  <2> HIDE DEF s1, a, e
  <2>4. IsTable(t) /\ Has(t, a)
    BY <2>2, <2>3, AddNewTable DEF IsState
  <2>5. KnownBut(t, {})
    BY <2>2, <2>3, AddNewGrows DEF IsState, KnownState
  <2> HIDE DEF t
  <2>6. u.reg = s1.reg /\ u.stack = t /\ u.data = s1.data
    BY <2>2 DEF IsState
  <2> HIDE DEF u
  <2>7. g.st = u /\ g.val = Found(t, a)
    BY <2>1, <2>6 DEF Got
  <2> HIDE DEF g
  <2>8. Found(t, a).scope # Unknown
    BY <2>4, <2>5, SearchFinds DEF KnownBut, Found
  <2>9. KnownState(u, X)
    BY <2>2, <2>5, <2>6 DEF KnownState
  <2> QED BY <1>4, <2>7, <2>8, <2>9 DEF Plain, PlainReg, ReadKnown
<1>5. CASE ~(o.ind = "DIRECT" /\ o.store = "REG") /\ o.ind # "MEM" /\ o.ind # "STACK"
  <2>1. g.st = s
    BY <1>5 DEF Get, GetImm, Got
  <2>2. Plain(o) => g.val.scope # Unknown
    BY <1>5 DEF Get, GetImm, Got, Plain, Entry, Const, Unknown
  <2> HIDE DEF g
  <2> QED BY <1>5, <2>1, <2>2 DEF Plain, PlainReg, ReadKnown
<1> QED BY <1>2, <1>3, <1>4, <1>5

\* What a write of v to operand o in s, with the outcome u, leaves.
WriteKeeps(s, o, v, u) ==
  /\ Kept(s.reg, u.reg, o.idx) /\ Sizes(u)
  /\ Has(s.reg, o.idx) => Has(u.reg, o.idx)
  /\ ~PlainReg(o) => SameRegs(s, u)
  /\ o.ind # "STACK" => u.stack = s.stack
  /\ o.ind # "MEM" => u.data = s.data
  /\ Len(u.stack) <= Len(s.stack) + 1 /\ Len(u.data) <= Len(s.data) + 1
  /\ Has(s.reg, o.idx) /\ Has(s.stack, Pointed(s, o.idx)) => Len(u.stack) = Len(s.stack)
  /\ PlainReg(o) => Has(u.reg, o.idx)
  /\ \A X : KnownState(s, X) /\ Opened(s, o, X) /\ v.scope # Unknown
     => KnownState(u, IF PlainReg(o) THEN X \ {o.idx} ELSE X)

LEMMA PutKeeps ==
  ASSUME NEW s, IsState(s), NEW o, NEW v, IsEntry(v)
  PROVE  WriteKeeps(s, o, v, Put(s, o, v))
<1> DEFINE u == Put(s, o, v)
<1> SUFFICES WriteKeeps(s, o, v, u)
  OBVIOUS
<1>0. IsState(u)
  BY PutState
<1>1. Sizes(u) /\ Sizes(s)
  BY <1>0, StateSizes
<1>2. CASE o.ind = "DIRECT" /\ o.store = "REG"
  <2> DEFINE t == Assign(s.reg, o.idx, v)
  <2>1. u = [s EXCEPT !.reg = t]
    BY <1>2 DEF Put, PutReg
  <2>2. /\ Kept(s.reg, t, o.idx) /\ Has(t, o.idx)
        /\ \A X : v.scope # Unknown /\ KnownBut(s.reg, X) => KnownBut(t, X \ {o.idx})
    BY AssignKeeps DEF IsState
  <2> HIDE DEF t
  <2>3. u.reg = t /\ u.stack = s.stack /\ u.data = s.data
    BY <2>1 DEF IsState
  <2> HIDE DEF u
  <2> QED BY <1>1, <1>2, <2>2, <2>3 DEF PlainReg, Sizes, KnownState, WriteKeeps
<1>3. CASE o.ind = "MEM"
  <2> DEFINE s1 == Through(s, o.idx)
             a == Pointed(s1, o.idx)
             t == Assign(s1.data, a, v)
  <2>1. u = [s1 EXCEPT !.data = t]
    BY <1>3 DEF Put, PutMem
  <2>2. /\ IsState(s1) /\ SameRegs(s, s1) /\ s1.stack = s.stack /\ s1.data = s.data
        /\ \A X : KnownState(s, X) /\ Opened(s, o, X) => KnownState(s1, X)
    BY <1>3, ThroughKeeps DEF Opened, Goes
  <2> HIDE DEF s1, a
  <2>3. /\ Len(t) <= Len(s1.data) + 1
        /\ \A X : v.scope # Unknown /\ KnownBut(s1.data, X) => KnownBut(t, X \ {a})
    BY <2>2, AssignKeeps DEF IsState
  <2>4. v.scope # Unknown /\ KnownBut(s1.data, {}) => KnownBut(t, {})
    <3>1. {} \ {a} = {}
      OBVIOUS
    <3> QED BY <2>3, <3>1
  <2> HIDE DEF t
  <2>5. u.reg = s1.reg /\ u.stack = s1.stack /\ u.data = t
    BY <2>1, <2>2 DEF IsState
  <2> HIDE DEF u
  <2>6. SameRegs(s, u) /\ Kept(s.reg, u.reg, o.idx)
    BY <2>2, <2>5 DEF SameRegs, Kept
  <2>7. \A X : KnownState(s, X) /\ Opened(s, o, X) /\ v.scope # Unknown => KnownState(u, X)
    BY <2>2, <2>4, <2>5 DEF KnownState
  <2>8. Has(s.reg, o.idx) => Has(u.reg, o.idx)
    BY <2>6 DEF SameRegs
  <2> QED BY <1>1, <1>3, <2>2, <2>3, <2>5, <2>6, <2>7, <2>8 DEF PlainReg, Sizes, WriteKeeps
<1>4. CASE o.ind = "STACK"
  <2> DEFINE s1 == Through(s, o.idx)
             a == Pointed(s1, o.idx)
             t == Assign(s1.stack, a, v)
  <2>1. u = [s1 EXCEPT !.stack = t]
    BY <1>4 DEF Put, PutStack
  <2>2. /\ IsState(s1) /\ SameRegs(s, s1) /\ s1.stack = s.stack /\ s1.data = s.data
        /\ Has(s.reg, o.idx) => s1.reg = s.reg
        /\ \A X : KnownState(s, X) /\ Opened(s, o, X) => KnownState(s1, X)
    BY <1>4, ThroughKeeps DEF Opened, Goes
  <2>9. Has(s.reg, o.idx) => a = Pointed(s, o.idx)
    BY <2>2 DEF Pointed
  <2> HIDE DEF s1, a
  <2>3. /\ Len(t) <= Len(s1.stack) + 1
        /\ Has(s1.stack, a) => Len(t) = Len(s1.stack)
        /\ \A X : v.scope # Unknown /\ KnownBut(s1.stack, X) => KnownBut(t, X \ {a})
    BY <2>2, AssignKeeps DEF IsState
  <2>4. v.scope # Unknown /\ KnownBut(s1.stack, {}) => KnownBut(t, {})
    <3>1. {} \ {a} = {}
      OBVIOUS
    <3> QED BY <2>3, <3>1
  <2> HIDE DEF t
  <2>5. u.reg = s1.reg /\ u.stack = t /\ u.data = s1.data
    BY <2>1, <2>2 DEF IsState
  <2> HIDE DEF u
  <2>6. SameRegs(s, u) /\ Kept(s.reg, u.reg, o.idx)
    BY <2>2, <2>5 DEF SameRegs, Kept
  <2>7. \A X : KnownState(s, X) /\ Opened(s, o, X) /\ v.scope # Unknown => KnownState(u, X)
    BY <2>2, <2>4, <2>5 DEF KnownState
  <2>8. Has(s.reg, o.idx) => Has(u.reg, o.idx)
    BY <2>6 DEF SameRegs
  <2> QED BY <1>1, <1>4, <2>2, <2>3, <2>5, <2>6, <2>7, <2>8, <2>9 DEF PlainReg, Sizes, WriteKeeps
<1>5. CASE ~(o.ind = "DIRECT" /\ o.store = "REG") /\ o.ind # "MEM" /\ o.ind # "STACK"
  <2>1. u = s
    BY <1>5 DEF Put
  <2> HIDE DEF u
  <2> QED BY <1>1, <1>5, <2>1 DEF SameRegs, Sizes, PlainReg, Kept, WriteKeeps
<1> QED BY <1>2, <1>3, <1>4, <1>5

-----------------------------------------------------------------------------
(* Instructions that only name registers and constants *)

\* An instruction that accesses no cell.
Quiet(e) == Plain(e.srcA) /\ Plain(e.srcB) /\ Plain(e.dstA)

\* Cells stay; registers but d and EIP are found as before, and none is lost.
QuietStep(s, u, d) ==
  /\ u.stack = s.stack /\ u.data = s.data
  /\ \A b : Has(s.reg, b) => Has(u.reg, b)
  /\ \A b : b # IP /\ b # d /\ Has(s.reg, b) => Found(u.reg, b) = Found(s.reg, b)

LEMMA QuietJoin ==
  ASSUME NEW s, NEW u, NEW w, NEW d, QuietStep(s, u, d), QuietStep(u, w, d)
  PROVE  QuietStep(s, w, d)
BY DEF QuietStep

LEMMA QuietGet ==
  ASSUME NEW s, IsState(s), NEW o, Plain(o), NEW second, NEW d
  PROVE  QuietStep(s, Get(s, o, second).st, d)
<1>1. ReadKeeps(s, o, Get(s, o, second))
  BY GetKeeps
<1> QED BY <1>1 DEF QuietStep, ReadKeeps, Plain, SameRegs

LEMMA QuietPut ==
  ASSUME NEW s, IsState(s), NEW o, Plain(o), NEW v, IsEntry(v)
  PROVE  QuietStep(s, Put(s, o, v), o.idx)
<1>1. WriteKeeps(s, o, v, Put(s, o, v))
  BY PutKeeps
<1> QED BY <1>1 DEF QuietStep, WriteKeeps, Plain, Kept

\* The scope of a result is that of one of the values.
LEMMA ResultScope ==
  ASSUME NEW e, e.op \in Binary, NEW v1, IsEntry(v1), NEW v2, IsEntry(v2)
  PROVE  LET v == BinaryResult(e, v1, v2)
         IN  /\ v.scope \in {v1.scope, v2.scope}
             /\ e.op \notin {"MUL", "IMUL"} => v.scope = v1.scope
<1>1. \A x : [v1 EXCEPT !.off = x].scope = v1.scope /\ [v2 EXCEPT !.off = x].scope = v2.scope
  BY DEF IsEntry, Entry
<1>2. \A x : Folded(v1, x).scope = v1.scope
  BY DEF Folded, Entry
<1>3. /\ AddResult(v1, v2).scope = v1.scope /\ SubResult(v1, v2).scope = v1.scope
      /\ SbbResult(v1, v2).scope = v1.scope
  BY <1>1 DEF AddResult, SubResult, SbbResult
<1>4. \A b : MulResult(v1, v2, b).scope \in {v1.scope, v2.scope}
  BY <1>1 DEF MulResult
<1>5. /\ AndResult(v1, v2).scope = v1.scope /\ OrResult(v1, v2).scope = v1.scope
      /\ XorResult(v1, v2).scope = v1.scope
      /\ ShlResult(v1, v2).scope = v1.scope /\ ShrResult(v1, v2).scope = v1.scope
      /\ SalResult(v1, v2).scope = v1.scope /\ SarResult(v1, v2).scope = v1.scope
  BY <1>2 DEF AndResult, OrResult, XorResult, ShlResult, ShrResult, SalResult, SarResult
<1> QED BY <1>3, <1>4, <1>5 DEF BinaryResult, Binary

\* Operations that write a register r, if they do not end the program.
Sets(e, r) == e.op \in {"MOV", "ADD", "SUB", "IMUL"} /\ PlainReg(e.dstA) /\ e.dstA.idx = r

\* Outcome r of the quiet instruction e in s.
QuietKeeps(s, e, r) ==
  /\ QuietStep(s, r.st, e.dstA.idx)
  /\ KnownState(s, {}) /\ e.op # "ADC" /\ ~Rejected(e) => ~r.exit /\ KnownState(r.st, {})
  /\ \A b : Sets(e, b) /\ ~r.exit => Has(r.st.reg, b)

LEMMA PlainOpened == ASSUME NEW o, Plain(o), NEW s, NEW X PROVE Opened(s, o, X)
BY DEF Plain, Opened, Goes

LEMMA PutPlainKnown ==
  ASSUME NEW s, IsState(s), NEW o, Plain(o), NEW v, IsEntry(v)
  PROVE  /\ v.scope # Unknown /\ KnownState(s, {}) => KnownState(Put(s, o, v), {})
         /\ PlainReg(o) => Has(Put(s, o, v).reg, o.idx)
<1>1. WriteKeeps(s, o, v, Put(s, o, v)) /\ Opened(s, o, {})
  BY PutKeeps, PlainOpened
<1>2. \A x : {} \ {x} = {}
  OBVIOUS
<1> QED BY <1>1, <1>2 DEF WriteKeeps

\* Two operands read and a result written.
LEMMA QuietWrite ==
  ASSUME NEW s, IsState(s), NEW u, IsState(u), NEW e, Quiet(e), QuietStep(s, u, e.dstA.idx),
         NEW v, IsEntry(v)
  PROVE  /\ QuietStep(s, Put(u, e.dstA, v), e.dstA.idx)
         /\ v.scope # Unknown /\ KnownState(u, {}) => KnownState(Put(u, e.dstA, v), {})
         /\ \A b : Sets(e, b) => Has(Put(u, e.dstA, v).reg, b)
<1>1. QuietStep(u, Put(u, e.dstA, v), e.dstA.idx)
  BY QuietPut DEF Quiet
<1>2. QuietStep(s, Put(u, e.dstA, v), e.dstA.idx)
  BY <1>1, QuietJoin
<1> QED BY <1>2, PutPlainKnown DEF Quiet, Sets

LEMMA QuietReads ==
  ASSUME NEW s, IsState(s), NEW e, Quiet(e), NEW x, NEW y
  PROVE  LET a == Get(s, e.srcA, x)
             b == Get(a.st, e.srcB, y)
         IN  /\ IsState(a.st) /\ IsEntry(a.val) /\ IsState(b.st) /\ IsEntry(b.val)
             /\ QuietStep(s, a.st, e.dstA.idx) /\ QuietStep(s, b.st, e.dstA.idx)
             /\ KnownState(s, {}) => /\ KnownState(a.st, {}) /\ KnownState(b.st, {})
                                     /\ a.val.scope # Unknown /\ b.val.scope # Unknown
<1> DEFINE a == Get(s, e.srcA, x)
           b == Get(a.st, e.srcB, y)
<1>1. IsState(a.st) /\ IsEntry(a.val)
  BY GetState
<1>2. QuietStep(s, a.st, e.dstA.idx)
  BY QuietGet DEF Quiet
<1>3. KnownState(s, {}) => KnownState(a.st, {}) /\ a.val.scope # Unknown
  <2>1. Opened(s, e.srcA, {}) /\ Plain(e.srcA)
    BY PlainOpened DEF Quiet
  <2> QED BY <2>1, GetKnown DEF ReadKnown
<1> HIDE DEF a
<1>4. IsState(b.st) /\ IsEntry(b.val)
  BY <1>1, GetState
<1>5. QuietStep(a.st, b.st, e.dstA.idx)
  BY <1>1, QuietGet DEF Quiet
<1>6. KnownState(a.st, {}) => KnownState(b.st, {}) /\ b.val.scope # Unknown
  <2>1. Opened(a.st, e.srcB, {}) /\ Plain(e.srcB)
    BY PlainOpened DEF Quiet
  <2> QED BY <1>1, <2>1, GetKnown DEF ReadKnown
<1> HIDE DEF b
<1>7. QuietStep(s, b.st, e.dstA.idx)
  BY <1>2, <1>5, QuietJoin
<1> QED BY <1>1, <1>2, <1>3, <1>4, <1>6, <1>7 DEF a, b

LEMMA QuietRuns ==
  ASSUME NEW s, IsState(s), NEW e, Quiet(e)
  PROVE  QuietKeeps(s, e, Execute(s, e))
<1> DEFINE a(x) == Get(s, e.srcA, x)
           b(x, y) == Get(a(x).st, e.srcB, y)
           d == e.dstA.idx
<1>1. \A x : IsState(a(x).st) /\ IsEntry(a(x).val) /\ QuietStep(s, a(x).st, d)
             /\ (KnownState(s, {}) => KnownState(a(x).st, {}) /\ a(x).val.scope # Unknown)
  BY QuietReads
<1>2. \A x, y : IsState(b(x, y).st) /\ IsEntry(b(x, y).val) /\ QuietStep(s, b(x, y).st, d)
             /\ (KnownState(s, {}) => KnownState(b(x, y).st, {}) /\ b(x, y).val.scope # Unknown)
  BY QuietReads
<1>0. QuietStep(s, s, d)
  BY DEF QuietStep
<1> DEFINE x == e.op = "XOR" /\ e.srcA = e.srcB
           y == e.op # "SAR"
           v == BinaryResult(e, a(x).val, b(x, y).val)
<1>3. ASSUME e.op \in Binary PROVE QuietKeeps(s, e, ExecBinary(s, e))
  <2> DEFINE p == a(x)
             q == b(x, y)
  <2>1. ExecBinary(s, e).st = Put(q.st, e.dstA, v) /\ ExecBinary(s, e).exit = (v.scope = Unknown)
    BY DEF ExecBinary, Done
  <2>2. v = BinaryResult(e, p.val, q.val)
    OBVIOUS
  <2>3. /\ IsState(p.st) /\ IsEntry(p.val) /\ QuietStep(s, p.st, d)
        /\ (KnownState(s, {}) => KnownState(p.st, {}) /\ p.val.scope # Unknown)
    BY <1>1
  <2>4. /\ IsState(q.st) /\ IsEntry(q.val) /\ QuietStep(s, q.st, d)
        /\ (KnownState(s, {}) => KnownState(q.st, {}) /\ q.val.scope # Unknown)
    BY <1>2
  <2> HIDE DEF p, q, v, x, y, a, b
  <2>5. IsEntry(v) /\ v.scope \in {p.val.scope, q.val.scope}
    BY <1>3, <2>2, <2>3, <2>4, BinaryEntry, ResultScope
  <2> DEFINE w == Put(q.st, e.dstA, v)
  <2>6. /\ QuietStep(s, w, d)
        /\ v.scope # Unknown /\ KnownState(q.st, {}) => KnownState(w, {})
        /\ \A c : Sets(e, c) => Has(w.reg, c)
    BY <2>4, <2>5, QuietWrite
  <2> HIDE DEF w
  <2> QED BY <2>1, <2>3, <2>4, <2>5, <2>6 DEF QuietKeeps, w
<1> HIDE DEF x, y, v
<1> DEFINE f == a(FALSE)
           g == b(FALSE, TRUE)
<1>f. /\ IsState(f.st) /\ IsEntry(f.val) /\ QuietStep(s, f.st, d)
      /\ (KnownState(s, {}) => KnownState(f.st, {}) /\ f.val.scope # Unknown)
  BY <1>1
<1>g. /\ IsState(g.st) /\ IsEntry(g.val) /\ QuietStep(s, g.st, d)
      /\ (KnownState(s, {}) => KnownState(g.st, {}) /\ g.val.scope # Unknown)
  BY <1>2
<1>4. \A w : IsEntry([f.val EXCEPT !.scope = w]) /\ [f.val EXCEPT !.scope = w].scope = w
  <2>1. IsEntry(f.val)
    BY <1>f
  <2> HIDE DEF f
  <2> QED BY <2>1, ScopedEntry DEF IsEntry, Entry
<1>5. QuietKeeps(s, e, ExecMov(s, e))
  <2> DEFINE w == [f.val EXCEPT !.scope = Moved(f.val)]
             z == Put(f.st, e.dstA, w)
             r == ExecMov(s, e)
  <2>1. r = IF w.scope = Unknown THEN Exited(f.st) ELSE Done(z, w)
    BY DEF ExecMov
  <2>2. IsEntry(w) /\ w.scope = Moved(f.val)
    BY <1>4
  <2> HIDE DEF r, w, f, g, a, b
  <2>3. Moved(f.val) = Unknown <=> f.val.scope = Unknown
    BY DEF Moved, Unknown, Param, Local
  <2>4. /\ QuietStep(s, z, d)
        /\ w.scope # Unknown /\ KnownState(f.st, {}) => KnownState(z, {})
        /\ \A c : Sets(e, c) => Has(z.reg, c)
    BY <1>f, <2>2, QuietWrite
  <2> HIDE DEF z
  <2>5. QuietKeeps(s, e, r)
    BY <1>f, <2>1, <2>2, <2>3, <2>4 DEF QuietKeeps, Exited, Done
  <2> QED BY <2>5 DEF r
<1>6. QuietKeeps(s, e, ExecLoad(s, e))
  <2> DEFINE w == [f.val EXCEPT !.scope = Local]
             z == Put(f.st, e.dstA, w)
             r == ExecLoad(s, e)
  <2>1. r = Done(z, w)
    BY DEF ExecLoad
  <2>6. IsEntry(w) /\ w.scope = Local
    BY <1>4
  <2>2. IsEntry(w) /\ w.scope # Unknown
    BY <2>6 DEF Local, Unknown
  <2> HIDE DEF r, w, f, g, a, b
  <2>4. /\ QuietStep(s, z, d)
        /\ w.scope # Unknown /\ KnownState(f.st, {}) => KnownState(z, {})
        /\ \A c : Sets(e, c) => Has(z.reg, c)
    BY <1>f, <2>2, QuietWrite
  <2> HIDE DEF z
  <2>5. QuietKeeps(s, e, r)
    BY <1>f, <2>1, <2>2, <2>4 DEF QuietKeeps, Done
  <2> QED BY <2>5 DEF r
<1>7. QuietKeeps(s, e, ExecStore(s, e))
  <2> DEFINE w == [f.val EXCEPT !.scope = IF e.dstA.ind = "STACK" THEN Local ELSE InData]
             z == Put(g.st, e.dstA, w)
             r == ExecStore(s, e)
  <2>1. r = Done(z, w)
    BY DEF ExecStore
  <2>6. IsEntry(w) /\ w.scope = IF e.dstA.ind = "STACK" THEN Local ELSE InData
    BY <1>4
  <2>2. IsEntry(w) /\ w.scope # Unknown
    BY <2>6 DEF Local, InData, Unknown
  <2> HIDE DEF r, w, f, g, a, b
  <2>4. /\ QuietStep(s, z, d)
        /\ w.scope # Unknown /\ KnownState(g.st, {}) => KnownState(z, {})
        /\ \A c : Sets(e, c) => Has(z.reg, c)
    BY <1>g, <2>2, QuietWrite
  <2> HIDE DEF z
  <2>5. QuietKeeps(s, e, r)
    BY <1>g, <2>1, <2>2, <2>4 DEF QuietKeeps, Done
  <2> QED BY <2>5 DEF r
<1>8. QuietKeeps(s, e, ExecNeg(s, e)) /\ QuietKeeps(s, e, ExecNot(s, e))
  <2> DEFINE w == NegResult(f.val)
             z == NotResult(f.val)
             q == Put(f.st, e.dstA, w)
             t == Put(f.st, e.dstA, z)
             r == ExecNeg(s, e)
             k == ExecNot(s, e)
  <2>1. r = Done(q, f.val) /\ k = Done(t, f.val)
    BY DEF ExecNeg, ExecNot
  <2>2. IsEntry(w) /\ IsEntry(z) /\ w.scope = f.val.scope /\ z.scope = f.val.scope
    BY EntryIsEntry DEF NegResult, NotResult, Folded, Entry
  <2> HIDE DEF r, k, w, z, f, g, a, b
  <2>3. /\ QuietStep(s, q, d)
        /\ w.scope # Unknown /\ KnownState(f.st, {}) => KnownState(q, {})
        /\ \A c : Sets(e, c) => Has(q.reg, c)
    BY <1>f, <2>2, QuietWrite
  <2>4. /\ QuietStep(s, t, d)
        /\ z.scope # Unknown /\ KnownState(f.st, {}) => KnownState(t, {})
        /\ \A c : Sets(e, c) => Has(t.reg, c)
    BY <1>f, <2>2, QuietWrite
  <2> HIDE DEF q, t
  <2>5. QuietKeeps(s, e, r) /\ QuietKeeps(s, e, k)
    BY <1>f, <2>1, <2>2, <2>3, <2>4 DEF QuietKeeps, Done
  <2> QED BY <2>5 DEF r, k
<1>9. QuietKeeps(s, e, ExecTrunc(s, e))
  <2> DEFINE Low(n) == n % Modulus(e.dstA.size)
             w == Entry(f.val.addr, Low(f.val.init), Low(f.val.off), Moved(f.val))
             z == Put(f.st, e.dstA, w)
             r == ExecTrunc(s, e)
  <2>1. r = Done(z, w)
    BY DEF ExecTrunc
  <2>2. IsEntry(w) /\ w.scope = Moved(f.val)
    BY EntryIsEntry DEF Entry
  <2> HIDE DEF r, w, f, g, a, b
  <2>3. Moved(f.val) = Unknown <=> f.val.scope = Unknown
    BY DEF Moved, Unknown, Param, Local
  <2>4. /\ QuietStep(s, z, d)
        /\ w.scope # Unknown /\ KnownState(f.st, {}) => KnownState(z, {})
        /\ \A c : Sets(e, c) => Has(z.reg, c)
    BY <1>f, <2>2, QuietWrite
  <2> HIDE DEF z
  <2>5. QuietKeeps(s, e, r)
    BY <1>f, <2>1, <2>2, <2>3, <2>4 DEF QuietKeeps, Done
  <2> QED BY <2>5 DEF r
<1>10. e.op = "CMP" => QuietKeeps(s, e, ExecCmp(s, e))
  <2>1. ExecCmp(s, e) = [st |-> g.st, exit |-> FALSE]
    BY DEF ExecCmp
  <2> HIDE DEF f, g, a, b
  <2> QED BY <1>g, <2>1 DEF QuietKeeps, Sets
<1>11. e.op = "TEST" => QuietKeeps(s, e, ExecTest(s, e))
  <2>1. ExecTest(s, e) = Done(g.st, f.val)
    BY DEF ExecTest
  <2> HIDE DEF f, g, a, b
  <2>2. ExecTest(s, e).st = g.st /\ ExecTest(s, e).exit = (f.val.scope = Unknown)
    BY <2>1 DEF Done
  <2>3. e.op = "TEST" => \A c : ~Sets(e, c)
    BY DEF Sets
  <2> QED BY <1>f, <1>g, <2>2, <2>3 DEF QuietKeeps
<1>12. e.op = "ADC" => QuietKeeps(s, e, ExecAdc(s, e))
  <2>1. ExecAdc(s, e) = Exited(g.st)
    BY DEF ExecAdc
  <2> HIDE DEF f, g, a, b
  <2> QED BY <1>g, <2>1 DEF QuietKeeps, Sets, Exited
<1>13. e.op = "JMPT" => QuietKeeps(s, e, ExecJmpt(s, e))
  <2> DEFINE u == Get(f.st, e.dstA, TRUE).st
  <2>1. ExecJmpt(s, e) = Done(u, f.val)
    BY DEF ExecJmpt
  <2> HIDE DEF f, g, a, b
  <2>2. QuietStep(f.st, u, d)
    BY <1>f, QuietGet DEF Quiet
  <2>3. KnownState(f.st, {}) => KnownState(u, {})
    BY <1>f, GetKnown, PlainOpened DEF Quiet, ReadKnown
  <2> HIDE DEF u
  <2>4. QuietStep(s, u, d)
    BY <1>f, <2>2, QuietJoin
  <2>5. ExecJmpt(s, e).st = u /\ ExecJmpt(s, e).exit = (f.val.scope = Unknown)
    BY <2>1 DEF Done
  <2>6. e.op = "JMPT" => \A c : ~Sets(e, c)
    BY DEF Sets
  <2> QED BY <1>f, <2>3, <2>4, <2>5, <2>6 DEF QuietKeeps
<1>14. e.op = "JMP" => QuietKeeps(s, e, ExecJmp(s, e))
  <2> DEFINE z == Found(s.reg, IP)
             w == AddResult(z, Entry(0, e.srcA.idx, 0, Const))
             t == Update(s.reg, w)
             u == [s EXCEPT !.reg = t]
             r == ExecJmp(s, e)
  <2>1. r = [st |-> u, exit |-> FALSE]
    BY DEF ExecJmp
  <2>2. IsEntry(z) /\ z.addr = IP /\ (KnownBut(s.reg, {}) => z.scope # Unknown)
    BY SearchFinds DEF IsState, KnownBut, Found
  <2> HIDE DEF z, r
  <2>3. IsEntry(w) /\ w.addr = IP /\ w.scope = z.scope
    BY <2>2 DEF IsEntry, Entry, AddResult
  <2> HIDE DEF w
  <2>4. /\ Kept(s.reg, t, IP) /\ Has(t, IP)
        /\ w.scope # Unknown /\ KnownBut(s.reg, {}) => KnownBut(t, {} \ {IP})
    BY <2>3, UpdateKeeps DEF IsState
  <2>6. {} \ {IP} = {}
    OBVIOUS
  <2> HIDE DEF t
  <2>5. u.reg = t /\ u.stack = s.stack /\ u.data = s.data
    BY DEF IsState
  <2> HIDE DEF u
  <2>7. QuietStep(s, u, d)
    BY <2>4, <2>5 DEF QuietStep, Kept
  <2>8. KnownState(s, {}) => KnownState(u, {})
    BY <2>2, <2>3, <2>4, <2>5, <2>6 DEF KnownState
  <2>9. e.op = "JMP" => QuietKeeps(s, e, r)
    BY <2>1, <2>7, <2>8 DEF QuietKeeps, Sets
  <2> QED BY <2>9 DEF r
<1>15. e.op = "CALL" => QuietKeeps(s, e, ExecCall(s, e))
  <2> DEFINE w == Entry(0, 0, 0, Local)
             z == Put(g.st, e.dstA, w)
             r == ExecCall(s, e)
  <2>1. r = [st |-> z, exit |-> FALSE]
    BY DEF ExecCall
  <2>2. IsEntry(w) /\ w.scope # Unknown
    BY EntryIsEntry DEF Entry, Local, Unknown
  <2> HIDE DEF r, w, f, g, a, b
  <2>3. /\ QuietStep(s, z, d)
        /\ w.scope # Unknown /\ KnownState(g.st, {}) => KnownState(z, {})
        /\ \A c : Sets(e, c) => Has(z.reg, c)
    BY <1>g, <2>2, QuietWrite
  <2> HIDE DEF z
  <2>4. QuietKeeps(s, e, r)
    BY <1>g, <2>1, <2>2, <2>3 DEF QuietKeeps
  <2> QED BY <2>4 DEF r
<1>16. ASSUME e.op \in {"NOP", "IF"}, NEW r, r = [st |-> s, exit |-> FALSE] PROVE QuietKeeps(s, e, r)
  BY <1>0, <1>16 DEF QuietKeeps, Sets
<1>17. QuietKeeps(s, e, Exited(s)) \/ ~Rejected(e)
  BY <1>0 DEF QuietKeeps, Exited
<1>18. Rejected(e) \/ e.op \in Binary \cup {"NOP", "MOV", "LOAD", "STORE", "NEG", "NOT", "TRUNC",
                                             "CMP", "TEST", "ADC", "IF", "JMPT", "JMP", "CALL"}
  BY DEF Rejected
<1> HIDE DEF a, b, f, g
<1>19. CASE Rejected(e)
  BY <1>17, <1>19 DEF Execute
<1>20. CASE ~Rejected(e) /\ e.op \in Binary
  <2>1. Execute(s, e) = ExecBinary(s, e)
    BY <1>20 DEF Execute, Binary
  <2> QED BY <1>3, <1>20, <2>1
<1>21. CASE ~Rejected(e) /\ e.op \in {"NOP", "IF"}
  BY <1>16, <1>21 DEF Execute, ExecIf, Binary
<1>22. CASE ~Rejected(e) /\ e.op \in {"MOV", "LOAD", "STORE", "NEG", "NOT", "TRUNC",
                                      "CMP", "TEST", "ADC", "JMPT", "JMP", "CALL"}
  BY <1>5, <1>6, <1>7, <1>8, <1>9, <1>10, <1>11, <1>12, <1>13, <1>14, <1>15, <1>22
     DEF Execute, Binary
<1> QED BY <1>18, <1>19, <1>20, <1>21, <1>22

-----------------------------------------------------------------------------
(* Instructions that access a cell *)

\* A LOAD or a STORE of a cell through register r, the other operands being quiet.
Spaces == {"MEM", "STACK"}
Loading(e, r) ==
  e.op = "LOAD" /\ e.srcA.ind \in Spaces /\ e.srcA.idx = r /\ Plain(e.srcB) /\ Plain(e.dstA)
Storing(e, r) ==
  /\ e.op = "STORE" /\ Plain(e.srcA) /\ e.dstA.ind \in Spaces /\ e.dstA.idx = r
  /\ PlainReg(e.srcB) /\ e.srcB.idx = r

\* One store may get one entry.
CellStep(s, u, ind) ==
  /\ Sizes(u) /\ \A b : Has(s.reg, b) => Has(u.reg, b)
  /\ Len(u.stack) <= Len(s.stack) + 1 /\ Len(u.data) <= Len(s.data) + 1
  /\ ind = "MEM" => u.stack = s.stack
  /\ ind = "STACK" => u.data = s.data

LEMMA LoadRuns ==
  ASSUME NEW s, IsState(s), NEW e, NEW r, Loading(e, r)
  PROVE  LET x == Execute(s, e)
         IN  /\ CellStep(s, x.st, e.srcA.ind)
             /\ \A b : b # e.dstA.idx /\ Has(s.reg, b) => Found(x.st.reg, b) = Found(s.reg, b)
             /\ e.srcA.ind = "STACK" /\ Has(s.reg, r) /\ ~(PlainReg(e.dstA) /\ e.dstA.idx = r)
                  => Has(x.st.reg, r) /\ Has(x.st.stack, Pointed(x.st, r))
             /\ \A X : KnownState(s, X) /\ (Has(s.reg, r) \/ r \in X)
                  => ~x.exit /\ KnownState(x.st, X)
<1> DEFINE f == Get(s, e.srcA, FALSE)
           w == [f.val EXCEPT !.scope = Local]
           u == Put(f.st, e.dstA, w)
           x == Execute(s, e)
<1>1. x = ExecLoad(s, e)
  BY DEF Execute, Rejected, Loading, Binary
<1>2. x.st = u /\ x.exit = (w.scope = Unknown)
  BY <1>1 DEF ExecLoad, Done
<1>3. IsState(f.st) /\ IsEntry(f.val)
  BY GetState
<1>4. IsEntry(w) /\ w.scope = Local
  <2> HIDE DEF f
  <2>1. IsEntry(w)
    BY <1>3, ScopedEntry
  <2>2. w.scope = Local
    BY <1>3 DEF IsEntry, Entry
  <2> QED BY <2>1, <2>2
<1>5. ReadKeeps(s, e.srcA, f)
  BY GetKeeps
<1>6. \A X : KnownState(s, X) /\ (Has(s.reg, r) \/ r \in X) => KnownState(f.st, X)
  <2> SUFFICES ASSUME NEW X, KnownState(s, X), Has(s.reg, r) \/ r \in X PROVE KnownState(f.st, X)
    OBVIOUS
  <2>1. Opened(s, e.srcA, X)
    BY DEF Opened, Loading
  <2>2. ReadKnown(s, e.srcA, f, X)
    BY <2>1, GetKnown
  <2> HIDE DEF f
  <2> QED BY <2>2 DEF ReadKnown
<1> HIDE DEF f, w, x
<1>7. WriteKeeps(f.st, e.dstA, w, u)
  BY <1>3, <1>4, PutKeeps
<1> HIDE DEF u
<1>8. Plain(e.dstA) /\ e.srcA.ind \in Spaces /\ e.srcA.idx = r
  BY DEF Loading
<1>9. u.stack = f.st.stack /\ u.data = f.st.data /\ Kept(f.st.reg, u.reg, e.dstA.idx) /\ Sizes(u)
      /\ (~PlainReg(e.dstA) => SameRegs(f.st, u))
      /\ (Has(f.st.reg, e.dstA.idx) => Has(u.reg, e.dstA.idx))
  BY <1>7, <1>8 DEF WriteKeeps, Plain
<1>10. \A b : Has(f.st.reg, b) => Has(u.reg, b)
  BY <1>9 DEF Kept
<1>11. CellStep(s, u, e.srcA.ind)
  BY <1>5, <1>9, <1>10 DEF CellStep, ReadKeeps, SameRegs
<1>12. ASSUME e.srcA.ind = "STACK", Has(s.reg, r), ~(PlainReg(e.dstA) /\ e.dstA.idx = r)
       PROVE  Has(u.reg, r) /\ Has(u.stack, Pointed(u, r))
  <2>1. Has(f.st.stack, Pointed(f.st, r)) /\ Has(f.st.reg, r)
    BY <1>5, <1>8, <1>12 DEF ReadKeeps, SameRegs
  <2>2. Found(u.reg, r) = Found(f.st.reg, r)
    BY <1>9, <1>12, <2>1 DEF Kept, SameRegs
  <2> QED BY <1>9, <1>10, <2>1, <2>2 DEF Pointed
<1>13. ASSUME NEW X, KnownState(s, X), Has(s.reg, r) \/ r \in X PROVE ~x.exit /\ KnownState(u, X)
  <2>1. KnownState(f.st, X)
    BY <1>6, <1>13
  <2>2. w.scope # Unknown
    BY <1>4 DEF Local, Unknown
  <2>3. Opened(f.st, e.dstA, X)
    BY <1>8, PlainOpened
  <2>4. KnownState(u, IF PlainReg(e.dstA) THEN X \ {e.dstA.idx} ELSE X)
    BY <1>7, <2>1, <2>2, <2>3 DEF WriteKeeps
  <2>5. KnownState(u, X)
    BY <2>4 DEF KnownState, KnownBut
  <2> QED BY <1>2, <2>2, <2>5
<1>14. \A b : b # e.dstA.idx /\ Has(s.reg, b) => Found(u.reg, b) = Found(s.reg, b)
  BY <1>5, <1>9 DEF ReadKeeps, SameRegs, Kept
<1> QED BY <1>2, <1>11, <1>12, <1>13, <1>14 DEF x

LEMMA StoreRuns ==
  ASSUME NEW s, IsState(s), NEW e, NEW r, Storing(e, r)
  PROVE  LET x == Execute(s, e)
         IN  /\ CellStep(s, x.st, e.dstA.ind) /\ SameRegs(s, x.st)
             /\ e.dstA.ind = "STACK" /\ Has(s.reg, r) /\ Has(s.stack, Pointed(s, r))
                  => Len(x.st.stack) = Len(s.stack)
             /\ \A X : KnownState(s, X) => ~x.exit /\ KnownState(x.st, X)
<1> DEFINE f == Get(s, e.srcA, FALSE)
           g == Get(f.st, e.srcB, TRUE)
           w == [f.val EXCEPT !.scope = IF e.dstA.ind = "STACK" THEN Local ELSE InData]
           u == Put(g.st, e.dstA, w)
           x == Execute(s, e)
<1>1. x = ExecStore(s, e)
  BY DEF Execute, Rejected, Storing, Binary
<1>2. x.st = u /\ x.exit = (w.scope = Unknown)
  BY <1>1 DEF ExecStore, Done
<1>3. IsState(f.st) /\ IsEntry(f.val)
  BY GetState
<1>4. IsState(g.st)
  BY <1>3, GetState
<1>5. IsEntry(w) /\ w.scope # Unknown
  <2> HIDE DEF f
  <2>1. IsEntry(w)
    BY <1>3, ScopedEntry
  <2>2. w.scope = IF e.dstA.ind = "STACK" THEN Local ELSE InData
    BY <1>3 DEF IsEntry, Entry
  <2> HIDE DEF w
  <2> QED BY <2>1, <2>2 DEF Local, InData, Unknown
<1>6. /\ Plain(e.srcA) /\ Plain(e.srcB) /\ e.dstA.ind \in Spaces /\ e.dstA.idx = r
      /\ PlainReg(e.srcB) /\ e.srcB.idx = r
  BY DEF Storing, Plain, PlainReg
<1>7. ReadKeeps(s, e.srcA, f) /\ ReadKeeps(f.st, e.srcB, g)
  BY <1>3, GetKeeps
<1>8. \A X : KnownState(s, X) => KnownState(g.st, X) /\ Has(g.st.reg, r)
  <2> SUFFICES ASSUME NEW X, KnownState(s, X) PROVE KnownState(g.st, X) /\ Has(g.st.reg, r)
    OBVIOUS
  <2>1. ReadKnown(s, e.srcA, f, X)
    BY <1>6, PlainOpened, GetKnown
  <2>2. KnownState(f.st, X)
    BY <2>1 DEF ReadKnown
  <2>3. ReadKnown(f.st, e.srcB, g, X)
    BY <1>3, <1>6, <2>2, PlainOpened, GetKnown
  <2> QED BY <1>6, <2>3 DEF ReadKnown
<1> HIDE DEF f, g, w, x
<1>9. /\ g.st.stack = s.stack /\ g.st.data = s.data
      /\ \A b : Has(s.reg, b) => Has(g.st.reg, b) /\ Found(g.st.reg, b) = Found(s.reg, b)
  BY <1>6, <1>7 DEF ReadKeeps, Plain, SameRegs
<1>10. WriteKeeps(g.st, e.dstA, w, u)
  BY <1>4, <1>5, PutKeeps
<1> HIDE DEF u
<1>11. ~PlainReg(e.dstA)
  BY <1>6 DEF PlainReg, Spaces
<1>12. CellStep(s, u, e.dstA.ind)
  BY <1>9, <1>10, <1>11 DEF CellStep, WriteKeeps, SameRegs
<1>13. ASSUME e.dstA.ind = "STACK", Has(s.reg, r), Has(s.stack, Pointed(s, r))
       PROVE  Len(u.stack) = Len(s.stack)
  <2>1. Has(g.st.reg, r) /\ Pointed(g.st, r) = Pointed(s, r)
    BY <1>9, <1>13 DEF Pointed
  <2> QED BY <1>6, <1>9, <1>10, <1>13, <2>1 DEF WriteKeeps
<1>14. ASSUME NEW X, KnownState(s, X) PROVE ~x.exit /\ KnownState(u, X)
  <2>1. KnownState(g.st, X) /\ Has(g.st.reg, r)
    BY <1>8, <1>14
  <2>2. Opened(g.st, e.dstA, X)
    BY <1>6, <2>1 DEF Opened
  <2>3. KnownState(u, X)
    BY <1>5, <1>10, <1>11, <2>1, <2>2 DEF WriteKeeps
  <2> QED BY <1>2, <1>5, <2>3
<1>15. SameRegs(s, u)
  BY <1>9, <1>10, <1>11 DEF WriteKeeps, SameRegs
<1> QED BY <1>2, <1>12, <1>13, <1>14, <1>15 DEF x

\* A register advanced by a constant has a scope.
LEMMA AdvanceRuns ==
  ASSUME NEW s, IsState(s), NEW e, Quiet(e), e.op = "ADD", e.srcA.store = "IMM",
         PlainReg(e.dstA), NEW X, KnownState(s, X), ~Rejected(e)
  PROVE  ~Execute(s, e).exit /\ KnownState(Execute(s, e).st, X \ {e.dstA.idx})
<1> DEFINE f == Get(s, e.srcA, e.op = "XOR" /\ e.srcA = e.srcB)
           g == Get(f.st, e.srcB, e.op # "SAR")
           v == BinaryResult(e, f.val, g.val)
           u == Put(g.st, e.dstA, v)
           x == Execute(s, e)
<1>1. x = ExecBinary(s, e)
  BY DEF Execute, Binary
<1>2. x.st = u /\ x.exit = (v.scope = Unknown)
  BY <1>1 DEF ExecBinary, Done
<1>3. IsState(f.st) /\ IsEntry(f.val)
  BY GetState
<1>4. IsState(g.st) /\ IsEntry(g.val)
  BY <1>3, GetState
<1>5. ReadKnown(s, e.srcA, f, X)
  BY PlainOpened, GetKnown DEF Quiet
<1>6. KnownState(f.st, X) /\ f.val.scope # Unknown
  <2>1. Plain(e.srcA) /\ ~PlainReg(e.srcA)
    BY DEF Quiet, PlainReg
  <2> HIDE DEF f
  <2> QED BY <1>5, <2>1 DEF ReadKnown
<1>7. ReadKnown(f.st, e.srcB, g, X)
  BY <1>3, <1>6, PlainOpened, GetKnown DEF Quiet
<1> HIDE DEF x, f, g
<1>8. IsEntry(v) /\ v.scope # Unknown
  <2>1. e.op \in Binary /\ e.op \notin {"MUL", "IMUL"}
    BY DEF Binary
  <2>2. IsEntry(v)
    BY <1>3, <1>4, <2>1, BinaryEntry
  <2>3. v.scope = f.val.scope
    BY <1>3, <1>4, <2>1, ResultScope
  <2> HIDE DEF v
  <2> QED BY <1>6, <2>2, <2>3
<1> HIDE DEF v
<1>9. WriteKeeps(g.st, e.dstA, v, u)
  BY <1>4, <1>8, PutKeeps
<1> HIDE DEF u
<1>10. KnownState(u, X \ {e.dstA.idx})
  <2>1. KnownState(g.st, X) /\ Opened(g.st, e.dstA, X)
    BY <1>7, PlainOpened DEF ReadKnown, Quiet
  <2> QED BY <1>8, <1>9, <2>1 DEF WriteKeeps
<1> QED BY <1>2, <1>8, <1>10 DEF x

-----------------------------------------------------------------------------
(* Sequences of RTL instructions *)

\* RTL instructions in sequence, whatever they are.
IsCode(t) == t \in Seq(Elems(t))

LEMMA CodeDomain == ASSUME NEW t, IsCode(t) PROVE Len(t) \in Nat /\ DOMAIN t = 1 .. Len(t)
BY DEF IsCode

LEMMA CodeOf ==
  ASSUME NEW S, NEW t \in Seq(S) PROVE IsCode(t)
<1>1. DOMAIN t = 1 .. Len(t) /\ Len(t) \in Nat
  OBVIOUS
<1>2. t \in [1 .. Len(t) -> Elems(t)]
  BY <1>1 DEF Elems
<1> QED BY <1>1, <1>2, SeqDef DEF IsCode

LEMMA AppendCode ==
  ASSUME NEW t, IsCode(t), NEW e
  PROVE  /\ IsCode(Append(t, e)) /\ Len(Append(t, e)) = Len(t) + 1
         /\ \A i \in 1 .. Len(t) : Append(t, e)[i] = t[i]
         /\ Append(t, e)[Len(t) + 1] = e
<1> DEFINE S == Elems(t) \cup {e}
<1>1. t \in Seq(S)
  BY DEF IsCode
<1>2. Append(t, e) \in Seq(S)
  BY <1>1
<1>3. IsCode(Append(t, e))
  BY <1>2, CodeOf
<1> HIDE DEF S
<1> QED BY <1>1, <1>3

LEMMA JoinCode ==
  ASSUME NEW t, IsCode(t), NEW u, IsCode(u)
  PROVE  /\ IsCode(t \o u) /\ Len(t \o u) = Len(t) + Len(u)
         /\ \A i \in 1 .. Len(t) : (t \o u)[i] = t[i]
         /\ \A i \in 1 .. Len(u) : (t \o u)[Len(t) + i] = u[i]
<1> DEFINE S == Elems(t) \cup Elems(u)
<1>1. t \in Seq(S) /\ u \in Seq(S)
  BY DEF IsCode
<1>2. t \o u \in Seq(S)
  BY <1>1
<1>3. IsCode(t \o u)
  BY <1>2, CodeOf
<1> HIDE DEF S
<1>4. Len(t) \in Nat /\ Len(u) \in Nat
  BY <1>1
<1>5. Len(t \o u) = Len(t) + Len(u)
  BY <1>1
<1>6. \A i \in 1 .. Len(t) : (t \o u)[i] = t[i]
  BY <1>1
<1>7. \A i \in 1 .. Len(u) : (t \o u)[Len(t) + i] = u[i]
  BY <1>1, <1>4
<1> QED BY <1>3, <1>5, <1>6, <1>7

LEMMA TailCode ==
  ASSUME NEW t, IsCode(t), t # <<>>
  PROVE  /\ IsCode(Tail(t)) /\ Len(t) >= 1 /\ Len(Tail(t)) = Len(t) - 1 /\ Head(t) = t[1]
         /\ \A i \in 1 .. Len(t) - 1 : Tail(t)[i] = t[i + 1]
<1>1. t \in Seq(Elems(t))
  BY DEF IsCode
<1>2. Tail(t) \in Seq(Elems(t))
  BY <1>1
<1>3. IsCode(Tail(t))
  BY <1>2, CodeOf
<1>4. Len(t) \in Nat /\ Len(t) # 0
  BY <1>1
<1> QED BY <1>1, <1>3, <1>4

LEMMA OneCode ==
  ASSUME NEW e PROVE IsCode(<<e>>) /\ Len(<<e>>) = 1 /\ <<e>>[1] = e /\ IsCode(<<>>) /\ Len(<<>>) = 0
<1>1. <<e>> \in Seq({e}) /\ <<>> \in Seq({e})
  OBVIOUS
<1> QED BY <1>1, CodeOf

-----------------------------------------------------------------------------
(* The shapes of what the converter emits *)

\* Instructions that are executed: an IF drops what is behind it.
ReachedAt(t) == {i \in DOMAIN t : \A j \in 1 .. i - 1 : t[j].op # "IF"}

\* What is executed is quiet, or loads or stores one cell.
Formed(t) ==
  \A i \in ReachedAt(t) : Quiet(t[i]) \/ \E r : Loading(t[i], r) \/ Storing(t[i], r)

\* Accesses of a space are at indices in F.
On(e, ind) == e.srcA.ind = ind \/ e.dstA.ind = ind
Within(t, ind, F) == \A i \in ReachedAt(t) : On(t[i], ind) => i \in F

\* A LOAD and a STORE of one cell around an instruction that leaves TMP1 alone.
PairAt(t, i) ==
  /\ i \in Nat /\ i >= 1 /\ Len(t) = i + 2 /\ \A j \in 1 .. i - 1 : Quiet(t[j])
  /\ Loading(t[i], TMP1) /\ t[i].srcA.ind = "STACK" /\ t[i].dstA.idx # TMP1
  /\ Quiet(t[i + 1]) /\ t[i + 1].dstA.idx # TMP1
  /\ Storing(t[i + 2], TMP1) /\ t[i + 2].dstA.ind = "STACK"

\* A register a LOAD goes through has been written before.
Armed(t, s) ==
  \A i \in ReachedAt(t) : \A r : Loading(t[i], r) =>
    Has(s.reg, r) \/ \E j \in 1 .. i - 1 : Sets(t[j], r)

\* An ADD of a constant to a register.
IsAdvance(e) == Quiet(e) /\ e.op = "ADD" /\ e.srcA.store = "IMM" /\ PlainReg(e.dstA)

\* What is left of a MOVS: its source register may lack a scope until it is advanced.
MoveLoad(t, r) ==
  /\ Len(t) = 4 /\ Loading(t[1], r) /\ t[1].srcA.ind = "MEM" /\ t[1].dstA.idx # IP
  /\ (\E q : Storing(t[2], q)) /\ t[2].dstA.ind = "MEM"
  /\ IsAdvance(t[3]) /\ t[3].dstA.idx = r /\ IsAdvance(t[4])
MoveStore(t, r) ==
  /\ Len(t) = 3 /\ (\E q : Storing(t[1], q)) /\ t[1].dstA.ind = "MEM"
  /\ IsAdvance(t[2]) /\ t[2].dstA.idx = r /\ IsAdvance(t[3])
MoveAdd(t, r) ==
  /\ Len(t) = 2 /\ IsAdvance(t[1]) /\ t[1].dstA.idx = r /\ IsAdvance(t[2])

\* What any machine instruction becomes: two accesses of memory at most, and one of the
\* stack or a pair; each LOAD goes through a register that is there, but that of a MOVS.
Shaped(t) ==
  /\ IsCode(t) /\ Formed(t)
  /\ \E p, q \in Int : Within(t, "MEM", {p, q})
  /\ (\E p \in Int : Within(t, "STACK", {p})) \/ \E i : PairAt(t, i)
  /\ (\A s : Has(s.reg, SP) => Armed(t, s)) \/ \E r : MoveLoad(t, r)

LEMMA QuietNot ==
  ASSUME NEW e, Quiet(e)
  PROVE  ~On(e, "MEM") /\ ~On(e, "STACK") /\ \A r : ~Loading(e, r) /\ ~Storing(e, r)
BY DEF Quiet, Plain, On, Loading, Storing, Spaces

LEMMA LoadingIs ==
  ASSUME NEW e, NEW r, Loading(e, r)
  PROVE  /\ \A q : Loading(e, q) => q = r
         /\ \A ind \in Spaces : On(e, ind) <=> e.srcA.ind = ind
         /\ e.op # "IF" /\ e.op # "ADC"
BY DEF Loading, On, Spaces, Plain

LEMMA StoringIs ==
  ASSUME NEW e, NEW r, Storing(e, r)
  PROVE  /\ \A q : ~Loading(e, q)
         /\ \A ind \in Spaces : On(e, ind) <=> e.dstA.ind = ind
         /\ e.op # "IF" /\ e.op # "ADC"
BY DEF Storing, Loading, On, Spaces, Plain

LEMMA QuietShaped ==
  ASSUME NEW t, IsCode(t), \A i \in ReachedAt(t) : Quiet(t[i])
  PROVE  Shaped(t)
<1>1. Formed(t) /\ Within(t, "MEM", {0, 0}) /\ Within(t, "STACK", {0})
  BY QuietNot DEF Formed, Within
<1>2. \A s : Armed(t, s)
  BY QuietNot DEF Armed
<1>3. 0 \in Int
  OBVIOUS
<1> QED BY <1>1, <1>2, <1>3 DEF Shaped

\* One access of the stack, through SP, and nothing else.
LEMMA StackShaped ==
  ASSUME NEW t, IsCode(t), NEW k \in DOMAIN t, \A i \in DOMAIN t \ {k} : Quiet(t[i]),
         Loading(t[k], SP) \/ Storing(t[k], SP), On(t[k], "STACK"), ~On(t[k], "MEM")
  PROVE  Shaped(t)
<1>0. k \in Int
  BY CodeDomain
<1>1. Formed(t)
  BY DEF Formed, ReachedAt
<1>2. Within(t, "MEM", {k, k}) /\ Within(t, "STACK", {k})
  BY QuietNot DEF Within, ReachedAt
<1>3. ASSUME NEW s, Has(s.reg, SP) PROVE Armed(t, s)
  <2> SUFFICES ASSUME NEW i \in ReachedAt(t), NEW r, Loading(t[i], r) PROVE Has(s.reg, r)
    BY DEF Armed
  <2>1. i = k
    BY QuietNot DEF ReachedAt
  <2>2. Loading(t[k], SP)
    BY <2>1, StoringIs
  <2>3. r = SP
    BY <2>1, <2>2, LoadingIs
  <2> QED BY <1>3, <2>3
<1> QED BY <1>0, <1>1, <1>2, <1>3 DEF Shaped

\* An address in TMP1, then LOAD, operation and STORE, the first or the last left out.
CellCode(t, n, ld, sr, ind) ==
  /\ IsCode(t) /\ n \in Nat /\ ld \in {0, 1} /\ sr \in {0, 1} /\ ind \in Spaces
  /\ Len(t) = n + ld + 1 + sr
  /\ \A i \in 1 .. n : Quiet(t[i])
  /\ \E i \in 1 .. n : Sets(t[i], TMP1)
  /\ ld = 1 => /\ Loading(t[n + 1], TMP1) /\ t[n + 1].srcA.ind = ind
               /\ t[n + 1].dstA.idx # TMP1
  /\ Quiet(t[n + ld + 1]) /\ (sr = 1 => t[n + ld + 1].dstA.idx # TMP1)
  /\ sr = 1 => Storing(t[n + ld + 2], TMP1) /\ t[n + ld + 2].dstA.ind = ind

LEMMA CellShaped ==
  ASSUME NEW t, NEW n, NEW ld, NEW sr, NEW ind, CellCode(t, n, ld, sr, ind)
  PROVE  Shaped(t)
<1> USE DEF CellCode
<1>0. Len(t) \in Nat /\ DOMAIN t = 1 .. Len(t)
  BY CodeDomain
<1>1. \A i \in DOMAIN t : \/ Quiet(t[i])
                          \/ ld = 1 /\ i = n + 1 /\ Loading(t[i], TMP1)
                          \/ sr = 1 /\ i = n + ld + 2 /\ Storing(t[i], TMP1)
  <2> SUFFICES ASSUME NEW i \in 1 .. n + ld + 1 + sr, ~Quiet(t[i])
               PROVE  \/ ld = 1 /\ i = n + 1 /\ Loading(t[i], TMP1)
                      \/ sr = 1 /\ i = n + ld + 2 /\ Storing(t[i], TMP1)
    BY <1>0
  <2>1. i \notin 1 .. n /\ i # n + ld + 1
    OBVIOUS
  <2>2. CASE ld = 1
    <3>1. i = n + 1 \/ (sr = 1 /\ i = n + ld + 2)
      BY <2>1, <2>2
    <3> QED BY <2>2, <3>1
  <2>3. CASE ld = 0
    <3>1. sr = 1 /\ i = n + ld + 2
      BY <2>1, <2>3
    <3> QED BY <3>1
  <2> QED BY <2>2, <2>3
<1>2. Formed(t)
  BY <1>1 DEF Formed, ReachedAt
<1>3. \A x \in Spaces : Within(t, x, {n + 1, n + ld + 2})
  BY <1>1, QuietNot DEF Within, ReachedAt, Spaces
<1>4. \A s : Armed(t, s)
  <2> SUFFICES ASSUME NEW s, NEW i \in ReachedAt(t), NEW r, Loading(t[i], r)
               PROVE  \E j \in 1 .. i - 1 : Sets(t[j], r)
    BY DEF Armed
  <2>1. i \in DOMAIN t
    BY DEF ReachedAt
  <2>2. ld = 1 /\ i = n + 1 /\ Loading(t[i], TMP1)
    BY <1>1, <2>1, QuietNot, StoringIs
  <2>3. r = TMP1 /\ 1 .. i - 1 = 1 .. n
    BY <2>2, LoadingIs
  <2> QED BY <2>3
<1>5. (\E p \in Int : Within(t, "STACK", {p})) \/ \E i : PairAt(t, i)
  <2>1. CASE ld = 0
    <3>1. Within(t, "STACK", {n + ld + 2})
      <4> SUFFICES ASSUME NEW i \in DOMAIN t, On(t[i], "STACK") PROVE i = n + ld + 2
        BY DEF Within, ReachedAt
      <4>1. ~Quiet(t[i])
        BY QuietNot
      <4> QED BY <1>1, <2>1, <4>1
    <3>2. n + ld + 2 \in Int
      OBVIOUS
    <3> QED BY <3>1, <3>2
  <2>2. CASE sr = 0
    <3>1. Within(t, "STACK", {n + 1})
      <4> SUFFICES ASSUME NEW i \in DOMAIN t, On(t[i], "STACK") PROVE i = n + 1
        BY DEF Within, ReachedAt
      <4>1. ~Quiet(t[i])
        BY QuietNot
      <4> QED BY <1>1, <2>2, <4>1
    <3>2. n + 1 \in Int
      OBVIOUS
    <3> QED BY <3>1, <3>2
  <2>3. CASE ld = 1 /\ sr = 1 /\ ind = "MEM"
    <3>1. \A i \in DOMAIN t : ~On(t[i], "STACK")
      <4> SUFFICES ASSUME NEW i \in DOMAIN t PROVE ~On(t[i], "STACK")
        OBVIOUS
      <4>1. CASE Quiet(t[i])
        BY <4>1, QuietNot
      <4>2. CASE i = n + 1 /\ Loading(t[i], TMP1)
        BY <2>3, <4>2, LoadingIs DEF Spaces
      <4>3. CASE i = n + ld + 2 /\ Storing(t[i], TMP1)
        BY <2>3, <4>3, StoringIs DEF Spaces
      <4> QED BY <1>1, <4>1, <4>2, <4>3
    <3>2. Within(t, "STACK", {0})
      BY <3>1 DEF Within, ReachedAt
    <3>3. 0 \in Int
      OBVIOUS
    <3> QED BY <3>2, <3>3
  <2>4. CASE ld = 1 /\ sr = 1 /\ ind = "STACK"
    <3>1. n + 1 \in Nat /\ n + 1 >= 1 /\ Len(t) = (n + 1) + 2 /\ (n + 1) - 1 = n
          /\ n + ld + 1 = (n + 1) + 1 /\ n + ld + 2 = (n + 1) + 2
      BY <2>4
    <3>2. PairAt(t, n + 1)
      BY <2>4, <3>1 DEF PairAt
    <3> QED BY <3>2
  <2> QED BY <2>1, <2>2, <2>3, <2>4 DEF Spaces
<1>6. n + 1 \in Int /\ n + ld + 2 \in Int
  OBVIOUS
<1> QED BY <1>2, <1>3, <1>4, <1>5, <1>6 DEF Shaped, Spaces

\* The last instruction made a jump or a call.
LEMMA LastShaped ==
  ASSUME NEW t, NEW n, NEW ld, NEW sr, NEW ind, CellCode(t, n, ld, sr, ind),
         NEW e, Quiet(e)
  PROVE  Shaped(SetLast(t, e))
<1> USE DEF CellCode
<1> DEFINE u == SetLast(t, e)
           m == Len(t)
<1>0. m \in Nat /\ DOMAIN t = 1 .. m
  BY CodeDomain
<1>1. m \in DOMAIN t
  BY <1>0
<1>2. u = [t EXCEPT ![m] = e]
  BY DEF SetLast
<1>3. u \in Seq(Elems(t) \cup {e})
  <2>1. t \in Seq(Elems(t) \cup {e})
    BY DEF IsCode
  <2> HIDE DEF m
  <2> QED BY <1>1, <1>2, <2>1, ExceptSeq
<1>4. IsCode(u)
  BY <1>3, CodeOf
<1>5. DOMAIN u = DOMAIN t /\ u[m] = e /\ \A i \in DOMAIN t \ {m} : u[i] = t[i]
  BY <1>1, <1>2
<1>6. Len(u) = m
  BY <1>0, <1>4, <1>5, CodeDomain
<1> HIDE DEF u
<1>7. CASE sr = 0
  <2>1. m = n + ld + 1
    BY <1>7
  <2>2. CellCode(u, n, ld, 0, ind)
    <3>1. \A i \in 1 .. n : u[i] = t[i]
      BY <1>0, <1>5, <2>1
    <3>2. ld = 1 => u[n + 1] = t[n + 1]
      BY <1>0, <1>5, <2>1
    <3>3. Len(u) = n + ld + 1 + 0
      BY <1>6, <2>1
    <3>4. Quiet(u[n + ld + 1])
      BY <1>5, <2>1
    <3> QED BY <1>4, <3>1, <3>2, <3>3, <3>4
  <2> QED BY <2>2, CellShaped DEF u
<1>8. CASE sr = 1
  <2>1. m = n + ld + 2
    BY <1>8
  <2>2. \A i \in 1 .. n + ld + 1 : u[i] = t[i]
    BY <1>0, <1>5, <2>1
  <2>3. \A i \in DOMAIN u : Quiet(u[i]) \/ (ld = 1 /\ i = n + 1 /\ Loading(u[i], TMP1))
    <3> SUFFICES ASSUME NEW i \in 1 .. n + ld + 2, ~Quiet(u[i]) PROVE ld = 1 /\ i = n + 1 /\ Loading(u[i], TMP1)
      BY <1>0, <1>5, <2>1
    <3>1. i # n + ld + 2
      BY <1>5, <2>1
    <3>2. i \in 1 .. n + ld + 1 /\ u[i] = t[i]
      BY <2>2, <3>1
    <3>3. i \notin 1 .. n /\ i # n + ld + 1
      BY <3>2
    <3>4. ld = 1 /\ i = n + 1
      BY <3>2, <3>3
    <3> QED BY <3>2, <3>4
  <2>4. Formed(u) /\ (\A x \in Spaces : Within(u, x, {n + 1}))
    BY <2>3, QuietNot DEF Formed, Within, ReachedAt, Spaces
  <2>5. \A s : Armed(u, s)
    <3> SUFFICES ASSUME NEW s, NEW i \in ReachedAt(u), NEW r, Loading(u[i], r)
                 PROVE  \E j \in 1 .. i - 1 : Sets(u[j], r)
      BY DEF Armed
    <3>1. i \in DOMAIN u
      BY DEF ReachedAt
    <3>2. ld = 1 /\ i = n + 1 /\ Loading(u[i], TMP1)
      BY <2>3, <3>1, QuietNot
    <3>3. r = TMP1 /\ 1 .. i - 1 = 1 .. n
      BY <3>2, LoadingIs
    <3>4. \A j \in 1 .. n : u[j] = t[j]
      BY <2>2
    <3> QED BY <3>3, <3>4
  <2>6. n + 1 \in Int
    OBVIOUS
  <2>7. Within(u, "MEM", {n + 1, n + 1}) /\ Within(u, "STACK", {n + 1})
    BY <2>4 DEF Within, Spaces
  <2> QED BY <1>4, <2>4, <2>5, <2>6, <2>7 DEF Shaped, u
<1> QED BY <1>7, <1>8

-----------------------------------------------------------------------------
(* Low-level instructions *)

\* What DecodeInstruction returns: the fields it fills in, whatever their values.
Kinds == {"EMPTY", "REG", "IMM", "SCALE", "IND_SCALE"}
Fields(p) == p = [kind |-> p.kind, size |-> p.size, part |-> p.part]
IsOpd(p) == Fields(p) /\ p.kind \in Kinds
IsLl(l) ==
  /\ l = [op |-> l.op, pred |-> l.pred, len |-> l.len, rep |-> l.rep,
          srcA |-> l.srcA, srcB |-> l.srcB, dstA |-> l.dstA]
  /\ IsOpd(l.srcA) /\ IsOpd(l.srcB) /\ IsOpd(l.dstA)

LEMMA OpdMade ==
  ASSUME NEW p, Fields(p), NEW o
  PROVE  /\ IsOpd(Reg(p, o)) /\ Reg(p, o).kind = "REG" /\ IsOpd(Imm(p, o)) /\ IsOpd(RegImm(p, o))
         /\ IsOpd(Empty(p))
         /\ \A k \in Kinds : IsOpd(Mem(p, k, o))
<1>0. \A k \in Kinds : \A c : /\ IsOpd([p EXCEPT !.kind = k, !.part = c])
                              /\ [p EXCEPT !.kind = k, !.part = c].kind = k
  <2> SUFFICES ASSUME NEW k \in Kinds, NEW c, NEW q, q = [p EXCEPT !.kind = k, !.part = c]
               PROVE  IsOpd(q) /\ q.kind = k
    OBVIOUS
  <2>1. q = [[p EXCEPT !.kind = k] EXCEPT !.part = c]
    OBVIOUS
  <2>2. q.kind = k /\ q = [kind |-> q.kind, size |-> q.size, part |-> q.part]
    BY <2>1 DEF Fields
  <2> QED BY <2>2 DEF IsOpd, Fields
<1>k. "REG" \in Kinds /\ "IMM" \in Kinds
  BY DEF Kinds
<1>1. IsOpd(Reg(p, o)) /\ Reg(p, o).kind = "REG"
  BY <1>0, <1>k DEF Reg
<1>2. \A x : IsOpd(Imm(p, x))
  BY <1>0, <1>k DEF Imm
<1>3. IsOpd(RegImm(p, o))
  BY <1>1, <1>2 DEF RegImm
<1>4. IsOpd(Empty(p))
  BY DEF IsOpd, Fields, Empty, Kinds
<1>5. ASSUME NEW k \in Kinds PROVE IsOpd(Mem(p, k, o))
  <2> DEFINE c == <<o[1], Uint32(o[2]), o[3], o[4], o[5]>>
  <2>1. Mem(p, k, o) = [p EXCEPT !.kind = k, !.part = c]
    BY DEF Mem
  <2> HIDE DEF c
  <2> QED BY <2>1 DEF IsOpd, Fields
<1> QED BY <1>1, <1>2, <1>3, <1>4, <1>5

\* Every form leaves three operands of known kinds, or is not decoded.
Decodes(l, w) == w = Undecoded \/ (IsLl(w) /\ w.op = l.op)

LEMMA FormsDecode ==
  ASSUME NEW l, IsLl(l), NEW ops, NEW name
  PROVE  /\ Decodes(l, RawFrm(l, ops)) /\ Decodes(l, AddRegFrm(l, ops))
         /\ Decodes(l, MRMDestReg(l, ops)) /\ Decodes(l, MRMDestMem(l, ops))
         /\ Decodes(l, MRMSrcReg(l, ops)) /\ Decodes(l, MRMSrcMem(l, ops))
         /\ Decodes(l, MRMr(l, name, ops)) /\ Decodes(l, MRMm(l, ops)) /\ Decodes(l, MRMXm(l, ops))
         /\ Decodes(l, RawFrmDstSrc(l, ops))
         /\ LET w == RawFrmDstSrc(l, ops)
            IN  w # Undecoded => w.srcA.kind = "REG" /\ w.dstA.kind = "REG"
<1>1. Fields(l.srcA) /\ Fields(l.srcB) /\ Fields(l.dstA)
  BY DEF IsLl, IsOpd
<1>2. \A p, o : Fields(p) => /\ IsOpd(Reg(p, o)) /\ Reg(p, o).kind = "REG" /\ IsOpd(Imm(p, o))
                             /\ IsOpd(RegImm(p, o))
                             /\ IsOpd(Mem(p, "IND_SCALE", o)) /\ IsOpd(Mem(p, "SCALE", o))
  <2> TAKE p, o
  <2> HAVE Fields(p)
  <2>1. "IND_SCALE" \in Kinds /\ "SCALE" \in Kinds
    BY DEF Kinds
  <2> QED BY <2>1, OpdMade
<1>3. \A x, y, z : IsOpd(x) /\ IsOpd(y) /\ IsOpd(z) =>
        /\ Decodes(l, [l EXCEPT !.srcA = x]) /\ Decodes(l, [l EXCEPT !.srcB = x])
        /\ Decodes(l, [l EXCEPT !.dstA = x])
        /\ Decodes(l, [l EXCEPT !.srcA = x, !.srcB = y])
        /\ Decodes(l, [l EXCEPT !.srcA = x, !.dstA = y])
        /\ Decodes(l, [l EXCEPT !.dstA = x, !.srcA = y])
        /\ Decodes(l, [l EXCEPT !.dstA = x, !.srcB = y])
        /\ Decodes(l, [l EXCEPT !.dstA = x, !.srcA = y, !.srcB = z])
        /\ Decodes(l, [l EXCEPT !.dstA = x, !.srcB = y, !.srcA = z])
        /\ Decodes(l, [l EXCEPT !.srcA = x, !.dstA = y, !.srcB = z])
  <2> TAKE x, y, z
  <2> HAVE IsOpd(x) /\ IsOpd(y) /\ IsOpd(z)
  <2> DEFINE Ll(w) == IsLl(w) /\ w.op = l.op
  <2>s. \A w, v : Ll(w) /\ IsOpd(v) =>
          Ll([w EXCEPT !.srcA = v]) /\ Ll([w EXCEPT !.srcB = v]) /\ Ll([w EXCEPT !.dstA = v])
    BY DEF IsLl
  <2>u. \A w : Ll(w) => Decodes(l, w)
    BY DEF Decodes
  <2>l. Ll(l)
    OBVIOUS
  <2> HIDE DEF Ll
  <2>1. Decodes(l, [l EXCEPT !.srcA = x])
    BY <2>s, <2>u, <2>l
  <2>2. Decodes(l, [l EXCEPT !.srcB = x])
    BY <2>s, <2>u, <2>l
  <2>3. Decodes(l, [l EXCEPT !.dstA = x])
    BY <2>s, <2>u, <2>l
  <2>4. Decodes(l, [l EXCEPT !.srcA = x, !.srcB = y])
    <3>1. [l EXCEPT !.srcA = x, !.srcB = y] = [[l EXCEPT !.srcA = x] EXCEPT !.srcB = y]
      OBVIOUS
    <3> QED BY <2>s, <2>u, <2>l, <3>1
  <2>5. Decodes(l, [l EXCEPT !.srcA = x, !.dstA = y])
    <3>1. [l EXCEPT !.srcA = x, !.dstA = y] = [[l EXCEPT !.srcA = x] EXCEPT !.dstA = y]
      OBVIOUS
    <3> QED BY <2>s, <2>u, <2>l, <3>1
  <2>6. Decodes(l, [l EXCEPT !.dstA = x, !.srcA = y])
    <3>1. [l EXCEPT !.dstA = x, !.srcA = y] = [[l EXCEPT !.dstA = x] EXCEPT !.srcA = y]
      OBVIOUS
    <3> QED BY <2>s, <2>u, <2>l, <3>1
  <2>7. Decodes(l, [l EXCEPT !.dstA = x, !.srcB = y])
    <3>1. [l EXCEPT !.dstA = x, !.srcB = y] = [[l EXCEPT !.dstA = x] EXCEPT !.srcB = y]
      OBVIOUS
    <3> QED BY <2>s, <2>u, <2>l, <3>1
  <2>8. Decodes(l, [l EXCEPT !.dstA = x, !.srcA = y, !.srcB = z])
    <3>1. [l EXCEPT !.dstA = x, !.srcA = y, !.srcB = z] = [[[l EXCEPT !.dstA = x] EXCEPT !.srcA = y] EXCEPT !.srcB = z]
      OBVIOUS
    <3> QED BY <2>s, <2>u, <2>l, <3>1
  <2>9. Decodes(l, [l EXCEPT !.dstA = x, !.srcB = y, !.srcA = z])
    <3>1. [l EXCEPT !.dstA = x, !.srcB = y, !.srcA = z] = [[[l EXCEPT !.dstA = x] EXCEPT !.srcB = y] EXCEPT !.srcA = z]
      OBVIOUS
    <3> QED BY <2>s, <2>u, <2>l, <3>1
  <2>10. Decodes(l, [l EXCEPT !.srcA = x, !.dstA = y, !.srcB = z])
    <3>1. [l EXCEPT !.srcA = x, !.dstA = y, !.srcB = z] = [[[l EXCEPT !.srcA = x] EXCEPT !.dstA = y] EXCEPT !.srcB = z]
      OBVIOUS
    <3> QED BY <2>s, <2>u, <2>l, <3>1
  <2> QED BY <2>1, <2>2, <2>3, <2>4, <2>5, <2>6, <2>7, <2>8, <2>9, <2>10
<1>4. Decodes(l, l) /\ Decodes(l, Undecoded) /\ IsOpd(l.srcB)
  BY DEF Decodes, IsLl
<1>5. Decodes(l, RawFrm(l, ops)) /\ Decodes(l, AddRegFrm(l, ops))
  <2>1. Decodes(l, RawFrm(l, ops))
    BY <1>1, <1>2, <1>3, <1>4 DEF RawFrm
  <2>2. Decodes(l, AddRegFrm(l, ops))
    BY <1>1, <1>2, <1>3, <1>4 DEF AddRegFrm
  <2> QED BY <2>1, <2>2
<1>6. Decodes(l, MRMDestReg(l, ops)) /\ Decodes(l, MRMDestMem(l, ops))
  <2>1. Decodes(l, MRMDestReg(l, ops))
    BY <1>1, <1>2, <1>3, <1>4 DEF MRMDestReg
  <2>2. Decodes(l, MRMDestMem(l, ops))
    BY <1>1, <1>2, <1>3, <1>4 DEF MRMDestMem
  <2> QED BY <2>1, <2>2
<1>7. Decodes(l, MRMSrcReg(l, ops)) /\ Decodes(l, MRMSrcMem(l, ops))
  <2>1. Decodes(l, MRMSrcReg(l, ops))
    BY <1>1, <1>2, <1>3, <1>4 DEF MRMSrcReg
  <2>2. Decodes(l, MRMSrcMem6(l, ops))
    BY <1>1, <1>2, <1>3, <1>4 DEF MRMSrcMem6
  <2>3. Decodes(l, MRMSrcMem7(l, ops)) /\ Decodes(l, MRMSrcMemImul(l, ops))
    BY <1>1, <1>2, <1>3, <1>4 DEF MRMSrcMem7, MRMSrcMemImul
  <2> QED BY <1>4, <2>1, <2>2, <2>3 DEF MRMSrcMem
<1>8. Decodes(l, MRMr(l, name, ops))
  BY <1>1, <1>2, <1>3, <1>4 DEF MRMr
<1>9. Decodes(l, MRMm(l, ops)) /\ Decodes(l, MRMXm(l, ops))
  BY <1>1, <1>2, <1>3, <1>4 DEF MRMm, MRMXm
<1>10. /\ Decodes(l, RawFrmDstSrc(l, ops))
       /\ LET w == RawFrmDstSrc(l, ops)
          IN  w # Undecoded => w.srcA.kind = "REG" /\ w.dstA.kind = "REG"
  <2>1. CASE Len(ops) # 3
    BY <1>4, <2>1 DEF RawFrmDstSrc
  <2>2. CASE Len(ops) = 3
    <3> DEFINE x == Reg(l.dstA, ops[1])
               y == Reg(l.srcA, ops[2])
    <3>1. RawFrmDstSrc(l, ops) = [l EXCEPT !.dstA = x, !.srcA = y]
      BY <2>2 DEF RawFrmDstSrc, IsLl
    <3>2. IsOpd(x) /\ x.kind = "REG" /\ IsOpd(y) /\ y.kind = "REG"
      BY <1>1, <1>2
    <3> HIDE DEF x, y
    <3> DEFINE w == [l EXCEPT !.dstA = x, !.srcA = y]
    <3>3. Decodes(l, w)
      BY <1>3, <3>2
    <3>4. w.srcA = y /\ w.dstA = x
      BY DEF IsLl
    <3> QED BY <3>1, <3>2, <3>3, <3>4
  <2> QED BY <2>1, <2>2
<1> QED BY <1>5, <1>6, <1>7, <1>8, <1>9, <1>10

LEMMA Decoded ==
  ASSUME NEW m
  PROVE  LET w == DecodeInstruction(m)
         IN  /\ w = Undecoded \/ (IsLl(w) /\ w.op = Helper[m.name].op)
             /\ m.form = "RawFrmDstSrc" /\ w # Undecoded => w.srcA.kind = "REG" /\ w.dstA.kind = "REG"
<1> DEFINE h == Helper[m.name]
           l == [op |-> h.op, pred |-> h.pred, len |-> m.len, rep |-> m.rep,
                 srcA |-> Blank(h.sizeA), srcB |-> Blank(h.sizeB), dstA |-> Blank(h.sizeD)]
           w == DecodeInstruction(m)
<1>1. \A x : IsOpd(Blank(x))
  BY DEF IsOpd, Fields, Blank, Kinds
<1>2. IsLl(l) /\ l.op = h.op
  BY <1>1 DEF IsLl
<1>3. w = CASE m.form = "RawFrm"       -> RawFrm(l, m.ops)
        [] m.form = "AddRegFrm"    -> AddRegFrm(l, m.ops)
        [] m.form = "MRMDestReg"   -> MRMDestReg(l, m.ops)
        [] m.form = "MRMDestMem"   -> MRMDestMem(l, m.ops)
        [] m.form = "MRMSrcReg"    -> MRMSrcReg(l, m.ops)
        [] m.form = "MRMSrcMem"    -> MRMSrcMem(l, m.ops)
        [] m.form = "RawFrmDstSrc" -> RawFrmDstSrc(l, m.ops)
        [] m.form = "MRMr"         -> MRMr(l, m.name, m.ops)
        [] m.form = "MRMm"         -> MRMm(l, m.ops)
        [] m.form = "MRMXm"        -> MRMXm(l, m.ops)
        [] OTHER                   -> Undecoded
  BY DEF DecodeInstruction
<1> HIDE DEF l, w
<1>4. /\ Decodes(l, RawFrm(l, m.ops)) /\ Decodes(l, AddRegFrm(l, m.ops))
      /\ Decodes(l, MRMDestReg(l, m.ops)) /\ Decodes(l, MRMDestMem(l, m.ops))
      /\ Decodes(l, MRMSrcReg(l, m.ops)) /\ Decodes(l, MRMSrcMem(l, m.ops))
      /\ Decodes(l, MRMr(l, m.name, m.ops)) /\ Decodes(l, MRMm(l, m.ops))
      /\ Decodes(l, MRMXm(l, m.ops)) /\ Decodes(l, RawFrmDstSrc(l, m.ops))
      /\ Decodes(l, Undecoded)
  BY <1>2, FormsDecode DEF Decodes
<1>5. Decodes(l, w)
  BY <1>3, <1>4
<1>6. m.form = "RawFrmDstSrc" /\ w # Undecoded => w.srcA.kind = "REG" /\ w.dstA.kind = "REG"
  <2>1. m.form = "RawFrmDstSrc" => w = RawFrmDstSrc(l, m.ops)
    BY <1>3
  <2> QED BY <1>2, <2>1, FormsDecode
<1>7. w = Undecoded \/ (IsLl(w) /\ w.op = h.op)
  BY <1>2, <1>5 DEF Decodes
<1> QED BY <1>6, <1>7 DEF w

-----------------------------------------------------------------------------
(* Addresses and operations *)

\* An RTL instruction, whatever its fields.
IsRtl(e) == e = Instruction(e.op, e.flags, e.srcA, e.srcB, e.dstA)
PlainOp(o) == Plain(o) /\ o = Operand(o.store, o.ind, o.idx, o.size)
QuietOp(e) == IsRtl(e) /\ PlainOp(e.srcA) /\ PlainOp(e.srcB) /\ PlainOp(e.dstA)
Calm(t) == IsCode(t) /\ \A i \in DOMAIN t : QuietOp(t[i])

LEMMA QuietOpIs == ASSUME NEW e, QuietOp(e) PROVE Quiet(e)
BY DEF QuietOp, PlainOp, Quiet

LEMMA OpMade ==
  ASSUME NEW r, NEW v, NEW size
  PROVE  /\ PlainOp(RegOp(r, size)) /\ PlainReg(RegOp(r, size)) /\ RegOp(r, size).idx = r
         /\ PlainOp(ImmOp(v, size)) /\ ImmOp(v, size).store = "IMM"
         /\ PlainOp(NoOp)
BY DEF PlainOp, Plain, PlainReg, RegOp, ImmOp, NoOp, Operand

LEMMA InstructionMade ==
  ASSUME NEW op, NEW flags, NEW a, PlainOp(a), NEW b, PlainOp(b), NEW d, PlainOp(d)
  PROVE  /\ QuietOp(Instruction(op, flags, a, b, d)) /\ Instruction(op, flags, a, b, d).dstA = d
         /\ Instruction(op, flags, a, b, d).op = op
BY DEF QuietOp, IsRtl, Instruction

LEMMA OperandPlain ==
  ASSUME NEW p, IsOpd(p), NEW i
  PROVE  PlainOp(ConvertOperand(p, i)) /\ (p.kind = "REG" => PlainReg(ConvertOperand(p, i)))
<1>1. CASE p.kind = "EMPTY"
  BY <1>1 DEF ConvertOperand, PlainOp, Plain, NoOp, ImmOp, Operand
<1>2. CASE p.kind = "REG"
  BY <1>2, OpMade DEF ConvertOperand
<1>3. CASE p.kind = "IMM"
  BY <1>3, OpMade DEF ConvertOperand
<1>4. CASE p.kind \in {"SCALE", "IND_SCALE"}
  BY <1>4, OpMade DEF ConvertOperand
<1> QED BY <1>1, <1>2, <1>3, <1>4 DEF IsOpd, Kinds

LEMMA SizedPlain ==
  ASSUME NEW o, PlainOp(o), NEW size PROVE PlainOp(Sized(o, size)) /\ Sized(o, size).idx = o.idx
BY DEF PlainOp, Plain, Sized, Operand

LEMMA HeldMade ==
  ASSUME NEW r, NEW o
  PROVE  IsOpd(Tmp(r)) /\ IsOpd(HeldIn(o)) /\ IsOpd(Constant(o)) /\ IsOpd(None)
BY DEF IsOpd, Fields, Kinds, Tmp, HeldIn, Constant, None

\* The converter at work: quiet code so far, and an operand in hand.
IsStep(s) == Calm(s.code) /\ IsOpd(s.held)

LEMMA EmptyCalm == Calm(<<>>)
<1>1. IsCode(<<>>) /\ Len(<<>>) = 0
  BY OneCode
<1>2. DOMAIN <<>> = {}
  BY <1>1, CodeDomain
<1> QED BY <1>1, <1>2 DEF Calm

LEMMA AppendCalm ==
  ASSUME NEW t, Calm(t), NEW e, QuietOp(e)
  PROVE  Calm(Append(t, e)) /\ Len(Append(t, e)) = Len(t) + 1 /\ Append(t, e)[Len(t) + 1] = e
<1> DEFINE u == Append(t, e)
<1>1. /\ IsCode(u) /\ Len(u) = Len(t) + 1 /\ u[Len(t) + 1] = e
      /\ \A i \in 1 .. Len(t) : u[i] = t[i]
  BY AppendCode DEF Calm
<1>2. DOMAIN u = 1 .. Len(u) /\ DOMAIN t = 1 .. Len(t) /\ Len(t) \in Nat
  BY <1>1, CodeDomain DEF Calm
<1> HIDE DEF u
<1>3. \A i \in DOMAIN u : QuietOp(u[i])
  BY <1>1, <1>2 DEF Calm
<1> QED BY <1>1, <1>3 DEF Calm, u

LEMMA ThenStep ==
  ASSUME NEW s, Calm(s.code), NEW op, NEW a, PlainOp(a), NEW b, PlainOp(b)
  PROVE  LET z == Then1(s, op, a, b)
         IN  /\ IsStep(z)
             /\ op \in {"MOV", "ADD", "SUB", "IMUL"} => \E i \in 1 .. Len(z.code) : Sets(z.code[i], TMP1)
<1> DEFINE e == Into1(op, a, b)
           z == Then1(s, op, a, b)
<1>1. QuietOp(e) /\ e.dstA = RegOp(TMP1, 64) /\ e.op = op
  BY InstructionMade, OpMade DEF Into1
<1>2. z.code = Append(s.code, e) /\ z.held = Tmp(TMP1)
  BY DEF Then1, Step
<1> HIDE DEF e, z
<1>3. Calm(z.code) /\ Len(z.code) = Len(s.code) + 1 /\ z.code[Len(s.code) + 1] = e
  BY <1>1, <1>2, AppendCalm
<1>4. op \in {"MOV", "ADD", "SUB", "IMUL"} => Sets(e, TMP1)
  BY <1>1, OpMade DEF Sets
<1>5. Len(s.code) + 1 \in 1 .. Len(z.code)
  BY <1>3, CodeDomain DEF Calm
<1>6. IsStep(z)
  BY <1>2, <1>3, HeldMade DEF IsStep
<1> QED BY <1>3, <1>4, <1>5, <1>6 DEF z

LEMMA StepMade == ASSUME NEW c, Calm(c), NEW h, IsOpd(h) PROVE IsStep(Step(c, h))
BY DEF Step, IsStep

LEMMA IndexStep ==
  ASSUME NEW p, IsOpd(p), NEW m, PlainOp(m) PROVE IsStep(ScaledIndex(p, m))
<1>1. IsStep(Step(<<>>, None)) /\ Calm(Step(<<>>, None).code)
  BY EmptyCalm, HeldMade, StepMade DEF Step
<1>2. IsStep(Step(<<>>, HeldIn(Idx(p))))
  BY EmptyCalm, HeldMade, StepMade
<1>3. IsStep(Then1(Step(<<>>, None), "IMUL", ConvertOperand(p, 3), m))
  BY <1>1, ThenStep, OperandPlain
<1> QED BY <1>1, <1>2, <1>3 DEF ScaledIndex

LEMMA MagnitudeOpd == ASSUME NEW p PROVE IsOpd(Magnitude(p)) /\ SignedOp(p) \in {"SUB", "ADD"}
BY HeldMade DEF Magnitude, SignedOp

LEMMA LeaStep == ASSUME NEW p, IsOpd(p) PROVE Calm(LeaAddress(p).code)
<1> DEFINE index == ScaledIndex(p, ConvertOperand(p, 2))
           c1 == Step(index.code, Magnitude(p))
           c2 == Then1(index, SignedOp(p), ConvertOperand(index.held, 1), ConvertOperand(Magnitude(p), 1))
           moved == CASE Disp(p).v = 0 -> index
                      [] Disp(p).v # 0 /\ index.held = None -> c1
                      [] OTHER -> c2
<1>1. IsStep(index)
  BY IndexStep, OperandPlain
<1> HIDE DEF index
<1>2. IsStep(c1)
  BY <1>1, MagnitudeOpd, StepMade DEF IsStep
<1>3. IsStep(c2)
  BY <1>1, MagnitudeOpd, OperandPlain, ThenStep DEF IsStep
<1> HIDE DEF c1, c2
<1>4. IsStep(moved)
  BY <1>1, <1>2, <1>3
<1>5. LeaAddress(p) = IF moved.held = None
                      THEN Then1(moved, "MOV", ConvertOperand(p, 1), NoOp)
                      ELSE Then1(moved, SignedOp(p), ConvertOperand(p, 1), ConvertOperand(moved.held, 1))
  BY DEF LeaAddress, index, c1, c2
<1> HIDE DEF moved
<1>6. IsStep(Then1(moved, "MOV", ConvertOperand(p, 1), NoOp))
  BY <1>4, OpMade, OperandPlain, ThenStep DEF IsStep
<1>7. IsStep(Then1(moved, SignedOp(p), ConvertOperand(p, 1), ConvertOperand(moved.held, 1)))
  BY <1>4, OperandPlain, ThenStep DEF IsStep
<1> QED BY <1>5, <1>6, <1>7 DEF IsStep

LEMMA MemStep ==
  ASSUME NEW p, IsOpd(p)
  PROVE  Calm(MemAddress(p)) /\ \E i \in 1 .. Len(MemAddress(p)) : Sets(MemAddress(p)[i], TMP1)
<1> DEFINE index == ScaledIndex(p, ImmOp(Scale(p).v, 64))
           c1 == Step(<<>>, HeldIn(Base(p)))
           c2 == Then1(index, "ADD", ConvertOperand(index.held, 1), ConvertOperand(p, 1))
           based == CASE Base(p).v = NoReg -> index
                      [] Base(p).v # NoReg /\ index.held = None -> c1
                      [] OTHER -> c2
           held == IF based.held = None THEN ImmOp(0, 64) ELSE ConvertOperand(based.held, 1)
           z == Then1(based, SignedOp(p), held, ConvertOperand(Magnitude(p), 1))
<1>1. IsStep(index)
  BY IndexStep, OpMade
<1> HIDE DEF index
<1>2. IsStep(c1)
  BY EmptyCalm, HeldMade, StepMade
<1>3. IsStep(c2)
  BY <1>1, OperandPlain, ThenStep DEF IsStep
<1> HIDE DEF c1, c2
<1>4. IsStep(based)
  BY <1>1, <1>2, <1>3
<1> HIDE DEF based
<1>5. PlainOp(held)
  BY <1>4, OpMade, OperandPlain DEF IsStep
<1> HIDE DEF held
<1>6. IsStep(z) /\ \E i \in 1 .. Len(z.code) : Sets(z.code[i], TMP1)
  <2>1. PlainOp(ConvertOperand(Magnitude(p), 1)) /\ SignedOp(p) \in {"SUB", "ADD"}
    BY MagnitudeOpd, OperandPlain
  <2> QED BY <1>4, <1>5, <2>1, ThenStep DEF IsStep
<1>7. MemAddress(p) = z.code
  BY DEF MemAddress, z, held, based, c1, c2, index
<1> HIDE DEF z
<1> QED BY <1>6, <1>7 DEF IsStep

\* What convert_base gives: quiet, or one cell; the last reads registers or constants.
BaseCode(t) ==
  /\ IsCode(t) /\ Len(t) >= 1 /\ IsRtl(t[Len(t)])
  /\ Plain(t[Len(t)].srcA) /\ Plain(t[Len(t)].srcB)
  /\ Calm(t) \/ \E n, ld, sr, ind : CellCode(t, n, ld, sr, ind)

LEMMA CalmBase ==
  ASSUME NEW t, Calm(t), NEW e, QuietOp(e) PROVE BaseCode(Append(t, e))
<1> DEFINE u == Append(t, e)
<1>1. Calm(u) /\ Len(u) = Len(t) + 1 /\ u[Len(t) + 1] = e
  BY AppendCalm
<1>2. Len(t) \in Nat
  BY CodeDomain DEF Calm
<1> HIDE DEF u
<1>3. BaseCode(u)
  BY <1>1, <1>2 DEF BaseCode, Calm, QuietOp, PlainOp
<1> QED BY <1>3 DEF u

LEMMA DirectBase ==
  ASSUME NEW l, IsLl(l), NEW flags PROVE BaseCode(ConvertDirect(l, flags))
<1> DEFINE lea == l.srcB.kind = "SCALE"
           pre == IF lea THEN LeaAddress(l.srcB).code ELSE <<>>
           a   == IF lea THEN Tmp(TMP1) ELSE l.srcA
           e   == Instruction(IF lea THEN "MOV" ELSE l.op, flags, ConvertOperand(a, 1),
                              ConvertOperand(l.srcB, 1), ConvertOperand(l.dstA, 1))
<1>1. Calm(pre)
  BY EmptyCalm, LeaStep DEF IsLl
<1>2. IsOpd(a) /\ IsOpd(l.srcB) /\ IsOpd(l.dstA)
  BY HeldMade DEF IsLl
<1>3. ConvertDirect(l, flags) = Append(pre, e)
  BY DEF ConvertDirect
<1> HIDE DEF pre, a
<1>4. QuietOp(e)
  BY <1>2, InstructionMade, OperandPlain
<1> HIDE DEF e
<1> QED BY <1>1, <1>3, <1>4, CalmBase

\* Four sequences joined, the second and the last of one instruction or none.
Joined(A, L, m, S, t) ==
  /\ IsCode(t) /\ Len(t) = Len(A) + Len(L) + 1 + Len(S)
  /\ \A i \in 1 .. Len(A) : t[i] = A[i]
  /\ \A i \in 1 .. Len(L) : t[Len(A) + i] = L[i]
  /\ t[Len(A) + Len(L) + 1] = m
  /\ \A i \in 1 .. Len(S) : t[Len(A) + Len(L) + 1 + i] = S[i]

LEMMA JoinFour ==
  ASSUME NEW A, IsCode(A), NEW L, IsCode(L), NEW m, NEW S, IsCode(S)
  PROVE  Joined(A, L, m, S, A \o L \o <<m>> \o S)
<1> DEFINE o == <<m>>
           u == A \o L
           w == u \o o
           t == w \o S
<1>0. Len(A) \in Nat /\ Len(L) \in Nat /\ Len(S) \in Nat /\ IsCode(o) /\ Len(o) = 1 /\ o[1] = m
  BY CodeDomain, OneCode
<1> HIDE DEF o
<1>1. /\ IsCode(u) /\ Len(u) = Len(A) + Len(L)
      /\ \A i \in 1 .. Len(A) : u[i] = A[i]
      /\ \A i \in 1 .. Len(L) : u[Len(A) + i] = L[i]
  BY JoinCode
<1> HIDE DEF u
<1>2. /\ IsCode(w) /\ Len(w) = Len(u) + 1
      /\ \A i \in 1 .. Len(u) : w[i] = u[i]
      /\ w[Len(u) + 1] = m
  <2>1. /\ IsCode(w) /\ Len(w) = Len(u) + Len(o)
        /\ \A i \in 1 .. Len(u) : w[i] = u[i]
        /\ \A i \in 1 .. Len(o) : w[Len(u) + i] = o[i]
    <3>1. IsCode(u) /\ IsCode(o)
      BY <1>0, <1>1
    <3> QED BY <3>1, JoinCode
  <2> HIDE DEF w
  <2>2. 1 \in 1 .. Len(o)
    BY <1>0
  <2>3. w[Len(u) + 1] = m
    BY <1>0, <2>1, <2>2
  <2> QED BY <1>0, <2>1, <2>3
<1> HIDE DEF w
<1>3. /\ IsCode(t) /\ Len(t) = Len(w) + Len(S)
      /\ \A i \in 1 .. Len(w) : t[i] = w[i]
      /\ \A i \in 1 .. Len(S) : t[Len(w) + i] = S[i]
  <2>1. IsCode(w) /\ IsCode(S)
    BY <1>2
  <2> QED BY <2>1, JoinCode
<1> HIDE DEF t
<1>4. \A i \in 1 .. Len(A) : t[i] = A[i]
  BY <1>0, <1>1, <1>2, <1>3
<1>5. ASSUME NEW i \in 1 .. Len(L) PROVE t[Len(A) + i] = L[i]
  <2>1. Len(A) + i \in 1 .. Len(u) /\ Len(A) + i \in 1 .. Len(w)
    BY <1>0, <1>1, <1>2
  <2> QED BY <1>1, <1>2, <1>3, <2>1
<1>6. t[Len(A) + Len(L) + 1] = m
  BY <1>0, <1>1, <1>2, <1>3
<1>7. \A i \in 1 .. Len(S) : t[Len(A) + Len(L) + 1 + i] = S[i]
  BY <1>0, <1>1, <1>2, <1>3
<1>8. IsCode(t) /\ Len(t) = Len(A) + Len(L) + 1 + Len(S)
  BY <1>0, <1>1, <1>2, <1>3
<1>9. Joined(A, L, m, S, t)
  BY <1>4, <1>5, <1>6, <1>7, <1>8 DEF Joined
<1> QED BY <1>9 DEF t, w, u, o

LEMMA IndirectBase ==
  ASSUME NEW l, IsLl(l), "IND_SCALE" \in {l.srcA.kind, l.srcB.kind, l.dstA.kind}, NEW flags
  PROVE  BaseCode(ConvertIndirect(l, flags))
<1> DEFINE InMem(p) == p.kind = "IND_SCALE"
           p == CASE InMem(l.srcB) -> l.srcB [] InMem(l.srcA) -> l.srcA [] OTHER -> l.dstA
           a == IF InMem(l.srcA) THEN Tmp(TMP2) ELSE l.srcA
           b == IF InMem(l.srcB) THEN Tmp(TMP2) ELSE l.srcB
           d == IF InMem(l.dstA) THEN RegOp(TMP2, l.dstA.size) ELSE ConvertOperand(l.dstA, 1)
           load == Instruction("LOAD", 0, Indirect(RegOp(TMP1, l.srcA.size), Space(p)),
                               RegOp(TMP1, 64), RegOp(TMP2, l.srcA.size))
           main == Instruction(l.op, flags, Sized(ConvertOperand(a, 1), l.srcA.size),
                               Sized(ConvertOperand(b, 1), l.srcB.size), d)
           store == Instruction("STORE", 0, RegOp(TMP2, l.srcA.size), RegOp(TMP1, 64),
                                Indirect(RegOp(TMP1, l.dstA.size), Space(p)))
           A == MemAddress(p)
           ld == InMem(l.srcA) \/ InMem(l.srcB)
           sr == InMem(l.dstA)
           L == IF ld THEN <<load>> ELSE <<>>
           S == IF sr THEN <<store>> ELSE <<>>
           t == A \o L \o <<main>> \o S
           kl == IF ld THEN 1 ELSE 0
           ks == IF sr THEN 1 ELSE 0
<1>1. ConvertIndirect(l, flags) = t
  BY DEF ConvertIndirect
<1>2. IsOpd(p) /\ IsOpd(a) /\ IsOpd(b) /\ IsOpd(l.dstA)
  BY HeldMade DEF IsLl
<1>3. Calm(A) /\ \E i \in 1 .. Len(A) : Sets(A[i], TMP1)
  BY <1>2, MemStep
<1>4. Space(p) \in Spaces
  BY DEF Space, Spaces
<1> HIDE DEF A
<1>5. /\ Loading(load, TMP1) /\ load.srcA.ind = Space(p) /\ load.dstA.idx # TMP1
  <2>1. \A r, size, ind : Indirect(RegOp(r, size), ind).ind = ind /\ Indirect(RegOp(r, size), ind).idx = r
    BY DEF Indirect, RegOp, Operand
  <2>2. load.op = "LOAD" /\ load.srcA = Indirect(RegOp(TMP1, l.srcA.size), Space(p))
        /\ load.srcB = RegOp(TMP1, 64) /\ load.dstA = RegOp(TMP2, l.srcA.size)
    BY DEF Instruction
  <2> HIDE DEF load, p
  <2>3. TMP2 # TMP1
    BY DEF TMP1, TMP2
  <2> QED BY <1>4, <2>1, <2>2, <2>3, OpMade DEF Loading, PlainOp
<1>6. /\ Storing(store, TMP1) /\ store.dstA.ind = Space(p) /\ IsRtl(store)
      /\ Plain(store.srcA) /\ Plain(store.srcB)
  <2>1. \A r, size, ind : Indirect(RegOp(r, size), ind).ind = ind /\ Indirect(RegOp(r, size), ind).idx = r
    BY DEF Indirect, RegOp, Operand
  <2>2. store.op = "STORE" /\ store.srcA = RegOp(TMP2, l.srcA.size)
        /\ store.srcB = RegOp(TMP1, 64) /\ store.dstA = Indirect(RegOp(TMP1, l.dstA.size), Space(p))
        /\ IsRtl(store)
    BY DEF Instruction, IsRtl
  <2> HIDE DEF store, p
  <2> QED BY <1>4, <2>1, <2>2, OpMade DEF Storing, PlainOp
<1>7. QuietOp(main) /\ main.dstA = d /\ (sr => d.idx # TMP1)
  <2>1. PlainOp(d) /\ (sr => d.idx = TMP2)
    BY <1>2, OpMade, OperandPlain
  <2>2. PlainOp(Sized(ConvertOperand(a, 1), l.srcA.size)) /\ PlainOp(Sized(ConvertOperand(b, 1), l.srcB.size))
    BY <1>2, OperandPlain, SizedPlain
  <2>3. TMP2 # TMP1
    BY DEF TMP1, TMP2
  <2> HIDE DEF a, b, d
  <2> QED BY <2>1, <2>2, <2>3, InstructionMade
<1> HIDE DEF load, store, main, p, a, b, d
<1>8. /\ IsCode(L) /\ Len(L) = kl /\ (ld => L[1] = load)
      /\ IsCode(S) /\ Len(S) = ks /\ (sr => S[1] = store)
  BY OneCode
<1> HIDE DEF L, S
<1>9. /\ IsCode(t) /\ Len(t) = Len(A) + Len(L) + 1 + Len(S)
      /\ \A i \in 1 .. Len(A) : t[i] = A[i]
      /\ \A i \in 1 .. Len(L) : t[Len(A) + i] = L[i]
      /\ t[Len(A) + Len(L) + 1] = main
      /\ \A i \in 1 .. Len(S) : t[Len(A) + Len(L) + 1 + i] = S[i]
  <2>1. IsCode(A) /\ IsCode(L) /\ IsCode(S)
    BY <1>3, <1>8 DEF Calm
  <2>2. Joined(A, L, main, S, t)
    BY <2>1, JoinFour
  <2> QED BY <2>2 DEF Joined
<1> HIDE DEF t
<1> DEFINE n == Len(A)
<1>10. n \in Nat /\ DOMAIN A = 1 .. n
  BY <1>3, CodeDomain DEF Calm
<1>11. kl \in {0, 1} /\ ks \in {0, 1} /\ (kl = 1 <=> ld) /\ (ks = 1 <=> sr)
  OBVIOUS
<1> HIDE DEF kl, ks, ld, sr
<1>12. \A i \in 1 .. n : Quiet(t[i])
  BY <1>3, <1>9, <1>10, QuietOpIs DEF Calm
<1>13. \E i \in 1 .. n : Sets(t[i], TMP1)
  BY <1>3, <1>9
<1>14. kl = 1 => t[n + 1] = load
  BY <1>8, <1>9, <1>11
<1>15. t[n + kl + 1] = main /\ (ks = 1 => t[n + kl + 2] = store)
  <2>1. ks = 1 => n + kl + 1 + 1 = n + kl + 2 /\ 1 \in 1 .. Len(S)
    BY <1>8, <1>10, <1>11
  <2> QED BY <1>8, <1>9, <1>11, <2>1
<1>16. Len(t) = n + kl + 1 + ks
  BY <1>8, <1>9
<1> HIDE DEF n
<1>17. CellCode(t, n, kl, ks, Space(p))
  BY <1>4, <1>5, <1>6, <1>7, <1>9, <1>10, <1>11, <1>12, <1>13, <1>14, <1>15, <1>16, QuietOpIs DEF CellCode
<1>18. /\ Len(t) >= 1 /\ IsRtl(t[Len(t)]) /\ Plain(t[Len(t)].srcA) /\ Plain(t[Len(t)].srcB)
  <2>1. CASE ks = 1
    <3>1. Len(t) = n + kl + 2 /\ Len(t) >= 1
      BY <1>10, <1>11, <1>16, <2>1
    <3> QED BY <1>6, <1>15, <2>1, <3>1
  <2>2. CASE ks = 0
    <3>1. Len(t) = n + kl + 1 /\ Len(t) >= 1
      BY <1>10, <1>11, <1>16, <2>2
    <3> QED BY <1>7, <1>15, <3>1 DEF QuietOp, PlainOp
  <2> QED BY <1>11, <2>1, <2>2
<1> QED BY <1>1, <1>9, <1>17, <1>18 DEF BaseCode

LEMMA BaseIs == ASSUME NEW l, IsLl(l), NEW flags PROVE BaseCode(ConvertBase(l, flags))
BY DirectBase, IndirectBase DEF ConvertBase

-----------------------------------------------------------------------------
(* The converter, opcode by opcode *)

LEMMA FieldChanged ==
  ASSUME NEW l, IsLl(l), NEW x, IsOpd(x)
  PROVE  IsLl([l EXCEPT !.srcA = x]) /\ IsLl([l EXCEPT !.srcB = x]) /\ IsLl([l EXCEPT !.dstA = x])
BY DEF IsLl

LEMMA OpChanged == ASSUME NEW l, IsLl(l), NEW op PROVE IsLl([l EXCEPT !.op = op])
BY DEF IsLl

LEMMA LlChanged ==
  ASSUME NEW l, IsLl(l), NEW x, IsOpd(x), NEW y, IsOpd(y)
  PROVE  /\ IsLl([l EXCEPT !.srcA = x, !.srcB = y]) /\ IsLl([l EXCEPT !.srcA = x, !.dstA = y])
         /\ IsLl([l EXCEPT !.srcB = x, !.dstA = y]) /\ IsLl([l EXCEPT !.dstA = x, !.srcA = y])
<1>1. IsLl([l EXCEPT !.srcA = x, !.srcB = y])
  <2>1. [l EXCEPT !.srcA = x, !.srcB = y] = [[l EXCEPT !.srcA = x] EXCEPT !.srcB = y]
    OBVIOUS
  <2>2. IsLl([l EXCEPT !.srcA = x])
    BY FieldChanged
  <2> QED BY <2>1, <2>2, FieldChanged
<1>2. IsLl([l EXCEPT !.srcA = x, !.dstA = y])
  <2>1. [l EXCEPT !.srcA = x, !.dstA = y] = [[l EXCEPT !.srcA = x] EXCEPT !.dstA = y]
    OBVIOUS
  <2>2. IsLl([l EXCEPT !.srcA = x])
    BY FieldChanged
  <2> QED BY <2>1, <2>2, FieldChanged
<1>3. IsLl([l EXCEPT !.srcB = x, !.dstA = y])
  <2>1. [l EXCEPT !.srcB = x, !.dstA = y] = [[l EXCEPT !.srcB = x] EXCEPT !.dstA = y]
    OBVIOUS
  <2>2. IsLl([l EXCEPT !.srcB = x])
    BY FieldChanged
  <2> QED BY <2>1, <2>2, FieldChanged
<1>4. IsLl([l EXCEPT !.dstA = x, !.srcA = y])
  <2>1. [l EXCEPT !.dstA = x, !.srcA = y] = [[l EXCEPT !.dstA = x] EXCEPT !.srcA = y]
    OBVIOUS
  <2>2. IsLl([l EXCEPT !.dstA = x])
    BY FieldChanged
  <2> QED BY <2>1, <2>2, FieldChanged
<1> QED BY <1>1, <1>2, <1>3, <1>4

LEMMA CalmShaped == ASSUME NEW t, Calm(t) PROVE Shaped(t)
<1>1. IsCode(t) /\ \A i \in ReachedAt(t) : Quiet(t[i])
  BY QuietOpIs DEF Calm, ReachedAt
<1> QED BY <1>1, QuietShaped

LEMMA BaseShaped == ASSUME NEW l, IsLl(l), NEW flags PROVE Shaped(ConvertBase(l, flags))
<1> DEFINE t == ConvertBase(l, flags)
<1>1. BaseCode(t)
  BY BaseIs
<1> HIDE DEF t
<1>2. CASE Calm(t)
  BY <1>2, CalmShaped DEF t
<1>3. CASE \E n, ld, sr, ind : CellCode(t, n, ld, sr, ind)
  BY <1>3, CellShaped DEF t
<1> QED BY <1>1, <1>2, <1>3 DEF BaseCode

\* A sequence that begins with an IF.
LEMMA GuardShaped ==
  ASSUME NEW t, IsCode(t), Len(t) >= 1, Quiet(t[1]), t[1].op = "IF" PROVE Shaped(t)
<1>1. \A i \in ReachedAt(t) : i = 1
  BY CodeDomain DEF ReachedAt
<1> QED BY <1>1, QuietShaped

LEMMA JumpShaped ==
  ASSUME NEW t, BaseCode(t), NEW e, Quiet(e) PROVE Shaped(SetLast(t, e))
<1>1. CASE Calm(t)
  <2> DEFINE m == Len(t)
             u == SetLast(t, e)
  <2>1. m \in Nat /\ DOMAIN t = 1 .. m /\ m \in DOMAIN t
    BY <1>1, CodeDomain DEF Calm, BaseCode
  <2>2. u = [t EXCEPT ![m] = e]
    BY DEF SetLast
  <2>3. IsCode(u)
    <3>1. t \in Seq(Elems(t) \cup {e})
      BY <1>1 DEF Calm, IsCode
    <3> HIDE DEF m
    <3>2. u \in Seq(Elems(t) \cup {e})
      BY <2>1, <2>2, <3>1, ExceptSeq
    <3> QED BY <3>2, CodeOf
  <2>4. \A i \in DOMAIN u : Quiet(u[i])
    BY <1>1, <2>1, <2>2, QuietOpIs DEF Calm
  <2> HIDE DEF u
  <2>5. Shaped(u)
    BY <2>3, <2>4, QuietShaped DEF ReachedAt
  <2> QED BY <2>5 DEF u
<1>2. CASE \E n, ld, sr, ind : CellCode(t, n, ld, sr, ind)
  BY <1>2, LastShaped
<1> QED BY <1>1, <1>2 DEF BaseCode

LEMMA TwoCode == ASSUME NEW a, NEW b PROVE IsCode(<<a, b>>)
<1>1. <<a, b>> \in Seq({a, b})
  OBVIOUS
<1> QED BY <1>1, CodeOf

LEMMA ThreeCode == ASSUME NEW a, NEW b, NEW c PROVE IsCode(<<a, b, c>>)
<1>1. <<a, b, c>> \in Seq({a, b, c})
  OBVIOUS
<1> QED BY <1>1, CodeOf

LEMMA FourCode == ASSUME NEW a, NEW b, NEW c, NEW d PROVE IsCode(<<a, b, c, d>>)
<1>1. <<a, b, c, d>> \in Seq({a, b, c, d})
  OBVIOUS
<1> QED BY <1>1, CodeOf

LEMMA OneQuiet == ASSUME NEW e, Quiet(e) PROVE Shaped(<<e>>)
<1>1. IsCode(<<e>>) /\ \A i \in DOMAIN <<e>> : Quiet(<<e>>[i])
  BY OneCode
<1> QED BY <1>1, QuietShaped DEF ReachedAt

LEMMA QuietMade ==
  ASSUME NEW op, NEW flags, NEW a, PlainOp(a), NEW b, PlainOp(b), NEW d, PlainOp(d)
  PROVE  Quiet(Instruction(op, flags, a, b, d))
BY InstructionMade, QuietOpIs

LEMMA SkipQuiet == ASSUME NEW x PROVE Quiet(Skip(x)) /\ Skip(x).op = "IF"
<1>1. Quiet(Skip(x))
  BY QuietMade, OpMade DEF Skip
<1> QED BY <1>1 DEF Skip, Instruction

LEMMA MadeOfBase ==
  ASSUME NEW l, IsLl(l), NEW op
  PROVE  /\ Shaped(ConvertMov(l)) /\ Shaped(ConvertStep(l, op)) /\ Shaped(ConvertTest(l))
         /\ Shaped(ConvertCmp(l)) /\ Shaped(ConvertSex(l))
<1>1. IsOpd(l.srcA) /\ IsOpd(l.srcB) /\ IsOpd(l.dstA)
      /\ IsOpd(Empty(l.srcA)) /\ IsOpd(Empty(l.srcB)) /\ IsOpd(Empty(l.dstA))
  BY OpdMade DEF IsLl, IsOpd
<1>2. \A w : IsLl(w) => IsLl(FromB(w))
  <2> SUFFICES ASSUME NEW w, IsLl(w) PROVE IsLl(FromB(w))
    OBVIOUS
  <2>1. FromB(w) = [w EXCEPT !.srcA = w.srcB, !.srcB = Empty(w.srcB)]
    BY DEF FromB
  <2>2. IsOpd(w.srcB) /\ IsOpd(Empty(w.srcB))
    BY OpdMade DEF IsLl, IsOpd
  <2>3. IsLl([w EXCEPT !.srcA = w.srcB, !.srcB = Empty(w.srcB)])
    <3> DEFINE x == w.srcB
               y == Empty(w.srcB)
    <3>1. IsOpd(x) /\ IsOpd(y)
      BY <2>2
    <3> HIDE DEF x, y
    <3>2. IsLl([w EXCEPT !.srcA = x, !.srcB = y])
      BY <3>1, LlChanged
    <3> QED BY <3>2 DEF x, y
  <2> QED BY <2>1, <2>3
<1>3. Shaped(ConvertMov(l))
  BY <1>2, BaseShaped DEF ConvertMov
<1>4. Shaped(<<Instruction("FAILED", 0, NoOp, NoOp, NoOp)>>)
  BY OneQuiet, QuietMade, OpMade
<1>5. Shaped(ConvertStep(l, op))
  <2> DEFINE one == [kind |-> "IMM", size |-> l.dstA.size, part |-> <<McImm(1, l.dstA.size)>>]
             w == [l EXCEPT !.op = op, !.srcA = l.dstA, !.srcB = one]
  <2>1. IsOpd(one)
    BY DEF IsOpd, Fields, Kinds
  <2>2. ConvertStep(l, op) = IF l.dstA.size = 0 THEN FAILED ELSE ConvertBase(w, 1)
    BY DEF ConvertStep
  <2> HIDE DEF one
  <2>3. IsLl(w)
    <3>1. w = [[l EXCEPT !.op = op] EXCEPT !.srcA = l.dstA, !.srcB = one]
      OBVIOUS
    <3>2. IsLl([l EXCEPT !.op = op])
      BY OpChanged
    <3> HIDE DEF w
    <3> QED BY <1>1, <2>1, <3>1, <3>2, LlChanged
  <2> HIDE DEF w
  <2> QED BY <1>4, <2>2, <2>3, BaseShaped DEF FAILED
<1>6. Shaped(ConvertTest(l))
  <2> DEFINE w == [l EXCEPT !.srcA = l.dstA, !.dstA = Empty(l.dstA)]
  <2>1. ConvertTest(l) = ConvertBase(w, 1) \/ ConvertTest(l) = ConvertBase(l, 1)
    BY DEF ConvertTest
  <2>2. IsLl(w)
    BY <1>1, LlChanged
  <2> HIDE DEF w
  <2> QED BY <2>1, <2>2, BaseShaped
<1>7. Shaped(ConvertCmp(l))
  <2> DEFINE w == [l EXCEPT !.dstA = Empty(l.dstA)]
  <2>1. ConvertCmp(l) = ConvertBase(w, 1)
    BY DEF ConvertCmp
  <2>2. IsLl(w)
    BY <1>1, FieldChanged
  <2> HIDE DEF w
  <2> QED BY <2>1, <2>2, BaseShaped
<1>8. Shaped(ConvertSex(l))
  <2> DEFINE ax(p) == Reg(p, McReg(AX, p.size))
             w == [l EXCEPT !.srcB = ax(l.srcB), !.dstA = ax(l.dstA)]
  <2>1. ConvertSex(l) = ConvertBase(FromB(w), 0) \/ ConvertSex(l) = ConvertBase(FromB(l), 0)
    BY DEF ConvertSex
  <2>2. IsOpd(ax(l.srcB)) /\ IsOpd(ax(l.dstA))
    BY <1>1, OpdMade DEF IsOpd
  <2> HIDE DEF ax
  <2>3. IsLl(w)
    BY <2>2, LlChanged
  <2> HIDE DEF w
  <2>4. IsLl(FromB(w)) /\ IsLl(FromB(l))
    BY <1>2, <2>3
  <2> QED BY <2>1, <2>4, BaseShaped
<1> QED BY <1>3, <1>5, <1>6, <1>7, <1>8

LEMMA GuardedMade ==
  ASSUME NEW l, IsLl(l) PROVE Shaped(ConvertCmov(l)) /\ Shaped(ConvertSetcc(l))
<1>1. \A x : Quiet(Skip(x)) /\ Skip(x).op = "IF"
  BY SkipQuiet
<1>2. Shaped(ConvertCmov(l))
  <2> DEFINE w == [l EXCEPT !.op = "MOV", !.srcB = Empty(l.srcB)]
             A == <<Skip(l.pred)>>
             B == ConvertBase(w, 0)
             t == A \o B
  <2>1. ConvertCmov(l) = t
    BY DEF ConvertCmov
  <2>2. IsLl(w)
    <3>1. IsOpd(Empty(l.srcB))
      BY OpdMade DEF IsLl, IsOpd
    <3>2. w = [[l EXCEPT !.op = "MOV"] EXCEPT !.srcB = Empty(l.srcB)]
      OBVIOUS
    <3>3. IsLl([l EXCEPT !.op = "MOV"])
      BY OpChanged
    <3> HIDE DEF w
    <3> QED BY <3>1, <3>2, <3>3, FieldChanged
  <2> HIDE DEF w
  <2>3. IsCode(A) /\ Len(A) = 1 /\ A[1] = Skip(l.pred) /\ IsCode(B)
    BY <2>2, OneCode, BaseIs DEF BaseCode
  <2> HIDE DEF A, B
  <2>4. IsCode(t) /\ Len(t) = Len(A) + Len(B) /\ \A i \in 1 .. Len(A) : t[i] = A[i]
    BY <2>3, JoinCode
  <2>5. Len(B) \in Nat
    BY <2>3, CodeDomain
  <2> HIDE DEF t
  <2>6. Len(t) >= 1 /\ t[1] = Skip(l.pred)
    BY <2>3, <2>4, <2>5
  <2> QED BY <1>1, <2>1, <2>4, <2>6, GuardShaped
<1>3. Shaped(ConvertSetcc(l))
  <2> DEFINE imm(v) == [kind |-> "IMM", size |-> 8, part |-> <<McImm(v, 8)>>]
             w(v) == [l EXCEPT !.op = "MOV", !.dstA = l.srcA, !.srcA = imm(v)]
             A == <<Skip(l.pred)>>
             B(v) == ConvertBase(w(v), 0)
             m == Skip(Opposite(l.pred))
             t == A \o B(1) \o <<m>> \o B(0)
  <2>1. ConvertSetcc(l) = t
    BY DEF ConvertSetcc
  <2>2. \A v : IsLl(w(v))
    <3> TAKE v
    <3> DEFINE z == [l EXCEPT !.op = "MOV"]
               x == l.srcA
               y == imm(v)
    <3>1. IsOpd(x) /\ IsOpd(y)
      BY DEF IsLl, IsOpd, Fields, Kinds
    <3> HIDE DEF imm
    <3>2. w(v) = [z EXCEPT !.dstA = x, !.srcA = y]
      OBVIOUS
    <3>3. IsLl(z)
      BY OpChanged
    <3> HIDE DEF w, x, y, z
    <3>4. IsLl([z EXCEPT !.dstA = x, !.srcA = y])
      BY <3>1, <3>3, LlChanged
    <3> QED BY <3>2, <3>4
  <2> HIDE DEF w
  <2>3. IsCode(A) /\ Len(A) = 1 /\ A[1] = Skip(l.pred)
    BY OneCode
  <2>4. \A v : IsCode(B(v))
    BY <2>2, BaseIs DEF BaseCode
  <2> HIDE DEF A, B, m
  <2>5. Joined(A, B(1), m, B(0), t)
    BY <2>3, <2>4, JoinFour
  <2>6. Len(B(1)) \in Nat /\ Len(B(0)) \in Nat
    BY <2>4, CodeDomain
  <2> HIDE DEF t
  <2>7. IsCode(t) /\ Len(t) >= 1 /\ t[1] = Skip(l.pred)
    BY <2>3, <2>5, <2>6 DEF Joined
  <2> QED BY <1>1, <2>1, <2>7, GuardShaped
<1> QED BY <1>2, <1>3

LEMMA TargetMade ==
  ASSUME NEW l, IsLl(l)
  PROVE  /\ Shaped(ConvertJmpt(l)) /\ Shaped(ConvertCallm(l))
         /\ Shaped(ConvertJmp(l)) /\ Shaped(ConvertIf(l)) /\ Shaped(ConvertCall(l))
<1>1. \A op : IsLl([l EXCEPT !.op = op])
  BY OpChanged
<1>2. Shaped(ConvertJmpt(l))
  <2> DEFINE t == ConvertBase([l EXCEPT !.op = "JMPT"], 0)
             c == t[Len(t)]
             e == [c EXCEPT !.dstA = RegOp(IP, 64)]
  <2>1. BaseCode(t)
    BY <1>1, BaseIs
  <2>2. ConvertJmpt(l) = SetLast(t, e)
    BY DEF ConvertJmpt
  <2> HIDE DEF t
  <2>3. IsRtl(c) /\ Plain(c.srcA) /\ Plain(c.srcB)
    BY <2>1 DEF BaseCode
  <2>4. Plain(RegOp(IP, 64))
    BY OpMade DEF PlainOp
  <2> HIDE DEF c
  <2>5. Quiet(e)
    BY <2>3, <2>4 DEF IsRtl, Instruction, Quiet
  <2> QED BY <2>1, <2>2, <2>5, JumpShaped
<1>3. Shaped(ConvertCallm(l))
  <2> DEFINE t == ConvertBase([l EXCEPT !.op = "CALL"], 0)
             c == t[Len(t)]
             e == [c EXCEPT !.srcB = RegOp(SP, 64), !.dstA = RegOp(AX, 64)]
  <2>1. BaseCode(t)
    BY <1>1, BaseIs
  <2>2. ConvertCallm(l) = SetLast(t, e)
    BY DEF ConvertCallm
  <2> HIDE DEF t
  <2>3. IsRtl(c) /\ Plain(c.srcA) /\ Plain(c.srcB)
    BY <2>1 DEF BaseCode
  <2>4. Plain(RegOp(SP, 64)) /\ Plain(RegOp(AX, 64))
    BY OpMade DEF PlainOp
  <2> HIDE DEF c
  <2>5. Quiet(e)
    BY <2>3, <2>4 DEF IsRtl, Instruction, Quiet
  <2> QED BY <2>1, <2>2, <2>5, JumpShaped
<1>4. Shaped(ConvertJmp(l))
  BY OneQuiet, QuietMade, OpMade DEF ConvertJmp
<1>5. Shaped(ConvertIf(l))
  BY OneQuiet, QuietMade, OpMade DEF ConvertIf
<1>6. Shaped(ConvertCall(l))
  <2>1. PlainOp(ConvertOperand(l.srcB, 1))
    BY OperandPlain DEF IsLl
  <2> QED BY <2>1, OneQuiet, QuietMade, OpMade DEF ConvertCall
<1> QED BY <1>2, <1>3, <1>4, <1>5, <1>6

LEMMA TopMade ==
  ASSUME NEW d, PlainOp(d), NEW o, PlainOp(o), NEW size, NEW op, NEW bytes
  PROVE  /\ Loading(Pop(d, size), SP) /\ On(Pop(d, size), "STACK") /\ ~On(Pop(d, size), "MEM")
         /\ Quiet(MoveSP(op, bytes))
         /\ LET e == Instruction("STORE", 0, o, RegOp(SP, 64), Top(size))
            IN  Storing(e, SP) /\ On(e, "STACK") /\ ~On(e, "MEM")
<1>1. Top(size).ind = "STACK" /\ Top(size).idx = SP
  BY DEF Top, Indirect, RegOp, Operand
<1>2. Plain(d) /\ Plain(o) /\ \A x : Plain(RegOp(SP, x)) /\ PlainReg(RegOp(SP, x)) /\ RegOp(SP, x).idx = SP
  BY OpMade DEF PlainOp
<1>3. Loading(Pop(d, size), SP) /\ On(Pop(d, size), "STACK") /\ ~On(Pop(d, size), "MEM")
  BY <1>1, <1>2 DEF Pop, Instruction, Loading, On, Spaces, Plain
<1>4. Quiet(MoveSP(op, bytes))
  BY QuietMade, OpMade DEF MoveSP
<1>5. LET e == Instruction("STORE", 0, o, RegOp(SP, 64), Top(size))
      IN  Storing(e, SP) /\ On(e, "STACK") /\ ~On(e, "MEM")
  BY <1>1, <1>2 DEF Instruction, Storing, On, Spaces, Plain
<1> QED BY <1>3, <1>4, <1>5

LEMMA StackMade ==
  ASSUME NEW l, IsLl(l)
  PROVE  Shaped(ConvertPush(l)) /\ Shaped(ConvertPop(l)) /\ Shaped(ConvertLeave) /\ Shaped(ConvertRet)
<1>1. PlainOp(ConvertOperand(l.srcA, 1)) /\ PlainOp(RegOp(BP, 64)) /\ PlainOp(RegOp(TMP1, 64))
  BY OperandPlain, OpMade DEF IsLl
<1>2. Shaped(ConvertPush(l))
  <2> DEFINE a == MoveSP("SUB", l.srcA.size \div 8)
             b == Instruction("STORE", 0, ConvertOperand(l.srcA, 1), RegOp(SP, 64), Top(l.srcA.size))
             t == <<a, b>>
  <2>1. ConvertPush(l) = t
    BY DEF ConvertPush
  <2>2. Quiet(a) /\ Storing(b, SP) /\ On(b, "STACK") /\ ~On(b, "MEM")
    BY <1>1, TopMade
  <2> HIDE DEF a, b
  <2>3. IsCode(t) /\ DOMAIN t = {1, 2} /\ t[1] = a /\ t[2] = b
    BY TwoCode
  <2> HIDE DEF t
  <2>4. 2 \in DOMAIN t /\ \A i \in DOMAIN t \ {2} : Quiet(t[i])
    BY <2>2, <2>3
  <2> QED BY <2>1, <2>2, <2>3, <2>4, StackShaped
<1>3. Shaped(ConvertPop(l))
  <2> DEFINE a == Pop(ConvertOperand(l.srcA, 1), l.srcA.size)
             b == MoveSP("ADD", l.srcA.size \div 8)
             t == <<a, b>>
  <2>1. ConvertPop(l) = t
    BY DEF ConvertPop
  <2>2. Quiet(b) /\ Loading(a, SP) /\ On(a, "STACK") /\ ~On(a, "MEM")
    BY <1>1, TopMade
  <2> HIDE DEF a, b
  <2>3. IsCode(t) /\ DOMAIN t = {1, 2} /\ t[1] = a /\ t[2] = b
    BY TwoCode
  <2> HIDE DEF t
  <2>4. 1 \in DOMAIN t /\ \A i \in DOMAIN t \ {1} : Quiet(t[i])
    BY <2>2, <2>3
  <2> QED BY <2>1, <2>2, <2>3, <2>4, StackShaped
<1>4. Shaped(ConvertLeave)
  <2> DEFINE a == Instruction("MOV", 0, RegOp(BP, 64), NoOp, RegOp(SP, 64))
             b == Pop(RegOp(BP, 64), 64)
             c == MoveSP("ADD", 8)
             t == <<a, b, c>>
  <2>1. ConvertLeave = t
    BY DEF ConvertLeave
  <2>2. Quiet(a) /\ Quiet(c) /\ Loading(b, SP) /\ On(b, "STACK") /\ ~On(b, "MEM")
    BY <1>1, TopMade, QuietMade, OpMade
  <2> HIDE DEF a, b, c
  <2>3. IsCode(t) /\ DOMAIN t = {1, 2, 3} /\ t[1] = a /\ t[2] = b /\ t[3] = c
    <3>1. IsCode(t)
      BY ThreeCode
    <3>2. DOMAIN t = 1 .. 3 /\ t[1] = a /\ t[2] = b /\ t[3] = c
      OBVIOUS
    <3> QED BY <3>1, <3>2
  <2> HIDE DEF t
  <2>4. 2 \in DOMAIN t /\ \A i \in DOMAIN t \ {2} : Quiet(t[i])
    BY <2>2, <2>3
  <2> QED BY <2>1, <2>2, <2>3, <2>4, StackShaped
<1>5. Shaped(ConvertRet)
  <2> DEFINE a == Pop(RegOp(TMP1, 64), 64)
             b == MoveSP("ADD", 8)
             c == Instruction("NOP", 0, RegOp(AX, 64), RegOp(AX, 64), RegOp(AX, 64))
             d == Instruction("MOV", 0, RegOp(TMP1, 64), RegOp(TMP1, 64), RegOp(IP, 64))
             t == <<a, b, c, d>>
  <2>1. ConvertRet = t
    BY DEF ConvertRet
  <2>2. Quiet(b) /\ Quiet(c) /\ Quiet(d) /\ Loading(a, SP) /\ On(a, "STACK") /\ ~On(a, "MEM")
    BY <1>1, TopMade, QuietMade, OpMade
  <2> HIDE DEF a, b, c, d
  <2>3. IsCode(t) /\ DOMAIN t = {1, 2, 3, 4} /\ t[1] = a /\ t[2] = b /\ t[3] = c /\ t[4] = d
    <3>1. IsCode(t)
      BY FourCode
    <3>2. DOMAIN t = 1 .. 4 /\ t[1] = a /\ t[2] = b /\ t[3] = c /\ t[4] = d
      OBVIOUS
    <3> QED BY <3>1, <3>2
  <2> HIDE DEF t
  <2>4. 1 \in DOMAIN t /\ \A i \in DOMAIN t \ {1} : Quiet(t[i])
    BY <2>2, <2>3
  <2> QED BY <2>1, <2>2, <2>3, <2>4, StackShaped
<1> QED BY <1>2, <1>3, <1>4, <1>5

LEMMA MulMade ==
  ASSUME NEW l, IsLl(l), NEW widen PROVE Shaped(ConvertLongMul(l, widen))
<1> DEFINE a(size) == RegOp(AX, size)
           s(size) == Sized(ConvertOperand(l.srcA, 1), size)
           c1 == Instruction(widen, 0, s(32), NoOp, s(64))
           c2 == Instruction(widen, 0, a(32), NoOp, a(64))
           c3 == Instruction("MUL", 1, a(64), s(64), a(64))
           c4 == Instruction("SAR", 0, a(64), ImmOp(HalfBits, 64), s(64))
           c5 == Instruction("TRUNC", 0, a(64), NoOp, a(32))
           c6 == Instruction("TRUNC", 0, s(64), NoOp, s(32))
           t == <<c1, c2, c3, c4, c5, c6>>
<1>1. ConvertLongMul(l, widen) = t
  BY DEF ConvertLongMul
<1>2. PlainOp(s(32)) /\ PlainOp(s(64)) /\ PlainOp(a(32)) /\ PlainOp(a(64)) /\ PlainOp(NoOp)
      /\ PlainOp(ImmOp(HalfBits, 64))
  <2>1. PlainOp(ConvertOperand(l.srcA, 1))
    BY OperandPlain DEF IsLl
  <2> QED BY <2>1, OpMade, SizedPlain
<1> HIDE DEF a, s
<1>3. Quiet(c1) /\ Quiet(c2) /\ Quiet(c3) /\ Quiet(c4) /\ Quiet(c5) /\ Quiet(c6)
  BY <1>2, QuietMade
<1> HIDE DEF c1, c2, c3, c4, c5, c6
<1>4. IsCode(t)
  <2>1. t \in Seq({c1, c2, c3, c4, c5, c6})
    OBVIOUS
  <2> QED BY <2>1, CodeOf
<1>5. \A i \in DOMAIN t : Quiet(t[i])
  BY <1>3
<1> HIDE DEF t
<1> QED BY <1>1, <1>4, <1>5, QuietShaped DEF ReachedAt

LEMMA MovsMade ==
  ASSUME NEW l, IsLl(l), l.srcA.kind = "REG", l.dstA.kind = "REG" PROVE Shaped(ConvertMovs(l))
<1> DEFINE s == ConvertOperand(l.srcA, 1)
           d == ConvertOperand(l.dstA, 1)
           cx == RegOp(CX, l.srcA.size)
           h1 == Instruction("CMP", 1, cx, ImmOp(0, l.srcA.size), ImmOp(0, 32))
           h2 == Skip(4)
           h3 == Instruction("SUB", 0, ImmOp(1, l.srcA.size), cx, cx)
           b1 == Instruction("LOAD", 0, Indirect(s, "MEM"), s, RegOp(TMP2, 64))
           b2 == Instruction("STORE", 0, RegOp(TMP2, 64), d, Indirect(d, "MEM"))
           b3 == Instruction("ADD", 0, ImmOp(l.srcA.size \div 8, l.srcA.size), s, s)
           b4 == Instruction("ADD", 0, ImmOp(l.dstA.size \div 8, l.dstA.size), d, d)
           e  == Instruction("JMP", 0, ImmOp(Minus(0, l.len), 64), NoOp, RegOp(IP, 64))
           head == <<h1, h2, h3>>
           body == <<b1, b2, b3, b4>>
           back == <<e>>
<1>1. ConvertMovs(l) = IF l.rep = 1 THEN head \o body \o back ELSE body
  BY DEF ConvertMovs
<1>2. PlainOp(s) /\ PlainReg(s) /\ PlainOp(d) /\ PlainReg(d)
  BY OperandPlain DEF IsLl
<1>3. Quiet(h1) /\ Quiet(h2) /\ h2.op = "IF"
  <2>1. PlainOp(cx) /\ \A v, z : PlainOp(ImmOp(v, z))
    BY OpMade
  <2>2. Quiet(h1)
    BY <2>1, QuietMade
  <2> QED BY <2>2, SkipQuiet
<1>4. \A o : PlainOp(o) /\ PlainReg(o) =>
        Indirect(o, "MEM").ind = "MEM" /\ Indirect(o, "MEM").idx = o.idx
  BY DEF Indirect, PlainOp, Operand
<1> HIDE DEF s, d
<1>5. Loading(b1, s.idx) /\ b1.srcA.ind = "MEM" /\ Plain(b1.dstA) /\ b1.dstA.idx # IP
  <2>1. b1.op = "LOAD" /\ b1.srcA = Indirect(s, "MEM") /\ b1.srcB = s /\ b1.dstA = RegOp(TMP2, 64)
    BY DEF Instruction
  <2>2. Plain(s) /\ Plain(RegOp(TMP2, 64)) /\ RegOp(TMP2, 64).idx # IP
    BY <1>2, OpMade DEF PlainOp, TMP2, IP
  <2> QED BY <1>2, <1>4, <2>1, <2>2 DEF Loading, Spaces
<1>6. Storing(b2, d.idx) /\ b2.dstA.ind = "MEM" /\ Plain(b2.srcA)
  <2>1. b2.op = "STORE" /\ b2.srcA = RegOp(TMP2, 64) /\ b2.srcB = d /\ b2.dstA = Indirect(d, "MEM")
    BY DEF Instruction
  <2>2. Plain(RegOp(TMP2, 64))
    BY OpMade DEF PlainOp
  <2> QED BY <1>2, <1>4, <2>1, <2>2 DEF Storing, Spaces
<1>7. IsAdvance(b3) /\ b3.dstA.idx = s.idx /\ IsAdvance(b4)
  <2>1. \A v, z : PlainOp(ImmOp(v, z)) /\ ImmOp(v, z).store = "IMM"
    BY OpMade
  <2>2. Quiet(b3) /\ Quiet(b4)
    BY <1>2, <2>1, QuietMade
  <2>3. /\ b3.op = "ADD" /\ b3.srcA = ImmOp(l.srcA.size \div 8, l.srcA.size) /\ b3.dstA = s
        /\ b4.op = "ADD" /\ b4.srcA = ImmOp(l.dstA.size \div 8, l.dstA.size) /\ b4.dstA = d
    BY DEF Instruction
  <2> QED BY <1>2, <2>1, <2>2, <2>3 DEF IsAdvance
<1> HIDE DEF h1, h2, h3, b1, b2, b3, b4, e
<1>8. /\ IsCode(body) /\ DOMAIN body = 1 .. 4 /\ Len(body) = 4
      /\ body[1] = b1 /\ body[2] = b2 /\ body[3] = b3 /\ body[4] = b4
  BY FourCode
<1> HIDE DEF body
<1>9. Shaped(body)
  <2>1. Quiet(body[3]) /\ Quiet(body[4])
    BY <1>7, <1>8 DEF IsAdvance
  <2>2. \A i \in DOMAIN body : i = 1 \/ i = 2 \/ i = 3 \/ i = 4
    BY <1>8
  <2>3. Formed(body)
    BY <1>5, <1>6, <1>8, <2>1, <2>2 DEF Formed, ReachedAt
  <2>4. Within(body, "MEM", {1, 2})
    BY <2>1, <2>2, QuietNot DEF Within, ReachedAt
  <2>5. Within(body, "STACK", {0})
    <3>1. ~On(b1, "STACK") /\ ~On(b2, "STACK")
      BY <1>5, <1>6 DEF On, Plain
    <3> QED BY <1>8, <2>1, <2>2, <3>1, QuietNot DEF Within, ReachedAt
  <2>6. MoveLoad(body, s.idx)
    BY <1>5, <1>6, <1>7, <1>8 DEF MoveLoad
  <2>7. 0 \in Int /\ 1 \in Int /\ 2 \in Int
    OBVIOUS
  <2> QED BY <1>8, <2>3, <2>4, <2>5, <2>6, <2>7 DEF Shaped
<1>10. Shaped(head \o body \o back)
  <2> DEFINE u == head \o body
             t == u \o back
  <2>1. IsCode(head) /\ Len(head) = 3 /\ head[1] = h1 /\ head[2] = h2 /\ IsCode(back) /\ Len(back) = 1
    BY OneCode, ThreeCode
  <2> HIDE DEF head, back
  <2>2. IsCode(u) /\ Len(u) = Len(head) + Len(body) /\ \A i \in 1 .. Len(head) : u[i] = head[i]
    BY <1>8, <2>1, JoinCode
  <2> HIDE DEF u
  <2>3. IsCode(t) /\ \A i \in 1 .. Len(u) : t[i] = u[i]
    BY <2>1, <2>2, JoinCode
  <2> HIDE DEF t
  <2>4. t[1] = h1 /\ t[2] = h2
    <3>1. Len(u) = 7
      BY <1>8, <2>1, <2>2
    <3> QED BY <2>1, <2>2, <2>3, <3>1
  <2>5. DOMAIN t = 1 .. Len(t) /\ Len(t) \in Nat
    BY <2>3, CodeDomain
  <2>6. \A i \in ReachedAt(t) : i = 1 \/ i = 2
    <3> SUFFICES ASSUME NEW i \in DOMAIN t, i > 2, \A j \in 1 .. i - 1 : t[j].op # "IF" PROVE FALSE
      BY <2>5 DEF ReachedAt
    <3>1. 2 \in 1 .. i - 1
      BY <2>5
    <3> QED BY <1>3, <2>4, <3>1
  <2>7. Shaped(t)
    BY <1>3, <2>3, <2>4, <2>6, QuietShaped
  <2> QED BY <2>7 DEF t, u
<1> QED BY <1>1, <1>9, <1>10

LEMMA EmptyShaped == Shaped(<<>>)
BY EmptyCalm, CalmShaped

LEMMA FailedShaped == Shaped(FAILED)
BY OneQuiet, QuietMade, OpMade DEF FAILED

LEMMA LlShaped ==
  ASSUME NEW l, IsLl(l), l.op = "MOVS" => l.srcA.kind = "REG" /\ l.dstA.kind = "REG"
  PROVE  Shaped(ConvertLl(l))
<1> DEFINE S(t) == Shaped(t)
<1>1. S(<<>>) /\ S(FAILED)
  BY EmptyShaped, FailedShaped
<1>2. S(ConvertMov(l)) /\ (\A op : S(ConvertStep(l, op))) /\ S(ConvertTest(l)) /\ S(ConvertCmp(l))
      /\ S(ConvertSex(l))
  BY MadeOfBase
<1>3. S(ConvertCmov(l)) /\ S(ConvertSetcc(l))
  BY GuardedMade
<1>4. S(ConvertJmpt(l)) /\ S(ConvertCallm(l)) /\ S(ConvertJmp(l)) /\ S(ConvertIf(l)) /\ S(ConvertCall(l))
  BY TargetMade
<1>5. S(ConvertPush(l)) /\ S(ConvertPop(l)) /\ S(ConvertLeave) /\ S(ConvertRet)
  BY StackMade
<1>6. (\A w : S(ConvertLongMul(l, w))) /\ S(ConvertMuld(l))
  BY MulMade DEF ConvertMuld
<1>7. l.op = "MOVS" => S(ConvertMovs(l))
  BY MovsMade
<1>8. \A f : S(ConvertBase(l, f))
  BY BaseShaped
<1> HIDE DEF S
<1>9. S(ConvertLl(l))
  BY <1>1, <1>2, <1>3, <1>4, <1>5, <1>6, <1>7, <1>8, Zenon DEF ConvertLl
<1> QED BY <1>9 DEF S

LEMMA LiftedShaped ==
  ASSUME NEW m \in Insts PROVE Shaped(Lifted(DecodeInstruction(m)))
<1> DEFINE l == DecodeInstruction(m)
<1>1. CASE l = Undecoded
  BY <1>1, FailedShaped DEF Lifted, Undecoded
<1>2. CASE IsLl(l) /\ l.op = Helper[m.name].op /\ l # Undecoded
  <2>1. Helper[m.name].op = "MOVS" => m.form = "RawFrmDstSrc"
    BY InstsAssumption
  <2>2. l.op = "MOVS" => l.srcA.kind = "REG" /\ l.dstA.kind = "REG"
    BY <1>2, <2>1, Decoded
  <2>3. Shaped(ConvertLl(l))
    BY <1>2, <2>2, LlShaped
  <2> QED BY <2>3, FailedShaped DEF Lifted
<1> QED BY <1>1, <1>2, Decoded

-----------------------------------------------------------------------------
(* One instruction of a sequence *)

LEMMA TailReached ==
  ASSUME NEW t, IsCode(t), t # <<>>, t[1].op # "IF"
  PROVE  /\ 1 \in ReachedAt(t) /\ Len(Tail(t)) \in Nat
         /\ \A i \in ReachedAt(Tail(t)) : i + 1 \in ReachedAt(t) /\ Tail(t)[i] = t[i + 1] /\ i >= 1 /\ i \in Nat
<1> DEFINE u == Tail(t)
<1>1. /\ IsCode(u) /\ Len(t) >= 1 /\ Len(u) = Len(t) - 1 /\ \A i \in 1 .. Len(t) - 1 : u[i] = t[i + 1]
  BY TailCode
<1> HIDE DEF u
<1>2. Len(t) \in Nat /\ DOMAIN t = 1 .. Len(t) /\ DOMAIN u = 1 .. Len(u) /\ Len(u) \in Nat
  BY <1>1, CodeDomain
<1>3. 1 \in ReachedAt(t)
  BY <1>1, <1>2 DEF ReachedAt
<1>4. ASSUME NEW i \in ReachedAt(u)
      PROVE  i + 1 \in ReachedAt(t) /\ u[i] = t[i + 1] /\ i >= 1 /\ i \in Nat
  <2>1. i \in 1 .. Len(t) - 1 /\ i + 1 \in DOMAIN t
    BY <1>1, <1>2 DEF ReachedAt
  <2>2. ASSUME NEW j \in 1 .. (i + 1) - 1 PROVE t[j].op # "IF"
    <3>1. CASE j = 1
      BY <3>1
    <3>2. CASE j > 1
      <4>1. j - 1 \in 1 .. i - 1 /\ j - 1 \in 1 .. Len(t) - 1 /\ (j - 1) + 1 = j
        BY <2>1, <3>2
      <4>2. u[j - 1] = t[j]
        BY <1>1, <4>1
      <4> QED BY <4>1, <4>2 DEF ReachedAt
    <3> QED BY <2>1, <3>1, <3>2
  <2> QED BY <1>1, <2>1, <2>2 DEF ReachedAt
<1> QED BY <1>2, <1>3, <1>4 DEF u

\* Room for the cells that the rest of a machine instruction may add.
DataRoom(t, s, n) ==
  \/ Within(t, "MEM", {}) /\ Len(s.data) <= 2 * n
  \/ \E p \in Int : Within(t, "MEM", {p}) /\ Len(s.data) + 1 <= 2 * n
  \/ \E p, q \in Int : Within(t, "MEM", {p, q}) /\ Len(s.data) + 2 <= 2 * n

\* The register of a pair is there, or will be.
Ready(t, i, s) == Has(s.reg, TMP1) \/ \E j \in 1 .. i - 1 : Sets(t[j], TMP1)

\* Behind the LOAD of a pair the cell is there.
Final(e) == Storing(e, TMP1) /\ e.dstA.ind = "STACK"
Half(t, s) ==
  /\ Has(s.reg, TMP1) /\ Has(s.stack, Pointed(s, TMP1))
  /\ \/ Len(t) = 1 /\ Final(t[1])
     \/ Len(t) = 2 /\ Quiet(t[1]) /\ t[1].dstA.idx # TMP1 /\ Final(t[2])

\* The like for the cells of the stack: one, or the pair of one cell.
StackRoom(t, s, n) ==
  \/ Within(t, "STACK", {}) /\ Len(s.stack) <= 1 + n
  \/ \E p \in Int : Within(t, "STACK", {p}) /\ Len(s.stack) + 1 <= 1 + n
  \/ (\E i : PairAt(t, i) /\ Ready(t, i, s)) /\ Len(s.stack) + 1 <= 1 + n
  \/ Half(t, s) /\ Len(s.stack) <= 1 + n

\* An access uses up its place.
LEMMA WithinTail ==
  ASSUME NEW t, IsCode(t), t # <<>>, t[1].op # "IF", NEW ind
  PROVE  /\ Within(t, ind, {}) => ~On(t[1], ind) /\ Within(Tail(t), ind, {})
         /\ \A p \in Int : Within(t, ind, {p}) =>
              \/ Within(Tail(t), ind, {}) \/ (~On(t[1], ind) /\ Within(Tail(t), ind, {p - 1}))
         /\ \A p, q \in Int : Within(t, ind, {p, q}) =>
              \/ \E x \in Int : Within(Tail(t), ind, {x})
              \/ ~On(t[1], ind) /\ Within(Tail(t), ind, {p - 1, q - 1})
<1> DEFINE u == Tail(t)
<1>1. /\ 1 \in ReachedAt(t)
      /\ \A i \in ReachedAt(u) : i + 1 \in ReachedAt(t) /\ u[i] = t[i + 1] /\ i >= 1 /\ i \in Nat
  BY TailReached
<1> HIDE DEF u
<1>2. Within(t, ind, {}) => ~On(t[1], ind) /\ Within(u, ind, {})
  BY <1>1 DEF Within
<1>3. ASSUME NEW p \in Int, Within(t, ind, {p})
      PROVE  Within(u, ind, {}) \/ (~On(t[1], ind) /\ Within(u, ind, {p - 1}))
  <2>1. CASE On(t[1], ind)
    <3>1. p = 1
      BY <1>1, <1>3, <2>1 DEF Within
    <3>2. \A i \in ReachedAt(u) : ~On(u[i], ind)
      BY <1>1, <1>3, <3>1 DEF Within
    <3> QED BY <3>2 DEF Within
  <2>2. CASE ~On(t[1], ind)
    <3>1. \A i \in ReachedAt(u) : On(u[i], ind) => i = p - 1
      BY <1>1, <1>3 DEF Within
    <3> QED BY <2>2, <3>1 DEF Within
  <2> QED BY <2>1, <2>2
<1>4. ASSUME NEW p \in Int, NEW q \in Int, Within(t, ind, {p, q})
      PROVE  \/ \E x \in Int : Within(u, ind, {x})
             \/ ~On(t[1], ind) /\ Within(u, ind, {p - 1, q - 1})
  <2>0. \A i \in ReachedAt(u) : On(u[i], ind) => i = p - 1 \/ i = q - 1
    BY <1>1, <1>4 DEF Within
  <2>1. CASE On(t[1], ind)
    <3>1. p = 1 \/ q = 1
      BY <1>1, <1>4, <2>1 DEF Within
    <3>2. CASE p = 1
      <4>1. \A i \in ReachedAt(u) : On(u[i], ind) => i = q - 1
        BY <1>1, <2>0, <3>2
      <4>2. Within(u, ind, {q - 1}) /\ q - 1 \in Int
        BY <4>1 DEF Within
      <4> QED BY <4>2
    <3>3. CASE q = 1
      <4>1. \A i \in ReachedAt(u) : On(u[i], ind) => i = p - 1
        BY <1>1, <2>0, <3>3
      <4>2. Within(u, ind, {p - 1}) /\ p - 1 \in Int
        BY <4>1 DEF Within
      <4> QED BY <4>2
    <3> QED BY <3>1, <3>2, <3>3
  <2>2. CASE ~On(t[1], ind)
    BY <2>0, <2>2 DEF Within
  <2> QED BY <2>1, <2>2
<1> QED BY <1>2, <1>3, <1>4 DEF u

\* What the head of a formed sequence is.
LEMMA HeadFormed ==
  ASSUME NEW t, IsCode(t), t # <<>>, t[1].op # "IF", Formed(t)
  PROVE  /\ Quiet(t[1]) \/ \E r : Loading(t[1], r) \/ Storing(t[1], r)
         /\ Formed(Tail(t)) /\ IsCode(Tail(t))
<1> DEFINE u == Tail(t)
<1>1. /\ 1 \in ReachedAt(t)
      /\ \A i \in ReachedAt(u) : i + 1 \in ReachedAt(t) /\ u[i] = t[i + 1] /\ i >= 1 /\ i \in Nat
  BY TailReached
<1>2. IsCode(u)
  BY TailCode
<1> HIDE DEF u
<1>3. Formed(u)
  BY <1>1 DEF Formed
<1>4. Quiet(t[1]) \/ \E r : Loading(t[1], r) \/ Storing(t[1], r)
  BY <1>1 DEF Formed
<1> QED BY <1>2, <1>3, <1>4 DEF u

\* The sizes of the stores after one instruction.
Grows(s, e, u) ==
  /\ Sizes(s) /\ Sizes(u) /\ \A b : Has(s.reg, b) => Has(u.reg, b)
  /\ Len(u.stack) <= Len(s.stack) + 1 /\ Len(u.data) <= Len(s.data) + 1
  /\ ~On(e, "STACK") => Len(u.stack) = Len(s.stack)
  /\ ~On(e, "MEM") => Len(u.data) = Len(s.data)

LEMMA HeadGrows ==
  ASSUME NEW s, IsState(s), NEW e, Quiet(e) \/ \E r : Loading(e, r) \/ Storing(e, r)
  PROVE  Grows(s, e, Execute(s, e).st)
<1> DEFINE u == Execute(s, e).st
<1>1. Sizes(s)
  BY StateSizes
<1>2. CASE Quiet(e)
  <2>1. QuietStep(s, u, e.dstA.idx)
    BY <1>2, QuietRuns DEF QuietKeeps
  <2>2. IsState(u)
    BY ExecuteState
  <2>3. Sizes(u)
    BY <2>2, StateSizes
  <2> HIDE DEF u
  <2>4. Grows(s, e, u)
    BY <1>1, <2>1, <2>3 DEF Grows, QuietStep, Sizes
  <2> QED BY <2>4 DEF u
<1>3. ASSUME NEW r, Loading(e, r) PROVE Grows(s, e, u)
  <2>1. CellStep(s, u, e.srcA.ind)
    BY <1>3, LoadRuns
  <2> HIDE DEF u
  <2>2. e.srcA.ind \in Spaces /\ (On(e, "STACK") <=> e.srcA.ind = "STACK") /\ (On(e, "MEM") <=> e.srcA.ind = "MEM")
    BY <1>3, LoadingIs DEF Spaces, Loading
  <2> QED BY <1>1, <2>1, <2>2 DEF Grows, CellStep, Sizes, Spaces
<1>4. ASSUME NEW r, Storing(e, r) PROVE Grows(s, e, u)
  <2>1. CellStep(s, u, e.dstA.ind)
    BY <1>4, StoreRuns
  <2> HIDE DEF u
  <2>2. e.dstA.ind \in Spaces /\ (On(e, "STACK") <=> e.dstA.ind = "STACK") /\ (On(e, "MEM") <=> e.dstA.ind = "MEM")
    BY <1>4, StoringIs DEF Spaces, Storing
  <2> QED BY <1>1, <2>1, <2>2 DEF Grows, CellStep, Sizes, Spaces
<1> QED BY <1>2, <1>3, <1>4

LEMMA DataStep ==
  ASSUME NEW t, IsCode(t), t # <<>>, t[1].op # "IF", NEW n \in Nat, NEW s, NEW u,
         Grows(s, t[1], u), DataRoom(t, s, n)
  PROVE  Len(u.data) <= 2 * n /\ DataRoom(Tail(t), u, n)
<1> DEFINE a == Len(s.data)
           b == Len(u.data)
           m == 2 * n
<1>1. a \in Nat /\ b \in Nat /\ m \in Nat /\ b <= a + 1 /\ (~On(t[1], "MEM") => b = a)
  BY DEF Grows, Sizes
<1>2. CASE Within(t, "MEM", {}) /\ a <= m
  <2>1. ~On(t[1], "MEM") /\ Within(Tail(t), "MEM", {})
    BY <1>2, WithinTail
  <2> QED BY <1>1, <1>2, <2>1 DEF DataRoom
<1>3. ASSUME NEW p \in Int, Within(t, "MEM", {p}), a + 1 <= m
      PROVE  b <= m /\ DataRoom(Tail(t), u, n)
  <2>0. b <= m
    BY <1>1, <1>3
  <2>1. CASE Within(Tail(t), "MEM", {})
    BY <2>0, <2>1 DEF DataRoom
  <2>2. CASE ~On(t[1], "MEM") /\ Within(Tail(t), "MEM", {p - 1})
    <3>1. b + 1 <= m /\ p - 1 \in Int
      BY <1>1, <1>3, <2>2
    <3> QED BY <2>0, <2>2, <3>1 DEF DataRoom
  <2> QED BY <1>3, <2>1, <2>2, WithinTail
<1>4. ASSUME NEW p \in Int, NEW q \in Int, Within(t, "MEM", {p, q}), a + 2 <= m
      PROVE  b <= m /\ DataRoom(Tail(t), u, n)
  <2>0. b + 1 <= m
    BY <1>1, <1>4
  <2>1. ASSUME NEW x \in Int, Within(Tail(t), "MEM", {x}) PROVE b <= m /\ DataRoom(Tail(t), u, n)
    <3>1. b <= m
      BY <1>1, <2>0
    <3> QED BY <2>0, <2>1, <3>1 DEF DataRoom
  <2>2. CASE ~On(t[1], "MEM") /\ Within(Tail(t), "MEM", {p - 1, q - 1})
    <3>1. b + 2 <= m /\ p - 1 \in Int /\ q - 1 \in Int /\ b <= m
      BY <1>1, <1>4, <2>2
    <3> QED BY <2>2, <3>1 DEF DataRoom
  <2> QED BY <1>4, <2>1, <2>2, WithinTail
<1> QED BY <1>2, <1>3, <1>4 DEF DataRoom

LEMMA PairStep ==
  ASSUME NEW t, IsCode(t), t # <<>>, t[1].op # "IF", NEW s, IsState(s), NEW i, PairAt(t, i),
         Ready(t, i, s)
  PROVE  LET x == Execute(s, t[1])
         IN  x.exit \/ (i # 1 /\ PairAt(Tail(t), i - 1) /\ Ready(Tail(t), i - 1, x.st) /\ Quiet(t[1]))
                    \/ (i = 1 /\ Half(Tail(t), x.st))
<1> DEFINE u == Tail(t)
           e == t[1]
           x == Execute(s, e)
<1>1. /\ IsCode(u) /\ Len(t) >= 1 /\ Len(u) = Len(t) - 1 /\ \A k \in 1 .. Len(t) - 1 : u[k] = t[k + 1]
  BY TailCode
<1>2. Len(t) \in Nat /\ i \in Nat /\ i >= 1 /\ Len(t) = i + 2
  BY CodeDomain DEF PairAt
<1> HIDE DEF u
<1>3. ASSUME i # 1, ~x.exit
      PROVE  PairAt(u, i - 1) /\ Ready(u, i - 1, x.st) /\ Quiet(e)
  <2>1. Quiet(e)
    BY <1>2, <1>3 DEF PairAt
  <2>2. i - 1 \in Nat /\ i - 1 >= 1 /\ Len(u) = (i - 1) + 2
    BY <1>1, <1>2, <1>3
  <2>3. u[i - 1] = t[i] /\ u[(i - 1) + 1] = t[i + 1] /\ u[(i - 1) + 2] = t[i + 2]
    <3>1. i - 1 \in 1 .. Len(t) - 1 /\ i \in 1 .. Len(t) - 1 /\ i + 1 \in 1 .. Len(t) - 1
          /\ (i - 1) + 1 = i /\ (i - 1) + 2 = i + 1 /\ (i + 1) + 1 = i + 2
      BY <1>2, <1>3
    <3> QED BY <1>1, <3>1
  <2>4. \A k \in 1 .. (i - 1) - 1 : u[k] = t[k + 1] /\ k + 1 \in 1 .. i - 1
    BY <1>1, <1>2, <1>3
  <2>5. PairAt(u, i - 1)
    BY <2>2, <2>3, <2>4 DEF PairAt
  <2>6. Ready(u, i - 1, x.st)
    <3>1. QuietKeeps(s, e, x)
      BY <2>1, QuietRuns
    <3> HIDE DEF x
    <3>2. CASE Has(s.reg, TMP1)
      BY <3>1, <3>2 DEF Ready, QuietKeeps, QuietStep
    <3>3. ASSUME NEW k \in 1 .. i - 1, Sets(t[k], TMP1) PROVE Ready(u, i - 1, x.st)
      <4>1. CASE k = 1
        BY <1>3, <3>1, <3>3, <4>1 DEF Ready, QuietKeeps
      <4>2. CASE k # 1
        <5>1. k - 1 \in 1 .. (i - 1) - 1 /\ (k - 1) + 1 = k
          BY <1>2, <4>2
        <5>2. u[k - 1] = t[k]
          BY <2>4, <5>1
        <5> QED BY <3>3, <5>1, <5>2 DEF Ready
      <4> QED BY <4>1, <4>2
    <3> QED BY <3>2, <3>3 DEF Ready
  <2> QED BY <2>1, <2>5, <2>6
<1>4. ASSUME i = 1 PROVE Half(u, x.st)
  <2>1. Loading(e, TMP1) /\ e.srcA.ind = "STACK" /\ e.dstA.idx # TMP1
        /\ Quiet(t[2]) /\ t[2].dstA.idx # TMP1 /\ Storing(t[3], TMP1) /\ t[3].dstA.ind = "STACK"
    BY <1>4 DEF PairAt
  <2>2. Has(s.reg, TMP1)
    BY <1>4 DEF Ready
  <2>3. Has(x.st.reg, TMP1) /\ Has(x.st.stack, Pointed(x.st, TMP1))
    BY <2>1, <2>2, LoadRuns
  <2> HIDE DEF x
  <2>4. Len(u) = 2 /\ u[1] = t[2] /\ u[2] = t[3]
    BY <1>1, <1>2, <1>4
  <2> QED BY <2>1, <2>3, <2>4 DEF Half, Final
<1> QED BY <1>3, <1>4 DEF u, x, e

LEMMA HalfStep ==
  ASSUME NEW t, IsCode(t), t # <<>>, NEW s, IsState(s), Half(t, s)
  PROVE  LET x == Execute(s, t[1])
         IN  /\ Len(x.st.stack) = Len(s.stack)
             /\ Half(Tail(t), x.st) \/ Tail(t) = <<>>
<1> DEFINE u == Tail(t)
           e == t[1]
           x == Execute(s, e)
<1>1. /\ IsCode(u) /\ Len(t) >= 1 /\ Len(u) = Len(t) - 1 /\ \A k \in 1 .. Len(t) - 1 : u[k] = t[k + 1]
  BY TailCode
<1>2. Len(t) \in Nat
  BY CodeDomain
<1>3. CASE Len(t) = 1 /\ Final(e)
  <2>1. Len(x.st.stack) = Len(s.stack)
    BY <1>3, StoreRuns DEF Half, Final
  <2>2. u = <<>>
    <3>1. Len(u) = 0 /\ u \in Seq(Elems(u))
      BY <1>1, <1>3 DEF IsCode
    <3> HIDE DEF u
    <3> QED BY <3>1
  <2> QED BY <2>1, <2>2
<1>4. ASSUME Len(t) = 2, Quiet(e), e.dstA.idx # TMP1, Final(t[2])
      PROVE  Len(x.st.stack) = Len(s.stack) /\ Half(u, x.st)
  <2>1. QuietStep(s, x.st, e.dstA.idx)
    BY <1>4, QuietRuns DEF QuietKeeps
  <2> HIDE DEF x, u
  <2>2. Has(s.reg, TMP1) /\ Has(s.stack, Pointed(s, TMP1)) /\ TMP1 # IP
    BY DEF Half, TMP1, IP
  <2>3. x.st.stack = s.stack /\ Has(x.st.reg, TMP1) /\ Found(x.st.reg, TMP1) = Found(s.reg, TMP1)
    BY <1>4, <2>1, <2>2 DEF QuietStep
  <2>4. Pointed(x.st, TMP1) = Pointed(s, TMP1)
    BY <2>3 DEF Pointed
  <2>5. Len(u) = 1 /\ u[1] = t[2]
    BY <1>1, <1>4
  <2>6. Half(u, x.st)
    BY <1>4, <2>2, <2>3, <2>4, <2>5 DEF Half
  <2> QED BY <2>3, <2>6
<1> QED BY <1>3, <1>4 DEF Half, u, x, e

LEMMA EmptyWithin == ASSUME NEW ind PROVE Within(<<>>, ind, {})
<1>1. DOMAIN <<>> = {}
  OBVIOUS
<1> QED BY <1>1 DEF Within, ReachedAt

LEMMA StackStep ==
  ASSUME NEW t, IsCode(t), t # <<>>, t[1].op # "IF", NEW n \in Nat, NEW s, IsState(s),
         Grows(s, t[1], Execute(s, t[1]).st), StackRoom(t, s, n)
  PROVE  LET x == Execute(s, t[1])
         IN  Len(x.st.stack) <= 1 + n /\ (~x.exit => StackRoom(Tail(t), x.st, n))
<1> DEFINE e == t[1]
           x == Execute(s, e)
           u == Tail(t)
           a == Len(s.stack)
           b == Len(x.st.stack)
<1>1. a \in Nat /\ b \in Nat /\ b <= a + 1 /\ (~On(e, "STACK") => b = a)
  BY DEF Grows, Sizes
<1>2. ASSUME Within(t, "STACK", {}), a <= 1 + n
      PROVE  b <= 1 + n /\ StackRoom(u, x.st, n)
  <2>1. ~On(e, "STACK") /\ Within(u, "STACK", {})
    BY <1>2, WithinTail
  <2>2. b <= 1 + n
    BY <1>1, <1>2, <2>1
  <2> HIDE DEF x, u
  <2> QED BY <2>1, <2>2 DEF StackRoom
<1>3. ASSUME NEW p \in Int, Within(t, "STACK", {p}), a + 1 <= 1 + n
      PROVE  b <= 1 + n /\ StackRoom(u, x.st, n)
  <2>0. b <= 1 + n
    BY <1>1, <1>3
  <2>1. Within(u, "STACK", {}) \/ (~On(e, "STACK") /\ Within(u, "STACK", {p - 1}))
    BY <1>3, WithinTail
  <2> HIDE DEF x, u
  <2>2. CASE Within(u, "STACK", {})
    BY <2>0, <2>2 DEF StackRoom
  <2>3. CASE ~On(e, "STACK") /\ Within(u, "STACK", {p - 1})
    <3>1. b + 1 <= 1 + n /\ p - 1 \in Int
      BY <1>1, <1>3, <2>3
    <3> QED BY <2>0, <2>3, <3>1 DEF StackRoom
  <2> QED BY <2>1, <2>2, <2>3
<1>4. ASSUME NEW i, PairAt(t, i), Ready(t, i, s), a + 1 <= 1 + n
      PROVE  b <= 1 + n /\ (~x.exit => StackRoom(u, x.st, n))
  <2>0. b <= 1 + n
    BY <1>1, <1>4
  <2>1. x.exit \/ (PairAt(u, i - 1) /\ Ready(u, i - 1, x.st) /\ Quiet(e)) \/ Half(u, x.st)
    BY <1>4, PairStep
  <2> HIDE DEF x, u
  <2>2. CASE PairAt(u, i - 1) /\ Ready(u, i - 1, x.st) /\ Quiet(e)
    <3>1. b + 1 <= 1 + n
      BY <1>1, <1>4, <2>2, QuietNot
    <3> QED BY <2>0, <2>2, <3>1 DEF StackRoom
  <2>3. CASE Half(u, x.st)
    BY <2>0, <2>3 DEF StackRoom
  <2> QED BY <2>0, <2>1, <2>2, <2>3
<1>5. ASSUME Half(t, s), a <= 1 + n
      PROVE  b <= 1 + n /\ StackRoom(u, x.st, n)
  <2>1. b = a /\ (Half(u, x.st) \/ u = <<>>)
    BY <1>5, HalfStep
  <2> HIDE DEF x, u
  <2>2. Within(<<>>, "STACK", {})
    BY EmptyWithin
  <2> QED BY <1>1, <1>5, <2>1, <2>2 DEF StackRoom
<1> HIDE DEF x, u
<1>6. b <= 1 + n /\ (~x.exit => StackRoom(u, x.st, n))
  BY <1>2, <1>3, <1>4, <1>5 DEF StackRoom
<1> QED BY <1>6 DEF x, u

-----------------------------------------------------------------------------
(* Bounds *)

\* EIP moves on, or values are restored: addresses and scopes stay.
SameShape(s, u) ==
  /\ u.stack = s.stack /\ u.data = s.data /\ \A b : Has(s.reg, b) => Has(u.reg, b)
  /\ \A X : KnownState(s, X) => KnownState(u, X)

LEMMA AdvanceShape ==
  ASSUME NEW s, IsState(s), NEW len PROVE SameShape(s, Advance(s, len))
<1> DEFINE t == s.reg
           w == Advance(s, len).reg
<1>1. Advance(s, len).stack = s.stack /\ Advance(s, len).data = s.data
  BY DEF Advance, IsState
<1>2. DOMAIN w = DOMAIN t /\ \A i \in DOMAIN t : w[i].addr = t[i].addr /\ w[i].scope = t[i].scope
  <2> DEFINE x == Plus(t[3].off, len)
             v == [t[3] EXCEPT !.off = x]
  <2>1. w = [t EXCEPT ![3] = v]
    BY DEF Advance, IsState
  <2> HIDE DEF w, x
  <2>2. 3 \in DOMAIN t => v.addr = t[3].addr /\ v.scope = t[3].scope
    BY DEF IsState, IsTable, IsEntry, Entry
  <2> HIDE DEF v
  <2> QED BY <2>1, <2>2 DEF IsState, IsTable
<1> HIDE DEF w
<1>3. \A b : Has(t, b) => Has(w, b)
  BY <1>2 DEF Has
<1>4. \A X : KnownBut(t, X) => KnownBut(w, X)
  BY <1>2 DEF KnownBut
<1> QED BY <1>1, <1>3, <1>4 DEF SameShape, KnownState, w

LEMMA RestoredShape ==
  ASSUME NEW s, IsState(s), NEW z PROVE SameShape(s, [s EXCEPT !.reg = Restored(s.reg, z)])
<1> DEFINE t == s.reg
           w == Restored(s.reg, z)
           u == [s EXCEPT !.reg = w]
<1>1. u.stack = s.stack /\ u.data = s.data /\ u.reg = w
  BY DEF IsState
<1>2. DOMAIN w = DOMAIN t /\ \A i \in DOMAIN t : w[i].addr = t[i].addr /\ w[i].scope = t[i].scope
  BY DEF Restored, Restore, Entry
<1> HIDE DEF w
<1>3. \A b : Has(t, b) => Has(w, b)
  BY <1>2 DEF Has
<1>4. \A X : KnownBut(t, X) => KnownBut(w, X)
  BY <1>2 DEF KnownBut
<1> HIDE DEF u
<1>5. SameShape(s, u)
  BY <1>1, <1>3, <1>4 DEF SameShape, KnownState
<1> QED BY <1>5 DEF u, w

\* Where the register of a pair is written is executed before the pair.
LEMMA PairReady ==
  ASSUME NEW t, Shaped(t), NEW i, PairAt(t, i), NEW s, Has(s.reg, SP)
  PROVE  Within(t, "STACK", {}) \/ Ready(t, i, s)
<1>1. Len(t) = i + 2 /\ i \in Nat /\ i >= 1 /\ DOMAIN t = 1 .. Len(t)
  BY CodeDomain DEF PairAt, Shaped
<1>2. CASE i \in ReachedAt(t)
  <2>1. ASSUME NEW r, MoveLoad(t, r) PROVE FALSE
    <3>1. Len(t) = 4 /\ ~Quiet(t[1])
      BY <2>1, QuietNot DEF MoveLoad
    <3>2. i = 2
      <4>1. i + 2 = 4
        BY <1>1, <3>1
      <4> QED BY <1>1, <4>1
    <3>3. 1 \in 1 .. i - 1
      BY <3>2
    <3> QED BY <3>1, <3>3 DEF PairAt
  <2>2. Armed(t, s)
    BY <2>1 DEF Shaped
  <2>3. Loading(t[i], TMP1)
    BY DEF PairAt
  <2> QED BY <1>2, <2>2, <2>3 DEF Armed, Ready
<1>3. CASE i \notin ReachedAt(t)
  <2>1. PICK j \in 1 .. i - 1 : t[j].op = "IF"
    BY <1>1, <1>3 DEF ReachedAt
  <2>2. ASSUME NEW k \in ReachedAt(t) PROVE k \in 1 .. i - 1
    <3>1. k \in 1 .. i + 2 /\ ~(j \in 1 .. k - 1)
      BY <1>1, <2>1, <2>2 DEF ReachedAt
    <3> QED BY <1>1, <3>1
  <2>3. \A k \in ReachedAt(t) : ~On(t[k], "STACK")
    BY <2>2, QuietNot DEF PairAt
  <2> QED BY <2>3 DEF Within
<1> QED BY <1>2, <1>3

\* The bounds, with room for what is left of the machine instruction.
Roomy(t, s, n) == IsCode(t) /\ Formed(t) /\ DataRoom(t, s, n) /\ StackRoom(t, s, n)
Bounded(s, n) == Len(s.stack) <= 1 + n /\ Len(s.data) <= 2 * n

LEMMA EmptyRoomy == ASSUME NEW s, NEW n, Bounded(s, n) PROVE Roomy(<<>>, s, n)
<1>1. IsCode(<<>>) /\ Within(<<>>, "MEM", {}) /\ Within(<<>>, "STACK", {})
  BY OneCode, EmptyWithin
<1>2. Formed(<<>>)
  BY DEF Formed, ReachedAt
<1> QED BY <1>1, <1>2 DEF Roomy, Bounded, DataRoom, StackRoom

LEMMA ShapedRoomy ==
  ASSUME NEW t, Shaped(t), NEW s, IsState(s), Has(s.reg, SP), NEW n \in Nat, Bounded(s, n)
  PROVE  Roomy(t, s, n + 1)
<1> DEFINE a == Len(s.stack)
           b == Len(s.data)
<1>1. a \in Nat /\ b \in Nat
  BY StateSizes DEF Sizes
<1>2. a + 1 <= 1 + (n + 1) /\ a <= 1 + (n + 1) /\ b + 2 <= 2 * (n + 1)
  BY <1>1 DEF Bounded
<1> HIDE DEF a, b
<1>3. PICK p \in Int, q \in Int : Within(t, "MEM", {p, q})
  BY DEF Shaped
<1>4. DataRoom(t, s, n + 1)
  BY <1>2, <1>3 DEF DataRoom, b
<1>5. CASE \E x \in Int : Within(t, "STACK", {x})
  BY <1>2, <1>4, <1>5 DEF Roomy, StackRoom, Shaped, a
<1>6. ASSUME NEW i, PairAt(t, i) PROVE Roomy(t, s, n + 1)
  <2>1. Within(t, "STACK", {}) \/ Ready(t, i, s)
    BY <1>6, PairReady
  <2> QED BY <1>2, <1>4, <1>6, <2>1 DEF Roomy, StackRoom, Shaped, a
<1> QED BY <1>5, <1>6 DEF Shaped

LEMMA RoomyStep ==
  ASSUME NEW t, t # <<>>, t[1].op # "IF", NEW s, IsState(s), NEW n \in Nat, Roomy(t, s, n)
  PROVE  LET x == Execute(s, t[1])
         IN  /\ Bounded(x.st, n) /\ (~x.exit => Roomy(Tail(t), x.st, n))
             /\ \A b : Has(s.reg, b) => Has(x.st.reg, b)
<1> DEFINE x == Execute(s, t[1])
<1>1. IsCode(t) /\ Formed(t) /\ DataRoom(t, s, n) /\ StackRoom(t, s, n)
  BY DEF Roomy
<1>2. /\ Quiet(t[1]) \/ \E r : Loading(t[1], r) \/ Storing(t[1], r)
      /\ Formed(Tail(t)) /\ IsCode(Tail(t))
  BY <1>1, HeadFormed
<1>3. Grows(s, t[1], x.st)
  BY <1>2, HeadGrows
<1>4. Len(x.st.data) <= 2 * n /\ DataRoom(Tail(t), x.st, n)
  <2> HIDE DEF x
  <2> QED BY <1>1, <1>3, DataStep
<1>5. Len(x.st.stack) <= 1 + n /\ (~x.exit => StackRoom(Tail(t), x.st, n))
  BY <1>1, <1>3, StackStep
<1> HIDE DEF x
<1>6. /\ Bounded(x.st, n) /\ (~x.exit => Roomy(Tail(t), x.st, n))
      /\ \A b : Has(s.reg, b) => Has(x.st.reg, b)
  BY <1>2, <1>3, <1>4, <1>5 DEF Bounded, Roomy, Grows
<1> QED BY <1>6 DEF x

\* The invariant behind StoresBounded.
Counted ==
  /\ IsState(st) /\ Has(st.reg, SP) /\ count \in Nat /\ Bounded(st, count)
  /\ ~exited => Roomy(todo, st, count)

LEMMA CountedInit == LiftInit => Counted
<1> SUFFICES ASSUME LiftInit PROVE Counted
  OBVIOUS
<1>1. IsState(st)
  BY InitState
<1>2. st.reg = RegInit /\ st.stack = StackInit /\ st.data = <<>> /\ todo = <<>> /\ count = 0
  BY DEF LiftInit
<1>3. Has(st.reg, SP)
  BY <1>2 DEF Has, RegInit, Entry
<1>4. Len(st.stack) = 1 /\ Len(st.data) = 0
  BY <1>2 DEF StackInit
<1>5. Bounded(st, count) /\ count \in Nat
  BY <1>2, <1>4 DEF Bounded
<1> QED BY <1>1, <1>2, <1>3, <1>5, EmptyRoomy DEF Counted

LEMMA DecodedTo ==
  ASSUME NEW m \in Insts, Decode(m)
  PROVE  /\ todo = <<>> /\ ~exited /\ count' = count + 1
         /\ \/ exited' /\ st' = st
            \/ ~exited' /\ st' = Advance(st, m.len) /\ Shaped(todo')
<1>1. Shaped(Lifted(DecodeInstruction(m)))
  BY LiftedShaped
<1> QED BY <1>1 DEF Decode

LEMMA CountedNext == Counted /\ [CheckedNext]_checkedVars => Counted'
<1> SUFFICES ASSUME Counted, [CheckedNext]_checkedVars PROVE Counted'
  OBVIOUS
<1>0. IsState(st) /\ Has(st.reg, SP) /\ count \in Nat /\ Bounded(st, count) /\ (~exited => Roomy(todo, st, count))
  BY DEF Counted
<1>s. IsState(st')
  BY <1>0, NextState
<1>1. ASSUME NEW m \in Insts, Decode(m) PROVE Counted'
  <2>1. count' = count + 1 /\ count' \in Nat
    BY <1>0, <1>1, DecodedTo
  <2>2. CASE exited' /\ st' = st
    <3>1. Len(st.stack) \in Nat /\ Len(st.data) \in Nat
      BY <1>0, StateSizes DEF Sizes
    <3>2. Bounded(st, count + 1)
      BY <1>0, <3>1 DEF Bounded
    <3> QED BY <1>0, <2>1, <2>2, <3>2 DEF Counted
  <2>3. CASE ~exited' /\ st' = Advance(st, m.len) /\ Shaped(todo')
    <3>1. SameShape(st, st')
      BY <1>0, <2>3, AdvanceShape
    <3>2. Has(st'.reg, SP) /\ Bounded(st', count)
      BY <1>0, <3>1 DEF SameShape, Bounded
    <3>3. Roomy(todo', st', count + 1)
      BY <1>0, <1>s, <2>3, <3>2, ShapedRoomy
    <3>4. Bounded(st', count + 1)
      <4>1. Len(st'.stack) \in Nat /\ Len(st'.data) \in Nat
        BY <1>s, StateSizes DEF Sizes
      <4> QED BY <1>0, <3>2, <4>1 DEF Bounded
    <3> QED BY <1>s, <2>1, <3>2, <3>3, <3>4 DEF Counted
  <2> QED BY <1>1, <2>2, <2>3, DecodedTo
<1>2. CASE RunIf
  <2>1. st' = st /\ count' = count /\ todo' = <<>>
    BY <1>2 DEF RunIf
  <2> QED BY <1>0, <2>1, EmptyRoomy DEF Counted
<1>3. CASE Run
  <2> DEFINE x == Execute(st, todo[1])
  <2>1. todo # <<>> /\ ~exited /\ Roomy(todo, st, count)
    BY <1>0, <1>3 DEF Run
  <2>2. Head(todo) = todo[1]
    BY <2>1, TailCode DEF Roomy
  <2>3. /\ todo[1].op # "IF" /\ st' = x.st /\ exited' = x.exit /\ count' = count
        /\ todo' = <<>> \/ todo' = Tail(todo)
    BY <1>3, <2>2 DEF Run
  <2>4. /\ Bounded(x.st, count) /\ (~x.exit => Roomy(Tail(todo), x.st, count))
        /\ \A b : Has(st.reg, b) => Has(x.st.reg, b)
    BY <1>0, <2>1, <2>3, RoomyStep
  <2> HIDE DEF x
  <2>5. Roomy(<<>>, x.st, count)
    BY <2>4, EmptyRoomy
  <2> QED BY <1>0, <1>s, <2>3, <2>4, <2>5 DEF Counted
<1>4. ASSUME NEW w \in slots, Resume(w) PROVE Counted'
  <2>1. /\ todo' = <<>> /\ count' = count /\ exited' = exited
        /\ st' = [st EXCEPT !.reg = Restored(st.reg, w)]
    BY <1>4 DEF Resume
  <2>2. SameShape(st, st')
    BY <1>0, <2>1, RestoredShape
  <2>3. Has(st'.reg, SP) /\ Bounded(st', count)
    BY <1>0, <2>2 DEF SameShape, Bounded
  <2>4. Roomy(<<>>, st', count)
    BY <2>3, EmptyRoomy
  <2> QED BY <1>0, <1>s, <2>1, <2>3, <2>4 DEF Counted
<1>5. CASE UNCHANGED checkedVars
  BY <1>0, <1>5 DEF checkedVars, liftVars, Counted
<1> QED BY <1>1, <1>2, <1>3, <1>4, <1>5 DEF CheckedNext, CheckedDecode, CheckedIf, CheckedRun, CheckedResume

\* add_new_store stays in its tables: each machine instruction adds at most one
\* cell of the stack and two of the data section, whatever the instructions are, in
\* whichever order the paths meet them and wherever the program exits.
THEOREM StoresStayBounded == CheckedSpec => []StoresBounded
<1>1. CheckedInit => Counted
  BY CountedInit DEF CheckedInit
<1>2. Counted => StoresBounded
  BY DEF Counted, Bounded, StoresBounded
<1> QED BY <1>1, <1>2, CountedNext, PTL DEF CheckedSpec

-----------------------------------------------------------------------------
(* Scopes *)

\* Registers whose entry may lack a scope: none, or the source of a MOVS.
ScopeRoom(t, s) ==
  \/ KnownState(s, {}) /\ Armed(t, s)
  \/ KnownState(s, {}) /\ \E r : MoveLoad(t, r)
  \/ \E r : KnownState(s, {r}) /\ (MoveStore(t, r) \/ MoveAdd(t, r))

\* Between a LOAD and an ADD of a MOVS the path goes on: EIP stays.
SameEip(s, e, u) == e.op # "JMPT" /\ Found(u.reg, IP) = Found(s.reg, IP)

LEMMA StopsAt ==
  ASSUME NEW s, NEW e, e.op = "ADC" \/ Rejected(e) PROVE Execute(s, e).exit
<1>1. CASE Rejected(e)
  BY <1>1 DEF Execute, Exited
<1>2. CASE e.op = "ADC" /\ ~Rejected(e)
  <2>1. Execute(s, e) = ExecAdc(s, e)
    BY <1>2 DEF Execute, Binary
  <2> QED BY <2>1 DEF ExecAdc, Exited
<1> QED BY <1>1, <1>2

LEMMA ArmedTail ==
  ASSUME NEW t, IsCode(t), t # <<>>, t[1].op # "IF", NEW s, NEW u, Armed(t, s),
         \A b : Has(s.reg, b) => Has(u.reg, b), \A b : Sets(t[1], b) => Has(u.reg, b)
  PROVE  Armed(Tail(t), u)
<1> DEFINE v == Tail(t)
<1>1. /\ 1 \in ReachedAt(t)
      /\ \A i \in ReachedAt(v) : i + 1 \in ReachedAt(t) /\ v[i] = t[i + 1] /\ i >= 1 /\ i \in Nat
  BY TailReached
<1>2. Len(v) = Len(t) - 1 /\ (\A i \in 1 .. Len(t) - 1 : v[i] = t[i + 1]) /\ Len(t) \in Nat
      /\ DOMAIN t = 1 .. Len(t)
  BY TailCode, CodeDomain
<1> HIDE DEF v
<1>3. ASSUME NEW i \in ReachedAt(v), NEW r, Loading(v[i], r)
      PROVE  Has(u.reg, r) \/ \E j \in 1 .. i - 1 : Sets(v[j], r)
  <2>1. i + 1 \in ReachedAt(t) /\ Loading(t[i + 1], r) /\ i >= 1 /\ i \in Nat
    BY <1>1, <1>3
  <2>2. Has(s.reg, r) \/ \E j \in 1 .. (i + 1) - 1 : Sets(t[j], r)
    BY <2>1 DEF Armed
  <2>3. CASE Has(s.reg, r)
    BY <2>3
  <2>4. ASSUME NEW j \in 1 .. (i + 1) - 1, Sets(t[j], r) PROVE Has(u.reg, r) \/ \E k \in 1 .. i - 1 : Sets(v[k], r)
    <3>1. CASE j = 1
      BY <2>4, <3>1
    <3>2. CASE j # 1
      <4>1. i + 1 <= Len(t)
        BY <1>2, <2>1 DEF ReachedAt
      <4>2. j - 1 \in 1 .. i - 1 /\ j - 1 \in 1 .. Len(t) - 1 /\ (j - 1) + 1 = j
        BY <1>2, <2>1, <3>2, <4>1
      <4>3. v[j - 1] = t[j]
        BY <1>2, <4>2
      <4> QED BY <2>4, <4>2, <4>3
    <3> QED BY <3>1, <3>2
  <2> QED BY <2>2, <2>3, <2>4
<1> QED BY <1>3 DEF Armed, v

\* What one instruction leaves of it.
ScopeAfter(t, s, x) ==
  /\ t[1].op # "ADC" /\ ~Rejected(t[1]) => ~x.exit
  /\ ~x.exit => /\ ScopeRoom(Tail(t), x.st)
                /\ KnownState(x.st, {}) \/ SameEip(s, t[1], x.st)

LEMMA ArmedStep ==
  ASSUME NEW t, IsCode(t), Formed(t), t # <<>>, t[1].op # "IF", NEW s, IsState(s),
         KnownState(s, {}), Armed(t, s)
  PROVE  ScopeAfter(t, s, Execute(s, t[1]))
<1> DEFINE e == t[1]
           x == Execute(s, e)
<1>1. Quiet(e) \/ \E r : Loading(e, r) \/ Storing(e, r)
  BY HeadFormed
<1>2. \A b : Has(s.reg, b) => Has(x.st.reg, b)
  <2>1. Grows(s, e, x.st)
    BY <1>1, HeadGrows
  <2> HIDE DEF x, e
  <2> QED BY <2>1 DEF Grows
<1>3. ASSUME KnownState(x.st, {}), \A b : Sets(e, b) => Has(x.st.reg, b)
      PROVE  ScopeRoom(Tail(t), x.st)
  <2> HIDE DEF x
  <2>1. Armed(Tail(t), x.st)
    BY <1>2, <1>3, ArmedTail
  <2> QED BY <1>3, <2>1 DEF ScopeRoom
<1>4. ASSUME Quiet(e) PROVE ScopeAfter(t, s, x)
  <2>1. QuietKeeps(s, e, x)
    BY <1>4, QuietRuns
  <2>2. e.op = "ADC" \/ Rejected(e) => x.exit
    BY StopsAt
  <2> HIDE DEF x
  <2>3. e.op # "ADC" /\ ~Rejected(e) => ~x.exit /\ KnownState(x.st, {})
    BY <2>1 DEF QuietKeeps
  <2>4. \A b : Sets(e, b) /\ ~x.exit => Has(x.st.reg, b)
    BY <2>1 DEF QuietKeeps
  <2> QED BY <1>3, <2>2, <2>3, <2>4 DEF ScopeAfter
<1>5. ASSUME NEW r, Loading(e, r) PROVE ScopeAfter(t, s, x)
  <2>1. Has(s.reg, r)
    <3>1. 1 \in ReachedAt(t)
      BY TailReached
    <3>2. \A j \in 1 .. 1 - 1 : FALSE
      OBVIOUS
    <3> QED BY <1>5, <3>1, <3>2 DEF Armed
  <2>2. ~x.exit /\ KnownState(x.st, {})
    BY <1>5, <2>1, LoadRuns
  <2>3. \A b : ~Sets(e, b)
    BY <1>5 DEF Sets, Loading
  <2> HIDE DEF x
  <2> QED BY <1>3, <2>2, <2>3 DEF ScopeAfter
<1>6. ASSUME NEW r, Storing(e, r) PROVE ScopeAfter(t, s, x)
  <2>1. ~x.exit /\ KnownState(x.st, {})
    BY <1>6, StoreRuns
  <2>2. \A b : ~Sets(e, b)
    BY <1>6 DEF Sets, Storing
  <2> HIDE DEF x
  <2> QED BY <1>3, <2>1, <2>2 DEF ScopeAfter
<1> QED BY <1>1, <1>4, <1>5, <1>6

\* What is left of the machine instruction once its first is executed.
TailOf(t, u) ==
  /\ IsCode(u) /\ Len(u) = Len(t) - 1 /\ Len(t) \in Nat
  /\ Len(t) >= 2 => u[1] = t[2]
  /\ Len(t) >= 3 => u[2] = t[3]
  /\ Len(t) >= 4 => u[3] = t[4]

LEMMA TailAt == ASSUME NEW t, IsCode(t), t # <<>> PROVE TailOf(t, Tail(t))
<1> DEFINE u == Tail(t)
<1>1. IsCode(u) /\ Len(u) = Len(t) - 1 /\ Len(t) \in Nat /\ \A i \in 1 .. Len(t) - 1 : u[i] = t[i + 1]
  BY TailCode, CodeDomain
<1> HIDE DEF u
<1>2. TailOf(t, u)
  BY <1>1 DEF TailOf
<1> QED BY <1>2 DEF u

LEMMA MoveLoadStep ==
  ASSUME NEW t, IsCode(t), t # <<>>, NEW s, IsState(s), KnownState(s, {}), NEW r, MoveLoad(t, r)
  PROVE  ScopeAfter(t, s, Execute(s, t[1]))
<1> DEFINE e == t[1]
           x == Execute(s, e)
<1>1. Loading(e, r) /\ e.dstA.idx # IP /\ Len(t) = 4
  BY DEF MoveLoad
<1>2. KnownState(s, {r})
  BY DEF KnownState, KnownBut
<1>3. ~x.exit /\ KnownState(x.st, {r})
  BY <1>1, <1>2, LoadRuns
<1>4. Found(x.st.reg, IP) = Found(s.reg, IP)
  BY <1>1, LoadRuns DEF IsState
<1> HIDE DEF x
<1>5. MoveStore(Tail(t), r)
  <2> DEFINE u == Tail(t)
  <2>1. Len(u) = 3 /\ u[1] = t[2] /\ u[2] = t[3] /\ u[3] = t[4]
    <3>1. TailOf(t, u)
      BY TailAt
    <3> HIDE DEF u
    <3> QED BY <1>1, <3>1 DEF TailOf
  <2> HIDE DEF u
  <2>2. MoveStore(u, r)
    BY <2>1 DEF MoveLoad, MoveStore
  <2> QED BY <2>2 DEF u
<1>6. SameEip(s, e, x.st)
  BY <1>1, <1>4 DEF SameEip, Loading
<1>7. ScopeAfter(t, s, x)
  BY <1>3, <1>5, <1>6 DEF ScopeAfter, ScopeRoom
<1> QED BY <1>7 DEF x

LEMMA MoveStoreStep ==
  ASSUME NEW t, IsCode(t), t # <<>>, NEW s, IsState(s), NEW r, KnownState(s, {r}), MoveStore(t, r)
  PROVE  ScopeAfter(t, s, Execute(s, t[1]))
<1> DEFINE e == t[1]
           x == Execute(s, e)
<1>1. PICK q : Storing(e, q)
  BY DEF MoveStore
<1>2. ~x.exit /\ KnownState(x.st, {r}) /\ SameRegs(s, x.st)
  BY <1>1, StoreRuns
<1> HIDE DEF x
<1>3. MoveAdd(Tail(t), r)
  <2> DEFINE u == Tail(t)
  <2>0. Len(t) = 3
    BY DEF MoveStore
  <2>1. Len(u) = 2 /\ u[1] = t[2] /\ u[2] = t[3]
    <3>1. TailOf(t, u)
      BY TailAt
    <3> HIDE DEF u
    <3> QED BY <2>0, <3>1 DEF TailOf
  <2> HIDE DEF u
  <2>2. MoveAdd(u, r)
    BY <2>1 DEF MoveStore, MoveAdd
  <2> QED BY <2>2 DEF u
<1>4. SameEip(s, e, x.st)
  BY <1>1, <1>2 DEF SameEip, SameRegs, Storing, IsState
<1>5. ScopeAfter(t, s, x)
  BY <1>2, <1>3, <1>4 DEF ScopeAfter, ScopeRoom
<1> QED BY <1>5 DEF x

LEMMA MoveAddStep ==
  ASSUME NEW t, IsCode(t), t # <<>>, NEW s, IsState(s), NEW r, KnownState(s, {r}), MoveAdd(t, r)
  PROVE  ScopeAfter(t, s, Execute(s, t[1]))
<1> DEFINE e == t[1]
           x == Execute(s, e)
<1>1. IsAdvance(e) /\ e.dstA.idx = r /\ IsAdvance(t[2]) /\ Len(t) = 2
  BY DEF MoveAdd
<1>2. CASE Rejected(e)
  <2>1. x.exit
    BY <1>2, StopsAt
  <2> QED BY <1>2, <2>1 DEF ScopeAfter
<1>3. ASSUME ~Rejected(e) PROVE ScopeAfter(t, s, x)
  <2>1. ~x.exit /\ KnownState(x.st, {r} \ {r})
    BY <1>1, <1>3, AdvanceRuns DEF IsAdvance
  <2>2. {r} \ {r} = {}
    OBVIOUS
  <2> HIDE DEF x
  <2>3. KnownState(x.st, {})
    BY <2>1, <2>2
  <2>4. Armed(Tail(t), x.st)
    <3> DEFINE u == Tail(t)
    <3>1. IsCode(u) /\ Len(u) = 1 /\ u[1] = t[2]
      <4>1. TailOf(t, u)
        BY TailAt
      <4> HIDE DEF u
      <4> QED BY <1>1, <4>1 DEF TailOf
    <3>2. DOMAIN u = 1 .. 1
      BY <3>1, CodeDomain
    <3> HIDE DEF u
    <3>3. \A i \in ReachedAt(u) : Quiet(u[i])
      BY <1>1, <3>1, <3>2 DEF ReachedAt, IsAdvance
    <3>4. Armed(u, x.st)
      BY <3>3, QuietNot DEF Armed
    <3> QED BY <3>4 DEF u
  <2> QED BY <2>1, <2>3, <2>4 DEF ScopeAfter, ScopeRoom
<1> QED BY <1>2, <1>3

LEMMA ScopeStep ==
  ASSUME NEW t, IsCode(t), Formed(t), t # <<>>, t[1].op # "IF", NEW s, IsState(s), ScopeRoom(t, s)
  PROVE  ScopeAfter(t, s, Execute(s, t[1]))
BY ArmedStep, MoveLoadStep, MoveStoreStep, MoveAddStep DEF ScopeRoom

LEMMA EmptyArmed == ASSUME NEW s, KnownState(s, {}) PROVE ScopeRoom(<<>>, s)
BY DEF ScopeRoom, Armed, ReachedAt

\* The invariant behind ScopesKnown.
Scoped == Counted /\ (~exited => ScopeRoom(todo, st))

LEMMA ScopedInit == LiftInit => Scoped
<1> SUFFICES ASSUME LiftInit PROVE Scoped
  OBVIOUS
<1>1. st.reg = RegInit /\ st.stack = StackInit /\ st.data = <<>> /\ todo = <<>>
  BY DEF LiftInit
<1>2. KnownBut(RegInit, {})
  BY DEF KnownBut, RegInit, Entry, Local, InData, Unknown
<1>3. KnownBut(StackInit, {}) /\ KnownBut(<<>>, {})
  BY DEF KnownBut, StackInit, Entry, Local, Unknown
<1>4. KnownState(st, {})
  BY <1>1, <1>2, <1>3 DEF KnownState
<1> QED BY <1>1, <1>4, CountedInit, EmptyArmed DEF Scoped

\* Where no instruction is left, every entry has a scope.
LEMMA RestKnown ==
  ASSUME NEW t, NEW s, ScopeRoom(t, s), t = <<>> \/ t[1].op = "IF" PROVE KnownState(s, {})
<1>1. ASSUME NEW r, MoveStore(t, r) \/ MoveAdd(t, r) PROVE FALSE
  <2>1. t # <<>>
    <3>1. Len(t) = 3 \/ Len(t) = 2
      BY <1>1 DEF MoveStore, MoveAdd
    <3> QED BY <3>1
  <2>2. t[1].op = "STORE" \/ t[1].op = "ADD"
    BY <1>1 DEF MoveStore, MoveAdd, Storing, IsAdvance
  <2> QED BY <2>1, <2>2
<1> QED BY <1>1 DEF ScopeRoom

LEMMA EipFound ==
  ASSUME NEW s, IsState(s), Len(s.reg) >= 3, s.reg[3].addr = IP PROVE Found(s.reg, IP) = s.reg[3]
<1>1. IsTable(s.reg) /\ 3 \in DOMAIN s.reg
  BY DEF IsState, IsTable
<1> QED BY <1>1, FoundIs

\* EIP is kept in the third entry.
EipHere(s) == Len(s.reg) >= 3 /\ s.reg[3].addr = IP

LEMMA ScopedNext ==
  Scoped /\ LiftTypeOK /\ LiftTypeOK' /\ [CheckedNext]_checkedVars => Scoped'
<1> SUFFICES ASSUME Scoped, LiftTypeOK, LiftTypeOK', [CheckedNext]_checkedVars PROVE Scoped'
  OBVIOUS
<1>0. /\ Counted /\ IsState(st) /\ IsState(st') /\ Counted'
      /\ ~exited => ScopeRoom(todo, st) /\ IsCode(todo) /\ Formed(todo)
  BY CountedNext DEF Scoped, Counted, Roomy
<1>e. EipHere(st) /\ EipHere(st') /\ (todo # <<>> => st.reg[3].off # 0)
  BY DEF LiftTypeOK, EipHere
<1>1. ASSUME NEW m \in Insts, Decode(m) PROVE Scoped'
  <2>1. todo = <<>> /\ ~exited /\ KnownState(st, {})
    BY <1>0, <1>1, DecodedTo, RestKnown
  <2>2. CASE exited' /\ st' = st
    BY <1>0, <2>2 DEF Scoped
  <2>3. CASE ~exited' /\ st' = Advance(st, m.len) /\ Shaped(todo')
    <3>1. SameShape(st, st') /\ Has(st.reg, SP)
      BY <1>0, <2>3, AdvanceShape DEF Counted
    <3>2. KnownState(st', {}) /\ Has(st'.reg, SP)
      BY <2>1, <3>1 DEF SameShape
    <3>3. ScopeRoom(todo', st')
      BY <2>3, <3>2 DEF ScopeRoom, Shaped
    <3> QED BY <1>0, <3>3 DEF Scoped
  <2> QED BY <1>1, <2>2, <2>3, DecodedTo
<1>2. CASE RunIf
  <2>1. /\ st' = st /\ todo' = <<>> /\ todo # <<>> /\ ~exited /\ Head(todo).op = "IF"
    BY <1>2 DEF RunIf
  <2>2. Head(todo) = todo[1]
    BY <1>0, <2>1, TailCode
  <2>3. KnownState(st, {})
    BY <1>0, <2>1, <2>2, RestKnown
  <2> QED BY <1>0, <2>1, <2>3, EmptyArmed DEF Scoped
<1>3. CASE Run
  <2> DEFINE e == todo[1]
             x == Execute(st, e)
  <2>1. todo # <<>> /\ ~exited
    BY <1>3 DEF Run
  <2>2. Head(todo) = e
    BY <1>0, <2>1, TailCode
  <2>3. /\ e.op # "IF" /\ st' = x.st /\ exited' = x.exit
        /\ todo' = IF Ends(e, x.st) THEN <<>> ELSE Tail(todo)
    BY <1>3, <2>2 DEF Run
  <2>4. ScopeAfter(todo, st, x)
    BY <1>0, <2>1, <2>3, ScopeStep
  <2> HIDE DEF x, e
  <2>5. CASE ~exited' /\ Ends(e, x.st)
    <3>1. ~SameEip(st, e, x.st)
      <4>1. Found(st.reg, IP) = st.reg[3] /\ Found(st'.reg, IP) = st'.reg[3]
        BY <1>0, <1>e, EipFound DEF EipHere
      <4>2. e.op = "JMPT" \/ st'.reg[3].off = 0
        BY <2>3, <2>5 DEF Ends
      <4> QED BY <1>e, <2>1, <2>3, <4>1, <4>2 DEF SameEip
    <3>2. KnownState(st', {})
      BY <2>3, <2>4, <2>5, <3>1 DEF ScopeAfter, e
    <3>3. ScopeRoom(todo', st')
      BY <2>3, <2>5, <3>2, EmptyArmed
    <3> QED BY <1>0, <3>3 DEF Scoped
  <2>6. CASE ~exited' /\ ~Ends(e, x.st)
    <3>1. ScopeRoom(todo', st')
      BY <2>3, <2>4, <2>6 DEF ScopeAfter
    <3> QED BY <1>0, <3>1 DEF Scoped
  <2>7. CASE exited'
    BY <1>0, <2>7 DEF Scoped
  <2> QED BY <2>5, <2>6, <2>7
<1>4. ASSUME NEW w \in slots, Resume(w) PROVE Scoped'
  <2>1. /\ todo' = <<>> /\ todo = <<>> /\ ~exited /\ exited' = exited
        /\ st' = [st EXCEPT !.reg = Restored(st.reg, w)]
    BY <1>4 DEF Resume
  <2>2. KnownState(st, {}) /\ SameShape(st, st')
    BY <1>0, <2>1, RestKnown, RestoredShape
  <2>3. KnownState(st', {})
    BY <2>2 DEF SameShape
  <2> QED BY <1>0, <2>1, <2>3, EmptyArmed DEF Scoped
<1>5. CASE UNCHANGED checkedVars
  BY <1>0, <1>5 DEF checkedVars, liftVars, Scoped
<1> QED BY <1>1, <1>2, <1>3, <1>4, <1>5 DEF CheckedNext, CheckedDecode, CheckedIf, CheckedRun, CheckedResume

LEMMA ScopedKnown == Scoped => ScopesKnown
<1> SUFFICES ASSUME Scoped, todo # <<>>, ~exited, Head(todo).op \notin {"IF", "ADC"},
                    ~Rejected(Head(todo))
             PROVE  ~Execute(st, Head(todo)).exit
  BY DEF ScopesKnown
<1>1. IsState(st) /\ ScopeRoom(todo, st) /\ IsCode(todo) /\ Formed(todo)
  BY DEF Scoped, Counted, Roomy
<1>2. Head(todo) = todo[1]
  BY <1>1, TailCode
<1>3. todo[1].op # "IF" /\ todo[1].op # "ADC" /\ ~Rejected(todo[1])
  BY <1>2
<1>4. ScopeAfter(todo, st, Execute(st, todo[1]))
  BY <1>1, <1>3, ScopeStep
<1> QED BY <1>2, <1>3, <1>4 DEF ScopeAfter

\* No instruction ends the program because a value has no scope: an entry that the
\* executor makes without one belongs to the source of a MOVS, and has one again
\* before it is read.  The types, which say where EIP is kept and that it has left
\* the offset 0 inside an instruction, rule out that a path ends in between.
THEOREM NoScopeMissing == CheckedSpec /\ []LiftTypeOK => []ScopesKnown
<1>1. CheckedInit => Scoped
  BY ScopedInit DEF CheckedInit
<1> QED BY <1>1, ScopedNext, ScopedKnown, PTL DEF CheckedSpec
=============================================================================
