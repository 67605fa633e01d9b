----------------------------- MODULE EdgeProofs -----------------------------
(***************************************************************************)
(* The log against the code: every edge is a transfer of control of the    *)
(* program, and every transfer of control has its edge once a function is  *)
(* explored.  The slots and inst_log_prev carry a way out of an entry to   *)
(* the offset it leads to; memory_used leads from an offset to the entry   *)
(* decoded there, or to the one that is about to be.                       *)
(***************************************************************************)
EXTENDS ExploreProofs, WellFoundedInduction

\* When a NOP is decoded what follows it is not decoded yet: its mark is the
\* number of the entry logged next, which is then the one control gets to.
NopsFirst ==
  InMemory /\ mark[eip] = 0 /\ code[eip].kind = "nop" => eip + code[eip].len \notin seen

\* A JMP to offset 0 ends the block like a return.
NoJumpToZero == \A a \in Offset : code[a].kind = "jmp" => 0 \notin Range(code[a].to)

\* Entries that stand for an RTL instruction; the newest may still be executing.
Known == IF pc = "queue" THEN 1 .. ilog ELSE Logged

\* The entry is the last of its machine instruction.
AtEnd(i) == origin[i][3] = Len(Rtl(code[origin[i][2]]))

\* Control goes from entry i of this function to b, or to the NOPs before b.
LeadsTo(i, b) == /\ origin[i][1] = fn /\ AtEnd(i)
                 /\ \E c \in Flow(origin[i][2]) : Land[c] = Land[b]

\* p is a predecessor that a slot or inst_log_prev may hold with the offset b.
From(p, b) == p = 0 \/ (p \in Known /\ LeadsTo(p, b))

SlotFrom(m) == From(slots[m].prev, slots[m].eip)

WayInv ==
  /\ \A m \in used : SlotFrom(m)
  /\ pc = "fetch" => From(prevI, eip)
  /\ pc = "rtl" /\ Position = 0 => From(prevI, cur)
  /\ pc = "rtl" /\ Position # 0 => prevI \in Logged /\ origin[prevI] = <<fn, cur, Position>>
  /\ pc = "queue" => Ahead \subseteq Flow(cur) /\ prevI \in {0} \cup Logged

-----------------------------------------------------------------------------
(* The first instruction with RTL behind an offset *)

Below == {p \in Nat \X Nat : p[1] < p[2]}

LEMMA Least ==
  ASSUME NEW T \in SUBSET Nat, T # {} PROVE \E m \in T : \A k \in T : m <= k
<1>1. IsWellFoundedOn(Below, Nat)
  BY NatLessThanWellFounded DEF OpToRel, Below
<1>2. \E m \in T : \A k \in T : ~(<<k, m>> \in Below)
  BY <1>1, WFMin
<1>3. PICK m \in T : \A k \in T : ~(<<k, m>> \in Below)
  BY <1>2
<1>4. \A k \in Nat : k < m => <<k, m>> \in Below
  BY DEF Below
<1>5. m \in Nat /\ \A k \in T : k \in Nat
  OBVIOUS
<1>6. \A k \in T : ~(k < m)
  BY <1>3, <1>4, <1>5, Zenon
<1>7. \A k \in T : m <= k
  BY <1>5, <1>6
<1> QED
  BY <1>7

\* The value of Land at a, from its values further on.
LandsAt(f, a) == IF a \in Offset /\ code[a].kind = "nop" THEN f[a + code[a].len] ELSE a

\* The functions that obey Land's equation for the last d offsets.
Lands(d) == {f \in [Nat -> Nat] : \A a \in Nat : a >= CodeSize - d => f[a] = LandsAt(f, a)}

LEMMA LandsOneMore ==
  ASSUME code \in [Offset -> Decoded], NEW d \in Nat, Lands(d) # {}
  PROVE  Lands(d + 1) # {}
<1> USE SizesAssumption
<1>1. PICK f \in [Nat -> Nat] : \A a \in Nat : a >= CodeSize - d => f[a] = LandsAt(f, a)
  BY DEF Lands
<1> DEFINE b == CodeSize - d - 1
<1>2. CASE b \notin Nat
  <2>1. \A a \in Nat : a >= CodeSize - d
    BY <1>2
  <2>2. f \in Lands(d + 1)
    BY <1>1, <2>1 DEF Lands
  <2> QED
    BY <2>2
<1>3. CASE b \in Nat
  <2>1. \A a \in Offset : code[a].len \in Nat \ {0} /\ a \in Nat
    BY DEF Decoded, Offset
  <2>2. LandsAt(f, b) \in Nat
    BY <1>3, <2>1 DEF LandsAt
  <2> DEFINE g == [f EXCEPT ![b] = LandsAt(f, b)]
  <2>3. /\ g \in [Nat -> Nat] /\ g[b] = LandsAt(f, b)
        /\ \A a \in Nat : a # b => g[a] = f[a]
    BY <1>3, <2>2
  <2> HIDE DEF g
  <2>4. \A a \in Nat : a >= b => LandsAt(g, a) = LandsAt(f, a)
    BY <1>3, <2>1, <2>3 DEF LandsAt
  <2>5. \A a \in Nat : a >= CodeSize - (d + 1) => a = b \/ a >= CodeSize - d
    BY <1>3
  <2>6. \A a \in Nat : a >= CodeSize - (d + 1) => a >= b
    BY <1>3
  <2>7. \A a \in Nat : a >= CodeSize - (d + 1) => g[a] = LandsAt(g, a)
    BY <1>1, <1>3, <2>3, <2>4, <2>5, <2>6
  <2>8. g \in Lands(d + 1)
    BY <2>3, <2>7 DEF Lands
  <2> QED
    BY <2>8
<1> QED
  BY <1>2, <1>3

LEMMA LandIs ==
  ASSUME code \in [Offset -> Decoded], NEW a \in Nat
  PROVE  Land[a] = IF a \in Offset /\ code[a].kind = "nop" THEN Land[a + code[a].len] ELSE a
<1> USE SizesAssumption
<1>1. Lands(0) # {}
  <2>1. \A b \in Nat : b >= CodeSize - 0 => b \notin Offset
    BY DEF Offset
  <2>2. [b \in Nat |-> b] \in Lands(0)
    BY <2>1 DEF Lands, LandsAt
  <2> QED
    BY <2>2
<1>2. Lands(CodeSize) # {}
  <2> SUFFICES ASSUME Lands(CodeSize) = {} PROVE FALSE
    OBVIOUS
  <2> DEFINE T == {d \in Nat : Lands(d) = {}}
  <2>1. PICK m \in T : \A k \in T : m <= k
    BY Least
  <2>2. m # 0
    BY <1>1
  <2>3. m - 1 \in Nat /\ m - 1 \notin T
    BY <2>1, <2>2
  <2>4. Lands(m - 1 + 1) # {}
    BY <2>3, LandsOneMore
  <2> QED
    BY <2>1, <2>4
<1>3. PICK f \in [Nat -> Nat] : \A b \in Nat : b >= CodeSize - CodeSize => f[b] = LandsAt(f, b)
  BY <1>2 DEF Lands
<1>4. \A b \in Nat : f[b] = LandsAt(f, b)
  BY <1>3
<1> DEFINE Is(h) == h = [b \in Nat |-> LandsAt(h, b)]
<1>5. Is(f)
  BY <1>3, <1>4
<1>6. Is(CHOOSE h : Is(h))
  BY <1>5
<1>7. Land = CHOOSE h : Is(h)
  BY DEF Land, LandsAt
<1>8. Is(Land)
  BY <1>6, <1>7
<1>9. Land[a] = LandsAt(Land, a)
  BY <1>8
<1> QED
  BY <1>9 DEF LandsAt

-----------------------------------------------------------------------------
(* What a step keeps *)

LEMMA Fixed ==
  ASSUME code' = code, NEW a
  PROVE  Land[a]' = Land[a] /\ Flow(a)' = Flow(a) /\ Len(Rtl(code[a]))' = Len(Rtl(code[a]))
<1>1. Land' = Land
  BY DEF Land
<1>2. Flow(a)' = Flow(a)
  BY DEF Flow
<1> QED
  BY <1>1, <1>2

\* An entry of the log keeps the instruction it stands for.
LEMMA KnownKept ==
  ASSUME TypeInv, [Next]_vars
  PROVE  Known \subseteq Known' /\ \A i \in Known : origin'[i] = origin[i]
<1>t. /\ Logged \subseteq Index /\ ilog \in Nat /\ 0 < ilog
      /\ origin \in [Index -> Nat \X Nat \X Int]
  BY OnceTypes
<1>1. CASE Execute
  <2>1. /\ Known = Logged /\ Known' = 1 .. ilog /\ \A i \in Index : i # ilog => origin'[i] = origin[i]
    BY <1>1, <1>t DEF Execute, Known
  <2> QED
    BY <1>t, <2>1 DEF Logged
<1>2. CASE Advance
  <2>1. Known = 1 .. ilog /\ Known' = 1 .. ilog' - 1 /\ ilog' = ilog + 1 /\ origin' = origin
    BY <1>2 DEF Advance, Known, Logged, history
  <2> QED
    BY <1>t, <2>1
<1>3. CASE Queue \/ UNCHANGED vars
  BY <1>3 DEF Queue, Known, Logged, vars
<1>4. CASE \/ StartFunction \/ AllExplored \/ TakeSlot \/ RepeatPass \/ FinishFunction \/ Return
           \/ Rejoin \/ Decode
  BY <1>4 DEF StartFunction, AllExplored, TakeSlot, RepeatPass, FinishFunction, Return, Rejoin, Decode,
              InMemory, CanFetch, Known, Logged, history
<1>5. CASE OverRan \/ MarkOverrun \/ BadMark \/ LogOverrun \/ Refused \/ NoTable
  BY <1>5 DEF OverRan, MarkOverrun, BadMark, LogOverrun, Refused, NoTable, InMemory, CanFetch, Stop,
              Known, Logged, history
<1> QED
  BY <1>1, <1>2, <1>3, <1>4, <1>5 DEF Next, Step, Stopped

\* Only logging an RTL instruction makes an entry known.
LEMMA KnownNew ==
  ASSUME TypeInv, [Next]_vars, NEW i \in Known', i \notin Known
  PROVE  Execute /\ i = ilog
<1>t. ilog \in Nat /\ 0 < ilog
  BY OnceTypes
<1>1. CASE Execute
  BY <1>1, <1>t DEF Execute, Known, Logged
<1>2. CASE Advance
  BY <1>2, <1>t DEF Advance, Known, Logged
<1>3. CASE Queue \/ UNCHANGED vars
  BY <1>3 DEF Queue, Known, Logged, vars
<1>4. CASE \/ StartFunction \/ AllExplored \/ TakeSlot \/ RepeatPass \/ FinishFunction \/ Return
           \/ Rejoin \/ Decode
  BY <1>4 DEF StartFunction, AllExplored, TakeSlot, RepeatPass, FinishFunction, Return, Rejoin, Decode,
              InMemory, CanFetch, Known, Logged
<1>5. CASE OverRan \/ MarkOverrun \/ BadMark \/ LogOverrun \/ Refused \/ NoTable
  BY <1>5 DEF OverRan, MarkOverrun, BadMark, LogOverrun, Refused, NoTable, InMemory, CanFetch, Stop,
              Known, Logged
<1> QED
  BY <1>1, <1>2, <1>3, <1>4, <1>5 DEF Next, Step, Stopped

LEMMA FromKept ==
  ASSUME TypeInv, [Next]_vars, fn' = fn, NEW p, NEW b, From(p, b)
  PROVE  From(p, b)'
<1> SUFFICES ASSUME p \in Known, LeadsTo(p, b) PROVE p \in Known' /\ LeadsTo(p, b)'
  BY DEF From
<1>1. p \in Known' /\ origin'[p] = origin[p]
  BY KnownKept
<1>2. code' = code
  BY CodeFixed
<1>3. AtEnd(p)'
  BY <1>1, <1>2, Fixed DEF LeadsTo, AtEnd
<1>4. PICK c \in Flow(origin[p][2]) : Land[c] = Land[b]
  BY DEF LeadsTo
<1>5. c \in Flow(origin[p][2])'
  <2> DEFINE a == origin[p][2]
  <2>1. a = a' /\ Flow(a)' = Flow(a)
    BY <1>1, <1>2, Fixed
  <2> QED
    BY <1>4, <1>1, <2>1 DEF Flow
<1>6. Land[c]' = Land[b]'
  BY <1>2, <1>4, Fixed
<1> QED
  BY <1>1, <1>3, <1>5, <1>6 DEF LeadsTo

\* The position in the instruction being executed; only a return has several.
LEMMA Positions ==
  ASSUME TypeInv, ReachInv, pc \in {"rtl", "queue"}
  PROVE  /\ Position \in Nat /\ Position < Len(Rtl(code[cur])) /\ Len(Rtl(code[cur])) \in Nat
         /\ Len(todo) = Len(Rtl(code[cur])) - Position
         /\ code[cur].kind # "ret" => Position = 0 /\ Len(Rtl(code[cur])) = 1 /\ todo = Rtl(code[cur])
<1>1. /\ code[cur].kind \notin {"bad", "nop"}
      /\ IF code[cur].kind = "ret" THEN \E k \in 1 .. 4 : todo = RetFrom(k)
                                   ELSE todo = Rtl(code[cur])
  BY DEF ReachInv, RtlInv
<1>2. CASE code[cur].kind = "ret"
  <2>1. Len(Rtl(code[cur])) = 4
    BY <1>2 DEF Rtl
  <2>2. PICK k \in 1 .. 4 : todo = RetFrom(k)
    BY <1>1, <1>2
  <2>3. /\ Len(RetFrom(1)) = 4 /\ Len(RetFrom(2)) = 3 /\ Len(RetFrom(3)) = 2 /\ Len(RetFrom(4)) = 1
    BY DEF RetFrom
  <2>4. Len(todo) = 5 - k
    <3>1. CASE k = 1
      BY <2>2, <2>3, <3>1
    <3>2. CASE k = 2
      BY <2>2, <2>3, <3>2
    <3>3. CASE k = 3
      BY <2>2, <2>3, <3>3
    <3>4. CASE k = 4
      BY <2>2, <2>3, <3>4
    <3> QED
      BY <3>1, <3>2, <3>3, <3>4
  <2> QED
    BY <1>2, <2>1, <2>4 DEF Position
<1>3. CASE code[cur].kind # "ret"
  <2>1. PICK r : Rtl(code[cur]) = <<r>>
    BY <1>1, <1>3, RtlOne
  <2>2. Len(Rtl(code[cur])) = 1 /\ Len(todo) = 1
    BY <1>1, <1>3, <2>1
  <2> QED
    BY <1>1, <1>3, <2>2 DEF Position
<1> QED
  BY <1>2, <1>3

LEMMA RtlSome == ASSUME NEW d, d.kind # "nop" PROVE Rtl(d) # <<>>
<1>1. CASE d.kind = "ret"
  BY <1>1 DEF Rtl
<1>2. CASE d.kind # "ret"
  BY <1>2, RtlOne
<1> QED
  BY <1>1, <1>2

\* A decoded instruction starts with its first RTL instruction.
LEMMA DecodePosition ==
  ASSUME TypeInv, Decode, code' = code, code[eip].kind \notin {"bad", "nop"}
  PROVE  pc' = "rtl" /\ cur' = eip /\ Position' = 0
<1>1. cur' = eip /\ todo' = Rtl(code[eip]) /\ eip \in Offset
  BY ReachTypes, SizesAssumption DEF Decode, InMemory, CanFetch, Offset
<1>2. pc' = "rtl"
  BY <1>1, RtlSome DEF Decode
<1>3. Len(Rtl(code[eip])) \in Nat
  BY <1>1, RtlType, LenProperties DEF TypeInv
<1>4. Rtl(code[cur])' = Rtl(code[eip])
  BY <1>1
<1> QED
  BY <1>1, <1>2, <1>3, <1>4 DEF Position

\* Of a return that goes on with its next RTL instruction.
LEMMA NextPosition ==
  ASSUME TypeInv, ReachInv, Advance, pc' = "rtl"
  PROVE  cur' = cur /\ code[cur].kind = "ret" /\ Position' = Position + 1
<1>1. pc = "queue" /\ cur' = cur /\ code' = code /\ todo' = Tail(todo) /\ todo' # <<>>
  BY DEF Advance, program
<1>2. todo \in Seq(RtlInst) /\ todo # <<>>
  BY <1>1 DEF TypeInv, TypeOK, BlockOK, PcOK
<1>3. Len(todo') = Len(todo) - 1 /\ Len(todo) \in Nat /\ Len(todo) # 1
  BY <1>1, <1>2
<1>4. Len(Rtl(code[cur]))' = Len(Rtl(code[cur]))
  BY <1>1
<1>5. /\ Len(todo) = Len(Rtl(code[cur])) - Position /\ Position \in Nat /\ Len(Rtl(code[cur])) \in Nat
      /\ code[cur].kind # "ret" => Position = 0 /\ Len(Rtl(code[cur])) = 1
  BY <1>1, Positions
<1>6. code[cur].kind = "ret"
  BY <1>3, <1>5
<1>7. Position' = Len(Rtl(code[cur]))' - Len(todo')
  BY DEF Position
<1> QED
  BY <1>1, <1>3, <1>4, <1>5, <1>6, <1>7

\* The entry being logged stands for the instruction at the position.
LEMMA AtPositionNext ==
  ASSUME TypeInv, Execute
  PROVE  origin'[ilog] = <<fn, cur, Position + 1>>
BY OnceTypes DEF Execute, Position

\* The ways out of the entry being executed lead where the code says.
LEMMA AheadFrom ==
  ASSUME TypeInv, OnceInv, ReachInv, WayInv, pc = "queue", NEW b \in Ahead
  PROVE  From(ilog, b)
<1>1. b \in Flow(cur) /\ origin[ilog] = <<fn, cur, Position + 1>> /\ ilog \in Known
  <2>1. ilog \in Nat /\ 0 < ilog
    BY OnceTypes
  <2> QED
    BY <2>1 DEF WayInv, OnceInv, AtPosition, Known
<1>2. code[cur].kind # "ret"
  BY <1>1 DEF Flow
<1>3. Position + 1 = Len(Rtl(code[cur]))
  BY <1>2, Positions
<1>4. origin[ilog][1] = fn /\ origin[ilog][2] = cur /\ origin[ilog][3] = Len(Rtl(code[cur]))
  BY <1>1, <1>3
<1>5. LeadsTo(ilog, b)
  BY <1>1, <1>4 DEF LeadsTo, AtEnd
<1> QED
  BY <1>1, <1>5 DEF From
-----------------------------------------------------------------------------
(* The slots and inst_log_prev *)

LEMMA WayInit == Init => WayInv
BY DEF Init, WayInv

LEMMA WayStep ==
  TypeInv /\ TypeInv' /\ OnceInv /\ ReachInv /\ TablesFound /\ WayInv /\ [Next]_vars => WayInv'
<1> SUFFICES ASSUME TypeInv, TypeInv', OnceInv, ReachInv, TablesFound, WayInv, [Next]_vars
             PROVE  WayInv'
  OBVIOUS
<1>t. /\ used \subseteq Slot /\ slots \in [Slot -> [eip : Nat, prev : Index]] /\ 0 \in Slot
      /\ eip \in Nat /\ ilog \in Nat /\ 0 < ilog /\ code \in [Offset -> Decoded]
  BY ReachTypes
<1>c. code' = code
  BY CodeFixed
\* What was held before is still good; only the points of process_block are left.
<1>k. ASSUME NEW m \in used, slots'[m] = slots[m], fn' = fn PROVE SlotFrom(m)'
  <2>1. SlotFrom(m)
    BY DEF WayInv
  <2> QED
    BY <1>k, <2>1, FromKept DEF SlotFrom
<1>n. ASSUME used' \subseteq used, slots' = slots, fn' = fn, pc' \notin {"fetch", "rtl", "queue"}
      PROVE  WayInv'
  BY <1>k, <1>n DEF WayInv
<1>1. CASE StartFunction
  <2>1. used = {}
    BY <1>1 DEF StartFunction, ReachInv, ScanInv
  <2>2. used' = {0} /\ slots'[0].prev = 0 /\ pc' = "scan"
    BY <1>1, <1>t, <2>1 DEF StartFunction
  <2> QED
    BY <2>2 DEF WayInv, SlotFrom, From
<1>2. CASE TakeSlot
  <2>1. PICK m \in used : n' = m
    BY <1>2 DEF TakeSlot, IsLeast, UsedFrom
  <2>2. /\ eip' = slots[m].eip /\ prevI' = slots[m].prev /\ pc' = "fetch"
        /\ UNCHANGED <<used, slots, fn>>
    BY <1>2, <2>1 DEF TakeSlot
  <2>3. \A k \in used' : SlotFrom(k)'
    BY <1>k, <2>2
  <2>4. From(prevI, eip)'
    <3>1. From(slots[m].prev, slots[m].eip)
      BY DEF WayInv, SlotFrom
    <3> QED
      BY <2>2, <3>1, FromKept
  <2> QED
    BY <2>2, <2>3, <2>4 DEF WayInv
<1>3. CASE \/ AllExplored \/ RepeatPass \/ FinishFunction \/ Return \/ Rejoin
           \/ OverRan \/ MarkOverrun \/ BadMark \/ LogOverrun \/ Refused \/ NoTable
  <2>1. used' \subseteq used /\ slots' = slots /\ fn' = fn /\ pc' \notin {"fetch", "rtl", "queue"}
    BY <1>3 DEF AllExplored, RepeatPass, FinishFunction, Return, Rejoin, OverRan, MarkOverrun,
                BadMark, LogOverrun, Refused, NoTable, Stop
  <2> QED
    BY <1>n, <2>1
<1>4. CASE Decode
  <2>1. UNCHANGED <<fn, used, slots, prevI>> /\ pc = "fetch" /\ eip \in Offset
    BY <1>4, <1>t, SizesAssumption DEF Decode, InMemory, CanFetch, Offset
  <2>2. CASE code[eip].kind = "bad"
    BY <1>4, <1>n, <2>1, <2>2 DEF Decode
  <2>3. CASE code[eip].kind # "bad"
    <3>1. \A k \in used' : SlotFrom(k)'
      BY <1>k, <2>1
    <3>2. PICK b : b = eip
      OBVIOUS
    <3>3. From(prevI, b)'
      <4>1. From(prevI, b)
        BY <2>1, <3>2 DEF WayInv
      <4> QED
        BY <2>1, <4>1, FromKept
    <3>4. CASE code[eip].kind = "nop"
      <4>1. eip' = b + code[b].len /\ pc' = "fetch"
        BY <1>4, <2>3, <3>2, <3>4 DEF Decode, Rtl
      <4>2. Land[b] = Land[b + code[b].len]
        BY <1>t, <2>1, <3>2, <3>4, LandIs
      <4>3. Land[b]' = Land[eip]'
        BY <1>c, <4>1, <4>2, Fixed
      <4>4. From(prevI, eip)'
        BY <3>3, <4>3 DEF From, LeadsTo
      <4> QED
        BY <3>1, <4>1, <4>4 DEF WayInv
    <3>5. CASE code[eip].kind # "nop"
      <4>1. pc' = "rtl" /\ cur' = b /\ Position' = 0
        BY <1>4, <1>c, <2>3, <3>2, <3>5, DecodePosition
      <4> QED
        BY <3>1, <3>3, <4>1 DEF WayInv
    <3> QED
      BY <3>4, <3>5
  <2> QED
    BY <2>2, <2>3
<1>5. CASE Execute
  <2>1. /\ UNCHANGED <<fn, used, slots, prevI, cur, ilog>> /\ pc = "rtl" /\ pc' = "queue"
    BY <1>5 DEF Execute
  <2>2. \A k \in used' : SlotFrom(k)'
    BY <1>k, <2>1
  <2>3. Ahead' \subseteq Flow(cur)'
    <3>1. Ahead' = Succ(cur)
      BY <1>5, <2>1, ExecuteKeeps DEF Ahead
    <3>2. Succ(cur) \subseteq Flow(cur)
      BY DEF Succ, Flow
    <3>3. Flow(cur)' = Flow(cur)
      BY <1>c, <2>1 DEF Flow
    <3> QED
      BY <3>1, <3>2, <3>3
  <2>4. prevI \in {0} \cup Logged /\ Logged' = Logged
    BY <2>1 DEF WayInv, From, Known, Logged
  <2> QED
    BY <2>1, <2>2, <2>3, <2>4 DEF WayInv
<1>6. CASE Queue
  <2>1. /\ UNCHANGED <<fn, pc, prevI, cur, ilog>> /\ pc = "queue" /\ pend # <<>> /\ pend' = Tail(pend)
        /\ pend \in Seq(Nat) /\ eip' = eip
    BY <1>6, ReachTypes DEF Queue
  <2>2. Range(pend) = {Head(pend)} \cup Range(pend')
    BY <2>1, SeqRanges
  <2>3. Ahead' \subseteq Ahead /\ Head(pend) \in Ahead
    BY <1>c, <2>1, <2>2 DEF Ahead
  <2>4. Flow(cur)' = Flow(cur) /\ Logged' = Logged
    BY <1>c, <2>1 DEF Flow, Logged
  <2>5. \A k \in used' : SlotFrom(k)'
    <3>1. CASE Free = {}
      <4>1. used' = used /\ slots' = slots
        BY <1>6, <3>1 DEF Queue, Claim
      <4> QED
        BY <1>k, <2>1, <4>1
    <3>2. CASE Free # {}
      <4>1. PICK m \in Free : /\ used' = used \cup {m}
                              /\ slots' = [slots EXCEPT ![m] = [eip |-> Head(pend), prev |-> ilog]]
        BY <1>6, <3>2 DEF Queue, Claim
      <4>2. m \in Slot /\ m \notin used
        BY <4>1 DEF Free
      <4>3. \A k \in used : slots'[k] = slots[k]
        BY <1>t, <4>1, <4>2
      <4>4. slots'[m].eip = Head(pend) /\ slots'[m].prev = ilog
        BY <1>t, <4>1, <4>2
      <4>5. SlotFrom(m)'
        <5>1. PICK b : b = Head(pend)
          OBVIOUS
        <5>2. From(ilog, b)
          BY <2>1, <2>3, <5>1, AheadFrom
        <5>3. From(ilog, b)'
          BY <2>1, <5>2, FromKept
        <5> QED
          BY <2>1, <4>4, <5>1, <5>3 DEF SlotFrom
      <4> QED
        BY <1>k, <2>1, <4>1, <4>3, <4>5
    <3> QED
      BY <3>1, <3>2
  <2> QED
    BY <2>1, <2>3, <2>4, <2>5 DEF WayInv
<1>7. CASE Advance
  <2>1. /\ UNCHANGED <<fn, used, slots, cur, eip, origin>> /\ pc = "queue" /\ prevI' = ilog
        /\ ilog' = ilog + 1 /\ pc' \in {"return", "fetch", "rtl"}
    BY <1>7 DEF Advance, history
  <2>2. \A k \in used' : SlotFrom(k)'
    BY <1>k, <2>1
  <2>3. ASSUME pc' = "fetch" PROVE From(prevI, eip)'
    <3>1. PICK p, b : p = ilog /\ b = eip
      OBVIOUS
    <3>2. b \in Ahead
      BY <1>7, <2>1, <2>3, <3>1, AdvanceKeeps DEF Ahead
    <3>3. From(p, b)
      BY <2>1, <3>1, <3>2, AheadFrom
    <3>4. From(p, b)'
      BY <2>1, <3>3, FromKept
    <3> QED
      BY <2>1, <3>1, <3>4
  <2>4. ASSUME pc' = "rtl"
        PROVE  /\ Position' \in Nat \ {0} /\ prevI' \in Logged'
               /\ origin'[prevI'] = <<fn', cur', Position'>>
    <3>1. Position' = Position + 1 /\ Position \in Nat
      BY <1>7, <2>1, <2>4, NextPosition, Positions
    <3>2. origin[ilog] = <<fn, cur, Position + 1>>
      BY <2>1 DEF OnceInv, AtPosition
    <3> QED
      BY <1>t, <2>1, <3>1, <3>2 DEF Logged
  <2> QED
    BY <2>1, <2>2, <2>3, <2>4 DEF WayInv
<1>8. CASE UNCHANGED vars
  <2>1. UNCHANGED <<fn, used, slots, pc, cur, eip, origin, prevI, todo, ilog, pend, code>>
    BY <1>8 DEF vars
  <2>2. \A k \in used' : SlotFrom(k)'
    BY <1>k, <2>1
  <2>3. Position' = Position /\ Logged' = Logged /\ Ahead' = Ahead /\ Flow(cur)' = Flow(cur)
    BY <2>1 DEF Position, Logged, Ahead, Succ, Flow
  <2>4. From(prevI, eip)' = From(prevI, eip) /\ From(prevI, cur)' = From(prevI, cur)
    <3>1. Land' = Land
      BY <2>1 DEF Land
    <3> QED
      BY <2>1, <3>1 DEF From, LeadsTo, Known, Logged, AtEnd, Flow
  <2> QED
    BY <2>1, <2>2, <2>3, <2>4 DEF WayInv
<1> QED
  BY <1>1, <1>2, <1>3, <1>4, <1>5, <1>6, <1>7, <1>8 DEF Next, Step, Stopped

-----------------------------------------------------------------------------
(* memory_used *)

\* A mark is the number of the entry decoded at its offset, or behind the NOPs
\* there; the number not given yet is that of the instruction control is at.
MarksInv ==
  /\ \A b \in DOMAIN mark : mark[b] <= ilog
  /\ \A b \in DOMAIN mark : mark[b] \in Known => origin[mark[b]] = <<fn, Land[b], 1>>
  /\ \A b \in DOMAIN mark : mark[b] = ilog =>
       /\ pc \notin {"main", "scan", "return"}
       /\ pc = "fetch" => Land[b] = Land[eip] /\ eip \notin seen
       /\ pc = "rtl" => Land[b] = cur /\ Position = 0

LEMMA MarksInit == Init => MarksInv
BY DEF Init, MarksInv, Known, Logged

LEMMA MarksStep ==
  TypeInv /\ TypeInv' /\ OnceInv /\ ReachInv /\ NopsFirst /\ MarksInv /\ [Next]_vars => MarksInv'
<1> SUFFICES ASSUME TypeInv, TypeInv', OnceInv, ReachInv, NopsFirst, MarksInv, [Next]_vars
             PROVE  MarksInv'
  OBVIOUS
<1>t. /\ eip \in Nat /\ ilog \in Nat /\ 0 < ilog /\ code \in [Offset -> Decoded]
      /\ mark \in [0 .. UsedSize - 1 -> Int]
  BY ReachTypes
<1>i. /\ \A b \in DOMAIN mark : mark[b] <= ilog
      /\ \A b \in DOMAIN mark : mark[b] \in Known => origin[mark[b]] = <<fn, Land[b], 1>>
      /\ \A b \in DOMAIN mark : mark[b] = ilog =>
           /\ pc \notin {"main", "scan", "return"}
           /\ pc = "fetch" => Land[b] = Land[eip] /\ eip \notin seen
           /\ pc = "rtl" => Land[b] = cur /\ Position = 0
  BY DEF MarksInv
<1>c. code' = code /\ Land' = Land
  BY CodeFixed DEF Land
<1>1. CASE StartFunction
  <2>1. mark' = [a \in 0 .. UsedSize - 1 |-> 0] /\ ilog' = ilog /\ pc' = "scan"
    BY <1>1 DEF StartFunction
  <2>2. \A b \in DOMAIN mark' : mark'[b] = 0
    BY <2>1
  <2>3. 0 \notin Known'
    BY <1>t, <2>1 DEF Known, Logged
  <2> QED
    BY <1>t, <2>1, <2>2, <2>3 DEF MarksInv
\* Between decoding and logging nothing refers to the entry that comes next.
<1>2. CASE \/ AllExplored \/ TakeSlot \/ RepeatPass \/ FinishFunction \/ Return
  <2>1. UNCHANGED <<fn, mark, ilog, origin>> /\ pc \in {"main", "scan", "return"} /\ pc' # "queue"
    BY <1>2 DEF AllExplored, TakeSlot, RepeatPass, FinishFunction, Return, history
  <2>2. Known' = Known
    BY <2>1 DEF Known, Logged
  <2> QED
    BY <1>i, <1>c, <2>1, <2>2 DEF MarksInv
<1>3. CASE OverRan \/ MarkOverrun \/ BadMark \/ LogOverrun \/ Refused \/ NoTable
  <2>1. UNCHANGED <<fn, mark, ilog, origin>> /\ pc' \in {"failed", "undefined"} /\ pc # "queue"
    BY <1>3 DEF OverRan, MarkOverrun, BadMark, LogOverrun, Refused, NoTable, InMemory, CanFetch, Stop, history
  <2>2. Known' = Known
    BY <2>1 DEF Known, Logged
  <2> QED
    BY <1>i, <1>c, <2>1, <2>2 DEF MarksInv
<1>4. CASE Rejoin
  <2>1. /\ UNCHANGED <<fn, mark, ilog, origin>> /\ pc' = "return" /\ pc = "fetch"
        /\ eip \in DOMAIN mark /\ mark[eip] > 0
    BY <1>4, <1>t, SizesAssumption DEF Rejoin, InMemory, CanFetch, history, Index
  <2>2. eip \in seen
    BY <2>1 DEF ReachInv, MarkInv
  <2>3. Known' = Known
    BY <2>1 DEF Known, Logged
  <2> QED
    BY <1>i, <1>c, <2>1, <2>2, <2>3 DEF MarksInv
<1>5. CASE Decode
  <2>1. /\ UNCHANGED <<fn, ilog, origin>> /\ pc = "fetch" /\ pc' # "queue" /\ eip \in Offset
        /\ mark' = Marked(eip) /\ mark[eip] = 0 /\ seen' = seen \cup {eip}
    BY <1>5, <1>t, SizesAssumption DEF Decode, InMemory, CanFetch, Offset
  <2>2. Known' = Known /\ Known = 1 .. ilog - 1
    BY <2>1 DEF Known, Logged
  <2>3. code[eip].len \in Nat \ {0}
    BY <1>t, <2>1 DEF Decoded
  <2>4. /\ DOMAIN mark' = DOMAIN mark
        /\ \A b \in DOMAIN mark : \/ b = eip /\ mark'[b] = ilog
                                  \/ mark'[b] = mark[b]
                                  \/ mark'[b] < 0
    <3>1. DOMAIN mark' = DOMAIN mark /\ DOMAIN mark \subseteq Int
      BY <1>t, <2>1 DEF Marked
    <3>2. SUFFICES ASSUME NEW b \in DOMAIN mark, b # eip, mark'[b] # mark[b] PROVE mark'[b] < 0
      BY <2>1, <3>1 DEF Marked
    <3>3. b \in eip .. eip + code[eip].len - 1 /\ mark'[b] = eip - b
      BY <2>1, <3>2 DEF Marked
    <3> QED
      BY <1>t, <2>3, <3>1, <3>2, <3>3
  <2>5. \A b \in DOMAIN mark' : mark'[b] <= ilog'
    <3>1. SUFFICES ASSUME NEW b \in DOMAIN mark PROVE mark'[b] <= ilog
      BY <2>1, <2>4
    <3>2. mark[b] \in Int /\ mark'[b] \in Int /\ mark[b] <= ilog
      BY <1>i, <1>t DEF TypeInv, TypeOK, LogOK
    <3>3. (b = eip /\ mark'[b] = ilog) \/ mark'[b] = mark[b] \/ mark'[b] < 0
      BY <2>4
    <3> QED
      BY <1>t, <3>2, <3>3
  <2>6. \A b \in DOMAIN mark' : mark'[b] \in Known' => origin'[mark'[b]] = <<fn', Land'[b], 1>>
    BY <1>i, <1>c, <1>t, <2>1, <2>2, <2>4
  <2>7. \A b \in DOMAIN mark' : mark'[b] = ilog' => Land[b] = Land[eip]
    BY <1>i, <1>t, <2>1, <2>4
  <2>8. CASE code[eip].kind = "bad"
    BY <1>5, <2>1, <2>5, <2>6, <2>8 DEF Decode, MarksInv
  <2>9. CASE code[eip].kind = "nop"
    <3>1. eip' = eip + code[eip].len /\ pc' = "fetch"
      BY <1>5, <2>9 DEF Decode, Rtl
    <3>2. Land[eip'] = Land[eip]
      BY <1>t, <2>1, <2>9, <3>1, LandIs
    <3>3. eip' \notin seen'
      <4>1. eip' \notin seen
        BY <1>5, <2>1, <2>9, <3>1 DEF Decode, NopsFirst
      <4>2. eip' # eip
        BY <1>t, <2>3, <3>1
      <4> QED
        BY <2>1, <4>1, <4>2
    <3> QED
      BY <1>c, <2>5, <2>6, <2>7, <3>1, <3>2, <3>3 DEF MarksInv
  <2>10. CASE code[eip].kind \notin {"bad", "nop"}
    <3>1. pc' = "rtl" /\ cur' = eip /\ Position' = 0
      BY <1>5, <1>c, <2>10, DecodePosition
    <3>2. Land[eip] = eip
      BY <1>t, <2>1, <2>10, LandIs
    <3> QED
      BY <1>c, <2>5, <2>6, <2>7, <3>1, <3>2 DEF MarksInv
  <2> QED
    BY <2>8, <2>9, <2>10
<1>6. CASE Execute
  <2>1. /\ UNCHANGED <<fn, mark, ilog, cur>> /\ pc = "rtl" /\ pc' = "queue" /\ ilog \in Index
    BY <1>6 DEF Execute
  <2>2. Known' = Known \cup {ilog} /\ Known = 1 .. ilog - 1
    BY <1>t, <2>1 DEF Known, Logged
  <2>3. ASSUME NEW b \in DOMAIN mark, mark[b] = ilog PROVE origin'[ilog] = <<fn, Land[b], 1>>
    <3>1. Land[b] = cur /\ Position = 0
      BY <1>i, <2>1, <2>3
    <3>2. origin'[ilog] = <<fn, cur, Position + 1>>
      BY <1>6, <1>c, <2>1, AtPositionNext
    <3> QED
      BY <3>1, <3>2
  <2>4. \A i \in Known : origin'[i] = origin[i]
    BY KnownKept
  <2> QED
    BY <1>i, <1>c, <2>1, <2>2, <2>3, <2>4 DEF MarksInv
<1>7. CASE Queue
  <2>1. UNCHANGED <<fn, mark, ilog, origin, pc>> /\ pc = "queue"
    BY <1>7 DEF Queue
  <2> QED
    BY <1>i, <1>c, <2>1 DEF MarksInv, Known
<1>8. CASE Advance
  <2>1. /\ UNCHANGED <<fn, mark, origin>> /\ pc = "queue" /\ pc' # "queue" /\ ilog' = ilog + 1
    BY <1>8 DEF Advance, history
  <2>2. Known' = Known /\ \A b \in DOMAIN mark : mark'[b] # ilog' /\ mark'[b] <= ilog'
    BY <1>i, <1>t, <2>1 DEF Known, Logged
  <2> QED
    BY <1>i, <1>c, <2>1, <2>2 DEF MarksInv
<1>9. CASE UNCHANGED vars
  <2>1. UNCHANGED <<fn, mark, ilog, origin, pc, eip, seen, cur, todo, code>>
    BY <1>9 DEF vars
  <2>2. Known' = Known /\ Position' = Position
    BY <2>1 DEF Known, Logged, Position
  <2> QED
    BY <1>i, <1>c, <2>1, <2>2 DEF MarksInv
<1> QED
  BY <1>1, <1>2, <1>3, <1>4, <1>5, <1>6, <1>7, <1>8, <1>9 DEF Next, Step, Stopped

-----------------------------------------------------------------------------
(* Every edge is real *)

Real(i, j) == j \in Known /\ Follows(i, j)

EdgeInv ==
  /\ \A i \in Logged : \A j \in Range(log[i].next) : Real(i, j)
  /\ \A k \in Index : k >= ilog => Range(log[k].next) = {}

LEMMA EdgeInit == Init => EdgeInv
<1>1. Range(<<>>) = {}
  BY DEF Range
<1> QED
  BY <1>1 DEF Init, EdgeInv, EmptyEntry, Logged, Index

LEMMA RealKept ==
  ASSUME TypeInv, [Next]_vars, NEW i \in Known, NEW j, Real(i, j)
  PROVE  Real(i, j)'
<1>1. j \in Known' /\ origin'[j] = origin[j] /\ origin'[i] = origin[i]
  BY KnownKept DEF Real
<1>2. code' = code /\ Land' = Land
  BY CodeFixed DEF Land
<1> DEFINE a == origin[i][2]
<1>3. Flow(a)' = Flow(a) /\ a' = a /\ Len(Rtl(code[a]))' = Len(Rtl(code[a]))
  BY <1>1, <1>2, Fixed
<1>4. Follows(i, j)'
  BY <1>1, <1>2, <1>3 DEF Real, Follows
<1> QED
  BY <1>1, <1>4 DEF Real

\* Entries of the log are followed where their ways out lead.
LEMMA FromReal ==
  ASSUME NEW p \in Known, NEW j \in Known, NEW b, From(p, b), p # 0,
         origin[j] = <<fn, Land[b], 1>>
  PROVE  Real(p, j)
<1>1. LeadsTo(p, b)
  BY DEF From
<1>2. PICK c \in Flow(origin[p][2]) : Land[c] = Land[b]
  BY <1>1 DEF LeadsTo
<1>3. origin[p][1] = fn /\ origin[p][3] = Len(Rtl(code[origin[p][2]]))
  BY <1>1 DEF LeadsTo, AtEnd
<1>4. origin[j] = <<origin[p][1], Land[c], 1>>
  BY <1>2, <1>3
<1>5. Follows(p, j)
  BY <1>2, <1>3, <1>4 DEF Follows
<1> QED
  BY <1>5 DEF Real

LEMMA EdgeStep ==
  /\ TypeInv /\ TypeInv' /\ OnceInv /\ OnceInv' /\ ReachInv /\ WayInv /\ MarksInv
  /\ EdgeInv /\ [Next]_vars
  => EdgeInv'
<1> SUFFICES ASSUME TypeInv, TypeInv', OnceInv, OnceInv', ReachInv, WayInv, MarksInv,
                    EdgeInv, [Next]_vars
             PROVE  EdgeInv'
  OBVIOUS
<1>t. ilog \in Nat /\ 0 < ilog /\ Logged \subseteq Index /\ Logged = 1 .. ilog - 1 /\ LogSize \in Nat
  BY OnceTypes, SizesAssumption DEF Logged
<1>c. code' = code /\ Land' = Land
  BY CodeFixed DEF Land
<1>k. Logged \subseteq Known
  BY <1>t DEF Known
<1>o. \A i \in Logged : \A j : Real(i, j) => Real(i, j)'
  BY <1>k, RealKept
<1>1. CASE Rejoin
  <2>1. /\ UNCHANGED <<ilog, origin, fn>> /\ pc = "fetch" /\ pc' = "return"
        /\ eip \in DOMAIN mark /\ mark[eip] > 0
    BY <1>1, ReachTypes, SizesAssumption DEF Rejoin, InMemory, CanFetch, history, Index
  <2> DEFINE j == mark[eip]
  <2>2. Links(prevI, j)
    BY <1>1, RejoinLinks
  <2>3. j \in Logged /\ Known = Logged
    <3>1. eip \in seen
      BY <2>1 DEF ReachInv, MarkInv
    <3>2. mark[eip] # ilog /\ mark[eip] <= ilog /\ mark[eip] \in Int
      BY <2>1, <3>1 DEF MarksInv, TypeInv, TypeOK, LogOK
    <3> QED
      BY <1>t, <2>1, <3>2 DEF Known
  <2>4. origin[j] = <<fn, Land[eip], 1>>
    BY <2>1, <2>3 DEF MarksInv
  <2>5. prevI \in {0} \cup Logged /\ From(prevI, eip)
    BY <2>1, <2>3 DEF WayInv, From
  <2>6. prevI # 0 => Real(prevI, j)
    <3> HIDE DEF j
    <3> QED
      BY <2>3, <2>4, <2>5, FromReal
  <2> HIDE DEF j
  <2>7. ASSUME NEW i \in Logged, NEW k \in Range(log'[i].next) PROVE Real(i, k)'
    <3>1. k \in Range(log[i].next) \/ (i = prevI /\ k = j)
      BY <1>t, <2>2, <2>7 DEF Links
    <3>2. Real(i, k)
      BY <1>t, <2>6, <3>1 DEF EdgeInv
    <3> QED
      BY <1>o, <3>2
  <2>8. ASSUME NEW k \in Index, k >= ilog PROVE Range(log'[k].next) = {}
    <3>1. k # prevI
      BY <1>t, <2>5, <2>8
    <3> QED
      BY <2>2, <2>8, <3>1 DEF Links, EdgeInv
  <2> QED
    BY <2>1, <2>7, <2>8 DEF EdgeInv, Logged
<1>2. CASE Execute
  <2>1. /\ UNCHANGED <<ilog, fn>> /\ pc = "rtl" /\ pc' = "queue" /\ Logged' = Logged
        /\ Known' = Logged \cup {ilog} /\ Known = Logged
    BY <1>2, <1>t DEF Execute, Logged, Known
  <2>2. ilog \in Index /\ Links(prevI, ilog)
    BY <1>2, ExecuteLinks
  <2>3. origin'[ilog] = <<fn, cur, Position + 1>>
    BY <1>2, AtPositionNext
  <2>4. prevI \in {0} \cup Logged
    BY <2>1 DEF WayInv, From
  <2>5. ASSUME prevI # 0 PROVE Real(prevI, ilog)'
    <3>1. PICK p, j : p = prevI /\ j = ilog
      OBVIOUS
    <3>2. p \in Logged /\ j \in Known' /\ p \in Known' /\ origin'[p] = origin[p]
      BY <2>1, <2>4, <2>5, <3>1, KnownKept
    <3>3. Real(p, j)'
      <4>1. CASE Position = 0
        <5>1. From(p, cur)
          BY <2>1, <3>1, <4>1 DEF WayInv
        <5>2. PICK b : b = cur
          OBVIOUS
        <5>3. From(p, b)'
          BY <2>1, <5>1, <5>2, FromKept
        <5>4. Land[b] = b
          <6>1. cur \in Offset /\ cur \in Nat /\ code \in [Offset -> Decoded]
            BY ReachTypes, SizesAssumption DEF Offset
          <6>2. code[cur].kind # "nop"
            BY <2>1 DEF ReachInv, RtlInv
          <6> QED
            BY <5>2, <6>1, <6>2, LandIs
        <5>5. origin'[j] = <<fn', Land'[b], 1>>
          BY <1>c, <2>1, <2>3, <3>1, <4>1, <5>2, <5>4
        <5>6. LeadsTo(p, b)'
          BY <2>5, <3>1, <5>3 DEF From
        <5>7. PICK c \in Flow(origin[p][2])' : Land'[c] = Land'[b]
          BY <5>6 DEF LeadsTo
        <5>8. /\ origin'[p][1] = fn' /\ origin'[p][3] = Len(Rtl(code'[origin'[p][2]]))
              /\ origin'[j] = <<origin'[p][1], Land'[c], 1>>
          BY <5>5, <5>6, <5>7 DEF LeadsTo, AtEnd
        <5>9. Follows(p, j)'
          BY <5>7, <5>8 DEF Follows
        <5> QED
          BY <3>2, <5>9 DEF Real
      <4>2. CASE Position # 0
        <5>1. origin[p] = <<fn, cur, Position>> /\ Position < Len(Rtl(code[cur]))
          BY <2>1, <3>1, <4>2, Positions DEF WayInv
        <5>2. origin'[p] = <<fn, cur, Position>> /\ origin'[j] = <<fn, cur, Position + 1>>
          BY <2>3, <3>1, <3>2, <5>1
        <5>3. Follows(p, j)'
          BY <1>c, <5>1, <5>2 DEF Follows
        <5> QED
          BY <3>2, <5>3 DEF Real
      <4> QED
        BY <4>1, <4>2
    <3> QED
      BY <2>1, <3>1, <3>3, <1>2 DEF Execute
  <2>6. ASSUME NEW i \in Logged, NEW k \in Range(log'[i].next) PROVE Real(i, k)'
    <3>1. CASE k \in Range(log[i].next)
      BY <1>o, <3>1 DEF EdgeInv
    <3>2. CASE k \notin Range(log[i].next)
      <4>1. i = prevI /\ k = ilog
        BY <1>t, <2>2, <2>6, <3>2 DEF Links
      <4>2. prevI' = prevI /\ ilog' = ilog /\ prevI # 0
        BY <1>2, <1>t, <4>1 DEF Execute
      <4> QED
        BY <2>5, <4>1, <4>2
    <3> QED
      BY <3>1, <3>2
  <2>7. ASSUME NEW k \in Index, k >= ilog PROVE Range(log'[k].next) = {}
    <3>1. k # prevI
      BY <1>t, <2>4, <2>7
    <3> QED
      BY <2>2, <2>7, <3>1 DEF Links, EdgeInv
  <2> QED
    BY <2>1, <2>6, <2>7 DEF EdgeInv
<1>3. CASE ~Rejoin /\ ~Execute
  <2>1. \A k \in Index : log'[k].next = log[k].next
    BY <1>3, OthersLinkNone
  <2>2. \A i \in Logged : \A j \in Range(log'[i].next) : Real(i, j)'
    BY <1>t, <1>o, <2>1 DEF EdgeInv
  <2>3. CASE Advance
    <3>1. ilog' = ilog + 1 /\ ilog \in Index
      BY <2>3 DEF Advance, TypeInv, PcOK
    <3>2. Range(log[ilog].next) = {}
      BY <1>t, <3>1 DEF EdgeInv
    <3>3. Logged' = Logged \cup {ilog}
      BY <1>t, <3>1 DEF Logged
    <3>4. \A i \in Logged' : \A j \in Range(log'[i].next) : Real(i, j)'
      BY <2>1, <2>2, <3>1, <3>2, <3>3
    <3>5. \A k \in Index : k >= ilog' => Range(log'[k].next) = {}
      BY <1>t, <2>1, <3>1 DEF EdgeInv, Index
    <3> QED
      BY <3>4, <3>5 DEF EdgeInv
  <2>4. CASE ~Advance
    <3>1. ilog' = ilog
      BY <1>3, <2>4 DEF Next, Step, Stopped, vars, StartFunction, AllExplored, TakeSlot, RepeatPass,
         FinishFunction, Return, OverRan, MarkOverrun, BadMark, Decode, LogOverrun, Refused, NoTable, Queue, Stop
    <3> QED
      BY <2>1, <2>2, <3>1 DEF EdgeInv, Logged
  <2> QED
    BY <2>3, <2>4
<1> QED
  BY <1>1, <1>2, <1>3

\* What the prover is asked of every state of the exploration.
AllInv == TypeInv /\ OnceInv /\ ReachInv /\ WayInv /\ MarksInv /\ EdgeInv

LEMMA AllInvariant == Spec /\ []TablesFound /\ []NopsFirst => []AllInv
<1>1. Init => AllInv
  BY TypeInit, OnceInit, ReachInit, WayInit, MarksInit, EdgeInit DEF AllInv
<1>2. AllInv /\ TablesFound /\ NopsFirst /\ [Next]_vars => AllInv'
  BY TypeStep, OnceStep, ReachStep, WayStep, MarksStep, EdgeStep DEF AllInv
<1> QED
  BY <1>1, <1>2, PTL DEF Spec

\* Every edge of the log, whichever of the slots, the marks and inst_log_prev it
\* was made from, is a transfer of control of the program within one function,
\* if the tables of the indirect jumps are found and no NOP is decoded in front
\* of decoded code.
THEOREM Edges == Spec /\ []TablesFound /\ []NopsFirst => []EdgesReal
<1>1. AllInv => EdgesReal
  <2> SUFFICES ASSUME AllInv, NEW i \in Logged, NEW j \in Range(log[i].next)
               PROVE  (pc = "queue" /\ j = ilog) \/ (j \in Logged /\ Follows(i, j))
    BY DEF EdgesReal
  <2>1. j \in Known /\ Follows(i, j) /\ ilog \in Nat
    BY OnceTypes DEF AllInv, EdgeInv, Real
  <2> QED
    BY <2>1 DEF Known, Logged
<1> QED
  BY <1>1, AllInvariant, PTL

-----------------------------------------------------------------------------
(* Every way out has its edge *)

\* Entry i ends its machine instruction and control may go on at b.
Owing(i, b) == i \in Known /\ AtEnd(i) /\ b \in Flow(origin[i][2])

Drawn(i, b) == \E j \in Known : Edge(i, j) /\ origin[j] = <<origin[i][1], Land[b], 1>>

\* A slot that is in use and not the one being processed.
Idle(m) == m \in used /\ (pc \in {"fetch", "rtl", "queue", "return"} => m # n)

\* The way out is in a slot or is being followed.
Waiting(i, b) ==
  \/ \E m \in Slot : Idle(m) /\ slots[m].prev = i /\ Land[slots[m].eip] = Land[b]
  \/ pc = "fetch" /\ prevI = i /\ Land[eip] = Land[b]
  \/ pc = "rtl" /\ Position = 0 /\ prevI = i /\ cur = Land[b]
  \/ pc = "queue" /\ i = ilog /\ b \in Ahead

Served(i, b) ==
  \/ Drawn(i, b)
  \/ origin[i][1] = fn /\ (pc \in {"failed", "undefined"} \/ Waiting(i, b))

CompleteInv == lost \/ \A i, b : Owing(i, b) => Served(i, b)

LEMMA CompleteInit == Init => CompleteInv
BY DEF Init, CompleteInv, Owing, Known, Logged

LEMMA EdgeKept ==
  ASSUME TypeInv, [Next]_vars, NEW i \in Index, NEW j, Edge(i, j)
  PROVE  Edge(i, j)'
<1>1. CASE Rejoin
  BY <1>1, RejoinLinks DEF Links, Edge
<1>2. CASE Execute
  BY <1>2, ExecuteLinks DEF Links, Edge
<1>3. CASE ~Rejoin /\ ~Execute
  BY <1>3, OthersLinkNone DEF Edge
<1> QED
  BY <1>1, <1>2, <1>3

LEMMA KnownIn == ASSUME TypeInv PROVE Known \subseteq Index
<1>1. LogSize \in Nat /\ ilog \in Nat /\ Logged \subseteq Index
  BY OnceTypes, SizesAssumption
<1>2. pc = "queue" => ilog \in Index
  BY DEF TypeInv, PcOK
<1> QED
  BY <1>1, <1>2 DEF Known, Index

LEMMA DrawnKept ==
  ASSUME TypeInv, TypeInv', [Next]_vars, NEW i \in Known, NEW b, Drawn(i, b)
  PROVE  Drawn(i, b)'
<1>1. PICK j \in Known : Edge(i, j) /\ origin[j] = <<origin[i][1], Land[b], 1>>
  BY DEF Drawn
<1>2. i \in Index
  BY KnownIn
<1>3. Edge(i, j)'
  BY <1>1, <1>2, EdgeKept
<1>4. j \in Known' /\ origin'[j] = origin[j] /\ origin'[i] = origin[i]
  BY <1>1, KnownKept
<1>5. Land' = Land
  BY CodeFixed DEF Land
<1> QED
  BY <1>1, <1>3, <1>4, <1>5 DEF Drawn

\* What is owed after a step was owed before, or is owed by what was just logged.
LEMMA OwingBefore ==
  ASSUME TypeInv, [Next]_vars, NEW i, NEW b, Owing(i, b)'
  PROVE  \/ Owing(i, b) /\ origin'[i] = origin[i]
         \/ Execute /\ i = ilog
<1>1. CASE i \in Known
  <2>1. origin'[i] = origin[i] /\ code' = code
    BY <1>1, KnownKept, CodeFixed
  <2> DEFINE a == origin[i][2]
  <2>2. a' = a /\ Flow(a)' = Flow(a) /\ Len(Rtl(code[a]))' = Len(Rtl(code[a]))
    BY <2>1, Fixed
  <2>3. Owing(i, b)
    BY <1>1, <2>1, <2>2 DEF Owing, AtEnd
  <2> QED
    BY <2>1, <2>3
<1>2. CASE i \notin Known
  <2>1. i \in Known'
    BY DEF Owing
  <2> QED
    BY <1>2, <2>1, KnownNew
<1> QED
  BY <1>1, <1>2

LEMMA CompleteStep ==
  /\ TypeInv /\ TypeInv' /\ OnceInv /\ ReachInv /\ ReachInv' /\ WayInv /\ MarksInv
  /\ TablesFound /\ NoJumpToZero /\ CompleteInv /\ [Next]_vars
  => CompleteInv'
<1> SUFFICES ASSUME TypeInv, TypeInv', OnceInv, ReachInv, ReachInv', WayInv, MarksInv,
                    TablesFound, NoJumpToZero, CompleteInv, [Next]_vars,
                    ~lost', NEW i, NEW b, Owing(i, b)'
             PROVE  Served(i, b)'
  BY DEF CompleteInv
<1>t. /\ used \subseteq Slot /\ slots \in [Slot -> [eip : Nat, prev : Index]]
      /\ eip \in Nat /\ ilog \in Nat /\ 0 < ilog /\ code \in [Offset -> Decoded] /\ cur \in Offset
  BY ReachTypes
<1>c. code' = code /\ Land' = Land
  BY CodeFixed DEF Land
<1>l. ~lost
  BY DEF Next, Step, Stopped, vars, StartFunction, AllExplored, TakeSlot, RepeatPass, FinishFunction,
         Return, OverRan, MarkOverrun, BadMark, Rejoin, Decode, LogOverrun, Refused, NoTable, Execute, Queue,
         Advance, Stop, history
\* What was just logged waits in pend, or in EIP.
<1>n. CASE Execute /\ i = ilog
  <2>1. pc' = "queue" /\ pc = "rtl" /\ ilog' = ilog /\ fn' = fn /\ cur' = cur
    BY <1>n DEF Execute
  <2>2. origin'[i] = <<fn, cur, Position + 1>>
    BY <1>n, AtPositionNext
  <2>3. b \in Flow(cur)
    BY <1>c, <2>2 DEF Owing, Flow
  <2>4. Flow(cur) = Succ(cur)
    BY <1>t DEF Flow, Succ, NoJumpToZero
  <2>5. Ahead' = Succ(cur)
    BY <1>n, <2>1, ExecuteKeeps DEF Ahead
  <2> QED
    BY <1>n, <2>1, <2>2, <2>3, <2>4, <2>5 DEF Served, Waiting
<1>a. SUFFICES ASSUME Owing(i, b), origin'[i] = origin[i], ~(Execute /\ i = ilog) PROVE Served(i, b)'
  BY <1>n, OwingBefore
<1>k. i \in Known /\ i \in Index /\ i # 0
  BY <1>a, <1>t, KnownIn DEF Owing, Known, Logged
<1>s. Served(i, b)
  BY <1>a, <1>l DEF CompleteInv
<1>1. CASE Drawn(i, b)
  BY <1>1, <1>k, DrawnKept DEF Served
<1> SUFFICES ASSUME ~Drawn(i, b) PROVE Served(i, b)'
  BY <1>1
<1>f. origin[i][1] = fn
  BY <1>s DEF Served
<1>p. CASE pc \in {"failed", "undefined"}
  <2>1. UNCHANGED vars
    BY <1>p DEF Next, Step, Stopped, StartFunction, AllExplored, TakeSlot, RepeatPass, FinishFunction,
         Return, OverRan, MarkOverrun, BadMark, Rejoin, Decode, LogOverrun, Refused, NoTable, Execute, Queue,
         Advance, InMemory, CanFetch
  <2> QED
    BY <1>a, <1>f, <1>p, <2>1 DEF Served, vars
<1>w. SUFFICES ASSUME Waiting(i, b) PROVE Served(i, b)'
  BY <1>s, <1>p DEF Served
\* A way out stays in an idle slot, as long as the slot stays.
<1>i. ASSUME NEW m \in Slot, slots[m].prev = i, Land[slots[m].eip] = Land[b], Idle(m)',
             slots'[m] = slots[m], fn' = fn
      PROVE  Served(i, b)'
  BY <1>a, <1>c, <1>f, <1>i DEF Served, Waiting
<1>2. CASE StartFunction \/ AllExplored \/ FinishFunction
  <2>1. used = {} /\ pc \notin {"fetch", "rtl", "queue"}
    <3>1. CASE StartFunction \/ AllExplored
      BY <3>1 DEF StartFunction, AllExplored, ReachInv, ScanInv
    <3>2. CASE FinishFunction
      BY <3>2 DEF FinishFunction, ReachInv, ScanInv
    <3> QED
      BY <1>2, <3>1, <3>2
  <2> QED
    BY <1>w, <2>1 DEF Waiting, Idle
<1>3. CASE TakeSlot
  <2>1. /\ pc = "scan" /\ pc' = "fetch" /\ n' \in used /\ eip' = slots[n'].eip
        /\ prevI' = slots[n'].prev /\ UNCHANGED <<fn, used, slots>>
    BY <1>3 DEF TakeSlot, IsLeast, UsedFrom
  <2>2. PICK m \in Slot : Idle(m) /\ slots[m].prev = i /\ Land[slots[m].eip] = Land[b]
    BY <1>w, <2>1 DEF Waiting
  <2>3. CASE m = n'
    BY <1>a, <1>c, <1>f, <2>1, <2>2, <2>3 DEF Served, Waiting
  <2>4. CASE m # n'
    BY <1>i, <2>1, <2>2, <2>4 DEF Idle
  <2> QED
    BY <2>3, <2>4
<1>4. CASE RepeatPass \/ Return
  <2>1. /\ pc \in {"scan", "return"} /\ pc' = "scan" /\ UNCHANGED <<fn, slots>>
        /\ \A m \in used : m # n \/ pc = "scan" => m \in used'
    BY <1>4 DEF RepeatPass, Return
  <2>2. PICK m \in Slot : Idle(m) /\ slots[m].prev = i /\ Land[slots[m].eip] = Land[b]
    BY <1>w, <2>1 DEF Waiting
  <2> QED
    BY <1>i, <2>1, <2>2 DEF Idle
<1>5. CASE OverRan \/ MarkOverrun \/ BadMark \/ LogOverrun \/ Refused \/ NoTable
  <2>1. fn' = fn /\ pc' \in {"failed", "undefined"}
    BY <1>5 DEF OverRan, MarkOverrun, BadMark, LogOverrun, Refused, NoTable, Stop
  <2> QED
    BY <1>a, <1>f, <2>1 DEF Served
\* While process_block runs no idle slot is touched.
<1>b. ASSUME UNCHANGED <<fn, used, slots, n>>, pc \in {"fetch", "rtl", "queue"},
             \E m \in Slot : Idle(m) /\ slots[m].prev = i /\ Land[slots[m].eip] = Land[b]
      PROVE  Served(i, b)'
  <2>1. PICK m \in Slot : Idle(m) /\ slots[m].prev = i /\ Land[slots[m].eip] = Land[b]
    BY <1>b
  <2> QED
    BY <1>b, <1>i, <2>1 DEF Idle
<1>6. CASE Rejoin
  <2>1. /\ UNCHANGED <<fn, used, slots, n, origin>> /\ pc = "fetch" /\ pc' = "return"
        /\ eip \in DOMAIN mark /\ mark[eip] > 0 /\ mark[eip] \in Int
    BY <1>6, ReachTypes, SizesAssumption DEF Rejoin, InMemory, CanFetch, history, Index
  <2>2. CASE prevI = i /\ Land[eip] = Land[b]
    <3> DEFINE j == mark[eip]
    <3>1. j \in Known
      <4>1. eip \in seen
        BY <2>1 DEF ReachInv, MarkInv
      <4>2. mark[eip] # ilog /\ mark[eip] <= ilog
        BY <2>1, <4>1 DEF MarksInv
      <4> QED
        BY <1>t, <2>1, <4>2 DEF Known, Logged
    <3>2. origin[j] = <<fn, Land[eip], 1>>
      BY <2>1, <3>1 DEF MarksInv
    <3>3. Links(prevI, j)
      BY <1>6, RejoinLinks
    <3> HIDE DEF j
    <3>4. j \in Range(log'[i].next)
      BY <1>k, <2>2, <3>3 DEF Links
    <3>5. j \in Known' /\ origin'[j] = <<origin'[i][1], Land'[b], 1>>
      <4>1. j \in Known' /\ origin'[j] = origin[j]
        BY <3>1, KnownKept
      <4> QED
        BY <1>a, <1>c, <1>f, <2>2, <3>2, <4>1
    <3>6. PICK k : k = j
      OBVIOUS
    <3>7. Drawn(i, b)'
      BY <3>4, <3>5, <3>6 DEF Drawn, Edge
    <3> QED
      BY <3>7 DEF Served
  <2>3. CASE ~(prevI = i /\ Land[eip] = Land[b])
    BY <1>b, <1>w, <2>1, <2>3 DEF Waiting
  <2> QED
    BY <2>2, <2>3
<1>7. CASE Decode
  <2>1. UNCHANGED <<fn, used, slots, n, prevI>> /\ pc = "fetch" /\ eip \in Offset
    BY <1>7, <1>t, SizesAssumption DEF Decode, InMemory, CanFetch, Offset
  <2>2. CASE prevI = i /\ Land[eip] = Land[b]
    <3>1. CASE code[eip].kind = "bad"
      <4>1. pc' = "failed"
        BY <1>7, <3>1 DEF Decode
      <4> QED
        BY <1>a, <1>f, <2>1, <4>1 DEF Served
    <3>2. CASE code[eip].kind = "nop"
      <4>1. eip' = eip + code[eip].len /\ pc' = "fetch"
        BY <1>7, <3>2 DEF Decode, Rtl
      <4>2. Land[eip'] = Land[eip]
        BY <1>t, <2>1, <3>2, <4>1, LandIs
      <4> QED
        BY <1>a, <1>c, <1>f, <2>1, <2>2, <4>1, <4>2 DEF Served, Waiting
    <3>3. CASE code[eip].kind \notin {"bad", "nop"}
      <4>1. pc' = "rtl" /\ cur' = eip /\ Position' = 0
        BY <1>7, <1>c, <3>3, DecodePosition
      <4>2. Land[eip] = eip
        BY <1>t, <2>1, <3>3, LandIs
      <4> QED
        BY <1>a, <1>c, <1>f, <2>1, <2>2, <4>1, <4>2 DEF Served, Waiting
    <3> QED
      BY <3>1, <3>2, <3>3
  <2>3. CASE ~(prevI = i /\ Land[eip] = Land[b])
    BY <1>b, <1>w, <2>1, <2>3 DEF Waiting
  <2> QED
    BY <2>2, <2>3
<1>8. CASE Execute
  <2>1. UNCHANGED <<fn, used, slots, n, cur, ilog>> /\ pc = "rtl" /\ pc' = "queue"
    BY <1>8 DEF Execute
  <2>2. CASE Position = 0 /\ prevI = i /\ cur = Land[b]
    <3>1. origin'[ilog] = <<fn, cur, 1>>
      BY <1>8, <2>2, AtPositionNext
    <3>2. ilog \in Known' /\ ilog \in Range(log'[i].next)
      BY <1>8, <1>k, <1>t, <2>1, <2>2, ExecuteLinks DEF Known, Links
    <3>3. PICK j : j = ilog
      OBVIOUS
    <3>4. origin'[j] = <<origin'[i][1], Land'[b], 1>>
      BY <1>a, <1>c, <1>f, <2>2, <3>1, <3>3
    <3>5. Drawn(i, b)'
      BY <3>2, <3>3, <3>4 DEF Drawn, Edge
    <3> QED
      BY <3>5 DEF Served
  <2>3. CASE ~(Position = 0 /\ prevI = i /\ cur = Land[b])
    BY <1>b, <1>w, <2>1, <2>3 DEF Waiting
  <2> QED
    BY <2>2, <2>3
<1>9. CASE Queue
  <2>1. /\ UNCHANGED <<fn, pc, n, cur, eip, ilog>> /\ pc = "queue" /\ pend # <<>> /\ pend' = Tail(pend)
        /\ pend \in Seq(Nat) /\ Claim(Head(pend), ilog) /\ Free # {}
    BY <1>9, ReachTypes DEF Queue
  <2>2. Range(pend) = {Head(pend)} \cup Range(pend')
    BY <2>1, SeqRanges
  <2>3. Ahead \subseteq {Head(pend)} \cup Ahead'
    BY <1>c, <2>1, <2>2 DEF Ahead
  <2>4. PICK f \in Free : /\ used' = used \cup {f}
                          /\ slots' = [slots EXCEPT ![f] = [eip |-> Head(pend), prev |-> ilog]]
    BY <2>1 DEF Claim
  <2>5. f \in Slot /\ f \notin used /\ n \in used /\ slots'[f].eip = Head(pend) /\ slots'[f].prev = ilog
    BY <1>t, <2>1, <2>4 DEF Free, ReachInv, ScanInv
  <2>6. CASE i = ilog /\ b \in Ahead'
    BY <1>a, <1>f, <2>1, <2>6 DEF Served, Waiting
  <2>7. CASE i = ilog /\ b = Head(pend)
    <3>1. Idle(f)' /\ Land'[slots'[f].eip] = Land'[b]
      BY <2>1, <2>4, <2>5, <2>7 DEF Idle
    <3>2. Waiting(i, b)'
      BY <2>5, <2>7, <3>1 DEF Waiting
    <3> QED
      BY <1>a, <1>f, <2>1, <3>2 DEF Served
  <2>8. CASE \E m \in Slot : Idle(m) /\ slots[m].prev = i /\ Land[slots[m].eip] = Land[b]
    <3>1. PICK m \in Slot : Idle(m) /\ slots[m].prev = i /\ Land[slots[m].eip] = Land[b]
      BY <2>8
    <3>2. slots'[m] = slots[m]
      BY <1>t, <2>4, <2>5, <3>1 DEF Idle
    <3>3. Idle(m)'
      BY <2>1, <2>4, <3>1 DEF Idle
    <3> QED
      BY <1>i, <2>1, <3>1, <3>2, <3>3
  <2> QED
    BY <1>w, <2>1, <2>3, <2>6, <2>7, <2>8 DEF Waiting
<1>10. CASE Advance
  <2>1. /\ UNCHANGED <<fn, used, slots, n, cur, eip>> /\ pc = "queue" /\ prevI' = ilog
        /\ pc' \in {"return", "fetch", "rtl"}
    BY <1>10 DEF Advance
  <2>2. CASE i = ilog /\ b \in Ahead
    <3>1. b \in Ahead'
      BY <1>10, <2>2, AdvanceKeeps
    <3>2. CASE pc' = "fetch"
      <4>1. b = eip'
        BY <3>1, <3>2 DEF Ahead
      <4> QED
        BY <1>a, <1>f, <2>1, <2>2, <3>2, <4>1 DEF Served, Waiting
    <3>3. CASE pc' = "rtl"
      <4>1. code[cur].kind = "ret" /\ cur' = cur
        BY <1>10, <3>3, NextPosition
      <4>2. Ahead' = {}
        BY <1>c, <3>3, <4>1 DEF Ahead, Succ, Flow
      <4> QED
        BY <3>1, <4>2
    <3>4. CASE pc' = "return"
      BY <3>1, <3>4 DEF Ahead
    <3> QED
      BY <2>1, <3>2, <3>3, <3>4
  <2>3. CASE ~(i = ilog /\ b \in Ahead)
    BY <1>b, <1>w, <2>1, <2>3 DEF Waiting
  <2> QED
    BY <2>2, <2>3
<1>11. CASE UNCHANGED vars
  <2>1. UNCHANGED <<fn, used, slots, n, pc, cur, eip, origin, prevI, todo, ilog, pend, code>>
    BY <1>11 DEF vars
  <2>2. Position' = Position /\ Ahead' = Ahead /\ \A m : Idle(m)' = Idle(m)
    BY <2>1 DEF Position, Ahead, Succ, Flow, Idle
  <2> QED
    BY <1>c, <1>f, <1>w, <2>1, <2>2 DEF Served, Waiting
<1> QED
  BY <1>2, <1>3, <1>4, <1>5, <1>6, <1>7, <1>8, <1>9, <1>10, <1>11 DEF Next, Step, Stopped

\* Once a function is explored every transfer of control out of its code has its
\* edge, through whichever slot or pass it was followed, if nothing was lost, no
\* JMP goes to offset 0, and tables and NOPs are as in the theorem before.
THEOREM Complete ==
  Spec /\ NoJumpToZero /\ []TablesFound /\ []NopsFirst => []EdgesComplete
<1>1. NoJumpToZero /\ Init => NoJumpToZero /\ CompleteInv
  BY CompleteInit
<1>2. /\ AllInv /\ AllInv' /\ NoJumpToZero /\ TablesFound /\ CompleteInv /\ [Next]_vars
      => NoJumpToZero' /\ CompleteInv'
  <2>1. [Next]_vars /\ NoJumpToZero => NoJumpToZero'
    BY CodeFixed DEF NoJumpToZero
  <2> QED
    BY <2>1, CompleteStep DEF AllInv
<1>3. AllInv /\ CompleteInv => EdgesComplete
  <2> SUFFICES ASSUME AllInv, CompleteInv, ~lost, NEW i \in Logged, Explored(i), AtEnd(i),
                      NEW b \in Flow(origin[i][2])
               PROVE  \E j \in Logged : Edge(i, j) /\ Follows(i, j) /\ origin[j][2] = Land[b]
    BY DEF EdgesComplete, AtEnd
  <2>1. i \in Known /\ ilog \in Nat
    <3>1. ilog \in Nat
      BY OnceTypes DEF AllInv
    <3> QED
      BY <3>1 DEF Known, Logged
  <2>2. Served(i, b)
    BY <2>1 DEF CompleteInv, Owing
  <2>3. origin[i][1] # fn \/ pc = "done"
    <3>1. fn \in Nat
      BY OnceTypes DEF AllInv
    <3> QED
      BY <3>1 DEF Explored
  <2>4. Drawn(i, b)
    <3>1. CASE origin[i][1] # fn
      BY <2>2, <3>1 DEF Served
    <3>2. CASE pc = "done"
      <4>1. used = {}
        BY <3>2 DEF AllInv, ReachInv, ScanInv
      <4> QED
        BY <2>2, <3>2, <4>1 DEF Served, Waiting, Idle
    <3> QED
      BY <2>3, <3>1, <3>2
  <2>5. PICK j \in Known : Edge(i, j) /\ origin[j] = <<origin[i][1], Land[b], 1>>
    BY <2>4 DEF Drawn
  <2>6. j \in Logged
    <3>1. pc = "queue" => origin[ilog][1] = fn
      BY DEF AllInv, OnceInv, AtPosition
    <3> QED
      BY <2>1, <2>3, <2>5, <3>1 DEF Known, Logged
  <2>7. Follows(i, j) /\ origin[j][2] = Land[b]
    BY <2>5 DEF Follows, AtEnd
  <2> QED
    BY <2>5, <2>6, <2>7
<1> QED
  BY <1>1, <1>2, <1>3, AllInvariant, PTL DEF Spec
-----------------------------------------------------------------------------
(* Conditions on the code alone *)

\* There are no indirect jumps.
NoSwitch == \A a \in Offset : code[a].kind # "switch"

\* S holds the entry of a function and what control can reach from there without
\* passing the NOP at a.
Around(a, S) == /\ fn > 0 /\ entries[fn] \in S
                /\ \A c \in (S \cap Offset) \ {a} : Flow(c) \subseteq S

\* Control gets to what follows a NOP through the NOP alone: the NOP dominates
\* it in every function that reaches the NOP.
NopsLead ==
  \A a \in Offset : code[a].kind = "nop" =>
    \A f \in 1 .. Len(entries) : \E S :
      /\ entries[f] \in S /\ ~(a \in S /\ a + code[a].len \in S)
      /\ \A c \in (S \cap Offset) \ {a} : Flow(c) \subseteq S

StaticInv == NoSwitch /\ NopsLead

\* Until the NOP at a is decoded nothing is found but what lies around it.
AroundInv == \A a, S : Around(a, S) /\ a \notin seen => seen \cup Open \subseteq S

StartedInv == pc \in {"scan", "fetch", "rtl", "queue", "return"} => fn > 0

LEMMA StaticStep == StaticInv /\ [Next]_vars => StaticInv'
<1> SUFFICES ASSUME StaticInv, [Next]_vars PROVE StaticInv'
  OBVIOUS
<1>1. code' = code /\ entries' = entries
  BY CodeFixed
<1> QED
  BY <1>1 DEF StaticInv, NoSwitch, NopsLead, Flow

LEMMA NoSwitchFound == TypeInv /\ ReachInv /\ NoSwitch => TablesFound
<1> SUFFICES ASSUME TypeInv, ReachInv, NoSwitch, pc = "rtl" PROVE Head(todo).op # "JMPT"
  BY DEF TablesFound
<1>r. /\ code[cur].kind \notin {"bad", "nop"}
      /\ IF code[cur].kind = "ret" THEN \E k \in 1 .. 4 : todo = RetFrom(k)
                                   ELSE todo = Rtl(code[cur])
  BY DEF ReachInv, RtlInv
<1>1. CASE code[cur].kind = "ret"
  BY <1>r, <1>1, RetSuffix
<1>2. CASE code[cur].kind # "ret"
  <2>1. code[cur].kind # "switch"
    BY ReachTypes DEF NoSwitch
  <2>2. PICK r : Rtl(code[cur]) = <<r>>
                 /\ r.op = CASE code[cur].kind = "base" -> "ADD" [] code[cur].kind = "jmp" -> "JMP"
                             [] code[cur].kind = "jcc" -> "IF" [] code[cur].kind = "switch" -> "JMPT"
                             [] code[cur].kind = "stray" -> "STRAY" [] code[cur].kind = "refused" -> "REFUSED"
                             [] OTHER -> "OP"
    BY <1>r, <1>2, RtlOne
  <2> QED
    BY <1>r, <1>2, <2>1, <2>2
<1> QED
  BY <1>1, <1>2

\* Only Decode finds offsets, and only the ways out of what it decodes.
LEMMA FoundBy ==
  ASSUME TypeInv, TypeInv', OnceInv, ReachInv, TablesFound, [Next]_vars, ~StartFunction
  PROVE  /\ fn' = fn
         /\ \/ seen' = seen /\ Open' \subseteq Open
            \/ /\ eip \in Open \cap Offset /\ seen' = seen \cup {eip}
               /\ Open' \subseteq Open \cup Flow(eip)
<1>t. /\ used \subseteq Slot /\ slots \in [Slot -> [eip : Nat, prev : Index]]
      /\ eip \in Nat /\ pend \in Seq(Nat)
  BY ReachTypes
<1>s. \A a : Succ(a) \subseteq Flow(a)
  BY DEF Succ, Flow
<1>1. CASE TakeSlot
  <2>1. PICK m \in used : n' = m
    BY <1>1 DEF TakeSlot, IsLeast, UsedFrom
  <2>2. /\ eip' = slots[m].eip /\ pc = "scan" /\ pc' = "fetch" /\ UNCHANGED <<used, slots, fn, seen>>
    BY <1>1, <2>1 DEF TakeSlot, history
  <2> QED
    BY <2>1, <2>2 DEF Open, Queued, Ahead
<1>2. CASE \/ AllExplored \/ RepeatPass \/ FinishFunction \/ Rejoin
           \/ OverRan \/ MarkOverrun \/ BadMark \/ LogOverrun \/ Refused \/ NoTable
  <2>1. /\ UNCHANGED <<used, slots, fn, seen>>
        /\ pc' \in {"main", "scan", "done", "return", "failed", "undefined"}
    BY <1>2 DEF AllExplored, RepeatPass, FinishFunction, Rejoin, OverRan, MarkOverrun, BadMark,
                LogOverrun, Refused, NoTable, Stop, history
  <2>2. Queued' = Queued /\ Ahead' = {}
    BY <2>1 DEF Queued, Ahead
  <2> QED
    BY <2>1, <2>2 DEF Open
<1>3. CASE Return
  <2>1. UNCHANGED <<fn, seen>>
    BY <1>3 DEF Return, history
  <2> QED
    BY <1>3, <2>1, ReturnDrops
<1>4. CASE Decode
  <2>1. /\ pc = "fetch" /\ eip \in Offset /\ seen' = seen \cup {eip} /\ UNCHANGED <<used, slots, fn>>
    BY <1>4, <1>t, SizesAssumption DEF Decode, InMemory, CanFetch, Offset
  <2>2. Queued' = Queued /\ Ahead = {eip}
    BY <2>1 DEF Queued, Ahead
  <2>3. Ahead' \subseteq Flow(eip)
    <3>1. CASE pc' = "failed"
      BY <3>1 DEF Ahead
    <3>2. CASE pc' # "failed"
      BY <1>4, <1>s, <3>2, DecodeOpens
    <3> QED
      BY <3>1, <3>2
  <2> QED
    BY <2>1, <2>2, <2>3 DEF Open
<1>5. CASE Execute
  <2>1. UNCHANGED <<used, slots, fn, seen>>
    BY <1>5 DEF Execute
  <2> QED
    BY <1>5, <2>1, ExecuteKeeps DEF Open, Queued
<1>6. CASE Queue
  <2>q. /\ pc = "queue" /\ pend # <<>> /\ pend' = Tail(pend) /\ UNCHANGED <<pc, code, cur, eip, fn, seen>>
        /\ Claim(Head(pend), ilog) /\ lost' = (lost \/ Free = {})
    BY <1>6 DEF Queue, program
  <2>1. CASE ~lost'
    BY <1>6, <2>q, <2>1, QueueKeeps
  <2>2. CASE Free = {}
    <3>1. Queued' = Queued
      BY <2>q, <2>2 DEF Claim, Queued
    <3>2. Range(pend) = {Head(pend)} \cup Range(pend')
      BY <1>t, <2>q, SeqRanges
    <3>3. Ahead' \subseteq Ahead
      BY <2>q, <3>2 DEF Ahead
    <3> QED
      BY <2>q, <3>1, <3>3 DEF Open
  <2>3. CASE lost /\ Free # {}
    <3>1. PICK m \in Free : /\ used' = used \cup {m}
                            /\ slots' = [slots EXCEPT ![m] = [eip |-> Head(pend), prev |-> ilog]]
      BY <2>q, <2>3 DEF Claim
    <3>2. \A k \in used' : slots'[k].eip = IF k = m THEN Head(pend) ELSE slots[k].eip
      BY <1>t, <3>1 DEF Free
    <3>3. Queued' = Queued \cup {Head(pend)}
      BY <3>1, <3>2 DEF Queued, Free
    <3>4. Range(pend) = {Head(pend)} \cup Range(pend')
      BY <1>t, <2>q, SeqRanges
    <3> DEFINE followed == IF eip = 0 \/ code[cur].kind \in {"ret", "switch"} THEN {} ELSE {eip}
    <3>5. Ahead = Range(pend) \cup followed /\ Ahead' = Range(pend') \cup followed
      BY <2>q DEF Ahead
    <3> QED
      BY <2>q, <3>3, <3>4, <3>5 DEF Open
  <2> QED
    BY <2>q, <2>1, <2>2, <2>3
<1>7. CASE Advance
  <2>1. UNCHANGED <<used, slots, fn, seen>>
    BY <1>7 DEF Advance, history
  <2> QED
    BY <1>7, <2>1, AdvanceKeeps DEF Open, Queued
<1>8. CASE UNCHANGED vars
  <2>1. UNCHANGED <<used, slots, fn, seen, pc, eip, cur, pend, code>>
    BY <1>8 DEF vars
  <2>2. Succ(cur)' = Succ(cur)
    BY <2>1, SuccFixed
  <2>3. Open' = Open
    BY <2>1, <2>2 DEF Open, Queued, Ahead
  <2> QED
    BY <2>1, <2>3
<1> QED
  BY <1>1, <1>2, <1>3, <1>4, <1>5, <1>6, <1>7, <1>8 DEF Next, Step, Stopped

LEMMA StartedInit == Init => StartedInv
BY DEF Init, StartedInv

LEMMA StartedStep == TypeInv /\ StartedInv /\ [Next]_vars => StartedInv'
<1> SUFFICES ASSUME TypeInv, StartedInv, [Next]_vars PROVE StartedInv'
  OBVIOUS
<1>1. CASE StartFunction
  BY <1>1, ReachTypes DEF StartFunction, StartedInv
<1>2. CASE ~StartFunction
  <2>1. fn' = fn
    BY <1>2 DEF Next, Step, Stopped, AllExplored, TakeSlot, RepeatPass, FinishFunction, Return, OverRan,
                MarkOverrun, BadMark, Rejoin, Decode, LogOverrun, Refused, NoTable, Execute, Queue, Advance, Stop, vars
  <2>2. CASE pc \in {"scan", "fetch", "rtl", "queue", "return"}
    BY <2>1, <2>2 DEF StartedInv
  <2>3. CASE pc \notin {"scan", "fetch", "rtl", "queue", "return"}
    <3>1. pc' = pc \/ pc' = "done"
      BY <1>2, <2>3 DEF Next, Step, Stopped, AllExplored, TakeSlot, RepeatPass, FinishFunction, Return, OverRan,
                MarkOverrun, BadMark, Rejoin, Decode, LogOverrun, Refused, NoTable, Execute, Queue, Advance,
                InMemory, CanFetch, vars
    <3> QED
      BY <2>3, <3>1 DEF StartedInv
  <2> QED
    BY <2>2, <2>3
<1> QED
  BY <1>1, <1>2

LEMMA AroundInit == Init => AroundInv
BY DEF Init, AroundInv, Around

LEMMA AroundStep ==
  /\ TypeInv /\ TypeInv' /\ OnceInv /\ ReachInv /\ TablesFound /\ AroundInv /\ [Next]_vars
  => AroundInv'
<1> SUFFICES ASSUME TypeInv, TypeInv', OnceInv, ReachInv, TablesFound, AroundInv, [Next]_vars
             PROVE  AroundInv'
  OBVIOUS
<1> SUFFICES ASSUME NEW a, NEW S, Around(a, S)', a \notin seen'
             PROVE  (seen \cup Open)' \subseteq S
  BY DEF AroundInv
<1>c. code' = code /\ entries' = entries
  BY CodeFixed
<1>a. /\ fn' > 0 /\ entries[fn'] \in S
      /\ \A c \in (S \cap Offset) \ {a} : Flow(c) \subseteq S
  BY <1>c DEF Around, Flow
<1>1. CASE StartFunction
  <2>1. /\ used = {} /\ used' = {0} /\ slots'[0].eip = entries[fn'] /\ Ahead' = {} /\ seen' = {}
    BY <1>1, ReachTypes DEF StartFunction, ReachInv, ScanInv, Ahead
  <2>2. Open' = {entries[fn']}
    BY <2>1 DEF Open, Queued
  <2> QED
    BY <1>a, <2>1, <2>2
<1>2. CASE ~StartFunction
  <2>1. /\ fn' = fn
        /\ \/ seen' = seen /\ Open' \subseteq Open
           \/ /\ eip \in Open \cap Offset /\ seen' = seen \cup {eip}
              /\ Open' \subseteq Open \cup Flow(eip)
    BY <1>2, FoundBy
  <2>2. Around(a, S)
    BY <1>a, <2>1 DEF Around
  <2>3. a \notin seen
    BY <2>1
  <2>4. seen \cup Open \subseteq S
    BY <2>2, <2>3 DEF AroundInv
  <2>5. CASE seen' = seen /\ Open' \subseteq Open
    BY <2>4, <2>5
  <2>6. CASE /\ eip \in Open \cap Offset /\ seen' = seen \cup {eip}
             /\ Open' \subseteq Open \cup Flow(eip)
    <3>1. eip \in (S \cap Offset) \ {a}
      BY <2>4, <2>6
    <3>2. Flow(eip) \subseteq S
      BY <1>a, <3>1
    <3> QED
      BY <2>4, <2>6, <3>2
  <2> QED
    BY <2>1, <2>5, <2>6
<1> QED
  BY <1>1, <1>2

LEMMA NopsLeadFirst ==
  TypeInv /\ OnceInv /\ ReachInv /\ StartedInv /\ AroundInv /\ NopsLead => NopsFirst
<1> SUFFICES ASSUME TypeInv, OnceInv, ReachInv, StartedInv, AroundInv, NopsLead,
                    InMemory, mark[eip] = 0, code[eip].kind = "nop",
                    eip + code[eip].len \in seen
             PROVE  FALSE
  BY DEF NopsFirst
<1>t. /\ pc = "fetch" /\ eip \in Offset /\ fn \in 0 .. Len(entries)
  BY ReachTypes, SizesAssumption DEF InMemory, CanFetch, Offset
<1>1. fn > 0
  BY <1>t DEF StartedInv
<1>2. eip \notin seen
  BY DEF OnceInv, SeenMarked
<1>3. fn \in 1 .. Len(entries)
  BY <1>t, <1>1, ReachTypes
<1>4. PICK S : /\ entries[fn] \in S /\ ~(eip \in S /\ eip + code[eip].len \in S)
               /\ \A c \in (S \cap Offset) \ {eip} : Flow(c) \subseteq S
  BY <1>t, <1>3 DEF NopsLead
<1>5. Around(eip, S)
  BY <1>1, <1>4 DEF Around
<1>6. seen \cup Open \subseteq S
  BY <1>2, <1>5 DEF AroundInv
<1>7. eip \in Open
  BY <1>t DEF Open, Ahead
<1> QED
  BY <1>4, <1>6, <1>7

\* For code without indirect jumps whose NOPs lead to what follows them, and whose
\* jumps do not go to offset 0, the log is the control flow graph of the code: every
\* edge is a transfer of control, none is missing once a function is explored, and
\* the slot table needs no more than the ways out of the branches.  The code alone
\* decides: whatever order its offsets are found in, memory_used is asked in time.
THEOREM LogIsGraph ==
  Spec /\ NoSwitch /\ NopsLead /\ NoJumpToZero
    => /\ [](EdgesReal /\ EdgesComplete /\ SlotsSuffice)
       /\ ImplementsWorklist
<1>1. Spec /\ StaticInv => []StaticInv
  BY StaticStep, PTL DEF Spec
<1>2. Spec /\ StaticInv => []TablesFound
  BY <1>1, NoSwitchFound, ReachInvariant, PTL DEF StaticInv
<1>3. Spec /\ StaticInv => []AroundInv
  <2>1. TypeInv /\ OnceInv /\ ReachInv /\ TablesFound /\ AroundInv /\ [Next]_vars => AroundInv'
    BY TypeStep, AroundStep
  <2> QED
    BY <1>2, <2>1, AroundInit, ReachInvariant, PTL DEF Spec
<1>4. Spec /\ StaticInv => []NopsFirst
  <2>1. StaticInv => NopsLead
    BY DEF StaticInv
  <2>2. Spec => []StartedInv
    BY StartedInit, StartedStep, ReachInvariant, PTL DEF Spec
  <2> QED
    BY <1>1, <1>3, <2>1, <2>2, NopsLeadFirst, ReachInvariant, PTL
<1> QED
  BY <1>2, <1>4, Edges, Complete, SlotsBounded, Implements, PTL DEF StaticInv

=============================================================================
