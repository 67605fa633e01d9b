---------------------------- MODULE ExploreProofs ---------------------------
(***************************************************************************)
(* The exploration keeps to its tables and logs a graph whose edge lists   *)
(* agree, for every program and every table size; and it decodes what      *)
(* control can reach.                                                      *)
(***************************************************************************)
EXTENDS ExploreProps, FiniteSetTheorems, SequenceTheorems, TLAPS

\* Which part of the state each point of the program relies on.
PcOK ==
  /\ pc \in {"fetch", "rtl", "queue", "return"} => n \in Slot
  /\ pc \in {"rtl", "queue"} => todo # <<>>
  /\ pc = "queue" => ilog \in Index

TypeInv == TypeOK /\ PcOK

-----------------------------------------------------------------------------
\* The base that search_for_jump_table_base returns is an entry of the log.
LEMMA TableBaseIn ==
  ASSUME TypeOK, TableBases # {}
  PROVE  Table \in Index
<1>1. ilog \in Nat
  BY DEF TypeOK, BlockOK
<1>2. TableBases \subseteq Index /\ TableBases \subseteq {ilog - 3, ilog - 2, ilog - 1}
  BY <1>1 DEF TableBases, Index
<1>3. \E i \in TableBases : \A k \in TableBases : k <= i
  <2> DEFINE T == TableBases
  <2>1. CASE ilog - 1 \in T
    BY <2>1, <1>1, <1>2
  <2>2. CASE ilog - 1 \notin T /\ ilog - 2 \in T
    BY <2>2, <1>1, <1>2
  <2>3. CASE ilog - 1 \notin T /\ ilog - 2 \notin T
    <3>1. T = {ilog - 3}
      BY <2>3, <1>2
    <3> QED
      BY <3>1, <1>1
  <2> QED
    BY <2>1, <2>2, <2>3
<1> QED
  BY <1>2, <1>3 DEF Table

\* A machine instruction is converted to well-formed RTL.
LEMMA RtlType == ASSUME TypeOK, NEW a \in Offset PROVE Rtl(code[a]) \in Seq(RtlInst)
<1>1. /\ code[a] \in Decoded
      /\ code[a].kind \in {"jmp", "jcc"} => Len(code[a].to) = 1
  BY DEF TypeOK, CodeOK
<1>2. /\ Plain("LOAD") \in RtlInst /\ Plain("ADD") \in RtlInst /\ Plain("NOP") \in RtlInst
      /\ Plain("MOV") \in RtlInst /\ Plain("OP") \in RtlInst /\ Plain("REFUSED") \in RtlInst /\ Plain("JMPT") \in RtlInst
  BY DEF Plain, RtlInst, Op
<1>3. CASE code[a].kind = "ret"
  BY <1>2, <1>3 DEF Rtl
<1>4. CASE code[a].kind \in {"nop", "switch", "bad", "op", "refused"}
  BY <1>2, <1>4 DEF Rtl
<1>5. CASE code[a].kind \in {"base", "stray", "jmp", "jcc"}
  <2>1. /\ [op |-> "ADD", to |-> code[a].to] \in RtlInst /\ [op |-> "STRAY", to |-> code[a].to] \in RtlInst
        /\ code[a].kind = "jmp" => [op |-> "JMP", to |-> code[a].to] \in RtlInst
        /\ code[a].kind = "jcc" => [op |-> "IF", to |-> code[a].to] \in RtlInst
    BY <1>1 DEF Decoded, RtlInst, Op
  <2> QED
    BY <1>5, <2>1 DEF Rtl
<1> QED
  BY <1>1, <1>3, <1>4, <1>5 DEF Decoded, Kind

-----------------------------------------------------------------------------
(* Types and bounds *)

LEMMA TypeInit == Init => TypeInv
<1> SUFFICES ASSUME Init PROVE TypeInv
  OBVIOUS
<1> USE SizesAssumption DEF Init
<1>1. PICK p \in Programs : code = p.code /\ entries = p.entries
  OBVIOUS
<1>2. CodeOK /\ Len(entries) \in Nat
  <2>1. p.code \in [Offset -> Decoded] /\ p.entries \in Seq(Offset)
    BY ProgramsAssumption
  <2> QED
    BY <1>1, <2>1, ProgramsAssumption DEF CodeOK
<1>3. MainOK
  BY <1>2 DEF MainOK, Slot, EmptySlot, Index
<1>4. BlockOK
  BY DEF BlockOK, Offset, Index
<1>5. LogOK
  <2>1. EmptyEntry \in Entry
    BY DEF EmptyEntry, Entry, Op
  <2> QED
    BY <2>1 DEF LogOK
<1>6. HistoryOK
  <2>1. <<0, 0, 0>> \in Nat \X Nat \X Int
    OBVIOUS
  <2> QED
    BY <2>1 DEF HistoryOK
<1>7. PcOK
  BY DEF PcOK
<1>8. FlagsOK
  BY DEF FlagsOK
<1> QED
  BY <1>2, <1>3, <1>4, <1>5, <1>6, <1>7, <1>8 DEF TypeInv, TypeOK

LEMMA TypeStep == TypeInv /\ [Next]_vars => TypeInv'
<1> SUFFICES ASSUME TypeInv, [Next]_vars PROVE TypeInv'
  OBVIOUS
<1> USE SizesAssumption
<1>t. CodeOK /\ MainOK /\ BlockOK /\ LogOK /\ HistoryOK /\ FlagsOK /\ PcOK /\ TypeOK
  BY DEF TypeInv, TypeOK
<1>c. /\ code \in [Offset -> Decoded] /\ entries \in Seq(Offset) /\ Len(entries) \in Nat
      /\ \A a \in Offset : code[a].kind \in {"jmp", "jcc"} => Len(code[a].to) = 1
  BY <1>t DEF CodeOK
<1>p. CodeOK' /\ Len(entries') = Len(entries)
  <2>1. UNCHANGED program
    BY DEF Next, Step, Stopped, vars, program, StartFunction, AllExplored, TakeSlot, RepeatPass,
           FinishFunction, Return, OverRan, MarkOverrun, BadMark, Rejoin, Decode, LogOverrun, Refused, NoTable,
           Execute, Queue, Advance, Stop
  <2> QED
    BY <1>t, <2>1 DEF program, CodeOK
\* What a part of the type invariant speaks of unchanged, the part is kept.
<1>m. ASSUME UNCHANGED <<fn, used, slots, n>>,
             pc' \in {"main", "scan", "fetch", "rtl", "queue", "return", "done", "failed", "undefined"}
      PROVE  MainOK'
  BY <1>t, <1>p, <1>m DEF MainOK
<1>b. ASSUME UNCHANGED <<eip, cur, todo, pend, prevI, ilog>> PROVE BlockOK'
  BY <1>t, <1>b DEF BlockOK
<1>l. ASSUME UNCHANGED <<log, mark>> PROVE LogOK'
  BY <1>t, <1>l DEF LogOK
<1>h. ASSUME UNCHANGED <<origin, seen>> PROVE HistoryOK'
  BY <1>t, <1>h DEF HistoryOK
<1>f. ASSUME UNCHANGED <<again, lost>> PROVE FlagsOK'
  BY <1>t, <1>f DEF FlagsOK
<1>d. MainOK' /\ BlockOK' /\ LogOK' /\ HistoryOK' /\ FlagsOK' /\ PcOK' => TypeInv'
  BY <1>p DEF TypeInv, TypeOK
<1>1. CASE StartFunction
  <2> USE <1>1 DEF StartFunction
  <2>1. entries[fn + 1] \in Nat /\ fn + 1 \in 0 .. Len(entries)
    BY <1>t, <1>c DEF MainOK, Offset
  <2>2. MainOK'
    <3>1. 0 \in Slot /\ 0 \in Index /\ 0 \in 0 .. SlotCount
      BY DEF Slot, Index
    <3>2. used' \subseteq Slot
      BY <1>t, <3>1 DEF MainOK
    <3>3. slots' \in [Slot -> [eip : Nat, prev : Index]]
      BY <1>t, <2>1, <3>1 DEF MainOK
    <3>4. fn' \in 0 .. Len(entries') /\ n' \in 0 .. SlotCount
      BY <1>p, <2>1, <3>1
    <3> QED
      BY <3>2, <3>3, <3>4 DEF MainOK
  <2>3. LogOK' /\ HistoryOK'
    BY <1>t DEF LogOK, HistoryOK
  <2>4. FlagsOK'
    BY <1>t DEF FlagsOK
  <2> QED
    BY <1>b, <1>d, <2>2, <2>3, <2>4 DEF PcOK
<1>2. CASE AllExplored
  BY <1>2, <1>m, <1>b, <1>l, <1>h, <1>f, <1>d DEF AllExplored, PcOK, history
<1>3. CASE TakeSlot
  <2> USE <1>3 DEF TakeSlot, UsedFrom
  <2>1. n' \in Slot /\ n' \in 0 .. SlotCount
    <3>1. n' \in Slot
      BY <1>t DEF MainOK, IsLeast
    <3> QED
      BY <3>1 DEF Slot
  <2>2. MainOK' /\ PcOK'
    BY <1>t, <1>p, <2>1 DEF MainOK, PcOK
  <2>3. BlockOK'
    BY <1>t, <2>1 DEF BlockOK, MainOK
  <2>4. FlagsOK'
    BY <1>t DEF FlagsOK, history
  <2> QED
    BY <1>l, <1>h, <1>d, <2>2, <2>3, <2>4 DEF history
<1>4. CASE RepeatPass
  <2> USE <1>4 DEF RepeatPass
  <2>1. MainOK' /\ PcOK'
    BY <1>t, <1>p DEF MainOK, PcOK
  <2>2. FlagsOK'
    BY <1>t DEF FlagsOK, history
  <2> QED
    BY <1>b, <1>l, <1>h, <1>d, <2>1, <2>2 DEF history
<1>14. CASE FinishFunction
  BY <1>14, <1>m, <1>b, <1>l, <1>h, <1>f, <1>d DEF FinishFunction, PcOK, history
<1>5. CASE Return
  <2> USE <1>5 DEF Return
  <2>1. MainOK' /\ PcOK'
    BY <1>t, <1>p DEF MainOK, PcOK, Slot
  <2> QED
    BY <1>b, <1>l, <1>h, <1>f, <1>d, <2>1 DEF history
<1>6. ASSUME NEW how \in {"failed", "undefined"}, Stop(how) PROVE TypeInv'
  BY <1>6, <1>m, <1>b, <1>l, <1>h, <1>f, <1>d DEF Stop, PcOK, history
<1>7. CASE OverRan \/ MarkOverrun \/ BadMark \/ LogOverrun \/ Refused \/ NoTable
  BY <1>6, <1>7 DEF OverRan, MarkOverrun, BadMark, LogOverrun, Refused, NoTable
<1>8. CASE Rejoin
  <2> USE <1>8 DEF Rejoin
  <2> DEFINE j == mark[eip]
  <2>1. prevI \in Index /\ j \in Index /\ log \in [Index -> Entry]
    BY <1>t DEF LogOK, BlockOK
  <2>2. \A s \in Seq(Index), k \in Index : Append(s, k) \in Seq(Index)
    BY AppendProperties
  <2>3. Joined(prevI, j) \in [Index -> Entry]
    <3> DEFINE linked == [log EXCEPT ![j].prev = Append(@, prevI)]
    <3>1. linked \in [Index -> Entry]
      BY <2>1, <2>2 DEF Entry
    <3>2. [linked EXCEPT ![prevI].next = Append(@, j)] \in [Index -> Entry]
      <4> HIDE DEF linked
      <4> QED
        BY <2>1, <2>2, <3>1 DEF Entry
    <3> QED
      BY <3>1, <3>2 DEF Joined
  <2>4. LogOK'
    BY <1>t, <2>3 DEF LogOK
  <2> QED
    BY <1>t, <1>m, <1>b, <1>h, <1>f, <1>d, <2>4 DEF PcOK, InMemory, CanFetch, history
<1>9. CASE Decode
  <2> USE <1>9 DEF Decode, InMemory, CanFetch
  <2>1. eip \in Offset /\ eip \in Nat /\ code[eip] \in Decoded
    BY <1>t, <1>c DEF BlockOK, Offset
  <2>2. Rtl(code[eip]) \in Seq(RtlInst)
    BY <1>t, <2>1, RtlType
  <2>3. LogOK'
    BY <1>t, <2>1 DEF Marked, LogOK, BlockOK
  <2>4. HistoryOK'
    BY <1>t, <2>1 DEF HistoryOK
  <2>5. BlockOK'
    BY <1>t, <2>1, <2>2 DEF BlockOK, Decoded
  <2>6. MainOK' /\ PcOK'
    BY <1>t, <1>m DEF PcOK
  <2> QED
    BY <1>f, <1>d, <2>3, <2>4, <2>5, <2>6
<1>10. CASE Execute
  <2> USE <1>10 DEF Execute
  <2> DEFINE r == Head(todo)
  <2>1. r \in RtlInst /\ ilog \in Index /\ prevI \in Index /\ eip \in Nat /\ cur \in Offset
    BY <1>t, HeadTailProperties DEF BlockOK, PcOK
  <2>2. r.op \in {"IF", "JMP"} => r.to[1] \in Nat
    BY <2>1 DEF RtlInst
  <2>3. LogOK'
    <3>1. log \in [Index -> Entry] /\ \A s \in Seq(Index), k \in Index : Append(s, k) \in Seq(Index)
      BY <1>t, AppendProperties DEF LogOK
    <3>2. [log EXCEPT ![ilog].op = r.op, ![ilog].to = r.to, ![ilog].prev = Append(@, prevI)]
            \in [Index -> Entry]
      BY ZenonT(30), <2>1, <3>1 DEF Entry, RtlInst
    <3>3. log' \in [Index -> Entry]
      BY ZenonT(30), <2>1, <3>1, <3>2 DEF Entry
    <3> QED
      BY <1>t, <3>3 DEF LogOK
  <2>4. pend' \in Seq(Nat)
    <3>1. CASE r.op = "IF"
      BY <2>1, <2>2, <3>1 DEF WaysOut
    <3>2. CASE r.op = "JMPT"
      <4>1. Table \in Index
        BY <1>t, <3>2, TableBaseIn
      <4> QED
        BY <1>t, <3>2, <4>1 DEF WaysOut, LogOK, Entry
    <3>3. CASE r.op \notin {"IF", "JMPT"}
      BY <3>3 DEF WaysOut
    <3> QED
      BY <3>1, <3>2, <3>3
  <2>5. BlockOK'
    BY <1>t, <2>1, <2>2, <2>4 DEF BlockOK
  <2>6. HistoryOK'
    <3>1. cur \in Nat /\ fn \in Nat
      BY <1>t, <1>c, <2>1 DEF MainOK, Offset
    <3>2. Len(Rtl(code[cur])) \in Nat /\ Len(todo) \in Nat
      BY <1>t, <2>1, RtlType, LenProperties DEF BlockOK
    <3>3. <<fn, cur, Len(Rtl(code[cur])) - Len(todo) + 1>> \in Nat \X Nat \X Int
      BY <3>1, <3>2
    <3> HIDE DEF r
    <3> QED
      BY <1>t, <3>3 DEF HistoryOK
  <2> QED
    BY <1>t, <1>m, <1>f, <1>d, <2>3, <2>5, <2>6 DEF PcOK
<1>11. CASE Queue
  <2> USE <1>11 DEF Queue
  <2>1. Head(pend) \in Nat /\ Tail(pend) \in Seq(Nat) /\ ilog \in Index
    BY <1>t, HeadTailProperties DEF BlockOK, PcOK
  <2>2. used' \subseteq Slot /\ slots' \in [Slot -> [eip : Nat, prev : Index]]
    BY <1>t, <2>1 DEF Claim, Free, MainOK
  <2>3. MainOK' /\ PcOK'
    BY <1>t, <1>p, <2>2 DEF MainOK, PcOK
  <2>4. BlockOK'
    BY <1>t, <2>1 DEF BlockOK
  <2>5. FlagsOK'
    BY <1>t DEF FlagsOK
  <2> QED
    BY <1>l, <1>h, <1>d, <2>3, <2>4, <2>5
<1>12. CASE Advance
  <2> USE <1>12 DEF Advance
  <2>1. Tail(todo) \in Seq(RtlInst) /\ ilog \in Index /\ prevI \in Index
    BY <1>t, HeadTailProperties DEF BlockOK, PcOK
  <2>2. LogOK'
    BY <1>t, <2>1 DEF LogOK, Entry, Op
  <2>3. BlockOK'
    BY <1>t, <2>1 DEF BlockOK, Index
  <2> QED
    BY <1>t, <1>m, <1>h, <1>f, <1>d, <2>2, <2>3 DEF PcOK, history
<1>13. CASE Stopped \/ UNCHANGED vars
  <2>1. UNCHANGED vars
    BY <1>13 DEF Stopped
  <2>2. MainOK' /\ PcOK'
    BY <1>t, <2>1 DEF vars, MainOK, PcOK
  <2> QED
    BY <1>b, <1>l, <1>h, <1>f, <1>d, <2>1, <2>2 DEF vars, history
<1> QED
  BY <1>1, <1>2, <1>3, <1>4, <1>5, <1>7, <1>8, <1>9, <1>10, <1>11, <1>12, <1>13, <1>14
     DEF Next, Step

\* Whatever the code and the sizes of the tables, main and process_block keep
\* every counter, index and list within the tables until they stop.
THEOREM TypeCorrect == Spec => []TypeOK
<1>1. Spec => []TypeInv
  BY TypeInit, TypeStep, PTL DEF Spec
<1>2. TypeInv => TypeOK
  BY DEF TypeInv
<1> QED
  BY <1>1, <1>2, PTL

-----------------------------------------------------------------------------
(* The two lists of an edge *)

\* Appending to a list adds one element to what it holds.
LEMMA RangeAppend ==
  ASSUME NEW S, NEW s \in Seq(S), NEW x \in S
  PROVE  Range(Append(s, x)) = Range(s) \cup {x}
<1> DEFINE t == Append(s, x)
<1>1. /\ Len(s) \in Nat /\ DOMAIN s = 1 .. Len(s) /\ DOMAIN t = 1 .. Len(s) + 1
      /\ \A k \in 1 .. Len(s) : t[k] = s[k]
      /\ t[Len(s) + 1] = x
  BY AppendProperties, LenProperties
<1>2. DOMAIN t = DOMAIN s \cup {Len(s) + 1}
  BY <1>1
<1> HIDE DEF t
<1>3. Range(t) = Range(s) \cup {x}
  BY <1>1, <1>2 DEF Range
<1> QED
  BY <1>3 DEF t

\* The step links entry i to entry j, in both lists.
Links(i, j) ==
  \A k \in Index :
    /\ Range(log'[k].next) = Range(log[k].next) \cup (IF k = i THEN {j} ELSE {})
    /\ Range(log'[k].prev) = Range(log[k].prev) \cup (IF k = j THEN {i} ELSE {})

LEMMA LogLists ==
  ASSUME TypeInv
  PROVE  /\ log \in [Index -> Entry] /\ prevI \in Index
         /\ \A k \in Index : log[k].next \in Seq(Index) /\ log[k].prev \in Seq(Index)
         /\ \A s \in Seq(Index), k \in Index : Append(s, k) \in Seq(Index)
<1>1. log \in [Index -> Entry] /\ prevI \in Index
  BY DEF TypeInv, TypeOK, LogOK, BlockOK
<1>2. \A k \in Index : log[k].next \in Seq(Index) /\ log[k].prev \in Seq(Index)
  BY <1>1 DEF Entry
<1> QED
  BY <1>1, <1>2, AppendProperties

\* Appending to the successors of one entry of a log.
LEMMA NextOnly ==
  ASSUME NEW O, NEW T, NEW L \in [Index -> [op : O, to : T, prev : Seq(Index), next : Seq(Index)]],
         NEW i \in Index, NEW x, log' = [L EXCEPT ![i].next = x]
  PROVE  \A k \in Index : /\ log'[k].prev = L[k].prev
                          /\ log'[k].next = IF k = i THEN x ELSE L[k].next
OBVIOUS

\* Arriving at decoded code links the predecessor to it.
LEMMA RejoinLinks == ASSUME TypeInv, Rejoin PROVE mark[eip] \in Index /\ Links(prevI, mark[eip])
<1>t. log \in [Index -> Entry] /\ prevI \in Index
  BY LogLists
<1>e. \A k \in Index : log[k].next \in Seq(Index) /\ log[k].prev \in Seq(Index)
  BY LogLists
<1>a. \A s \in Seq(Index), k \in Index : Append(s, k) \in Seq(Index)
  BY LogLists
<1> DEFINE j == mark[eip]
           linked == [log EXCEPT ![j].prev = Append(@, prevI)]
<1>1. j \in Index /\ log' = Joined(prevI, j)
  BY DEF Rejoin
<1>2. /\ Range(Append(log[j].prev, prevI)) = Range(log[j].prev) \cup {prevI}
      /\ Range(Append(log[prevI].next, j)) = Range(log[prevI].next) \cup {j}
  BY <1>t, <1>e, <1>1, RangeAppend
<1>3. \A k \in Index : /\ linked[k].next = log[k].next
                       /\ linked[k].prev = IF k = j THEN Append(log[j].prev, prevI)
                                                    ELSE log[k].prev
  BY <1>t, <1>1 DEF Entry
<1>4. CASE log[prevI].next # <<>> /\ log[prevI].next[Len(log[prevI].next)] = j
  <2>1. log' = linked
    BY <1>1, <1>4 DEF Joined
  <2>2. j \in Range(log[prevI].next)
    <3> DEFINE s == log[prevI].next
    <3>1. s \in Seq(Index) /\ s # <<>> /\ s[Len(s)] = j
      BY <1>t, <1>e, <1>4
    <3> HIDE DEF s
    <3>2. Len(s) \in DOMAIN s
      BY <3>1, LenProperties, EmptySeq
    <3>3. j \in Range(s)
      BY <3>1, <3>2 DEF Range
    <3> QED
      BY <3>3 DEF s
  <2>3. Links(prevI, j)
    <3> HIDE DEF linked
    <3> QED
      BY <1>2, <1>3, <2>1, <2>2 DEF Links
  <2> QED
    BY <1>1, <2>3
<1>5. CASE ~(log[prevI].next # <<>> /\ log[prevI].next[Len(log[prevI].next)] = j)
  <2>1. log' = [linked EXCEPT ![prevI].next = Append(@, j)]
    BY <1>1, <1>5 DEF Joined
  <2>2. linked \in [Index -> Entry]
    BY <1>t, <1>a, <1>1 DEF Entry
  <2>3. \A k \in Index :
          /\ log'[k].prev = linked[k].prev
          /\ log'[k].next = IF k = prevI THEN Append(log[prevI].next, j) ELSE log[k].next
    <3>1. log' = [linked EXCEPT ![prevI].next = Append(log[prevI].next, j)]
      BY <1>t, <1>3, <2>1
    <3> HIDE DEF linked
    <3> QED
      BY <1>t, NextOnly, <1>3, <2>2, <3>1 DEF Entry
  <2>4. Links(prevI, j)
    <3> HIDE DEF linked, j
    <3> QED
      BY <1>2, <1>3, <2>3 DEF Links
  <2> QED
    BY <1>1, <2>4
<1> QED
  BY <1>4, <1>5

\* Logging an RTL instruction links it to the one executed before it.
LEMMA ExecuteLinks == ASSUME TypeInv, Execute PROVE ilog \in Index /\ Links(prevI, ilog)
<1>t. log \in [Index -> Entry] /\ prevI \in Index
  BY LogLists
<1>e. \A k \in Index : log[k].next \in Seq(Index) /\ log[k].prev \in Seq(Index)
  BY LogLists
<1>a. \A s \in Seq(Index), k \in Index : Append(s, k) \in Seq(Index)
  BY LogLists
<1> DEFINE made == [log EXCEPT ![ilog].op = Head(todo).op, ![ilog].to = Head(todo).to,
                               ![ilog].prev = Append(@, prevI)]
<1>1. ilog \in Index /\ log' = [made EXCEPT ![prevI].next = Append(@, ilog)]
  BY DEF Execute
<1>2. /\ Range(Append(log[ilog].prev, prevI)) = Range(log[ilog].prev) \cup {prevI}
      /\ Range(Append(log[prevI].next, ilog)) = Range(log[prevI].next) \cup {ilog}
  BY <1>t, <1>e, <1>1, RangeAppend
<1>3. \A k \in Index : /\ made[k].next = log[k].next
                       /\ made[k].prev = IF k = ilog THEN Append(log[ilog].prev, prevI)
                                                     ELSE log[k].prev
  BY <1>t, <1>1 DEF Entry
<1>4. made \in [Index -> Entry]
  <2>1. Head(todo) \in RtlInst
    BY HeadTailProperties DEF TypeInv, TypeOK, BlockOK, PcOK, Execute
  <2> QED
    BY <1>t, <1>a, <1>1, <2>1 DEF Entry, RtlInst
<1>5. \A k \in Index :
        /\ log'[k].prev = made[k].prev
        /\ log'[k].next = IF k = prevI THEN Append(log[prevI].next, ilog) ELSE log[k].next
  <2>1. log' = [made EXCEPT ![prevI].next = Append(log[prevI].next, ilog)]
    BY <1>t, <1>1, <1>3
  <2> HIDE DEF made
  <2> QED
    BY SMTT(30), <1>t, NextOnly, <1>1, <1>3, <1>4, <2>1 DEF Entry
<1>6. Links(prevI, ilog)
  <2> HIDE DEF made
  <2> QED
    BY <1>2, <1>3, <1>5 DEF Links
<1> QED
  BY <1>1, <1>6

\* Nothing else touches the lists.
LEMMA OthersLinkNone ==
  ASSUME TypeInv, [Next]_vars, ~Rejoin, ~Execute
  PROVE  \A k \in Index : log'[k].next = log[k].next /\ log'[k].prev = log[k].prev
<1>1. CASE Advance
  BY <1>1, LogLists DEF Advance, Entry
<1>2. CASE ~Advance
  BY <1>2 DEF Next, Step, Stopped, vars, StartFunction, AllExplored, TakeSlot, RepeatPass,
     FinishFunction, Return, OverRan, MarkOverrun, BadMark, Decode, LogOverrun, Refused, NoTable, Queue, Stop
<1> QED
  BY <1>1, <1>2

\* A step that links i to j, in both lists, keeps the lists paired.
LEMMA LinkPaired ==
  ASSUME EdgesPaired, NEW i \in Index, NEW j \in Index, Links(i, j)
  PROVE  EdgesPaired'
  BY DEF EdgesPaired, Edge, Links

LEMMA PairedInit == Init => EdgesPaired
<1> SUFFICES ASSUME Init PROVE EdgesPaired
  OBVIOUS
<1>1. \A i \in Index : log[i].next = <<>> /\ log[i].prev = <<>>
  BY DEF Init, EmptyEntry
<1>2. Range(<<>>) = {}
  BY DEF Range
<1> QED
  BY <1>1, <1>2 DEF EdgesPaired, Edge

LEMMA PairedStep == TypeInv /\ EdgesPaired /\ [Next]_vars => EdgesPaired'
<1> SUFFICES ASSUME TypeInv, EdgesPaired, [Next]_vars PROVE EdgesPaired'
  OBVIOUS
<1>1. CASE Rejoin
  <2> DEFINE j == mark[eip]
  <2>1. j \in Index /\ prevI \in Index /\ Links(prevI, j)
    BY <1>1, RejoinLinks, LogLists
  <2> HIDE DEF j
  <2> QED
    BY <2>1, LinkPaired
<1>2. CASE Execute
  BY <1>2, ExecuteLinks, LogLists, LinkPaired
<1>3. CASE ~Rejoin /\ ~Execute
  BY <1>3, OthersLinkNone DEF EdgesPaired, Edge
<1> QED
  BY <1>1, <1>2, <1>3

\* The successor and predecessor lists of the log agree at every moment, for
\* every program, also after jumps into decoded code, whose predecessor is
\* recorded every time and whose successor only when the last one differs.
THEOREM Paired == Spec => []EdgesPaired
<1>1. Init => TypeInv /\ EdgesPaired
  BY TypeInit, PairedInit
<1>2. (TypeInv /\ EdgesPaired) /\ [Next]_vars => (TypeInv /\ EdgesPaired)'
  BY TypeStep, PairedStep
<1> QED
  BY <1>1, <1>2, PTL DEF Spec

-----------------------------------------------------------------------------
(* No instruction is decoded twice.  That two log entries of one origin are  *)
(* one is not inductive: it rests on memory_used, which is marked wherever   *)
(* the function has been decoded, and on the position the RTL loop has got   *)
(* to in the instruction it executes.                                        *)

\* What was decoded for the function is marked, whatever overlaps it.
SeenMarked == \A a \in seen : a \in DOMAIN mark /\ mark[a] # 0

\* What is logged was decoded, for this function or for one before it.
LoggedSeen ==
  \A i \in Logged : /\ origin[i][1] <= fn
                    /\ origin[i][1] = fn => origin[i][2] \in seen

\* RTL instructions of the current machine instruction that were executed.
Position == Len(Rtl(code[cur])) - Len(todo)

\* Of the current instruction nothing is logged beyond the position.
LoggedUpTo ==
  pc \in {"rtl", "queue"} =>
    /\ cur \in seen
    /\ \A i \in Logged : origin[i][1] = fn /\ origin[i][2] = cur => origin[i][3] <= Position

\* The entry being executed is the one at the position.
AtPosition == pc = "queue" => origin[ilog] = <<fn, cur, Position + 1>>

OnceInv == SeenMarked /\ LoggedSeen /\ LoggedUpTo /\ AtPosition /\ DecodedOnce

LEMMA OnceInit == Init => OnceInv
BY DEF Init, OnceInv, SeenMarked, LoggedSeen, LoggedUpTo, AtPosition, DecodedOnce, Logged

\* The types the proof needs.
LEMMA OnceTypes ==
  ASSUME TypeInv
  PROVE  /\ Logged \subseteq Index /\ ilog \in Nat /\ 0 < ilog /\ fn \in Nat
         /\ origin \in [Index -> Nat \X Nat \X Int] /\ mark \in [0 .. UsedSize - 1 -> Int]
         /\ todo \in Seq(RtlInst) /\ cur \in Offset /\ Rtl(code[cur]) \in Seq(RtlInst)
         /\ Len(Rtl(code[cur])) \in Nat /\ Len(todo) \in Nat
<1>1. /\ ilog \in 1 .. LogSize /\ LogSize \in Nat
      /\ origin \in [Index -> Nat \X Nat \X Int] /\ mark \in [0 .. UsedSize - 1 -> Int]
      /\ todo \in Seq(RtlInst) /\ cur \in Offset
  BY SizesAssumption DEF TypeInv, TypeOK, BlockOK, LogOK, HistoryOK
<1>2. Len(entries) \in Nat /\ fn \in 0 .. Len(entries)
  BY DEF TypeInv, TypeOK, CodeOK, MainOK
<1>3. Rtl(code[cur]) \in Seq(RtlInst)
  BY <1>1, RtlType DEF TypeInv
<1> QED
  BY <1>1, <1>2, <1>3, LenProperties DEF Logged, Index

LEMMA OnceStep == TypeInv /\ TypeInv' /\ OnceInv /\ [Next]_vars => OnceInv'
<1> SUFFICES ASSUME TypeInv, TypeInv', OnceInv, [Next]_vars PROVE OnceInv'
  OBVIOUS
<1>i. SeenMarked /\ LoggedSeen /\ LoggedUpTo /\ AtPosition /\ DecodedOnce
  BY DEF OnceInv
<1>t. /\ Logged \subseteq Index /\ ilog \in Nat /\ 0 < ilog /\ fn \in Nat
      /\ origin \in [Index -> Nat \X Nat \X Int] /\ mark \in [0 .. UsedSize - 1 -> Int]
      /\ todo \in Seq(RtlInst) /\ cur \in Offset /\ Rtl(code[cur]) \in Seq(RtlInst)
      /\ Len(Rtl(code[cur])) \in Nat /\ Len(todo) \in Nat
  BY OnceTypes
<1>c. code' = code
  BY DEF Next, Step, Stopped, vars, program, StartFunction, AllExplored, TakeSlot, RepeatPass,
         FinishFunction, Return, OverRan, MarkOverrun, BadMark, Rejoin, Decode, LogOverrun, Refused, NoTable,
         Execute, Queue, Advance, Stop
\* Steps that leave the log, the marks and the history alone keep what does not
\* depend on where process_block is; those that leave RTL alone keep the rest.
<1>k. ASSUME UNCHANGED <<fn, mark, ilog, origin, seen>>, pc' \notin {"rtl", "queue"}
      PROVE  OnceInv'
  BY <1>i, <1>k DEF OnceInv, SeenMarked, LoggedSeen, LoggedUpTo, AtPosition, DecodedOnce, Logged
<1>r. ASSUME UNCHANGED <<fn, mark, ilog, origin, seen, pc, cur, todo>>
      PROVE  OnceInv'
  BY <1>i, <1>r, <1>c DEF OnceInv, SeenMarked, LoggedSeen, LoggedUpTo, AtPosition, DecodedOnce,
                          Logged, Position
<1>1. CASE StartFunction
  BY <1>1, <1>i, <1>t DEF StartFunction, OnceInv, SeenMarked, LoggedSeen, LoggedUpTo, AtPosition,
                          DecodedOnce, Logged
<1>2. CASE Decode
  <2> USE <1>2 DEF Decode
  <2>1. eip \notin seen /\ eip \in DOMAIN mark
    <3>1. eip \in Nat /\ UsedSize \in Nat
      BY SizesAssumption DEF TypeInv, TypeOK, BlockOK
    <3> QED
      BY <1>i, <1>t, <3>1 DEF SeenMarked, InMemory
  <2>2. SeenMarked'
    <3>1. \A b \in DOMAIN mark : mark'[b] = 0 => mark[b] = 0 /\ b # eip
      BY <1>t, <2>1 DEF Marked, InMemory, CanFetch
    <3>2. DOMAIN mark' = DOMAIN mark
      BY DEF Marked
    <3> QED
      BY <1>i, <2>1, <3>1, <3>2 DEF SeenMarked
  <2>3. LoggedSeen' /\ DecodedOnce'
    BY <1>i DEF LoggedSeen, DecodedOnce, Logged
  <2>4. LoggedUpTo' /\ AtPosition'
    <3>1. pc' # "queue"
      OBVIOUS
    <3>2. ASSUME pc' = "rtl" PROVE LoggedUpTo'
      <4>1. cur' = eip /\ cur' \in seen'
        BY <3>2
      <4>2. \A i \in Logged' : ~(origin'[i][1] = fn' /\ origin'[i][2] = cur')
        BY <1>i, <2>1, <4>1 DEF LoggedSeen, Logged
      <4> QED
        BY <4>1, <4>2 DEF LoggedUpTo
    <3> QED
      BY <3>1, <3>2 DEF LoggedUpTo, AtPosition
  <2> QED
    BY <2>2, <2>3, <2>4 DEF OnceInv
<1>3. CASE Execute
  <2> USE <1>3 DEF Execute
  <2>1. /\ Logged' = Logged /\ ilog \in Index /\ ilog \notin Logged
        /\ UNCHANGED <<fn, seen, mark, cur, todo, ilog>> /\ Position' = Position
    BY <1>c, <1>t DEF Logged, Position
  <2>2. \A i \in Logged : origin'[i] = origin[i]
    BY <1>t, <2>1
  <2>3. origin'[ilog] = <<fn, cur, Position + 1>>
    BY <1>t, <2>1 DEF Position
  <2>4. SeenMarked' /\ LoggedSeen' /\ DecodedOnce'
    BY <1>i, <2>1, <2>2 DEF SeenMarked, LoggedSeen, DecodedOnce
  <2>5. LoggedUpTo' /\ AtPosition'
    BY <1>i, <2>1, <2>2, <2>3 DEF LoggedUpTo, AtPosition
  <2> QED
    BY <2>4, <2>5 DEF OnceInv
<1>4. CASE Advance
  <2> USE <1>4 DEF Advance
  <2>1. Logged' = Logged \cup {ilog} /\ ilog \notin Logged
    BY <1>t DEF Logged
  <2>2. /\ origin[ilog] = <<fn, cur, Position + 1>> /\ cur \in seen
        /\ \A i \in Logged : origin[i][1] = fn /\ origin[i][2] = cur => origin[i][3] <= Position
    BY <1>i DEF AtPosition, LoggedUpTo
  <2>3. Position \in Int
    BY <1>t DEF Position
  <2>4. UNCHANGED <<fn, cur, seen, mark, origin>>
    BY DEF history
  <2>5. \A i \in Logged : origin[i] # origin[ilog] /\ origin[i][3] \in Int
    BY <1>t, <2>2, <2>3
  <2>6. SeenMarked' /\ LoggedSeen' /\ DecodedOnce'
    <3>1. DecodedOnce'
      BY <1>i, <2>1, <2>4, <2>5 DEF DecodedOnce
    <3>2. SeenMarked'
      BY <1>i, <2>4 DEF SeenMarked
    <3>3. LoggedSeen'
      BY <1>i, <1>t, <2>1, <2>2, <2>4 DEF LoggedSeen
    <3> QED BY <3>1, <3>2, <3>3
  <2>7. ASSUME pc' = "rtl" PROVE LoggedUpTo'
    <3>1. todo' = Tail(todo) /\ todo # <<>>
      BY <2>7 DEF TypeInv, PcOK
    <3>2. Position' = Position + 1
      <4>1. Len(todo') = Len(todo) - 1
        BY <1>t, <3>1, HeadTailProperties
      <4>2. cur' = cur
        BY <2>4
      <4> HIDE DEF Advance
      <4> QED BY <1>c, <1>t, <4>1, <4>2 DEF Position
    <3>3. \A i \in Logged' : origin'[i][1] = fn' /\ origin'[i][2] = cur' => origin'[i][3] <= Position'
      BY <2>1, <2>2, <2>3, <2>4, <2>5, <3>2
    <3> QED
      BY <2>2, <2>4, <3>3 DEF LoggedUpTo
  <2>8. pc' # "queue"
    OBVIOUS
  <2> QED
    BY <2>6, <2>7, <2>8 DEF OnceInv, LoggedUpTo, AtPosition
<1>5. CASE Queue
  BY <1>5, <1>r DEF Queue
<1>6. CASE UNCHANGED vars
  BY <1>6, <1>r DEF vars
<1>7. CASE \/ AllExplored \/ TakeSlot \/ RepeatPass \/ FinishFunction \/ Return
  BY <1>7, <1>k DEF AllExplored, TakeSlot, RepeatPass, FinishFunction, Return, history
<1>8. CASE \/ OverRan \/ MarkOverrun \/ BadMark \/ Rejoin \/ LogOverrun \/ Refused \/ NoTable
  BY <1>8, <1>k DEF OverRan, MarkOverrun, BadMark, Rejoin, LogOverrun, Refused, NoTable, Stop, history
<1> QED
  BY <1>1, <1>2, <1>3, <1>4, <1>5, <1>6, <1>7, <1>8 DEF Next, Step, Stopped

\* No RTL instruction of a function is in the log twice, however often control
\* arrives at it and whatever overlaps it: process_block stops at a marked offset.
THEOREM Once == Spec => []DecodedOnce
<1>1. Init => TypeInv /\ OnceInv
  BY TypeInit, OnceInit
<1>2. (TypeInv /\ OnceInv) /\ [Next]_vars => (TypeInv /\ OnceInv)'
  BY TypeStep, OnceStep
<1>3. OnceInv => DecodedOnce
  BY DEF OnceInv
<1> QED
  BY <1>1, <1>2, <1>3, PTL DEF Spec

-----------------------------------------------------------------------------
(***************************************************************************)
(* The exploration decodes what control can reach: every step of main and  *)
(* process_block is a step of the worklist or changes nothing in it, as    *)
(* long as the search for a jump table finds the right one.  (It takes the *)
(* last ADD logged, which may belong to another path or another table.)    *)
(***************************************************************************)

\* The ADD found for an indirect jump, if one is, carries the table of that jump.
TablesFound ==
  pc = "rtl" /\ ilog \in Index /\ Head(todo).op = "JMPT" /\ TableBases # {}
    => WaysOut(Head(todo)) = code[cur].to

\* main: slots are in use until a pass finds none.
ScanInv ==
  /\ pc \in {"main", "done"} => used = {}
  /\ pc = "scan" /\ ~again => n = 0
  /\ pc \in {"fetch", "rtl", "queue", "return"} => again /\ n \in used

\* The offset of the slot being processed is decoded before the slot is freed.
SlotInv ==
  /\ pc = "fetch" => eip = slots[n].eip \/ slots[n].eip \in seen
  /\ pc \in {"rtl", "queue", "return"} => slots[n].eip \in seen

\* A mark that is an index of the log stands at the first byte of decoded code.
MarkInv == \A b \in DOMAIN mark : mark[b] > 0 => b \in seen

RetFrom(k) ==
  LET load == Plain("LOAD")  add == Plain("ADD")  nop == Plain("NOP")  mov == Plain("MOV") IN
  CASE k = 1 -> <<load, add, nop, mov>>
    [] k = 2 -> <<add, nop, mov>>
    [] k = 3 -> <<nop, mov>>
    [] k = 4 -> <<mov>>

\* What is left of the RTL of the instruction; only a return has more than one.
RtlInv ==
  pc \in {"rtl", "queue"} =>
    /\ code[cur].kind \notin {"bad", "nop"}
    /\ IF code[cur].kind = "ret"
       THEN \E k \in 1 .. 4 : todo = RetFrom(k)
       ELSE todo = Rtl(code[cur]) /\ (pc = "rtl" => eip = cur + code[cur].len)

\* A return ends in EIP 0 and not before.
QueueInv ==
  pc = "queue" =>
    /\ log[ilog].op = Head(todo).op
    /\ code[cur].kind = "ret" => eip = 0 \/ Tail(todo) # <<>>

ReachInv == ScanInv /\ SlotInv /\ MarkInv /\ RtlInv /\ QueueInv

Open == Queued \cup Ahead
Alive == ~lost /\ pc \notin {"failed", "undefined"}

-----------------------------------------------------------------------------
\* The RTL of the kinds that have one instruction.
LEMMA RtlOne ==
  ASSUME NEW d, d.kind \notin {"nop", "ret"}
  PROVE  \E r : Rtl(d) = <<r>> /\ r.to = (IF d.kind \in {"base", "stray", "jmp", "jcc"} THEN d.to ELSE <<>>)
                /\ r.op = CASE d.kind = "base" -> "ADD" [] d.kind = "jmp" -> "JMP"
                            [] d.kind = "jcc" -> "IF" [] d.kind = "switch" -> "JMPT"
                            [] d.kind = "stray" -> "STRAY" [] d.kind = "refused" -> "REFUSED"
                            [] OTHER -> "OP"
BY DEF Rtl, Plain

LEMMA RetSuffix ==
  ASSUME NEW k \in 1 .. 4
  PROVE  /\ RetFrom(k) # <<>> /\ Head(RetFrom(k)).to = <<>>
         /\ Head(RetFrom(k)).op = CASE k = 1 -> "LOAD" [] k = 2 -> "ADD" [] k = 3 -> "NOP" [] k = 4 -> "MOV"
         /\ k < 4 => Tail(RetFrom(k)) = RetFrom(k + 1)
         /\ k = 4 => Tail(RetFrom(k)) = <<>>
<1>1. CASE k = 1
  BY <1>1 DEF RetFrom, Plain
<1>2. CASE k = 2
  BY <1>2 DEF RetFrom, Plain
<1>3. CASE k = 3
  BY <1>3 DEF RetFrom, Plain
<1>4. CASE k = 4
  BY <1>4 DEF RetFrom, Plain
<1> QED
  BY <1>1, <1>2, <1>3, <1>4

-----------------------------------------------------------------------------
LEMMA ReachInit == Init => ReachInv
BY DEF Init, ReachInv, ScanInv, SlotInv, MarkInv, RtlInv, QueueInv

LEMMA ReachTypes ==
  ASSUME TypeInv
  PROVE  /\ used \subseteq Slot /\ slots \in [Slot -> [eip : Nat, prev : Index]] /\ 0 \in Slot
         /\ SlotCount \in Nat /\ n \in 0 .. SlotCount /\ eip \in Nat /\ cur \in Offset
         /\ ilog \in Nat /\ 0 < ilog /\ mark \in [0 .. UsedSize - 1 -> Int]
         /\ seen \subseteq Offset /\ code \in [Offset -> Decoded] /\ entries \in Seq(Offset)
         /\ fn \in 0 .. Len(entries) /\ again \in BOOLEAN /\ lost \in BOOLEAN
         /\ pend \in Seq(Nat) /\ log \in [Index -> Entry]
         /\ \A a \in Offset : code[a].kind \in {"jmp", "jcc"} => Len(code[a].to) = 1
<1>1. /\ SlotCount \in Nat /\ 0 \in Slot
  BY SizesAssumption DEF Slot
<1>2. CodeOK /\ MainOK /\ BlockOK /\ LogOK /\ HistoryOK /\ FlagsOK
  BY DEF TypeInv, TypeOK
<1>3. /\ used \subseteq Slot /\ slots \in [Slot -> [eip : Nat, prev : Index]]
      /\ n \in 0 .. SlotCount /\ fn \in 0 .. Len(entries)
  BY <1>2 DEF MainOK
<1>4. eip \in Nat /\ cur \in Offset /\ pend \in Seq(Nat) /\ ilog \in Nat /\ 0 < ilog
  BY <1>2, SizesAssumption DEF BlockOK
<1>5. mark \in [0 .. UsedSize - 1 -> Int] /\ log \in [Index -> Entry]
  BY <1>2 DEF LogOK
<1>6. seen \subseteq Offset /\ again \in BOOLEAN /\ lost \in BOOLEAN
  BY <1>2 DEF HistoryOK, FlagsOK
<1>7. /\ code \in [Offset -> Decoded] /\ entries \in Seq(Offset)
      /\ \A a \in Offset : code[a].kind \in {"jmp", "jcc"} => Len(code[a].to) = 1
  BY <1>2 DEF CodeOK
<1> QED
  BY <1>1, <1>3, <1>4, <1>5, <1>6, <1>7

LEMMA CodeFixed == [Next]_vars => UNCHANGED <<code, entries>>
BY DEF Next, Step, Stopped, vars, program, StartFunction, AllExplored, TakeSlot, RepeatPass,
       FinishFunction, Return, OverRan, MarkOverrun, BadMark, Rejoin, Decode, LogOverrun, Refused, NoTable,
       Execute, Queue, Advance, Stop

LEMMA ReachStep == TypeInv /\ TypeInv' /\ ReachInv /\ [Next]_vars => ReachInv'
<1> SUFFICES ASSUME TypeInv, TypeInv', ReachInv, [Next]_vars PROVE ReachInv'
  OBVIOUS
<1>i. ScanInv /\ SlotInv /\ MarkInv /\ RtlInv /\ QueueInv
  BY DEF ReachInv
<1>t. /\ used \subseteq Slot /\ slots \in [Slot -> [eip : Nat, prev : Index]] /\ 0 \in Slot
      /\ SlotCount \in Nat /\ n \in 0 .. SlotCount /\ eip \in Nat /\ cur \in Offset
      /\ ilog \in Nat /\ 0 < ilog /\ mark \in [0 .. UsedSize - 1 -> Int]
      /\ code \in [Offset -> Decoded] /\ again \in BOOLEAN /\ log \in [Index -> Entry]
  BY ReachTypes
<1>c. code' = code
  BY CodeFixed
\* Steps that leave the RTL and the marks alone and do not go into the RTL loop.
<1>m. ASSUME UNCHANGED <<mark, seen>> PROVE MarkInv'
  BY <1>i, <1>m DEF MarkInv
<1>o. ASSUME pc' \notin {"rtl", "queue"} PROVE RtlInv' /\ QueueInv'
  BY <1>o DEF RtlInv, QueueInv
<1>d. ScanInv' /\ SlotInv' /\ MarkInv' /\ RtlInv' /\ QueueInv' => ReachInv'
  BY <1>c DEF ReachInv
<1>1. CASE StartFunction
  <2>1. MarkInv'
    BY <1>1 DEF StartFunction, MarkInv
  <2> QED
    BY <1>1, <1>o, <1>d, <2>1 DEF StartFunction, ScanInv, SlotInv
<1>2. CASE TakeSlot
  BY <1>2, <1>i, <1>m, <1>o, <1>d DEF TakeSlot, ScanInv, SlotInv, history, IsLeast, UsedFrom
<1>3. CASE FinishFunction
  <2>1. pc = "scan" /\ ~again /\ UsedFrom(n) = {} /\ UNCHANGED <<used, mark, seen>> /\ pc' = "main"
    BY <1>3 DEF FinishFunction, history
  <2>2. n = 0
    BY <1>i, <2>1 DEF ScanInv
  <2>3. used = {}
    BY <1>t, <2>1, <2>2 DEF UsedFrom, Slot
  <2> QED
    BY <1>m, <1>o, <1>d, <2>1, <2>3 DEF ScanInv, SlotInv
<1>4. CASE Return
  BY <1>4, <1>i, <1>m, <1>o, <1>d DEF Return, ScanInv, SlotInv, history
<1>5. CASE RepeatPass
  BY <1>5, <1>i, <1>m, <1>o, <1>d DEF RepeatPass, ScanInv, SlotInv, history
<1>6. CASE AllExplored \/ OverRan \/ MarkOverrun \/ BadMark \/ LogOverrun \/ Refused \/ NoTable
  <2>1. /\ pc' \in {"done", "failed", "undefined"} /\ UNCHANGED <<mark, seen, used>>
        /\ pc' = "done" => pc = "main"
    BY <1>6 DEF AllExplored, OverRan, MarkOverrun, BadMark, LogOverrun, Refused, NoTable, Stop, history
  <2> QED
    BY <1>i, <1>m, <1>o, <1>d, <2>1 DEF ScanInv, SlotInv
<1>7. CASE Rejoin
  <2>1. /\ eip < UsedSize /\ mark[eip] # 0 /\ mark[eip] \in Index /\ pc = "fetch" /\ pc' = "return"
        /\ UNCHANGED <<used, slots, n, again, mark, seen>>
    BY <1>7 DEF Rejoin, InMemory, CanFetch, history
  <2>2. eip \in seen
    BY <1>i, <1>t, <2>1, SizesAssumption DEF MarkInv, Index
  <2> QED
    BY <1>i, <1>m, <1>o, <1>d, <2>1, <2>2 DEF ScanInv, SlotInv
<1>8. CASE Decode
  <2> USE <1>8 DEF Decode
  <2>1. eip \in Offset /\ code[eip] \in Decoded
    BY <1>t, SizesAssumption DEF InMemory, CanFetch, Offset
  <2>2. MarkInv'
    <3>1. \A b \in DOMAIN mark : mark'[b] > 0 => b = eip \/ mark[b] > 0
      BY <1>t DEF Marked
    <3>2. DOMAIN mark' = DOMAIN mark
      BY DEF Marked
    <3> QED
      BY <1>i, <3>1, <3>2 DEF MarkInv
  <2>3. ScanInv' /\ SlotInv'
    BY <1>i DEF ScanInv, SlotInv, InMemory, CanFetch
  <2>4. QueueInv'
    BY DEF QueueInv
  <2>5. ASSUME pc' = "rtl" PROVE RtlInv'
    <3>1. /\ cur' = eip /\ eip' = eip + code[eip].len /\ todo' = Rtl(code[eip]) /\ todo' # <<>>
          /\ code[eip].kind # "bad"
      BY <2>5
    <3>2. code[eip].kind \notin {"bad", "nop"}
      BY <1>i, <2>1, <3>1 DEF Rtl
    <3>3. code[eip].kind = "ret" => Rtl(code[eip]) = RetFrom(1)
      BY DEF Rtl, RetFrom
    <3> HIDE DEF Decode
    <3> QED
      BY <1>c, <3>1, <3>2, <3>3 DEF RtlInv
  <2> QED
    BY <1>d, <2>2, <2>3, <2>4, <2>5 DEF RtlInv
<1>9. CASE Execute
  <2> USE <1>9 DEF Execute
  <2>1. ScanInv' /\ SlotInv' /\ MarkInv'
    BY <1>i DEF ScanInv, SlotInv, MarkInv
  <2>2. RtlInv'
    BY <1>i, <1>c DEF RtlInv
  <2>3. QueueInv'
    <3>1. log'[ilog].op = Head(todo).op
      <4>1. ilog \in Index /\ prevI \in Index
        BY DEF TypeInv, TypeOK, BlockOK
      <4> QED
        BY <1>t, <4>1 DEF Entry
    <3>2. ASSUME code[cur].kind = "ret" PROVE eip' = 0 \/ Tail(todo) # <<>>
      <4>1. PICK k \in 1 .. 4 : todo = RetFrom(k)
        BY <1>i, <3>2 DEF RtlInv
      <4>2. CASE k = 4
        BY <4>1, <4>2, RetSuffix
      <4>3. CASE k < 4
        <5>1. Tail(todo) = RetFrom(k + 1) /\ k + 1 \in 1 .. 4
          BY <4>1, <4>3, RetSuffix
        <5> QED
          BY <5>1, RetSuffix
      <4> QED
        BY <4>2, <4>3
    <3> QED
      BY <1>c, <3>1, <3>2 DEF QueueInv
  <2> QED
    BY <1>d, <2>1, <2>2, <2>3
<1>10. CASE Queue
  <2>1. UNCHANGED <<pc, n, again, eip, cur, todo, ilog, mark, log, seen>> /\ pc = "queue"
    BY <1>10 DEF Queue
  <2>2. n \in used' /\ slots'[n] = slots[n]
    <3>1. n \in used
      BY <1>i, <2>1 DEF ScanInv
    <3>2. CASE Free = {}
      BY <1>10, <3>1, <3>2 DEF Queue, Claim
    <3>3. CASE Free # {}
      <4>1. PICK m \in Free : /\ used' = used \cup {m}
                              /\ slots' = [slots EXCEPT ![m] = [eip |-> Head(pend), prev |-> ilog]]
        BY <1>10, <3>3 DEF Queue, Claim
      <4> QED
        BY <1>t, <3>1, <4>1 DEF Free
    <3> QED
      BY <3>2, <3>3
  <2>3. ScanInv' /\ SlotInv'
    BY <1>i, <2>1, <2>2 DEF ScanInv, SlotInv
  <2>4. RtlInv' /\ QueueInv'
    BY <1>i, <1>c, <2>1 DEF RtlInv, QueueInv
  <2> QED
    BY <1>d, <1>m, <2>1, <2>3, <2>4
<1>11. CASE Advance
  <2>1. /\ pc = "queue" /\ pc' \in {"return", "fetch", "rtl"}
        /\ UNCHANGED <<used, slots, n, again, eip, cur, mark, seen>>
    BY <1>11 DEF Advance, history
  <2>2. ScanInv' /\ SlotInv' /\ QueueInv'
    BY <1>i, <2>1 DEF ScanInv, SlotInv, QueueInv
  <2>3. ASSUME pc' = "rtl" PROVE RtlInv'
    <3>1. todo' = Tail(todo) /\ todo' # <<>>
      BY <1>11, <2>3 DEF Advance
    <3>2. code[cur].kind \notin {"bad", "nop"}
      BY <1>i, <2>1 DEF RtlInv
    <3>3. CASE code[cur].kind # "ret"
      <4>1. todo = Rtl(code[cur])
        BY <1>i, <2>1, <3>3 DEF RtlInv
      <4>2. PICK r : Rtl(code[cur]) = <<r>>
        BY <3>2, <3>3, RtlOne
      <4> QED
        BY <3>1, <4>1, <4>2
    <3>4. CASE code[cur].kind = "ret"
      <4>1. PICK k \in 1 .. 4 : todo = RetFrom(k)
        BY <1>i, <2>1, <3>4 DEF RtlInv
      <4>2. k < 4 /\ Tail(todo) = RetFrom(k + 1)
        BY <3>1, <4>1, RetSuffix
      <4>3. k + 1 \in 1 .. 4
        BY <4>2
      <4> QED
        BY <1>c, <2>1, <3>1, <3>2, <3>4, <4>2, <4>3 DEF RtlInv
    <3> QED
      BY <3>3, <3>4
  <2> QED
    BY <1>d, <1>m, <2>1, <2>2, <2>3 DEF RtlInv
<1>12. CASE UNCHANGED vars
  BY <1>12, <1>i, <1>d DEF vars, ScanInv, SlotInv, MarkInv, RtlInv, QueueInv
<1> QED
  BY <1>1, <1>2, <1>3, <1>4, <1>5, <1>6, <1>7, <1>8, <1>9, <1>10, <1>11, <1>12
     DEF Next, Step, Stopped

-----------------------------------------------------------------------------
(* The step simulation *)

LEMMA SeqRanges ==
  /\ Range(<<>>) = {}
  /\ \A x, y : Range(<<x, y>>) = {x, y}
  /\ \A s \in Seq(Nat) : Len(s) = 1 => Range(s) = {s[1]}
  /\ \A s \in Seq(Nat) : s # <<>> => Range(s) = {Head(s)} \cup Range(Tail(s))
<1>1. Range(<<>>) = {}
  BY DEF Range
<1>2. ASSUME NEW x, NEW y PROVE Range(<<x, y>>) = {x, y}
  BY DEF Range
<1>3. ASSUME NEW s \in Seq(Nat), Len(s) = 1 PROVE Range(s) = {s[1]}
  BY <1>3 DEF Range
<1>4. ASSUME NEW s \in Seq(Nat), s # <<>> PROVE Range(s) = {Head(s)} \cup Range(Tail(s))
  <2>1. /\ Len(s) \in Nat /\ DOMAIN s = 1 .. Len(s) /\ Len(s) > 0 /\ Head(s) = s[1]
        /\ Len(Tail(s)) = Len(s) - 1 /\ DOMAIN Tail(s) = 1 .. Len(s) - 1
        /\ \A i \in 1 .. Len(s) - 1 : Tail(s)[i] = s[i + 1]
    BY <1>4
  <2>2. \A i \in DOMAIN s : i = 1 \/ (i - 1 \in DOMAIN Tail(s) /\ s[i] = Tail(s)[i - 1])
    BY <2>1
  <2>3. 1 \in DOMAIN s /\ \A i \in DOMAIN Tail(s) : i + 1 \in DOMAIN s
    BY <2>1
  <2> DEFINE t == Tail(s)
  <2>4. \A i \in DOMAIN s : s[i] \in {Head(s)} \cup Range(t)
    BY <2>1, <2>2 DEF Range
  <2>5. \A i \in DOMAIN t : t[i] \in Range(s)
    BY <2>1, <2>3 DEF Range
  <2>6. Head(s) \in Range(s)
    BY <2>1, <2>3 DEF Range
  <2>7. Range(s) = {Head(s)} \cup Range(t)
    <3> HIDE DEF t
    <3> QED
      BY <2>4, <2>5, <2>6 DEF Range
  <2> QED
    BY <2>7
<1> QED
  BY <1>1, <1>2, <1>3, <1>4

LEMMA SuccFixed == ASSUME UNCHANGED code, NEW a PROVE Succ(a)' = Succ(a)
BY DEF Succ, Flow

\* Where the ways out of an instruction are, once its RTL is executed.
LEMMA ExecuteKeeps ==
  ASSUME TypeInv, ReachInv, TablesFound, Execute
  PROVE  Ahead' = Ahead
<1>t. /\ code \in [Offset -> Decoded] /\ cur \in Offset /\ eip \in Nat
      /\ \A a \in Offset : code[a].kind \in {"jmp", "jcc"} => Len(code[a].to) = 1
  BY ReachTypes
<1>d. /\ code[cur].kind \in Kind /\ code[cur].len \in Nat \ {0} /\ code[cur].to \in Seq(Nat)
      /\ cur \in Nat
  BY <1>t DEF Decoded, Offset
<1>e. /\ pc = "rtl" /\ pc' = "queue" /\ UNCHANGED <<code, cur>> /\ pend' = WaysOut(Head(todo))
      /\ eip' = CASE Head(todo).op = "JMP" -> Head(todo).to[1]
                   [] Head(todo).op = "MOV" -> 0
                   [] OTHER -> eip
  BY DEF Execute, program
<1>r. /\ code[cur].kind \notin {"bad", "nop"}
      /\ IF code[cur].kind = "ret"
         THEN \E k \in 1 .. 4 : todo = RetFrom(k)
         ELSE todo = Rtl(code[cur]) /\ eip = cur + code[cur].len
  BY <1>e DEF ReachInv, RtlInv
<1>a. /\ Ahead = Succ(cur)
      /\ Ahead' = Range(pend') \cup (IF eip' = 0 \/ code[cur].kind \in {"ret", "switch"}
                                     THEN {} ELSE {eip'})
  BY <1>e DEF Ahead
<1>1. CASE code[cur].kind = "ret"
  <2>1. PICK k \in 1 .. 4 : todo = RetFrom(k)
    BY <1>r, <1>1
  <2>2. pend' = <<>>
    BY <1>e, <2>1, RetSuffix DEF WaysOut
  <2>3. Succ(cur) = {}
    BY <1>1 DEF Succ, Flow
  <2> QED
    BY <1>1, <1>a, <2>2, <2>3, SeqRanges
<1>2. CASE code[cur].kind # "ret"
  <2> DEFINE d == code[cur]
  <2>1. PICK r : todo = <<r>> /\ r.to = (IF d.kind \in {"base", "stray", "jmp", "jcc"} THEN d.to ELSE <<>>)
                 /\ r.op = CASE d.kind = "base" -> "ADD" [] d.kind = "jmp" -> "JMP"
                             [] d.kind = "jcc" -> "IF" [] d.kind = "switch" -> "JMPT"
                             [] d.kind = "stray" -> "STRAY" [] d.kind = "refused" -> "REFUSED"
                             [] OTHER -> "OP"
    BY <1>r, <1>2, RtlOne
  <2>2. Head(todo) = r
    BY <2>1
  <2>3. CASE d.kind \in {"op", "base", "stray", "refused"}
    <3>1. pend' = <<>> /\ eip' = eip /\ eip # 0
      BY <1>d, <1>e, <1>r, <1>2, <2>1, <2>2, <2>3 DEF WaysOut
    <3>2. Succ(cur) = {eip}
      BY <1>r, <1>2, <2>3 DEF Succ, Flow
    <3> QED
      BY <1>a, <2>3, <3>1, <3>2, SeqRanges
  <2>4. CASE d.kind = "jmp"
    <3>1. pend' = <<>> /\ eip' = d.to[1]
      BY <1>e, <2>1, <2>2, <2>4 DEF WaysOut
    <3>2. Range(d.to) = {d.to[1]}
      BY <1>t, <1>d, <2>4, SeqRanges
    <3>3. Succ(cur) = {d.to[1]} \ {0}
      BY <2>4, <3>2 DEF Succ
    <3> QED
      BY <1>a, <2>4, <3>1, <3>3, SeqRanges
  <2>5. CASE d.kind = "jcc"
    <3>1. pend' = <<eip, d.to[1]>> /\ eip' = eip /\ eip # 0
      BY <1>d, <1>e, <1>r, <1>2, <2>1, <2>2, <2>5 DEF WaysOut
    <3>2. Range(d.to) = {d.to[1]}
      BY <1>t, <1>d, <2>5, SeqRanges
    <3>3. Succ(cur) = {eip, d.to[1]}
      BY <1>r, <1>2, <2>5, <3>2 DEF Succ, Flow
    <3>4. Range(pend') = {eip, d.to[1]}
      BY <3>1, SeqRanges
    <3> QED
      BY <1>a, <2>5, <3>1, <3>3, <3>4
  <2>6. CASE d.kind = "switch"
    <3>1. r.op = "JMPT" /\ Head(todo).op = "JMPT"
      BY <2>1, <2>2, <2>6
    <3>2. pend' = d.to
      BY <1>e, <3>1 DEF Execute, TablesFound
    <3>3. Succ(cur) = Range(d.to)
      BY <2>6 DEF Succ, Flow
    <3> QED
      BY <1>a, <2>6, <3>2, <3>3
  <2> QED
    BY <1>d, <1>r, <1>2, <2>3, <2>4, <2>5, <2>6 DEF Kind
<1> QED
  BY <1>1, <1>2

\* Where the ways out of an instruction are, once it is decoded.
LEMMA DecodeOpens ==
  ASSUME TypeInv, ReachInv, Decode, pc' # "failed"
  PROVE  Ahead' = Succ(eip)
<1>t. /\ code \in [Offset -> Decoded] /\ eip \in Offset
      /\ code[eip].kind \in Kind
  <2>1. code \in [Offset -> Decoded] /\ eip \in Nat
    BY ReachTypes
  <2>2. eip \in Offset
    BY <2>1, SizesAssumption DEF Decode, InMemory, CanFetch, Offset
  <2> QED
    BY <2>1, <2>2 DEF Decoded
<1>d. /\ UNCHANGED code /\ cur' = eip /\ eip' = eip + code[eip].len /\ todo' = Rtl(code[eip])
      /\ pc' = IF todo' = <<>> THEN "fetch" ELSE "rtl"
  BY DEF Decode, program
<1>1. CASE code[eip].kind = "nop"
  <2>1. todo' = <<>>
    BY <1>d, <1>1 DEF Rtl
  <2>2. Ahead' = {eip + code[eip].len}
    BY <1>d, <2>1 DEF Ahead
  <2> QED
    BY <1>1, <2>2 DEF Succ, Flow
<1>2. CASE code[eip].kind # "nop"
  <2>1. todo' # <<>>
    <3>1. CASE code[eip].kind = "ret"
      BY <1>d, <3>1 DEF Rtl
    <3>2. CASE code[eip].kind # "ret"
      BY <1>d, <1>2, <3>2, RtlOne
    <3> QED
      BY <3>1, <3>2
  <2>2. Ahead' = Succ(cur)'
    BY <1>d, <2>1 DEF Ahead
  <2>3. Succ(cur)' = Succ(eip)
    BY <1>d DEF Succ, Flow
  <2> QED
    BY <2>2, <2>3
<1> QED
  BY <1>1, <1>2

\* An instruction that is over leaves the way that is followed at once.
LEMMA AdvanceKeeps ==
  ASSUME TypeInv, ReachInv, Advance
  PROVE  Ahead' = Ahead
<1>a. /\ pc = "queue" /\ pend = <<>> /\ UNCHANGED <<code, cur, eip>> /\ log[ilog].op = Head(todo).op
      /\ todo' = IF eip = 0 \/ log[ilog].op \in {"JMPT", "IF"} THEN <<>> ELSE Tail(todo)
      /\ pc' = IF eip = 0 \/ log[ilog].op = "JMPT" THEN "return"
               ELSE IF todo' = <<>> THEN "fetch" ELSE "rtl"
  BY DEF Advance, program, ReachInv, QueueInv
<1>r. /\ code[cur].kind \notin {"bad", "nop"}
      /\ IF code[cur].kind = "ret" THEN \E k \in 1 .. 4 : todo = RetFrom(k)
                                   ELSE todo = Rtl(code[cur])
      /\ code[cur].kind = "ret" => eip = 0 \/ Tail(todo) # <<>>
  BY <1>a DEF ReachInv, RtlInv, QueueInv
<1>h. Ahead = IF eip = 0 \/ code[cur].kind \in {"ret", "switch"} THEN {} ELSE {eip}
  BY <1>a, <1>r, SeqRanges DEF Ahead
<1>1. CASE code[cur].kind = "ret"
  <2>1. PICK k \in 1 .. 4 : todo = RetFrom(k)
    BY <1>r, <1>1
  <2>2. Head(todo).op \notin {"JMPT", "IF"}
    BY <2>1, RetSuffix
  <2>3. pc' = IF eip = 0 THEN "return" ELSE "rtl"
    BY <1>a, <1>r, <1>1, <2>2
  <2>4. Succ(cur)' = {}
    BY <1>a, <1>1 DEF Succ, Flow
  <2> QED
    BY <1>h, <1>1, <2>3, <2>4 DEF Ahead
<1>2. CASE code[cur].kind # "ret"
  <2>1. PICK r : /\ todo = <<r>>
                 /\ r.op = CASE code[cur].kind = "base" -> "ADD" [] code[cur].kind = "jmp" -> "JMP"
                             [] code[cur].kind = "jcc" -> "IF" [] code[cur].kind = "switch" -> "JMPT"
                             [] code[cur].kind = "stray" -> "STRAY" [] code[cur].kind = "refused" -> "REFUSED"
                             [] OTHER -> "OP"
    BY <1>r, <1>2, RtlOne
  <2>2. Head(todo) = r /\ Tail(todo) = <<>>
    BY <2>1
  <2>3. log[ilog].op = "JMPT" <=> code[cur].kind = "switch"
    BY <1>a, <2>1, <2>2
  <2>4. pc' = IF eip = 0 \/ code[cur].kind = "switch" THEN "return" ELSE "fetch"
    BY <1>a, <1>r, <2>1, <2>2, <2>3
  <2> QED
    BY <1>a, <1>h, <1>2, <2>4 DEF Ahead
<1> QED
  BY <1>1, <1>2

\* A way out goes from the instruction into the table.
LEMMA QueueKeeps ==
  ASSUME TypeInv, Queue, ~lost'
  PROVE  Open' = Open /\ ~lost
<1>t. used \subseteq Slot /\ slots \in [Slot -> [eip : Nat, prev : Index]] /\ pend \in Seq(Nat)
  BY ReachTypes
<1>q. /\ pc = "queue" /\ pend # <<>> /\ pend' = Tail(pend) /\ UNCHANGED <<pc, code, cur, eip>>
      /\ Claim(Head(pend), ilog) /\ ~lost /\ Free # {}
  BY DEF Queue, program
<1>1. PICK m \in Free : /\ used' = used \cup {m}
                        /\ slots' = [slots EXCEPT ![m] = [eip |-> Head(pend), prev |-> ilog]]
  BY <1>q DEF Claim
<1>2. \A k \in used' : slots'[k].eip = IF k = m THEN Head(pend) ELSE slots[k].eip
  BY <1>t, <1>1 DEF Free
<1>3. Queued' = Queued \cup {Head(pend)}
  BY <1>1, <1>2 DEF Queued, Free
<1>4. Range(pend) = {Head(pend)} \cup Range(pend')
  BY <1>t, <1>q, SeqRanges
<1> DEFINE followed == IF eip = 0 \/ code[cur].kind \in {"ret", "switch"} THEN {} ELSE {eip}
<1>5. Ahead = Range(pend) \cup followed /\ Ahead' = Range(pend') \cup followed
  BY <1>q DEF Ahead
<1> QED
  BY <1>q, <1>3, <1>4, <1>5 DEF Open

\* A slot is freed when what it held is decoded.
LEMMA ReturnDrops ==
  ASSUME Return
  PROVE  Open' = Open \/ Open' = Open \ {slots[n].eip}
<1>1. /\ Ahead = {} /\ Ahead' = {} /\ used' = used \ {n} /\ slots' = slots
  BY DEF Return, Ahead
<1>2. Queued' = {slots[m].eip : m \in used \ {n}}
  BY <1>1 DEF Queued
<1> QED
  BY <1>1, <1>2 DEF Open, Queued

LEMMA SimulateInit == Init => WL!Init
<1> SUFFICES ASSUME Init PROVE WL!Init
  OBVIOUS
<1>1. Queued = {} /\ Ahead = {}
  BY DEF Init, Queued, Ahead
<1> QED
  BY <1>1 DEF Init, WL!Init

LEMMA SimulateStep ==
  TypeInv /\ TypeInv' /\ OnceInv /\ ReachInv /\ TablesFound /\ [Next]_vars
    => [WL!Next]_(WL!vars)
<1> SUFFICES ASSUME TypeInv, TypeInv', OnceInv, ReachInv, TablesFound, [Next]_vars, Alive'
             PROVE  [WL!Next]_(WL!vars)
  BY DEF WL!Next, Alive
<1> DEFINE succ == [a \in Offset |-> Succ(a)]
           root == IF fn = 0 THEN {} ELSE {entries[fn]}
<1>t. /\ used \subseteq Slot /\ slots \in [Slot -> [eip : Nat, prev : Index]] /\ 0 \in Slot
      /\ eip \in Nat /\ entries \in Seq(Offset) /\ fn \in 0 .. Len(entries)
      /\ mark \in [0 .. UsedSize - 1 -> Int]
  BY ReachTypes
<1>i. ScanInv /\ SlotInv /\ MarkInv /\ SeenMarked
  BY DEF ReachInv, OnceInv
<1>c. code' = code /\ entries' = entries /\ succ' = succ
  BY CodeFixed, SuccFixed
<1>u. ASSUME UNCHANGED <<fn, seen>>, Open' = Open, Alive
      PROVE  UNCHANGED WL!vars
  BY <1>c, <1>u DEF WL!vars, Open, Alive
<1>w. ASSUME WL!Work, Alive PROVE WL!Next
  BY <1>w DEF WL!Next, Alive
<1>1. CASE StartFunction
  <2>1. Open = {}
    BY <1>1, <1>i DEF StartFunction, ScanInv, Open, Queued, Ahead
  <2>2. used' = {0} /\ slots'[0].eip = entries[fn + 1] /\ Ahead' = {}
    BY <1>1, <1>i, <1>t DEF StartFunction, ScanInv, Ahead
  <2>3. Open' = {entries[fn + 1]}
    BY <2>2 DEF Open, Queued
  <2>4. root' = {entries[fn + 1]} /\ seen' = {}
    BY <1>1, <1>c, <1>t DEF StartFunction
  <2>5. WL!Begin
    BY <2>1, <2>3, <2>4 DEF WL!Begin, Open
  <2>6. Alive
    BY <1>1 DEF StartFunction, Alive
  <2> QED
    BY <1>w, <2>5, <2>6 DEF WL!Work
<1>2. CASE TakeSlot
  <2>1. PICK m \in used : n' = m
    BY <1>2 DEF TakeSlot, IsLeast, UsedFrom
  <2>2. eip' = slots[m].eip /\ pc = "scan" /\ pc' = "fetch" /\ UNCHANGED <<used, slots, fn, seen, lost>>
    BY <1>2, <2>1 DEF TakeSlot, history
  <2>3. Queued' = Queued /\ Ahead = {} /\ Ahead' = {eip'} /\ eip' \in Queued
    BY <2>1, <2>2 DEF Queued, Ahead
  <2> QED
    BY <1>u, <2>2, <2>3 DEF Open, Alive
<1>3. CASE AllExplored \/ RepeatPass \/ FinishFunction
  <2>1. /\ UNCHANGED <<used, slots, fn, seen, lost>> /\ pc \in {"main", "scan"}
        /\ pc' \in {"main", "scan", "done"}
    BY <1>3 DEF AllExplored, RepeatPass, FinishFunction, history
  <2>2. Queued' = Queued /\ Ahead' = Ahead
    BY <2>1 DEF Queued, Ahead
  <2> QED
    BY <1>u, <2>1, <2>2 DEF Open, Alive
<1>4. CASE Return
  <2>1. UNCHANGED <<fn, seen, lost>> /\ pc = "return" /\ slots[n].eip \in seen /\ n \in used
    BY <1>4, <1>i DEF Return, SlotInv, ScanInv, history
  <2>2. Alive
    BY <2>1 DEF Alive
  <2>3. CASE Open' = Open
    BY <1>u, <2>1, <2>2, <2>3
  <2>4. CASE Open' = Open \ {slots[n].eip}
    <3>1. WL!Drop(slots[n].eip)
      BY <1>c, <2>1, <2>4 DEF WL!Drop, Open
    <3>2. slots[n].eip \in Open
      BY <2>1 DEF Open, Queued
    <3> QED
      BY <1>w, <2>2, <3>1, <3>2 DEF WL!Work, Open
  <2> QED
    BY <1>4, <2>3, <2>4, ReturnDrops
<1>5. CASE Rejoin
  <2>1. /\ eip < UsedSize /\ mark[eip] # 0 /\ mark[eip] \in Index /\ pc = "fetch" /\ pc' = "return"
        /\ UNCHANGED <<used, slots, fn, seen, lost>>
    BY <1>5 DEF Rejoin, InMemory, CanFetch, history
  <2>2. eip \in seen
    BY <1>i, <1>t, <2>1, SizesAssumption DEF MarkInv, Index
  <2>3. Queued' = Queued /\ Ahead = {eip} /\ Ahead' = {} /\ Alive
    BY <2>1 DEF Queued, Ahead, Alive
  <2>4. CASE eip \in Queued
    BY <1>u, <2>1, <2>3, <2>4 DEF Open
  <2>5. CASE eip \notin Queued
    <3>1. Open' = Open \ {eip} /\ eip \in Open
      BY <2>3, <2>5 DEF Open
    <3>2. WL!Drop(eip)
      BY <1>c, <2>1, <2>2, <3>1 DEF WL!Drop, Open
    <3> QED
      BY <1>w, <2>3, <3>1, <3>2 DEF WL!Work, Open
  <2> QED
    BY <2>4, <2>5
<1>6. CASE Decode
  <2>1. /\ pc = "fetch" /\ eip < UsedSize /\ eip < CodeSize /\ mark[eip] = 0 /\ seen' = seen \cup {eip}
        /\ UNCHANGED <<used, slots, fn, lost>> /\ pc' # "failed"
    BY <1>6 DEF Decode, InMemory, CanFetch, Alive
  <2>2. eip \in Offset /\ eip \notin seen
    BY <1>i, <1>t, <2>1, SizesAssumption DEF SeenMarked, Offset
  <2>3. Queued' = Queued /\ Ahead = {eip} /\ Ahead' = Succ(eip) /\ Alive
    BY <1>6, <2>1, DecodeOpens DEF Queued, Ahead, Alive
  <2>4. WL!Visit(eip)
    <3>1. succ[eip] = Succ(eip) /\ eip \in DOMAIN succ
      BY <2>2
    <3>2. UNCHANGED root
      BY <1>c, <2>1
    <3>3. /\ (Open \ {eip}) \cup (succ[eip] \ seen') \subseteq Open'
          /\ Open' \subseteq Open \cup succ[eip]
      BY <2>3, <3>1 DEF Open
    <3> QED
      BY <1>c, <2>1, <2>2, <3>1, <3>2, <3>3 DEF WL!Visit, Open
  <2>5. eip \in Open
    BY <2>3 DEF Open
  <2> QED
    BY <1>w, <2>3, <2>4, <2>5 DEF WL!Work, Open
<1>7. CASE Execute
  <2>1. UNCHANGED <<used, slots, fn, seen, lost>> /\ pc = "rtl" /\ Ahead' = Ahead
    BY <1>7, ExecuteKeeps DEF Execute
  <2> QED
    BY <1>u, <2>1 DEF Open, Queued, Alive
<1>8. CASE Queue
  <2>1. UNCHANGED <<fn, seen>> /\ pc = "queue" /\ ~lost'
    BY <1>8 DEF Queue, Alive
  <2> QED
    BY <1>8, <1>u, <2>1, QueueKeeps DEF Alive
<1>9. CASE Advance
  <2>1. UNCHANGED <<used, slots, fn, seen, lost>> /\ pc = "queue" /\ Ahead' = Ahead
    BY <1>9, AdvanceKeeps DEF Advance, history
  <2> QED
    BY <1>u, <2>1 DEF Open, Queued, Alive
<1>10. CASE UNCHANGED vars
  <2>1. UNCHANGED <<used, slots, fn, seen, lost, pc, eip, cur, pend, code>>
    BY <1>10 DEF vars
  <2>2. Open' = Open /\ Alive
    <3>1. Succ(cur)' = Succ(cur)
      BY <2>1 DEF Succ, Flow
    <3> QED
      BY <2>1, <3>1 DEF Open, Queued, Ahead, Alive
  <2> QED
    BY <1>u, <2>1, <2>2
<1>11. CASE OverRan \/ MarkOverrun \/ BadMark \/ LogOverrun \/ Refused \/ NoTable
  BY <1>11 DEF OverRan, MarkOverrun, BadMark, LogOverrun, Refused, NoTable, Stop, Alive
<1> QED
  BY <1>1, <1>2, <1>3, <1>4, <1>5, <1>6, <1>7, <1>8, <1>9, <1>10, <1>11 DEF Next, Step, Stopped

-----------------------------------------------------------------------------
LEMMA ReachInvariant == Spec => [](TypeInv /\ OnceInv /\ ReachInv)
<1>1. Init => TypeInv /\ OnceInv /\ ReachInv
  BY TypeInit, OnceInit, ReachInit
<1>2. TypeInv /\ OnceInv /\ ReachInv /\ [Next]_vars => (TypeInv /\ OnceInv /\ ReachInv)'
  BY TypeStep, OnceStep, ReachStep
<1> QED
  BY <1>1, <1>2, PTL DEF Spec

\* The exploration of a function is a search of its code from its entry: nothing
\* is decoded that was not found, nothing found is dropped before it is decoded,
\* if every jump table found by the backward search is the one of the jump.
THEOREM Implements == Spec /\ []TablesFound => ImplementsWorklist
<1>1. Init => WL!Init
  BY SimulateInit
<1>2. TypeInv /\ OnceInv /\ ReachInv /\ TablesFound /\ [Next]_vars => [WL!Next]_(WL!vars)
  BY TypeStep, SimulateStep
<1> QED
  BY <1>1, <1>2, ReachInvariant, PTL DEF Spec, ImplementsWorklist, WL!Spec

Search == INSTANCE WorklistProofs WITH
            succ     <- [a \in Offset |-> Succ(a)],
            root     <- IF fn = 0 THEN {} ELSE {entries[fn]},
            visited  <- seen,
            frontier <- Queued \cup Ahead,
            alive    <- ~lost /\ pc \notin {"failed", "undefined"}

\* The offsets decoded for a function are those control can reach from its entry.
ReachableDecoded ==
  Alive /\ fn > 0 /\ Open = {} =>
    /\ entries[fn] \in seen
    /\ \A a \in seen : Succ(a) \subseteq seen
    /\ \A S : entries[fn] \in S /\ (\A a \in S \cap Offset : Succ(a) \subseteq S) => seen \subseteq S

\* When no slot is left, nothing was lost and the tables were found, all that control can reach from the
\* entry of the function was decoded, and nothing else.
THEOREM Reachable == Spec /\ []TablesFound => []ReachableDecoded
<1>1. Search!Spec => []Search!Exact
  BY Search!WorklistExact
<1>2. WL!Init => Search!Init
  BY DEF WL!Init, Search!Init
<1>3. [WL!Next]_(WL!vars) => [Search!Next]_(Search!vars)
  BY DEF WL!Next, WL!Work, WL!Begin, WL!Visit, WL!Drop, WL!vars,
         Search!Next, Search!Work, Search!Begin, Search!Visit, Search!Drop, Search!vars
<1>4. ASSUME TypeInv, Search!Exact PROVE ReachableDecoded
  <2> SUFFICES ASSUME Alive, fn > 0, Open = {}
               PROVE  /\ entries[fn] \in seen
                      /\ \A a \in seen : Succ(a) \subseteq seen
                      /\ \A S : entries[fn] \in S /\ (\A a \in S \cap Offset : Succ(a) \subseteq S) => seen \subseteq S
    BY DEF ReachableDecoded
  <2>1. seen \subseteq Offset
    BY <1>4, ReachTypes
  <2>2. /\ {entries[fn]} \subseteq seen /\ Search!Closed(seen)
        /\ \A S : {entries[fn]} \subseteq S /\ Search!Closed(S) => seen \subseteq S
    BY <1>4 DEF Search!Exact, Alive, Open
  <2>3. \A S : Search!Closed(S) <=> \A a \in S \cap Offset : Succ(a) \subseteq S
    BY DEF Search!Closed
  <2> QED
    BY <2>1, <2>2, <2>3
<1>5. Spec => []TypeInv
  BY TypeInit, TypeStep, PTL DEF Spec
<1> QED
  BY <1>1, <1>2, <1>3, <1>4, <1>5, Implements, PTL DEF ImplementsWorklist, WL!Spec, Search!Spec

-----------------------------------------------------------------------------
(* How many slots are used *)

\* What the instruction being executed will queue.
Due == IF pc = "rtl" THEN Ways(cur) ELSE 0

SlotsInv ==
  /\ pc # "queue" => pend = <<>>
  /\ IsFiniteSet(WaysFound)
  /\ Cardinality(used) + Len(pend) + Due <= 1 + Cardinality(WaysFound)

\* The ways out of an instruction decoded for the first time are new.
LEMMA WaysMore ==
  ASSUME NEW W, IsFiniteSet(W), NEW a, NEW k \in Nat, \A w \in W : w[1] # a
  PROVE  /\ IsFiniteSet(W \cup ({a} \X (1 .. k)))
         /\ Cardinality(W \cup ({a} \X (1 .. k))) = Cardinality(W) + k
         /\ Cardinality(W) \in Nat
<1> DEFINE V == {a} \X (1 .. k)
<1>1. IsFiniteSet(1 .. k) /\ Cardinality(1 .. k) = k
  BY FS_Interval
<1>2. IsFiniteSet({a}) /\ Cardinality({a}) = 1
  BY FS_Singleton
<1>3. IsFiniteSet(V) /\ Cardinality(V) = 1 * k
  BY <1>1, <1>2, FS_Product
<1>4. W \cap V = {}
  OBVIOUS
<1>5. Cardinality(W \cap V) = 0
  BY <1>4, FS_EmptySet
<1>6. Cardinality(W) \in Nat
  BY FS_CardinalityType
<1> HIDE DEF V
<1>7. IsFiniteSet(W \cup V) /\ Cardinality(W \cup V) = Cardinality(W) + Cardinality(V) - Cardinality(W \cap V)
  BY <1>3, FS_Union
<1>8. IsFiniteSet(W \cup V) /\ Cardinality(W \cup V) = Cardinality(W) + k
  BY <1>3, <1>5, <1>6, <1>7
<1> QED
  BY <1>6, <1>8 DEF V

LEMMA UsedFinite == ASSUME TypeInv PROVE IsFiniteSet(used) /\ Cardinality(used) \in Nat
<1>1. used \subseteq 0 .. SlotCount - 1 /\ SlotCount - 1 \in Int
  BY ReachTypes DEF Slot
<1>2. IsFiniteSet(0 .. SlotCount - 1)
  BY <1>1, FS_Interval
<1>3. IsFiniteSet(used)
  BY <1>1, <1>2, FS_Subset
<1> QED
  BY <1>3, FS_CardinalityType

LEMMA WaysNat == ASSUME TypeInv, NEW a \in Offset PROVE Ways(a) \in Nat
<1>1. Len(code[a].to) \in Nat
  BY ReachTypes, LenProperties DEF Decoded
<1> QED
  BY <1>1 DEF Ways

LEMMA SlotsInit == Init => SlotsInv
<1> SUFFICES ASSUME Init PROVE SlotsInv
  OBVIOUS
<1>1. used = {} /\ pend = <<>> /\ pc = "main" /\ seen = {}
  BY DEF Init
<1>2. WaysFound = {}
  BY <1>1 DEF WaysFound
<1> QED
  BY <1>1, <1>2, FS_EmptySet DEF SlotsInv, Due

\* Logging an RTL instruction leaves as many ways out as are due.
LEMMA WaysQueued ==
  ASSUME TypeInv, ReachInv, TablesFound, Execute
  PROVE  pend' \in Seq(Nat) /\ Len(pend') = Ways(cur)
<1>e. pc = "rtl" /\ pend' = WaysOut(Head(todo)) /\ (Head(todo).op = "JMPT" => TableBases # {})
      /\ ilog \in Index
  BY DEF Execute
<1>r. /\ code[cur].kind \notin {"bad", "nop"}
      /\ IF code[cur].kind = "ret" THEN \E k \in 1 .. 4 : todo = RetFrom(k)
                                   ELSE todo = Rtl(code[cur])
  BY <1>e DEF ReachInv, RtlInv
<1>t. eip \in Nat /\ cur \in Offset /\ code[cur] \in Decoded
      /\ (code[cur].kind = "jcc" => Len(code[cur].to) = 1)
  BY ReachTypes
<1>d. code[cur].to \in Seq(Nat)
  BY <1>t DEF Decoded
<1>1. CASE code[cur].kind = "ret"
  <2>1. PICK k \in 1 .. 4 : todo = RetFrom(k)
    BY <1>r, <1>1
  <2>2. pend' = <<>>
    BY <1>e, <2>1, RetSuffix DEF WaysOut
  <2> QED
    BY <1>1, <2>2 DEF Ways
<1>2. CASE code[cur].kind # "ret"
  <2>1. PICK r : Rtl(code[cur]) = <<r>>
                 /\ r.to = (IF code[cur].kind \in {"base", "stray", "jmp", "jcc"} THEN code[cur].to ELSE <<>>)
                 /\ r.op = CASE code[cur].kind = "base" -> "ADD" [] code[cur].kind = "jmp" -> "JMP"
                             [] code[cur].kind = "jcc" -> "IF" [] code[cur].kind = "switch" -> "JMPT"
                             [] code[cur].kind = "stray" -> "STRAY" [] code[cur].kind = "refused" -> "REFUSED"
                             [] OTHER -> "OP"
    BY <1>r, <1>2, RtlOne
  <2>2. Head(todo) = r
    BY <1>r, <1>2, <2>1
  <2>3. CASE code[cur].kind = "jcc"
    <3>1. pend' = <<eip, code[cur].to[1]>>
      BY <1>e, <2>1, <2>2, <2>3 DEF WaysOut
    <3>2. code[cur].to[1] \in Nat
      BY <1>d, <1>t, <2>3
    <3> QED
      BY <1>t, <2>3, <3>1, <3>2 DEF Ways
  <2>4. CASE code[cur].kind = "switch"
    <3>1. pend' = code[cur].to
      BY <1>e, <2>1, <2>2, <2>4 DEF TablesFound
    <3> QED
      BY <1>d, <2>4, <3>1 DEF Ways
  <2>5. CASE code[cur].kind \notin {"jcc", "switch"}
    <3>1. r.op \notin {"IF", "JMPT"}
      BY <2>1, <2>5
    <3>2. pend' = <<>>
      BY <1>e, <2>2, <3>1 DEF WaysOut
    <3> QED
      BY <2>5, <3>2 DEF Ways
  <2> QED
    BY <2>3, <2>4, <2>5
<1> QED
  BY <1>1, <1>2

\* Only a return has an RTL instruction behind one that was executed.
LEMMA ReturnOnly ==
  ASSUME TypeInv, ReachInv, Advance, pc' = "rtl"
  PROVE  code[cur].kind = "ret"
<1>1. pc = "queue" /\ todo' = Tail(todo) /\ todo' # <<>>
  BY DEF Advance
<1>2. /\ code[cur].kind \notin {"bad", "nop"}
      /\ code[cur].kind # "ret" => todo = Rtl(code[cur])
  BY <1>1 DEF ReachInv, RtlInv
<1> SUFFICES ASSUME code[cur].kind # "ret" PROVE FALSE
  OBVIOUS
<1>3. PICK r : Rtl(code[cur]) = <<r>>
  BY <1>2, RtlOne
<1> QED
  BY <1>1, <1>2, <1>3

LEMMA SlotsStep ==
  /\ TypeInv /\ TypeInv' /\ OnceInv /\ ReachInv /\ TablesFound /\ SlotsInv /\ [Next]_vars
  => SlotsInv'
<1> SUFFICES ASSUME TypeInv, TypeInv', OnceInv, ReachInv, TablesFound, SlotsInv, [Next]_vars
             PROVE  SlotsInv'
  OBVIOUS
<1>t. /\ IsFiniteSet(used) /\ Cardinality(used) \in Nat /\ IsFiniteSet(used') /\ Cardinality(used') \in Nat
      /\ cur \in Offset /\ pend \in Seq(Nat) /\ Len(pend) \in Nat /\ eip \in Nat
      /\ mark \in [0 .. UsedSize - 1 -> Int] /\ seen \subseteq Offset
  <2>1. IsFiniteSet(used) /\ Cardinality(used) \in Nat
    BY UsedFinite
  <2>2. used' \subseteq 0 .. SlotCount - 1 /\ SlotCount - 1 \in Int
    BY SizesAssumption DEF TypeInv, TypeOK, MainOK, Slot
  <2>3. IsFiniteSet(0 .. SlotCount - 1)
    BY <2>2, FS_Interval
  <2>4. IsFiniteSet(used')
    BY <2>2, <2>3, FS_Subset
  <2>5. Cardinality(used') \in Nat
    BY <2>4, FS_CardinalityType
  <2> QED
    BY <2>1, <2>4, <2>5, ReachTypes, LenProperties
<1>c. code' = code
  BY CodeFixed
<1>i. /\ pc # "queue" => pend = <<>>
      /\ IsFiniteSet(WaysFound)
      /\ Cardinality(used) + Len(pend) + Due <= 1 + Cardinality(WaysFound)
      /\ Cardinality(WaysFound) \in Nat
  BY FS_CardinalityType DEF SlotsInv
<1>d. Due \in Nat
  BY <1>t, WaysNat DEF Due
<1>w. ASSUME seen' = seen PROVE WaysFound' = WaysFound
  BY <1>c, <1>w DEF WaysFound, Ways
<1>l. Len(<<>>) = 0
  OBVIOUS
\* Steps outside the RTL loop that take no slot.
<1>k. ASSUME seen' = seen, pend' = pend, pc' \notin {"rtl", "queue"}, pend = <<>>,
             used' \subseteq used
      PROVE  SlotsInv'
  <2>1. Cardinality(used') <= Cardinality(used)
    BY <1>t, <1>k, FS_Subset
  <2>2. WaysFound' = WaysFound /\ Due' = 0
    BY <1>k, <1>w DEF Due
  <2> QED
    BY <1>t, <1>i, <1>d, <1>k, <1>l, <2>1, <2>2 DEF SlotsInv
<1>1. CASE StartFunction
  <2>1. used' = {0} /\ seen' = {} /\ pend' = <<>> /\ pc' = "scan"
    BY <1>1, <1>i DEF StartFunction, ReachInv, ScanInv
  <2>2. Cardinality(used') = 1
    BY <2>1, FS_Singleton
  <2>3. WaysFound' = {}
    BY <2>1 DEF WaysFound
  <2>4. Due' = 0
    BY <2>1 DEF Due
  <2> QED
    BY <1>l, <2>1, <2>2, <2>3, <2>4, FS_EmptySet DEF SlotsInv
<1>2. CASE \/ AllExplored \/ TakeSlot \/ RepeatPass \/ FinishFunction \/ Return \/ Rejoin
           \/ OverRan \/ MarkOverrun \/ BadMark \/ LogOverrun \/ Refused \/ NoTable
  <2>1. pc # "queue" /\ seen' = seen /\ pend' = pend /\ pc' \notin {"rtl", "queue"} /\ used' \subseteq used
    BY <1>2 DEF AllExplored, TakeSlot, RepeatPass, FinishFunction, Return, Rejoin, OverRan,
                MarkOverrun, BadMark, LogOverrun, Refused, NoTable, InMemory, CanFetch, Stop, history
  <2> QED
    BY <1>i, <1>k, <2>1
<1>3. CASE Decode
  <2>1. /\ pc = "fetch" /\ pend' = pend /\ used' = used /\ seen' = seen \cup {eip} /\ eip \in Offset
        /\ eip \notin seen /\ pc' \in {"failed", "fetch", "rtl"} /\ (pc' = "rtl" => cur' = eip)
    <3>1. eip \in Offset /\ eip \notin seen
      BY <1>3, <1>t, SizesAssumption DEF Decode, InMemory, CanFetch, Offset, OnceInv, SeenMarked
    <3> QED
      BY <1>3, <3>1 DEF Decode, InMemory, CanFetch
  <2>2. WaysFound' = WaysFound \cup ({eip} \X (1 .. Ways(eip)))
    <3>1. WaysFound' = UNION {{a} \X (1 .. Ways(a)) : a \in seen \cup {eip}}
      BY <1>c, <2>1 DEF WaysFound, Ways
    <3> QED
      BY <3>1 DEF WaysFound
  <2>3. \A w \in WaysFound : w[1] # eip
    BY <2>1 DEF WaysFound
  <2>4. Ways(eip) \in Nat
    BY <2>1, WaysNat
  <2>5. IsFiniteSet(WaysFound') /\ Cardinality(WaysFound') = Cardinality(WaysFound) + Ways(eip)
    BY <1>i, <2>2, <2>3, <2>4, WaysMore
  <2>6. Due' <= Ways(eip) /\ Due' \in Nat
    BY <1>c, <2>1, <2>4 DEF Due, Ways
  <2>7. Due = 0
    BY <2>1 DEF Due
  <2>8. Cardinality(used') + Len(pend') + Due' <= 1 + Cardinality(WaysFound')
    BY <1>t, <1>i, <2>1, <2>4, <2>5, <2>6, <2>7
  <2> QED
    BY <1>i, <2>1, <2>5, <2>8 DEF SlotsInv
<1>4. CASE Execute
  <2>1. UNCHANGED <<used, seen, cur>> /\ pc = "rtl" /\ pc' = "queue" /\ pend = <<>>
    BY <1>4, <1>i DEF Execute
  <2>2. Len(pend') = Ways(cur) /\ Due = Ways(cur) /\ Due' = 0
    BY <1>4, <2>1, WaysQueued DEF Due
  <2> QED
    BY <1>t, <1>i, <1>d, <1>l, <1>w, <2>1, <2>2 DEF SlotsInv
<1>5. CASE Queue
  <2>1. seen' = seen /\ pc = "queue" /\ pc' = "queue" /\ pend # <<>> /\ pend' = Tail(pend)
    BY <1>5 DEF Queue
  <2>2. Len(pend') = Len(pend) - 1
    BY <1>t, <2>1
  <2>3. Cardinality(used') <= Cardinality(used) + 1
    <3>1. CASE Free = {}
      BY <1>5, <1>t, <3>1 DEF Queue, Claim
    <3>2. CASE Free # {}
      <4>1. PICK m \in Free : used' = used \cup {m}
        BY <1>5, <3>2 DEF Queue, Claim
      <4>2. Cardinality(used \cup {m}) = IF m \in used THEN Cardinality(used) ELSE Cardinality(used) + 1
        BY <1>t, FS_AddElement
      <4> QED
        BY <1>t, <4>1, <4>2
    <3> QED
      BY <3>1, <3>2
  <2>4. Due = 0 /\ Due' = 0
    BY <2>1 DEF Due
  <2> QED
    BY <1>t, <1>i, <1>w, <2>1, <2>2, <2>3, <2>4 DEF SlotsInv
<1>6. CASE Advance
  <2>1. UNCHANGED <<used, seen, pend, cur>> /\ pc = "queue" /\ pend = <<>> /\ pc' # "queue"
    BY <1>6 DEF Advance, history
  <2>2. Due' = 0
    <3>1. CASE pc' = "rtl"
      <4>1. code[cur].kind = "ret"
        BY <1>6, <3>1, ReturnOnly
      <4> QED
        BY <1>c, <2>1, <4>1 DEF Due, Ways
    <3> QED
      BY <3>1 DEF Due
  <2> QED
    BY <1>t, <1>i, <1>d, <1>l, <1>w, <2>1, <2>2 DEF SlotsInv
<1>7. CASE UNCHANGED vars
  <2>1. UNCHANGED <<used, seen, pend, cur, pc, code>>
    BY <1>7 DEF vars
  <2>2. Due' = Due
    BY <2>1 DEF Due, Ways
  <2> QED
    BY <1>i, <1>w, <2>1, <2>2 DEF SlotsInv
<1> QED
  BY <1>1, <1>2, <1>3, <1>4, <1>5, <1>6, <1>7 DEF Next, Step, Stopped

\* The slot table needs room for the entry of the function and the ways out of
\* the branches decoded for it, and no more: a way out that is followed at once is
\* in the table as well, but no branch is decoded twice.
THEOREM SlotsBounded == Spec /\ []TablesFound => []SlotsSuffice
<1>1. SlotsInv /\ TypeInv => SlotsSuffice
  <2> SUFFICES ASSUME SlotsInv, TypeInv PROVE SlotsSuffice
    OBVIOUS
  <2>1. Due \in Nat
    BY ReachTypes, WaysNat DEF Due
  <2>2. Cardinality(used) \in Nat /\ Len(pend) \in Nat
    BY UsedFinite, ReachTypes, LenProperties
  <2>3. Cardinality(WaysFound) \in Nat
    BY FS_CardinalityType DEF SlotsInv
  <2> QED
    BY <2>1, <2>2, <2>3 DEF SlotsInv, SlotsSuffice
<1>2. TypeInv /\ OnceInv /\ ReachInv /\ TablesFound /\ SlotsInv /\ [Next]_vars => SlotsInv'
  BY TypeStep, SlotsStep
<1> QED
  BY SlotsInit, <1>1, <1>2, ReachInvariant, PTL DEF Spec
=============================================================================
