----------------------------- MODULE TidyProofs -----------------------------
(***************************************************************************)
(* From the exploration to the tidied log: the log is a tree of older      *)
(* entries with further edges, and tidy_inst_log takes from its lists what *)
(* is listed twice and nothing else.                                       *)
(***************************************************************************)
EXTENDS EdgeProofs, CfgProps

-----------------------------------------------------------------------------
(* The log as a tree: every entry but the first of its function was logged *)
(* behind an older one.                                                    *)

\* Nothing is logged for the function yet.
Fresh == \A i \in Logged : origin[i][1] # fn

InBlock == pc \in {"fetch", "rtl", "queue", "return"}

\* The entry is the first of its function.
Begins(j) == \A i \in Known : origin[i][1] = origin[j][1] => j <= i

\* Only what is logged first for a function has no predecessor: the slot of the
\* function's entry is the one being processed until something is logged, and no
\* code is found decoded before.
RootInv ==
  /\ \A m \in used : slots[m].prev = 0 => m = n /\ (pc = "scan" => Fresh)
  /\ pc \in {"fetch", "rtl", "queue"} /\ prevI = 0 => Fresh
  /\ Fresh /\ (pc = "scan" \/ InBlock) =>
       /\ n = 0 /\ 0 \in used /\ slots[0].prev = 0 /\ pc # "return"
       /\ InBlock => prevI = 0
       /\ pc = "scan" => \A b \in DOMAIN mark : mark[b] = 0
       /\ pc = "fetch" => \A b \in DOMAIN mark : mark[b] # 0 => b < eip

\* Every function has an entry.
EntryInv ==
  \A f \in 1 .. fn : f < fn \/ pc \in {"main", "done"} => \E i \in Logged : origin[i][1] = f

BlankInv ==
  /\ log[0].prev = <<>> /\ Range(log[0].next) \subseteq Known
  /\ \A j \in Index : j # 0 /\ j \notin Known => log[j].prev = <<>>

HasParent(j) ==
  /\ origin[j][1] > 0
  /\ Begins(j) \/ \E p \in Range(log[j].prev) : p \in 1 .. j - 1
  /\ \A m \in DOMAIN log[j].prev : log[j].prev[m] = 0 => m = 1

TreeInv == RootInv /\ EntryInv /\ BlankInv /\ \A j \in Known : HasParent(j)

LEMMA TreeInit == Init => TreeInv
<1> SUFFICES ASSUME Init PROVE TreeInv
  OBVIOUS
<1>1. /\ fn = 0 /\ pc = "main" /\ used = {} /\ ilog = 1 /\ log = [i \in Index |-> EmptyEntry]
      /\ 0 \in Index
  BY SizesAssumption DEF Init, Index
<1>2. Logged = {} /\ Known = {} /\ Range(<<>>) = {}
  BY <1>1 DEF Logged, Known, Range
<1>3. \A j \in Index : log[j].prev = <<>> /\ log[j].next = <<>>
  BY <1>1 DEF EmptyEntry
<1> QED
  BY <1>1, <1>2, <1>3 DEF TreeInv, RootInv, EntryInv, BlankInv, Fresh, InBlock

\* When something has been logged for the function.
LEMMA FreshStep ==
  ASSUME TypeInv, OnceInv, [Next]_vars
  PROVE  /\ StartFunction => Fresh'
         /\ Advance => ~Fresh'
         /\ ~StartFunction /\ ~Advance => (Fresh' <=> Fresh) /\ fn' = fn /\ ilog' = ilog
<1>t. /\ Logged \subseteq Index /\ ilog \in Nat /\ 0 < ilog /\ fn \in Nat /\ Logged = 1 .. ilog - 1
      /\ origin \in [Index -> Nat \X Nat \X Int] /\ \A i \in Logged : origin[i][1] \in Nat
  BY OnceTypes DEF Logged
<1>1. ASSUME StartFunction PROVE Fresh'
  <2>1. fn' = fn + 1 /\ UNCHANGED <<origin, ilog>>
    BY <1>1 DEF StartFunction
  <2>2. \A i \in Logged : origin[i][1] <= fn
    BY DEF OnceInv, LoggedSeen
  <2> QED
    BY <1>t, <2>1, <2>2 DEF Fresh, Logged
<1>2. ASSUME Advance PROVE ~Fresh'
  <2>1. ilog' = ilog + 1 /\ UNCHANGED <<origin, fn>> /\ pc = "queue"
    BY <1>2 DEF Advance, history
  <2>2. origin[ilog][1] = fn
    BY <2>1 DEF OnceInv, AtPosition
  <2>3. ilog \in Logged'
    BY <1>t, <2>1 DEF Logged
  <2> QED
    BY <2>1, <2>2, <2>3 DEF Fresh
<1>3. ASSUME ~StartFunction, ~Advance
      PROVE  (Fresh' <=> Fresh) /\ fn' = fn /\ ilog' = ilog
  <2>1. CASE Execute
    <3>1. fn' = fn /\ ilog' = ilog
      BY <2>1 DEF Execute
    <3>2. \A i \in Logged : origin'[i] = origin[i]
      BY <1>t, <2>1 DEF Execute
    <3> QED
      BY <3>1, <3>2 DEF Fresh, Logged
  <2>2. CASE ~Execute
    <3>1. UNCHANGED <<fn, ilog, origin>>
      BY <1>3, <2>2 DEF Next, Step, Stopped, vars, AllExplored, TakeSlot, RepeatPass, FinishFunction, Return,
         OverRan, MarkOverrun, BadMark, Rejoin, Decode, LogOverrun, Refused, NoTable, Queue, Stop, history
    <3> QED
      BY <3>1 DEF Fresh, Logged
  <2> QED
    BY <2>1, <2>2
<1> QED
  BY <1>1, <1>2, <1>3

\* Code is found decoded only behind an entry of the function.
LEMMA RejoinBehind ==
  ASSUME TypeInv, RootInv, Rejoin
  PROVE  ~Fresh /\ prevI # 0
<1>1. pc = "fetch" /\ eip \in DOMAIN mark /\ mark[eip] # 0 /\ eip \in Nat
  BY ReachTypes, SizesAssumption DEF Rejoin, InMemory, CanFetch
<1>2. ~Fresh
  BY <1>1 DEF RootInv, InBlock
<1> QED
  BY <1>1, <1>2 DEF RootInv
LEMMA RootStep ==
  TypeInv /\ TypeInv' /\ OnceInv /\ ReachInv /\ RootInv /\ [Next]_vars => RootInv'
<1> SUFFICES ASSUME TypeInv, TypeInv', OnceInv, ReachInv, RootInv, [Next]_vars PROVE RootInv'
  OBVIOUS
<1>t. /\ used \subseteq Slot /\ slots \in [Slot -> [eip : Nat, prev : Index]] /\ 0 \in Slot
      /\ eip \in Nat /\ mark \in [0 .. UsedSize - 1 -> Int] /\ n \in 0 .. SlotCount
      /\ ilog \in Nat /\ 0 < ilog
  BY ReachTypes, OnceTypes DEF TypeInv, TypeOK, MainOK
<1>i. ScanInv
  BY DEF ReachInv
<1>a. \A m \in used : slots[m].prev = 0 => m = n /\ (pc = "scan" => Fresh)
  BY DEF RootInv
<1>b. pc \in {"fetch", "rtl", "queue"} /\ prevI = 0 => Fresh
  BY DEF RootInv
<1>c. Fresh /\ (pc = "scan" \/ InBlock) =>
        /\ n = 0 /\ 0 \in used /\ slots[0].prev = 0 /\ pc # "return"
        /\ InBlock => prevI = 0
        /\ pc = "scan" => \A b \in DOMAIN mark : mark[b] = 0
        /\ pc = "fetch" => \A b \in DOMAIN mark : mark[b] # 0 => b < eip
  BY DEF RootInv
<1>f. /\ StartFunction => Fresh'
      /\ Advance => ~Fresh'
      /\ ~StartFunction /\ ~Advance => (Fresh' <=> Fresh)
  BY FreshStep
<1>1. CASE StartFunction
  <2>1. /\ used' = {0} /\ slots'[0].prev = 0 /\ n' = 0 /\ pc' = "scan"
        /\ mark' = [b \in 0 .. UsedSize - 1 |-> 0]
    BY <1>1, <1>i, <1>t DEF StartFunction, ScanInv
  <2> QED
    BY <1>1, <1>f, <2>1 DEF RootInv, InBlock
<1>2. CASE AllExplored \/ FinishFunction
  <2>1. UNCHANGED <<used, slots, n>> /\ pc' \in {"main", "done"}
    BY <1>2 DEF AllExplored, FinishFunction
  <2> QED
    BY <1>a, <2>1 DEF RootInv, InBlock
<1>3. CASE TakeSlot
  <2>1. PICK m \in used : IsLeast(m, UsedFrom(n)) /\ n' = m
    BY <1>3 DEF TakeSlot, UsedFrom
  <2>2. /\ UNCHANGED <<used, slots, mark>> /\ pc = "scan" /\ pc' = "fetch"
        /\ eip' = slots[m].eip /\ prevI' = slots[m].prev
    BY <1>3, <2>1 DEF TakeSlot, history
  <2>3. Fresh' <=> Fresh
    BY <1>3, <1>f DEF TakeSlot, StartFunction, Advance
  <2>4. \A k \in used : slots[k].prev = 0 => k = n /\ Fresh
    BY <1>a, <2>2
  <2>5. Fresh => m = 0
    <3>1. ASSUME Fresh PROVE 0 \in UsedFrom(n) /\ n = 0
      BY <1>c, <2>2, <3>1 DEF UsedFrom
    <3> QED
      BY <1>t, <2>1, <3>1 DEF IsLeast, UsedFrom, Slot
  <2>6. \A k \in used : slots[k].prev = 0 => k = m
    BY <1>c, <2>2, <2>4, <2>5
  <2>7. slots[m].prev = 0 => Fresh
    BY <2>4
  <2>8. Fresh => /\ m = 0 /\ 0 \in used /\ slots[0].prev = 0
                 /\ \A b \in DOMAIN mark : mark[b] = 0
    BY <1>c, <2>2, <2>5
  <2> QED
    BY <2>1, <2>2, <2>3, <2>6, <2>7, <2>8 DEF RootInv, InBlock
<1>4. CASE RepeatPass
  <2>1. UNCHANGED <<used, slots, prevI, mark>> /\ pc = "scan" /\ pc' = "scan" /\ n' = 0 /\ UsedFrom(n) = {}
    BY <1>4 DEF RepeatPass
  <2>2. n \notin used
    BY <1>t, <2>1 DEF UsedFrom
  <2>3. ~Fresh
    BY <1>c, <2>1, <2>2
  <2>4. ~Fresh'
    BY <1>4, <1>f, <2>3 DEF RepeatPass, StartFunction, Advance
  <2> QED
    BY <1>a, <2>1, <2>2, <2>3, <2>4 DEF RootInv, InBlock
<1>5. CASE Return
  <2>1. UNCHANGED slots /\ pc = "return" /\ pc' = "scan" /\ used' = used \ {n}
    BY <1>5 DEF Return
  <2>2. ~Fresh
    BY <1>c, <2>1 DEF InBlock
  <2>3. ~Fresh'
    BY <1>5, <1>f, <2>2 DEF Return, StartFunction, Advance
  <2> QED
    BY <1>a, <2>1, <2>3 DEF RootInv, InBlock
<1>6. CASE OverRan \/ MarkOverrun \/ BadMark \/ LogOverrun \/ Refused \/ NoTable
  <2>1. UNCHANGED <<used, slots, n>> /\ pc' \in {"failed", "undefined"}
    BY <1>6 DEF OverRan, MarkOverrun, BadMark, LogOverrun, Refused, NoTable, Stop
  <2> QED
    BY <1>a, <2>1 DEF RootInv, InBlock
<1>7. CASE Rejoin
  <2>1. UNCHANGED <<used, slots, n>> /\ pc = "fetch" /\ pc' = "return"
    BY <1>7 DEF Rejoin, InMemory, CanFetch
  <2>2. ~Fresh'
    BY <1>7, <1>f, RejoinBehind DEF Rejoin, StartFunction, Advance
  <2> QED
    BY <1>a, <2>1, <2>2 DEF RootInv, InBlock
<1>8. CASE Decode
  <2>1. /\ UNCHANGED <<used, slots, n, prevI>> /\ pc = "fetch" /\ pc' \in {"failed", "fetch", "rtl"}
        /\ mark' = Marked(eip) /\ eip \in Offset /\ (pc' = "fetch" => eip' = eip + code[eip].len)
    BY <1>8, <1>t, SizesAssumption DEF Decode, InMemory, CanFetch, Offset
  <2>2. Fresh' <=> Fresh
    BY <1>8, <1>f, <2>1 DEF StartFunction, Advance
  <2>3. code[eip].len \in Nat
    BY <2>1, ReachTypes DEF Decoded
  <2>4. ASSUME Fresh, pc' = "fetch", NEW b \in DOMAIN mark', mark'[b] # 0 PROVE b < eip'
    <3>1. DOMAIN mark' = DOMAIN mark /\ b \in Nat
      BY <1>t, <2>1 DEF Marked
    <3>2. b = eip \/ b \in eip .. eip + code[eip].len - 1 \/ mark[b] # 0
      BY <2>1, <2>4, <3>1 DEF Marked
    <3>3. mark[b] # 0 => b < eip
      BY <1>c, <2>1, <2>4, <3>1 DEF InBlock
    <3>4. code[eip].len > 0
      BY <2>1, ReachTypes DEF Decoded
    <3> QED
      BY <1>t, <2>1, <2>3, <2>4, <3>1, <3>2, <3>3, <3>4
  <2> QED
    BY <1>a, <1>b, <1>c, <2>1, <2>2, <2>4 DEF RootInv, InBlock
<1>9. CASE Execute
  <2>1. UNCHANGED <<used, slots, n, prevI>> /\ pc = "rtl" /\ pc' = "queue"
    BY <1>9 DEF Execute
  <2>2. Fresh' <=> Fresh
    BY <1>9, <1>f, <2>1 DEF StartFunction, Advance
  <2> QED
    BY <1>a, <1>b, <1>c, <2>1, <2>2 DEF RootInv, InBlock
<1>10. CASE Queue
  <2>1. UNCHANGED <<n, prevI, pc>> /\ pc = "queue" /\ Claim(Head(pend), ilog)
    BY <1>10 DEF Queue
  <2>2. Fresh' <=> Fresh
    BY <1>10, <1>f, <2>1 DEF Queue, StartFunction, Advance
  <2>3. CASE Free = {}
    BY <1>a, <1>b, <1>c, <2>1, <2>2, <2>3 DEF RootInv, InBlock, Claim
  <2>4. CASE Free # {}
    <3>1. PICK m \in Free : /\ used' = used \cup {m}
                            /\ slots' = [slots EXCEPT ![m] = [eip |-> Head(pend), prev |-> ilog]]
      BY <2>1, <2>4 DEF Claim
    <3>2. \A k \in used' : slots'[k].prev = IF k = m THEN ilog ELSE slots[k].prev
      BY <1>t, <3>1 DEF Free
    <3>3. m \notin used
      BY <3>1 DEF Free
    <3>4. \A k \in used' : slots'[k].prev = 0 => k = n
      BY <1>t, <1>a, <3>1, <3>2
    <3>5. Fresh => /\ n = 0 /\ 0 \in used' /\ slots'[0].prev = 0 /\ prevI = 0
      BY <1>c, <2>1, <3>1, <3>2, <3>3 DEF InBlock
    <3> QED
      BY <1>b, <2>1, <2>2, <3>4, <3>5 DEF RootInv, InBlock
  <2> QED
    BY <2>3, <2>4
<1>11. CASE Advance
  <2>1. UNCHANGED <<used, slots, n>> /\ pc' \in {"return", "fetch", "rtl"} /\ prevI' = ilog /\ ilog # 0
    BY <1>11, <1>t DEF Advance
  <2>2. ~Fresh'
    BY <1>11, <1>f
  <2> QED
    BY <1>a, <2>1, <2>2 DEF RootInv, InBlock
<1>12. CASE UNCHANGED vars
  BY <1>12 DEF vars, RootInv, InBlock, Fresh, Logged
<1> QED
  BY <1>1, <1>2, <1>3, <1>4, <1>5, <1>6, <1>7, <1>8, <1>9, <1>10, <1>11, <1>12 DEF Next, Step, Stopped

LEMMA EntryStep ==
  TypeInv /\ TypeInv' /\ OnceInv /\ RootInv /\ EntryInv /\ [Next]_vars => EntryInv'
<1> SUFFICES ASSUME TypeInv, TypeInv', OnceInv, RootInv, EntryInv, [Next]_vars,
                    NEW f \in 1 .. fn', f < fn' \/ pc' \in {"main", "done"}
             PROVE  \E i \in Logged' : origin'[i][1] = f
  BY DEF EntryInv
<1>t. /\ fn \in Nat /\ fn' \in Nat /\ ilog \in Nat /\ 0 < ilog /\ Logged \subseteq Index
      /\ f \in Nat
  BY OnceTypes DEF TypeInv, TypeOK, MainOK, CodeOK
<1>k. ASSUME NEW i \in Logged, origin[i][1] = f PROVE \E k \in Logged' : origin'[k][1] = f
  <2>1. i \in Known /\ origin'[i] = origin[i] /\ i \in Known'
    BY <1>t, <1>k, KnownKept DEF Known, Logged
  <2>2. i \in Logged'
    <3>1. ilog' = ilog \/ ilog' = ilog + 1
      BY FreshStep DEF StartFunction, Advance
    <3>2. i \in 1 .. ilog - 1 /\ Logged' = 1 .. ilog' - 1
      BY <1>k DEF Logged
    <3> QED
      BY <1>t, <3>1, <3>2
  <2> QED
    BY <1>k, <2>1, <2>2
<1>1. CASE StartFunction
  <2>1. f \in 1 .. fn /\ pc = "main"
    BY <1>1, <1>t DEF StartFunction
  <2> QED
    BY <1>k, <2>1 DEF EntryInv
<1>2. CASE ~StartFunction
  <2>1. fn' = fn
    BY <1>2, FreshStep DEF Advance
  <2>2. CASE f < fn \/ pc \in {"main", "done"}
    BY <1>k, <2>1, <2>2 DEF EntryInv
  <2>3. CASE f = fn /\ pc \notin {"main", "done"}
    <3>1. FinishFunction
      BY <1>2, <2>1, <2>3 DEF Next, Step, Stopped, vars, AllExplored, TakeSlot, RepeatPass, Return,
         OverRan, MarkOverrun, BadMark, Rejoin, Decode, LogOverrun, Refused, NoTable, Execute, Queue, Advance, Stop
    <3>2. ~Fresh
      <4>1. pc = "scan" /\ UsedFrom(n) = {}
        BY <3>1 DEF FinishFunction
      <4>2. n = 0 /\ 0 \in used => 0 \in UsedFrom(n)
        BY DEF UsedFrom
      <4> QED
        BY <4>1, <4>2 DEF RootInv
    <3> QED
      BY <1>k, <2>3, <3>2 DEF Fresh
  <2> QED
    BY <1>t, <2>1, <2>2, <2>3
<1> QED
  BY <1>1, <1>2
\* Arriving at decoded code appends the predecessor to one list.
LEMMA RejoinPrev ==
  ASSUME TypeInv, Rejoin
  PROVE  \A k \in Index : log'[k].prev = IF k = mark[eip] THEN Append(log[k].prev, prevI) ELSE log[k].prev
<1>t. /\ log \in [Index -> Entry] /\ prevI \in Index
      /\ \A k \in Index : log[k].next \in Seq(Index) /\ log[k].prev \in Seq(Index)
      /\ \A s \in Seq(Index), k \in Index : Append(s, k) \in Seq(Index)
  BY LogLists
<1> DEFINE j == mark[eip]
           linked == [log EXCEPT ![j].prev = Append(@, prevI)]
<1>1. j \in Index /\ log' = Joined(prevI, j)
  BY DEF Rejoin
<1>2. /\ linked \in [Index -> Entry]
      /\ \A k \in Index : linked[k].prev = IF k = j THEN Append(log[k].prev, prevI) ELSE log[k].prev
  BY <1>t, <1>1 DEF Entry
<1>3. CASE log' = linked
  BY <1>2, <1>3
<1>4. CASE log' # linked
  <2>1. log' = [linked EXCEPT ![prevI].next = Append(@, j)]
    BY <1>1, <1>4 DEF Joined
  <2> DEFINE x == Append(linked[prevI].next, j)
  <2>2. log' = [linked EXCEPT ![prevI].next = x]
    BY <1>t, <1>2, <2>1
  <2> HIDE DEF linked, j, x
  <2>3. \A k \in Index : log'[k].prev = linked[k].prev
    BY <1>t, <1>2, <2>2, NextOnly DEF Entry
  <2> QED
    BY <1>2, <2>3 DEF j
<1> QED
  BY <1>3, <1>4

\* Logging an RTL instruction appends the one executed before it to the new entry.
LEMMA ExecutePrev ==
  ASSUME TypeInv, Execute
  PROVE  \A k \in Index : log'[k].prev = IF k = ilog THEN Append(log[k].prev, prevI) ELSE log[k].prev
<1>t. /\ log \in [Index -> Entry] /\ prevI \in Index
      /\ \A k \in Index : log[k].next \in Seq(Index) /\ log[k].prev \in Seq(Index)
      /\ \A s \in Seq(Index), k \in Index : Append(s, k) \in Seq(Index)
  BY LogLists
<1> DEFINE made == [log EXCEPT ![ilog].op = Head(todo).op, ![ilog].to = Head(todo).to,
                               ![ilog].prev = Append(@, prevI)]
           x == Append(made[prevI].next, ilog)
<1>1. ilog \in Index /\ log' = [made EXCEPT ![prevI].next = Append(@, ilog)]
  BY DEF Execute
<1>2. made \in [Index -> Entry]
  <2>1. Head(todo) \in RtlInst
    BY HeadTailProperties DEF TypeInv, TypeOK, BlockOK, PcOK, Execute
  <2> QED
    BY <1>t, <1>1, <2>1 DEF Entry, RtlInst
<1>3. \A k \in Index : made[k].prev = IF k = ilog THEN Append(log[k].prev, prevI) ELSE log[k].prev
  BY <1>t, <1>1 DEF Entry
<1>4. log' = [made EXCEPT ![prevI].next = x]
  BY <1>t, <1>1, <1>2
<1> HIDE DEF made, x
<1> QED
  BY <1>t, <1>2, <1>3, <1>4, NextOnly DEF Entry

\* Decoded code is marked with the number of an entry, as long as NOPs come first.
LEMMA RejoinLogged ==
  ASSUME TypeInv, ReachInv, MarksInv, Rejoin
  PROVE  mark[eip] \in Logged /\ Known = Logged
<1>1. /\ pc = "fetch" /\ eip \in DOMAIN mark /\ mark[eip] > 0 /\ mark[eip] \in Int /\ ilog \in Nat
  <2>1. pc = "fetch" /\ eip \in DOMAIN mark /\ mark[eip] # 0 /\ mark[eip] \in Index
    BY ReachTypes, SizesAssumption DEF Rejoin, InMemory, CanFetch
  <2>2. ilog \in Nat /\ LogSize \in Nat
    BY OnceTypes, SizesAssumption
  <2> QED
    BY <2>1, <2>2 DEF Index
<1>2. eip \in seen
  BY <1>1 DEF ReachInv, MarkInv
<1>3. mark[eip] # ilog /\ mark[eip] <= ilog
  BY <1>1, <1>2 DEF MarksInv
<1> QED
  BY <1>1, <1>3 DEF Known, Logged

LEMMA BlankStep ==
  ASSUME TypeInv, TypeInv', ReachInv, WayInv, MarksInv, BlankInv, [Next]_vars
  PROVE  BlankInv'
<1>t. /\ ilog \in Nat /\ 0 < ilog /\ Logged \subseteq Index /\ Logged = 1 .. ilog - 1 /\ 0 \in Index
  BY OnceTypes, SizesAssumption DEF Logged, Index
<1>k. Known \subseteq Known'
  BY KnownKept
<1>i. /\ log[0].prev = <<>> /\ Range(log[0].next) \subseteq Known
      /\ \A j \in Index : j # 0 /\ j \notin Known => log[j].prev = <<>>
  BY DEF BlankInv
<1>1. CASE Rejoin
  <2> DEFINE j == mark[eip]
  <2>1. j \in Logged /\ Known = Logged /\ Links(prevI, j)
    BY <1>1, RejoinLogged, RejoinLinks
  <2>2. \A k \in Index : log'[k].prev = IF k = j THEN Append(log[k].prev, prevI) ELSE log[k].prev
    BY <1>1, RejoinPrev
  <2> HIDE DEF j
  <2>3. Range(log'[0].next) \subseteq Range(log[0].next) \cup {j}
    BY <1>t, <2>1 DEF Links
  <2>4. j # 0 /\ j \in Known
    BY <1>t, <2>1
  <2> QED
    BY <1>t, <1>k, <1>i, <2>2, <2>3, <2>4 DEF BlankInv
<1>2. CASE Execute
  <2>1. ilog \in Index /\ Links(prevI, ilog) /\ ilog \in Known'
    BY <1>2, <1>t, ExecuteLinks DEF Execute, Known
  <2>2. \A k \in Index : log'[k].prev = IF k = ilog THEN Append(log[k].prev, prevI) ELSE log[k].prev
    BY <1>2, ExecutePrev
  <2>3. Range(log'[0].next) \subseteq Range(log[0].next) \cup {ilog}
    BY <1>t, <2>1 DEF Links
  <2>4. log'[0].prev = <<>>
    BY <1>t, <1>i, <2>2
  <2>5. Range(log'[0].next) \subseteq Known'
    BY <1>k, <1>i, <2>1, <2>3
  <2>6. \A j \in Index : j # 0 /\ j \notin Known' => log'[j].prev = <<>>
    BY <1>k, <1>i, <2>1, <2>2
  <2> QED
    BY <2>4, <2>5, <2>6 DEF BlankInv
<1>3. CASE ~Rejoin /\ ~Execute
  <2>1. \A k \in Index : log'[k].next = log[k].next /\ log'[k].prev = log[k].prev
    BY <1>3, OthersLinkNone
  <2> QED
    BY <1>t, <1>k, <1>i, <2>1 DEF BlankInv
<1> QED
  BY <1>1, <1>2, <1>3

\* The first entry of a function remains the first.
LEMMA BeginsKept ==
  ASSUME TypeInv, [Next]_vars, NEW j \in Known, Begins(j)
  PROVE  Begins(j)'
<1>t. ilog \in Nat /\ 0 < ilog
  BY OnceTypes
<1> SUFFICES ASSUME NEW i \in Known', origin'[i][1] = origin'[j][1] PROVE j <= i
  BY DEF Begins
<1>1. origin'[j] = origin[j]
  BY KnownKept
<1>2. CASE i \in Known
  BY <1>1, <1>2, KnownKept DEF Begins
<1>3. CASE i \notin Known
  <2>1. Execute /\ i = ilog
    BY <1>3, KnownNew
  <2> QED
    BY <1>t, <2>1 DEF Execute, Known, Logged
<1> QED
  BY <1>2, <1>3

LEMMA ParentStep ==
  ASSUME TypeInv, TypeInv', OnceInv, OnceInv', ReachInv, WayInv, MarksInv, RootInv, BlankInv, StartedInv,
         \A j \in Known : HasParent(j), [Next]_vars
  PROVE  \A j \in Known' : HasParent(j)'
<1>t. /\ ilog \in Nat /\ 0 < ilog /\ Logged \subseteq Index /\ Logged = 1 .. ilog - 1 /\ Known \subseteq Index
      /\ prevI \in Index /\ \A j \in Index : log[j].prev \in Seq(Index)
  BY OnceTypes, KnownIn, LogLists DEF Logged
\* The predecessors of an entry that was logged before remain, and 0 is not added.
<1>1. ASSUME NEW j \in Known,
             \/ log'[j].prev = log[j].prev
             \/ log'[j].prev = Append(log[j].prev, prevI) /\ prevI # 0
      PROVE  HasParent(j)'
  <2> DEFINE s == log[j].prev
             t == log'[j].prev
  <2>1. HasParent(j) /\ origin'[j] = origin[j] /\ s \in Seq(Index)
    BY <1>t, KnownKept
  <2>2. Range(s) \subseteq Range(t)
    <3>1. Range(Append(s, prevI)) = Range(s) \cup {prevI}
      BY <1>t, <2>1, RangeAppend
    <3> HIDE DEF s
    <3> QED
      BY <1>1, <3>1 DEF s
  <2>3. \A m \in DOMAIN t : t[m] = 0 => m \in DOMAIN s /\ s[m] = 0
    <3>1. CASE t = s
      BY <3>1
    <3>2. CASE t = Append(s, prevI) /\ prevI # 0
      <4>1. /\ Len(s) \in Nat /\ DOMAIN s = 1 .. Len(s) /\ DOMAIN t = 1 .. Len(s) + 1
            /\ t[Len(s) + 1] = prevI /\ \A m \in 1 .. Len(s) : t[m] = s[m]
        BY <1>t, <2>1, <3>2, LenProperties, AppendProperties
      <4> HIDE DEF s, t
      <4> QED
        BY <3>2, <4>1
    <3> QED
      BY <1>1, <3>1, <3>2
  <2>4. Begins(j) => Begins(j)'
    BY BeginsKept
  <2> QED
    BY <2>1, <2>2, <2>3, <2>4 DEF HasParent
<1>2. CASE Rejoin
  <2>1. Known' = Known
    BY <1>2, RejoinLogged DEF Rejoin, Known, Logged, InMemory, CanFetch
  <2>2. prevI # 0
    BY <1>2, RejoinBehind
  <2> QED
    BY <1>1, <1>2, <1>t, <2>1, <2>2, RejoinPrev
<1>3. CASE Execute
  <2>1. /\ UNCHANGED <<ilog, fn>> /\ pc = "rtl" /\ pc' = "queue" /\ Logged' = Logged
        /\ Known' = Logged \cup {ilog} /\ Known = Logged
    BY <1>3, <1>t DEF Execute, Logged, Known
  <2>2. \A j \in Known : HasParent(j)'
    BY <1>1, <1>3, <1>t, <2>1, ExecutePrev
  <2>3. HasParent(ilog)'
    <3>1. origin'[ilog][1] = fn /\ ilog \in Index
      BY <1>3, AtPositionNext DEF Execute
    <3>2. log[ilog].prev = <<>>
      <4>1. ilog # 0 /\ ilog \notin Known
        BY <1>t, <2>1
      <4> QED
        BY <3>1, <4>1 DEF BlankInv
    <3>3. log'[ilog].prev = <<prevI>>
      <4>1. log'[ilog].prev = Append(log[ilog].prev, prevI)
        BY <1>3, <3>1, ExecutePrev
      <4>2. Append(<<>>, prevI) = <<prevI>>
        OBVIOUS
      <4> QED
        BY <3>2, <4>1, <4>2
    <3>4. Range(log'[ilog].prev) = {prevI} /\ DOMAIN log'[ilog].prev = {1}
      BY <3>3 DEF Range
    <3>5. fn > 0
      BY <2>1 DEF StartedInv
    <3>6. CASE prevI = 0
      <4>1. Fresh
        BY <2>1, <3>6 DEF RootInv
      <4>2. \A i \in Logged : origin'[i] = origin[i]
        BY <2>1, KnownKept
      <4>3. Begins(ilog)'
        BY <1>t, <2>1, <3>1, <4>1, <4>2 DEF Begins, Fresh
      <4> QED
        BY <2>1, <3>1, <3>4, <3>5, <4>3 DEF HasParent
    <3>7. CASE prevI # 0
      <4>1. prevI \in Logged
        BY <2>1, <3>7 DEF WayInv, From
      <4> QED
        BY <1>t, <2>1, <3>1, <3>4, <3>5, <4>1 DEF HasParent
    <3> QED
      BY <3>6, <3>7
  <2> QED
    BY <2>1, <2>2, <2>3
<1>4. CASE ~Rejoin /\ ~Execute
  <2>1. \A k \in Index : log'[k].prev = log[k].prev
    BY <1>4, OthersLinkNone
  <2>2. Known' \subseteq Known
    BY <1>4, KnownNew
  <2> QED
    BY <1>1, <1>t, <2>1, <2>2
<1> QED
  BY <1>2, <1>3, <1>4

-----------------------------------------------------------------------------
(* Loops *)

\* What is computed for d numbers, each from what was computed for a smaller one.
Computed(X, x, G, to, d) ==
  {f \in [0 .. d -> X] : f[0] = x /\ \A m \in 1 .. d : f[m] = G[<<m, f[to[m]]>>]}

LEMMA OneMore ==
  ASSUME NEW X, NEW x \in X, NEW k \in Nat, NEW G \in [(1 .. k) \X X -> X],
         NEW to \in [1 .. k -> Nat], \A m \in 1 .. k : to[m] < m,
         NEW d \in 1 .. k, Computed(X, x, G, to, d - 1) # {}
  PROVE  Computed(X, x, G, to, d) # {}
<1>1. PICK f \in [0 .. d - 1 -> X] : f[0] = x /\ \A m \in 1 .. d - 1 : f[m] = G[<<m, f[to[m]]>>]
  BY DEF Computed
<1> DEFINE y == G[<<d, f[to[d]]>>]
           g == [m \in 0 .. d |-> IF m = d THEN y ELSE f[m]]
<1>2. d \in Nat /\ d - 1 \in Nat /\ to[d] \in 0 .. d - 1
  OBVIOUS
<1>3. y \in X
  <2>1. f[to[d]] \in X
    BY <1>1, <1>2
  <2>2. <<d, f[to[d]]>> \in (1 .. k) \X X
    BY <2>1
  <2> QED
    BY <2>2
<1> HIDE DEF y
<1>4. g \in [0 .. d -> X]
  <2>1. ASSUME NEW m \in 0 .. d, m # d PROVE f[m] \in X
    BY <1>1, <1>2, <2>1
  <2> QED
    BY <1>3, <2>1
<1>5. g[0] = x /\ g[d] = y /\ \A m \in 0 .. d - 1 : g[m] = f[m]
  BY <1>1, <1>2
<1> HIDE DEF g
<1>6. ASSUME NEW m \in 1 .. d PROVE g[m] = G[<<m, g[to[m]]>>]
  <2>1. to[m] \in 0 .. d - 1
    <3>1. m \in 1 .. k /\ to[m] \in Nat /\ to[m] < m /\ m <= d
      BY <1>2, <1>6
    <3> QED
      BY <1>2, <3>1
  <2>2. g[to[m]] = f[to[m]]
    BY <1>5, <2>1
  <2>3. CASE m = d
    BY <1>5, <2>2, <2>3 DEF y
  <2>4. CASE m # d
    <3>1. m \in 1 .. d - 1 /\ m \in 0 .. d - 1
      BY <1>2, <1>6, <2>4
    <3> QED
      BY <1>1, <1>5, <2>2, <3>1
  <2> QED
    BY <2>3, <2>4
<1>7. g \in Computed(X, x, G, to, d)
  BY <1>4, <1>5, <1>6 DEF Computed
<1> QED
  BY <1>7

LEMMA Recursion ==
  ASSUME NEW X, NEW x \in X, NEW k \in Nat, NEW G \in [(1 .. k) \X X -> X],
         NEW to \in [1 .. k -> Nat], \A m \in 1 .. k : to[m] < m
  PROVE  Computed(X, x, G, to, k) # {}
<1> DEFINE T == {d \in 0 .. k : Computed(X, x, G, to, d) = {}}
<1>1. T = {}
  <2> SUFFICES ASSUME T # {} PROVE FALSE
    OBVIOUS
  <2>1. T \subseteq Nat
    OBVIOUS
  <2>2. PICK d \in T : \A e \in T : d <= e
    BY <2>1, Least
  <2>3. d \in 0 .. k /\ Computed(X, x, G, to, d) = {}
    BY <2>2
  <2>4. d # 0
    <3> DEFINE f == [m \in 0 .. 0 |-> x]
    <3>1. f \in [0 .. 0 -> X] /\ f[0] = x
      OBVIOUS
    <3> HIDE DEF f
    <3>2. \A m \in 1 .. 0 : f[m] = G[<<m, f[to[m]]>>]
      OBVIOUS
    <3>3. f \in Computed(X, x, G, to, 0)
      BY <3>1, <3>2 DEF Computed
    <3>4. Computed(X, x, G, to, 0) # {}
      BY <3>3
    <3> HIDE DEF T
    <3> QED
      BY <2>3, <3>4
  <2>5. d - 1 \in 0 .. k /\ d \in 1 .. k
    BY <2>3, <2>4
  <2>6. Computed(X, x, G, to, d - 1) # {}
    <3>1. \A e \in 0 .. k : e \notin T => Computed(X, x, G, to, e) # {}
      OBVIOUS
    <3> HIDE DEF T
    <3>2. d - 1 \notin T
      BY <2>2, <2>3
    <3> QED
      BY <2>5, <3>1, <3>2
  <2> HIDE DEF T
  <2>7. Computed(X, x, G, to, d) # {}
    BY <2>5, <2>6, OneMore
  <2> QED
    BY <2>3, <2>7
<1> QED
  BY <1>1

LEMMA RemoveAtIs ==
  ASSUME NEW s \in Seq(Nat), NEW m \in 1 .. Len(s)
  PROVE  /\ RemoveAt(s, m) \in Seq(Nat) /\ Len(RemoveAt(s, m)) = Len(s) - 1
         /\ \A a \in 1 .. Len(s) - 1 : RemoveAt(s, m)[a] = IF a < m THEN s[a] ELSE s[a + 1]
<1> DEFINE u == SubSeq(s, 1, m - 1)  v == SubSeq(s, m + 1, Len(s))
<1>1. Len(s) \in Nat /\ \A a \in 1 .. Len(s) : s[a] \in Nat
  BY LenProperties, ElementOfSeq
<1>2. /\ u \in Seq(Nat) /\ Len(u) = m - 1
      /\ \A a \in 1 .. m - 1 : u[a] = s[a]
  <2>1. 1 \in Int /\ m - 1 \in Int /\ \A a \in 1 .. m - 1 : s[a] \in Nat
    BY <1>1
  <2>2. /\ SubSeq(s, 1, m - 1) \in Seq(Nat)
        /\ Len(SubSeq(s, 1, m - 1)) = IF 1 <= m - 1 THEN (m - 1) - 1 + 1 ELSE 0
        /\ \A a \in 1 .. (m - 1) - 1 + 1 : SubSeq(s, 1, m - 1)[a] = s[1 + a - 1]
    BY <2>1, SubSeqProperties
  <2> QED
    BY <1>1, <2>2
<1>3. /\ v \in Seq(Nat) /\ Len(v) = Len(s) - m
      /\ \A a \in 1 .. Len(s) - m : v[a] = s[a + m]
  <2>1. m + 1 \in Int /\ Len(s) \in Int /\ \A a \in m + 1 .. Len(s) : s[a] \in Nat
    BY <1>1
  <2>2. /\ SubSeq(s, m + 1, Len(s)) \in Seq(Nat)
        /\ Len(SubSeq(s, m + 1, Len(s))) = IF m + 1 <= Len(s) THEN Len(s) - (m + 1) + 1 ELSE 0
        /\ \A a \in 1 .. Len(s) - (m + 1) + 1 : SubSeq(s, m + 1, Len(s))[a] = s[m + 1 + a - 1]
    BY <2>1, SubSeqProperties
  <2>3. ASSUME NEW a \in 1 .. Len(s) - m PROVE v[a] = s[a + m]
    <3>1. a \in 1 .. Len(s) - (m + 1) + 1 /\ m + 1 + a - 1 = a + m
      BY <1>1, <2>3
    <3>2. v[a] = s[m + 1 + a - 1]
      BY <2>2, <3>1
    <3> QED
      BY <3>1, <3>2
  <2>4. Len(v) = Len(s) - m
    <3>1. m + 1 <= Len(s) => Len(s) - (m + 1) + 1 = Len(s) - m
      BY <1>1
    <3>2. ~(m + 1 <= Len(s)) => 0 = Len(s) - m
      BY <1>1
    <3> QED
      BY <2>2, <3>1, <3>2
  <2>5. v \in Seq(Nat)
    BY <2>2
  <2> HIDE DEF v
  <2> QED
    BY <2>3, <2>4, <2>5
<1> HIDE DEF u, v
<1> DEFINE w == u \o v
<1>4. /\ w \in Seq(Nat) /\ Len(w) = Len(u) + Len(v)
      /\ \A a \in 1 .. Len(u) + Len(v) : w[a] = IF a <= Len(u) THEN u[a] ELSE v[a - Len(u)]
  <2>1. u \in Seq(Nat) /\ v \in Seq(Nat)
    BY <1>2, <1>3
  <2> QED
    BY <2>1, ConcatProperties
<1> HIDE DEF w
<1>5. Len(w) = Len(s) - 1 /\ \A a \in 1 .. Len(s) - 1 : w[a] = IF a <= m - 1 THEN u[a] ELSE v[a - (m - 1)]
  <2>1. Len(u) + Len(v) = Len(s) - 1
    BY <1>1, <1>2, <1>3
  <2> QED
    BY <1>2, <1>4, <2>1
<1>6. ASSUME NEW a \in 1 .. Len(s) - 1 PROVE w[a] = IF a < m THEN s[a] ELSE s[a + 1]
  <2>1. a \in Int /\ m \in Int /\ Len(s) \in Int /\ 1 <= a /\ a <= Len(s) - 1
    BY <1>1
  <2>2. CASE a < m
    <3>1. a <= m - 1 /\ a \in 1 .. m - 1
      BY <2>1, <2>2
    <3> QED
      BY <1>2, <1>5, <2>2, <3>1
  <2>3. CASE ~(a < m)
    <3>1. /\ a - (m - 1) \in 1 .. Len(s) - m /\ a - (m - 1) + m = a + 1
          /\ ~(a <= m - 1)
      BY <2>1, <2>3
    <3>2. w[a] = v[a - (m - 1)]
      BY <1>5, <3>1
    <3>3. v[a - (m - 1)] = s[a - (m - 1) + m]
      BY <1>3, <3>1
    <3> QED
      BY <2>3, <3>1, <3>2, <3>3
  <2> QED
    BY <2>2, <2>3
<1>7. RemoveAt(s, m) = w
  BY DEF RemoveAt, u, v, w
<1> QED
  BY <1>4, <1>5, <1>6, <1>7

\* A turn of the loop that closes up the cleared elements.
Turn(t, m) == IF m < Len(t) /\ t[m] = 0 THEN RemoveAt(t, m) ELSE t

LEMMA TurnIs ==
  ASSUME NEW t \in Seq(Nat), NEW m \in Nat \ {0}
  PROVE  Turn(t, m) \in Seq(Nat)
<1>1. ASSUME m < Len(t) PROVE m \in 1 .. Len(t)
  BY <1>1, LenProperties
<1>2. ASSUME m < Len(t) PROVE RemoveAt(t, m) \in Seq(Nat)
  BY <1>1, <1>2, RemoveAtIs
<1> QED
  BY <1>2 DEF Turn

LEMMA CompactedTurns ==
  ASSUME NEW s \in Seq(Nat)
  PROVE  \E f : /\ f[0] = s /\ \A m \in 1 .. Len(s) : f[m] = Turn(f[m - 1], m)
                /\ Compacted(s) = f[Len(s)]
<1> DEFINE k == Len(s)
           P(a) == a = [m \in 0 .. k |-> IF m = 0 THEN s
                          ELSE IF m < Len(a[m - 1]) /\ a[m - 1][m] = 0 THEN RemoveAt(a[m - 1], m) ELSE a[m - 1]]
           G == [q \in (1 .. k) \X Seq(Nat) |-> Turn(q[2], q[1])]
           to == [m \in 1 .. k |-> m - 1]
<1>1. k \in Nat
  BY LenProperties
<1>2. G \in [(1 .. k) \X Seq(Nat) -> Seq(Nat)]
  <2>1. \A q \in (1 .. k) \X Seq(Nat) : q[1] \in Nat \ {0} /\ q[2] \in Seq(Nat)
    BY <1>1
  <2> QED
    BY <2>1, TurnIs
<1>3. to \in [1 .. k -> Nat] /\ \A m \in 1 .. k : to[m] < m /\ to[m] = m - 1
  BY <1>1
<1>4. \A m \in 1 .. k, t \in Seq(Nat) : G[<<m, t>>] = Turn(t, m)
  OBVIOUS
<1>5. Compacted(s) = (CHOOSE a : P(a))[k]
  BY DEF Compacted
<1> HIDE DEF G, to
<1>6. PICK g \in [0 .. k -> Seq(Nat)] : g[0] = s /\ \A m \in 1 .. k : g[m] = G[<<m, g[to[m]]>>]
  <2> DEFINE X == Seq(Nat)
  <2>1. s \in X /\ k \in Nat /\ G \in [(1 .. k) \X X -> X] /\ to \in [1 .. k -> Nat]
    BY <1>1, <1>2, <1>3
  <2>2. \A m \in 1 .. k : to[m] < m
    BY <1>3
  <2> HIDE DEF k, P, X
  <2>3. Computed(X, s, G, to, k) # {}
    BY <2>1, <2>2, Recursion
  <2> QED
    BY <2>3 DEF X, Computed
<1>7. \A m \in 1 .. k : g[m] = Turn(g[m - 1], m)
  <2> SUFFICES ASSUME NEW m \in 1 .. k PROVE g[m] = Turn(g[m - 1], m)
    OBVIOUS
  <2>1. m - 1 \in 0 .. k /\ to[m] = m - 1
    BY <1>1, <1>3
  <2>2. g[m - 1] \in Seq(Nat)
    BY <1>6, <2>1
  <2> QED
    BY <1>4, <1>6, <2>1, <2>2
<1>8. P(g)
  <2>1. ASSUME NEW m \in 0 .. k, m # 0
        PROVE  g[m] = IF m < Len(g[m - 1]) /\ g[m - 1][m] = 0 THEN RemoveAt(g[m - 1], m) ELSE g[m - 1]
    <3>1. m \in 1 .. k
      BY <1>1, <2>1
    <3> QED
      BY <1>7, <3>1 DEF Turn
  <2> HIDE DEF k
  <2> QED
    BY <1>6, <2>1
<1> DEFINE f == CHOOSE a : P(a)
<1>9. P(f)
  BY <1>8
<1>10. f[0] = s /\ \A m \in 1 .. k : f[m] = Turn(f[m - 1], m)
  <2>1. f[0] = s
    <3> HIDE DEF f
    <3>1. 0 \in 0 .. k
      BY <1>1
    <3> QED
      BY <1>9, <3>1
  <2>2. ASSUME NEW m \in 1 .. k PROVE f[m] = Turn(f[m - 1], m)
    <3> HIDE DEF f
    <3>1. m \in 0 .. k /\ m # 0
      BY <1>1
    <3> HIDE DEF k
    <3> QED
      BY <1>9, <3>1 DEF Turn
  <2> QED
    BY <2>1, <2>2
<1>11. Compacted(s) = f[k]
  BY <1>5
<1> HIDE DEF f
<1> QED
  BY <1>10, <1>11

\* What stays true of a list s while it is closed up to position m.
Holds(t, x) == \E a \in 1 .. Len(t) : t[a] = x

Closing(s, t, m) ==
  /\ t \in Seq(Nat) /\ Len(t) > 0 /\ Len(t) <= Len(s)
  /\ \A x \in Nat \ {0} : Holds(t, x) <=> Holds(s, x)
  /\ \A a \in 1 .. Len(t) : \A b \in 1 .. Len(t) : t[a] = t[b] /\ a # b => t[a] = 0
  /\ \A a \in 1 .. Len(t) - 1 : t[a] = 0 => t[a + 1] # 0
  /\ t[Len(t)] # 0
  /\ \A a \in 1 .. Len(t) : a <= m => t[a] # 0

LEMMA ClosingStep ==
  ASSUME NEW s \in Seq(Nat), NEW t, NEW m \in Nat \ {0}, Closing(s, t, m - 1)
  PROVE  Closing(s, Turn(t, m), m)
<1>1. /\ t \in Seq(Nat) /\ Len(t) \in Nat /\ Len(t) > 0 /\ m \in Nat /\ m >= 1
      /\ \A a \in 1 .. Len(t) : t[a] \in Nat
  BY LenProperties, ElementOfSeq DEF Closing
<1>2. CASE ~(m < Len(t) /\ t[m] = 0)
  <2>1. Turn(t, m) = t
    BY <1>2 DEF Turn
  <2>2. ASSUME NEW a \in 1 .. Len(t), a <= m PROVE t[a] # 0
    <3>1. a <= m - 1 \/ (a = m /\ m < Len(t)) \/ a = Len(t)
      BY <1>1, <2>2
    <3> QED
      BY <1>1, <1>2, <2>2, <3>1 DEF Closing
  <2> QED
    BY <2>1, <2>2 DEF Closing
<1>3. CASE m < Len(t) /\ t[m] = 0
  <2> DEFINE u == Turn(t, m)  k == Len(t) - 1
             O(a) == IF a < m THEN a ELSE a + 1
  <2>1. /\ u \in Seq(Nat) /\ Len(u) = k
        /\ \A a \in 1 .. k : u[a] = IF a < m THEN t[a] ELSE t[a + 1]
    <3>1. m \in 1 .. Len(t)
      BY <1>1, <1>3
    <3>2. u = RemoveAt(t, m)
      BY <1>3 DEF Turn
    <3> QED
      BY <1>1, <3>1, <3>2, RemoveAtIs
  <2> HIDE DEF u
  <2>2. k \in Nat /\ k > 0 /\ k + 1 = Len(t) /\ m <= k
    BY <1>1, <1>3
  <2>3. ASSUME NEW a \in 1 .. k PROVE O(a) \in 1 .. Len(t) /\ O(a) # m /\ u[a] = t[O(a)]
    <3>1. CASE a < m
      <4>1. O(a) = a /\ a # m /\ a \in 1 .. Len(t)
        BY <1>1, <2>2, <3>1
      <4> QED
        BY <2>1, <3>1, <4>1
    <3>2. CASE ~(a < m)
      <4>1. O(a) = a + 1 /\ a + 1 # m /\ a + 1 \in 1 .. Len(t)
        BY <1>1, <2>2, <3>2
      <4> QED
        BY <2>1, <3>2, <4>1
    <3> QED
      BY <3>1, <3>2
  <2>4. \A a \in 1 .. k : \A b \in 1 .. k : a # b => O(a) # O(b)
    BY <1>1, <2>2
  <2>5. ASSUME NEW b \in 1 .. Len(t), b # m PROVE \E a \in 1 .. k : O(a) = b
    <3>1. CASE b < m
      <4>1. b \in 1 .. k /\ O(b) = b
        BY <1>1, <2>2, <3>1
      <4> QED
        BY <4>1
    <3>2. CASE b > m
      <4>1. b - 1 \in 1 .. k /\ O(b - 1) = b
        BY <1>1, <2>2, <3>2
      <4> QED
        BY <4>1
    <3> QED
      BY <1>1, <2>5, <3>1, <3>2
  <2>6. /\ O(k) = Len(t)
        /\ \A a \in 1 .. k - 1 : O(a + 1) = O(a) + 1 \/ a < m
    <3>1. O(k) = Len(t)
      <4>1. ~(k < m) /\ k + 1 = Len(t)
        BY <1>1, <2>2
      <4> HIDE DEF k
      <4> QED
        BY <4>1
    <3>2. ASSUME NEW a \in 1 .. k - 1, ~(a < m) PROVE O(a + 1) = O(a) + 1
      <4>1. ~(a + 1 < m)
        BY <1>1, <2>2, <3>2
      <4> QED
        BY <3>2, <4>1
    <3> QED
      BY <3>1, <3>2
  <2>7. \A a \in 1 .. k : a < m => O(a) = a
    BY <1>1, <2>2
  <2>8. \A a \in 1 .. k : a = m => O(a) = m + 1
    BY <1>1, <2>2
  <2> HIDE DEF O
  <2>9. \A x \in Nat \ {0} : Holds(u, x) <=> Holds(s, x)
    <3> SUFFICES ASSUME NEW x \in Nat \ {0} PROVE Holds(u, x) <=> Holds(t, x)
      BY DEF Closing
    <3>1. Holds(u, x) => Holds(t, x)
      BY <2>1, <2>3 DEF Holds
    <3>2. ASSUME NEW b \in 1 .. Len(t), t[b] = x PROVE \E a \in 1 .. k : u[a] = x
      <4>1. b # m
        BY <1>3, <3>2
      <4>2. PICK a \in 1 .. k : O(a) = b
        BY <2>5, <4>1
      <4> QED
        BY <2>3, <3>2, <4>2
    <3> QED
      BY <2>1, <3>1, <3>2 DEF Holds
  <2>10. \A a \in 1 .. k : \A b \in 1 .. k : u[a] = u[b] /\ a # b => u[a] = 0
    <3> SUFFICES ASSUME NEW a \in 1 .. k, NEW b \in 1 .. k, u[a] = u[b], a # b PROVE u[a] = 0
      OBVIOUS
    <3>1. O(a) # O(b) /\ t[O(a)] = t[O(b)] /\ O(a) \in 1 .. Len(t) /\ O(b) \in 1 .. Len(t) /\ u[a] = t[O(a)]
      BY <2>3, <2>4
    <3> QED
      BY <3>1 DEF Closing
  <2>11. \A a \in 1 .. k : a <= m => u[a] # 0
    <3> SUFFICES ASSUME NEW a \in 1 .. k, a <= m PROVE u[a] # 0
      OBVIOUS
    <3>1. CASE a < m
      <4>1. O(a) = a /\ a \in 1 .. Len(t) /\ a <= m - 1 /\ u[a] = t[a]
        BY <1>1, <2>2, <2>3, <2>7, <3>1
      <4> QED
        BY <4>1 DEF Closing
    <3>2. CASE a = m
      <4>1. m \in 1 .. Len(t) - 1 /\ u[a] = t[m + 1]
        BY <1>1, <1>3, <2>3, <2>8, <3>2
      <4> QED
        BY <1>3, <4>1 DEF Closing
    <3> QED
      BY <1>1, <3>1, <3>2
  <2>12. \A a \in 1 .. k - 1 : u[a] = 0 => u[a + 1] # 0
    <3> SUFFICES ASSUME NEW a \in 1 .. k - 1, u[a] = 0 PROVE u[a + 1] # 0
      OBVIOUS
    <3>1. a \in 1 .. k /\ a + 1 \in 1 .. k /\ u[a] = t[O(a)] /\ u[a + 1] = t[O(a + 1)]
      BY <2>2, <2>3
    <3>2. ~(a <= m)
      BY <2>11, <3>1
    <3>3. O(a + 1) = O(a) + 1
      BY <1>1, <2>6, <3>2
    <3>4. O(a) \in 1 .. Len(t) - 1
      BY <1>1, <2>3, <3>1, <3>3
    <3> QED
      BY <3>1, <3>3, <3>4 DEF Closing
  <2>13. u[Len(u)] # 0
    <3>1. k \in 1 .. k /\ u[k] = t[Len(t)]
      BY <2>2, <2>3, <2>6
    <3> QED
      BY <2>1, <3>1 DEF Closing
  <2>15. Len(u) > 0 /\ Len(u) <= Len(s)
    <3>1. Len(t) <= Len(s) /\ Len(s) \in Nat
      BY LenProperties DEF Closing
    <3> QED
      BY <2>1, <2>2, <3>1
  <2>14. Closing(s, u, m)
    BY <2>1, <2>15, <2>9, <2>10, <2>11, <2>12, <2>13 DEF Closing
  <2> QED
    BY <2>14 DEF u
<1> QED
  BY <1>2, <1>3

LEMMA CompactedIs ==
  ASSUME NEW s \in Seq(Nat), Closing(s, s, 0)
  PROVE  Closing(s, Compacted(s), Len(s))
<1>1. PICK f : /\ f[0] = s /\ \A m \in 1 .. Len(s) : f[m] = Turn(f[m - 1], m)
               /\ Compacted(s) = f[Len(s)]
  BY CompactedTurns
<1>2. Len(s) \in Nat
  BY LenProperties
<1> DEFINE T == {m \in 0 .. Len(s) : ~Closing(s, f[m], m)}
<1>3. T = {}
  <2> SUFFICES ASSUME T # {} PROVE FALSE
    OBVIOUS
  <2>1. T \subseteq Nat
    BY <1>2
  <2>2. PICK m \in T : \A e \in T : m <= e
    BY <2>1, Least
  <2>3. m \in 0 .. Len(s) /\ ~Closing(s, f[m], m) /\ \A e \in 0 .. Len(s) : e \notin T => Closing(s, f[e], e)
    BY <2>2
  <2> HIDE DEF T
  <2>4. m # 0
    <3>1. Closing(s, f[0], 0)
      BY <1>1
    <3> QED
      BY <2>3, <3>1
  <2>5. m - 1 \in 0 .. Len(s) /\ m - 1 < m /\ m \in 1 .. Len(s) /\ m \in Nat \ {0} /\ m - 1 \notin T
    BY <1>2, <2>1, <2>2, <2>3, <2>4
  <2>6. Closing(s, f[m - 1], m - 1)
    BY <2>3, <2>5
  <2>7. Closing(s, Turn(f[m - 1], m), m)
    BY <2>5, <2>6, ClosingStep
  <2>8. f[m] = Turn(f[m - 1], m)
    BY <1>1, <2>5
  <2> QED
    BY <2>3, <2>7, <2>8
<1>4. Len(s) \in 0 .. Len(s)
  BY <1>2
<1>5. Closing(s, f[Len(s)], Len(s))
  BY <1>3, <1>4
<1> QED
  BY <1>1, <1>5

LEMMA ClearedIs ==
  ASSUME NEW s \in Seq(Nat), Len(s) > 0, s[Len(s)] # 0, Sparse(s)
  PROVE  /\ Closing(Cleared(s), Cleared(s), 0)
         /\ \A x \in Nat \ {0} : Holds(Cleared(s), x) <=> Holds(s, x)
<1> DEFINE k == Len(s)  c == Cleared(s)
           Later(m) == \E l \in m + 1 .. k : s[l] = s[m]
<1>1. k \in Nat /\ DOMAIN s = 1 .. k /\ \A a \in 1 .. k : s[a] \in Nat
  BY LenProperties, ElementOfSeq
<1>2. \A a \in 1 .. k : c[a] = IF Later(a) THEN 0 ELSE s[a]
  BY <1>1 DEF Cleared
<1>3. c \in Seq(Nat) /\ Len(c) = k
  <2>1. c = [m \in 1 .. k |-> IF Later(m) THEN 0 ELSE s[m]]
    BY <1>1 DEF Cleared
  <2>2. \A m \in 1 .. k : (IF Later(m) THEN 0 ELSE s[m]) \in Nat
    BY <1>1
  <2> HIDE DEF k, Later, c
  <2> QED
    BY <1>1, <2>1, <2>2
<1>s. \A m \in 1 .. k - 1 : c[m] = 0 => c[m + 1] # 0
  BY DEF Sparse
<1>l. k > 0 /\ s[k] # 0
  OBVIOUS
<1>t. \A a \in 1 .. k : Later(a) <=> \E l \in a + 1 .. k : s[l] = s[a]
  OBVIOUS
<1> HIDE DEF k, c, Later
<1>4. ASSUME NEW a \in 1 .. k, NEW b \in 1 .. k, c[a] = c[b], a # b PROVE c[a] = 0
  <2>1. ASSUME NEW d \in 1 .. k, NEW e \in 1 .. k, d < e, s[d] = s[e] PROVE Later(d)
    <3>1. e \in d + 1 .. k
      BY <1>1, <2>1
    <3> QED
      BY <1>t, <2>1, <3>1
  <2>2. a < b \/ b < a
    BY <1>1, <1>4
  <2> QED
    BY <1>2, <1>4, <2>1, <2>2
<1>5. c[k] # 0
  <2>1. k \in 1 .. k /\ k + 1 .. k = {}
    BY <1>1, <1>l
  <2> QED
    BY <1>2, <1>l, <1>t, <2>1
<1>6. ASSUME NEW x \in Nat \ {0} PROVE (\E a \in 1 .. k : c[a] = x) <=> (\E a \in 1 .. k : s[a] = x)
  <2>1. (\E a \in 1 .. k : c[a] = x) => (\E a \in 1 .. k : s[a] = x)
    BY <1>2, <1>6
  <2>2. ASSUME NEW b \in 1 .. k, s[b] = x PROVE \E a \in 1 .. k : c[a] = x
    <3> DEFINE T == {k - a : a \in {e \in 1 .. k : s[e] = x}}
    <3>1. T \in SUBSET Nat /\ T # {}
      BY <1>1, <2>2
    <3>2. PICK q \in T : \A e \in T : q <= e
      BY <3>1, Least
    <3>3. PICK a \in 1 .. k : s[a] = x /\ q = k - a
      BY <3>2
    <3>4. \A l \in a + 1 .. k : s[l] # x
      <4> SUFFICES ASSUME NEW l \in a + 1 .. k, s[l] = x PROVE FALSE
        OBVIOUS
      <4>1. l \in 1 .. k /\ k - l < k - a
        BY <1>1
      <4>2. k - l \in T
        BY <4>1
      <4> HIDE DEF T
      <4>3. q <= k - l
        BY <3>2, <4>2
      <4> QED
        BY <1>1, <3>3, <4>1, <4>3
    <3>5. ~Later(a)
      BY <1>t, <3>3, <3>4
    <3>6. c[a] = x
      BY <1>2, <3>3, <3>5
    <3> QED
      BY <3>6
  <2> QED
    BY <2>1, <2>2
<1>7. Closing(c, c, 0)
  <2>1. \A a \in 1 .. k : ~(a <= 0)
    BY <1>1
  <2> QED
    BY <1>1, <1>3, <1>s, <1>l, <1>4, <1>5, <2>1 DEF Closing
<1>8. \A x \in Nat \ {0} : Holds(c, x) <=> Holds(s, x)
  BY <1>3, <1>6 DEF Holds, k
<1> QED
  BY <1>7, <1>8 DEF c

\* Tidying removes what is listed twice, and a 0, and nothing else.
LEMMA TidiedIs ==
  ASSUME NEW s \in Seq(Nat), Len(s) > 1 => s[Len(s)] # 0, Sparse(s)
  PROVE  /\ Tidied(s) \in Seq(Nat)
         /\ \A x \in Nat \ {0} : Holds(Tidied(s), x) <=> Holds(s, x)
         /\ \A a, b \in 1 .. Len(Tidied(s)) : Tidied(s)[a] = Tidied(s)[b] => a = b
         /\ \A a \in 1 .. Len(Tidied(s)) : Tidied(s)[a] = 0 => Tidied(s) = s /\ Len(s) = 1
<1>1. Len(s) \in Nat
  BY LenProperties
<1>2. CASE ~(Len(s) > 1)
  <2>1. Tidied(s) = s
    BY <1>2 DEF Tidied
  <2>2. \A a \in 1 .. Len(s) : a = 1 /\ Len(s) = 1
    <3>1. Len(s) = 0 \/ Len(s) = 1
      <4> DEFINE k == Len(s)
      <4>1. k \in Nat /\ ~(k > 1)
        BY <1>1, <1>2
      <4> HIDE DEF k
      <4>2. k = 0 \/ k = 1
        BY <4>1
      <4> QED
        BY <4>2 DEF k
    <3> QED
      BY <3>1
  <2> QED
    BY <2>1, <2>2
<1>3. CASE Len(s) > 1
  <2> DEFINE c == Cleared(s)  t == Compacted(c)
  <2>1. Closing(c, c, 0) /\ \A x \in Nat \ {0} : Holds(c, x) <=> Holds(s, x)
    <3>1. Len(s) > 0 /\ s[Len(s)] # 0
      BY <1>1, <1>3
    <3> QED
      BY <3>1, ClearedIs
  <2>2. Tidied(s) = t
    BY <1>3 DEF Tidied
  <2> HIDE DEF c
  <2>3. Closing(c, t, Len(c)) /\ c \in Seq(Nat)
    <3>1. c \in Seq(Nat)
      BY <2>1 DEF Closing
    <3> QED
      BY <2>1, <3>1, CompactedIs
  <2> HIDE DEF t
  <2>4. t \in Seq(Nat) /\ \A x \in Nat \ {0} : Holds(t, x) <=> Holds(s, x)
    BY <2>1, <2>3 DEF Closing
  <2>5. \A a \in 1 .. Len(t) : t[a] # 0
    <3> SUFFICES ASSUME NEW a \in 1 .. Len(t), t[a] = 0 PROVE FALSE
      OBVIOUS
    <3>1. a <= Len(c)
      <4>1. Len(t) <= Len(c) /\ Len(c) \in Nat /\ Len(t) \in Nat
        BY <2>3, LenProperties DEF Closing
      <4> QED
        BY <4>1
    <3> QED
      BY <2>3, <3>1 DEF Closing
  <2>6. \A a, b \in 1 .. Len(t) : t[a] = t[b] => a = b
    BY <2>3, <2>5 DEF Closing
  <2> QED
    BY <2>2, <2>4, <2>5, <2>6
<1> QED
  BY <1>2, <1>3

-----------------------------------------------------------------------------
(* The tidied log *)

DoneInv == pc = "done" => fn = Len(entries)

\* What is known of the log when the passes begin.
LogInv == AllInv /\ TreeInv /\ StartedInv /\ EdgesPaired /\ DoneInv

LEMMA LogInit == Init => LogInv
BY TypeInit, OnceInit, ReachInit, WayInit, MarksInit, EdgeInit, TreeInit, StartedInit, PairedInit
   DEF LogInv, AllInv, DoneInv, Init

LEMMA LogStep == LogInv /\ TablesFound /\ NopsFirst /\ [Next]_vars => LogInv'
<1> SUFFICES ASSUME LogInv, TablesFound, NopsFirst, [Next]_vars PROVE LogInv'
  OBVIOUS
<1>i. /\ TypeInv /\ OnceInv /\ ReachInv /\ WayInv /\ MarksInv /\ EdgeInv
      /\ RootInv /\ EntryInv /\ BlankInv /\ StartedInv /\ EdgesPaired
      /\ \A j \in Known : HasParent(j)
  BY DEF LogInv, AllInv, TreeInv
<1>1. TypeInv'
  BY <1>i, TypeStep
<1>2. OnceInv'
  BY <1>i, <1>1, OnceStep
<1>3. ReachInv' /\ WayInv' /\ MarksInv' /\ EdgeInv'
  BY <1>i, <1>1, <1>2, ReachStep, WayStep, MarksStep, EdgeStep
<1>4. RootInv' /\ EntryInv' /\ BlankInv'
  BY <1>i, <1>1, RootStep, EntryStep, BlankStep
<1>5. \A j \in Known' : HasParent(j)'
  BY <1>i, <1>1, <1>2, ParentStep
<1>6. StartedInv' /\ EdgesPaired'
  BY <1>i, StartedStep, PairedStep
<1>7. DoneInv'
  <2> SUFFICES ASSUME pc' = "done" PROVE fn' = Len(entries')
    BY DEF DoneInv
  <2>1. pc = "done" => fn = Len(entries)
    BY DEF LogInv, DoneInv
  <2>2. entries' = entries
    BY CodeFixed
  <2>3. AllExplored \/ (pc = "done" /\ fn' = fn)
    BY DEF Next, Step, Stopped, vars, StartFunction, TakeSlot, RepeatPass, FinishFunction, Return,
       OverRan, MarkOverrun, BadMark, Rejoin, Decode, LogOverrun, Refused, NoTable, Execute, Queue, Advance, Stop
  <2> QED
    BY <2>1, <2>2, <2>3 DEF AllExplored
<1> QED
  BY <1>1, <1>2, <1>3, <1>4, <1>5, <1>6, <1>7 DEF LogInv, AllInv, TreeInv

\* Nothing is explored behind the last function.
LEMMA StepEnds == pc = "done" => ~Step
BY DEF Step, StartFunction, AllExplored, TakeSlot, RepeatPass, FinishFunction, Return, InMemory, CanFetch,
   OverRan, MarkOverrun, BadMark, Rejoin, Decode, LogOverrun, Refused, NoTable, Execute, Queue, Advance

First(j) == \A i \in Insts : origin[i][1] = origin[j][1] => j <= i

\* The log the nodes are made from: the lists name entries of the log and no
\* entry twice, they agree, edges stay inside a function, and every entry but the
\* first of its function has an older predecessor; what is no entry is blank.
ListsInv ==
  /\ \A i \in Insts : /\ log[i].next \in Seq(Insts) /\ log[i].prev \in Seq(Insts)
                      /\ \A a, b \in 1 .. Len(log[i].next) : log[i].next[a] = log[i].next[b] => a = b
                      /\ \A a, b \in 1 .. Len(log[i].prev) : log[i].prev[a] = log[i].prev[b] => a = b
  /\ \A i, j \in Insts : Holds(log[i].next, j) <=> Holds(log[j].prev, i)
  /\ \A i \in Index \ Insts : log[i].prev = <<>>

FlowInv ==
  /\ \A j \in Insts : First(j) \/ \E p \in Insts : p < j /\ Holds(log[j].prev, p)
  /\ \A i, j \in Insts : Holds(log[i].next, j) => origin[j][1] = origin[i][1]

FunctionInv ==
  /\ Insts \subseteq Index /\ ilog \in Nat /\ 0 < ilog
  /\ \A i \in Insts : origin[i][1] \in 1 .. Len(entries)
  /\ \A f \in 1 .. Len(entries) : \E i \in Insts : origin[i][1] = f

Ready == ListsInv /\ FlowInv /\ FunctionInv

LEMMA HoldsRange ==
  ASSUME NEW S, NEW s \in Seq(S), NEW x
  PROVE  Holds(s, x) <=> x \in Range(s)
<1>1. DOMAIN s = 1 .. Len(s)
  BY LenProperties
<1> QED
  BY <1>1 DEF Holds, Range

\* The lists of an entry, when they are tidied.
LEMMA TidyLists ==
  ASSUME LogInv, SparseLists, At("tidy"), NEW i \in Insts
  PROVE  /\ log[i].next \in Seq(Nat) /\ log[i].prev \in Seq(Nat)
         /\ Sparse(log[i].next) /\ Sparse(log[i].prev)
         /\ \A a \in 1 .. Len(log[i].next) : log[i].next[a] \in Insts
         /\ \A a \in 1 .. Len(log[i].prev) : log[i].prev[a] \in {0} \cup Insts
         /\ \A a \in 1 .. Len(log[i].prev) : log[i].prev[a] = 0 => a = 1
<1>i. TypeInv /\ EdgeInv /\ EdgesPaired /\ HasParent(i) /\ EdgeInv /\ i \in Logged /\ Known = Insts /\ Logged = Insts
  BY DEF LogInv, AllInv, TreeInv, At, Known, Logged, Insts
<1>t. /\ i \in Index /\ log[i].next \in Seq(Index) /\ log[i].prev \in Seq(Index) /\ Index \subseteq Nat
      /\ LogSize \in Nat /\ ilog \in Nat
  <2>1. LogSize \in Nat /\ ilog \in Nat /\ Logged \subseteq Index
    BY <1>i, OnceTypes, SizesAssumption
  <2>2. i \in Index /\ Index \subseteq Nat
    BY <1>i, <2>1 DEF Index
  <2> QED
    BY <1>i, <2>1, <2>2, LogLists
<1>1. log[i].next \in Seq(Nat) /\ log[i].prev \in Seq(Nat)
  BY <1>t, SeqMonotonic
<1>2. Sparse(log[i].next) /\ Sparse(log[i].prev)
  BY DEF SparseLists
<1>d. DOMAIN log[i].next = 1 .. Len(log[i].next) /\ DOMAIN log[i].prev = 1 .. Len(log[i].prev)
  BY <1>t, LenProperties
<1>3. \A a \in 1 .. Len(log[i].next) : log[i].next[a] \in Insts
  <2>1. \A j \in Range(log[i].next) : j \in Insts
    BY <1>i DEF EdgeInv, Real
  <2> QED
    BY <1>d, <2>1 DEF Range
<1>4. ASSUME NEW a \in 1 .. Len(log[i].prev) PROVE log[i].prev[a] \in {0} \cup Insts
  <2> DEFINE p == log[i].prev[a]
  <2>1. p \in Index /\ p \in Range(log[i].prev)
    BY <1>t, <1>d, <1>4, ElementOfSeq DEF Range
  <2> HIDE DEF p
  <2>2. i \in Range(log[p].next)
    BY <1>i, <1>t, <2>1 DEF EdgesPaired, Edge
  <2>3. ~(p >= ilog)
    BY <1>i, <2>1, <2>2 DEF EdgeInv
  <2>4. p \in {0} \cup Insts
    BY <1>t, <2>1, <2>3 DEF Insts, Index
  <2> QED
    BY <2>4 DEF p
<1>5. \A a \in 1 .. Len(log[i].prev) : log[i].prev[a] = 0 => a = 1
  BY <1>i, <1>d DEF HasParent
<1> QED
  BY <1>1, <1>2, <1>3, <1>4, <1>5

\* What tidying makes of the lists of an entry.
LEMMA TidyEntry ==
  ASSUME LogInv, SparseLists, TidyLog, NEW i \in Insts
  PROVE  /\ log'[i].next \in Seq(Insts) /\ log'[i].prev \in Seq(Insts)
         /\ \A a, b \in 1 .. Len(log'[i].next) : log'[i].next[a] = log'[i].next[b] => a = b
         /\ \A a, b \in 1 .. Len(log'[i].prev) : log'[i].prev[a] = log'[i].prev[b] => a = b
         /\ \A x \in Insts : Holds(log'[i].next, x) <=> Holds(log[i].next, x)
         /\ \A x \in Insts : Holds(log'[i].prev, x) <=> Holds(log[i].prev, x)
<1> DEFINE s == log[i].next  p == log[i].prev  t == Tidied(s)  q == Tidied(p)
<1>t. /\ TypeInv /\ At("tidy") /\ log \in [Index -> Entry] /\ i \in Index /\ Insts \subseteq Nat \ {0}
  <2>1. TypeInv /\ At("tidy") /\ log \in [Index -> Entry] /\ Insts \subseteq Index /\ ilog \in Nat
    BY OnceTypes, LogLists DEF LogInv, AllInv, TidyLog, Logged, Insts
  <2> QED
    BY <2>1 DEF Insts
<1>1. /\ s \in Seq(Nat) /\ p \in Seq(Nat) /\ Sparse(s) /\ Sparse(p)
      /\ \A a \in 1 .. Len(s) : s[a] \in Insts
      /\ \A a \in 1 .. Len(p) : p[a] \in {0} \cup Insts
      /\ \A a \in 1 .. Len(p) : p[a] = 0 => a = 1
  BY <1>t, TidyLists
<1>2. log'[i].next = t /\ log'[i].prev = IF q = <<0>> THEN <<>> ELSE q
  BY <1>t DEF TidyLog, Entry
<1> HIDE DEF s, p, t, q
<1>3. /\ t \in Seq(Nat)
      /\ \A x \in Nat \ {0} : Holds(t, x) <=> Holds(s, x)
      /\ \A a, b \in 1 .. Len(t) : t[a] = t[b] => a = b
      /\ \A a \in 1 .. Len(t) : t[a] = 0 => t = s /\ Len(s) = 1
  <2>1. Len(s) > 1 => s[Len(s)] # 0
    <3>1. Len(s) \in Nat
      BY <1>1, LenProperties
    <3>2. Len(s) > 1 => Len(s) \in 1 .. Len(s)
      BY <3>1
    <3> QED
      BY <1>1, <1>t, <3>2
  <2> QED
    BY <1>1, <2>1, TidiedIs DEF t
<1>4. /\ q \in Seq(Nat)
      /\ \A x \in Nat \ {0} : Holds(q, x) <=> Holds(p, x)
      /\ \A a, b \in 1 .. Len(q) : q[a] = q[b] => a = b
      /\ \A a \in 1 .. Len(q) : q[a] = 0 => q = p /\ Len(p) = 1
  <2>1. Len(p) > 1 => p[Len(p)] # 0
    <3>1. Len(p) \in Nat
      BY <1>1, LenProperties
    <3>2. Len(p) > 1 => Len(p) \in 1 .. Len(p)
      BY <3>1
    <3> DEFINE k == Len(p)
    <3> HIDE DEF k
    <3>3. k \in Nat /\ k > 1 => k # 1
      OBVIOUS
    <3> QED
      BY <1>1, <3>1, <3>2, <3>3 DEF k
  <2> QED
    BY <1>1, <2>1, TidiedIs DEF q
<1>5. t \in Seq(Insts)
  <2>1. ASSUME NEW a \in 1 .. Len(t) PROVE t[a] \in Insts
    <3>1. t[a] # 0
      <4>1. 1 \in 1 .. 1
        OBVIOUS
      <4> QED
        BY <1>1, <1>3, <1>t, <2>1
    <3>2. t[a] \in Nat
      BY <1>3, <2>1, ElementOfSeq
    <3>3. Holds(s, t[a])
      BY <1>3, <2>1, <3>1, <3>2 DEF Holds
    <3> QED
      BY <1>1, <3>3 DEF Holds
  <2>2. Len(t) \in Nat /\ t \in [1 .. Len(t) -> Nat]
    BY <1>3, LenProperties
  <2>3. t \in [1 .. Len(t) -> Insts]
    BY <2>1, <2>2
  <2> QED
    BY <2>2, <2>3, IsASeq
<1>6. CASE q = <<0>>
  <2>1. log'[i].prev = <<>> /\ Len(<<>>) = 0 /\ <<>> \in Seq(Insts)
    BY <1>2, <1>6
  <2>2. Len(q) = 1 /\ q[1] = 0
    BY <1>6
  <2>3. \A x \in Insts : ~Holds(p, x)
    <3>1. \A a \in 1 .. Len(q) : q[a] = 0
      BY <2>2
    <3>2. \A x \in Insts : ~Holds(q, x)
      BY <1>t, <3>1 DEF Holds
    <3> QED
      BY <1>t, <1>4, <3>2
  <2>4. 1 .. Len(log'[i].prev) = {}
    BY <2>1
  <2>5. \A x : ~Holds(log'[i].prev, x)
    BY <2>4 DEF Holds
  <2>6. \A a, b \in 1 .. Len(log'[i].prev) : log'[i].prev[a] = log'[i].prev[b] => a = b
    BY <2>4
  <2>7. \A x \in Insts : Holds(log'[i].prev, x) <=> Holds(log[i].prev, x)
    BY <2>3, <2>5 DEF p
  <2>8. \A x \in Insts : Holds(log'[i].next, x) <=> Holds(log[i].next, x)
    BY <1>2, <1>3, <1>t DEF s
  <2>9. \A a, b \in 1 .. Len(log'[i].next) : log'[i].next[a] = log'[i].next[b] => a = b
    BY <1>2, <1>3
  <2> QED
    BY <1>2, <1>5, <2>1, <2>6, <2>7, <2>8, <2>9
<1>7. CASE q # <<0>>
  <2>1. log'[i].prev = q
    BY <1>2, <1>7
  <2>2. q \in Seq(Insts)
    <3>1. ASSUME NEW a \in 1 .. Len(q) PROVE q[a] \in Insts
      <4>1. q[a] # 0
        <5> SUFFICES ASSUME q[a] = 0 PROVE FALSE
          OBVIOUS
        <5>1. Len(q) = 1
          BY <1>4, <3>1
        <5>2. a = 1
          BY <3>1, <5>1
        <5>3. q = <<0>>
          BY <1>4, <5>1, <5>2, SeqEqual
        <5> QED
          BY <1>7, <5>3
      <4>2. q[a] \in Nat
        BY <1>4, <3>1, ElementOfSeq
      <4>3. Holds(p, q[a])
        BY <1>4, <3>1, <4>1, <4>2 DEF Holds
      <4> QED
        BY <1>1, <4>1, <4>3 DEF Holds
    <3>2. Len(q) \in Nat /\ q \in [1 .. Len(q) -> Nat]
      BY <1>4, LenProperties
    <3>3. q \in [1 .. Len(q) -> Insts]
      BY <3>1, <3>2
    <3> QED
      BY <3>2, <3>3, IsASeq
  <2> QED
    BY <1>2, <1>3, <1>4, <1>5, <1>t, <2>1, <2>2 DEF s, p
<1> QED
  BY <1>6, <1>7

LEMMA TidyReady == LogInv /\ SparseLists /\ TidyLog => Ready' /\ pc' = "done" /\ stage' = "mark"
<1> SUFFICES ASSUME LogInv, SparseLists, TidyLog PROVE Ready' /\ pc' = "done" /\ stage' = "mark"
  OBVIOUS
<1>u. UNCHANGED <<ilog, origin, pc, entries>> /\ stage' = "mark" /\ pc = "done" /\ Insts' = Insts /\ Index' = Index
  BY DEF TidyLog, program, history, At, Insts
<1>t. /\ TypeInv /\ OnceInv /\ EdgeInv /\ EdgesPaired /\ EntryInv /\ (\A j \in Known : HasParent(j)) /\ fn = Len(entries)
      /\ Known = Insts /\ Logged = Insts
  BY <1>u DEF LogInv, AllInv, TreeInv, DoneInv, Known, Logged, Insts
<1>i. /\ Insts \subseteq Index /\ ilog \in Nat /\ 0 < ilog /\ fn \in Nat /\ log \in [Index -> Entry] /\ Insts \subseteq Nat \ {0}
      /\ origin \in [Index -> Nat \X Nat \X Int]
      /\ \A k \in Index : log[k].next \in Seq(Index) /\ log[k].prev \in Seq(Index)
  <2>1. /\ Insts \subseteq Index /\ ilog \in Nat /\ 0 < ilog /\ fn \in Nat
        /\ origin \in [Index -> Nat \X Nat \X Int]
    BY <1>t, OnceTypes
  <2>2. Insts \subseteq Nat \ {0}
    BY <2>1 DEF Insts
  <2> QED
    BY <1>t, <2>1, <2>2, LogLists
<1>h. /\ \A i \in Insts : \A x : Holds(log[i].next, x) <=> x \in Range(log[i].next)
      /\ \A i \in Insts : \A x : Holds(log[i].prev, x) <=> x \in Range(log[i].prev)
  BY <1>i, HoldsRange
<1>e. /\ \A i \in Insts : \A x \in Insts : Holds(log'[i].next, x) <=> Holds(log[i].next, x)
      /\ \A i \in Insts : \A x \in Insts : Holds(log'[i].prev, x) <=> Holds(log[i].prev, x)
  BY TidyEntry
<1>1. ListsInv'
  <2>1. \A i \in Insts : /\ log'[i].next \in Seq(Insts) /\ log'[i].prev \in Seq(Insts)
                         /\ \A a, b \in 1 .. Len(log'[i].next) : log'[i].next[a] = log'[i].next[b] => a = b
                         /\ \A a, b \in 1 .. Len(log'[i].prev) : log'[i].prev[a] = log'[i].prev[b] => a = b
    BY TidyEntry
  <2>2. ASSUME NEW i \in Insts, NEW j \in Insts PROVE Holds(log'[i].next, j) <=> Holds(log'[j].prev, i)
    <3>1. j \in Range(log[i].next) <=> i \in Range(log[j].prev)
      BY <1>t, <1>i DEF EdgesPaired, Edge
    <3> QED
      BY <1>h, <1>e, <3>1
  <2>3. ASSUME NEW i \in Index \ Insts PROVE log'[i].prev = <<>>
    <3>1. log[i].prev = <<>>
      BY <1>t DEF LogInv, AllInv, TreeInv, BlankInv
    <3>2. log'[i] = log[i]
      BY <1>u DEF TidyLog
    <3> QED
      BY <3>1, <3>2
  <2> QED
    BY <1>u, <2>1, <2>2, <2>3 DEF ListsInv
<1>2. FlowInv'
  <2>1. ASSUME NEW j \in Insts
        PROVE  (\A i \in Insts : origin[i][1] = origin[j][1] => j <= i) \/ \E p \in Insts : p < j /\ Holds(log'[j].prev, p)
    <3>1. Begins(j) \/ \E p \in Range(log[j].prev) : p \in 1 .. j - 1
      BY <1>t, <2>1 DEF HasParent
    <3>2. CASE Begins(j)
      BY <1>t, <3>2 DEF Begins
    <3>3. CASE \E p \in Range(log[j].prev) : p \in 1 .. j - 1
      <4>1. PICK p \in Range(log[j].prev) : p \in 1 .. j - 1
        BY <3>3
      <4>2. p \in Insts /\ p < j
        BY <1>i, <2>1, <4>1 DEF Insts
      <4>3. Holds(log'[j].prev, p)
        BY <1>h, <1>e, <2>1, <4>1, <4>2
      <4> QED
        BY <4>2, <4>3
    <3> QED
      BY <3>1, <3>2, <3>3
  <2>2. ASSUME NEW i \in Insts, NEW j \in Insts, Holds(log'[i].next, j) PROVE origin[j][1] = origin[i][1]
    <3>1. j \in Range(log[i].next)
      BY <1>h, <1>e, <2>2
    <3>2. Follows(i, j)
      BY <1>t, <2>2, <3>1 DEF EdgeInv, Real
    <3> QED
      BY <3>2 DEF Follows
  <2> QED
    BY <1>u, <2>1, <2>2 DEF FlowInv, First
<1>3. FunctionInv'
  <2>1. \A i \in Insts : origin[i][1] \in 1 .. Len(entries)
    <3> SUFFICES ASSUME NEW i \in Insts PROVE origin[i][1] \in 1 .. Len(entries)
      OBVIOUS
    <3>1. origin[i][1] <= fn /\ origin[i][1] > 0 /\ origin[i][1] \in Nat
      BY <1>t, <1>i DEF OnceInv, LoggedSeen, HasParent
    <3> QED
      BY <1>t, <1>i, <3>1
  <2>2. \A f \in 1 .. Len(entries) : \E i \in Insts : origin[i][1] = f
    BY <1>t, <1>u DEF EntryInv
  <2> QED
    BY <1>u, <1>i, <2>1, <2>2 DEF FunctionInv
<1> QED
  BY <1>u, <1>1, <1>2, <1>3 DEF Ready

\* Of a list of one, and of the members of a list.
LEMMA OneIs ==
  ASSUME NEW S, NEW s \in Seq(S)
  PROVE  /\ Len(s) = 1 => s[1] \in S /\ s = <<s[1]>> /\ Holds(s, s[1]) /\ \A x : Holds(s, x) => x = s[1]
         /\ \A x : Holds(s, x) => x \in S
<1>1. \A a \in 1 .. Len(s) : s[a] \in S
  BY ElementOfSeq
<1>2. ASSUME Len(s) = 1 PROVE s[1] \in S /\ s = <<s[1]>> /\ Holds(s, s[1]) /\ \A x : Holds(s, x) => x = s[1]
  <2>1. 1 \in 1 .. Len(s) /\ \A a \in 1 .. Len(s) : a = 1
    BY <1>2
  <2>2. s[1] \in S
    BY <1>1, <2>1
  <2>3. s = <<s[1]>>
    <3>1. <<s[1]>> \in Seq(S) /\ Len(<<s[1]>>) = 1 /\ <<s[1]>>[1] = s[1]
      BY <2>2
    <3> QED
      BY <1>2, <2>1, <3>1, SeqEqual
  <2> QED
    BY <2>1, <2>2, <2>3 DEF Holds
<1> QED
  BY <1>1, <1>2 DEF Holds

\* Lists that name an entry once have as many members as entries.
LEMMA OnceCounted ==
  ASSUME NEW S, NEW s \in Seq(S), \A a, b \in 1 .. Len(s) : s[a] = s[b] => a = b
  PROVE  Cardinality(Range(s)) = Len(s)
<1>1. Len(s) \in Nat /\ DOMAIN s = 1 .. Len(s) /\ s \in [1 .. Len(s) -> S]
  BY LenProperties
<1>2. IsFiniteSet(1 .. Len(s)) /\ Cardinality(1 .. Len(s)) = Len(s)
  BY <1>1, FS_Interval
<1>3. s \in Bijection(1 .. Len(s), Range(s))
  <2>1. s \in [1 .. Len(s) -> Range(s)]
    BY <1>1 DEF Range
  <2> QED
    BY <1>1, <2>1 DEF Bijection, Injection, IsInjective, Surjection, Range
<1> QED
  BY <1>2, <1>3, FS_Bijection DEF ExistsBijection

\* What the tidying leaves is what the tidy-list property asks for.
LEMMA ReadyTidy == ASSUME Ready PROVE ListsTidy
<1>1. ListsInv
  BY DEF Ready
<1>2. \A i \in Insts : log[i].next \in Seq(Insts) /\ log[i].prev \in Seq(Insts)
  BY <1>1 DEF ListsInv
<1>3. ASSUME NEW i \in Insts
      PROVE  /\ Cardinality(Range(log[i].next)) = Len(log[i].next)
             /\ Cardinality(Range(log[i].prev)) = Len(log[i].prev)
             /\ Range(log[i].next) \cup Range(log[i].prev) \subseteq Insts
  <2>1. /\ \A a, b \in 1 .. Len(log[i].next) : log[i].next[a] = log[i].next[b] => a = b
        /\ \A a, b \in 1 .. Len(log[i].prev) : log[i].prev[a] = log[i].prev[b] => a = b
    BY <1>1 DEF ListsInv
  <2>2. /\ Cardinality(Range(log[i].next)) = Len(log[i].next)
        /\ Cardinality(Range(log[i].prev)) = Len(log[i].prev)
    BY <1>2, <2>1, OnceCounted
  <2>3. \A x : /\ x \in Range(log[i].next) => x \in Insts
               /\ x \in Range(log[i].prev) => x \in Insts
    BY <1>2, HoldsRange, OneIs
  <2> QED
    BY <2>2, <2>3
<1>4. \A i, j \in Insts : Edge(i, j) <=> i \in Range(log[j].prev)
  <2>1. \A i \in Insts : \A x : /\ Holds(log[i].next, x) <=> x \in Range(log[i].next)
                                /\ Holds(log[i].prev, x) <=> x \in Range(log[i].prev)
    BY <1>2, HoldsRange
  <2> QED
    BY <1>1, <2>1 DEF ListsInv, Edge
<1> QED
  BY <1>3, <1>4 DEF ListsTidy

-----------------------------------------------------------------------------
(* The log when the passes work on it *)

TidyInv ==
  /\ stage = "tidy" => LogInv
  /\ stage # "tidy" => pc = "done" /\ Ready

LEMMA TidyInit == CfgInit => TidyInv
BY LogInit DEF CfgInit, TidyInv

LEMMA TidyStep ==
  TidyInv /\ TablesFound /\ NopsFirst /\ SparseLists /\ [CfgNext]_allvars => TidyInv'
<1> SUFFICES ASSUME TidyInv, TablesFound, NopsFirst, SparseLists, [CfgNext]_allvars
             PROVE  TidyInv'
  OBVIOUS
<1>1. CASE Step /\ UNCHANGED cfgvars
  <2>1. stage' = stage /\ stage = "tidy"
    BY <1>1, StepEnds DEF TidyInv, cfgvars
  <2>2. LogInv'
    BY <1>1, <2>1, LogStep DEF TidyInv, Next
  <2> QED
    BY <2>1, <2>2 DEF TidyInv
<1>2. CASE TidyLog
  <2>1. stage = "tidy" /\ Ready' /\ pc' = "done" /\ stage' = "mark"
    BY <1>2, TidyReady DEF TidyInv, TidyLog, At
  <2> QED
    BY <2>1 DEF TidyInv
<1>3. ASSUME UNCHANGED vars, stage = "tidy" <=> stage' = "tidy" PROVE TidyInv'
  <2>1. LogInv => LogInv'
    BY <1>3, LogStep
  <2>2. /\ Insts' = Insts /\ entries' = entries /\ log' = log /\ origin' = origin /\ ilog' = ilog
        /\ Index' = Index /\ pc' = pc
    BY <1>3 DEF vars, Insts, program, history
  <2>3. Ready' <=> Ready
    BY <2>2 DEF Ready, ListsInv, FlowInv, FunctionInv, First
  <2> QED
    BY <1>3, <2>1, <2>2, <2>3 DEF TidyInv
<1>4. CASE UNCHANGED allvars
  BY <1>3, <1>4 DEF allvars, vars, cfgvars
<1>5. CASE MarkNodes \/ BuildNodes \/ LinkNodes \/ IndexLinks \/ WalkBack \/ Found
  BY <1>3, <1>5 DEF MarkNodes, BuildNodes, LinkNodes, IndexLinks, WalkBack, Found, At
<1>6. CASE BeginMembers \/ CollectNode \/ EndMembers \/ CfgDone
  BY <1>3, <1>6 DEF BeginMembers, CollectNode, EndMembers, CfgDone, At
<1> QED
  BY <1>1, <1>2, <1>4, <1>5, <1>6 DEF CfgNext, Work, CfgStep, CfgStopped

\* tidy_inst_log removes from the lists what is listed twice and nothing else, when
\* it skips no cleared element: the lists of an edge still agree.
THEOREM ListsTidied ==
  CfgSpec /\ []TablesFound /\ []NopsFirst /\ []SparseLists => [](Tidy => ListsTidy)
<1>1. CfgSpec /\ []TablesFound /\ []NopsFirst /\ []SparseLists => []TidyInv
  BY TidyInit, TidyStep, PTL DEF CfgSpec
<1>2. TidyInv => (Tidy => ListsTidy)
  <2>1. TidyInv /\ Tidy => Ready
    BY DEF TidyInv, Tidy, Before
  <2> QED
    BY <2>1, ReadyTidy
<1> QED
  BY <1>1, <1>2, PTL
=============================================================================
