----------------------------- MODULE FlagsProofs ----------------------------
(***************************************************************************)
(* The passes over the flags keep the log linked: whatever the             *)
(* instructions are, behind every entry they insert the two lists of each  *)
(* link agree and no function loses its beginning, as long as the log has  *)
(* room.                                                                   *)
(***************************************************************************)
EXTENDS FlagsProps, SequenceTheorems, TLAPS

\* The links among the first k - 1 entries of a log l, and the range of their lists.
Linked(l, k, Exempt) ==
  \A a, b \in 1 .. k - 1 : b \notin Exempt => (b \in Range(l[a].next) <=> a \in Range(l[b].prev))
Bound(l, k) ==
  \A a \in 1 .. k - 1 : Range(l[a].next) \subseteq 0 .. k - 1 /\ Range(l[a].prev) \subseteq 0 .. k - 1

-----------------------------------------------------------------------------
(* Lists *)

LEMMA EntryLists ==
  ASSUME log \in [Index -> Entry]
  PROVE  \A j \in Index : /\ log[j].prev \in Seq(Index) /\ log[j].next \in Seq(Index)
                          /\ log[j] \in Entry
BY DEF Entry

LEMMA PutRange ==
  ASSUME NEW s \in Seq(Index), NEW x, NEW y \in Index
  PROVE  /\ Put(s, x, y) \in Seq(Index)
         /\ \A b : b \in Range(Put(s, x, y)) <=> ((b # x /\ b \in Range(s)) \/ (b = y /\ x \in Range(s)))
         /\ Put(s, x, y) = <<>> <=> s = <<>>
<1> DEFINE t == Put(s, x, y)
<1>1. DOMAIN s = 1 .. Len(s) /\ Len(s) \in Nat /\ \A m \in DOMAIN s : s[m] \in Index
  BY LenProperties, ElementOfSeq
<1>2. t = [m \in 1 .. Len(s) |-> IF s[m] = x THEN y ELSE s[m]]
  BY <1>1 DEF Put
<1> HIDE DEF t
<1>3. t \in Seq(Index)
  BY <1>1, <1>2, SeqDef
<1>4. DOMAIN t = DOMAIN s /\ \A m \in DOMAIN s : t[m] = IF s[m] = x THEN y ELSE s[m]
  BY <1>1, <1>2
<1>5. \A b : b \in Range(t) <=> ((b # x /\ b \in Range(s)) \/ (b = y /\ x \in Range(s)))
  BY <1>4 DEF Range
<1>6. t = <<>> <=> s = <<>>
  BY <1>1, <1>3, <1>4, EmptySeq, LenProperties
<1> QED BY <1>3, <1>5, <1>6 DEF t

LEMMA Lists ==
  /\ \A S : Range(<<>>) = {}
  /\ \A x \in Index : <<x>> \in Seq(Index) /\ Range(<<x>>) = {x} /\ <<x>> # <<>>
  /\ \A x, y \in Index : <<x, y>> \in Seq(Index) /\ Range(<<x, y>>) = {x, y}
<1>1. \A S : Range(<<>>) = {}
  BY DEF Range
<1>2. ASSUME NEW x \in Index PROVE <<x>> \in Seq(Index) /\ Range(<<x>>) = {x} /\ <<x>> # <<>>
  BY <1>2 DEF Range
<1>3. ASSUME NEW x \in Index, NEW y \in Index PROVE <<x, y>> \in Seq(Index) /\ Range(<<x, y>>) = {x, y}
  <2>1. DOMAIN <<x, y>> = {1, 2} /\ <<x, y>>[1] = x /\ <<x, y>>[2] = y
    BY <1>3
  <2>2. Range(<<x, y>>) = {x, y}
    BY <2>1 DEF Range
  <2> QED BY <1>3, <2>2
<1> QED BY <1>1, <1>2, <1>3

\* Appending to a list adds one element to what it holds.
LEMMA AppendRange ==
  ASSUME NEW s \in Seq(Index), NEW x \in Index
  PROVE  Append(s, x) \in Seq(Index) /\ Range(Append(s, x)) = Range(s) \cup {x} /\ Append(s, x) # <<>>
<1> DEFINE t == Append(s, x)
<1>1. /\ t \in Seq(Index) /\ Len(t) = Len(s) + 1
      /\ Len(s) \in Nat /\ DOMAIN s = 1 .. Len(s) /\ DOMAIN t = 1 .. Len(s) + 1
      /\ \A k \in 1 .. Len(s) : t[k] = s[k]
      /\ t[Len(s) + 1] = x
  BY AppendProperties, LenProperties
<1>2. DOMAIN t = DOMAIN s \cup {Len(s) + 1}
  BY <1>1
<1> HIDE DEF t
<1>3. Range(t) = Range(s) \cup {x}
  BY <1>1, <1>2 DEF Range
<1>4. t # <<>>
  BY <1>1, EmptySeq
<1> QED BY <1>1, <1>3, <1>4 DEF t

\* Another first element.
LEMMA HeadChanged ==
  ASSUME NEW s \in Seq(Index), s # <<>>, NEW z \in Index
  PROVE  /\ [s EXCEPT ![1] = z] \in Seq(Index) /\ z \in Range([s EXCEPT ![1] = z])
         /\ Range([s EXCEPT ![1] = z]) \subseteq Range(s) \cup {z}
         /\ \A b : b # s[1] => (b \in Range([s EXCEPT ![1] = z]) <=> b = z \/ b \in Range(s))
<1> DEFINE t == [s EXCEPT ![1] = z]
<1>1. DOMAIN s = 1 .. Len(s) /\ Len(s) \in Nat /\ Len(s) # 0 /\ \A m \in DOMAIN s : s[m] \in Index
  BY LenProperties, ElementOfSeq, EmptySeq
<1>2. t = [m \in 1 .. Len(s) |-> IF m = 1 THEN z ELSE s[m]]
  BY <1>1
<1> HIDE DEF t
<1>3. t \in Seq(Index)
  BY <1>1, <1>2, SeqDef
<1>4. 1 \in DOMAIN s /\ DOMAIN t = DOMAIN s /\ t[1] = z /\ \A m \in DOMAIN s : m # 1 => t[m] = s[m]
  BY <1>1, <1>2
<1>5. z \in Range(t) /\ Range(t) \subseteq Range(s) \cup {z}
  BY <1>4 DEF Range
<1>6. \A b : b # s[1] => (b \in Range(t) <=> b = z \/ b \in Range(s))
  BY <1>4 DEF Range
<1> QED BY <1>3, <1>5, <1>6 DEF t

-----------------------------------------------------------------------------
(* The two insertions *)

LEMMA BoundSets ==
  ASSUME ilog \in Nat \ {0}, Bound(log, ilog)
  PROVE  \A j \in Insts : Range(log[j].next) \subseteq {0} \cup Insts /\ Range(log[j].prev) \subseteq {0} \cup Insts
<1>1. 0 .. ilog - 1 = {0} \cup Insts
  BY DEF Insts
<1> QED BY <1>1 DEF Bound, Insts

\* The first ilog entries.
LEMMA OneMore ==
  ASSUME ilog \in Nat \ {0}, NEW l, NEW mv
  PROVE  /\ Linked(l, ilog + 1, mv) <=>
              \A a, b \in Insts \cup {ilog} : b \notin mv => (b \in Range(l[a].next) <=> a \in Range(l[b].prev))
         /\ Bound(l, ilog + 1) <=>
              \A a \in Insts \cup {ilog} : /\ Range(l[a].next) \subseteq {0, ilog} \cup Insts
                                          /\ Range(l[a].prev) \subseteq {0, ilog} \cup Insts
<1>1. 1 .. (ilog + 1) - 1 = Insts \cup {ilog} /\ 0 .. (ilog + 1) - 1 = {0, ilog} \cup Insts
  BY DEF Insts
<1>2. Linked(l, ilog + 1, mv) <=>
              \A a, b \in Insts \cup {ilog} : b \notin mv => (b \in Range(l[a].next) <=> a \in Range(l[b].prev))
  BY <1>1, Zenon DEF Linked
<1>3. Bound(l, ilog + 1) <=>
              \A a \in Insts \cup {ilog} : /\ Range(l[a].next) \subseteq {0, ilog} \cup Insts
                                          /\ Range(l[a].prev) \subseteq {0, ilog} \cup Insts
  BY <1>1, Zenon DEF Bound
<1> QED BY <1>2, <1>3

\* insert_nop_before: the predecessors of i lead to the new entry, and it to i.
LEMMA BeforeLinks ==
  ASSUME log \in [Index -> Entry], ilog \in Index, NEW mv, Linked(log, ilog, mv), Bound(log, ilog),
         NEW i \in Insts, i \notin mv, ~Immovable(i), NEW L, L = BeforeOf(i)
  PROVE  /\ L \in [Index -> Entry] /\ Linked(L, ilog + 1, mv) /\ Bound(L, ilog + 1)
         /\ L[ilog].prev = log[i].prev /\ L[i].prev # <<>>
         /\ \A j \in Insts : j # i => L[j].prev = log[j].prev
<1> DEFINE Preds == Range(log[i].prev)
<1>1. ilog \in Nat /\ i \in Nat /\ i # ilog /\ i \in Index /\ Insts \subseteq Index
  BY SizesAssumption DEF Insts, Index
<1>2. /\ L[ilog].prev = log[i].prev /\ L[ilog].next = <<i>>
      /\ L[i].prev = <<ilog>>
      /\ \A j \in Index : j # ilog => L[j].next = IF j \in Preds THEN Put(log[j].next, i, ilog) ELSE log[j].next
      /\ \A j \in Index : j # ilog /\ j # i => L[j].prev = log[j].prev
  BY <1>1 DEF BeforeOf, Entry
<1>3. L \in [Index -> Entry]
  <2>1. ASSUME NEW j \in Index, j # ilog
        PROVE  [log[j] EXCEPT !.next = IF j \in Preds THEN Put(@, i, ilog) ELSE @,
                              !.prev = IF j = i THEN <<ilog>> ELSE @] \in Entry
    <3>1. Put(log[j].next, i, ilog) \in Seq(Index) /\ <<ilog>> \in Seq(Index)
      BY <1>1, EntryLists, PutRange, Lists
    <3> QED BY <3>1, EntryLists DEF Entry
  <2>2. [log[ilog] EXCEPT !.prev = log[i].prev, !.next = <<i>>] \in Entry
    <3>1. <<i>> \in Seq(Index) /\ log[i].prev \in Seq(Index)
      BY <1>1, EntryLists, Lists
    <3> QED BY <3>1, EntryLists DEF Entry
  <2> QED BY <2>1, <2>2 DEF BeforeOf
<1>4. Preds \subseteq Insts
  BY <1>1 DEF Bound, Immovable, Insts
<1>5. \A j \in Insts : j \in Preds <=> i \in Range(log[j].next)
  BY <1>1 DEF Linked, Insts
<1>6. \A j \in Insts : ilog \notin Range(log[j].next) /\ ilog \notin Range(log[j].prev)
  BY <1>1 DEF Bound, Insts
<1>7. \A j \in Insts : \A b : b \in Range(L[j].next) <=> IF b = ilog THEN j \in Preds ELSE b # i /\ b \in Range(log[j].next)
  <2> SUFFICES ASSUME NEW j \in Insts, NEW b
               PROVE  b \in Range(L[j].next) <=> IF b = ilog THEN j \in Preds ELSE b # i /\ b \in Range(log[j].next)
    OBVIOUS
  <2>1. j \in Index /\ j # ilog /\ log[j].next \in Seq(Index)
    BY <1>1, EntryLists DEF Insts
  <2>2. CASE j \in Preds
    <3>1. b \in Range(Put(log[j].next, i, ilog)) <=> ((b # i /\ b \in Range(log[j].next)) \/ (b = ilog /\ i \in Range(log[j].next)))
      BY <1>1, <2>1, PutRange
    <3> QED BY <1>1, <1>2, <1>5, <1>6, <2>1, <2>2, <3>1
  <2>3. CASE j \notin Preds
    BY <1>1, <1>2, <1>5, <1>6, <2>1, <2>3
  <2> QED BY <2>2, <2>3
<1>8. Range(L[ilog].next) = {i} /\ Range(L[ilog].prev) = Preds /\ Range(L[i].prev) = {ilog}
  BY <1>1, <1>2, Lists
<1>9. \A j \in Insts : j # i => L[j].prev = log[j].prev
  BY <1>1, <1>2 DEF Insts
<1>10. 1 .. ilog + 1 - 1 = Insts \cup {ilog} /\ 0 .. ilog + 1 - 1 = {0, ilog} \cup Insts
  BY <1>1 DEF Insts
<1> HIDE DEF Preds
<1>11. Linked(L, ilog + 1, mv)
  <2> SUFFICES ASSUME NEW a \in Insts \cup {ilog}, NEW b \in Insts \cup {ilog}, b \notin mv
               PROVE  b \in Range(L[a].next) <=> a \in Range(L[b].prev)
    BY <1>10 DEF Linked
  <2>1. CASE a = ilog
    BY <1>1, <1>6, <1>8, <1>9, <1>4, <2>1
  <2>2. CASE a \in Insts /\ b = ilog
    BY <1>7, <1>8, <2>2
  <2>3. CASE a \in Insts /\ b = i
    BY <1>1, <1>7, <1>8, <2>3 DEF Insts
  <2>4. CASE a \in Insts /\ b \in Insts /\ b # i
    BY <1>7, <1>9, <2>4 DEF Linked, Insts
  <2> QED BY <2>1, <2>2, <2>3, <2>4
<1>12. Bound(L, ilog + 1)
  <2> SUFFICES ASSUME NEW a \in Insts \cup {ilog}
               PROVE  Range(L[a].next) \subseteq {0, ilog} \cup Insts /\ Range(L[a].prev) \subseteq {0, ilog} \cup Insts
    BY <1>10 DEF Bound
  <2>1. \A j \in Insts : Range(log[j].next) \subseteq {0} \cup Insts /\ Range(log[j].prev) \subseteq {0} \cup Insts
    BY <1>1, BoundSets DEF Insts
  <2>2. CASE a = ilog
    BY <1>4, <1>8, <2>2
  <2>3. CASE a \in Insts
    BY <1>7, <1>8, <1>9, <2>1, <2>3
  <2> QED BY <2>2, <2>3
<1>13. L[i].prev # <<>>
  BY <1>1, <1>2, Lists
<1> QED BY <1>2, <1>3, <1>9, <1>11, <1>12, <1>13

\* insert_nop_after: the successors of i come from the new entry, and it from i.
LEMMA BehindLinks ==
  ASSUME log \in [Index -> Entry], ilog \in Index, NEW mv, Linked(log, ilog, mv), Bound(log, ilog),
         NEW i \in Insts, NEW L, L = BehindOf(i)
  PROVE  /\ L \in [Index -> Entry] /\ Linked(L, ilog + 1, mv) /\ Bound(L, ilog + 1)
         /\ \A j \in Insts : L[j].prev = <<>> <=> log[j].prev = <<>>
         /\ L[ilog].prev = <<i>> /\ L[ilog].next = log[i].next /\ L[i].next = <<ilog>>
         /\ \A j \in Insts : j # i => L[j].next = log[j].next
         /\ \A j \in Insts : \A a : a \in Range(L[j].prev) <=>
               IF a = ilog THEN j \in Range(log[i].next) /\ i \in Range(log[j].prev)
               ELSE a \in Range(log[j].prev) /\ ~(a = i /\ j \in Range(log[i].next))
<1> DEFINE Succs == Range(log[i].next)
<1>1. ilog \in Nat /\ i \in Nat /\ i # ilog /\ i \in Index /\ Insts \subseteq Index
  BY SizesAssumption DEF Insts, Index
<1>2. /\ L[ilog].prev = <<i>> /\ L[ilog].next = log[i].next
      /\ L[i].next = <<ilog>>
      /\ \A j \in Index : j # ilog => L[j].prev = IF j \in Succs THEN Put(log[j].prev, i, ilog) ELSE log[j].prev
      /\ \A j \in Index : j # ilog /\ j # i => L[j].next = log[j].next
  BY <1>1 DEF BehindOf, Entry
<1>3. L \in [Index -> Entry]
  <2>1. ASSUME NEW j \in Index, j # ilog
        PROVE  [log[j] EXCEPT !.prev = IF j \in Succs THEN Put(@, i, ilog) ELSE @,
                              !.next = IF j = i THEN <<ilog>> ELSE @] \in Entry
    <3>1. Put(log[j].prev, i, ilog) \in Seq(Index) /\ <<ilog>> \in Seq(Index)
      BY <1>1, EntryLists, PutRange, Lists
    <3> QED BY <3>1, EntryLists DEF Entry
  <2>2. [log[ilog] EXCEPT !.prev = <<i>>, !.next = log[i].next] \in Entry
    <3>1. <<i>> \in Seq(Index) /\ log[i].next \in Seq(Index)
      BY <1>1, EntryLists, Lists
    <3> QED BY <3>1, EntryLists DEF Entry
  <2> QED BY <2>1, <2>2 DEF BehindOf
<1>4. \A j \in Insts : ilog \notin Range(log[j].next) /\ ilog \notin Range(log[j].prev)
  BY <1>1 DEF Bound, Insts
<1>5. \A j \in Insts : j \in Succs /\ j \notin mv => i \in Range(log[j].prev)
  BY <1>1 DEF Linked, Insts
<1>6. \A j \in Insts : L[j].prev = <<>> <=> log[j].prev = <<>>
  <2> SUFFICES ASSUME NEW j \in Insts PROVE L[j].prev = <<>> <=> log[j].prev = <<>>
    OBVIOUS
  <2>1. j \in Index /\ j # ilog /\ log[j].prev \in Seq(Index)
    BY <1>1, EntryLists DEF Insts
  <2>2. Put(log[j].prev, i, ilog) = <<>> <=> log[j].prev = <<>>
    BY <1>1, <2>1, PutRange
  <2> QED BY <1>2, <2>1, <2>2
<1>7. \A j \in Insts : \A a : a # ilog => (a \in Range(L[j].prev) <=> a \in Range(log[j].prev) /\ ~(a = i /\ j \in Succs))
  <2> SUFFICES ASSUME NEW j \in Insts, NEW a, a # ilog
               PROVE  a \in Range(L[j].prev) <=> a \in Range(log[j].prev) /\ ~(a = i /\ j \in Succs)
    OBVIOUS
  <2>1. j \in Index /\ j # ilog /\ log[j].prev \in Seq(Index)
    BY <1>1, EntryLists DEF Insts
  <2>2. a \in Range(Put(log[j].prev, i, ilog)) <=> ((a # i /\ a \in Range(log[j].prev)) \/ (a = ilog /\ i \in Range(log[j].prev)))
    BY <1>1, <2>1, PutRange
  <2> QED BY <1>2, <2>1, <2>2
<1>8. \A j \in Insts : ilog \in Range(L[j].prev) <=> j \in Succs /\ i \in Range(log[j].prev)
  <2> SUFFICES ASSUME NEW j \in Insts
               PROVE  ilog \in Range(L[j].prev) <=> j \in Succs /\ i \in Range(log[j].prev)
    OBVIOUS
  <2>1. j \in Index /\ j # ilog /\ log[j].prev \in Seq(Index)
    BY <1>1, EntryLists DEF Insts
  <2>2. ilog \in Range(Put(log[j].prev, i, ilog)) <=> ((ilog # i /\ ilog \in Range(log[j].prev)) \/ i \in Range(log[j].prev))
    BY <1>1, <2>1, PutRange
  <2> QED BY <1>2, <1>4, <2>1, <2>2
<1>9. Range(L[ilog].prev) = {i} /\ Range(L[ilog].next) = Succs /\ Range(L[i].next) = {ilog}
  BY <1>1, <1>2, Lists
<1>10. \A j \in Insts : j # i => L[j].next = log[j].next
  BY <1>1, <1>2 DEF Insts
<1>11. 1 .. ilog + 1 - 1 = Insts \cup {ilog} /\ 0 .. ilog + 1 - 1 = {0, ilog} \cup Insts
  BY <1>1 DEF Insts
<1>12. ilog \notin Insts /\ i \in Insts
  BY <1>1 DEF Insts
<1> HIDE DEF Succs
<1>13. Linked(L, ilog + 1, mv)
  <2> SUFFICES ASSUME NEW a \in Insts \cup {ilog}, NEW b \in Insts \cup {ilog}, b \notin mv
               PROVE  b \in Range(L[a].next) <=> a \in Range(L[b].prev)
    BY <1>11 DEF Linked
  <2>1. CASE b = ilog
    <3>1. ilog \notin Succs
      BY <1>4, <1>12 DEF Succs
    <3> QED BY <1>4, <1>9, <1>10, <1>12, <2>1, <3>1
  <2>2. CASE a = ilog /\ b \in Insts
    BY <1>5, <1>8, <1>9, <2>2
  <2>3. CASE a = i /\ b \in Insts
    <3>1. i \in Range(log[b].prev) => b \in Succs
      BY <2>3, <1>12 DEF Linked, Insts, Succs
    <3> QED BY <1>7, <1>9, <1>12, <2>3, <3>1
  <2>4. CASE a \in Insts /\ b \in Insts /\ a # i
    BY <1>7, <1>10, <1>12, <2>4 DEF Linked, Insts
  <2> QED BY <2>1, <2>2, <2>3, <2>4
<1>14. Bound(L, ilog + 1)
  <2> SUFFICES ASSUME NEW a \in Insts \cup {ilog}
               PROVE  Range(L[a].next) \subseteq {0, ilog} \cup Insts /\ Range(L[a].prev) \subseteq {0, ilog} \cup Insts
    BY <1>11 DEF Bound
  <2>1. \A j \in Insts : Range(log[j].next) \subseteq {0} \cup Insts /\ Range(log[j].prev) \subseteq {0} \cup Insts
    BY <1>1, BoundSets DEF Insts
  <2>2. Succs \subseteq {0} \cup Insts
    BY <2>1 DEF Succs
  <2>3. CASE a = ilog
    BY <1>9, <2>2, <2>3
  <2>4. CASE a \in Insts
    BY <1>7, <1>9, <1>10, <2>1, <2>4
  <2> QED BY <2>3, <2>4
<1> QED BY <1>2, <1>3, <1>6, <1>7, <1>8, <1>10, <1>13, <1>14 DEF Succs

\* Another list of successors or predecessors in one entry.
WithNext(l, k, s) == [l EXCEPT ![k].next = s]
WithPrev(l, k, s) == [l EXCEPT ![k].prev = s]
NextSet(C, B, k, s) ==
  /\ C \in [Index -> Entry] /\ C[k].next = s
  /\ \A j \in Index : C[j].prev = B[j].prev /\ (j # k => C[j].next = B[j].next)
PrevSet(C, B, k, s) ==
  /\ C \in [Index -> Entry] /\ C[k].prev = s
  /\ \A j \in Index : C[j].next = B[j].next /\ (j # k => C[j].prev = B[j].prev)

LEMMA NextChanged ==
  ASSUME NEW B \in [Index -> Entry], NEW k \in Index, NEW s \in Seq(Index), NEW C, C = WithNext(B, k, s)
  PROVE  NextSet(C, B, k, s)
BY DEF Entry, WithNext, NextSet

LEMMA PrevChanged ==
  ASSUME NEW B \in [Index -> Entry], NEW k \in Index, NEW s \in Seq(Index), NEW C, C = WithPrev(B, k, s)
  PROVE  PrevSet(C, B, k, s)
BY DEF Entry, WithPrev, PrevSet

\* What the selection of an SBB writes behind insert_nop_after, list by list.
Selected(B, i, x, y, z) ==
  [[B EXCEPT ![i].next = <<y, ilog>>, ![x].next[1] = z] EXCEPT ![z].prev = Append(@, x)]
HasSelection(L, B, i, x, y, z) ==
  /\ L \in [Index -> Entry] /\ Range(L[i].next) = {y, ilog}
  /\ z \in Range(L[x].next) /\ Range(L[x].next) \subseteq Range(B[x].next) \cup {z}
  /\ \A b : b # y => (b \in Range(L[x].next) <=> b = z \/ b \in Range(B[x].next))
  /\ L[z].prev # <<>> /\ Range(L[z].prev) = Range(B[z].prev) \cup {x}
  /\ \A j \in Index : j # i /\ j # x => L[j].next = B[j].next
  /\ \A j \in Index : j # z => L[j].prev = B[j].prev

LEMMA SelectionLists ==
  ASSUME NEW B \in [Index -> Entry], NEW i \in Index, NEW x \in Index, NEW y \in Index, NEW z \in Index,
         ilog \in Index, i # x, B[x].next # <<>>, B[x].next[1] = y, NEW L, L = Selected(B, i, x, y, z)
  PROVE  HasSelection(L, B, i, x, y, z)
<1> DEFINE two == <<y, ilog>>
           C == [B EXCEPT ![i].next = two]
           nx == [B[x].next EXCEPT ![1] = z]
           E == [C EXCEPT ![x].next = nx]
           pv == Append(B[z].prev, x)
<1>1. two \in Seq(Index) /\ B[x].next \in Seq(Index) /\ B[z].prev \in Seq(Index)
  BY Lists DEF Entry
<1>2. nx \in Seq(Index) /\ pv \in Seq(Index)
  BY <1>1, HeadChanged, AppendRange
<1>3. C = WithNext(B, i, two)
  BY DEF WithNext
<1>4. E = WithNext(C, x, nx)
  BY DEF WithNext
<1>6. [B EXCEPT ![i].next = <<y, ilog>>, ![x].next[1] = z] = E
  BY <1>1
<1> HIDE DEF C, E, nx, two, pv
<1>7. NextSet(C, B, i, two)
  BY <1>1, <1>3, NextChanged
<1>8. NextSet(E, C, x, nx)
  <2>1. C \in [Index -> Entry]
    BY <1>7 DEF NextSet
  <2> QED BY <1>2, <1>4, <2>1, NextChanged
<1>9. E \in [Index -> Entry] /\ E[z].prev = B[z].prev
  BY <1>7, <1>8 DEF NextSet
<1>10. PrevSet(L, E, z, pv)
  <2>1. L = [E EXCEPT ![z].prev = Append(@, x)]
    BY <1>6 DEF Selected
  <2>2. L = WithPrev(E, z, pv)
    BY <1>9, <2>1 DEF WithPrev, pv
  <2> QED BY <1>2, <1>9, <2>2, PrevChanged
<1>11. /\ L[i].next = two /\ L[x].next = nx
       /\ \A j \in Index : j # i /\ j # x => L[j].next = B[j].next
       /\ \A j \in Index : j # z => L[j].prev = B[j].prev
  BY <1>7, <1>8, <1>10 DEF NextSet, PrevSet
<1>12. Range(two) = {y, ilog}
  BY Lists DEF two
<1>13. /\ z \in Range(nx) /\ Range(nx) \subseteq Range(B[x].next) \cup {z}
       /\ \A b : b # y => (b \in Range(nx) <=> b = z \/ b \in Range(B[x].next))
  BY <1>1, HeadChanged DEF nx
<1>14. pv # <<>> /\ Range(pv) = Range(B[z].prev) \cup {x}
  BY <1>1, AppendRange DEF pv
<1> QED BY <1>10, <1>11, <1>12, <1>13, <1>14 DEF PrevSet, HasSelection

\* The way from i leads to y and to the new entry, from the new entry to x, and from x
\* to z, past y, whose predecessors are left as they were.
KeepsOrigins(L, z) ==
  /\ \A j \in Insts : log[j].prev # <<>> => L[j].prev # <<>>
  /\ \A j \in Insts : j # z /\ log[j].prev = <<>> => L[j].prev = <<>>

LEMMA SelectionLinks ==
  ASSUME log \in [Index -> Entry], ilog \in Index, NEW mv, Linked(log, ilog, mv), Bound(log, ilog),
         NEW i \in Insts, NEW x \in Insts, NEW y \in Insts, NEW z \in 0 .. ilog - 1, i # x,
         NEW B, B = BehindOf(i), NEW L, HasSelection(L, B, i, x, y, z)
  PROVE  /\ Linked(L, ilog + 1, mv \cup {y}) /\ Bound(L, ilog + 1) /\ KeepsOrigins(L, z)
<1>1. /\ ilog \in Nat \ {0} /\ i \in Index /\ x \in Index /\ y \in Index /\ z \in Index
      /\ Insts \subseteq Index /\ ilog \notin Insts /\ z # ilog /\ z \in {0} \cup Insts /\ 0 \notin Insts
  BY SizesAssumption DEF Insts, Index
<1>2. /\ Linked(B, ilog + 1, mv) /\ Bound(B, ilog + 1)
      /\ \A j \in Insts : B[j].prev = <<>> <=> log[j].prev = <<>>
      /\ B[i].next = <<ilog>>
  BY BehindLinks
<1>h. /\ Range(L[i].next) = {y, ilog}
      /\ z \in Range(L[x].next) /\ Range(L[x].next) \subseteq Range(B[x].next) \cup {z}
      /\ \A b : b # y => (b \in Range(L[x].next) <=> b = z \/ b \in Range(B[x].next))
      /\ L[z].prev # <<>> /\ Range(L[z].prev) = Range(B[z].prev) \cup {x}
      /\ \A j \in Index : j # i /\ j # x => L[j].next = B[j].next
      /\ \A j \in Index : j # z => L[j].prev = B[j].prev
  BY DEF HasSelection
<1>3. Range(B[i].next) = {ilog}
  BY <1>1, <1>h, <1>2, Lists
<1>4. \A j \in Insts \cup {ilog} : j # i /\ j # x => L[j].next = B[j].next
  BY <1>1, <1>h
<1>5. \A j \in Insts \cup {ilog} : \A a : a # x => (a \in Range(L[j].prev) <=> a \in Range(B[j].prev))
  BY <1>1, <1>h
<1>6. \A j \in Insts \cup {ilog} : x \in Range(L[j].prev) <=> j = z \/ x \in Range(B[j].prev)
  BY <1>1, <1>h
<1>7. \A a, b \in Insts \cup {ilog} : b \notin mv => (b \in Range(B[a].next) <=> a \in Range(B[b].prev))
  BY <1>1, <1>h, <1>2, OneMore
<1>8. Linked(L, ilog + 1, mv \cup {y})
  <2> SUFFICES ASSUME NEW a \in Insts \cup {ilog}, NEW b \in Insts \cup {ilog}, b \notin mv, b # y
               PROVE  b \in Range(L[a].next) <=> a \in Range(L[b].prev)
    BY <1>1, <1>h, OneMore
  <2>1. CASE a = i
    BY <1>3, <1>h, <1>5, <1>7, <2>1
  <2>2. CASE a = x
    BY <1>6, <1>h, <1>7, <2>2
  <2>3. CASE a # i /\ a # x
    BY <1>4, <1>5, <1>7, <2>3
  <2> QED BY <2>1, <2>2, <2>3
<1>9. Bound(L, ilog + 1)
  <2> SUFFICES ASSUME NEW a \in Insts \cup {ilog}
               PROVE  Range(L[a].next) \subseteq {0, ilog} \cup Insts /\ Range(L[a].prev) \subseteq {0, ilog} \cup Insts
    BY <1>1, <1>h, OneMore
  <2>1. \A j \in Insts \cup {ilog} : Range(B[j].next) \subseteq {0, ilog} \cup Insts /\ Range(B[j].prev) \subseteq {0, ilog} \cup Insts
    BY <1>1, <1>h, <1>2, OneMore
  <2>2. Range(L[a].prev) \subseteq {0, ilog} \cup Insts
    BY <1>1, <1>h, <2>1
  <2>3. Range(L[a].next) \subseteq {0, ilog} \cup Insts
    BY <1>1, <1>h, <1>3, <1>4, <2>1
  <2> QED BY <2>2, <2>3
<1>10. \A j \in Insts : log[j].prev # <<>> => L[j].prev # <<>>
  BY <1>1, <1>h, <1>2
<1>11. \A j \in Insts : j # z /\ log[j].prev = <<>> => L[j].prev = <<>>
  BY <1>1, <1>h, <1>2
<1> QED BY <1>8, <1>9, <1>10, <1>11 DEF KeepsOrigins

-----------------------------------------------------------------------------
(* The inductive invariant *)

Begun == stage \in {"table", "scan", "fix", "fixed", "exit"}

\* The tables of the passes name entries of the log.
TablesOK ==
  /\ inst = [i \in Index |-> inst[i]] /\ dep = [i \in Index |-> dep[i]]
  /\ \A i \in Index : dep[i] \in 0 .. ilog - 1

GraphOK == log \in [Index -> Entry] /\ Linked(log, ilog, moved) /\ Bound(log, ilog)

\* What an SBB left behind is no SUB, so that nothing is put in front of it any more, and
\* it has a predecessor, so that no function begins there.
MovedOK == moved \subseteq Insts /\ \A i \in moved : inst[i].op # "SUB" /\ log[i].prev # <<>>

BeginsOK ==
  \A f \in DOMAIN entry :
    entry[f] \in Insts /\ (Begins(before.log, before.entry[f]) => log[entry[f]].prev = <<>>)

PlaceOK ==
  /\ item \in Nat \ {0} /\ size \in Nat /\ item <= size /\ size <= ilog
  /\ stage = "scan" => item < size /\ scanAt \in Insts
  /\ stage \in {"table", "scan"} => moved = {}

Inside == TablesOK /\ GraphOK /\ MovedOK /\ BeginsOK /\ PlaceOK

\* inst_log only grows: what holds while there is room is not disturbed when there is none.
FlagsInv ==
  /\ ~Begun => moved = {}
  /\ Begun => pc = "done" /\ ilog \in Nat \ {0} /\ (ilog <= LogSize => Inside)

-----------------------------------------------------------------------------
(* What a step does to the log *)

LEMMA InstsIn == ASSUME ilog \in Nat \ {0}, ilog <= LogSize PROVE Insts \subseteq Index
BY SizesAssumption DEF Insts, Index

\* An element of a list of an entry is an entry, or 0.
LEMMA ListIn ==
  ASSUME ilog \in Nat \ {0}, ilog <= LogSize, GraphOK, NEW i \in Insts
  PROVE  /\ log[i].next # <<>> => log[i].next[1] \in 0 .. ilog - 1 /\ log[i].next[1] \in Range(log[i].next)
         /\ log[i].prev # <<>> => log[i].prev[1] \in 0 .. ilog - 1 /\ log[i].prev[1] \in Range(log[i].prev)
<1>1. i \in Index
  BY InstsIn
<1>2. log[i].next \in Seq(Index) /\ log[i].prev \in Seq(Index)
  BY <1>1, EntryLists DEF GraphOK
<1>3. ASSUME NEW s \in Seq(Index), s # <<>> PROVE s[1] \in Range(s)
  <2>1. DOMAIN s = 1 .. Len(s) /\ Len(s) \in Nat /\ Len(s) # 0
    BY <1>3, LenProperties, EmptySeq
  <2> QED BY <2>1 DEF Range
<1>4. Range(log[i].next) \subseteq 0 .. ilog - 1 /\ Range(log[i].prev) \subseteq 0 .. ilog - 1
  BY DEF GraphOK, Bound, Insts
<1>5. log[i].next # <<>> => log[i].next[1] \in Range(log[i].next)
  BY <1>2, <1>3
<1>6. log[i].prev # <<>> => log[i].prev[1] \in Range(log[i].prev)
  BY <1>2, <1>3
<1> QED BY <1>4, <1>5, <1>6

\* A step that leaves the log alone.
LEMMA LogKept ==
  ASSUME Inside, KeepLog, UNCHANGED <<before, moved>>, \A j \in moved : inst'[j].op # "SUB"
  PROVE  GraphOK' /\ MovedOK' /\ BeginsOK'
<1>1. GraphOK'
  BY DEF Inside, KeepLog, GraphOK, Linked, Bound
<1>2. MovedOK'
  BY DEF Inside, KeepLog, MovedOK, Insts
<1>3. BeginsOK'
  BY DEF Inside, KeepLog, BeginsOK, Insts
<1> QED BY <1>1, <1>2, <1>3

LEMMA LogBefore ==
  ASSUME Inside, ilog \in Nat \ {0}, ilog' <= LogSize, NEW i \in Insts, i \notin moved, ~Immovable(i),
         InsertBefore(i), UNCHANGED <<before, moved>>, \A j \in moved : inst'[j].op # "SUB"
  PROVE  GraphOK' /\ MovedOK' /\ BeginsOK'
<1>1. ilog' = ilog + 1 /\ ilog \in Index /\ log' = BeforeOf(i) /\ Insts' = Insts \cup {ilog} /\ ilog \notin Insts
  BY SizesAssumption DEF InsertBefore, Index, Insts
<1>2. /\ log' \in [Index -> Entry] /\ Linked(log', ilog + 1, moved) /\ Bound(log', ilog + 1)
      /\ log'[ilog].prev = log[i].prev /\ log'[i].prev # <<>>
      /\ \A j \in Insts : j # i => log'[j].prev = log[j].prev
  BY <1>1, BeforeLinks DEF Inside, GraphOK
<1>3. GraphOK'
  BY <1>1, <1>2 DEF GraphOK, Linked, Bound
<1>4. MovedOK'
  BY <1>1, <1>2 DEF Inside, MovedOK
<1>5. BeginsOK'
  <2>1. CASE log[i].prev = <<>>
    <3>1. entry' = [f \in DOMAIN entry |-> IF entry[f] = i THEN ilog ELSE entry[f]]
      BY <2>1 DEF InsertBefore, Put
    <3> QED BY <1>1, <1>2, <2>1, <3>1 DEF Inside, BeginsOK
  <2>2. CASE log[i].prev # <<>>
    <3>1. entry' = entry
      BY <2>2 DEF InsertBefore
    <3> QED BY <1>1, <1>2, <2>2, <3>1 DEF Inside, BeginsOK
  <2> QED BY <2>1, <2>2
<1> QED BY <1>3, <1>4, <1>5

LEMMA LogBehind ==
  ASSUME Inside, ilog \in Nat \ {0}, ilog' <= LogSize, NEW i \in Insts,
         InsertAfter(i), UNCHANGED <<before, moved>>, \A j \in moved : inst'[j].op # "SUB"
  PROVE  GraphOK' /\ MovedOK' /\ BeginsOK'
<1>1. ilog' = ilog + 1 /\ ilog \in Index /\ log' = BehindOf(i) /\ Insts' = Insts \cup {ilog} /\ entry' = entry
  BY SizesAssumption DEF InsertAfter, Index, Insts
<1>2. /\ log' \in [Index -> Entry] /\ Linked(log', ilog + 1, moved) /\ Bound(log', ilog + 1)
      /\ \A j \in Insts : log'[j].prev = <<>> <=> log[j].prev = <<>>
  BY <1>1, BehindLinks DEF Inside, GraphOK
<1>3. GraphOK'
  BY <1>1, <1>2 DEF GraphOK, Linked, Bound
<1>4. MovedOK'
  BY <1>1, <1>2 DEF Inside, MovedOK
<1>5. BeginsOK'
  BY <1>1, <1>2 DEF Inside, BeginsOK
<1> QED BY <1>3, <1>4, <1>5

LEMMA LogSelected ==
  ASSUME Inside, ilog \in Nat \ {0}, ilog' <= LogSize, SbbSelects
  PROVE  GraphOK' /\ MovedOK' /\ BeginsOK' /\ TablesOK'
<1>1. /\ ilog' = ilog + 1 /\ ilog \in Index /\ Insts' = Insts \cup {ilog} /\ ilog \notin Insts
      /\ Insts \subseteq Index /\ ilog <= LogSize /\ UNCHANGED <<before, entry, tables>> /\ moved' = moved \cup {Next2}
  BY SizesAssumption DEF SbbSelects, Index, Insts, Rest
<1>2. item \in Insts /\ dep[item] # 0 /\ inst[item].op = "SBB" /\ Fixing /\ IsSelection
  BY DEF SbbSelects, SbbRead, Fixing, Inside, PlaceOK, Insts
<1>3. Next1 # 0 /\ Next2 # 0 /\ inst[Next1].op = "rAND" /\ inst[Next2].op = "ADD"
  BY <1>2 DEF IsSelection
<1>4. /\ log[item].next # <<>> /\ Next1 = log[item].next[1] /\ Next1 \in Insts
      /\ log[Next1].next # <<>> /\ Next2 = log[Next1].next[1] /\ Next2 \in Insts /\ Next2 \in Range(log[Next1].next)
  <2>1. log[item].next # <<>> /\ Next1 = log[item].next[1]
    BY <1>3 DEF Next1, NextEntry
  <2>2. Next1 \in Insts
    BY <1>1, <1>2, <1>3, <2>1, ListIn DEF Inside, Insts
  <2>3. log[Next1].next # <<>> /\ Next2 = log[Next1].next[1]
    BY <1>3 DEF Next2, NextEntry
  <2>4. Next2 \in 0 .. ilog - 1 /\ Next2 \in Range(log[Next1].next)
    BY <1>1, <2>2, <2>3, ListIn DEF Inside
  <2> QED BY <1>1, <1>3, <2>1, <2>2, <2>3, <2>4 DEF Insts
<1>5. Next3 \in 0 .. ilog - 1 /\ (Next3 # 0 => Next3 \in Range(log[Next2].next))
  <2>1. CASE log[Next2].next = <<>>
    BY <1>1, <2>1 DEF Next3, NextEntry, Index
  <2>2. CASE log[Next2].next # <<>>
    <3>1. Next3 = log[Next2].next[1]
      BY <2>2 DEF Next3, NextEntry
    <3>2. log[Next2].next[1] \in 0 .. ilog - 1 /\ log[Next2].next[1] \in Range(log[Next2].next)
      BY <1>1, <1>4, <2>2, ListIn DEF Inside
    <3> QED BY <3>1, <3>2
  <2> QED BY <2>1, <2>2
<1>6. item # Next1 /\ item # Next2 /\ Next1 # Next2
  BY <1>2, <1>3
<1> DEFINE i == item
           x == Next1
           y == Next2
           z == Next3
           B == BehindOf(i)
           L == Selected(B, i, x, y, z)
<1>7. log' = L
  BY DEF SbbSelects, Selected
<1>8. i \in Insts /\ x \in Insts /\ y \in Insts /\ z \in 0 .. ilog - 1 /\ i # x
  BY <1>2, <1>4, <1>5, <1>6
<1>9. i \in Index /\ x \in Index /\ y \in Index /\ z \in Index
  BY <1>1, <1>8, SizesAssumption DEF Index
<1>10. log \in [Index -> Entry] /\ Linked(log, ilog, moved) /\ Bound(log, ilog)
  BY DEF Inside, GraphOK
<1>11. B \in [Index -> Entry] /\ B[x].next = log[x].next
  BY <1>1, <1>8, <1>10, BehindLinks
<1>12. log[x].next # <<>> /\ log[x].next[1] = y /\ log[x].next \in Seq(Index)
  BY <1>4, <1>9, <1>10, EntryLists
<1> HIDE DEF i, x, y, z, B
<1>13. B[x].next # <<>> /\ B[x].next[1] = y
  BY <1>11, <1>12
<1>14. L = Selected(B, i, x, y, z)
  OBVIOUS
<1>15. i # x /\ ilog \in Index /\ B \in [Index -> Entry]
  BY <1>1, <1>8, <1>11
<1> HIDE DEF L
<1>16. HasSelection(L, B, i, x, y, z)
  BY <1>9, <1>13, <1>14, <1>15, SelectionLists
<1>17. B = BehindOf(i)
  BY DEF B
<1>18. /\ log \in [Index -> Entry] /\ ilog \in Index /\ Linked(log, ilog, moved) /\ Bound(log, ilog)
      /\ i \in Insts /\ x \in Insts /\ y \in Insts /\ z \in 0 .. ilog - 1 /\ i # x
  BY <1>8, <1>10, <1>15
<1>19. Linked(L, ilog + 1, moved \cup {y})
  BY <1>18, <1>16, <1>17, SelectionLinks
<1>20. Bound(L, ilog + 1)
  BY <1>18, <1>16, <1>17, SelectionLinks
<1>21. KeepsOrigins(L, z)
  BY <1>18, <1>16, <1>17, SelectionLinks
<1>22. GraphOK'
  BY <1>1, <1>7, <1>16, <1>19, <1>20 DEF GraphOK, HasSelection, Linked, Bound, y
\* What comes behind an entry has a predecessor, or had one taken from it.
<1>23. \A a, b \in Insts : b \in Range(log[a].next) => log[b].prev # <<>>
  <2> SUFFICES ASSUME NEW a \in Insts, NEW b \in Insts, b \in Range(log[a].next) PROVE log[b].prev # <<>>
    OBVIOUS
  <2>1. CASE b \in moved
    BY <2>1 DEF Inside, MovedOK
  <2>2. CASE b \notin moved
    <3>1. a \in Range(log[b].prev)
      BY <1>10, <2>2 DEF Linked, Insts
    <3> QED BY <3>1, Lists
  <2> QED BY <2>1, <2>2
<1>24. BeginsOK'
  <2>1. ASSUME NEW e \in Insts, log[e].prev = <<>> PROVE log'[e].prev = <<>>
    <3>1. e # z
      BY <1>4, <1>5, <1>23, <2>1 DEF z, Insts
    <3> QED BY <1>7, <1>21, <2>1, <3>1 DEF KeepsOrigins
  <2> QED BY <1>1, <2>1 DEF Inside, BeginsOK
\* The instructions it writes are no SUB.
<1>25. TablesOK' /\ inst'[Next2].op = "MOV" /\ \A j \in Index : inst'[j].op = inst[j].op \/ inst'[j].op # "SUB"
  <2>1. PICK a, b, r :
          inst' = [inst EXCEPT ![Flagger] = Icmp(@, LESS), ![item] = Bc(@, LESS), ![ilog] = Instr("MOV", 0, a, r, r, TRUE),
                               ![Next1] = Instr("JMP", 0, b, r, r, TRUE), ![Next2] = Instr("MOV", 0, b, r, r, TRUE)]
    BY DEF SbbSelects
  <2>2. /\ \A e, r1 : Icmp(e, r1).op = "ICMP" /\ Bc(e, r1).op = "BC"
        /\ \A d : Instr("MOV", 0, d, r, r, TRUE).op = "MOV" /\ Instr("JMP", 0, d, r, r, TRUE).op = "JMP"
    BY DEF Icmp, Bc, Instr
  <2> HIDE DEF i, x, y, z
  <2>3. \A j \in Index : inst'[j].op = inst[j].op \/ inst'[j].op # "SUB"
    BY <2>1, <2>2 DEF Inside, TablesOK
  <2>4. inst' = [j \in Index |-> inst'[j]]
    BY <2>1 DEF Inside, TablesOK
  <2>5. dep' = dep /\ ilog' = ilog + 1 /\ ilog \in Nat
    BY <1>1 DEF tables
  <2>6. inst'[Next2].op = "MOV"
    BY <1>1, <1>4, <2>1, <2>2 DEF Inside, TablesOK
  <2>7. TablesOK'
    BY <2>4, <2>5 DEF Inside, TablesOK
  <2> QED BY <2>3, <2>6, <2>7
<1>26. MovedOK'
  <2>1. Next2 \in Insts /\ x \in Insts /\ log[Next2].prev # <<>>
    BY <1>4, <1>8, <1>23 DEF x
  <2>2. ASSUME NEW j \in moved' PROVE j \in Insts /\ inst'[j].op # "SUB" /\ log[j].prev # <<>>
    <3>1. CASE j = Next2
      BY <2>1, <3>1, <1>25
    <3>2. CASE j \in moved
      <4>1. j \in Insts /\ inst[j].op # "SUB" /\ log[j].prev # <<>>
        BY <3>2 DEF Inside, MovedOK
      <4>2. j \in Index
        BY <1>1, <4>1
      <4> QED
        BY <1>25, <4>1, <4>2
    <3> QED
      BY <1>1, <2>2, <3>1, <3>2
  <2>3. \A j \in Insts : log[j].prev # <<>> => log'[j].prev # <<>>
    BY <1>7, <1>21 DEF KeepsOrigins
  <2>4. moved' \subseteq Insts'
    BY <1>1, <2>2
  <2> QED
    BY <2>2, <2>3, <2>4 DEF MovedOK
<1> QED BY <1>22, <1>24, <1>25, <1>26

-----------------------------------------------------------------------------
(* The two passes *)

LEMMA PriorIn ==
  ASSUME Inside, ilog \in Nat \ {0}, ilog <= LogSize, stage = "scan", Prior # 0
  PROVE  Prior \in Insts
<1>1. scanAt \in Insts
  BY DEF Inside, PlaceOK
<1>2. log[scanAt].prev # <<>> /\ Prior = log[scanAt].prev[1]
  BY DEF Prior
<1>3. Prior \in 0 .. ilog - 1
  BY <1>1, <1>2, ListIn DEF Inside
<1> QED BY <1>3 DEF Insts

\* What the actions do to the tables of the instructions and of the dependencies.
LEMMA TablesKept ==
  ASSUME Inside, ilog \in Nat \ {0}, ilog' \in Nat, ilog <= ilog', inst' = [j \in Index |-> inst'[j]],
         dep' = dep \/ \E i \in 0 .. ilog' - 1 : dep' = [dep EXCEPT ![item] = i]
  PROVE  TablesOK'
BY DEF Inside, TablesOK

LEMMA BuildStep ==
  ASSUME Inside, ilog \in Nat \ {0}, ilog' <= LogSize, ilog <= LogSize, Build
  PROVE  Inside'
<1>a. /\ inst = [i \in Index |-> inst[i]] /\ \A j \in moved : inst[j].op # "SUB"
      /\ item \in Nat \ {0} /\ size \in Nat /\ item <= size /\ size <= ilog /\ Insts \subseteq Index
  BY InstsIn DEF Inside, TablesOK, MovedOK, PlaceOK
<1>b. stage = "scan" => item < size /\ scanAt \in Insts /\ moved = {}
  BY DEF Inside, PlaceOK
<1>c. stage = "table" => moved = {}
  BY DEF Inside, PlaceOK
<1>1. CASE NoFlagsRead
  <2> USE <1>1 DEF NoFlagsRead
  <2>1. GraphOK' /\ MovedOK' /\ BeginsOK'
    BY <1>a, LogKept DEF Rest
  <2>2. TablesOK'
    BY <1>a, TablesKept DEF KeepLog, tables
  <2>3. PlaceOK'
    BY <1>a, <1>c DEF PlaceOK, Building, Turn, Rest, KeepLog
  <2> QED BY <2>1, <2>2, <2>3 DEF Inside
<1>2. CASE StartScan
  <2> USE <1>2 DEF StartScan
  <2>1. GraphOK' /\ MovedOK' /\ BeginsOK'
    BY <1>a, LogKept
  <2>2. TablesOK'
    BY <1>a, TablesKept DEF KeepLog, tables
  <2>3. PlaceOK'
    BY <1>a, <1>c DEF PlaceOK, Building, Halt, KeepLog, Insts
  <2> QED BY <2>1, <2>2, <2>3 DEF Inside
<1>3. CASE ScanBack
  <2> USE <1>3 DEF ScanBack
  <2>1. GraphOK' /\ MovedOK' /\ BeginsOK'
    BY <1>a, LogKept
  <2>2. TablesOK'
    BY <1>a, TablesKept DEF KeepLog, tables
  <2>3. PlaceOK'
    BY <1>a, <1>b, PriorIn DEF PlaceOK, KeepLog, Insts
  <2> QED BY <2>1, <2>2, <2>3 DEF Inside
<1>4. CASE FirstReader
  <2> USE <1>4 DEF FirstReader
  <2>1. stage = "scan" /\ Prior \in Insts
    BY <1>a, PriorIn DEF FoundSetter, SetsFlags
  <2>2. GraphOK' /\ MovedOK' /\ BeginsOK'
    BY <1>a, LogKept DEF Rest
  <2>3. TablesOK'
    <3>1. inst' = inst /\ ilog' = ilog /\ dep' = [dep EXCEPT ![item] = Prior] /\ Prior \in 0 .. ilog' - 1
      BY <2>1 DEF KeepLog, DependOn, Insts
    <3>2. inst' = [j \in Index |-> inst'[j]] /\ ilog <= ilog' /\ ilog' \in Nat
      BY <1>a, <3>1
    <3>3. \E i \in 0 .. ilog' - 1 : dep' = [dep EXCEPT ![item] = i]
      BY <3>1, Zenon
    <3> QED BY <3>2, <3>3, TablesKept
  <2>4. PlaceOK'
    BY <1>a, <1>b, <2>1 DEF PlaceOK, NextReader, Rest, KeepLog
  <2> QED BY <2>2, <2>3, <2>4 DEF Inside
<1>5. CASE AnotherReader
  <2> USE <1>5 DEF AnotherReader
  <2>1. stage = "scan" /\ Prior \in Insts /\ Prior \notin moved /\ moved = {}
    BY <1>a, <1>b, PriorIn DEF FoundSetter, SetsFlags
  <2>2. ilog' = ilog + 1
    BY DEF InsertBefore
  <2>3. GraphOK' /\ MovedOK' /\ BeginsOK'
    BY <1>a, <2>1, LogBefore DEF Rest
  <2>4. TablesOK'
    <3>1. dep' = [dep EXCEPT ![item] = ilog] /\ ilog \in 0 .. ilog' - 1
      BY <2>2 DEF DependOn
    <3>2. inst' = [inst EXCEPT ![ilog] = inst[Prior]]
      OBVIOUS
    <3>3. inst' = [j \in Index |-> inst'[j]]
      BY <1>a, <3>2
    <3>4. \E i \in 0 .. ilog' - 1 : dep' = [dep EXCEPT ![item] = i]
      BY <3>1, Zenon
    <3>5. ilog' \in Nat /\ ilog <= ilog'
      BY <2>2
    <3> HIDE DEF AnotherReader
    <3> QED BY <3>3, <3>4, <3>5, TablesKept
  <2>5. PlaceOK'
    BY <1>a, <1>b, <2>1, <2>2 DEF PlaceOK, NextReader, Rest
  <2> QED BY <2>3, <2>4, <2>5 DEF Inside
<1>6. CASE NoCopy
  <2> USE <1>6 DEF NoCopy
  <2>1. GraphOK' /\ MovedOK' /\ BeginsOK'
    BY <1>a, LogKept DEF Rest
  <2>2. TablesOK'
    BY <1>a, TablesKept DEF KeepLog, tables
  <2>3. PlaceOK'
    BY <1>a DEF PlaceOK, Halt, Rest, KeepLog
  <2> QED BY <2>1, <2>2, <2>3 DEF Inside
<1>7. CASE BuildEnds
  <2> USE <1>7 DEF BuildEnds
  <2>1. GraphOK' /\ MovedOK' /\ BeginsOK'
    BY <1>a, LogKept
  <2>2. TablesOK'
    BY <1>a, TablesKept DEF KeepLog, tables
  <2>3. PlaceOK'
    BY <1>a DEF PlaceOK, KeepLog
  <2> QED BY <2>1, <2>2, <2>3 DEF Inside
<1> QED BY <1>1, <1>2, <1>3, <1>4, <1>5, <1>6, <1>7 DEF Build

LEMMA FixStep ==
  ASSUME Inside, ilog \in Nat \ {0}, ilog' <= LogSize, ilog <= LogSize, Fix
  PROVE  Inside'
<1>a. /\ inst = [i \in Index |-> inst[i]] /\ \A j \in moved : inst[j].op # "SUB"
      /\ item \in Nat \ {0} /\ size \in Nat /\ item <= size /\ size <= ilog
      /\ Insts \subseteq Index /\ moved \subseteq Insts
  BY InstsIn DEF Inside, TablesOK, MovedOK, PlaceOK
<1>r. \A j \in moved : j \in Index
  BY <1>a
\* Nothing but the place changes.
<1>1. ASSUME Turn \/ (\E st : Halt(st) /\ st # "scan" /\ st # "table"), stage = "fix", item < size, KeepLog,
             UNCHANGED <<inst, tables, moved>>, Rest
      PROVE  Inside'
  <2>1. GraphOK' /\ MovedOK' /\ BeginsOK'
    BY <1>a, <1>1, LogKept DEF Rest
  <2>2. TablesOK'
    BY <1>a, <1>1, TablesKept DEF KeepLog, tables
  <2>3. PlaceOK'
    BY <1>a, <1>1 DEF PlaceOK, Halt, Turn, Rest, KeepLog
  <2> QED BY <2>1, <2>2, <2>3 DEF Inside
<1>2. ASSUME Fixing PROVE stage = "fix" /\ item < size /\ item \in Insts /\ Flagger \in Insts
  <2>1. item \in Insts
    BY <1>a, <1>2 DEF Fixing, Insts
  <2>2. dep[item] \in 0 .. ilog - 1
    BY <1>a, <2>1 DEF Inside, TablesOK
  <2> QED BY <1>2, <2>1, <2>2 DEF Fixing, Flagger, Insts
<1>f. ASSUME Fixing, Turn, Rest, ilog' \in Nat, ilog <= ilog' PROVE PlaceOK'
  BY <1>a, <1>2, <1>f DEF PlaceOK, Turn, Rest
<1>o. \A e, r : Icmp(e, r).op = "ICMP" /\ Bc(e, r).op = "BC" /\ Sex(e, r).op = "SEX" /\ Anded(e, r).op = "rAND"
  BY DEF Icmp, Bc, Sex, Anded, Instr
<1>3. CASE NoDependency \/ Unsupported \/ SbbStays \/ SetterChanged \/ IfStays \/ IfUnsupported
  <2>1. CASE NoDependency
    BY <1>1, <2>1 DEF NoDependency
  <2>2. CASE Unsupported
    BY <1>1, <1>2, <2>2 DEF Unsupported
  <2>3. CASE SbbStays
    BY <1>1, <1>2, <2>3 DEF SbbStays, SbbRead
  <2>4. CASE SetterChanged
    BY <1>1, <1>2, <2>4 DEF SetterChanged, IfRead
  <2>5. CASE IfStays
    BY <1>1, <1>2, <2>5 DEF IfStays, IfAsDepended, IfRead
  <2>6. CASE IfUnsupported
    BY <1>1, <1>2, <2>6 DEF IfUnsupported, IfAsDepended, IfRead
  <2> QED BY <1>3, <2>1, <2>2, <2>3, <2>4, <2>5, <2>6
<1>4. CASE FixEnds
  <2> USE <1>4 DEF FixEnds
  <2>1. GraphOK' /\ MovedOK' /\ BeginsOK'
    BY <1>a, LogKept DEF Rest
  <2>2. TablesOK'
    BY <1>a, TablesKept DEF KeepLog, tables
  <2>3. PlaceOK'
    BY <1>a DEF PlaceOK, Halt, Rest, KeepLog
  <2> QED BY <2>1, <2>2, <2>3 DEF Inside
<1>5. CASE SbbSelects
  <2>1. GraphOK' /\ MovedOK' /\ BeginsOK' /\ TablesOK'
    BY <1>5, LogSelected
  <2>2. PlaceOK'
    BY <1>f, <1>5 DEF SbbSelects, SbbRead
  <2> QED BY <2>1, <2>2 DEF Inside
<1>6. CASE SbbExtends \/ IfCompares
  <2>1. Fixing /\ KeepLog /\ Turn /\ Rest /\ UNCHANGED <<tables, moved>>
    BY <1>6 DEF SbbExtends, SbbRead, IfCompares, IfAsDepended, IfRead
  <2>2. inst' = [j \in Index |-> inst'[j]] /\ \A j \in Index : inst'[j].op = inst[j].op \/ inst'[j].op # "SUB"
    <3>1. CASE SbbExtends
      <4>1. inst' = [inst EXCEPT ![Flagger] = Icmp(@, BELOW), ![item] = Sex(@, BELOW)]
        BY <3>1 DEF SbbExtends
      <4> QED BY <1>a, <1>o, <4>1
    <3>2. CASE IfCompares
      <4>1. inst' = [inst EXCEPT ![Flagger] = Icmp(@, FlagOf(inst[item])), ![item] = Bc(@, FlagOf(@))]
        BY <3>2 DEF IfCompares
      <4> QED BY <1>a, <1>o, <4>1
    <3> QED BY <1>6, <3>1, <3>2
  <2>3. GraphOK' /\ MovedOK' /\ BeginsOK'
    BY <1>a, <1>r, <2>1, <2>2, LogKept DEF Rest
  <2>4. TablesOK'
    BY <1>a, <2>1, <2>2, TablesKept DEF KeepLog, tables
  <2>5. PlaceOK'
    BY <1>f, <2>1 DEF KeepLog
  <2> QED BY <2>3, <2>4, <2>5 DEF Inside
<1>7. CASE IfTestsResult
  <2>1. Fixing /\ Turn /\ Rest /\ UNCHANGED <<tables, moved>> /\ InsertAfter(Flagger) /\ Flagger \in Insts /\ ilog' = ilog + 1
    BY <1>2, <1>7 DEF IfTestsResult, IfAsDepended, IfRead, InsertAfter
  <2>2. PICK e : inst' = [inst EXCEPT ![Flagger] = IF inst[Flagger].op = "TEST" THEN Anded(inst[Flagger], TMP1) ELSE inst[Flagger],
                                      ![item] = Bc(@, FlagOf(@)), ![ilog] = Instr("ICMP", 0, 0, e, FlagOf(inst[item]), TRUE)]
    BY <1>7 DEF IfTestsResult
  <2>3. Instr("ICMP", 0, 0, e, FlagOf(inst[item]), TRUE).op = "ICMP"
    BY DEF Instr
  <2>4. inst' = [j \in Index |-> inst'[j]] /\ \A j \in Index : inst'[j].op = inst[j].op \/ inst'[j].op # "SUB"
    BY <1>a, <1>o, <2>2, <2>3
  <2>5. GraphOK' /\ MovedOK' /\ BeginsOK'
    BY <1>a, <1>r, <2>1, <2>4, LogBehind DEF Rest
  <2>6. TablesOK'
    BY <1>a, <2>1, <2>4, TablesKept DEF tables
  <2>7. PlaceOK'
    BY <1>f, <2>1
  <2> QED BY <2>5, <2>6, <2>7 DEF Inside
<1>8. CASE IfSubtracts
  <2>1. /\ Fixing /\ Turn /\ Rest /\ UNCHANGED <<tables, moved>> /\ InsertBefore(Flagger) /\ Flagger \in Insts /\ ilog' = ilog + 1
        /\ ~Immovable(Flagger) /\ inst[Flagger].op = "SUB"
    BY <1>2, <1>8 DEF IfSubtracts, IfAsDepended, IfRead, InsertBefore
  <2>2. Flagger \notin moved
    BY <1>a, <2>1
  <2>3. inst' = [inst EXCEPT ![ilog] = Icmp(inst[Flagger], FlagOf(inst[item])), ![item] = Bc(@, FlagOf(@))]
    BY <1>8 DEF IfSubtracts
  <2>4. inst' = [j \in Index |-> inst'[j]] /\ \A j \in Index : inst'[j].op = inst[j].op \/ inst'[j].op # "SUB"
    BY <1>a, <1>o, <2>3
  <2>5. GraphOK' /\ MovedOK' /\ BeginsOK'
    BY <1>a, <1>r, <2>1, <2>2, <2>4, LogBefore DEF Rest
  <2>6. TablesOK'
    BY <1>a, <2>1, <2>4, TablesKept DEF tables
  <2>7. PlaceOK'
    BY <1>f, <2>1
  <2> QED BY <2>5, <2>6, <2>7 DEF Inside
<1> QED BY <1>3, <1>4, <1>5, <1>6, <1>7, <1>8 DEF Fix, FixSbb, FixIf

-----------------------------------------------------------------------------
(* The passes *)

LEMMA StepBusy == Step => pc # "done"
BY DEF Step, StartFunction, AllExplored, TakeSlot, RepeatPass, FinishFunction, Return, OverRan, MarkOverrun,
       CanFetch, InMemory, BadMark, Rejoin, Decode, LogOverrun, Refused, NoTable, Execute, Queue, Advance

\* What the passes change beside the log, and that they never shorten it.
LEMMA PassFrame ==
  ASSUME Build \/ Fix
  PROVE  Begun /\ Begun' /\ pc' = pc /\ ilog' \in {ilog, ilog + 1}
<1>1. ASSUME Build PROVE Begun /\ Begun' /\ pc' = pc /\ ilog' \in {ilog, ilog + 1}
  BY <1>1 DEF Build, NoFlagsRead, StartScan, ScanBack, FirstReader, AnotherReader, NoCopy, BuildEnds, Building,
              FoundSetter, NextReader, Turn, Halt, Rest, KeepLog, InsertBefore, exploreVars, Begun
<1>2. ASSUME Fix PROVE Begun /\ Begun' /\ pc' = pc /\ ilog' \in {ilog, ilog + 1}
  BY <1>2 DEF Fix, FixSbb, FixIf, NoDependency, Unsupported, SbbSelects, SbbExtends, SbbStays, SetterChanged,
              IfCompares, IfTestsResult, IfSubtracts, IfStays, IfUnsupported, FixEnds, Fixing, SbbRead, IfRead,
              IfAsDepended, Turn, Halt, Rest, KeepLog, InsertBefore, InsertAfter, exploreVars, Begun
<1> QED BY <1>1, <1>2

LEMMA EnterInside ==
  ASSUME LogLinked, moved = {}, Enter
  PROVE  Inside'
<1>1. /\ ilog \in Nat \ {0} /\ Insts' = Insts /\ ilog' = ilog /\ log' = log /\ moved' = {}
      /\ stage' = "table" /\ item' = 1 /\ size' = ilog /\ dep' = [i \in Index |-> 0]
      /\ entry' = [f \in DOMAIN entries |-> FirstInst(f)]
  BY SizesAssumption DEF LogLinked, Insts, Enter
<1>2. PICK chosen : inst' = [i \in Index |-> IF i \in Insts THEN chosen[i] ELSE Blank]
  BY Zenon DEF Enter
<1>3. TablesOK'
  BY <1>1, <1>2 DEF TablesOK
<1>4. GraphOK'
  BY <1>1 DEF GraphOK, Linked, Bound, LogLinked, Paired, Insts
<1>5. MovedOK' /\ PlaceOK'
  BY <1>1 DEF MovedOK, PlaceOK
<1>6. BeginsOK'
  <2>1. before'.log = log /\ before'.entry = entry'
    BY DEF Enter
  <2> QED BY <1>1, <2>1 DEF BeginsOK, Begins, LogLinked
<1> QED BY <1>3, <1>4, <1>5, <1>6 DEF Inside

LEMMA FlagsStart == FlagsInit => FlagsInv
BY DEF FlagsInit, CfgInit, FlagsInv, Begun

LEMMA FlagsStep ==
  ASSUME FlagsInv, At("mark") => LogLinked, [FlagsNext]_everything
  PROVE  FlagsInv'
<1>1. CASE UNCHANGED everything
  <2>1. UNCHANGED <<stage, pc, ilog, log, moved, inst, dep, entry, before, item, size, scanAt>>
    BY <1>1 DEF everything, allvars, vars, cfgvars, flagVars, tables, scan
  <2> QED BY <2>1 DEF FlagsInv, Begun, Inside, TablesOK, GraphOK, Linked, Bound, MovedOK, BeginsOK, PlaceOK, Insts
<1>2. CASE Step /\ UNCHANGED <<cfgvars, flagVars>>
  <2>1. pc # "done" /\ stage' = stage /\ moved' = moved
    BY <1>2, StepBusy DEF cfgvars, flagVars
  <2> QED BY <2>1 DEF FlagsInv, Begun
<1>3. CASE TidyLog /\ UNCHANGED flagVars
  <2>1. stage = "tidy" /\ stage' = "mark" /\ moved' = moved
    BY <1>3 DEF TidyLog, At, flagVars
  <2> QED BY <2>1 DEF FlagsInv, Begun
<1>4. CASE Enter
  <2>1. At("mark") /\ stage' = "table" /\ pc' = pc /\ ilog' = ilog
    BY <1>4 DEF Enter, exploreVars
  <2>2. LogLinked /\ moved = {}
    BY <2>1 DEF FlagsInv, Begun, At
  <2>3. Inside'
    BY <1>4, <2>2, EnterInside
  <2>4. ilog \in Nat \ {0} /\ pc = "done"
    BY <2>1, <2>2, SizesAssumption DEF LogLinked, At
  <2> QED BY <2>1, <2>3, <2>4 DEF FlagsInv, Begun
<1>5. ASSUME Build \/ Fix PROVE FlagsInv'
  <2>1. Begun
    BY <1>5, PassFrame
  <2>2. pc = "done" /\ ilog \in Nat \ {0} /\ (ilog <= LogSize => Inside)
    BY <2>1 DEF FlagsInv
  <2>3. Begun' /\ pc' = pc /\ ilog' \in {ilog, ilog + 1}
    BY <1>5, <2>2, PassFrame
  <2>4. ilog' <= LogSize => ilog <= LogSize
    BY <2>2, <2>3, SizesAssumption
  <2>5. ilog' <= LogSize => Inside'
    BY <1>5, <2>2, <2>4, BuildStep, FixStep
  <2> QED BY <2>2, <2>3, <2>5 DEF FlagsInv
<1> QED BY <1>1, <1>2, <1>3, <1>4, <1>5 DEF FlagsNext, FlagsWork, FlagsStopped

\* As long as the log has room, whatever the instructions in it are, the two lists of
\* every link agree behind all that insert_nop_before, insert_nop_after and
\* substitute_inst put in, and every function that began where control comes from nowhere
\* still does.  Taken for granted is that the log main hands over is linked, the first
\* part of LinksPaired: what the recursive pass of tidy_inst_log computes is beyond the
\* prover.
THEOREM LinksKept ==
  FlagsSpec /\ [](At("mark") => LogLinked) => [](ilog <= LogSize => LinksPaired)
<1>1. FlagsInv /\ (At("mark") => LogLinked) => (ilog <= LogSize => LinksPaired)
  <2> SUFFICES ASSUME FlagsInv, At("mark") => LogLinked, ilog <= LogSize PROVE LinksPaired
    OBVIOUS
  <2>1. ASSUME Fixed PROVE Paired(moved) /\ BeginningsKept
    <3>1. Inside
      BY <2>1 DEF Fixed, FlagsInv, Begun
    <3>2. Paired(moved)
      BY <3>1 DEF Inside, GraphOK, Linked, Paired, Insts
    <3>3. BeginningsKept
      BY <3>1 DEF Inside, BeginsOK, BeginningsKept, Begins
    <3> QED BY <3>2, <3>3
  <2> QED BY <2>1 DEF LinksPaired
<1>2. FlagsInv /\ (At("mark") => LogLinked) /\ [FlagsNext]_everything => FlagsInv'
  BY FlagsStep
<1> HIDE DEF FlagsInv, LinksPaired, LogLinked, At, everything, FlagsNext, FlagsInit
<1> QED BY <1>1, <1>2, FlagsStart, PTL DEF FlagsSpec
=============================================================================
