----------------------------- MODULE PathsProofs -----------------------------
(***************************************************************************)
(* The path table of build_control_flow_paths: whatever the graph of the   *)
(* function, and however small the tables are, a path that is listed is a  *)
(* way through the function, and main gives up only for the reasons it     *)
(* names.  As long as node_mid_start has room the table has all ways, the  *)
(* links marked as loop edges are the ones by which walks come back, and   *)
(* the loops built from the table are the natural loops of the graph.  The *)
(* tables hold what their types say in all that.                           *)
(***************************************************************************)
EXTENDS PathsProps, FiniteSetTheorems, SequenceTheorems, WellFoundedInduction, TLAPS

-----------------------------------------------------------------------------
(* Numbers *)

\* The order of the numbers, as a relation.
Below == {x \in Nat \X Nat : x[1] < x[2]}

\* A set of natural numbers has a least one.
LEMMA Least ==
  ASSUME NEW T \in SUBSET Nat, T # {} PROVE \E m \in T : \A k \in T : m <= k
<1>1. IsWellFoundedOn(Below, Nat)
  BY NatLessThanWellFounded DEF OpToRel, Below
<1>2. \E m \in T : \A k \in T : ~(<<k, m>> \in Below)
  BY <1>1, WFMin
<1>3. PICK m \in T : \A k \in T : ~(<<k, m>> \in Below)
  BY <1>2
<1>4. \A k \in Nat : k < m => <<k, m>> \in Below
  BY DEF Below
<1>5. m \in Nat /\ \A k \in T : k \in Nat
  OBVIOUS
<1>6. \A k \in T : ~(k < m)
  BY <1>3, <1>4, <1>5, Zenon
<1>7. \A k \in T : m <= k
  BY <1>5, <1>6
<1> QED
  BY <1>7

\* A set of steps that contains the first one and every next one has them all.
LEMMA Climbing ==
  ASSUME NEW n \in Nat, NEW Good, 0 \in Good,
         \A m \in 0 .. n : m \in Good /\ m + 1 <= n => m + 1 \in Good
  PROVE  \A m \in 0 .. n : m \in Good
<1> DEFINE Bad == {m \in 0 .. n : m \notin Good}
<1> SUFFICES ASSUME Bad # {} PROVE FALSE
  OBVIOUS
<1>1. Bad \in SUBSET Nat
  OBVIOUS
<1>2. PICK m \in Bad : \A k \in Bad : m <= k
  BY <1>1, Least
<1>3. m \in 0 .. n /\ m \notin Good /\ m # 0
  OBVIOUS
<1>4. m - 1 \in 0 .. n
  BY <1>3
<1>5. m - 1 \notin Bad
  <2> HIDE DEF Bad
  <2> QED
    BY <1>2, <1>3
<1>6. m - 1 \in Good
  BY <1>4, <1>5
<1> QED
  BY <1>3, <1>4, <1>6

\* No set of numbers up to n holds more than n different ones.
LEMMA Pigeons ==
  ASSUME NEW n \in Nat, NEW d \in Nat, NEW f \in [1 .. d -> 1 .. n],
         \A i, j \in 1 .. d : f[i] = f[j] => i = j
  PROVE  d <= n
<1>1. IsFiniteSet(1 .. d) /\ Cardinality(1 .. d) = d /\ IsFiniteSet(1 .. n) /\ Cardinality(1 .. n) = n
  BY FS_Interval
<1> SUFFICES ASSUME n < d PROVE FALSE
  OBVIOUS
<1>2. \E x, y \in 1 .. d : x # y /\ f[x] = f[y]
  BY <1>1, FS_PigeonHole
<1> QED
  BY <1>2

-----------------------------------------------------------------------------
(* Ways through a graph *)

\* The links of a graph by the numbers of its nodes.
IsNext(next) == next \in Seq(Seq(1 .. Len(next))) /\ next # <<>>

\* A walk from node 1 along the links; it meets no node twice in its first d steps.
Walks(next, t) ==
  /\ t \in Seq(1 .. Len(next)) /\ t # <<>> /\ t[1] = 1
  /\ \A i \in 1 .. Len(t) - 1 : \E l \in 1 .. Len(next[t[i]]) : t[i + 1] = next[t[i]][l]
OnceTo(t, d) == \A i, j \in 1 .. d : t[i] = t[j] => i = j

\* The walks of i steps, which meet no node twice.
WalksOf(next, i) == {t \in Seq(1 .. Len(next)) : Walks(next, t) /\ OnceTo(t, i) /\ Len(t) = i}

LEMMA NextIs ==
  ASSUME NEW next, IsNext(next)
  PROVE  /\ Len(next) \in Nat \ {0} /\ DOMAIN next = 1 .. Len(next)
         /\ IsFiniteSet(DOMAIN next) /\ Cardinality(DOMAIN next) = Len(next)
         /\ \A k \in 1 .. Len(next) : /\ next[k] \in Seq(1 .. Len(next)) /\ Len(next[k]) \in Nat
                                      /\ DOMAIN next[k] = 1 .. Len(next[k])
                                      /\ \A l \in 1 .. Len(next[k]) : next[k][l] \in 1 .. Len(next)
<1>1. Len(next) \in Nat \ {0} /\ DOMAIN next = 1 .. Len(next)
  BY LenProperties, EmptySeq DEF IsNext
<1>2. IsFiniteSet(1 .. Len(next)) /\ Cardinality(1 .. Len(next)) = Len(next)
  BY <1>1, FS_Interval
<1>3. ASSUME NEW k \in 1 .. Len(next)
      PROVE  /\ next[k] \in Seq(1 .. Len(next)) /\ Len(next[k]) \in Nat
             /\ DOMAIN next[k] = 1 .. Len(next[k])
             /\ \A l \in 1 .. Len(next[k]) : next[k][l] \in 1 .. Len(next)
  <2>1. next[k] \in Seq(1 .. Len(next))
    BY ElementOfSeq DEF IsNext
  <2> QED
    BY <2>1, LenProperties, ElementOfSeq
<1> QED
  BY <1>1, <1>2, <1>3

LEMMA WalkIs ==
  ASSUME NEW next, IsNext(next), NEW t, Walks(next, t)
  PROVE  /\ Len(t) \in Nat \ {0} /\ DOMAIN t = 1 .. Len(t)
         /\ \A i \in 1 .. Len(t) : t[i] \in 1 .. Len(next)
BY LenProperties, EmptySeq, ElementOfSeq DEF Walks

\* A walk that meets no node twice is no longer than there are nodes.
LEMMA WalksShort ==
  ASSUME NEW next, IsNext(next), NEW t, Walks(next, t), NEW d \in 0 .. Len(t), OnceTo(t, d)
  PROVE  d <= Len(next)
<1>1. Len(t) \in Nat /\ Len(next) \in Nat /\ \A i \in 1 .. Len(t) : t[i] \in 1 .. Len(next)
  BY WalkIs, NextIs
<1> DEFINE f == [i \in 1 .. d |-> t[i]]
<1>2. f \in [1 .. d -> 1 .. Len(next)]
  BY <1>1
<1>3. \A i, j \in 1 .. d : f[i] = f[j] => i = j
  BY DEF OnceTo
<1>4. d \in Nat /\ Len(next) \in Nat
  BY <1>1
<1> HIDE DEF f
<1> QED
  BY <1>2, <1>3, <1>4, Pigeons, Zenon

LEMMA AppendWalk ==
  ASSUME NEW next, IsNext(next), NEW t, Walks(next, t), NEW l \in 1 .. Len(next[t[Len(t)]])
  PROVE  LET u == Append(t, next[t[Len(t)]][l])
         IN  /\ Walks(next, u) /\ Len(u) = Len(t) + 1 /\ u[Len(u)] = next[t[Len(t)]][l]
             /\ \A i \in 1 .. Len(t) : u[i] = t[i]
<1> DEFINE k == next[t[Len(t)]][l]  u == Append(t, k)
<1>1. Len(t) \in Nat \ {0} /\ t[Len(t)] \in 1 .. Len(next)
  BY WalkIs
<1>2. k \in 1 .. Len(next)
  BY <1>1, NextIs
<1>3. t \in Seq(1 .. Len(next))
  BY DEF Walks
<1>k. PICK kk : kk = k
  OBVIOUS
<1> HIDE DEF k
<1>4. /\ u \in Seq(1 .. Len(next)) /\ u # <<>> /\ Len(u) = Len(t) + 1
      /\ \A i \in 1 .. Len(t) : u[i] = t[i]
      /\ u[Len(t) + 1] = k
  BY <1>2, <1>3, AppendProperties
<1> HIDE DEF u
<1>5. ASSUME NEW i \in 1 .. Len(u) - 1
      PROVE  \E m \in 1 .. Len(next[u[i]]) : u[i + 1] = next[u[i]][m]
  <2>1. i \in 1 .. Len(t) /\ u[i] = t[i]
    BY <1>1, <1>4
  <2>2. CASE i = Len(t)
    BY <1>4, <2>1, <2>2 DEF k
  <2>3. CASE i # Len(t)
    <3>1. i \in 1 .. Len(t) - 1 /\ i + 1 \in 1 .. Len(t)
      BY <1>1, <2>1, <2>3
    <3>2. u[i + 1] = t[i + 1]
      BY <1>4, <3>1
    <3> QED
      BY <2>1, <3>1, <3>2 DEF Walks
  <2> QED
    BY <2>2, <2>3
<1>6. u[1] = 1
  BY <1>1, <1>4, SMTT(20) DEF Walks
<1>7. Walks(next, u)
  BY <1>4, <1>5, <1>6 DEF Walks
<1> QED
  BY <1>4, <1>7 DEF u, k

LEMMA WalkOn ==
  ASSUME NEW next, IsNext(next), NEW t, Walks(next, t), NEW k, k = t[Len(t)], NEW l \in 1 .. Len(next[k])
  PROVE  /\ Walks(next, Append(t, next[k][l])) /\ Len(Append(t, next[k][l])) = Len(t) + 1
         /\ \A i \in 1 .. Len(t) : Append(t, next[k][l])[i] = t[i]
BY AppendWalk

LEMMA FirstWalks == ASSUME NEW next, IsNext(next) PROVE WalksOf(next, 1) = {<< 1 >>}
<1>1. Len(next) \in Nat \ {0}
  BY NextIs
<1>2. ASSUME NEW t \in WalksOf(next, 1) PROVE t = <<1>>
  <2>1. t \in Seq(1 .. Len(next)) /\ Len(t) = 1 /\ t[1] = 1
    BY DEF WalksOf, Walks
  <2>2. <<1>> \in Seq(1 .. Len(next)) /\ Len(<<1>>) = 1 /\ <<1>>[1] = 1
    BY <1>1
  <2> QED
    BY <2>1, <2>2, SeqEqual
<1>3. <<1>> \in WalksOf(next, 1)
  <2>1. <<1>> \in Seq(1 .. Len(next)) /\ Len(<<1>>) = 1 /\ <<1>>[1] = 1 /\ <<1>> # <<>>
    BY <1>1
  <2> QED
    BY <2>1 DEF WalksOf, Walks, OnceTo
<1> QED
  BY <1>2, <1>3

\* The walks W of the step before, with one more step.
OneStep(next, w, i) == {Append(w, k) : k \in Range(next[w[i - 1]]) \ Range(w)}
Longer(next, W, i) == UNION {OneStep(next, w, i) : w \in W}

LEMMA LongerWalks ==
  ASSUME NEW next, IsNext(next), NEW i \in 2 .. Len(next)
  PROVE  WalksOf(next, i) = Longer(next, WalksOf(next, i - 1), i)
<1>1. ASSUME NEW t \in WalksOf(next, i) PROVE t \in Longer(next, WalksOf(next, i - 1), i)
  <2>1. t \in Seq(1 .. Len(next)) /\ Walks(next, t) /\ OnceTo(t, i) /\ Len(t) = i /\ t # <<>>
    BY DEF WalksOf, Walks
  <2>2. PICK s \in Seq(1 .. Len(next)), e \in 1 .. Len(next) : t = Append(s, e)
    BY <2>1, SequenceEmptyOrAppend
  <2>3. Len(s) = i - 1 /\ t[i] = e /\ \A j \in 1 .. i - 1 : s[j] = t[j]
    BY <2>1, <2>2, AppendProperties, LenProperties
  <2>4. s \in WalksOf(next, i - 1)
    <3>1. s # <<>> /\ s[1] = 1
      BY <2>1, <2>3 DEF Walks
    <3>2. ASSUME NEW j \in 1 .. Len(s) - 1
          PROVE  \E l \in 1 .. Len(next[s[j]]) : s[j + 1] = next[s[j]][l]
      <4>1. j \in 1 .. Len(t) - 1 /\ s[j] = t[j] /\ s[j + 1] = t[j + 1]
        BY <2>1, <2>3
      <4> QED
        BY <2>1, <4>1 DEF Walks
    <3>3. OnceTo(s, i - 1)
      BY <2>1, <2>3 DEF OnceTo
    <3> QED
      BY <2>3, <3>1, <3>2, <3>3 DEF WalksOf, Walks
  <2>5. e \in Range(next[s[i - 1]])
    <3>1. i - 1 \in 1 .. Len(t) - 1 /\ s[i - 1] = t[i - 1] /\ i - 1 \in 1 .. Len(t)
      BY <2>1, <2>3
    <3>2. PICK l \in 1 .. Len(next[s[i - 1]]) : t[(i - 1) + 1] = next[s[i - 1]][l]
      BY <2>1, <3>1 DEF Walks
    <3>3. s[i - 1] \in 1 .. Len(next)
      BY <2>1, <3>1, WalkIs
    <3>4. DOMAIN next[s[i - 1]] = 1 .. Len(next[s[i - 1]])
      BY <3>3, NextIs
    <3>5. e = next[s[i - 1]][l]
      BY <2>3, <3>2
    <3> QED
      BY <3>4, <3>5 DEF Range
  <2>6. e \notin Range(s)
    <3>1. DOMAIN s = 1 .. i - 1
      BY <2>3, LenProperties
    <3>2. \A j \in 1 .. i - 1 : s[j] # e
      BY <2>1, <2>3 DEF OnceTo
    <3> QED
      BY <3>1, <3>2 DEF Range
  <2>7. t \in OneStep(next, s, i)
    BY <2>2, <2>5, <2>6 DEF OneStep
  <2> QED
    BY <2>4, <2>7 DEF Longer
<1>2. ASSUME NEW w \in WalksOf(next, i - 1), NEW k \in Range(next[w[i - 1]]) \ Range(w)
      PROVE  Append(w, k) \in WalksOf(next, i)
  <2>1. w \in Seq(1 .. Len(next)) /\ Walks(next, w) /\ OnceTo(w, i - 1) /\ Len(w) = i - 1
    BY DEF WalksOf
  <2>2. w[i - 1] \in 1 .. Len(next) /\ DOMAIN w = 1 .. i - 1
    BY <2>1, WalkIs
  <2>3. DOMAIN next[w[i - 1]] = 1 .. Len(next[w[i - 1]])
    BY <2>2, NextIs
  <2>4. PICK l \in 1 .. Len(next[w[i - 1]]) : k = next[w[i - 1]][l]
    BY <2>3 DEF Range
  <2>5. PICK u : u = Append(w, k)
    OBVIOUS
  <2>6. Walks(next, u) /\ Len(u) = i /\ u[i] = k /\ \A j \in 1 .. i - 1 : u[j] = w[j]
    BY <2>1, <2>4, <2>5, AppendWalk
  <2>7. \A j \in 1 .. i - 1 : w[j] # k
    BY <2>2 DEF Range
  <2>8. OnceTo(u, i)
    <3>1. \A j \in 1 .. i : j = i \/ j \in 1 .. i - 1
      OBVIOUS
    <3>2. \A j \in 1 .. i - 1 : u[j] # u[i]
      BY <2>6, <2>7
    <3>3. \A j, m \in 1 .. i - 1 : u[j] = u[m] => j = m
      BY <2>1, <2>6 DEF OnceTo
    <3> QED
      BY <3>1, <3>2, <3>3 DEF OnceTo
  <2>9. u \in Seq(1 .. Len(next))
    BY <2>6 DEF Walks
  <2> QED
    BY <2>5, <2>6, <2>8, <2>9 DEF WalksOf
<1>3. ASSUME NEW t \in Longer(next, WalksOf(next, i - 1), i) PROVE t \in WalksOf(next, i)
  <2>1. PICK w \in WalksOf(next, i - 1) : t \in OneStep(next, w, i)
    BY DEF Longer
  <2>2. PICK k \in Range(next[w[i - 1]]) \ Range(w) : t = Append(w, k)
    BY <2>1 DEF OneStep
  <2> QED
    BY <1>2, <2>2
<1> QED
  BY <1>1, <1>3

\* The simple walks of the graph are these.
LEMMA SimpleAre ==
  ASSUME NEW next, IsNext(next)
  PROVE  Simple(next) = UNION {WalksOf(next, i) : i \in 1 .. Len(next)}
<1> DEFINE n == Len(next)
           P(c) == c = [i \in 1 .. n |-> IF i = 1 THEN {<<1>>} ELSE Longer(next, c[i - 1], i)]
           a == [i \in 1 .. n |-> WalksOf(next, i)]
           c == CHOOSE f : P(f)
<1>1. n \in Nat \ {0} /\ Cardinality(DOMAIN next) = n
  BY NextIs
<1>2. P(a)
  <2>1. ASSUME NEW i \in 1 .. n
        PROVE  a[i] = IF i = 1 THEN {<<1>>} ELSE Longer(next, a[i - 1], i)
    <3>1. CASE i = 1
      BY <3>1, FirstWalks
    <3>2. CASE i # 1
      <4>1. i \in 2 .. n /\ i - 1 \in 1 .. n
        BY <1>1, <3>2
      <4>2. a[i] = WalksOf(next, i) /\ a[i - 1] = WalksOf(next, i - 1)
        BY <4>1
      <4> QED
        BY <3>2, <4>1, <4>2, LongerWalks
    <3> QED
      BY <3>1, <3>2
  <2>2. a = [i \in 1 .. n |-> a[i]]
    OBVIOUS
  <2> HIDE DEF a
  <2> QED
    BY <2>1, <2>2
<1>3. P(c)
  <2> HIDE DEF P, a
  <2> QED
    BY <1>2
<1>4. \A i \in 1 .. n : c[i] = IF i = 1 THEN {<<1>>} ELSE Longer(next, c[i - 1], i)
  <2> HIDE DEF c
  <2> QED
    BY <1>3
<1>5. Simple(next) = UNION {c[i] : i \in 1 .. n}
  <2>1. \A f : P(f) <=> f = [i \in 1 .. Cardinality(DOMAIN next) |->
                      IF i = 1 THEN {<<1>>}
                      ELSE UNION {{Append(w, k) : k \in Range(next[w[i - 1]]) \ Range(w)} : w \in f[i - 1]}]
    BY <1>1 DEF Longer, OneStep
  <2> QED
    BY <1>1, Zenon DEF Simple, Longer, OneStep
<1> HIDE DEF c
<1>6. \A i \in 1 .. n : c[i] = WalksOf(next, i)
  <2> DEFINE Good == {m \in 0 .. n : m = 0 \/ c[m] = WalksOf(next, m)}
  <2>1. 0 \in Good
    BY <1>1
  <2>2. ASSUME NEW m \in 0 .. n, m \in Good, m + 1 <= n PROVE m + 1 \in Good
    <3>1. m + 1 \in 1 .. n /\ m + 1 \in 0 .. n
      BY <1>1, <2>2
    <3>2. CASE m = 0
      <4>1. 1 \in 1 .. n /\ WalksOf(next, 1) = {<< 1 >>}
        BY <1>1, FirstWalks
      <4>2. c[1] = WalksOf(next, 1)
        BY <1>4, <4>1
      <4> QED
        BY <3>1, <3>2, <4>2
    <3>3. CASE m # 0
      <4>1. m + 1 \in 2 .. n /\ (m + 1) - 1 = m /\ c[m] = WalksOf(next, m)
        BY <2>2, <3>1, <3>3
      <4>2. c[m + 1] = Longer(next, WalksOf(next, (m + 1) - 1), m + 1)
        BY <1>4, <3>1, <3>3, <4>1
      <4>3. c[m + 1] = WalksOf(next, m + 1)
        BY <4>1, <4>2, LongerWalks
      <4> QED
        BY <3>1, <4>3
    <3> QED
      BY <3>2, <3>3
  <2>3. \A m \in 0 .. n : m \in Good
    <3>1. n \in Nat
      BY <1>1
    <3> HIDE DEF Good
    <3> QED
      BY <2>1, <2>2, <3>1, Climbing
  <2> QED
    BY <1>1, <2>3
<1>7. \A i \in 1 .. n : c[i] = WalksOf(next, i)
  BY <1>6
<1> QED
  BY <1>5, <1>7

\* A walk that returns, and one that is back at a node of its own.
EndWalk(next, t) == Walks(next, t) /\ OnceTo(t, Len(t)) /\ next[t[Len(t)]] = <<>>
LoopWalk(next, t) ==
  Walks(next, t) /\ OnceTo(t, Len(t) - 1) /\ \E j \in 1 .. Len(t) - 1 : t[j] = t[Len(t)]

LEMMA InSimple ==
  ASSUME NEW next, IsNext(next), NEW t, Walks(next, t), OnceTo(t, Len(t))
  PROVE  t \in Simple(next)
<1>1. Len(t) \in Nat \ {0} /\ Len(next) \in Nat
  BY WalkIs, NextIs
<1>2. Len(t) \in 0 .. Len(t)
  BY <1>1
<1>3. Len(t) <= Len(next)
  BY <1>2, WalksShort
<1>4. Len(t) \in 1 .. Len(next) /\ t \in WalksOf(next, Len(t))
  BY <1>1, <1>3 DEF WalksOf, Walks
<1> QED
  BY <1>4, SimpleAre

LEMMA InReturning ==
  ASSUME NEW next, IsNext(next), NEW t, EndWalk(next, t) PROVE t \in Returning(next)
BY InSimple DEF EndWalk, Returning

LEMMA InLooping ==
  ASSUME NEW next, IsNext(next), NEW t, LoopWalk(next, t) PROVE t \in Looping(next)
<1>1. /\ Walks(next, t) /\ OnceTo(t, Len(t) - 1) /\ Len(t) \in Nat /\ t \in Seq(1 .. Len(next)) /\ t # <<>>
      /\ DOMAIN t = 1 .. Len(t)
  BY WalkIs DEF LoopWalk, Walks
<1>2. PICK j \in 1 .. Len(t) - 1 : t[j] = t[Len(t)]
  BY DEF LoopWalk
<1>3. PICK s \in Seq(1 .. Len(next)), e \in 1 .. Len(next) : t = Append(s, e)
  BY <1>1, SequenceEmptyOrAppend
<1>4. /\ Len(s) = Len(t) - 1 /\ t[Len(t)] = e /\ \A i \in 1 .. Len(t) - 1 : s[i] = t[i]
      /\ DOMAIN s = 1 .. Len(s) /\ Len(s) \in Nat
  BY <1>1, <1>3, AppendProperties, LenProperties
<1>5. Walks(next, s)
  <2>1. s # <<>> /\ s[1] = 1
    BY <1>1, <1>2, <1>4 DEF Walks
  <2>2. ASSUME NEW i \in 1 .. Len(s) - 1
        PROVE  \E l \in 1 .. Len(next[s[i]]) : s[i + 1] = next[s[i]][l]
    <3>1. i \in 1 .. Len(t) - 1 /\ s[i] = t[i] /\ s[i + 1] = t[i + 1]
      BY <1>1, <1>4, SMTT(20)
    <3> QED
      BY <1>1, <3>1 DEF Walks
  <2> QED
    BY <2>1, <2>2 DEF Walks
<1>6. OnceTo(s, Len(s))
  BY <1>1, <1>4 DEF OnceTo
<1>7. s \in Simple(next)
  BY <1>5, <1>6, InSimple
<1>8. e \in Range(s)
  BY <1>2, <1>4 DEF Range
<1>9. e \in Range(next[s[Len(s)]])
  <2>0. Len(s) \in 1 .. Len(t) - 1 /\ Len(s) + 1 = Len(t)
    <3>1. j \in Int /\ 1 <= j /\ j <= Len(t) - 1
      BY <1>1
    <3> QED
      BY <1>1, <1>4, <3>1
  <2>1. Len(s) \in 1 .. Len(t) - 1 /\ Len(s) + 1 = Len(t) /\ s[Len(s)] = t[Len(s)]
    BY <1>4, <2>0
  <2>2. PICK l \in 1 .. Len(next[t[Len(s)]]) : t[Len(s) + 1] = next[t[Len(s)]][l]
    BY <1>1, <2>1 DEF Walks
  <2>3. t[Len(s)] \in 1 .. Len(next)
    BY <1>1, <2>1, WalkIs
  <2>4. DOMAIN next[t[Len(s)]] = 1 .. Len(next[t[Len(s)]])
    BY <2>3, NextIs
  <2> QED
    BY <1>4, <2>1, <2>2, <2>4 DEF Range
<1>10. t \in {Append(s, k) : k \in Range(next[s[Len(s)]]) \cap Range(s)}
  BY <1>3, <1>8, <1>9
<1> QED
  BY <1>7, <1>10 DEF Looping

\* And those sets have no others.
LEMMA ReturningIs ==
  ASSUME NEW next, IsNext(next), NEW t \in Returning(next) PROVE EndWalk(next, t)
<1>1. t \in Simple(next) /\ next[t[Len(t)]] = <<>>
  BY DEF Returning
<1>2. PICK i \in 1 .. Len(next) : t \in WalksOf(next, i)
  BY <1>1, SimpleAre
<1>3. Walks(next, t) /\ OnceTo(t, Len(t))
  BY <1>2 DEF WalksOf
<1> QED
  BY <1>1, <1>3 DEF EndWalk

LEMMA LoopingIs ==
  ASSUME NEW next, IsNext(next), NEW t \in Looping(next) PROVE LoopWalk(next, t)
<1>1. PICK w \in Simple(next) : t \in {Append(w, k) : k \in Range(next[w[Len(w)]]) \cap Range(w)}
  BY DEF Looping
<1>2. PICK i \in 1 .. Len(next) : w \in WalksOf(next, i)
  BY <1>1, SimpleAre
<1>3. Walks(next, w) /\ OnceTo(w, Len(w))
  BY <1>2 DEF WalksOf
<1>4. /\ Len(w) \in Nat \ {0} /\ DOMAIN w = 1 .. Len(w)
      /\ \A j \in 1 .. Len(w) : w[j] \in 1 .. Len(next)
  BY <1>3, WalkIs
<1>5. PICK k \in Range(next[w[Len(w)]]) : t = Append(w, k) /\ k \in Range(w)
  BY <1>1
<1>6. PICK m : m = w[Len(w)]
  OBVIOUS
<1>7. DOMAIN next[m] = 1 .. Len(next[m])
  BY <1>4, <1>6, NextIs
<1>8. PICK l \in 1 .. Len(next[m]) : k = next[m][l]
  BY <1>5, <1>6, <1>7 DEF Range
<1>9. Walks(next, t) /\ Len(t) = Len(w) + 1 /\ \A j \in 1 .. Len(w) : t[j] = w[j]
  BY <1>3, <1>5, <1>6, <1>8, WalkOn
<1>10. t[Len(t)] = k
  <2>1. w \in Seq(1 .. Len(next)) /\ k \in 1 .. Len(next)
    BY SMTT(40), <1>3, <1>4, <1>6, <1>8, NextIs DEF Walks
  <2> QED
    BY <1>5, <2>1, AppendProperties
<1>11. PICK j \in 1 .. Len(w) : k = w[j]
  BY <1>4, <1>5 DEF Range
<1>12. Len(t) - 1 = Len(w) /\ t[j] = t[Len(t)]
  BY <1>4, <1>9, <1>10, <1>11
<1>13. OnceTo(t, Len(t) - 1)
  BY <1>3, <1>9, <1>12 DEF OnceTo
<1> QED
  BY <1>9, <1>12, <1>13 DEF LoopWalk

\* The last link of such a walk is a link back.
LEMMA LinkBack ==
  ASSUME NEW next, IsNext(next), NEW t, LoopWalk(next, t)
  PROVE  \E lk \in BackLinks(next) : Target(next, lk) = t[Len(t)]
<1>1. t \in Looping(next) /\ Walks(next, t) /\ Len(t) \in Nat /\ Len(t) - 1 \in 1 .. Len(t) - 1
  BY InLooping, WalkIs DEF LoopWalk
<1>2. PICK l \in 1 .. Len(next[t[Len(t) - 1]]) : t[(Len(t) - 1) + 1] = next[t[Len(t) - 1]][l]
  BY <1>1 DEF Walks
<1>3. t[Len(t) - 1] \in 1 .. Len(next)
  BY <1>1, WalkIs
<1>4. DOMAIN next = 1 .. Len(next) /\ DOMAIN next[t[Len(t) - 1]] = 1 .. Len(next[t[Len(t) - 1]])
  BY <1>3, NextIs
<1> DEFINE lk == <<t[Len(t) - 1], l>>
<1>5. lk \in Links(next)
  BY <1>3, <1>4 DEF Links
<1>6. Target(next, lk) = t[Len(t)] /\ lk[1] = t[Len(t) - 1]
  BY <1>1, <1>2 DEF Target
<1> HIDE DEF lk
<1>7. lk \in BackLinks(next)
  BY <1>1, <1>5, <1>6 DEF BackLinks
<1> QED
  BY <1>6, <1>7

-----------------------------------------------------------------------------
(* There are finitely many *)

LEMMA ImageFinite ==
  ASSUME NEW S, IsFiniteSet(S), NEW f, DOMAIN f = S PROVE IsFiniteSet({f[x] : x \in S})
<1> DEFINE T == {f[x] : x \in S}  h == [x \in S |-> f[x]]
<1>1. h \in Surjection(S, T)
  BY DEF Surjection
<1> HIDE DEF T, h
<1>2. IsFiniteSet(T)
  BY <1>1, FS_Surjection
<1> QED
  BY <1>2 DEF T

LEMMA WalksFinite ==
  ASSUME NEW next, IsNext(next) PROVE \A i \in 1 .. Len(next) : IsFiniteSet(WalksOf(next, i))
<1> DEFINE n == Len(next)  Good == {m \in 0 .. n : m = 0 \/ IsFiniteSet(WalksOf(next, m))}
<1>1. n \in Nat \ {0} /\ IsFiniteSet(1 .. n)
  BY NextIs
<1>2. 0 \in Good
  BY <1>1
<1>3. ASSUME NEW m \in 0 .. n, m \in Good, m + 1 <= n PROVE m + 1 \in Good
  <2>1. m + 1 \in 1 .. n /\ m + 1 \in 0 .. n
    BY <1>1, <1>3
  <2>2. CASE m = 0
    <3>1. WalksOf(next, 1) = {<< 1 >>} /\ IsFiniteSet({<<1>>})
      BY FirstWalks, FS_Singleton
    <3>2. m + 1 = 1
      BY <2>2
    <3>3. IsFiniteSet(WalksOf(next, m + 1))
      BY <3>1, <3>2
    <3> QED
      BY <2>1, <3>3
  <2>3. CASE m # 0
    <3>1. m + 1 \in 2 .. n /\ (m + 1) - 1 = m /\ IsFiniteSet(WalksOf(next, m))
      BY <1>3, <2>1, <2>3
    <3> DEFINE W == WalksOf(next, m)  f == [w \in W |-> OneStep(next, w, m + 1)]
    <3>2. WalksOf(next, m + 1) = UNION {f[w] : w \in W}
      <4>1. WalksOf(next, m + 1) = Longer(next, W, m + 1)
        BY <3>1, LongerWalks
      <4> QED
        BY <4>1 DEF Longer
    <3>3. ASSUME NEW w \in W PROVE IsFiniteSet(f[w])
      <4>1. Walks(next, w) /\ Len(w) = m /\ m \in 1 .. Len(w)
        BY <3>1, <2>3 DEF WalksOf
      <4>2. w[m] \in 1 .. n
        BY <4>1, WalkIs
      <4>3. DOMAIN next[w[m]] = 1 .. Len(next[w[m]]) /\ \A l \in 1 .. Len(next[w[m]]) : next[w[m]][l] \in 1 .. n
        BY <4>2, NextIs
      <4> DEFINE R == Range(next[w[m]]) \ Range(w)  a == [k \in R |-> Append(w, k)]
      <4>4. R \in SUBSET (1 .. n)
        BY <4>3 DEF Range
      <4>5. IsFiniteSet(R)
        BY <1>1, <4>4, FS_Subset
      <4>6. f[w] = {a[k] : k \in R}
        BY <3>1 DEF OneStep
      <4>7. DOMAIN a = R
        OBVIOUS
      <4> HIDE DEF R, a, f
      <4> QED
        BY <4>5, <4>6, <4>7, ImageFinite
    <3>4. DOMAIN f = W
      OBVIOUS
    <3> HIDE DEF f, W
    <3>5. IsFiniteSet({f[w] : w \in W})
      BY <3>1, <3>4, ImageFinite DEF W
    <3>6. \A T \in {f[w] : w \in W} : IsFiniteSet(T)
      BY <3>3
    <3>7. IsFiniteSet(WalksOf(next, m + 1))
      BY <3>2, <3>5, <3>6, FS_UNION
    <3> QED
      BY <2>1, <3>7
  <2> QED
    BY <2>2, <2>3
<1> HIDE DEF Good
<1>4. \A m \in 0 .. n : m \in Good
  BY <1>1, <1>2, <1>3, Climbing
<1> QED
  BY <1>1, <1>4 DEF Good

LEMMA WaysFinite ==
  ASSUME NEW next, IsNext(next)
  PROVE  /\ IsFiniteSet(Simple(next)) /\ IsFiniteSet(Returning(next)) /\ IsFiniteSet(Looping(next))
         /\ IsFiniteSet(BackLinks(next))
<1> DEFINE n == Len(next)
<1>1. n \in Nat \ {0} /\ IsFiniteSet(1 .. n) /\ DOMAIN next = 1 .. n
  BY NextIs
<1>2. IsFiniteSet(Simple(next))
  <2> DEFINE f == [i \in 1 .. n |-> WalksOf(next, i)]
  <2>1. Simple(next) = UNION {f[i] : i \in 1 .. n} /\ DOMAIN f = 1 .. n
    BY SimpleAre
  <2>2. \A i \in 1 .. n : IsFiniteSet(f[i])
    BY WalksFinite
  <2> HIDE DEF f
  <2>3. IsFiniteSet({f[i] : i \in 1 .. n})
    BY <1>1, <2>1, ImageFinite
  <2> QED
    BY <2>1, <2>2, <2>3, FS_UNION
<1>3. IsFiniteSet(Returning(next))
  BY <1>2, FS_Subset DEF Returning
<1>4. IsFiniteSet(Looping(next))
  <2> DEFINE S == Simple(next)
             R(w) == Range(next[w[Len(w)]]) \cap Range(w)
             f == [w \in S |-> {Append(w, k) : k \in R(w)}]
  <2>1. Looping(next) = UNION {f[w] : w \in S} /\ DOMAIN f = S
    BY DEF Looping
  <2>2. ASSUME NEW w \in S PROVE IsFiniteSet(f[w])
    <3>1. PICK i \in 1 .. n : w \in WalksOf(next, i)
      BY SimpleAre
    <3>2. DOMAIN w = 1 .. Len(w) /\ \A j \in 1 .. Len(w) : w[j] \in 1 .. n
      BY <3>1, WalkIs DEF WalksOf
    <3> DEFINE a == [k \in R(w) |-> Append(w, k)]
    <3>3. R(w) \in SUBSET (1 .. n)
      BY <3>2 DEF Range
    <3>4. IsFiniteSet(R(w))
      BY <1>1, <3>3, FS_Subset
    <3>5. f[w] = {a[k] : k \in R(w)} /\ DOMAIN a = R(w)
      OBVIOUS
    <3> HIDE DEF a, f, R
    <3> QED
      BY <3>4, <3>5, ImageFinite
  <2> HIDE DEF f
  <2>3. IsFiniteSet({f[w] : w \in S})
    BY <1>2, <2>1, ImageFinite
  <2> HIDE DEF S
  <2> QED
    BY <2>1, <2>2, <2>3, FS_UNION, SMTT(20)
<1>5. IsFiniteSet(BackLinks(next))
  <2> DEFINE f == [k \in 1 .. n |-> {k} \X DOMAIN next[k]]
  <2>1. Links(next) = UNION {f[k] : k \in 1 .. n} /\ DOMAIN f = 1 .. n
    BY <1>1 DEF Links
  <2>2. ASSUME NEW k \in 1 .. n PROVE IsFiniteSet(f[k])
    <3>1. Len(next[k]) \in Nat /\ DOMAIN next[k] = 1 .. Len(next[k])
      BY NextIs
    <3>2. IsFiniteSet(1 .. Len(next[k]))
      BY <3>1, FS_Interval
    <3>3. IsFiniteSet({k} \X (1 .. Len(next[k])))
      <4>1. IsFiniteSet({k})
        BY FS_Singleton
      <4> QED
        BY <3>2, <4>1, FS_Product
    <3> QED
      BY <3>1, <3>3
  <2> HIDE DEF f
  <2>3. IsFiniteSet({f[k] : k \in 1 .. n})
    BY <1>1, <2>1, ImageFinite
  <2>4. IsFiniteSet(Links(next))
    BY <2>1, <2>2, <2>3, FS_UNION
  <2>5. BackLinks(next) \in SUBSET Links(next)
    BY DEF BackLinks
  <2> QED
    BY <2>4, <2>5, FS_Subset
<1> QED
  BY <1>2, <1>3, <1>4, <1>5

-----------------------------------------------------------------------------
(* The nodes of a path, back to the beginning of the function *)

\* A table of paths over n nodes; its first k rows were filled in order.
Table(T, n) ==
  /\ Len(T) \in Nat /\ DOMAIN T = 1 .. Len(T)
  /\ \A p \in 1 .. Len(T) : /\ T[p].nodes \in Seq(1 .. n) /\ T[p].nodes # <<>>
                            /\ T[p].prev \in 1 .. p /\ T[p].step \in Nat
Fresh(T, k) ==
  \A p \in 1 .. k : /\ T[p].prev = p <=> p = 1
                    /\ p # 1 => T[p].step \in 1 .. Len(T[T[p].prev].nodes)

\* What Trace is made of: the way to row p, from the ways f to the rows before it.
Cut(T, f, q, s) == SubSeq(f[q], 1, Len(f[q]) - (Len(T[q].nodes) - s))
Joined(T, f, p) ==
  IF T[p].prev = p THEN T[p].nodes ELSE Cut(T, f, T[p].prev, T[p].step) \o T[p].nodes
Traces(T) == CHOOSE f : f = [p \in DOMAIN T |-> Joined(T, f, p)]

LEMMA TraceIs == Trace = Traces(paths)
BY Zenon DEF Trace, Traces, Joined, Cut

LEMMA TraceIsNext == Trace' = Traces(paths')
BY Zenon DEF Trace, Traces, Joined, Cut

LEMMA JoinedSame ==
  ASSUME NEW T, NEW n, Table(T, n), NEW m \in 1 .. Len(T), NEW p \in 1 .. m,
         NEW f, NEW h, \A q \in 1 .. m : q < p => h[q] = f[q]
  PROVE  Joined(T, h, p) = Joined(T, f, p)
<1>1. CASE T[p].prev = p
  BY <1>1 DEF Joined
<1>2. CASE T[p].prev # p
  <2>1. T[p].prev \in 1 .. p /\ p \in Nat /\ m \in Nat
    BY DEF Table
  <2>2. T[p].prev \in 1 .. m /\ T[p].prev < p
    BY <1>2, <2>1
  <2>3. h[T[p].prev] = f[T[p].prev]
    BY <2>2
  <2> QED
    BY <2>3 DEF Joined, Cut
<1> QED
  BY <1>1, <1>2

LEMMA TracesAre ==
  ASSUME NEW T, NEW n, Table(T, n)
  PROVE  \A p \in 1 .. Len(T) : Traces(T)[p] = Joined(T, Traces(T), p)
<1> DEFINE P(f, m) == f = [p \in 1 .. m |-> Joined(T, f, p)]
           Good == {m \in 0 .. Len(T) : \E f : P(f, m)}
<1>1. Len(T) \in Nat
  BY DEF Table
<1>2. 0 \in Good
  <2> DEFINE f == [p \in 1 .. 0 |-> 0]
  <2>1. f = [p \in 1 .. 0 |-> Joined(T, f, p)]
    OBVIOUS
  <2> HIDE DEF f
  <2>2. \E h : P(h, 0)
    BY <2>1
  <2> HIDE DEF P
  <2> QED
    BY <1>1, <2>2
<1>3. ASSUME NEW m \in 0 .. Len(T), m \in Good, m + 1 <= Len(T) PROVE m + 1 \in Good
  <2>1. PICK f : P(f, m)
    BY <1>3
  <2>2. m \in Nat /\ m + 1 \in 1 .. Len(T) /\ m + 1 \in 0 .. Len(T)
    BY <1>1, <1>3
  <2>3. \A p \in 1 .. m : f[p] = Joined(T, f, p)
    BY <2>1
  <2> DEFINE h == [p \in 1 .. m + 1 |-> IF p \in 1 .. m THEN f[p] ELSE Joined(T, f, p)]
  <2>4. \A p \in 1 .. m : h[p] = f[p]
    BY <2>2
  <2>5. h[m + 1] = Joined(T, f, m + 1)
    BY <2>2
  <2>6. h = [p \in 1 .. m + 1 |-> h[p]]
    OBVIOUS
  <2> HIDE DEF h
  <2>7. ASSUME NEW p \in 1 .. m + 1 PROVE h[p] = Joined(T, h, p)
    <3>1. \A q \in 1 .. m + 1 : q < p => h[q] = f[q]
      BY <2>2, <2>4, <2>7
    <3>2. Joined(T, h, p) = Joined(T, f, p)
      BY <2>2, <3>1, JoinedSame
    <3>3. CASE p \in 1 .. m
      BY <2>3, <2>4, <3>2, <3>3
    <3>4. CASE p \notin 1 .. m
      <4>1. p = m + 1
        BY <2>2, <2>7, <3>4
      <4> QED
        BY <2>5, <3>2, <4>1
    <3> QED
      BY <3>3, <3>4
  <2>8. P(h, m + 1)
    BY <2>6, <2>7
  <2> HIDE DEF P
  <2> QED
    BY <2>2, <2>8
<1>4. \E f : P(f, Len(T))
  <2>1. \A m \in 0 .. Len(T) : m \in Good
    <3> HIDE DEF Good
    <3> QED
      BY <1>1, <1>2, <1>3, Climbing
  <2> QED
    BY <1>1, <2>1
<1>5. Traces(T) = [p \in DOMAIN T |-> Joined(T, Traces(T), p)]
  <2>1. \E f : f = [p \in DOMAIN T |-> Joined(T, f, p)]
    BY <1>4 DEF Table
  <2> QED
    BY <2>1, Zenon DEF Traces
<1>6. DOMAIN T = 1 .. Len(T)
  BY DEF Table
<1>7. PICK tr : tr = Traces(T)
  OBVIOUS
<1>8. tr = [p \in 1 .. Len(T) |-> Joined(T, tr, p)]
  BY <1>5, <1>6, <1>7
<1>9. \A p \in 1 .. Len(T) : tr[p] = Joined(T, tr, p)
  BY <1>8
<1> QED
  BY <1>7, <1>9

\* The ways to rows that two tables share are the same.
LEMMA TracesSame ==
  ASSUME NEW T, NEW U, NEW n, Table(T, n), Table(U, n), NEW k \in 0 .. Len(T), k <= Len(U),
         \A p \in 1 .. k : U[p].nodes = T[p].nodes /\ U[p].prev = T[p].prev /\ U[p].step = T[p].step
  PROVE  \A p \in 1 .. k : Traces(U)[p] = Traces(T)[p]
<1> DEFINE Good == {m \in 0 .. k : \A p \in 1 .. m : Traces(U)[p] = Traces(T)[p]}
<1>1. k \in Nat /\ Len(T) \in Nat /\ Len(U) \in Nat
  BY DEF Table
<1>2. 0 \in Good
  BY <1>1
<1>3. ASSUME NEW m \in 0 .. k, m \in Good, m + 1 <= k PROVE m + 1 \in Good
  <2>1. m \in Nat /\ m + 1 \in 1 .. k /\ m + 1 \in 1 .. Len(T) /\ m + 1 \in 1 .. Len(U) /\ m + 1 \in 0 .. k
    BY <1>1, <1>3
  <2>2. \A p \in 1 .. m : Traces(U)[p] = Traces(T)[p]
    BY <1>3
  <2>3. Traces(U)[m + 1] = Joined(U, Traces(U), m + 1) /\ Traces(T)[m + 1] = Joined(T, Traces(T), m + 1)
    BY <2>1, TracesAre
  <2>4. Joined(U, Traces(U), m + 1) = Joined(T, Traces(T), m + 1)
    <3> DEFINE q == T[m + 1].prev
    <3>1. q \in 1 .. m + 1
      BY <2>1 DEF Table
    <3>2. U[m + 1].nodes = T[m + 1].nodes /\ U[m + 1].prev = q /\ U[m + 1].step = T[m + 1].step
      BY <2>1
    <3>3. CASE q = m + 1
      BY <3>2, <3>3 DEF Joined
    <3>4. CASE q # m + 1
      <4>1. q \in 1 .. m /\ q \in 1 .. k
        BY <1>1, <2>1, <3>1, <3>4
      <4>2. Traces(U)[q] = Traces(T)[q] /\ U[q].nodes = T[q].nodes
        BY <2>2, <4>1
      <4> QED
        BY <3>2, <3>4, <4>2 DEF Joined, Cut
    <3> QED
      BY <3>3, <3>4
  <2>5. \A p \in 1 .. m + 1 : p \in 1 .. m \/ p = m + 1
    BY <2>1
  <2>6. \A p \in 1 .. m + 1 : Traces(U)[p] = Traces(T)[p]
    BY <2>2, <2>3, <2>4, <2>5
  <2> QED
    BY <2>1, <2>6
<1>4. \A m \in 0 .. k : m \in Good
  <2> HIDE DEF Good
  <2> QED
    BY <1>1, <1>2, <1>3, Climbing
<1>5. k \in Good
  BY <1>1, <1>4
<1> QED
  BY <1>5

\* The way to a row that was filled in order ends with the nodes of the row.
EndsWith(w, s) == /\ Len(s) <= Len(w)
                  /\ \A i \in 1 .. Len(s) : w[Len(w) - Len(s) + i] = s[i]

LEMMA RowIs ==
  ASSUME NEW T, NEW n, Table(T, n), NEW p \in 1 .. Len(T)
  PROVE  /\ T[p].nodes \in Seq(1 .. n) /\ Len(T[p].nodes) \in Nat \ {0}
         /\ DOMAIN T[p].nodes = 1 .. Len(T[p].nodes)
         /\ \A i \in 1 .. Len(T[p].nodes) : T[p].nodes[i] \in 1 .. n
         /\ T[p].prev \in 1 .. p /\ T[p].step \in Nat /\ p \in Nat /\ T[p].prev \in 1 .. Len(T)
<1>1. T[p].nodes \in Seq(1 .. n) /\ T[p].nodes # <<>> /\ T[p].prev \in 1 .. p /\ T[p].step \in Nat
      /\ Len(T) \in Nat
  BY DEF Table
<1>2. Len(T[p].nodes) \in Nat \ {0} /\ DOMAIN T[p].nodes = 1 .. Len(T[p].nodes)
      /\ \A i \in 1 .. Len(T[p].nodes) : T[p].nodes[i] \in 1 .. n
  BY <1>1, LenProperties, EmptySeq, ElementOfSeq
<1> QED
  BY <1>1, <1>2

\* A way cut behind step s of its last row.
LEMMA CutIs ==
  ASSUME NEW n \in Nat, NEW w \in Seq(1 .. n), NEW s \in Seq(1 .. n), EndsWith(w, s), NEW a \in 1 .. Len(s)
  PROVE  LET d == Len(w) - (Len(s) - a)  c == SubSeq(w, 1, d)
         IN  /\ d \in 1 .. Len(w) /\ c \in Seq(1 .. n) /\ Len(c) = d /\ c[d] = s[a]
             /\ \A i \in 1 .. d : c[i] = w[i]
<1> DEFINE d == Len(w) - (Len(s) - a)  c == SubSeq(w, 1, d)
<1>1. Len(w) \in Nat /\ Len(s) \in Nat /\ \A i \in 1 .. Len(w) : w[i] \in 1 .. n
  BY LenProperties, ElementOfSeq
<1>2. d \in 1 .. Len(w) /\ d \in Nat
  BY <1>1 DEF EndsWith
<1>3. w[d] = s[a]
  <2>1. d = Len(w) - Len(s) + a
    BY <1>1
  <2> QED
    BY <2>1 DEF EndsWith
<1> HIDE DEF d
<1>4. \A i \in 1 .. d : w[i] \in 1 .. n
  BY <1>1, <1>2
<1>5. /\ c \in Seq(1 .. n) /\ Len(c) = (IF 1 <= d THEN d - 1 + 1 ELSE 0)
      /\ \A i \in 1 .. d - 1 + 1 : c[i] = w[1 + i - 1]
  BY <1>2, <1>4, SubSeqProperties
<1> HIDE DEF c
<1>6. Len(c) = d /\ \A i \in 1 .. d : c[i] = w[i]
  <2>1. 1 <= d /\ d - 1 + 1 = d /\ \A i \in 1 .. d : 1 + i - 1 = i
    BY <1>2
  <2> QED
    BY <1>5, <2>1
<1> QED
  BY <1>2, <1>3, <1>5, <1>6, SMTT(20) DEF c, d

LEMMA Behind ==
  ASSUME NEW n \in Nat, NEW c \in Seq(1 .. n), NEW s \in Seq(1 .. n)
  PROVE  EndsWith(c \o s, s) /\ EndsWith(s, s)
<1>1. Len(c) \in Nat /\ Len(s) \in Nat
  BY LenProperties
<1>2. Len(c \o s) = Len(c) + Len(s)
      /\ \A i \in 1 .. Len(c) + Len(s) : (c \o s)[i] = IF i <= Len(c) THEN c[i] ELSE s[i - Len(c)]
  BY ConcatProperties
<1>3. ASSUME NEW i \in 1 .. Len(s) PROVE (c \o s)[Len(c \o s) - Len(s) + i] = s[i]
  <2>1. Len(c \o s) - Len(s) + i = Len(c) + i /\ Len(c) + i \in 1 .. Len(c) + Len(s)
        /\ ~(Len(c) + i <= Len(c)) /\ (Len(c) + i) - Len(c) = i
    BY <1>1, <1>2
  <2> QED
    BY <1>2, <2>1
<1>4. EndsWith(c \o s, s)
  BY <1>1, <1>2, <1>3 DEF EndsWith
<1>5. \A i \in 1 .. Len(s) : Len(s) - Len(s) + i = i
  BY <1>1
<1> QED
  BY <1>1, <1>4, <1>5 DEF EndsWith

LEMMA TracesTyped ==
  ASSUME NEW T, NEW n \in Nat, Table(T, n), NEW k \in 0 .. Len(T), Fresh(T, k)
  PROVE  \A p \in 1 .. k : Traces(T)[p] \in Seq(1 .. n) /\ EndsWith(Traces(T)[p], T[p].nodes)
<1> DEFINE F(p) == Traces(T)[p] \in Seq(1 .. n) /\ EndsWith(Traces(T)[p], T[p].nodes)
           Good == {m \in 0 .. k : \A p \in 1 .. m : F(p)}
<1>1. k \in Nat /\ Len(T) \in Nat
  BY DEF Table
<1>2. 0 \in Good
  BY <1>1
<1>3. ASSUME NEW m \in 0 .. k, m \in Good, m + 1 <= k PROVE m + 1 \in Good
  <2> DEFINE p == m + 1
  <2>1. m \in Nat /\ p \in 1 .. k /\ p \in 1 .. Len(T) /\ p \in 0 .. k
    BY <1>1, <1>3
  <2>2. \A q \in 1 .. m : F(q)
    BY <1>3
  <2>3. /\ T[p].nodes \in Seq(1 .. n) /\ Len(T[p].nodes) \in Nat \ {0} /\ T[p].prev \in 1 .. p
        /\ T[p].prev \in 1 .. Len(T)
    BY <2>1, RowIs
  <2>4. Traces(T)[p] = Joined(T, Traces(T), p)
    BY <2>1, TracesAre
  <2>5. F(p)
    <3>1. CASE T[p].prev = p
      BY <2>3, <2>4, <3>1, Behind DEF Joined
    <3>2. CASE T[p].prev # p
      <4>1. PICK q : q = T[p].prev
        OBVIOUS
      <4>2. q \in 1 .. m /\ q \in 1 .. Len(T)
        BY <2>1, <2>3, <3>2, <4>1
      <4>3. Traces(T)[q] \in Seq(1 .. n) /\ EndsWith(Traces(T)[q], T[q].nodes)
        BY <2>2, <4>2
      <4>4. p # 1
        BY <2>1, <4>2
      <4>5. T[p].step \in 1 .. Len(T[q].nodes)
        BY <2>1, <4>1, <4>4 DEF Fresh
      <4>6. T[q].nodes \in Seq(1 .. n)
        BY <4>2, RowIs
      <4>7. Cut(T, Traces(T), q, T[p].step) \in Seq(1 .. n)
        BY <4>3, <4>5, <4>6, CutIs DEF Cut
      <4>8. Traces(T)[p] = Cut(T, Traces(T), q, T[p].step) \o T[p].nodes
        BY <2>4, <3>2, <4>1 DEF Joined
      <4> QED
        BY <2>3, <4>7, <4>8, Behind, ConcatProperties
    <3> QED
      BY <3>1, <3>2
  <2> HIDE DEF F
  <2>6. \A q \in 1 .. p : q \in 1 .. m \/ q = p
    BY <2>1
  <2>7. \A q \in 1 .. p : F(q)
    BY <2>2, <2>5, <2>6
  <2> QED
    BY <2>1, <2>7
<1>4. \A m \in 0 .. k : m \in Good
  <2> HIDE DEF Good
  <2> QED
    BY <1>1, <1>2, <1>3, Climbing
<1>5. k \in Good
  BY <1>1, <1>4
<1> QED
  BY <1>5

\* Where a way goes on from behind step s of row q.
From(T, q, s) == Cut(T, Traces(T), q, s)

\* The way to the first row, and to a row that has just been begun.
LEMMA BegunRow ==
  ASSUME NEW T, NEW n \in Nat, Table(T, n), NEW k \in 1 .. Len(T), Fresh(T, k),
         NEW e \in 1 .. n, T[k].nodes = <<e>>
  PROVE  /\ k = 1 => Traces(T)[k] = <<e>>
         /\ k # 1 => Traces(T)[k] = Append(From(T, T[k].prev, T[k].step), e)
<1>0. Len(T) \in Nat /\ k \in 1 .. k
  BY DEF Table
<1>1. Traces(T)[k] = Joined(T, Traces(T), k) /\ Len(T) \in Nat /\ k \in 1 .. k
  BY <1>0, TracesAre
<1>2. CASE k = 1
  <2>1. T[k].prev = k
    BY <1>1, <1>2 DEF Fresh
  <2> QED
    BY <1>1, <1>2, <2>1 DEF Joined
<1>3. CASE k # 1
  <2>1. T[k].prev # k /\ T[k].step \in 1 .. Len(T[T[k].prev].nodes) /\ T[k].prev \in 1 .. k
    BY <1>1, <1>3, RowIs DEF Fresh
  <2>2. PICK q : q = T[k].prev
    OBVIOUS
  <2>3. q \in 1 .. Len(T) /\ q \in 1 .. k /\ k \in 0 .. Len(T)
    BY <1>1, <2>1, <2>2
  <2>4. Traces(T)[q] \in Seq(1 .. n) /\ EndsWith(Traces(T)[q], T[q].nodes)
    BY <2>3, TracesTyped
  <2>5. T[q].nodes \in Seq(1 .. n)
    BY <2>3, RowIs
  <2>6. From(T, q, T[k].step) \in Seq(1 .. n)
    BY <2>1, <2>2, <2>4, <2>5, CutIs DEF Cut, From
  <2>7. Traces(T)[k] = From(T, q, T[k].step) \o <<e>>
    BY <1>1, <2>1, <2>2 DEF Joined, From
  <2> QED
    BY <1>3, <2>2, <2>6, <2>7, AppendIsConcat
<1> QED
  BY <1>2, <1>3

\* A row that gets one more node: its way gets it too, and what branches off before stays.
LEMMA LongerRow ==
  ASSUME NEW T, NEW U, NEW n \in Nat, Table(T, n), Table(U, n), NEW k \in 1 .. Len(T), Fresh(T, k),
         Len(U) = Len(T), NEW e \in 1 .. n, U[k].nodes = Append(T[k].nodes, e),
         U[k].prev = T[k].prev, U[k].step = T[k].step,
         \A p \in 1 .. k - 1 : U[p].nodes = T[p].nodes /\ U[p].prev = T[p].prev /\ U[p].step = T[p].step
  PROVE  /\ \A p \in 1 .. k - 1 : Traces(U)[p] = Traces(T)[p]
         /\ Traces(U)[k] = Append(Traces(T)[k], e)
<1>1. Len(T) \in Nat /\ k \in Nat /\ k - 1 \in 0 .. Len(T) /\ k \in 0 .. Len(T) /\ k \in 1 .. k
  BY DEF Table
<1>2. \A p \in 1 .. k - 1 : Traces(U)[p] = Traces(T)[p]
  BY <1>1, TracesSame
<1>3. Traces(U)[k] = Joined(U, Traces(U), k) /\ Traces(T)[k] = Joined(T, Traces(T), k)
  BY TracesAre
<1>4. T[k].nodes \in Seq(1 .. n) /\ T[k].prev \in 1 .. k /\ T[k].prev \in 1 .. Len(T)
  BY RowIs
<1>5. Traces(U)[k] = Append(Traces(T)[k], e)
  <2>1. CASE T[k].prev = k
    BY <1>3, <2>1 DEF Joined
  <2>2. CASE T[k].prev # k
    <3>1. PICK q, s : q = T[k].prev /\ s = T[k].step
      OBVIOUS
    <3>2. q \in 1 .. k - 1 /\ q \in 1 .. Len(T) /\ q \in 1 .. k
      BY <1>1, <1>4, <2>2, <3>1
    <3>3. k # 1
      BY <3>2
    <3>4. s \in 1 .. Len(T[q].nodes)
      BY <1>1, <3>1, <3>3 DEF Fresh
    <3>5. Traces(T)[q] \in Seq(1 .. n) /\ EndsWith(Traces(T)[q], T[q].nodes)
      BY <1>1, <3>2, TracesTyped
    <3>6. T[q].nodes \in Seq(1 .. n)
      BY <3>2, RowIs
    <3>7. PICK c : c = Cut(T, Traces(T), q, s)
      OBVIOUS
    <3>8. c \in Seq(1 .. n)
      BY <3>4, <3>5, <3>6, <3>7, CutIs DEF Cut
    <3>9. Traces(T)[k] = c \o T[k].nodes
      BY <1>3, <2>2, <3>1, <3>7 DEF Joined
    <3>10. Cut(U, Traces(U), q, s) = c
      BY <1>2, <3>2, <3>7 DEF Cut
    <3>11. Traces(U)[k] = c \o Append(T[k].nodes, e)
      BY <1>3, <2>2, <3>1, <3>10 DEF Joined
    <3>12. c \o Append(T[k].nodes, e) = Append(c \o T[k].nodes, e)
      <4>1. PICK w : w = T[k].nodes
        OBVIOUS
      <4>2. w \in Seq(1 .. n) /\ c \o w \in Seq(1 .. n) /\ <<e>> \in Seq(1 .. n)
        BY <1>4, <3>8, <4>1, ConcatProperties
      <4>3. Append(w, e) = w \o <<e>>
        BY <4>2, AppendIsConcat
      <4>5. Append(c \o w, e) = (c \o w) \o <<e>>
        BY <4>2, AppendIsConcat
      <4>4. c \o (w \o <<e>>) = (c \o w) \o <<e>>
        BY <3>8, <4>2, ConcatAssociative
      <4> QED
        BY <4>1, <4>3, <4>4, <4>5
    <3> QED
      BY <3>9, <3>11, <3>12
  <2> QED
    BY <2>1, <2>2
<1> QED
  BY <1>2, <1>5

LEMMA LongerFrom ==
  ASSUME NEW T, NEW U, NEW n \in Nat, Table(T, n), NEW k \in 1 .. Len(T), Fresh(T, k), NEW e \in 1 .. n,
         U[k].nodes = Append(T[k].nodes, e), Traces(U)[k] = Append(Traces(T)[k], e),
         NEW s \in 1 .. Len(T[k].nodes)
  PROVE  From(U, k, s) = From(T, k, s)
<1>1. PICK w, r : w = Traces(T)[k] /\ r = T[k].nodes
  OBVIOUS
<1>2. k \in 0 .. Len(T) /\ k \in 1 .. k
  BY DEF Table
<1>3. w \in Seq(1 .. n) /\ EndsWith(w, r) /\ r \in Seq(1 .. n) /\ s \in 1 .. Len(r)
  BY <1>1, <1>2, TracesTyped, RowIs
<1>4. Len(w) \in Nat /\ Len(r) \in Nat
  BY <1>3, LenProperties
<1>5. /\ Append(w, e) \in Seq(1 .. n) /\ Len(Append(w, e)) = Len(w) + 1
      /\ \A i \in 1 .. Len(w) : Append(w, e)[i] = w[i]
      /\ Len(Append(r, e)) = Len(r) + 1
  BY <1>3, AppendProperties
<1> DEFINE d == Len(w) - (Len(r) - s)
<1>6. /\ d \in 1 .. Len(w) /\ SubSeq(w, 1, d) \in Seq(1 .. n) /\ Len(SubSeq(w, 1, d)) = d
      /\ \A i \in 1 .. d : SubSeq(w, 1, d)[i] = w[i]
  BY <1>3, CutIs
<1>7. Len(Append(w, e)) - (Len(Append(r, e)) - s) = d
  BY <1>3, <1>4, <1>5
<1>8. From(T, k, s) = SubSeq(w, 1, d) /\ From(U, k, s) = SubSeq(Append(w, e), 1, d)
  BY <1>1, <1>7 DEF From, Cut
<1> HIDE DEF d
<1>9. \A i \in 1 .. d : Append(w, e)[i] \in 1 .. n
  BY <1>3, <1>4, <1>5, <1>6, ElementOfSeq
<1>10. /\ SubSeq(Append(w, e), 1, d) \in Seq(1 .. n) /\ Len(SubSeq(Append(w, e), 1, d)) = d
       /\ \A i \in 1 .. d : SubSeq(Append(w, e), 1, d)[i] = Append(w, e)[i]
  <2>1. /\ SubSeq(Append(w, e), 1, d) \in Seq(1 .. n)
        /\ Len(SubSeq(Append(w, e), 1, d)) = (IF 1 <= d THEN d - 1 + 1 ELSE 0)
        /\ \A i \in 1 .. d - 1 + 1 : SubSeq(Append(w, e), 1, d)[i] = Append(w, e)[1 + i - 1]
    BY <1>4, <1>6, <1>9, SubSeqProperties
  <2>2. 1 <= d /\ d - 1 + 1 = d /\ \A i \in 1 .. d : 1 + i - 1 = i
    BY <1>4, <1>6
  <2> QED
    BY <2>1, <2>2
<1>11. \A i \in 1 .. d : i \in 1 .. Len(w)
  BY <1>4, <1>6
<1>12. SubSeq(Append(w, e), 1, d) = SubSeq(w, 1, d)
  <2>1. \A i \in 1 .. d : SubSeq(Append(w, e), 1, d)[i] = SubSeq(w, 1, d)[i]
    BY <1>5, <1>6, <1>10, <1>11
  <2>2. PICK x, y : x = SubSeq(Append(w, e), 1, d) /\ y = SubSeq(w, 1, d)
    OBVIOUS
  <2>3. x \in Seq(1 .. n) /\ y \in Seq(1 .. n) /\ Len(x) = Len(y) /\ \A i \in 1 .. Len(x) : x[i] = y[i]
    BY <1>6, <1>10, <2>1, <2>2
  <2>4. x = y
    BY <2>3, SeqEqual
  <2> QED
    BY <2>2, <2>4
<1> QED
  BY <1>8, <1>12

\* The last of its nodes, the last step of a row, is where the whole way goes on.
LEMMA FromEnd ==
  ASSUME NEW T, NEW n \in Nat, Table(T, n), NEW k \in 1 .. Len(T), Fresh(T, k)
  PROVE  From(T, k, Len(T[k].nodes)) = Traces(T)[k]
<1>1. PICK w, r : w = Traces(T)[k] /\ r = T[k].nodes
  OBVIOUS
<1>2. k \in 0 .. Len(T) /\ k \in 1 .. k
  BY DEF Table
<1>3. w \in Seq(1 .. n) /\ r \in Seq(1 .. n) /\ Len(w) \in Nat /\ Len(r) \in Nat
  BY <1>1, <1>2, TracesTyped, RowIs, LenProperties
<1>4. Len(w) - (Len(r) - Len(r)) = Len(w)
  BY <1>3
<1>5. From(T, k, Len(T[k].nodes)) = SubSeq(w, 1, Len(w))
  BY <1>1, <1>4 DEF From, Cut
<1> QED
  BY <1>1, <1>3, <1>5, SubSeqFull

-----------------------------------------------------------------------------
(* The table and the entries of node_mid_start, step by step *)

\* A way as far as it is built: only its last node may be one it has been at.
Underway(next, t) == Walks(next, t) /\ OnceTo(t, Len(t) - 1)

\* The entries in use, and the way each stands for.
InUse(W) == {m \in Mid : W[m].node # 0}
Item(T, e) == Append(From(T, e.path, e.step), e.node)

\* The rows up to k are ways, and so are the entries, which branch off them.
Rows(T, k, next) ==
  /\ Table(T, Len(next)) /\ k \in 0 .. Len(T) /\ Fresh(T, k)
  /\ \A p \in 1 .. k : Underway(next, Traces(T)[p])
Ready(T, k, W, next) ==
  \A m \in InUse(W) : /\ W[m].node \in 1 .. Len(next) /\ W[m].path \in 1 .. k
                      /\ W[m].step \in 1 .. Len(T[W[m].path].nodes)
                      /\ Underway(next, Item(T, W[m]))

\* No two of them can become the same way.
Parted(s, t) == \E i \in Nat \ {0} : i <= Len(s) /\ i <= Len(t) /\ s[i] # t[i]
Apart(T, k, W) ==
  /\ \A p, q \in 1 .. k : p # q => Parted(Traces(T)[p], Traces(T)[q])
  /\ \A p \in 1 .. k : \A m \in InUse(W) : Parted(Traces(T)[p], Item(T, W[m]))
  /\ \A m, j \in InUse(W) : m # j => Parted(Item(T, W[m]), Item(T, W[j]))

\* Every way of the function is one of them, or can become one.
Begins(s, t) == Len(s) <= Len(t) /\ \A i \in 1 .. Len(s) : s[i] = t[i]
Covers(T, k, W, next) ==
  \A t : EndWalk(next, t) \/ LoopWalk(next, t) =>
    (\E p \in 1 .. k : Begins(Traces(T)[p], t)) \/ \E m \in InUse(W) : Begins(Item(T, W[m]), t)

LEMMA PartedSame == \A s, t : Parted(s, t) => Parted(t, s)
BY DEF Parted

\* Ways that have parted stay parted when one goes on.
LEMMA PartedOn ==
  ASSUME NEW n \in Nat, NEW s \in Seq(1 .. n), NEW t, NEW e \in 1 .. n, Parted(s, t)
  PROVE  Parted(Append(s, e), t)
<1>1. Len(s) \in Nat /\ Len(Append(s, e)) = Len(s) + 1 /\ \A i \in 1 .. Len(s) : Append(s, e)[i] = s[i]
  BY AppendProperties, LenProperties
<1>2. PICK i \in Nat \ {0} : i <= Len(s) /\ i <= Len(t) /\ s[i] # t[i]
  BY DEF Parted
<1>3. i \in 1 .. Len(s) /\ i <= Len(s) + 1
  BY <1>1, <1>2
<1>4. i <= Len(Append(s, e)) /\ Append(s, e)[i] # t[i]
  BY <1>1, <1>2, <1>3
<1> QED
  BY <1>2, <1>4 DEF Parted

\* Different links lead to different ways.
LEMMA PartedHere ==
  ASSUME NEW n \in Nat, NEW s \in Seq(1 .. n), NEW d \in 1 .. n, NEW e \in 1 .. n, d # e
  PROVE  Parted(Append(s, d), Append(s, e))
<1>1. Len(s) \in Nat /\ Len(Append(s, d)) = Len(s) + 1 /\ Len(Append(s, e)) = Len(s) + 1
      /\ Append(s, d)[Len(s) + 1] = d /\ Append(s, e)[Len(s) + 1] = e
  BY AppendProperties, LenProperties
<1>2. Len(s) + 1 \in Nat \ {0}
  BY <1>1
<1> QED
  BY <1>1, <1>2 DEF Parted

LEMMA UnderwayIs ==
  ASSUME NEW next, IsNext(next), NEW t, Underway(next, t)
  PROVE  /\ Walks(next, t) /\ t \in Seq(1 .. Len(next)) /\ Len(t) \in Nat \ {0}
         /\ t[Len(t)] \in 1 .. Len(next) /\ Len(next) \in Nat
BY WalkIs, NextIs DEF Underway, Walks

\* Ways to rows that two tables share, and the ways that branch off them.
SameRow(T, U, p) == U[p].nodes = T[p].nodes /\ U[p].prev = T[p].prev /\ U[p].step = T[p].step

SameWays(T, U, k) == \A p \in 1 .. k : Traces(U)[p] = Traces(T)[p]

LEMMA SameRows ==
  ASSUME NEW T, NEW U, NEW n \in Nat, Table(T, n), Table(U, n), NEW k \in 0 .. Len(T), k <= Len(U),
         Fresh(T, k), \A p \in 1 .. k : SameRow(T, U, p)
  PROVE  /\ Fresh(U, k)
         /\ \A p \in 1 .. k : /\ Traces(U)[p] = Traces(T)[p] /\ U[p].nodes = T[p].nodes
                              /\ \A s : From(U, p, s) = From(T, p, s)
<1>1. Len(T) \in Nat /\ k \in Nat
  BY DEF Table
<1>2. \A p \in 1 .. k : U[p].nodes = T[p].nodes /\ U[p].prev = T[p].prev /\ U[p].step = T[p].step
  BY DEF SameRow
<1>3. \A p \in 1 .. k : Traces(U)[p] = Traces(T)[p]
  BY <1>2, TracesSame
<1>4. ASSUME NEW p \in 1 .. k
      PROVE  /\ U[p].prev = p <=> p = 1
             /\ p # 1 => U[p].step \in 1 .. Len(U[U[p].prev].nodes)
  <2>1. p \in 1 .. Len(T)
    BY <1>1
  <2>2. T[p].prev \in 1 .. p
    BY <2>1, RowIs
  <2>3. PICK q : q = T[p].prev
    OBVIOUS
  <2>4. q \in 1 .. k /\ U[p].prev = q /\ U[q].nodes = T[q].nodes /\ U[p].step = T[p].step
    BY <1>1, <1>2, <2>2, <2>3
  <2>5. (q = p <=> p = 1) /\ (p # 1 => T[p].step \in 1 .. Len(T[q].nodes))
    BY <2>3 DEF Fresh
  <2> QED
    BY <2>3, <2>4, <2>5
<1>5. Fresh(U, k)
  BY <1>4 DEF Fresh
<1>6. ASSUME NEW p \in 1 .. k, NEW s PROVE From(U, p, s) = From(T, p, s)
  BY <1>2, <1>3 DEF From, Cut
<1> QED
  BY <1>2, <1>3, <1>5, <1>6

\* Nothing but marks on the rows has changed.
LEMMA MarkedRows ==
  ASSUME NEW next, IsNext(next), NEW T, NEW U, NEW W, NEW k, Rows(T, k, next), Table(U, Len(next)),
         k <= Len(U), \A p \in 1 .. k : SameRow(T, U, p)
  PROVE  /\ Rows(U, k, next)
         /\ Ready(T, k, W, next) => Ready(U, k, W, next)
         /\ Ready(T, k, W, next) /\ Apart(T, k, W) => Apart(U, k, W)
         /\ Ready(T, k, W, next) /\ Covers(T, k, W, next) => Covers(U, k, W, next)
<1>1. Len(next) \in Nat /\ Table(T, Len(next)) /\ k \in 0 .. Len(T) /\ Fresh(T, k) /\ Len(T) \in Nat
      /\ Len(U) \in Nat
  BY NextIs DEF Rows, Table
<1>2. /\ Fresh(U, k)
      /\ \A p \in 1 .. k : /\ Traces(U)[p] = Traces(T)[p] /\ U[p].nodes = T[p].nodes
                           /\ \A s : From(U, p, s) = From(T, p, s)
  BY <1>1, SameRows
<1>3. k \in 0 .. Len(U)
  BY <1>1
<1>4. Rows(U, k, next)
  BY <1>2, <1>3 DEF Rows
<1>5. ASSUME Ready(T, k, W, next), NEW m \in InUse(W)
      PROVE  Item(U, W[m]) = Item(T, W[m]) /\ U[W[m].path].nodes = T[W[m].path].nodes
  BY <1>2, <1>5 DEF Ready, Item
<1>6. Ready(T, k, W, next) => Ready(U, k, W, next)
  BY <1>5 DEF Ready
<1>7. ASSUME Ready(T, k, W, next), Apart(T, k, W) PROVE Apart(U, k, W)
  BY <1>2, <1>5, <1>7 DEF Apart
<1>8. ASSUME Ready(T, k, W, next), Covers(T, k, W, next) PROVE Covers(U, k, W, next)
  BY <1>2, <1>5, <1>8 DEF Covers
<1> QED
  BY <1>4, <1>6, <1>7, <1>8

\* A row is begun from entry m.
Takes(T, U, W, V, k, m) ==
  /\ m \in InUse(W) /\ k + 1 <= Len(U) /\ \A p \in 1 .. k : SameRow(T, U, p)
  /\ U[k + 1].nodes = <<W[m].node>> /\ U[k + 1].prev = W[m].path /\ U[k + 1].step = W[m].step
  /\ V[m].node = 0 /\ \A j \in Mid \ {m} : V[j] = W[j]

LEMMA TakenRows ==
  ASSUME NEW next, IsNext(next), NEW T, NEW U, NEW W, NEW V, NEW k \in Nat \ {0}, NEW m,
         Rows(T, k, next), Ready(T, k, W, next), Table(U, Len(next)), Takes(T, U, W, V, k, m)
  PROVE  /\ Rows(U, k + 1, next) /\ Ready(U, k + 1, V, next)
         /\ Apart(T, k, W) => Apart(U, k + 1, V)
         /\ Covers(T, k, W, next) => Covers(U, k + 1, V, next)
         /\ SameWays(T, U, k)
<1>0. /\ m \in InUse(W) /\ k + 1 <= Len(U) /\ \A p \in 1 .. k : SameRow(T, U, p)
      /\ U[k + 1].nodes = <<W[m].node>> /\ U[k + 1].prev = W[m].path /\ U[k + 1].step = W[m].step
      /\ V[m].node = 0 /\ \A j \in Mid \ {m} : V[j] = W[j]
  BY DEF Takes
<1>1. Len(next) \in Nat /\ Table(T, Len(next)) /\ k \in 0 .. Len(T) /\ Fresh(T, k) /\ Len(T) \in Nat
      /\ Len(U) \in Nat /\ k \in Nat
  BY NextIs DEF Rows, Table
<1>2. /\ Fresh(U, k)
      /\ \A p \in 1 .. k : /\ Traces(U)[p] = Traces(T)[p] /\ U[p].nodes = T[p].nodes
                           /\ \A s : From(U, p, s) = From(T, p, s)
  <2>1. k <= Len(U)
    BY <1>0, <1>1
  <2> QED
    BY <1>0, <1>1, <2>1, SameRows
<1>3. PICK e, q, s : e = W[m].node /\ q = W[m].path /\ s = W[m].step
  OBVIOUS
<1>4. e \in 1 .. Len(next) /\ q \in 1 .. k /\ s \in 1 .. Len(T[q].nodes) /\ Underway(next, Item(T, W[m]))
  BY <1>0, <1>3 DEF Ready
<1>5. k + 1 \in 1 .. Len(U) /\ k + 1 # 1 /\ \A p \in 1 .. k + 1 : p \in 1 .. k \/ p = k + 1
  BY <1>0, <1>1
<1>6. Fresh(U, k + 1)
  <2>1. q # k + 1 /\ s \in 1 .. Len(U[q].nodes) /\ U[k + 1].prev = q /\ U[k + 1].step = s
    BY <1>0, <1>1, <1>2, <1>3, <1>4
  <2>2. ASSUME NEW p \in 1 .. k + 1
        PROVE  (U[p].prev = p <=> p = 1) /\ (p # 1 => U[p].step \in 1 .. Len(U[U[p].prev].nodes))
    <3>1. CASE p \in 1 .. k
      BY <1>2, <3>1 DEF Fresh
    <3>2. CASE p = k + 1
      BY <1>5, <2>1, <3>2
    <3> QED
      BY <1>5, <3>1, <3>2
  <2> QED
    BY <2>2 DEF Fresh
<1>7. Traces(U)[k + 1] = Item(T, W[m])
  <2>1. U[k + 1].nodes = <<e>>
    BY <1>0, <1>3
  <2>2. Traces(U)[k + 1] = Append(From(U, U[k + 1].prev, U[k + 1].step), e)
    BY <1>1, <1>4, <1>5, <1>6, <2>1, BegunRow
  <2> QED
    BY <1>0, <1>2, <1>3, <1>4, <2>2 DEF Item
<1>8. Rows(U, k + 1, next)
  <2>1. k + 1 \in 0 .. Len(U)
    BY <1>5, <1>1
  <2>2. ASSUME NEW p \in 1 .. k + 1 PROVE Underway(next, Traces(U)[p])
    <3>1. CASE p \in 1 .. k
      BY <1>2, <3>1 DEF Rows
    <3>2. CASE p = k + 1
      BY <1>4, <1>7, <3>2
    <3> QED
      BY <1>5, <3>1, <3>2
  <2> QED
    BY <1>6, <2>1, <2>2 DEF Rows
<1>9. ASSUME NEW j \in InUse(V)
      PROVE  j \in InUse(W) /\ j # m /\ V[j] = W[j] /\ Item(U, V[j]) = Item(T, W[j])
             /\ U[V[j].path].nodes = T[W[j].path].nodes /\ V[j].path \in 1 .. k
  <2>1. j \in InUse(W) /\ j # m /\ V[j] = W[j]
    BY <1>0 DEF InUse
  <2>2. W[j].path \in 1 .. k
    BY <2>1 DEF Ready
  <2> QED
    BY <1>2, <2>1, <2>2 DEF Item
<1>10. Ready(U, k + 1, V, next)
  <2>1. \A q1 \in 1 .. k : q1 \in 1 .. k + 1
    BY <1>1
  <2> QED
    BY <1>9, <2>1 DEF Ready
<1>11. ASSUME Apart(T, k, W) PROVE Apart(U, k + 1, V)
  <2>1. ASSUME NEW p \in 1 .. k + 1, NEW q1 \in 1 .. k + 1, p # q1 PROVE Parted(Traces(U)[p], Traces(U)[q1])
    <3>0. ASSUME NEW i \in 1 .. k PROVE Parted(Traces(U)[i], Traces(U)[k + 1])
      BY <1>0, <1>2, <1>7, <1>11 DEF Apart
    <3>1. CASE p \in 1 .. k /\ q1 \in 1 .. k
      BY <1>2, <1>11, <2>1, <3>1 DEF Apart
    <3>2. CASE p \in 1 .. k /\ q1 = k + 1
      BY <3>0, <3>2
    <3>3. CASE p = k + 1 /\ q1 \in 1 .. k
      BY <3>0, <3>3, PartedSame
    <3> QED
      BY <1>5, <2>1, <3>1, <3>2, <3>3
  <2>2. ASSUME NEW p \in 1 .. k + 1, NEW j \in InUse(V) PROVE Parted(Traces(U)[p], Item(U, V[j]))
    <3>1. CASE p \in 1 .. k
      BY <1>2, <1>9, <1>11, <3>1 DEF Apart
    <3>2. CASE p = k + 1
      BY <1>0, <1>7, <1>9, <1>11, <3>2 DEF Apart
    <3> QED
      BY <1>5, <3>1, <3>2
  <2>3. ASSUME NEW i \in InUse(V), NEW j \in InUse(V), i # j PROVE Parted(Item(U, V[i]), Item(U, V[j]))
    BY <1>9, <1>11, <2>3 DEF Apart
  <2> QED
    BY <2>1, <2>2, <2>3 DEF Apart
<1>12. SameWays(T, U, k)
  BY <1>2 DEF SameWays
<1>13. ASSUME Covers(T, k, W, next) PROVE Covers(U, k + 1, V, next)
  <2>1. ASSUME NEW t, EndWalk(next, t) \/ LoopWalk(next, t)
        PROVE  (\E p \in 1 .. k + 1 : Begins(Traces(U)[p], t)) \/ \E j \in InUse(V) : Begins(Item(U, V[j]), t)
    <3>1. CASE \E p \in 1 .. k : Begins(Traces(T)[p], t)
      <4>1. PICK p \in 1 .. k : Begins(Traces(T)[p], t)
        BY <3>1
      <4>2. p \in 1 .. k + 1 /\ Traces(U)[p] = Traces(T)[p]
        BY <1>1, <1>2
      <4> QED
        BY <4>1, <4>2
    <3>2. CASE \E j \in InUse(W) : Begins(Item(T, W[j]), t)
      <4>1. PICK j \in InUse(W) : Begins(Item(T, W[j]), t)
        BY <3>2
      <4>2. CASE j = m
        <5>1. k + 1 \in 1 .. k + 1
          BY <1>1
        <5> QED
          BY <1>7, <4>1, <4>2, <5>1
      <4>3. CASE j # m
        <5>1. j \in InUse(V)
          BY <1>0, <4>3 DEF InUse
        <5> QED
          BY <1>9, <4>1, <5>1
      <4> QED
        BY <4>2, <4>3
    <3> QED
      BY <1>13, <2>1, <3>1, <3>2 DEF Covers
  <2> QED
    BY <2>1 DEF Covers
<1> QED
  BY <1>8, <1>10, <1>11, <1>12, <1>13

\* The first row is begun.
LEMMA FirstRow ==
  ASSUME NEW next, IsNext(next), NEW U, NEW V, Table(U, Len(next)), 1 <= Len(U),
         U[1].nodes = << 1 >>, U[1].prev = 1, InUse(V) = {}
  PROVE  Rows(U, 1, next) /\ Ready(U, 1, V, next) /\ Apart(U, 1, V) /\ Covers(U, 1, V, next)
<1>1. Len(next) \in Nat \ {0} /\ Len(U) \in Nat /\ 1 \in 1 .. Len(U) /\ 1 \in 1 .. Len(next) /\ 1 \in 0 .. Len(U)
      /\ \A p \in 1 .. 1 : p = 1
  BY NextIs DEF Table
<1>2. Fresh(U, 1)
  BY <1>1 DEF Fresh
<1>3. Traces(U)[1] = <<1>>
  BY <1>1, <1>2, BegunRow
<1>4. Underway(next, <<1>>)
  <2>1. <<1>> \in WalksOf(next, 1)
    BY FirstWalks
  <2>2. Len(<<1>>) = 1
    OBVIOUS
  <2>3. \A i, j \in 1 .. 0 : FALSE
    OBVIOUS
  <2>4. 1 - 1 = 0
    OBVIOUS
  <2> QED
    BY <2>1, <2>2, <2>3, <2>4 DEF WalksOf, Underway, OnceTo
<1>5. Rows(U, 1, next)
  BY <1>1, <1>2, <1>3, <1>4 DEF Rows
<1>6. ASSUME NEW t, EndWalk(next, t) \/ LoopWalk(next, t) PROVE Begins(Traces(U)[1], t)
  <2>1. Len(t) \in Nat \ {0} /\ t[1] = 1
    BY <1>6, WalkIs DEF EndWalk, LoopWalk, Walks
  <2>2. PICK s : s = << 1 >>
    OBVIOUS
  <2>3. Len(s) = 1 /\ s[1] = 1 /\ \A i \in 1 .. 1 : i = 1
    BY <2>2
  <2>4. Begins(s, t)
    BY <2>1, <2>3 DEF Begins
  <2> QED
    BY <1>3, <2>2, <2>4
<1>7. Covers(U, 1, V, next)
  <2>1. 1 \in 1 .. 1
    OBVIOUS
  <2> QED
    BY <1>6, <2>1 DEF Covers
<1>8. Ready(U, 1, V, next) /\ Apart(U, 1, V)
  BY <1>1, <1>5 DEF Ready, Apart
<1> QED
  BY <1>5, <1>7, <1>8

\* Links that wait: entry m, vacant before, stands for link h[m] behind step s of row k.
Waits(W, V, h, links, k, s) ==
  /\ h \in [Mid -> 0 .. Len(links)]
  /\ \A m \in Mid : h[m] = 0 => V[m] = W[m]
  /\ \A m \in Mid : h[m] # 0 =>
       /\ W[m].node = 0
       /\ V[m].node = links[h[m]] /\ V[m].path = k /\ V[m].step = s
  /\ \A m, j \in Mid : h[m] # 0 /\ h[m] = h[j] => m = j
  /\ Vacant(V) # {} => \A l \in 1 .. Len(links) : \E m \in Mid : h[m] = l

\* Row k, whose way w ends at a node it was not at before, goes on to the first link of it.
Onward(T, U, k, next, w, tip) ==
  /\ w = Traces(T)[k] /\ tip = w[Len(w)] /\ OnceTo(w, Len(w)) /\ next[tip] # <<>>
  /\ U[k].nodes = Append(T[k].nodes, next[tip][1]) /\ U[k].prev = T[k].prev /\ U[k].step = T[k].step
  /\ \A p \in 1 .. k - 1 : SameRow(T, U, p)

LEMMA UnderwayOn ==
  ASSUME NEW next, IsNext(next), NEW w, Underway(next, w), OnceTo(w, Len(w)),
         NEW l \in 1 .. Len(next[w[Len(w)]])
  PROVE  Underway(next, Append(w, next[w[Len(w)]][l]))
<1>1. PICK k : k = w[Len(w)]
  OBVIOUS
<1>2. Walks(next, w) /\ Len(w) \in Nat
  BY UnderwayIs
<1>3. PICK u : u = Append(w, next[k][l])
  OBVIOUS
<1>6. l \in 1 .. Len(next[k])
  BY <1>1
<1>7. Walks(next, u) /\ Len(u) = Len(w) + 1 /\ \A i \in 1 .. Len(w) : u[i] = w[i]
  BY <1>1, <1>2, <1>3, <1>6, WalkOn
<1>4. Len(u) - 1 = Len(w)
  BY <1>2, <1>7
<1>5. OnceTo(u, Len(u) - 1)
  BY <1>4, <1>7 DEF OnceTo
<1> QED
  BY <1>1, <1>3, <1>5, <1>7 DEF Underway

\* A way that begins like w goes on by one of the links of the node w ends at.
LEMMA BeginsOn ==
  ASSUME NEW next, IsNext(next), NEW w, Underway(next, w), OnceTo(w, Len(w)), next[w[Len(w)]] # <<>>,
         NEW t, EndWalk(next, t) \/ LoopWalk(next, t), Begins(w, t)
  PROVE  \E l \in 1 .. Len(next[w[Len(w)]]) : Begins(Append(w, next[w[Len(w)]][l]), t)
<1>1. /\ Len(w) \in Nat \ {0} /\ w \in Seq(1 .. Len(next)) /\ w[Len(w)] \in 1 .. Len(next)
  BY UnderwayIs
<1>2. /\ Walks(next, t) /\ Len(t) \in Nat \ {0}
  BY WalkIs DEF EndWalk, LoopWalk, Walks
<1>3. Len(w) <= Len(t) /\ \A i \in 1 .. Len(w) : w[i] = t[i]
  BY DEF Begins
<1>4. Len(w) # Len(t)
  <2>1. ASSUME Len(w) = Len(t) PROVE FALSE
    <3>1. \A i \in 1 .. Len(t) : w[i] = t[i]
      BY <1>3, <2>1
    <3>2. w[Len(w)] = t[Len(t)]
      BY <1>1, <2>1, <3>1
    <3>3. ~EndWalk(next, t)
      BY <3>2 DEF EndWalk
    <3>4. PICK j \in 1 .. Len(t) - 1 : t[j] = t[Len(t)]
      BY <3>3 DEF LoopWalk
    <3>5. j \in 1 .. Len(w) /\ Len(w) \in 1 .. Len(w) /\ j # Len(w)
      BY <1>1, <2>1, <3>4
    <3>6. w[j] = w[Len(w)]
      BY <2>1, <3>1, <3>2, <3>4, <3>5
    <3> QED
      BY <3>5, <3>6 DEF OnceTo
  <2> QED
    BY <2>1
<1>5. PICK d : d = Len(w)
  OBVIOUS
<1>6. d \in 1 .. Len(t) - 1 /\ d \in Nat \ {0} /\ d + 1 <= Len(t) /\ d \in 1 .. d /\ t[d] = w[d]
  BY <1>1, <1>2, <1>3, <1>4, <1>5
<1>7. PICK l \in 1 .. Len(next[t[d]]) : t[d + 1] = next[t[d]][l]
  BY <1>2, <1>6 DEF Walks
<1>8. PICK a, u : a = next[w[d]][l] /\ u = Append(w, a)
  OBVIOUS
<1>9. a \in 1 .. Len(next) /\ t[d + 1] = a /\ l \in 1 .. Len(next[w[d]])
  BY <1>1, <1>5, <1>6, <1>7, <1>8, NextIs
<1>10. Len(u) = d + 1 /\ u[d + 1] = a /\ \A i \in 1 .. d : u[i] = w[i]
  BY <1>1, <1>5, <1>8, <1>9, AppendProperties
<1>11. Begins(u, t)
  <2>1. \A i \in 1 .. d + 1 : i = d + 1 \/ i \in 1 .. d
    BY <1>6
  <2> QED
    BY <1>3, <1>5, <1>6, <1>9, <1>10, <2>1 DEF Begins
<1> QED
  BY <1>5, <1>8, <1>9, <1>11

\* A row goes on to the first of its links, and the others wait.
LEMMA FollowedRows ==
  ASSUME NEW next, IsNext(next), NEW T, NEW U, NEW W, NEW V, NEW h, NEW k \in Nat \ {0}, NEW tip, NEW w,
         Rows(T, k, next), Ready(T, k, W, next), Table(U, Len(next)), Len(U) = Len(T),
         Onward(T, U, k, next, w, tip), Waits(W, V, h, Tail(next[tip]), k, Len(T[k].nodes))
  PROVE  /\ Rows(U, k, next) /\ Ready(U, k, V, next)
         /\ IsInjective(next[tip]) /\ Apart(T, k, W) => Apart(U, k, V)
         /\ Vacant(V) # {} /\ Covers(T, k, W, next) => Covers(U, k, V, next)
         /\ SameWays(T, U, k - 1)
<1>1. Len(next) \in Nat \ {0} /\ Table(T, Len(next)) /\ k \in 1 .. Len(T) /\ Fresh(T, k) /\ Len(T) \in Nat
      /\ k \in 0 .. Len(U) /\ k - 1 \in 0 .. Len(T) /\ k - 1 <= Len(U) /\ k \in 1 .. k
  <2>1. Table(T, Len(next)) /\ k \in 0 .. Len(T) /\ Fresh(T, k) /\ Len(T) \in Nat
    BY DEF Rows, Table
  <2>2. Len(next) \in Nat \ {0}
    BY NextIs
  <2> QED
    BY <2>1, <2>2
<1>0. w = Traces(T)[k] /\ tip = w[Len(w)]
  BY DEF Onward
<1>2. Underway(next, w)
  BY <1>0, <1>1 DEF Rows
<1>3. w \in Seq(1 .. Len(next)) /\ Len(w) \in Nat \ {0} /\ tip \in 1 .. Len(next) /\ Walks(next, w)
  BY <1>0, <1>2, UnderwayIs
<1> DEFINE e(l) == next[tip][l]
<1>4. /\ Len(next[tip]) \in Nat \ {0} /\ next[tip] \in Seq(1 .. Len(next))
      /\ DOMAIN next[tip] = 1 .. Len(next[tip]) /\ \A l \in 1 .. Len(next[tip]) : e(l) \in 1 .. Len(next)
  <2>1. next[tip] # <<>>
    BY DEF Onward
  <2> QED
    BY <1>3, <2>1, NextIs, EmptySeq
<1>5. /\ Len(Tail(next[tip])) = Len(next[tip]) - 1
      /\ \A l \in 1 .. Len(next[tip]) - 1 : Tail(next[tip])[l] = e(l + 1)
  BY <1>4, HeadTailProperties
<1>6. ASSUME NEW l \in 1 .. Len(next[tip]) PROVE Underway(next, Append(w, e(l)))
  <2>1. l \in 1 .. Len(next[w[Len(w)]]) /\ OnceTo(w, Len(w))
    BY <1>0, <1>6 DEF Onward
  <2>2. Underway(next, Append(w, next[w[Len(w)]][l]))
    BY <1>2, <2>1, UnderwayOn
  <2> QED
    BY <1>0, <2>2
<1>7. 1 \in 1 .. Len(next[tip])
  BY <1>4
<1>8. /\ \A p \in 1 .. k - 1 : Traces(U)[p] = Traces(T)[p]
      /\ Traces(U)[k] = Append(w, e(1))
  <2>1. /\ e(1) \in 1 .. Len(next) /\ U[k].nodes = Append(T[k].nodes, e(1))
        /\ U[k].prev = T[k].prev /\ U[k].step = T[k].step
    BY <1>4, <1>7 DEF Onward
  <2>2. \A p \in 1 .. k - 1 : U[p].nodes = T[p].nodes /\ U[p].prev = T[p].prev /\ U[p].step = T[p].step
    BY DEF SameRow, Onward
  <2>3. PICK d : d = e(1)
    OBVIOUS
  <2> HIDE DEF e
  <2>4. Len(next) \in Nat /\ Table(T, Len(next)) /\ k \in 1 .. Len(T) /\ Fresh(T, k)
    BY <1>1
  <2>5. Traces(U)[k] = Append(Traces(T)[k], d) /\ \A p \in 1 .. k - 1 : Traces(U)[p] = Traces(T)[p]
    <3>1. d \in 1 .. Len(next) /\ U[k].nodes = Append(T[k].nodes, d)
      BY <2>1, <2>3
    <3> QED
      BY <2>1, <2>2, <2>4, <3>1, LongerRow, SMTT(30)
  <2> QED
    BY <1>0, <2>3, <2>5
<1>9. ASSUME NEW p \in 1 .. k, NEW s \in 1 .. Len(T[p].nodes)
      PROVE  From(U, p, s) = From(T, p, s) /\ s \in 1 .. Len(U[p].nodes)
  <2>1. CASE p = k
    <3>1. e(1) \in 1 .. Len(next) /\ U[k].nodes = Append(T[k].nodes, e(1))
      BY <1>4, <1>7 DEF Onward
    <3>2. T[k].nodes \in Seq(1 .. Len(next)) /\ Len(T[k].nodes) \in Nat
      BY <1>1, RowIs
    <3>3. From(U, k, s) = From(T, k, s)
      BY <1>0, <1>1, <1>8, <2>1, <3>1, LongerFrom, SMTT(60)
    <3>4. Len(U[k].nodes) = Len(T[k].nodes) + 1
      BY <3>1, <3>2, AppendProperties
    <3> QED
      BY <2>1, <3>2, <3>3, <3>4
  <2>2. CASE p # k
    <3>1. p \in 1 .. k - 1
      BY <1>1, <2>2
    <3>2. U[p].nodes = T[p].nodes /\ Traces(U)[p] = Traces(T)[p]
      BY <1>8, <3>1 DEF SameRow, Onward
    <3> QED
      BY <3>2 DEF From, Cut
  <2> QED
    BY <2>1, <2>2
<1>10. Fresh(U, k)
  <2>1. ASSUME NEW p \in 1 .. k
        PROVE  (U[p].prev = p <=> p = 1) /\ (p # 1 => U[p].step \in 1 .. Len(U[U[p].prev].nodes))
    <3>1. U[p].prev = T[p].prev /\ U[p].step = T[p].step
      <4>1. p = k \/ p \in 1 .. k - 1
        BY <1>1
      <4> QED
        BY <4>1 DEF SameRow, Onward
    <3>2. (T[p].prev = p <=> p = 1) /\ (p # 1 => T[p].step \in 1 .. Len(T[T[p].prev].nodes))
      BY <1>1 DEF Fresh
    <3>3. p \in 1 .. Len(T)
      BY <1>1
    <3>4. T[p].prev \in 1 .. p
      BY <3>3, RowIs, <1>1
    <3>5. T[p].prev \in 1 .. k
      BY <1>1, <3>3, <3>4
    <3> QED
      BY <1>9, <3>1, <3>2, <3>5
  <2> QED
    BY <2>1 DEF Fresh
<1>11. Rows(U, k, next)
  <2>1. ASSUME NEW p \in 1 .. k PROVE Underway(next, Traces(U)[p])
    <3>1. CASE p = k
      BY <1>6, <1>7, <1>8, <3>1
    <3>2. CASE p # k
      <4>1. p \in 1 .. k - 1
        BY <1>1, <3>2
      <4> QED
        BY <1>8, <4>1 DEF Rows
    <3> QED
      BY <3>1, <3>2
  <2> QED
    BY <1>1, <1>10, <2>1 DEF Rows
<1>12. ASSUME NEW m \in InUse(V)
       PROVE  \/ /\ h[m] = 0 /\ m \in InUse(W) /\ V[m] = W[m] /\ Item(U, V[m]) = Item(T, W[m])
              \/ /\ h[m] # 0 /\ h[m] + 1 \in 2 .. Len(next[tip])
                 /\ V[m].node = e(h[m] + 1) /\ V[m].path = k /\ V[m].step = Len(T[k].nodes)
                 /\ Item(U, V[m]) = Append(w, e(h[m] + 1))
  <2>1. m \in Mid /\ V[m].node # 0
    BY DEF InUse
  <2>2. CASE h[m] = 0
    <3>1. V[m] = W[m] /\ m \in InUse(W)
      BY <2>1, <2>2 DEF Waits, InUse
    <3>2. W[m].path \in 1 .. k /\ W[m].step \in 1 .. Len(T[W[m].path].nodes)
      BY <3>1 DEF Ready
    <3> QED
      BY <1>9, <2>2, <3>1, <3>2 DEF Item
  <2>3. CASE h[m] # 0
    <3>1. h[m] \in 0 .. Len(Tail(next[tip])) /\ V[m].node = Tail(next[tip])[h[m]] /\ V[m].path = k
          /\ V[m].step = Len(T[k].nodes)
      BY <2>1, <2>3 DEF Waits
    <3>2. h[m] + 1 \in 2 .. Len(next[tip]) /\ V[m].node = e(h[m] + 1)
      <4>1. PICK x : x = h[m]
        OBVIOUS
      <4>2. x \in 0 .. Len(next[tip]) - 1 /\ x # 0 /\ V[m].node = Tail(next[tip])[x]
        BY <1>5, <2>3, <3>1, <4>1
      <4>3. x \in 1 .. Len(next[tip]) - 1 /\ x + 1 \in 2 .. Len(next[tip])
        BY <1>4, <4>2
      <4> HIDE DEF e
      <4> QED
        BY <1>5, <4>1, <4>2, <4>3
    <3>3. Len(T[k].nodes) \in Nat \ {0}
      BY <1>1, RowIs
    <3>4. From(U, k, Len(T[k].nodes)) = From(T, k, Len(T[k].nodes))
      <4>1. Len(T[k].nodes) \in 1 .. Len(T[k].nodes)
        BY <3>3
      <4> QED
        BY <1>1, <1>9, <4>1
    <3>5. From(T, k, Len(T[k].nodes)) = w
      BY <1>0, <1>1, FromEnd
    <3> QED
      BY <2>3, <3>1, <3>2, <3>4, <3>5 DEF Item
  <2> QED
    BY <2>2, <2>3
<1>13. Ready(U, k, V, next)
  <2>1. ASSUME NEW m \in InUse(V)
        PROVE  /\ V[m].node \in 1 .. Len(next) /\ V[m].path \in 1 .. k
               /\ V[m].step \in 1 .. Len(U[V[m].path].nodes)
               /\ Underway(next, Item(U, V[m]))
    <3>1. CASE h[m] = 0
      <4>1. m \in InUse(W) /\ V[m] = W[m] /\ Item(U, V[m]) = Item(T, W[m])
        BY <1>12, <3>1
      <4>2. /\ W[m].node \in 1 .. Len(next) /\ W[m].path \in 1 .. k
            /\ W[m].step \in 1 .. Len(T[W[m].path].nodes) /\ Underway(next, Item(T, W[m]))
        BY <4>1 DEF Ready
      <4> QED
        BY <1>9, <4>1, <4>2
    <3>2. CASE h[m] # 0
      <4>1. /\ h[m] + 1 \in 2 .. Len(next[tip])
            /\ V[m].node = e(h[m] + 1) /\ V[m].path = k /\ V[m].step = Len(T[k].nodes)
            /\ Item(U, V[m]) = Append(w, e(h[m] + 1))
        BY <1>12, <3>2
      <4>2. h[m] + 1 \in 1 .. Len(next[tip])
        BY <1>4, <4>1
      <4>3. Len(T[k].nodes) \in 1 .. Len(T[k].nodes)
        BY <1>1, RowIs
      <4>4. Len(T[k].nodes) \in 1 .. Len(U[k].nodes)
        BY <1>1, <1>9, <4>3
      <4>5. Underway(next, Item(U, V[m]))
        BY <1>6, <4>1, <4>2
      <4>6. V[m].node \in 1 .. Len(next)
        BY <1>4, <4>1, <4>2
      <4> QED
        BY <1>1, <4>1, <4>4, <4>5, <4>6
    <3> QED
      BY <3>1, <3>2
  <2> QED
    BY <2>1 DEF Ready
<1>14. ASSUME IsInjective(next[tip]), Apart(T, k, W) PROVE Apart(U, k, V)
  <2>1. ASSUME NEW i \in 1 .. Len(next[tip]), NEW j \in 1 .. Len(next[tip]), i # j
        PROVE  Parted(Append(w, e(i)), Append(w, e(j)))
    <3>1. e(i) \in 1 .. Len(next) /\ e(j) \in 1 .. Len(next)
      BY <1>4
    <3>2. e(i) # e(j)
      BY <1>4, <1>14, <2>1 DEF IsInjective
    <3> QED
      BY <1>1, <1>3, <3>1, <3>2, PartedHere
  <2>2. ASSUME NEW t, Parted(w, t), NEW i \in 1 .. Len(next[tip])
        PROVE  Parted(Append(w, e(i)), t) /\ Parted(t, Append(w, e(i)))
    <3>1. e(i) \in 1 .. Len(next)
      BY <1>4
    <3>2. Parted(Append(w, e(i)), t)
      BY <1>1, <1>3, <2>2, <3>1, PartedOn
    <3> QED
      BY <3>2, PartedSame
  <2>3. /\ \A p \in 1 .. k - 1 : Parted(w, Traces(T)[p])
        /\ \A m \in InUse(W) : Parted(w, Item(T, W[m]))
    <3>1. ASSUME NEW p \in 1 .. k - 1 PROVE p \in 1 .. k /\ p # k
      BY <1>1
    <3> QED
      BY <1>0, <1>1, <1>14, <3>1 DEF Apart
  <2>4. \A m \in InUse(V) : h[m] # 0 => h[m] + 1 \in 1 .. Len(next[tip]) /\ h[m] + 1 # 1
    <3>1. ASSUME NEW m \in InUse(V), h[m] # 0 PROVE h[m] + 1 \in 2 .. Len(next[tip])
      BY <1>12, <3>1
    <3>2. \A x \in 2 .. Len(next[tip]) : x \in 1 .. Len(next[tip]) /\ x # 1
      BY <1>4
    <3> QED
      BY <3>1, <3>2
  <2>5. \A p \in 1 .. k : p = k \/ p \in 1 .. k - 1
    BY <1>1
  <2>6. ASSUME NEW p \in 1 .. k, NEW q \in 1 .. k, p # q PROVE Parted(Traces(U)[p], Traces(U)[q])
    <3>1. CASE p = k /\ q \in 1 .. k - 1
      BY <1>7, <1>8, <2>2, <2>3, <3>1
    <3>2. CASE p \in 1 .. k - 1 /\ q = k
      BY <1>7, <1>8, <2>2, <2>3, <3>2
    <3>3. CASE p \in 1 .. k - 1 /\ q \in 1 .. k - 1
      BY <1>8, <1>14, <2>6, <3>3 DEF Apart
    <3> QED
      BY <2>5, <2>6, <3>1, <3>2, <3>3
  <2>7. ASSUME NEW p \in 1 .. k, NEW m \in InUse(V) PROVE Parted(Traces(U)[p], Item(U, V[m]))
    <3>1. CASE h[m] = 0
      <4>1. m \in InUse(W) /\ Item(U, V[m]) = Item(T, W[m])
        BY <1>12, <3>1
      <4>2. CASE p = k
        BY <1>7, <1>8, <2>2, <2>3, <4>1, <4>2
      <4>3. CASE p \in 1 .. k - 1
        BY <1>8, <1>14, <4>1, <4>3 DEF Apart
      <4> QED
        BY <2>5, <4>2, <4>3
    <3>2. CASE h[m] # 0
      <4>1. Item(U, V[m]) = Append(w, e(h[m] + 1)) /\ h[m] + 1 \in 1 .. Len(next[tip]) /\ h[m] + 1 # 1
        BY <1>12, <2>4, <3>2
      <4>2. CASE p = k
        BY <1>7, <1>8, <2>1, <4>1, <4>2
      <4>3. CASE p \in 1 .. k - 1
        BY <1>8, <2>2, <2>3, <4>1, <4>3
      <4> QED
        BY <2>5, <4>2, <4>3
    <3> QED
      BY <3>1, <3>2
  <2>8. ASSUME NEW m \in InUse(V), NEW j \in InUse(V), m # j PROVE Parted(Item(U, V[m]), Item(U, V[j]))
    <3>1. CASE h[m] = 0 /\ h[j] = 0
      BY <1>12, <1>14, <2>8, <3>1 DEF Apart
    <3>2. CASE h[m] = 0 /\ h[j] # 0
      <4>1. m \in InUse(W) /\ Item(U, V[m]) = Item(T, W[m])
        BY <1>12, <3>2
      <4>2. Item(U, V[j]) = Append(w, e(h[j] + 1)) /\ h[j] + 1 \in 1 .. Len(next[tip])
        BY <1>12, <2>4, <3>2
      <4> QED
        BY <2>2, <2>3, <4>1, <4>2
    <3>3. CASE h[m] # 0 /\ h[j] = 0
      <4>1. j \in InUse(W) /\ Item(U, V[j]) = Item(T, W[j])
        BY <1>12, <3>3
      <4>2. Item(U, V[m]) = Append(w, e(h[m] + 1)) /\ h[m] + 1 \in 1 .. Len(next[tip])
        BY <1>12, <2>4, <3>3
      <4> QED
        BY <2>2, <2>3, <4>1, <4>2
    <3>4. CASE h[m] # 0 /\ h[j] # 0
      <4>1. Item(U, V[m]) = Append(w, e(h[m] + 1)) /\ h[m] + 1 \in 1 .. Len(next[tip])
        BY <1>12, <2>4, <3>4
      <4>2. Item(U, V[j]) = Append(w, e(h[j] + 1)) /\ h[j] + 1 \in 1 .. Len(next[tip])
        BY <1>12, <2>4, <3>4
      <4>3. h[m] # h[j]
        BY <2>8, <3>4 DEF Waits, InUse
      <4>4. h[m] \in Nat /\ h[j] \in Nat
        <5>1. m \in Mid /\ j \in Mid
          BY DEF InUse
        <5>2. \A x \in 0 .. Len(Tail(next[tip])) : x \in Nat
          OBVIOUS
        <5>3. h[m] \in 0 .. Len(Tail(next[tip])) /\ h[j] \in 0 .. Len(Tail(next[tip]))
          BY <5>1 DEF Waits
        <5> QED
          BY <5>2, <5>3
      <4>5. h[m] + 1 # h[j] + 1
        BY <4>3, <4>4
      <4> QED
        BY <2>1, <4>1, <4>2, <4>5
    <3> QED
      BY <3>1, <3>2, <3>3, <3>4
  <2> QED
    BY <2>6, <2>7, <2>8 DEF Apart
<1>15. SameWays(T, U, k - 1)
  BY <1>8 DEF SameWays
<1>16. ASSUME NEW l \in 1 .. Len(next[tip]), l # 1, Vacant(V) # {}
       PROVE  \E m \in InUse(V) : Item(U, V[m]) = Append(w, e(l))
  <2>1. l - 1 \in 1 .. Len(Tail(next[tip])) /\ l - 1 # 0 /\ (l - 1) + 1 = l /\ l \in 1 .. Len(next[tip])
    BY SMTT(40), <1>4, <1>5, <1>16
  <2>2. PICK m \in Mid : h[m] = l - 1
    BY <1>16, <2>1 DEF Waits
  <2>3. V[m].node = Tail(next[tip])[l - 1]
    BY <2>1, <2>2 DEF Waits
  <2>4. V[m].node = e(l)
    <3>1. l - 1 \in 1 .. Len(next[tip]) - 1
      BY <1>5, <2>1
    <3> HIDE DEF e
    <3> QED
      BY <1>5, <2>1, <2>3, <3>1
  <2>5. e(l) # 0
    <3>1. e(l) \in 1 .. Len(next)
      BY <1>4
    <3> HIDE DEF e
    <3> QED
      BY <3>1
  <2>6. m \in InUse(V) /\ h[m] # 0 /\ h[m] + 1 = l
    BY <2>1, <2>2, <2>4, <2>5 DEF InUse
  <2> HIDE DEF e
  <2> QED
    BY <1>12, <2>6
<1>17. ASSUME Vacant(V) # {}, Covers(T, k, W, next) PROVE Covers(U, k, V, next)
  <2>1. ASSUME NEW t, EndWalk(next, t) \/ LoopWalk(next, t)
        PROVE  (\E p \in 1 .. k : Begins(Traces(U)[p], t)) \/ \E m \in InUse(V) : Begins(Item(U, V[m]), t)
    <3>1. CASE \E p \in 1 .. k - 1 : Begins(Traces(T)[p], t)
      <4>1. PICK p \in 1 .. k - 1 : Begins(Traces(T)[p], t)
        BY <3>1
      <4>2. p \in 1 .. k /\ Traces(U)[p] = Traces(T)[p]
        BY <1>1, <1>8
      <4> QED
        BY <4>1, <4>2
    <3>2. CASE Begins(w, t)
      <4>1. PICK l \in 1 .. Len(next[tip]) : Begins(Append(w, e(l)), t)
        <5>1. OnceTo(w, Len(w)) /\ tip = w[Len(w)] /\ next[tip] # <<>>
          BY DEF Onward
        <5>2. \E l \in 1 .. Len(next[w[Len(w)]]) : Begins(Append(w, next[w[Len(w)]][l]), t)
          BY <1>2, <1>3, <2>1, <3>2, <5>1, BeginsOn
        <5> QED
          BY <5>1, <5>2
      <4>2. CASE l = 1
        BY <1>1, <1>8, <4>1, <4>2
      <4>3. CASE l # 1
        <5>1. PICK m \in InUse(V) : Item(U, V[m]) = Append(w, e(l))
          BY <1>16, <1>17, <4>3
        <5> HIDE DEF e
        <5> QED
          BY <4>1, <5>1
      <4> QED
        BY <4>2, <4>3
    <3>3. CASE \E m \in InUse(W) : Begins(Item(T, W[m]), t)
      <4>1. PICK m \in InUse(W) : Begins(Item(T, W[m]), t)
        BY <3>3
      <4>2. m \in Mid /\ W[m].node # 0
        BY DEF InUse
      <4>3. h[m] = 0
        BY <4>2 DEF Waits
      <4>4. V[m] = W[m]
        BY <4>2, <4>3 DEF Waits
      <4>5. m \in InUse(V)
        BY <4>2, <4>4 DEF InUse
      <4>6. Item(U, V[m]) = Item(T, W[m])
        BY <1>12, <4>3, <4>5
      <4> QED
        BY <4>1, <4>5, <4>6
    <3>4. \A p \in 1 .. k : p \in 1 .. k - 1 \/ (p = k /\ Traces(T)[p] = w)
      BY <1>0, <1>1
    <3>5. (\E p \in 1 .. k : Begins(Traces(T)[p], t)) \/ \E m \in InUse(W) : Begins(Item(T, W[m]), t)
      BY <1>17, <2>1 DEF Covers
    <3> QED
      BY <3>1, <3>2, <3>3, <3>4, <3>5
  <2> QED
    BY <2>1 DEF Covers
<1> QED
  BY <1>11, <1>13, <1>14, <1>15, <1>17

-----------------------------------------------------------------------------
(* node_mid_start_add *)

Entry(n) == [node : 0 .. n, path : Nat, step : Nat]

\* What one link does to the entries.
Placed(w, e) == IF Vacant(w) = {} THEN w ELSE [w EXCEPT ![Min(Vacant(w))] = e]

LEMMA MidIs == MidStarts \in Nat \ {0} /\ Mid \in SUBSET Nat
BY PathsAssumption DEF Mid

LEMMA MinIs == ASSUME NEW S \in SUBSET Nat, S # {} PROVE Min(S) \in S
<1>1. \E m \in S : \A k \in S : m <= k
  BY Least
<1> QED
  BY <1>1 DEF Min

LEMMA PlacedIs ==
  ASSUME NEW n, NEW w \in [Mid -> Entry(n)], NEW e \in Entry(n)
  PROVE  /\ Placed(w, e) \in [Mid -> Entry(n)]
         /\ \/ Placed(w, e) = w /\ Vacant(w) = {}
            \/ \E m \in Mid : w[m].node = 0 /\ Placed(w, e)[m] = e /\ \A j \in Mid \ {m} : Placed(w, e)[j] = w[j]
<1>1. CASE Vacant(w) = {}
  BY <1>1 DEF Placed
<1>2. CASE Vacant(w) # {}
  <2>1. Vacant(w) \in SUBSET Nat
    BY MidIs DEF Vacant
  <2>2. PICK m : m = Min(Vacant(w))
    OBVIOUS
  <2>3. m \in Mid /\ w[m].node = 0
    BY <1>2, <2>1, <2>2, MinIs DEF Vacant
  <2>4. Placed(w, e) = [w EXCEPT ![m] = e]
    BY <1>2, <2>2 DEF Placed
  <2> QED
    BY <2>3, <2>4
<1> QED
  BY <1>1, <1>2

\* What waits for link l, and the entries when m links have been placed.
Out(links, k, s, l) == [node |-> links[l], path |-> k, step |-> s]
After(w, links, k, s, f, m) ==
  f = [l \in 0 .. m |-> IF l = 0 THEN w
                        ELSE Placed(f[l - 1], Out(links, k, s, l))]

LEMMA AfterStep ==
  ASSUME NEW w, NEW links, NEW k, NEW s, NEW m \in Nat, NEW f, After(w, links, k, s, f, m)
  PROVE  /\ f[0] = w
         /\ \A l \in 1 .. m : f[l] = Placed(f[l - 1], Out(links, k, s, l))
<1> DEFINE E(l) == Out(links, k, s, l)
<1>1. f = [l \in 0 .. m |-> IF l = 0 THEN w ELSE Placed(f[l - 1], E(l))]
  BY DEF After
<1>2. 0 \in 0 .. m /\ \A l \in 1 .. m : l \in 0 .. m /\ l # 0
  OBVIOUS
<1> HIDE DEF E
<1>3. f[0] = w
  BY <1>1, <1>2
<1>4. \A l \in 1 .. m : f[l] = Placed(f[l - 1], E(l))
  BY <1>1, <1>2
<1> QED
  BY <1>3, <1>4 DEF E

LEMMA AfterExists ==
  ASSUME NEW w, NEW links, NEW k, NEW s, NEW n \in Nat
  PROVE  \E f : After(w, links, k, s, f, n)
<1> DEFINE Good == {m \in 0 .. n : \E f : After(w, links, k, s, f, m)}
           E(l) == Out(links, k, s, l)
<1>1. 0 \in Good
  <2> DEFINE f == [l \in 0 .. 0 |-> w]
  <2>1. f = [l \in 0 .. 0 |-> IF l = 0 THEN w ELSE Placed(f[l - 1], E(l))]
    OBVIOUS
  <2> HIDE DEF f
  <2>2. After(w, links, k, s, f, 0)
    BY <2>1 DEF After
  <2> QED
    BY <2>2
<1>2. ASSUME NEW m \in 0 .. n, m \in Good, m + 1 <= n PROVE m + 1 \in Good
  <2>1. PICK f : After(w, links, k, s, f, m)
    BY <1>2
  <2>2. m \in Nat /\ m + 1 \in 0 .. n
    BY <1>2
  <2>3. f[0] = w /\ \A l \in 1 .. m : f[l] = Placed(f[l - 1], E(l))
    BY <2>1, <2>2, AfterStep
  <2> DEFINE h == [l \in 0 .. m + 1 |-> IF l \in 0 .. m THEN f[l] ELSE Placed(f[m], E(m + 1))]
  <2>4. /\ \A l \in 0 .. m : h[l] = f[l]
        /\ h[m + 1] = Placed(f[m], E(m + 1)) /\ h = [l \in 0 .. m + 1 |-> h[l]]
    BY <2>2
  <2> HIDE DEF h
  <2>5. ASSUME NEW l \in 0 .. m + 1 PROVE h[l] = IF l = 0 THEN w ELSE Placed(h[l - 1], E(l))
    <3>1. CASE l = 0
      BY <2>2, <2>3, <2>4, <3>1
    <3>2. CASE l \in 1 .. m
      <4>1. l \in 0 .. m /\ l - 1 \in 0 .. m /\ l # 0
        BY <2>2, <3>2
      <4> HIDE DEF E
      <4> QED
        BY <2>3, <2>4, <3>2, <4>1
    <3>3. CASE l = m + 1
      <4>1. m \in 0 .. m /\ l # 0 /\ l - 1 = m
        BY <2>2, <3>3
      <4> HIDE DEF E
      <4> QED
        BY <2>4, <3>3, <4>1
    <3> QED
      BY <2>2, <3>1, <3>2, <3>3
  <2>6. After(w, links, k, s, h, m + 1)
    <3>1. h = [l \in 0 .. m + 1 |-> IF l = 0 THEN w ELSE Placed(h[l - 1], E(l))]
      <4> HIDE DEF E
      <4> QED
        BY <2>4, <2>5
    <3> QED
      BY <3>1 DEF After
  <2> QED
    BY <2>2, <2>6
<1>3. \A m \in 0 .. n : m \in Good
  <2> HIDE DEF Good
  <2> QED
    BY <1>1, <1>2, Climbing
<1> QED
  BY <1>3

LEMMA Placing ==
  ASSUME NEW n \in Nat, NEW w \in [Mid -> Entry(n)], NEW links \in Seq(1 .. n), NEW k \in Nat, NEW s \in Nat,
         NEW f, After(w, links, k, s, f, Len(links))
  PROVE  /\ f[Len(links)] \in [Mid -> Entry(n)]
         /\ \E h : Waits(w, f[Len(links)], h, links, k, s)
<1> DEFINE E(l) == Out(links, k, s, l)
           P(h, l, v) ==
             /\ h \in [Mid -> 0 .. l]
             /\ \A m \in Mid : h[m] = 0 => v[m] = w[m]
             /\ \A m \in Mid : h[m] # 0 => w[m].node = 0 /\ v[m] = E(h[m])
             /\ \A m, j \in Mid : h[m] # 0 /\ h[m] = h[j] => m = j
             /\ Vacant(v) # {} => \A c \in 1 .. l : \E m \in Mid : h[m] = c
           Good == {l \in 0 .. Len(links) : f[l] \in [Mid -> Entry(n)] /\ \E h : P(h, l, f[l])}
<1>1. Len(links) \in Nat /\ \A l \in 1 .. Len(links) : links[l] \in 1 .. n
  BY LenProperties, ElementOfSeq
<1>2. /\ f[0] = w
      /\ \A l \in 1 .. Len(links) : f[l] = Placed(f[l - 1], E(l))
  <2>1. PICK m : m = Len(links)
    OBVIOUS
  <2>2. f = [l \in 0 .. m |-> IF l = 0 THEN w ELSE Placed(f[l - 1], E(l))]
    BY <2>1 DEF After
  <2>3. m \in Nat /\ 0 \in 0 .. m /\ \A l \in 1 .. m : l \in 0 .. m /\ l # 0
    BY <1>1, <2>1
  <2> HIDE DEF E
  <2>4. f[0] = w /\ \A l \in 1 .. m : f[l] = Placed(f[l - 1], E(l))
    BY <2>2, <2>3
  <2> QED
    BY <2>1, <2>4
<1>3. 0 \in Good
  <2> DEFINE h == [m \in Mid |-> 0]
  <2>1. P(h, 0, f[0])
    BY <1>2
  <2> HIDE DEF P, h
  <2> QED
    BY <1>1, <1>2, <2>1
<1>4. ASSUME NEW l \in 0 .. Len(links), l \in Good, l + 1 <= Len(links) PROVE l + 1 \in Good
  <2>1. PICK h : P(h, l, f[l])
    BY <1>4
  <2>2. PICK v, u, e : v = f[l] /\ u = f[l + 1] /\ e = E(l + 1)
    OBVIOUS
  <2>3. v \in [Mid -> Entry(n)] /\ l + 1 \in 1 .. Len(links) /\ l \in Nat /\ l + 1 \in 0 .. Len(links)
        /\ (l + 1) - 1 = l
    BY <1>1, <1>4, <2>2
  <2>4. e \in Entry(n) /\ e.node # 0
    BY <1>1, <2>2, <2>3 DEF Entry, Out
  <2>5. u = Placed(v, e)
    <3> HIDE DEF E
    <3> QED
      BY <1>2, <2>2, <2>3
  <2>6. u \in [Mid -> Entry(n)]
        /\ \/ u = v /\ Vacant(v) = {}
           \/ \E m \in Mid : v[m].node = 0 /\ u[m] = e /\ \A j \in Mid \ {m} : u[j] = v[j]
    <3>1. v \in [Mid -> Entry(n)] /\ e \in Entry(n)
      BY <2>3, <2>4
    <3>2. /\ Placed(v, e) \in [Mid -> Entry(n)]
          /\ \/ Placed(v, e) = v /\ Vacant(v) = {}
             \/ \E m \in Mid : v[m].node = 0 /\ Placed(v, e)[m] = e /\ \A j \in Mid \ {m} : Placed(v, e)[j] = v[j]
      BY <3>1, PlacedIs
    <3> QED
      BY <2>5, <3>2
  <2>7. \A m \in Mid : h[m] \in 0 .. l /\ h[m] \in 0 .. l + 1
    BY <2>1, <2>3
  <2>8. CASE u = v /\ Vacant(v) = {}
    <3>1. P(h, l + 1, u)
      BY <2>1, <2>2, <2>7, <2>8
    <3> HIDE DEF P
    <3> QED
      BY <2>2, <2>3, <2>6, <3>1
  <2>9. CASE \E m \in Mid : v[m].node = 0 /\ u[m] = e /\ \A j \in Mid \ {m} : u[j] = v[j]
    <3>1. PICK m \in Mid : v[m].node = 0 /\ u[m] = e /\ \A j \in Mid \ {m} : u[j] = v[j]
      BY <2>9
    <3> DEFINE d == [j \in Mid |-> IF j = m THEN l + 1 ELSE h[j]]
    <3>2. h[m] = 0
      <4>1. ASSUME h[m] # 0 PROVE FALSE
        <5>1. v[m] = E(h[m]) /\ h[m] \in 1 .. Len(links)
          BY SMTT(40), <1>1, <1>4, <2>1, <2>2, <2>7, <4>1
        <5>2. v[m].node = links[h[m]]
          BY <5>1 DEF Out
        <5>3. links[h[m]] # 0
          BY <1>1, <5>1
        <5> QED
          BY <3>1, <5>2, <5>3
      <4> QED
        BY <4>1
    <3>3. w[m].node = 0
      BY <2>1, <2>2, <3>1, <3>2
    <3>4. d[m] = l + 1 /\ \A j \in Mid \ {m} : d[j] = h[j]
      OBVIOUS
    <3>5. d \in [Mid -> 0 .. l + 1]
      BY <2>3, <2>7
    <3>6. l + 1 # 0 /\ \A j \in Mid : h[j] # l + 1
      BY <2>3, <2>7
    <3> HIDE DEF d
    <3>7. \A j \in Mid : d[j] = 0 => u[j] = w[j]
      BY SMTT(40), <2>1, <2>2, <3>1, <3>4, <3>6
    <3>8. \A j \in Mid : d[j] # 0 => w[j].node = 0 /\ u[j] = E(d[j])
      <4>1. ASSUME NEW j \in Mid, d[j] # 0 PROVE w[j].node = 0 /\ u[j] = E(d[j])
        <5>1. CASE j = m
          <6>1. d[j] = l + 1 /\ u[j] = e
            BY <3>1, <3>4, <5>1
          <6> QED
            BY <2>2, <3>3, <5>1, <6>1
        <5>2. CASE j # m
          <6>1. h[j] # 0 /\ d[j] = h[j] /\ u[j] = v[j]
            BY <3>1, <3>4, <4>1, <5>2
          <6>2. w[j].node = 0 /\ v[j] = E(h[j])
            BY <2>1, <2>2, <6>1
          <6> QED
            BY <6>1, <6>2
        <5> QED
          BY <5>1, <5>2
      <4> QED
        BY <4>1
    <3>9. \A i, j \in Mid : d[i] # 0 /\ d[i] = d[j] => i = j
      BY SMTT(40), <2>1, <3>4, <3>6
    <3>11. \A c \in 1 .. l + 1 : \E j \in Mid : d[j] = c
      <4>1. m \in Vacant(v)
        BY <3>1 DEF Vacant
      <4>2. \A c \in 1 .. l : \E j \in Mid : h[j] = c
        BY <2>1, <2>2, <4>1
      <4>3. \A c \in 1 .. l + 1 : c = l + 1 \/ (c \in 1 .. l /\ c # 0)
        BY <2>3
      <4> QED
        BY <3>2, <3>4, <4>2, <4>3
    <3>10. P(d, l + 1, u)
      BY <3>5, <3>7, <3>8, <3>9, <3>11
    <3> HIDE DEF P
    <3> QED
      BY <2>2, <2>3, <2>6, <3>10
  <2> QED
    BY <2>6, <2>8, <2>9
<1>5. Len(links) \in Good
  <2>1. \A l \in 0 .. Len(links) : l \in Good
    <3> HIDE DEF Good
    <3> QED
      BY <1>1, <1>3, <1>4, Climbing
  <2>2. Len(links) \in 0 .. Len(links)
    BY <1>1
  <2> HIDE DEF Good
  <2> QED
    BY <2>1, <2>2
<1>8. f[Len(links)] \in [Mid -> Entry(n)] /\ \E h : P(h, Len(links), f[Len(links)])
  <2> HIDE DEF P
  <2> QED
    BY <1>5
<1>6. PICK h : P(h, Len(links), f[Len(links)])
  BY <1>8
<1>7. Waits(w, f[Len(links)], h, links, k, s)
  <2>1. PICK v, li : v = f[Len(links)] /\ li = links
    OBVIOUS
  <2>2. P(h, Len(li), v)
    BY <1>6, <2>1
  <2>3. \A l : E(l) = Out(li, k, s, l)
    BY <2>1
  <2>4. \A l : E(l).node = li[l] /\ E(l).path = k /\ E(l).step = s
    BY <2>3 DEF Out
  <2>5. \A m \in Mid : h[m] # 0 => v[m].node = li[h[m]] /\ v[m].path = k /\ v[m].step = s
    <3> HIDE DEF E
    <3> QED
      BY <2>2, <2>4
  <2>6. Waits(w, v, h, li, k, s)
    <3> HIDE DEF E
    <3> QED
      BY <2>2, <2>5 DEF Waits
  <2> QED
    BY <2>1, <2>6
<1> HIDE DEF P, Good
<1> QED
  BY <1>7, <1>8

LEMMA QueuedIs ==
  ASSUME NEW n \in Nat, waiting \in [Mid -> Entry(n)], NEW links \in Seq(1 .. n), NEW s \in Nat, path \in Nat
  PROVE  /\ Queued(links, s) \in [Mid -> Entry(n)]
         /\ \E h : Waits(waiting, Queued(links, s), h, links, path, s)
<1> DEFINE f == CHOOSE f : After(waiting, links, path, s, f, Len(links))
<1>1. Queued(links, s) = f[Len(links)]
  BY Zenon DEF Queued, After, Placed, Out
<1>2. Len(links) \in Nat
  BY LenProperties
<1>3. After(waiting, links, path, s, f, Len(links))
  BY <1>2, AfterExists
<1>4. PICK w, k, ff : w = waiting /\ k = path /\ ff = f
  OBVIOUS
<1> HIDE DEF f
<1>5. /\ ff[Len(links)] \in [Mid -> Entry(n)]
      /\ \E h : Waits(w, ff[Len(links)], h, links, k, s)
  <2>1. w \in [Mid -> Entry(n)] /\ k \in Nat /\ After(w, links, k, s, ff, Len(links))
    BY <1>3, <1>4
  <2> QED
    BY <2>1, Placing
<1> QED
  BY <1>1, <1>4, <1>5

-----------------------------------------------------------------------------
(* path_loop_check, analyse_multi_ret and analyse_merge_nodes *)

\* The look back over the path is long enough to find every loop.
LEMMA LoopCheck ==
  ASSUME IsNext(g.next), NEW t, Underway(g.next, t)
  PROVE  /\ SeenBefore(t) => LoopWalk(g.next, t)
         /\ ~SeenBefore(t) => OnceTo(t, Len(t))
         /\ ~LimitReached(t)
<1>1. PICK next : next = g.next
  OBVIOUS
<1>2. /\ IsNext(next) /\ Walks(next, t) /\ Len(t) \in Nat \ {0} /\ Len(next) \in Nat
      /\ OnceTo(t, Len(t) - 1) /\ Underway(next, t)
  BY <1>1, UnderwayIs DEF Underway
<1>3. Limit = Len(next) + 1
  <2>1. Cardinality(DOMAIN next) = Len(next)
    BY <1>2, NextIs
  <2> QED
    BY <1>1, <2>1 DEF Limit, Node
<1>4. Len(t) - 1 <= Len(next)
  <2>1. Len(t) - 1 \in 0 .. Len(t)
    BY <1>2
  <2> QED
    BY <1>2, <2>1, WalksShort
<1>5. SeenBefore(t) <=> \E k \in 1 .. Len(next) + 1 : k < Len(t) /\ t[Len(t) - k] = t[Len(t)]
  BY <1>3 DEF SeenBefore, Last
<1>6. PICK n, d : n = Len(next) /\ d = Len(t)
  OBVIOUS
<1>7. n \in Nat /\ d \in Nat \ {0} /\ d - 1 <= n /\ OnceTo(t, d - 1)
      /\ (SeenBefore(t) <=> \E k \in 1 .. n + 1 : k < d /\ t[d - k] = t[d])
  BY <1>2, <1>4, <1>5, <1>6
<1>8. ASSUME SeenBefore(t) PROVE LoopWalk(next, t)
  <2>1. PICK k \in 1 .. n + 1 : k < d /\ t[d - k] = t[d]
    BY <1>7, <1>8
  <2>2. d - k \in 1 .. d - 1
    BY <1>7, <2>1
  <2>3. \E j \in 1 .. Len(t) - 1 : t[j] = t[Len(t)]
    BY <1>6, <2>1, <2>2
  <2> QED
    BY <1>2, <2>3 DEF LoopWalk
<1>9. ASSUME ~SeenBefore(t) PROVE OnceTo(t, Len(t))
  <2>1. ASSUME NEW i \in 1 .. d - 1 PROVE t[i] # t[d]
    <3>1. d - i \in 1 .. n + 1 /\ d - i < d /\ d - (d - i) = i
      BY <1>7
    <3> QED
      BY <1>7, <1>9, <3>1
  <2>2. \A i \in 1 .. d : i = d \/ i \in 1 .. d - 1
    BY <1>7
  <2>3. \A i, j \in 1 .. d : t[i] = t[j] => i = j
    BY <1>7, <2>1, <2>2 DEF OnceTo
  <2> QED
    BY <1>6, <2>3 DEF OnceTo
<1>10. ~LimitReached(t)
  BY <1>2, <1>3, <1>4 DEF LimitReached
<1> QED
  BY <1>1, <1>8, <1>9, <1>10

\* The m-th path of a set is one of the set, and m of the set are not behind it.
LEMMA InOrderAt ==
  ASSUME NEW n \in Nat, NEW S \in SUBSET (1 .. n)
  PROVE  /\ Cardinality(S) \in Nat /\ DOMAIN InOrder(S) = 1 .. Cardinality(S)
         /\ \A m \in 1 .. Cardinality(S) :
              InOrder(S)[m] \in S /\ Cardinality({q \in S : q <= InOrder(S)[m]}) = m
<1> DEFINE To(x) == {y \in S : y <= x}
           c == Cardinality(S)
           f == [x \in S |-> Cardinality(To(x))]
<1>1. IsFiniteSet(1 .. n)
  BY FS_Interval
<1>2. IsFiniteSet(S) /\ c \in Nat
  BY <1>1, FS_Subset, FS_CardinalityType
<1>3. ASSUME NEW x \in S PROVE IsFiniteSet(To(x)) /\ Cardinality(To(x)) \in 1 .. c
  <2>1. To(x) \in SUBSET S /\ x \in To(x)
    OBVIOUS
  <2>2. PICK A : A = To(x)
    OBVIOUS
  <2>3. IsFiniteSet(A) /\ Cardinality(A) <= c /\ Cardinality(A) \in Nat
    BY <1>2, <2>1, <2>2, FS_Subset, FS_CardinalityType
  <2>4. Cardinality(A) # 0
    BY <2>1, <2>2, <2>3, FS_EmptySet
  <2> QED
    BY <1>2, <2>2, <2>3, <2>4
<1>4. ASSUME NEW x \in S, NEW y \in S, x < y PROVE Cardinality(To(x)) # Cardinality(To(y))
  <2>1. PICK A, B : A = To(x) /\ B = To(y)
    OBVIOUS
  <2>2. x \in Nat /\ y \in Nat /\ \A z \in S : z \in Nat
    <3>1. \A z \in 1 .. n : z \in Nat
      OBVIOUS
    <3> QED
      BY <3>1
  <2>3. \A z \in A : z \in B
    <3>1. ASSUME NEW z \in S, z <= x PROVE z <= y
      BY <1>4, <2>2, <3>1
    <3> QED
      BY <2>1, <3>1
  <2>4. y \in B /\ y \notin A
    BY <1>4, <2>1, <2>2
  <2>6. A \in SUBSET B
    BY <2>3
  <2>5. Cardinality(A) # Cardinality(B)
    <3>1. IsFiniteSet(B)
      BY <1>3, <2>1
    <3> QED
      BY <2>4, <2>6, <3>1, FS_Subset
  <2> QED
    BY <2>1, <2>5
<1>5. f \in Injection(S, 1 .. c)
  <2>1. f \in [S -> 1 .. c]
    BY <1>3
  <2>2. ASSUME NEW x \in S, NEW y \in S, x # y PROVE f[x] # f[y]
    <3>1. x < y \/ y < x
      BY <2>2
    <3>2. f[x] = Cardinality(To(x)) /\ f[y] = Cardinality(To(y))
      OBVIOUS
    <3> HIDE DEF f, To
    <3> QED
      BY <1>4, <3>1, <3>2
  <2> HIDE DEF f
  <2> QED
    BY <2>1, <2>2 DEF Injection, IsInjective
<1>6. f \in Surjection(S, 1 .. c)
  <2>1. IsFiniteSet(1 .. c) /\ Cardinality(1 .. c) = c
    BY <1>2, FS_Interval
  <2> HIDE DEF f
  <2> QED
    BY <1>5, <2>1, FS_Injection
<1>7. ASSUME NEW m \in 1 .. c PROVE \E p \in S : Cardinality({q \in S : q <= p}) = m
  <2>1. \E p \in S : f[p] = m
    <3> HIDE DEF f
    <3> QED
      BY <1>6, <1>7 DEF Surjection
  <2> QED
    BY <2>1
<1>8. ASSUME NEW m \in 1 .. c
      PROVE  InOrder(S)[m] \in S /\ Cardinality({q \in S : q <= InOrder(S)[m]}) = m
  <2>1. InOrder(S)[m] = CHOOSE p \in S : Cardinality({q \in S : q <= p}) = m
    BY <1>8 DEF InOrder
  <2> QED
    BY <1>7, <2>1
<1> QED
  BY <1>2, <1>8 DEF InOrder

LEMMA InOrderIn ==
  ASSUME NEW n \in Nat, NEW S \in SUBSET (1 .. n)
  PROVE  /\ Cardinality(S) \in Nat /\ DOMAIN InOrder(S) = 1 .. Cardinality(S)
         /\ \A m \in 1 .. Cardinality(S) : InOrder(S)[m] \in S
BY InOrderAt

LEMMA LenIs ==
  ASSUME NEW S, NEW n \in Nat, NEW s \in [1 .. n -> S] PROVE s \in Seq(S) /\ Len(s) = n
<1>1. s \in Seq(S)
  BY SeqDef
<1>2. DOMAIN s = 1 .. Len(s) /\ Len(s) \in Nat /\ DOMAIN s = 1 .. n
  BY <1>1, LenProperties
<1>3. Len(s) = n
  <2>1. Len(s) <= n
    <3>1. CASE Len(s) = 0
      BY <3>1
    <3>2. CASE Len(s) # 0
      <4>1. Len(s) \in 1 .. n
        BY <1>2, <3>2
      <4> QED
        BY <4>1
    <3> QED
      BY <3>1, <3>2
  <2>2. n <= Len(s)
    <3>1. CASE n = 0
      BY <1>2, <3>1
    <3>2. CASE n # 0
      <4>1. n \in 1 .. Len(s)
        BY <1>2, <3>2
      <4> QED
        BY <4>1
    <3> QED
      BY <3>1, <3>2
  <2> QED
    BY <1>2, <2>1, <2>2
<1> QED
  BY <1>1, <1>3

\* A return is a node that a complete path ends at.
LEMMA ReturnsEnd ==
  ASSUME Len(paths) \in Nat, DOMAIN paths = 1 .. Len(paths), Len(Returns) = 2, Returns # <<>>
  PROVE  \A i \in 1 .. 2 : \E p \in Complete : Returns[i] = EndNode(p)
<1> DEFINE S == {p \in Complete : \A q \in Complete : q < p => EndNode(q) # EndNode(p)}
           found == InOrder(S)
           ends == [m \in DOMAIN found |-> EndNode(found[m])]
           E == {EndNode(p) : p \in Complete}
<1>1. S \in SUBSET (1 .. Len(paths)) /\ S \in SUBSET Complete
  BY DEF Complete
<1>2. PICK c : c = Cardinality(S)
  OBVIOUS
<1> HIDE DEF S
<1>3. c \in Nat /\ DOMAIN found = 1 .. c /\ \A m \in 1 .. c : found[m] \in S
  BY <1>1, <1>2, InOrderIn
<1> HIDE DEF found
<1>4. ends \in [1 .. c -> E]
  BY <1>1, <1>3
<1>5. ends \in Seq(E) /\ Len(ends) = c
  BY <1>3, <1>4, LenIs
<1>6. Returns = IF Len(ends) < 2 THEN <<>> ELSE Append(Tail(ends), Head(ends))
  BY Zenon DEF Returns, S, found
<1> HIDE DEF ends
<1>7. ~(Len(ends) < 2) /\ Returns = Append(Tail(ends), Head(ends))
  BY <1>6
<1>8. ends # <<>>
  BY <1>7, EmptySeq
<1> HIDE DEF E
<1>9. Tail(ends) \in Seq(E) /\ Head(ends) \in E
  BY <1>5, <1>8, HeadTailProperties
<1>10. Returns \in Seq(E)
  BY <1>7, <1>9, AppendProperties
<1>11. ASSUME NEW i \in 1 .. 2 PROVE Returns[i] \in E
  BY <1>10, ElementOfSeq
<1> QED
  BY <1>11 DEF E

\* Merging two returns closes no new loop.
LEMMA MergedLoops ==
  ASSUME NEW old, NEW next, IsNext(old), IsNext(next), Len(next) = Len(old), NEW a, Len(next[a]) = 0,
         \A k \in 1 .. Len(next) : \A l \in 1 .. Len(next[k]) :
           next[k][l] = a \/ (l \in 1 .. Len(old[k]) /\ next[k][l] = old[k][l]),
         NEW t, LoopWalk(next, t)
  PROVE  LoopWalk(old, t)
<1>1. /\ Walks(next, t) /\ Len(t) \in Nat \ {0} /\ OnceTo(t, Len(t) - 1) /\ t \in Seq(1 .. Len(next))
      /\ t # <<>> /\ t[1] = 1
      /\ \A i \in 1 .. Len(t) - 1 : \E l \in 1 .. Len(next[t[i]]) : t[i + 1] = next[t[i]][l]
      /\ \A i \in 1 .. Len(t) : t[i] \in 1 .. Len(next)
  BY WalkIs DEF LoopWalk, Walks
<1>2. PICK j \in 1 .. Len(t) - 1 : t[j] = t[Len(t)]
  BY DEF LoopWalk
<1>3. ASSUME NEW i \in 1 .. Len(t) - 1 PROVE t[i] # a
  <2>1. PICK l \in 1 .. Len(next[t[i]]) : t[i + 1] = next[t[i]][l]
    BY <1>1
  <2>2. Len(next[t[i]]) # 0
    BY <2>1
  <2> QED
    BY <2>2
<1>4. ASSUME NEW i \in 1 .. Len(t) PROVE t[i] # a
  <2>1. i = Len(t) \/ i \in 1 .. Len(t) - 1
    BY <1>1
  <2> QED
    BY <1>2, <1>3, <2>1
<1>5. ASSUME NEW i \in 1 .. Len(t) - 1
      PROVE  \E l \in 1 .. Len(old[t[i]]) : t[i + 1] = old[t[i]][l]
  <2>1. PICK l \in 1 .. Len(next[t[i]]) : t[i + 1] = next[t[i]][l]
    BY <1>1
  <2>2. i \in 1 .. Len(t) /\ i + 1 \in 1 .. Len(t)
    BY <1>1
  <2>3. next[t[i]][l] # a /\ t[i] \in 1 .. Len(next)
    BY <1>1, <1>4, <2>1, <2>2
  <2> QED
    BY <2>1, <2>3
<1>6. Walks(old, t)
  BY <1>1, <1>5 DEF Walks
<1> QED
  BY <1>1, <1>2, <1>6 DEF LoopWalk

-----------------------------------------------------------------------------
(* What holds of the tables while a function is looked at *)

Way(next, t) == EndWalk(next, t) \/ LoopWalk(next, t)
RowType(n) ==
  [nodes : Seq(1 .. n), prev : Nat, step : Nat, type : {"unknown", "loop"}, head : Nat]

\* A way that begins another is that way: it ends the function or is back at a node of its own.
LEMMA WholeWays ==
  ASSUME NEW next, IsNext(next), NEW s, Way(next, s), NEW t, Way(next, t), Begins(s, t)
  PROVE  s = t
<1>1. Walks(next, s) /\ Walks(next, t) /\ OnceTo(t, Len(t) - 1)
  <2>1. Walks(next, t) => Len(t) \in Nat
    BY WalkIs
  <2> QED
    BY <2>1 DEF Way, EndWalk, LoopWalk, OnceTo
<1>2. /\ Len(s) \in Nat \ {0} /\ Len(t) \in Nat \ {0} /\ Len(s) <= Len(t)
      /\ \A i \in 1 .. Len(s) : s[i] = t[i]
  BY <1>1, WalkIs DEF Begins
<1>3. Len(s) = Len(t)
  <2> SUFFICES ASSUME Len(s) # Len(t) PROVE FALSE
    OBVIOUS
  <2>1. Len(s) \in 1 .. Len(t) - 1 /\ Len(s) \in 1 .. Len(s) /\ s[Len(s)] = t[Len(s)]
    BY <1>2
  <2>2. CASE EndWalk(next, s)
    <3>1. PICK l \in 1 .. Len(next[t[Len(s)]]) : TRUE
      BY <1>1, <2>1 DEF Walks
    <3>2. next[t[Len(s)]] = <<>>
      BY <2>1, <2>2 DEF EndWalk
    <3>3. Len(next[t[Len(s)]]) = 0
      BY <3>2, EmptySeq
    <3> QED
      BY <3>1, <3>3
  <2>3. CASE LoopWalk(next, s)
    <3>1. PICK j \in 1 .. Len(s) - 1 : s[j] = s[Len(s)]
      BY <2>3 DEF LoopWalk
    <3>2. j \in 1 .. Len(s) /\ j \in 1 .. Len(t) - 1 /\ j # Len(s)
      BY <1>2, <3>1
    <3>3. t[j] = t[Len(s)]
      BY <1>2, <2>1, <3>1, <3>2
    <3> QED
      BY <1>1, <2>1, <3>2, <3>3 DEF OnceTo
  <2> QED
    BY <2>2, <2>3 DEF Way
<1>4. s \in Seq(1 .. Len(next)) /\ t \in Seq(1 .. Len(next))
  BY <1>1 DEF Walks
<1> QED
  BY <1>2, <1>3, <1>4, SeqEqual

\* The rows and entries of the build, k rows of which are begun and d complete.
Typed(T, W, next) == IsNext(next) /\ T \in Seq(RowType(Len(next))) /\ W \in [Mid -> Entry(Len(next))]
Listed(T, W, next, k, d) ==
  /\ Rows(T, k, next)
  /\ \A p \in 1 .. d : Way(next, Traces(T)[p])
  /\ k = 0 => W = Start
  /\ k # 0 => Ready(T, k, W, next)

\* Loop heads are where links back lead, and no loop is new.
BackTo(old, h) == \E lk \in BackLinks(old) : Target(old, lk) = h
HeadsBack(T, old) == \A p \in 1 .. Len(T) : T[p].head # 0 => BackTo(old, T[p].head)
NoNewLoop(next, old) == IsNext(old) /\ \A t : LoopWalk(next, t) => LoopWalk(old, t)
KeepsHeads(T, U) == \A old : HeadsBack(T, old) => HeadsBack(U, old)

\* In the first build, every row is of this build and every way is there once.
Once(T, W, next, k, d) ==
  /\ Len(T) = k /\ (k # 0 => Apart(T, k, W))
  /\ \A p \in 1 .. d : T[p].head = 0 => EndWalk(next, Traces(T)[p])

\* Every way is a row or can become one, of the rows and the entries; and the rows are marked
\* as the ways they are, but for the one under construction.
Whole(T, W, next, k) == k # 0 => Covers(T, k, W, next)
Marked(next, r, t) ==
  IF LoopWalk(next, t) THEN r.type = "loop" /\ r.head = t[Len(t)] ELSE r.type = "unknown" /\ r.head = 0
Marks(T, next, k, d) ==
  /\ \A p \in 1 .. d : Marked(next, T[p], Traces(T)[p])
  /\ k # d => T[k].type = "unknown" /\ T[k].head = 0

LEMMA RowsTyped ==
  ASSUME NEW T, NEW W, NEW next, Typed(T, W, next)
  PROVE  /\ Len(T) \in Nat /\ DOMAIN T = 1 .. Len(T) /\ Len(next) \in Nat \ {0}
         /\ \A p \in 1 .. Len(T) : T[p] \in RowType(Len(next))
         /\ \A m \in Mid : W[m] \in Entry(Len(next))
<1>1. T \in Seq(RowType(Len(next))) /\ W \in [Mid -> Entry(Len(next))] /\ Len(next) \in Nat \ {0}
  BY NextIs DEF Typed
<1>2. Len(T) \in Nat /\ DOMAIN T = 1 .. Len(T)
  BY <1>1, LenProperties
<1>3. \A p \in 1 .. Len(T) : T[p] \in RowType(Len(next))
  BY <1>1, ElementOfSeq
<1> QED
  BY <1>1, <1>2, <1>3

\* What TakeMid does to the rows: row p begins with the node of an entry.
Older(T, p) == IF p <= Len(T) THEN T ELSE Append(T, NewPath)
Begun(T, p, e) ==
  [Older(T, p) EXCEPT ![p].nodes = <<e.node>>, ![p].prev = e.path, ![p].step = e.step]

LEMMA BegunIs ==
  ASSUME NEW n \in Nat \ {0}, NEW T \in Seq(RowType(n)), NEW p \in 1 .. Len(T) + 1,
         NEW e \in Entry(n), e.node # 0
  PROVE  /\ Begun(T, p, e) \in Seq(RowType(n))
         /\ Len(Begun(T, p, e)) = (IF p <= Len(T) THEN Len(T) ELSE Len(T) + 1)
         /\ \A i \in 1 .. Len(T) : i # p => Begun(T, p, e)[i] = T[i]
         /\ Begun(T, p, e)[p].nodes = <<e.node>> /\ Begun(T, p, e)[p].prev = e.path
         /\ Begun(T, p, e)[p].step = e.step
         /\ Begun(T, p, e)[p].head = IF p <= Len(T) THEN T[p].head ELSE 0
         /\ Begun(T, p, e)[p].type = IF p <= Len(T) THEN T[p].type ELSE "unknown"
<1> DEFINE O == Older(T, p)  R == RowType(n)
<1>1. NewPath \in R
  <2>1. <<>> \in Seq(1 .. n)
    BY EmptySeq
  <2> QED
    BY <2>1 DEF NewPath, RowType
<1>2. Len(T) \in Nat /\ p \in Nat
  BY LenProperties
<1>3. /\ O \in Seq(R) /\ Len(O) = (IF p <= Len(T) THEN Len(T) ELSE Len(T) + 1)
      /\ \A i \in 1 .. Len(T) : O[i] = T[i]
      /\ O[p] = IF p <= Len(T) THEN T[p] ELSE NewPath
  <2>1. CASE p <= Len(T)
    BY <2>1 DEF Older
  <2>2. CASE ~(p <= Len(T))
    <3>1. O = Append(T, NewPath) /\ p = Len(T) + 1
      BY <1>2, <2>2 DEF Older
    <3> HIDE DEF R, O
    <3>2. T \in Seq(R)
      BY DEF R
    <3> QED
      BY <1>1, <2>2, <3>1, <3>2, AppendProperties
  <2> QED
    BY <2>1, <2>2
<1> HIDE DEF O
<1>4. p \in 1 .. Len(O)
  BY <1>2, <1>3
<1>5. PICK r : r = [O[p] EXCEPT !.nodes = <<e.node>>, !.prev = e.path, !.step = e.step]
  OBVIOUS
<1>6. Begun(T, p, e) = [O EXCEPT ![p] = r]
  BY <1>3, <1>4, <1>5, LenProperties DEF Begun, O
<1>7. O[p] \in R
  BY <1>3, <1>4, ElementOfSeq
<1>8. /\ r \in R /\ r.nodes = <<e.node>> /\ r.prev = e.path /\ r.step = e.step /\ r.head = O[p].head
      /\ r.type = O[p].type
  <2>1. e.node \in 1 .. n /\ e.path \in Nat /\ e.step \in Nat
    BY DEF Entry
  <2>2. <<e.node>> \in Seq(1 .. n)
    BY <2>1
  <2> QED
    BY <1>5, <1>7, <2>1, <2>2 DEF RowType
<1>9. /\ [O EXCEPT ![p] = r] \in Seq(R) /\ Len([O EXCEPT ![p] = r]) = Len(O)
      /\ \A j \in 1 .. Len(O) : [O EXCEPT ![p] = r][j] = IF j = p THEN r ELSE O[j]
  <2> HIDE DEF R
  <2> QED
    BY <1>3, <1>4, <1>8, ExceptSeq
<1>10. PICK U : U = Begun(T, p, e)
  OBVIOUS
<1>11. /\ U \in Seq(R) /\ Len(U) = Len(O) /\ U[p] = r
       /\ \A j \in 1 .. Len(O) : j # p => U[j] = O[j]
  BY <1>4, <1>6, <1>9, <1>10
<1>12. \A i \in 1 .. Len(T) : i \in 1 .. Len(O)
  BY <1>2, <1>3
<1>13. r.head = IF p <= Len(T) THEN T[p].head ELSE 0
  BY <1>3, <1>8 DEF NewPath
<1>14. r.type = IF p <= Len(T) THEN T[p].type ELSE "unknown"
  BY <1>3, <1>8 DEF NewPath
<1> QED
  BY <1>3, <1>8, <1>10, <1>11, <1>12, <1>13, <1>14

LEMMA TableIs ==
  ASSUME NEW T, NEW W, NEW next, Typed(T, W, next),
         \A p \in 1 .. Len(T) : T[p].nodes # <<>> /\ T[p].prev \in 1 .. p
  PROVE  Table(T, Len(next))
<1>1. /\ Len(T) \in Nat /\ DOMAIN T = 1 .. Len(T)
      /\ \A p \in 1 .. Len(T) : T[p] \in RowType(Len(next))
  BY RowsTyped
<1>2. \A p \in 1 .. Len(T) : T[p].nodes \in Seq(1 .. Len(next)) /\ T[p].step \in Nat
  BY <1>1 DEF RowType
<1> QED
  BY <1>1, <1>2 DEF Table

LEMMA StartIs ==
  /\ \A n \in Nat \ {0} : Start \in [Mid -> Entry(n)]
  /\ InUse(Start) = {1} /\ Start[1] = [node |-> 1, path |-> 1, step |-> 1] /\ 1 \in Mid
<1>1. 1 \in Mid
  BY MidIs DEF Mid
<1>2. \A n \in Nat \ {0} : FreeMid \in Entry(n) /\ [node |-> 1, path |-> 1, step |-> 1] \in Entry(n)
  BY DEF FreeMid, Entry
<1>3. FreeMid.node = 0
  BY DEF FreeMid
<1> QED
  BY <1>1, <1>2, <1>3 DEF Start, InUse


\* The completeness of the rows is carried over when a row is begun.
Carries(T, W, U, V, next, k, p) ==
  /\ Whole(T, W, next, k) => Whole(U, V, next, p)
  /\ Once(T, W, next, k, k) /\ Marks(T, next, k, k) => Marks(U, next, p, k)

\* TakeMid
LEMMA Taking ==
  ASSUME NEW next, NEW T, NEW W, NEW p \in Nat \ {0}, Typed(T, W, next), Listed(T, W, next, p - 1, p - 1),
         NEW m \in InUse(W), NEW U, U = Begun(T, p, W[m]), NEW V, V = [W EXCEPT ![m].node = 0]
  PROVE  /\ Typed(U, V, next) /\ Listed(U, V, next, p, p - 1)
         /\ Once(T, W, next, p - 1, p - 1) => Once(U, V, next, p, p - 1)
         /\ KeepsHeads(T, U)
         /\ Carries(T, W, U, V, next, p - 1, p)
<1> DEFINE n == Len(next)
<1>1. /\ Len(T) \in Nat /\ n \in Nat \ {0} /\ \A j \in Mid : W[j] \in Entry(n)
      /\ T \in Seq(RowType(n)) /\ W \in [Mid -> Entry(n)] /\ IsNext(next)
  BY RowsTyped DEF Typed
<1>2. Rows(T, p - 1, next) /\ Table(T, n) /\ p - 1 \in 0 .. Len(T) /\ p \in 1 .. Len(T) + 1
  BY <1>1 DEF Listed, Rows
<1>3. m \in Mid /\ W[m].node # 0 /\ W[m] \in Entry(n)
  BY <1>1 DEF InUse
<1>4. V \in [Mid -> Entry(n)] /\ V[m].node = 0 /\ \A j \in Mid \ {m} : V[j] = W[j]
  BY <1>1, <1>3, SMTT(20) DEF Entry
<1>5. /\ U \in Seq(RowType(n)) /\ Len(U) = (IF p <= Len(T) THEN Len(T) ELSE Len(T) + 1)
      /\ \A i \in 1 .. Len(T) : i # p => U[i] = T[i]
      /\ U[p].nodes = <<W[m].node>> /\ U[p].prev = W[m].path /\ U[p].step = W[m].step
      /\ U[p].head = (IF p <= Len(T) THEN T[p].head ELSE 0)
      /\ U[p].type = (IF p <= Len(T) THEN T[p].type ELSE "unknown")
  BY <1>1, <1>2, <1>3, BegunIs
<1>6. Typed(U, V, next)
  BY <1>1, <1>4, <1>5 DEF Typed
<1>7. /\ p \in 1 .. Len(U) /\ p - 1 \in 0 .. Len(T) /\ p - 1 <= Len(U) /\ (p - 1) + 1 = p
      /\ \A i \in 1 .. Len(U) : i = p \/ (i \in 1 .. Len(T) /\ i # p)
      /\ \A i \in 1 .. p - 1 : i \in 1 .. Len(T) /\ i # p
  BY <1>1, <1>2, <1>5
<1>8. W[m].path \in 1 .. p
  <2>1. CASE p = 1
    <3>1. W = Start
      BY <2>1 DEF Listed
    <3> QED
      BY <2>1, <3>1, StartIs
  <2>2. CASE p # 1
    <3>1. W[m].path \in 1 .. p - 1
      BY <2>2 DEF Listed, Ready
    <3> QED
      BY <3>1
  <2> QED
    BY <2>1, <2>2
<1>9. Table(U, n)
  <2>1. ASSUME NEW i \in 1 .. Len(U) PROVE U[i].nodes # <<>> /\ U[i].prev \in 1 .. i
    <3>1. CASE i = p
      <4>1. <<W[m].node>> # <<>>
        OBVIOUS
      <4> QED
        BY <1>5, <1>8, <3>1, <4>1
    <3>2. CASE i # p
      <4>1. i \in 1 .. Len(T) /\ U[i] = T[i]
        BY <1>5, <1>7, <3>2
      <4> QED
        BY <1>2, <4>1 DEF Table
    <3> QED
      BY <3>1, <3>2
  <2> QED
    BY <1>6, <2>1, TableIs
<1>10. \A i \in 1 .. p - 1 : SameRow(T, U, i)
  BY <1>5, <1>7 DEF SameRow
<1>11. /\ Rows(U, p, next) /\ Ready(U, p, V, next)
       /\ (p = 1 \/ Apart(T, p - 1, W)) => Apart(U, p, V)
       /\ (p = 1 \/ Covers(T, p - 1, W, next)) => Covers(U, p, V, next)
       /\ \A i \in 1 .. p - 1 : Traces(U)[i] = Traces(T)[i]
  <2>1. CASE p = 1
    <3>1. W = Start /\ m = 1 /\ W[m] = [node |-> 1, path |-> 1, step |-> 1]
      BY <2>1, StartIs DEF Listed
    <3>2. InUse(V) = {}
      BY <1>4, <3>1, StartIs DEF InUse
    <3>3. U[1].nodes = << 1 >> /\ U[1].prev = 1 /\ 1 <= Len(U)
      BY <1>5, <1>7, <2>1, <3>1
    <3>4. Rows(U, 1, next) /\ Ready(U, 1, V, next) /\ Apart(U, 1, V) /\ Covers(U, 1, V, next)
      BY <1>1, <1>9, <3>2, <3>3, FirstRow
    <3> QED
      BY <2>1, <3>4
  <2>2. CASE p # 1
    <3>1. PICK k : k = p - 1
      OBVIOUS
    <3>2. k \in Nat \ {0} /\ k + 1 = p /\ k + 1 <= Len(U) /\ Ready(T, k, W, next)
      BY <1>7, <2>2, <3>1 DEF Listed
    <3>3. Rows(T, k, next) /\ \A i \in 1 .. k : SameRow(T, U, i)
      BY <1>2, <1>10, <3>1
    <3>4. U[k + 1].nodes = <<W[m].node>> /\ U[k + 1].prev = W[m].path /\ U[k + 1].step = W[m].step
      BY <1>5, <3>2
    <3>5. /\ Rows(U, k + 1, next) /\ Ready(U, k + 1, V, next)
          /\ Apart(T, k, W) => Apart(U, k + 1, V)
          /\ Covers(T, k, W, next) => Covers(U, k + 1, V, next)
          /\ SameWays(T, U, k)
      <4>1. IsNext(next) /\ Table(U, Len(next))
        BY <1>1, <1>9
      <4>2. Takes(T, U, W, V, k, m)
        BY <1>4, <3>2, <3>3, <3>4 DEF Takes
      <4> QED
        BY <3>2, <3>3, <4>1, <4>2, TakenRows
    <3> QED
      BY <2>2, <3>1, <3>2, <3>5 DEF SameWays
  <2> QED
    BY <2>1, <2>2
<1>12. Listed(U, V, next, p, p - 1)
  BY <1>11 DEF Listed
<1>13. ASSUME Once(T, W, next, p - 1, p - 1) PROVE Once(U, V, next, p, p - 1)
  <2>1. Len(T) = p - 1 /\ (p - 1 # 0 => Apart(T, p - 1, W))
    BY <1>13 DEF Once
  <2>2. Len(U) = p
    BY <1>1, <1>5, <2>1
  <2>3. Apart(U, p, V)
    BY <1>11, <2>1
  <2>4. ASSUME NEW i \in 1 .. p - 1, U[i].head = 0 PROVE EndWalk(next, Traces(U)[i])
    <3>1. U[i] = T[i] /\ Traces(U)[i] = Traces(T)[i]
      BY <1>5, <1>7, <1>11
    <3> QED
      BY <1>13, <2>4, <3>1 DEF Once
  <2> QED
    BY <2>2, <2>3, <2>4 DEF Once
<1>14. ASSUME NEW old, HeadsBack(T, old) PROVE HeadsBack(U, old)
  <2>1. ASSUME NEW i \in 1 .. Len(U), U[i].head # 0 PROVE BackTo(old, U[i].head)
    <3>1. i \in 1 .. Len(T) /\ U[i].head = T[i].head
      BY <1>1, <1>5, <1>7, <2>1
    <3> QED
      BY <1>14, <2>1, <3>1 DEF HeadsBack
  <2> QED
    BY <2>1 DEF HeadsBack
<1>15. ASSUME Whole(T, W, next, p - 1) PROVE Whole(U, V, next, p)
  BY <1>11, <1>15 DEF Whole
<1>16. ASSUME Once(T, W, next, p - 1, p - 1), Marks(T, next, p - 1, p - 1) PROVE Marks(U, next, p, p - 1)
  <2>0. ~(p <= Len(T))
    BY <1>16 DEF Once
  <2>1. U[p].type = "unknown" /\ U[p].head = 0
    BY <1>5, <2>0
  <2>2. ASSUME NEW i \in 1 .. p - 1 PROVE Marked(next, U[i], Traces(U)[i])
    <3>1. U[i] = T[i] /\ Traces(U)[i] = Traces(T)[i]
      BY <1>5, <1>7, <1>11
    <3> QED
      BY <1>16, <3>1 DEF Marks
  <2> QED
    BY <2>1, <2>2 DEF Marks
<1> QED
  BY <1>6, <1>12, <1>13, <1>14, <1>15, <1>16 DEF KeepsHeads, Carries

\* CloseLoop and EndPath
LEMMA Ending ==
  ASSUME NEW next, NEW T, NEW U, NEW W, NEW p \in Nat \ {0}, Typed(T, W, next), Typed(U, W, next),
         Listed(T, W, next, p, p - 1), Len(U) = Len(T), \A i \in 1 .. Len(T) : SameRow(T, U, i),
         \A i \in 1 .. Len(T) : i # p => U[i] = T[i], Way(next, Traces(T)[p])
  PROVE  /\ Listed(U, W, next, p, p)
         /\ Once(T, W, next, p, p - 1) /\ (U[p].head = 0 => EndWalk(next, Traces(T)[p])) => Once(U, W, next, p, p)
         /\ Whole(T, W, next, p) => Whole(U, W, next, p)
         /\ Marks(T, next, p, p - 1) /\ Marked(next, U[p], Traces(T)[p]) => Marks(U, next, p, p)
<1>1. /\ Len(T) \in Nat /\ IsNext(next) /\ Rows(T, p, next) /\ Table(T, Len(next)) /\ p \in 1 .. Len(T)
      /\ Ready(T, p, W, next) /\ Fresh(T, p) /\ p \in 0 .. Len(T)
  BY DEF Typed, Listed, Rows, Table
<1>2. Table(U, Len(next))
  <2>1. \A i \in 1 .. Len(U) : U[i].nodes # <<>> /\ U[i].prev \in 1 .. i
    BY <1>1 DEF SameRow, Table
  <2> QED
    BY <2>1, TableIs
<1>3. \A i \in 1 .. p : i \in 1 .. Len(T) /\ SameRow(T, U, i) /\ (i = p \/ i \in 1 .. p - 1)
  BY <1>1
<1>4. p <= Len(U)
  BY <1>1
<1>5. /\ Rows(U, p, next) /\ Ready(U, p, W, next) /\ (Apart(T, p, W) => Apart(U, p, W))
      /\ Covers(T, p, W, next) => Covers(U, p, W, next)
  BY <1>1, <1>2, <1>3, <1>4, MarkedRows
<1>6. \A i \in 1 .. p : Traces(U)[i] = Traces(T)[i]
  BY <1>1, <1>2, <1>3, <1>4, SameRows, NextIs
<1>7. Listed(U, W, next, p, p)
  <2>1. \A i \in 1 .. p : Way(next, Traces(U)[i])
    BY <1>3, <1>6 DEF Listed
  <2> QED
    BY <1>5, <2>1 DEF Listed
<1>8. ASSUME Once(T, W, next, p, p - 1), U[p].head = 0 => EndWalk(next, Traces(T)[p])
      PROVE  Once(U, W, next, p, p)
  <2>1. ASSUME NEW i \in 1 .. p, U[i].head = 0 PROVE EndWalk(next, Traces(U)[i])
    <3>1. CASE i = p
      BY <1>6, <1>8, <2>1, <3>1
    <3>2. CASE i # p
      <4>1. i \in 1 .. p - 1 /\ U[i].head = T[i].head
        BY <1>3, <3>2
      <4> QED
        BY <1>6, <1>8, <2>1, <4>1 DEF Once
    <3> QED
      BY <3>1, <3>2
  <2> QED
    BY <1>5, <1>8, <2>1 DEF Once
<1>9. ASSUME Whole(T, W, next, p) PROVE Whole(U, W, next, p)
  BY <1>5, <1>9 DEF Whole
<1>10. ASSUME Marks(T, next, p, p - 1), Marked(next, U[p], Traces(T)[p]) PROVE Marks(U, next, p, p)
  <2>1. ASSUME NEW i \in 1 .. p PROVE Marked(next, U[i], Traces(U)[i])
    <3>1. CASE i = p
      BY <1>6, <1>10, <3>1
    <3>2. CASE i # p
      <4>1. i \in 1 .. p - 1 /\ U[i] = T[i]
        BY <1>3, <3>2
      <4> QED
        BY <1>6, <1>10, <4>1 DEF Marks
    <3> QED
      BY <3>1, <3>2
  <2> QED
    BY <2>1 DEF Marks
<1> QED
  BY <1>7, <1>8, <1>9, <1>10

\* A row that is changed.
Changed(T, U, p, r) ==
  /\ Len(U) = Len(T) /\ U[p] = r
  /\ \A i \in 1 .. Len(T) : i # p => U[i] = T[i]

LEMMA ChangedIs ==
  ASSUME NEW n, NEW T \in Seq(RowType(n)), NEW p \in 1 .. Len(T), NEW r \in RowType(n)
  PROVE  [T EXCEPT ![p] = r] \in Seq(RowType(n)) /\ Changed(T, [T EXCEPT ![p] = r], p, r)
<1>1. PICK R, U : R = RowType(n) /\ U = [T EXCEPT ![p] = r]
  OBVIOUS
<1>2. U \in Seq(R) /\ Len(U) = Len(T) /\ \A j \in 1 .. Len(T) : U[j] = IF j = p THEN r ELSE T[j]
  BY <1>1, ExceptSeq
<1>3. Changed(T, U, p, r)
  BY <1>2 DEF Changed
<1> QED
  BY <1>1, <1>2, <1>3

\* Extend
Leads(T, p, next, w, tip) ==
  w = Traces(T)[p] /\ tip = w[Len(w)] /\ OnceTo(w, Len(w)) /\ next[tip] # <<>>

LEMMA Extending ==
  ASSUME NEW next, NEW T, NEW W, NEW p \in Nat \ {0}, Typed(T, W, next), Listed(T, W, next, p, p - 1),
         NEW w, NEW tip, Leads(T, p, next, w, tip), NEW U, NEW r, Changed(T, U, p, r),
         r = [T[p] EXCEPT !.nodes = Append(T[p].nodes, next[tip][1])],
         NEW V \in [Mid -> Entry(Len(next))], NEW h, Waits(W, V, h, Tail(next[tip]), p, Len(T[p].nodes)),
         U \in Seq(RowType(Len(next)))
  PROVE  /\ Typed(U, V, next) /\ Listed(U, V, next, p, p - 1)
         /\ IsInjective(next[tip]) /\ Once(T, W, next, p, p - 1) => Once(U, V, next, p, p - 1)
         /\ KeepsHeads(T, U)
         /\ Vacant(V) # {} /\ Whole(T, W, next, p) => Whole(U, V, next, p)
         /\ Marks(T, next, p, p - 1) => Marks(U, next, p, p - 1)
<1> DEFINE n == Len(next)
<1>1. /\ Len(T) \in Nat /\ IsNext(next) /\ Rows(T, p, next) /\ Table(T, n) /\ p \in 1 .. Len(T)
      /\ Ready(T, p, W, next)
  BY DEF Typed, Listed, Rows, Table
<1>2. T[p] \in RowType(n)
  BY <1>1, RowsTyped
<1>3. /\ Len(U) = Len(T) /\ U[p].nodes = Append(T[p].nodes, next[tip][1])
      /\ U[p].prev = T[p].prev /\ U[p].step = T[p].step /\ U[p].head = T[p].head /\ U[p].type = T[p].type
      /\ \A i \in 1 .. Len(T) : i # p => U[i] = T[i]
  BY <1>2 DEF Changed, RowType
<1>4. Typed(U, V, next)
  BY <1>1 DEF Typed
<1>5. Table(U, n)
  <2>1. U[p].nodes # <<>>
    <3>1. U[p] \in RowType(n)
      BY <1>1, <1>3, ElementOfSeq
    <3>2. T[p].nodes \in Seq(1 .. n)
      BY <1>2 DEF RowType
    <3>3. next[tip][1] \in 1 .. n
      <4>1. Underway(next, w)
        BY <1>1 DEF Leads, Rows
      <4>2. tip \in 1 .. n /\ next[tip] # <<>>
        BY <1>1, <4>1, UnderwayIs DEF Leads
      <4>3. next[tip] \in Seq(1 .. n)
        BY <1>1, <4>2, NextIs
      <4>4. 1 \in 1 .. Len(next[tip])
        BY <4>2, <4>3, EmptySeq
      <4> QED
        BY <4>3, <4>4, ElementOfSeq
    <3>4. U[p].nodes = Append(T[p].nodes, next[tip][1])
      BY <1>3
    <3>5. PICK s, e : s = T[p].nodes /\ e = next[tip][1]
      OBVIOUS
    <3>6. s \in Seq(1 .. n) /\ e \in 1 .. n
      BY <3>2, <3>3, <3>5
    <3>7. Append(s, e) # <<>>
      <4>1. PICK S : S = 1 .. n
        OBVIOUS
      <4>2. s \in Seq(S) /\ e \in S
        BY <3>6, <4>1
      <4> QED
        BY <4>2, AppendProperties
    <3> QED
      BY <3>4, <3>5, <3>7
  <2>2. ASSUME NEW i \in 1 .. Len(U) PROVE U[i].nodes # <<>> /\ U[i].prev \in 1 .. i
    <3>1. T[i].nodes # <<>> /\ T[i].prev \in 1 .. i /\ i \in 1 .. Len(T)
      BY <1>1, <1>3 DEF Table
    <3> QED
      BY <1>3, <2>1, <3>1
  <2> QED
    BY <1>4, <2>2, TableIs
<1>6. Onward(T, U, p, next, w, tip)
  <2>1. \A i \in 1 .. p - 1 : i \in 1 .. Len(T) /\ i # p
    BY <1>1
  <2>2. \A i \in 1 .. p - 1 : SameRow(T, U, i)
    BY <1>3, <2>1 DEF SameRow
  <2> QED
    BY <1>3, <2>2 DEF Onward, Leads
<1>7. /\ Rows(U, p, next) /\ Ready(U, p, V, next)
      /\ IsInjective(next[tip]) /\ Apart(T, p, W) => Apart(U, p, V)
      /\ Vacant(V) # {} /\ Covers(T, p, W, next) => Covers(U, p, V, next)
      /\ SameWays(T, U, p - 1)
  BY <1>1, <1>3, <1>5, <1>6, FollowedRows
<1>8. Listed(U, V, next, p, p - 1)
  BY <1>7 DEF Listed, SameWays
<1>9. ASSUME IsInjective(next[tip]), Once(T, W, next, p, p - 1) PROVE Once(U, V, next, p, p - 1)
  <2>1. \A i \in 1 .. p - 1 : i \in 1 .. Len(T) /\ i # p
    BY <1>1
  <2>2. \A i \in 1 .. p - 1 : U[i] = T[i] /\ Traces(U)[i] = Traces(T)[i]
    BY <1>3, <1>7, <2>1 DEF SameWays
  <2> QED
    BY <1>3, <1>7, <1>9, <2>2 DEF Once
<1>10. ASSUME NEW old, HeadsBack(T, old) PROVE HeadsBack(U, old)
  <2>1. \A i \in 1 .. Len(U) : U[i].head = T[i].head
    BY <1>3
  <2> QED
    BY <1>3, <1>10, <2>1 DEF HeadsBack
<1>11. ASSUME Vacant(V) # {}, Whole(T, W, next, p) PROVE Whole(U, V, next, p)
  BY <1>7, <1>11 DEF Whole
<1>12. ASSUME Marks(T, next, p, p - 1) PROVE Marks(U, next, p, p - 1)
  <2>1. \A i \in 1 .. p - 1 : i \in 1 .. Len(T) /\ i # p
    BY <1>1
  <2>2. \A i \in 1 .. p - 1 : U[i] = T[i] /\ Traces(U)[i] = Traces(T)[i]
    BY <1>3, <1>7, <2>1 DEF SameWays
  <2> QED
    BY <1>3, <1>12, <2>2 DEF Marks
<1> QED
  BY <1>4, <1>8, <1>9, <1>10, <1>11, <1>12 DEF KeepsHeads

\* Begin, and the second build over the rows of the first
LEMMA Starting ==
  ASSUME NEW next, NEW T, NEW W, Typed(T, W, next), NEW nxt, IsNext(nxt), Len(nxt) = Len(next),
         Table(T, Len(next))
  PROVE  Typed(T, Start, nxt) /\ Listed(T, Start, nxt, 0, 0)
<1>1. Len(nxt) \in Nat \ {0} /\ Len(T) \in Nat
  BY NextIs DEF Table
<1>2. Typed(T, Start, nxt)
  BY <1>1, StartIs DEF Typed
<1>3. Rows(T, 0, nxt)
  BY <1>1 DEF Rows, Fresh
<1> QED
  BY <1>2, <1>3 DEF Listed

LEMMA StartingEmpty ==
  ASSUME NEW next, IsNext(next)
  PROVE  /\ Typed(<<>>, Start, next) /\ Listed(<<>>, Start, next, 0, 0)
         /\ Once(<<>>, Start, next, 0, 0) /\ \A old : HeadsBack(<<>>, old)
<1>1. <<>> \in Seq(RowType(Len(next))) /\ Len(<<>>) = 0 /\ Len(next) \in Nat \ {0}
  BY EmptySeq, NextIs
<1>2. Typed(<<>>, Start, next)
  BY <1>1, StartIs DEF Typed
<1>3. Table(<<>>, Len(next))
  BY <1>1, <1>2, TableIs
<1>4. \A i \in 1 .. 0 : FALSE
  OBVIOUS
<1>5. Listed(<<>>, Start, next, 0, 0)
  BY <1>2, <1>3, Starting
<1>6. Once(<<>>, Start, next, 0, 0)
  BY <1>1, <1>4 DEF Once
<1>7. \A old : HeadsBack(<<>>, old)
  BY <1>1, <1>4 DEF HeadsBack
<1> QED
  BY <1>2, <1>5, <1>6, <1>7

\* As many rows as are complete in the first build, so many ways the function has.
LEMMA ManyWays ==
  ASSUME NEW T, NEW W, NEW next, IsNext(next), NEW p \in Nat \ {0}, Listed(T, W, next, p, p),
         Once(T, W, next, p, p)
  PROVE  p <= Cardinality(Returning(next) \cup Looping(next))
<1> DEFINE Ways == Returning(next) \cup Looping(next)
           f == [i \in 1 .. p |-> Traces(T)[i]]
<1>1. IsFiniteSet(Ways)
  BY WaysFinite, FS_Union
<1>2. ASSUME NEW i \in 1 .. p PROVE Traces(T)[i] \in Ways
  <2>1. Way(next, Traces(T)[i])
    BY DEF Listed
  <2> QED
    BY <2>1, InReturning, InLooping DEF Way
<1> HIDE DEF Ways
<1>3. f \in [1 .. p -> Ways]
  BY <1>2
<1>4. \A i, j \in 1 .. p : f[i] = f[j] => i = j
  <2>1. \A s, t : Parted(s, t) => s # t
    BY DEF Parted
  <2>2. \A i, j \in 1 .. p : i # j => Parted(Traces(T)[i], Traces(T)[j])
    BY DEF Once, Apart
  <2> QED
    BY <2>1, <2>2
<1>5. IsFiniteSet(1 .. p) /\ Cardinality(1 .. p) = p
  BY FS_Interval
<1> HIDE DEF f
<1>6. f \in Injection(1 .. p, Ways)
  BY <1>3, <1>4 DEF Injection, IsInjective
<1>7. Cardinality(1 .. p) <= Cardinality(Ways)
  BY <1>1, <1>6, FS_Injection
<1> QED
  BY <1>5, <1>7 DEF Ways

\* There are no more loop heads than links back.
HeadRows(T) == {p \in DOMAIN T : T[p].head # 0 /\ \A q \in 1 .. p - 1 : T[q].head # T[p].head}

LEMMA ManyHeads ==
  ASSUME NEW T, NEW old, IsNext(old), HeadsBack(T, old), DOMAIN T = 1 .. Len(T), Len(T) \in Nat
  PROVE  /\ Cardinality(HeadRows(T)) \in Nat /\ Cardinality(BackLinks(old)) \in Nat
         /\ Cardinality(HeadRows(T)) <= Cardinality(BackLinks(old))
<1> DEFINE H == HeadRows(T)
           L(p) == CHOOSE lk \in BackLinks(old) : Target(old, lk) = T[p].head
           f == [p \in H |-> L(p)]
<1>1. IsFiniteSet(BackLinks(old))
  BY WaysFinite
<1>2. \A p \in H : /\ p \in 1 .. Len(T) /\ T[p].head # 0
                   /\ \A q \in 1 .. p - 1 : T[q].head # T[p].head
  BY DEF HeadRows
<1> HIDE DEF H
<1>3. ASSUME NEW p \in H PROVE L(p) \in BackLinks(old) /\ Target(old, L(p)) = T[p].head
  <2>1. \E lk \in BackLinks(old) : Target(old, lk) = T[p].head
    BY <1>2 DEF HeadsBack, BackTo
  <2> QED
    BY <2>1
<1>4. \A p \in H : f[p] = L(p)
  OBVIOUS
<1> HIDE DEF L
<1>5. f \in [H -> BackLinks(old)]
  BY <1>3
<1> HIDE DEF f
<1>6. ASSUME NEW p \in H, NEW q \in H, f[p] = f[q] PROVE p = q
  <2>1. T[p].head = T[q].head /\ p \in Nat /\ q \in Nat /\ p \in 1 .. Len(T) /\ q \in 1 .. Len(T)
    BY <1>2, <1>3, <1>4, <1>6
  <2>2. ~(p < q)
    <3>1. ASSUME p < q PROVE FALSE
      <4>1. p \in 1 .. q - 1
        BY <2>1, <3>1
      <4> QED
        BY <1>2, <2>1, <4>1
    <3> QED
      BY <3>1
  <2>3. ~(q < p)
    <3>1. ASSUME q < p PROVE FALSE
      <4>1. q \in 1 .. p - 1
        BY <2>1, <3>1
      <4> QED
        BY <1>2, <2>1, <4>1
    <3> QED
      BY <3>1
  <2> QED
    BY <2>1, <2>2, <2>3
<1>7. f \in Injection(H, BackLinks(old))
  BY <1>5, <1>6 DEF Injection, IsInjective
<1>8. IsFiniteSet(H) /\ Cardinality(H) <= Cardinality(BackLinks(old))
  BY <1>1, <1>7, FS_Injection
<1>9. Cardinality(H) \in Nat /\ Cardinality(BackLinks(old)) \in Nat
  BY <1>1, <1>8, FS_CardinalityType
<1> QED
  BY <1>8, <1>9 DEF H

-----------------------------------------------------------------------------
(* The invariant *)

\* The graph as it came, and the rows of this build.
Old == functions[fi].next
Filled == IF walking THEN path ELSE path - 1

Building ==
  /\ path \in Nat \ {0} /\ fi <= Len(functions)
  /\ Typed(paths, waiting, g.next) /\ Listed(paths, waiting, g.next, Filled, path - 1)
  /\ NoNewLoop(g.next, Old) /\ HeadsBack(paths, Old)
  /\ ~again => g = functions[fi] /\ Once(paths, waiting, g.next, Filled, path - 1)

\* The limits of main are too small for the function.
TooSmall(next) == ~(/\ Cardinality(Returning(next) \cup Looping(next)) < PathsSize
                    /\ Cardinality(BackLinks(next)) <= LoopsSize)

PathsIInv ==
  /\ functions \in Programs /\ fi \in Nat \ {0}
  /\ again \in BOOLEAN /\ walking \in BOOLEAN
  /\ walking => stage = "paths"
  /\ stage = "returns" => ~again
  /\ stage \in {"paths", "returns", "loops"} => Building
  /\ stage = "failed" => Returns # <<>> \/ TooSmall(Old)

\* There has been room for every way out of a branch: then no way is lost, and the rows of
\* the first build are marked as what they are.
RoomLeft == Vacant(waiting) # {}
WholeInv ==
  stage \in {"paths", "returns", "loops"} =>
    /\ Whole(paths, waiting, g.next, Filled)
    /\ ~again => Marks(paths, g.next, Filled, path - 1) /\ (stage # "paths" => Used = {})
Kept == PathsIInv' /\ (WholeInv /\ RoomLeft' => WholeInv')

LEMMA GraphIs ==
  ASSUME functions \in Programs, fi \in Nat \ {0}, fi <= Len(functions)
  PROVE  IsGraph(functions[fi]) /\ IsNext(functions[fi].next)
<1>1. functions \in Seq(Graph)
  BY PathsAssumption
<1>2. fi \in 1 .. Len(functions)
  BY <1>1, LenProperties
<1>3. functions[fi] \in Graph
  BY <1>1, <1>2, ElementOfSeq
<1>4. IsGraph(functions[fi])
  BY <1>3, PathsAssumption
<1> QED
  BY <1>4 DEF IsGraph, IsNext

LEMMA PathsBegin == ASSUME PathsIInv, Begin PROVE Kept
<1>1. /\ functions \in Programs /\ fi \in Nat \ {0} /\ fi <= Len(functions) /\ walking = FALSE
      /\ g' = functions[fi] /\ again' = FALSE /\ stage' = "paths" /\ waiting' = Start /\ path' = 1
      /\ paths' = <<>> /\ functions' = functions /\ fi' = fi /\ walking' = FALSE
  BY DEF PathsIInv, Begin
<1>2. PICK next : next = functions[fi].next
  OBVIOUS
<1>3. IsNext(next)
  BY <1>1, <1>2, GraphIs
<1>4. NoNewLoop(next, next)
  BY <1>3 DEF NoNewLoop
<1>5. g'.next = next /\ Old' = next /\ Filled' = 0 /\ path' - 1 = 0
  BY <1>1, <1>2 DEF Old, Filled
<1>6. Building'
  <2>1. Typed(paths', waiting', g'.next) /\ Listed(paths', waiting', g'.next, Filled', path' - 1)
        /\ Once(paths', waiting', g'.next, Filled', path' - 1) /\ HeadsBack(paths', Old')
        /\ NoNewLoop(g'.next, Old')
    BY <1>1, <1>3, <1>4, <1>5, StartingEmpty
  <2> QED
    BY <1>1, <2>1 DEF Building
<1>7. WholeInv'
  <2>1. \A i : i \notin 1 .. 0
    OBVIOUS
  <2>2. Whole(paths', waiting', g'.next, Filled') /\ Marks(paths', g'.next, Filled', path' - 1)
    BY <1>5, <2>1 DEF Whole, Marks
  <2> QED
    BY <1>1, <2>2 DEF WholeInv
<1>8. PathsIInv'
  BY <1>1, <1>6 DEF PathsIInv
<1> QED
  BY <1>7, <1>8 DEF Kept

LEMMA PathsTake == ASSUME PathsIInv, TakeMid PROVE Kept
<1>1. /\ functions \in Programs /\ fi \in Nat \ {0} /\ again \in BOOLEAN /\ stage = "paths" /\ Building
      /\ walking = FALSE /\ walking' = TRUE /\ Used # {}
      /\ functions' = functions /\ fi' = fi /\ stage' = stage /\ again' = again /\ g' = g /\ path' = path
  BY DEF PathsIInv, TakeMid
<1>2. PICK T, W, p, next, m, U, V : /\ T = paths /\ W = waiting /\ p = path /\ next = g.next /\ m = Min(Used)
                                    /\ U = paths' /\ V = waiting'
  OBVIOUS
<1>3. Filled = p - 1 /\ Filled' = p
  BY <1>1, <1>2 DEF Filled
<1>4. /\ p \in Nat \ {0} /\ Typed(T, W, next) /\ Listed(T, W, next, p - 1, p - 1)
      /\ HeadsBack(T, Old) /\ (~again => Once(T, W, next, p - 1, p - 1))
  BY <1>1, <1>2, <1>3 DEF Building
<1>5. m \in InUse(W)
  <2>1. Used = InUse(W)
    BY <1>2 DEF Used, InUse
  <2>2. InUse(W) \in SUBSET Nat
    BY MidIs DEF InUse
  <2> QED
    BY <1>1, <1>2, <2>1, <2>2, MinIs
<1>6. U = Begun(T, p, W[m]) /\ V = [W EXCEPT ![m].node = 0]
  BY <1>2 DEF TakeMid, Begun, Older
<1>7. /\ Typed(U, V, next) /\ Listed(U, V, next, p, p - 1)
      /\ Once(T, W, next, p - 1, p - 1) => Once(U, V, next, p, p - 1)
      /\ KeepsHeads(T, U)
      /\ Carries(T, W, U, V, next, p - 1, p)
  BY <1>4, <1>5, <1>6, Taking
<1>8. Old' = Old
  BY <1>1 DEF Old
<1>9. HeadsBack(U, Old)
  BY <1>4, <1>7 DEF KeepsHeads
<1>10. Building'
  BY <1>1, <1>2, <1>3, <1>4, <1>7, <1>8, <1>9 DEF Building
<1>11. ASSUME WholeInv PROVE WholeInv'
  <2>1. Whole(T, W, next, p - 1) /\ (~again => Marks(T, next, p - 1, p - 1))
    BY <1>1, <1>2, <1>3, <1>11 DEF WholeInv
  <2>3. Whole(U, V, next, p) /\ (~again => Marks(U, next, p, p - 1))
    BY <1>4, <1>7, <2>1 DEF Carries
  <2>4. Whole(paths', waiting', g'.next, Filled') /\ (~again' => Marks(paths', g'.next, Filled', path' - 1))
    BY <1>1, <1>2, <1>3, <2>3
  <2> QED
    BY <1>1, <2>4 DEF WholeInv
<1>12. PathsIInv'
  BY <1>1, <1>10 DEF PathsIInv
<1> QED
  BY <1>11, <1>12 DEF Kept

\* The path under construction.
LEMMA TipIs ==
  ASSUME PathsIInv, Walking
  PROVE  /\ Building /\ stage = "paths" /\ walking /\ Filled = path /\ path \in Nat \ {0}
         /\ Listed(paths, waiting, g.next, path, path - 1) /\ path \in 1 .. Len(paths)
         /\ IsNext(g.next) /\ Trace[path] = Traces(paths)[path] /\ Underway(g.next, Trace[path])
         /\ Tip = Trace[path][Len(Trace[path])] /\ Tip \in 1 .. Len(g.next)
         /\ paths[path] \in RowType(Len(g.next)) /\ paths[path].nodes # <<>>
<1>1. Building /\ stage = "paths" /\ walking
  BY DEF PathsIInv, Walking
<1>2. Filled = path /\ path \in Nat \ {0} /\ Typed(paths, waiting, g.next)
      /\ Listed(paths, waiting, g.next, path, path - 1)
  BY <1>1 DEF Building, Filled
<1>3. PICK T, W, p, next, t : T = paths /\ W = waiting /\ p = path /\ next = g.next /\ t = Traces(T)[p]
  OBVIOUS
<1>4. /\ p \in Nat \ {0} /\ Typed(T, W, next) /\ Rows(T, p, next) /\ Table(T, Len(next)) /\ Fresh(T, p)
      /\ p \in 0 .. Len(T) /\ IsNext(next)
  BY <1>2, <1>3 DEF Listed, Typed, Rows
<1>5. p \in 1 .. Len(T) /\ p \in 1 .. p /\ Len(next) \in Nat
  BY <1>4, NextIs
<1>6. Underway(next, t) /\ T[p] \in RowType(Len(next))
  BY <1>3, <1>4, <1>5, RowsTyped DEF Rows
<1>7. EndsWith(t, T[p].nodes) /\ t \in Seq(1 .. Len(next))
  BY <1>3, <1>4, <1>5, TracesTyped
<1>8. Len(T[p].nodes) \in Nat \ {0} /\ Len(t) \in Nat
  BY <1>4, <1>5, <1>7, RowIs, LenProperties
<1>9. T[p].nodes[Len(T[p].nodes)] = t[Len(t)]
  <2>1. Len(T[p].nodes) \in 1 .. Len(T[p].nodes) /\ Len(t) - Len(T[p].nodes) + Len(T[p].nodes) = Len(t)
    BY <1>8
  <2> QED
    BY <1>7, <2>1 DEF EndsWith
<1>10. t[Len(t)] \in 1 .. Len(next)
  BY <1>4, <1>6, UnderwayIs
<1>11. Trace[path] = t
  BY <1>3, TraceIs
<1>12. T[p].nodes # <<>>
  BY <1>4, <1>5 DEF Table
<1>13. Tip = t[Len(t)]
  BY <1>3, <1>9 DEF Tip, Last
<1> QED
  BY <1>1, <1>2, <1>3, <1>4, <1>5, <1>6, <1>10, <1>11, <1>12, <1>13

\* A path ends: it is a way, and its row is marked with a loop head, or stays as it is.
LEMMA PathsEnds ==
  ASSUME PathsIInv, Walking, Way(g.next, Trace[path]), Ended, UNCHANGED <<functions, fi, again, g, waiting>>,
         NEW r \in RowType(Len(g.next)), paths' \in Seq(RowType(Len(g.next))), Changed(paths, paths', path, r),
         r.nodes = paths[path].nodes, r.prev = paths[path].prev, r.step = paths[path].step,
         r.head # 0 => BackTo(Old, r.head) \/ r.head = paths[path].head,
         r.head = 0 => EndWalk(g.next, Trace[path]),
         Marks(paths, g.next, path, path - 1) => Marked(g.next, r, Trace[path])
  PROVE  Kept
<1>1. /\ Building /\ stage = "paths" /\ path \in Nat \ {0} /\ Filled = path /\ path \in 1 .. Len(paths)
      /\ Listed(paths, waiting, g.next, path, path - 1) /\ IsNext(g.next) /\ Trace[path] = Traces(paths)[path]
  BY TipIs
<1>2. functions \in Programs /\ fi \in Nat \ {0} /\ again \in BOOLEAN
  BY DEF PathsIInv
<1>3. PICK T, U, W, p, next, old : /\ T = paths /\ U = paths' /\ W = waiting /\ p = path /\ next = g.next
                                   /\ old = Old
  OBVIOUS
<1>4. /\ p \in Nat \ {0} /\ p \in 1 .. Len(T) /\ Typed(T, W, next) /\ Listed(T, W, next, p, p - 1)
      /\ IsNext(next) /\ Way(next, Traces(T)[p]) /\ HeadsBack(T, old)
      /\ (~again => Once(T, W, next, p, p - 1))
  BY <1>1, <1>3 DEF Building
<1>5. Typed(U, W, next) /\ Changed(T, U, p, r)
  BY <1>3, <1>4 DEF Typed
<1>6. /\ Len(U) = Len(T) /\ \A i \in 1 .. Len(T) : SameRow(T, U, i)
      /\ \A i \in 1 .. Len(T) : i # p => U[i] = T[i]
      /\ \A i \in 1 .. Len(T) : i # p => U[i].head = T[i].head
      /\ U[p] = r
  <2>1. r.nodes = T[p].nodes /\ r.prev = T[p].prev /\ r.step = T[p].step
    BY <1>3
  <2> QED
    BY <1>5, <2>1 DEF Changed, SameRow
<1>7. U[p].head = 0 => EndWalk(next, Traces(T)[p])
  BY <1>1, <1>3, <1>6
<1>8. /\ Listed(U, W, next, p, p) /\ (~again => Once(U, W, next, p, p))
      /\ Whole(T, W, next, p) => Whole(U, W, next, p)
      /\ Marks(T, next, p, p - 1) /\ Marked(next, U[p], Traces(T)[p]) => Marks(U, next, p, p)
  BY <1>4, <1>5, <1>6, <1>7, Ending
<1>9. HeadsBack(U, old)
  <2>1. ASSUME NEW i \in 1 .. Len(U), U[i].head # 0 PROVE BackTo(old, U[i].head)
    <3>1. CASE i # p
      BY <1>4, <1>6, <2>1, <3>1 DEF HeadsBack
    <3>2. CASE i = p
      <4>1. BackTo(old, r.head) \/ r.head = T[p].head
        BY <1>3, <1>6, <2>1, <3>2
      <4> QED
        BY <1>4, <1>6, <2>1, <3>2, <4>1 DEF HeadsBack
    <3> QED
      BY <3>1, <3>2
  <2> QED
    BY <2>1 DEF HeadsBack
<1>10. /\ walking' = FALSE /\ path' = p + 1 /\ Old' = old /\ g' = g /\ again' = again /\ fi' = fi
       /\ functions' = functions /\ waiting' = W
  BY <1>3 DEF Ended, Old
<1>11. Filled' = p /\ path' - 1 = p
  BY <1>4, <1>10 DEF Filled
<1>12. Building'
  <2>1. NoNewLoop(next, old) /\ fi <= Len(functions) /\ (~again => g = functions[fi])
    BY <1>1, <1>3 DEF Building
  <2>2. path' \in Nat \ {0}
    BY <1>4, <1>10
  <2>3. Listed(U, W, next, p, p) /\ (~again => Once(U, W, next, p, p))
    BY <1>8
  <2> QED
    BY <1>3, <1>5, <1>9, <1>10, <1>11, <2>1, <2>2, <2>3 DEF Building
<1>13. ASSUME stage' \in {"paths", "loops"} PROVE PathsIInv'
  BY <1>2, <1>10, <1>12, <1>13 DEF PathsIInv
<1>14. ASSUME stage' \notin {"paths", "loops"} PROVE PathsIInv'
  <2>1. stage' = "failed" /\ ~again /\ ~(path < PathsSize)
    BY <1>1, <1>14 DEF Ended
  <2>2. next = old
    BY <1>1, <1>3, <2>1 DEF Building, Old
  <2>3. p <= Cardinality(Returning(next) \cup Looping(next))
    BY <1>4, <1>8, <2>1, ManyWays
  <2>4. PathsSize \in Nat
    BY PathsAssumption
  <2>5. TooSmall(old)
    <3>1. PICK c : c = Cardinality(Returning(next) \cup Looping(next))
      OBVIOUS
    <3>2. ~(c < PathsSize)
      <4>1. Returning(next) \cup Looping(next) = Returning(next) \cup Looping(next) /\ c \in Nat
        <5>1. IsFiniteSet(Returning(next) \cup Looping(next))
          BY <1>4, WaysFinite, FS_Union
        <5> QED
          BY <3>1, <5>1, FS_CardinalityType
      <4>2. p <= c /\ ~(p < PathsSize)
        BY <1>3, <2>1, <2>3, <3>1
      <4> QED
        BY <1>4, <2>4, <4>1, <4>2
    <3> QED
      BY <2>2, <3>1, <3>2 DEF TooSmall
  <2>6. TooSmall(Old')
    BY <1>10, <2>5
  <2>7. (Returns # <<>> \/ TooSmall(Old))'
    BY <2>6
  <2> QED
    BY <1>2, <1>10, <2>1, <2>7 DEF PathsIInv
<1>15. ASSUME WholeInv, stage' \in {"paths", "returns", "loops"} PROVE WholeInv'
  <2>1. Whole(T, W, next, p) /\ (~again => Marks(T, next, p, p - 1))
    BY <1>1, <1>3, <1>15 DEF WholeInv
  <2>2. Marks(T, next, p, p - 1) => Marked(next, U[p], Traces(T)[p])
    BY <1>1, <1>3, <1>6
  <2>3. Whole(U, W, next, p) /\ (~again => Marks(U, next, p, p))
    BY <1>8, <2>1, <2>2
  <2>4. Whole(paths', waiting', g'.next, Filled') /\ (~again' => Marks(paths', g'.next, Filled', path' - 1))
    BY <1>3, <1>10, <1>11, <2>3
  <2>5. ~again' => stage' = "paths"
    BY <1>1, <1>10, <1>15 DEF Ended
  <2> QED
    BY <2>4, <2>5 DEF WholeInv
<1>16. stage' \notin {"paths", "returns", "loops"} => WholeInv'
  BY DEF WholeInv
<1> QED
  BY <1>13, <1>14, <1>15, <1>16 DEF Kept

\* What CloseLoop does to the row of the path: it is back at a node of its own.
LEMMA Closes ==
  ASSUME PathsIInv, CloseLoop
  PROVE  /\ LoopWalk(g.next, Trace[path])
         /\ \E r \in RowType(Len(g.next)) :
              /\ paths' \in Seq(RowType(Len(g.next))) /\ Changed(paths, paths', path, r)
              /\ r.nodes = paths[path].nodes /\ r.prev = paths[path].prev /\ r.step = paths[path].step
              /\ r.head = Tip /\ r.type = "loop"
<1>1. /\ Walking /\ (SeenBefore(Trace[path]) \/ LimitReached(Trace[path]))
      /\ paths' = [paths EXCEPT ![path].head = Tip,
                                ![path].type = IF SeenBefore(Trace[path]) THEN "loop" ELSE @]
  BY DEF CloseLoop
<1>2. /\ Building /\ path \in 1 .. Len(paths) /\ IsNext(g.next) /\ Underway(g.next, Trace[path])
      /\ Tip \in 1 .. Len(g.next) /\ paths[path] \in RowType(Len(g.next))
  BY <1>1, TipIs
<1>3. LoopWalk(g.next, Trace[path]) /\ SeenBefore(Trace[path])
  BY <1>1, <1>2, LoopCheck
<1>4. PICK r : r = [paths[path] EXCEPT !.head = Tip, !.type = "loop"]
  OBVIOUS
<1>5. /\ r \in RowType(Len(g.next)) /\ r.nodes = paths[path].nodes /\ r.prev = paths[path].prev
      /\ r.step = paths[path].step /\ r.head = Tip /\ r.type = "loop"
  <2>1. PICK n, a, tip : n = Len(g.next) /\ a = paths[path] /\ tip = Tip
    OBVIOUS
  <2>2. a \in RowType(n) /\ tip \in 1 .. n /\ r = [a EXCEPT !.head = tip, !.type = "loop"]
    BY <1>2, <1>4, <2>1
  <2>3. /\ r \in RowType(n) /\ r.nodes = a.nodes /\ r.prev = a.prev /\ r.step = a.step /\ r.head = tip
        /\ r.type = "loop"
    <3>1. PICK b : b = [a EXCEPT !.head = tip]
      OBVIOUS
    <3>2. b \in RowType(n) /\ b.nodes = a.nodes /\ b.prev = a.prev /\ b.step = a.step /\ b.head = tip
      BY <2>2, <3>1 DEF RowType
    <3>3. r = [b EXCEPT !.type = "loop"]
      BY <2>2, <3>1, Zenon
    <3> QED
      BY <3>2, <3>3 DEF RowType
  <2> QED
    BY <2>1, <2>3
<1>6. paths \in Seq(RowType(Len(g.next)))
  BY <1>2 DEF Building, Typed
<1>7. paths' = [paths EXCEPT ![path] = r]
  <2>1. path \in DOMAIN paths
    BY <1>2, <1>6, LenProperties
  <2> QED
    BY <1>1, <1>3, <1>4, <2>1
<1>8. [paths EXCEPT ![path] = r] \in Seq(RowType(Len(g.next))) /\ Changed(paths, [paths EXCEPT ![path] = r], path, r)
  BY <1>2, <1>5, <1>6, ChangedIs
<1> QED
  BY <1>3, <1>5, <1>7, <1>8

LEMMA PathsClose == ASSUME PathsIInv, CloseLoop PROVE Kept
<1>1. Walking /\ Ended /\ UNCHANGED <<functions, fi, again, g, waiting>>
  BY DEF CloseLoop
<1>2. /\ Building /\ IsNext(g.next) /\ Tip = Trace[path][Len(Trace[path])] /\ Tip \in 1 .. Len(g.next)
  BY <1>1, TipIs
<1>3. LoopWalk(g.next, Trace[path])
  BY Closes
<1>4. BackTo(Old, Tip)
  <2>1. PICK t, old : t = Trace[path] /\ old = Old
    OBVIOUS
  <2>2. IsNext(old) /\ LoopWalk(old, t)
    BY <1>2, <1>3, <2>1 DEF Building, NoNewLoop
  <2>3. BackTo(old, t[Len(t)])
    BY <2>2, LinkBack DEF BackTo
  <2> QED
    BY <1>2, <2>1, <2>3
<1>5. PICK r \in RowType(Len(g.next)) :
        /\ paths' \in Seq(RowType(Len(g.next))) /\ Changed(paths, paths', path, r)
        /\ r.nodes = paths[path].nodes /\ r.prev = paths[path].prev /\ r.step = paths[path].step
        /\ r.head = Tip /\ r.type = "loop"
  BY Closes
<1>6. Way(g.next, Trace[path]) /\ r.head # 0
  BY <1>2, <1>3, <1>5 DEF Way
<1>7. Marked(g.next, r, Trace[path])
  BY <1>2, <1>3, <1>5 DEF Marked
<1> QED
  BY <1>1, <1>4, <1>5, <1>6, <1>7, PathsEnds

\* A walk that visits every node once does not close a loop.
LEMMA EndsNotLoops == ASSUME NEW next, NEW t, EndWalk(next, t) PROVE ~LoopWalk(next, t)
<1> SUFFICES ASSUME LoopWalk(next, t) PROVE FALSE
  OBVIOUS
<1>1. PICK j \in 1 .. Len(t) - 1 : t[j] = t[Len(t)]
  BY DEF LoopWalk
<1>2. Len(t) \in Nat
  BY LenProperties DEF LoopWalk, Walks
<1>3. j \in 1 .. Len(t) /\ Len(t) \in 1 .. Len(t) /\ j # Len(t)
  BY <1>1, <1>2
<1>4. OnceTo(t, Len(t))
  BY DEF EndWalk
<1> QED
  BY <1>1, <1>3, <1>4 DEF OnceTo

\* A walk under construction that gets to a node without links ends the function.
LEMMA Returned ==
  ASSUME NEW next, IsNext(next), NEW t, Underway(next, t), next[t[Len(t)]] = <<>>
  PROVE  EndWalk(next, t)
<1>1. Walks(next, t) /\ OnceTo(t, Len(t) - 1) /\ Len(t) \in Nat \ {0}
  BY UnderwayIs DEF Underway
<1>2. ASSUME NEW i \in 1 .. Len(t) - 1 PROVE t[i] # t[Len(t)]
  <2>1. PICK l \in 1 .. Len(next[t[i]]) : t[i + 1] = next[t[i]][l]
    BY <1>1 DEF Walks
  <2>2. Len(next[t[i]]) # 0
    BY <2>1
  <2>3. Len(next[t[Len(t)]]) = 0
    BY EmptySeq
  <2> QED
    BY <2>2, <2>3
<1>3. \A i \in 1 .. Len(t) : i = Len(t) \/ i \in 1 .. Len(t) - 1
  BY <1>1
<1>4. OnceTo(t, Len(t))
  BY <1>1, <1>2, <1>3 DEF OnceTo
<1> QED
  BY <1>1, <1>4 DEF EndWalk

LEMMA PathsEndPath == ASSUME PathsIInv, EndPath PROVE Kept
<1>1. /\ Walking /\ Ended /\ UNCHANGED <<functions, fi, again, g, waiting>> /\ paths' = paths
      /\ g.next[Tip] = <<>>
  BY DEF EndPath
<1>2. /\ Building /\ path \in 1 .. Len(paths) /\ IsNext(g.next) /\ Underway(g.next, Trace[path])
      /\ Tip = Trace[path][Len(Trace[path])] /\ Tip \in 1 .. Len(g.next)
      /\ paths[path] \in RowType(Len(g.next))
  BY <1>1, TipIs
<1>3. EndWalk(g.next, Trace[path])
  BY <1>1, <1>2, Returned
<1>4. PICK r : r = paths[path]
  OBVIOUS
<1>5. paths' \in Seq(RowType(Len(g.next))) /\ Changed(paths, paths', path, r) /\ r \in RowType(Len(g.next))
  BY <1>1, <1>2, <1>4 DEF Changed, Building, Typed
<1>6. Way(g.next, Trace[path])
  BY <1>3 DEF Way
<1>7. ASSUME Marks(paths, g.next, path, path - 1) PROVE Marked(g.next, r, Trace[path])
  <2>1. path # path - 1
    BY <1>1, TipIs
  <2>2. r.type = "unknown" /\ r.head = 0
    BY <1>4, <1>7, <2>1 DEF Marks
  <2>3. ~LoopWalk(g.next, Trace[path])
    BY <1>3, EndsNotLoops
  <2> QED
    BY <2>2, <2>3 DEF Marked
<1> QED
  BY <1>1, <1>3, <1>4, <1>5, <1>6, <1>7, PathsEnds

LEMMA PathsExtend == ASSUME PathsIInv, Extend PROVE Kept
<1>1. /\ Walking /\ g.next[Tip] # <<>> /\ ~SeenBefore(Trace[path])
      /\ waiting' = Queued(Tail(g.next[Tip]), Len(paths[path].nodes))
      /\ functions' = functions /\ fi' = fi /\ stage' = stage /\ again' = again /\ g' = g /\ path' = path
      /\ walking' = walking
  BY DEF Extend
<1>2. /\ Building /\ stage = "paths" /\ walking /\ Filled = path /\ path \in Nat \ {0}
      /\ Listed(paths, waiting, g.next, path, path - 1) /\ path \in 1 .. Len(paths)
      /\ IsNext(g.next) /\ Trace[path] = Traces(paths)[path] /\ Underway(g.next, Trace[path])
      /\ Tip = Trace[path][Len(Trace[path])] /\ Tip \in 1 .. Len(g.next)
      /\ paths[path] \in RowType(Len(g.next))
  BY <1>1, TipIs
<1>3. PICK T, U, W, V, p, next, w, tip, old :
        /\ T = paths /\ U = paths' /\ W = waiting /\ V = waiting' /\ p = path /\ next = g.next
        /\ w = Trace[path] /\ tip = Tip /\ old = Old
  OBVIOUS
<1>4. PICK n, s, links : n = Len(next) /\ s = Len(T[p].nodes) /\ links = Tail(next[tip])
  OBVIOUS
<1>5. /\ p \in Nat \ {0} /\ Typed(T, W, next) /\ Listed(T, W, next, p, p - 1) /\ HeadsBack(T, old)
      /\ (~again => Once(T, W, next, p, p - 1)) /\ p \in 1 .. Len(T) /\ T[p] \in RowType(n)
      /\ IsNext(next) /\ tip \in 1 .. n /\ next[tip] # <<>> /\ w = Traces(T)[p] /\ tip = w[Len(w)]
  BY <1>1, <1>2, <1>3, <1>4 DEF Building
<1>6. OnceTo(w, Len(w))
  BY <1>1, <1>2, <1>3, LoopCheck
<1>7. Leads(T, p, next, w, tip)
  BY <1>5, <1>6 DEF Leads
<1>8. n \in Nat \ {0} /\ next[tip] \in Seq(1 .. n) /\ links \in Seq(1 .. n) /\ next[tip][1] \in 1 .. n
  <2>1. n \in Nat \ {0} /\ next[tip] \in Seq(1 .. n)
    BY <1>4, <1>5, NextIs
  <2>2. links \in Seq(1 .. n)
    BY <1>4, <1>5, <2>1, HeadTailProperties
  <2>3. 1 \in 1 .. Len(next[tip])
    BY <1>5, <2>1, EmptySeq
  <2> QED
    BY <2>1, <2>2, <2>3, ElementOfSeq
<1>9. s \in Nat /\ T[p].nodes \in Seq(1 .. n)
  BY <1>4, <1>5, LenProperties DEF RowType
<1>10. PICK r : r = [T[p] EXCEPT !.nodes = Append(T[p].nodes, next[tip][1])]
  OBVIOUS
<1>11. r \in RowType(n)
  <2>1. PICK a, row : a = Append(T[p].nodes, next[tip][1]) /\ row = T[p]
    OBVIOUS
  <2>2. a \in Seq(1 .. n)
    BY <1>8, <1>9, <2>1, AppendProperties
  <2>3. row \in RowType(n) /\ r = [row EXCEPT !.nodes = a]
    BY <1>5, <1>10, <2>1
  <2> QED
    BY <2>2, <2>3 DEF RowType
<1>12. U = [T EXCEPT ![p] = r]
  <2>1. paths' = [paths EXCEPT ![path].nodes = Append(@, g.next[Tip][1])]
    BY DEF Extend
  <2>2. U = [T EXCEPT ![p].nodes = Append(@, next[tip][1])]
    BY <1>3, <2>1
  <2> QED
    BY <1>10, <2>2
<1>13. U \in Seq(RowType(n)) /\ Changed(T, U, p, r)
  <2>1. T \in Seq(RowType(n))
    BY <1>4, <1>5 DEF Typed
  <2> QED
    BY <1>5, <1>11, <1>12, <2>1, ChangedIs
<1>14. V \in [Mid -> Entry(n)] /\ \E h : Waits(W, V, h, links, p, s)
  <2>1. V = Queued(links, s)
    BY <1>1, <1>3, <1>4
  <2>2. waiting \in [Mid -> Entry(n)]
    BY <1>3, <1>4, <1>5 DEF Typed
  <2>3. n \in Nat /\ path \in Nat /\ links \in Seq(1 .. n) /\ s \in Nat
    BY <1>2, <1>8, <1>9
  <2>4. /\ Queued(links, s) \in [Mid -> Entry(n)]
        /\ \E h : Waits(waiting, Queued(links, s), h, links, path, s)
    BY <2>2, <2>3, QueuedIs
  <2>5. waiting = W /\ path = p
    BY <1>3
  <2> QED
    BY <2>1, <2>4, <2>5, Zenon
<1>15. PICK h : Waits(W, V, h, Tail(next[tip]), p, Len(T[p].nodes))
  BY <1>4, <1>14
<1>16. /\ Typed(U, V, next) /\ Listed(U, V, next, p, p - 1)
       /\ IsInjective(next[tip]) /\ Once(T, W, next, p, p - 1) => Once(U, V, next, p, p - 1)
       /\ KeepsHeads(T, U)
       /\ Vacant(V) # {} /\ Whole(T, W, next, p) => Whole(U, V, next, p)
       /\ Marks(T, next, p, p - 1) => Marks(U, next, p, p - 1)
  BY <1>4, <1>5, <1>7, <1>10, <1>13, <1>14, <1>15, Extending
<1>17. /\ functions \in Programs /\ fi \in Nat \ {0} /\ again \in BOOLEAN /\ fi <= Len(functions)
       /\ NoNewLoop(next, old) /\ (~again => g = functions[fi])
  BY <1>2, <1>3 DEF PathsIInv, Building
<1>18. ~again => IsInjective(next[tip])
  BY <1>3, <1>4, <1>5, <1>17, GraphIs DEF IsGraph
<1>19. Old' = old /\ Filled' = p /\ path' = p /\ g'.next = next
  BY <1>1, <1>2, <1>3 DEF Old, Filled
<1>20. HeadsBack(U, old)
  BY <1>5, <1>16 DEF KeepsHeads
<1>21. Building'
  <2>1. ~again' => g' = functions'[fi'] /\ Once(U, V, next, p, p - 1)
    BY <1>1, <1>5, <1>16, <1>17, <1>18
  <2>2. path' \in Nat \ {0} /\ fi' <= Len(functions')
    BY <1>1, <1>2, <1>17
  <2> QED
    BY <1>3, <1>16, <1>17, <1>19, <1>20, <2>1, <2>2 DEF Building
<1>22. ASSUME WholeInv, RoomLeft' PROVE WholeInv'
  <2>1. Whole(T, W, next, p) /\ (~again => Marks(T, next, p, p - 1))
    BY <1>2, <1>3, <1>22 DEF WholeInv
  <2>2. Vacant(V) # {}
    BY <1>3, <1>22 DEF RoomLeft
  <2>3. Whole(U, V, next, p) /\ (~again => Marks(U, next, p, p - 1))
    BY <1>16, <2>1, <2>2
  <2>4. Whole(paths', waiting', g'.next, Filled') /\ (~again' => Marks(paths', g'.next, Filled', path' - 1))
    BY <1>1, <1>3, <1>19, <2>3
  <2>5. stage' = "paths"
    BY <1>1, <1>2
  <2> QED
    BY <2>4, <2>5 DEF WholeInv
<1>23. PathsIInv'
  BY <1>1, <1>2, <1>17, <1>21 DEF PathsIInv
<1> QED
  BY <1>22, <1>23 DEF Kept

\* The passes between the builds.
LEMMA BuildingStays ==
  ASSUME Building, UNCHANGED <<functions, fi, again, g, waiting, paths, path, walking>>
  PROVE  Building'
<1>1. Old' = Old /\ Filled' = Filled
  BY DEF Old, Filled
<1> QED
  BY <1>1 DEF Building

LEMMA ReturnsStay == ASSUME paths' = paths PROVE Returns' = Returns
BY DEF Returns, InOrder, Complete, EndNode

LEMMA StageOn ==
  ASSUME PathsIInv, UNCHANGED <<functions, fi, again, g, waiting, paths, path, walking>>,
         stage \in {"paths", "returns", "loops"}, walking = FALSE,
         stage' \in {"returns", "loops", "keep", "failed", "undefined"}, stage' = "returns" => ~again,
         stage' = "failed" => Returns # <<>> \/ TooSmall(Old),
         stage = "paths" => Used = {}
  PROVE  Kept
<1>1. Building'
  BY BuildingStays DEF PathsIInv
<1>2. (Returns # <<>> \/ TooSmall(Old))' <=> (Returns # <<>> \/ TooSmall(Old))
  <2>1. Returns' = Returns
    BY ReturnsStay
  <2>2. Old' = Old
    BY DEF Old
  <2>3. TooSmall(Old)' <=> TooSmall(Old)
    BY <2>2 DEF TooSmall
  <2> QED
    BY <2>1, <2>3
<1>3. ASSUME WholeInv PROVE WholeInv'
  <2>1. Filled' = Filled /\ Used' = Used
    BY DEF Filled, Used
  <2>2. Whole(paths, waiting, g.next, Filled) /\ (~again => Marks(paths, g.next, Filled, path - 1) /\ Used = {})
    BY <1>3 DEF WholeInv
  <2>3. /\ Whole(paths', waiting', g'.next, Filled')
        /\ ~again' => Marks(paths', g'.next, Filled', path' - 1) /\ Used' = {}
    BY <2>1, <2>2
  <2> QED
    BY <2>3 DEF WholeInv
<1>4. PathsIInv'
  BY <1>1, <1>2 DEF PathsIInv
<1> QED
  BY <1>3, <1>4 DEF Kept

LEMMA PathsPass ==
  ASSUME PathsIInv, PathsDone \/ OneReturn \/ TooManyReturns
  PROVE  Kept
<1>1. CASE PathsDone
  <2>1. stage' = "returns" => ~again
    BY <1>1 DEF PathsDone
  <2>2. walking = FALSE /\ stage' \in {"returns", "loops"}
    BY <1>1 DEF PathsDone, PathsIInv
  <2> QED
    BY <1>1, <2>1, <2>2, StageOn DEF PathsDone
<1>2. CASE OneReturn
  <2>1. walking = FALSE
    BY <1>2 DEF OneReturn, PathsIInv
  <2> QED
    BY <1>2, <2>1, StageOn DEF OneReturn
<1>3. CASE TooManyReturns
  <2>1. walking = FALSE
    BY <1>3 DEF TooManyReturns, PathsIInv
  <2>2. Returns # <<>>
    BY <1>3, EmptySeq DEF TooManyReturns
  <2> QED
    BY <1>3, <2>1, <2>2, StageOn DEF TooManyReturns
<1> QED
  BY <1>1, <1>2, <1>3

LEMMA PathsLoops == ASSUME PathsIInv, BuildLoops PROVE Kept
<1>1. /\ stage = "loops" /\ UNCHANGED <<functions, fi, again, g, waiting, paths, path, walking>>
      /\ stage' \in {"keep", "failed"} /\ (stage' = "failed" => ~(Len(LoopTable) <= LoopsSize))
  BY DEF BuildLoops
<1>2. walking = FALSE /\ Building
  BY <1>1 DEF PathsIInv
<1>3. ASSUME stage' = "failed" PROVE TooSmall(Old)
  <2>1. PICK T, old, c : T = paths /\ old = Old /\ c = Cardinality(HeadRows(paths))
    OBVIOUS
  <2>2. IsNext(old) /\ HeadsBack(T, old) /\ Typed(T, waiting, g.next)
    BY <1>2, <2>1 DEF Building, NoNewLoop
  <2>3. DOMAIN T = 1 .. Len(T) /\ Len(T) \in Nat
    BY <2>2, RowsTyped
  <2>4. /\ c \in Nat /\ Cardinality(BackLinks(old)) \in Nat /\ c <= Cardinality(BackLinks(old))
    BY <2>1, <2>2, <2>3, ManyHeads
  <2>5. Heading = HeadRows(paths)
    BY DEF Heading, HeadRows
  <2>6. Len(LoopTable) = c
    <3>1. DOMAIN LoopTable = 1 .. c /\ LoopTable = [m \in 1 .. c |-> LoopTable[m]]
      BY <2>1, <2>5 DEF LoopTable
    <3>2. PICK s, S : s = LoopTable /\ S = {s[m] : m \in 1 .. c}
      OBVIOUS
    <3>3. s \in [1 .. c -> S]
      BY <3>1, <3>2
    <3> QED
      BY <2>4, <3>2, <3>3, LenIs
  <2>7. LoopsSize \in Nat
    BY PathsAssumption
  <2>8. ~(Cardinality(BackLinks(old)) <= LoopsSize)
    BY <1>1, <1>3, <2>4, <2>6, <2>7
  <2> QED
    BY <2>1, <2>8 DEF TooSmall
<1> QED
  BY <1>1, <1>2, <1>3, StageOn

LEMMA PathsKeep == ASSUME PathsIInv, KeepFunction PROVE Kept
<1>1. PathsIInv'
  BY DEF PathsIInv, KeepFunction
<1>2. WholeInv'
  BY DEF KeepFunction, WholeInv
<1> QED
  BY <1>1, <1>2 DEF Kept

LEMMA PathsStay == ASSUME PathsIInv, UNCHANGED vars PROVE Kept
<1>1. UNCHANGED <<functions, fi, stage, again, g, waiting, paths, path, walking>>
  BY DEF vars
<1>2. Returns' = Returns /\ Old' = Old
  BY <1>1, ReturnsStay DEF Old
<1>3. TooSmall(Old)' <=> TooSmall(Old)
  BY <1>2 DEF TooSmall
<1>4. Building => Building'
  BY <1>1, BuildingStays
<1>5. PathsIInv'
  BY <1>1, <1>2, <1>3, <1>4 DEF PathsIInv
<1>6. ASSUME WholeInv PROVE WholeInv'
  <2>1. Filled' = Filled /\ Used' = Used
    BY <1>1 DEF Filled, Used
  <2> QED
    BY <1>1, <1>6, <2>1 DEF WholeInv
<1> QED
  BY <1>5, <1>6 DEF Kept

LEMMA PathsStart == ASSUME Init PROVE PathsIInv /\ WholeInv
<1>1. /\ functions \in Programs /\ fi = 1 /\ stage = "begin" /\ again = FALSE /\ walking = FALSE
  BY Zenon DEF Init
<1>2. fi \in Nat \ {0} /\ again \in BOOLEAN /\ walking \in BOOLEAN
  <2>1. 1 \in Nat \ {0} /\ FALSE \in BOOLEAN
    OBVIOUS
  <2> QED
    BY <1>1, <2>1, Zenon
<1>3. /\ stage \notin {"paths", "returns", "loops"} /\ stage # "returns" /\ stage # "failed"
      /\ walking => stage = "paths"
  BY <1>1
<1>4. PathsIInv
  BY <1>1, <1>2, <1>3, Zenon DEF PathsIInv
<1>5. WholeInv
  BY <1>3 DEF WholeInv
<1> QED
  BY <1>4, <1>5

\* A row ends where its way ends.
LEMMA RowEnd ==
  ASSUME NEW T, NEW W, NEW next, Typed(T, W, next), NEW k, Rows(T, k, next), NEW p \in 1 .. k
  PROVE  /\ Underway(next, Traces(T)[p]) /\ p \in 1 .. Len(T) /\ T[p] \in RowType(Len(next))
         /\ Last(T[p].nodes) = Traces(T)[p][Len(Traces(T)[p])]
         /\ Last(T[p].nodes) \in 1 .. Len(next)
<1>1. /\ Table(T, Len(next)) /\ Fresh(T, k) /\ k \in 0 .. Len(T) /\ IsNext(next) /\ Len(next) \in Nat
      /\ Len(T) \in Nat
  BY NextIs DEF Typed, Rows, Table
<1>2. p \in 1 .. Len(T)
  BY <1>1
<1>3. Underway(next, Traces(T)[p]) /\ T[p] \in RowType(Len(next))
  BY <1>2, RowsTyped DEF Rows
<1>4. PICK t, s : t = Traces(T)[p] /\ s = T[p].nodes
  OBVIOUS
<1>5. EndsWith(t, s) /\ t \in Seq(1 .. Len(next))
  BY <1>1, <1>4, TracesTyped
<1>6. Len(s) \in Nat \ {0} /\ Len(t) \in Nat
  BY <1>1, <1>2, <1>4, <1>5, RowIs, LenProperties
<1>7. s[Len(s)] = t[Len(t)]
  <2>1. Len(s) \in 1 .. Len(s) /\ Len(t) - Len(s) + Len(s) = Len(t)
    BY <1>6
  <2> QED
    BY <1>5, <2>1 DEF EndsWith
<1>8. t[Len(t)] \in 1 .. Len(next)
  BY <1>1, <1>3, <1>4, UnderwayIs
<1> QED
  BY <1>2, <1>3, <1>4, <1>7, <1>8 DEF Last

\* The graphs the merge leaves: a link leads where it led, or to the return a.
Redirected(old, next, a) ==
  /\ IsNext(next) /\ Len(next) = Len(old) /\ Len(next[a]) = 0
  /\ \A k \in 1 .. Len(next) : \A l \in 1 .. Len(next[k]) :
       next[k][l] = a \/ (l \in 1 .. Len(old[k]) /\ next[k][l] = old[k][l])

LEMMA UnifiedIs ==
  ASSUME IsGraph(g), NEW a \in 1 .. Len(g.next), g.next[a] = <<>>, NEW b
  PROVE  Redirected(g.next, Unified(a, b).next, a)
<1> DEFINE into == {<<g.prev[b][m], g.index[b][m]>> : m \in DOMAIN g.prev[b]}
           Link(k, l) == IF <<k, l>> \in into THEN a ELSE g.next[k][l]
           next == [k \in Node |-> [l \in DOMAIN g.next[k] |-> Link(k, l)]]
           n == Len(g.next)
<1>1. IsNext(g.next) /\ g.next # <<>>
  BY DEF IsGraph, IsNext
<1>2. n \in Nat \ {0} /\ Node = 1 .. n /\ \A k \in 1 .. n :
        /\ DOMAIN g.next[k] = 1 .. Len(g.next[k]) /\ Len(g.next[k]) \in Nat
        /\ \A l \in 1 .. Len(g.next[k]) : g.next[k][l] \in 1 .. n
  BY <1>1, NextIs DEF Node
<1>3. Unified(a, b).next = next
  BY DEF Unified, IsGraph
<1> HIDE DEF into
<1>4. \A k \in 1 .. n : \A l \in 1 .. Len(g.next[k]) :
        Link(k, l) \in 1 .. n /\ (Link(k, l) = a \/ Link(k, l) = g.next[k][l])
  BY <1>2
<1> HIDE DEF Link
<1>5. ASSUME NEW k \in 1 .. n
      PROVE  /\ next[k] \in Seq(1 .. n) /\ Len(next[k]) = Len(g.next[k])
             /\ \A l \in 1 .. Len(g.next[k]) : next[k][l] = Link(k, l)
  <2>1. PICK s, c : s = next[k] /\ c = Len(g.next[k])
    OBVIOUS
  <2>2. c \in Nat /\ s = [l \in 1 .. c |-> Link(k, l)]
    BY <1>2, <2>1
  <2>3. s \in [1 .. c -> 1 .. n] /\ \A l \in 1 .. c : s[l] = Link(k, l)
    BY <1>4, <2>1, <2>2
  <2>4. s \in Seq(1 .. n) /\ Len(s) = c
    BY <2>2, <2>3, LenIs
  <2> QED
    BY <2>1, <2>3, <2>4
<1>6. next \in Seq(Seq(1 .. n)) /\ Len(next) = n
  <2>1. next \in [1 .. n -> Seq(1 .. n)]
    BY <1>2, <1>5
  <2> HIDE DEF next
  <2> QED
    BY <1>2, <2>1, LenIs
<1>7. next # <<>>
  <2> HIDE DEF next
  <2> QED
    BY <1>2, <1>6, EmptySeq
<1>8. Len(g.next[a]) = 0
  BY EmptySeq
<1> HIDE DEF next
<1>9. Redirected(g.next, next, a)
  <2>1. ASSUME NEW k \in 1 .. n, NEW l \in 1 .. Len(next[k])
        PROVE  next[k][l] = a \/ (l \in 1 .. Len(g.next[k]) /\ next[k][l] = g.next[k][l])
    <3>1. Len(next[k]) = Len(g.next[k])
      BY <1>5
    <3>2. l \in 1 .. Len(g.next[k]) /\ next[k][l] = Link(k, l)
      BY <1>5, <3>1
    <3> QED
      BY <1>4, <3>2
  <2>2. Len(next[a]) = 0
    BY <1>5, <1>8
  <2> QED
    BY <1>2, <1>6, <1>7, <2>1, <2>2 DEF Redirected, IsNext
<1> QED
  BY <1>3, <1>9

LEMMA ShortenedIs ==
  ASSUME IsGraph(g), NEW a \in 1 .. Len(g.next), g.next[a] = <<>>, NEW b \in 1 .. Len(g.next), a # b
  PROVE  Redirected(g.next, Shortened(a, b).next, a)
<1> DEFINE next == [g.next EXCEPT ![b] = <<a>>]
           n == Len(g.next)
<1>1. IsNext(g.next) /\ g.next # <<>>
  BY DEF IsGraph, IsNext
<1>2. n \in Nat \ {0} /\ g.next \in Seq(Seq(1 .. n)) /\ \A k \in 1 .. n :
        /\ g.next[k] \in Seq(1 .. n) /\ \A l \in 1 .. Len(g.next[k]) : g.next[k][l] \in 1 .. n
  BY <1>1, NextIs DEF IsNext
<1>3. Shortened(a, b).next = next
  BY DEF Shortened, IsGraph
<1>4. <<a>> \in Seq(1 .. n) /\ Len(<<a>>) = 1 /\ <<a>>[1] = a
  BY <1>2
<1>5. next \in Seq(Seq(1 .. n)) /\ Len(next) = n /\ \A k \in 1 .. n : next[k] = IF k = b THEN <<a>> ELSE g.next[k]
  <2>1. PICK S, s : S = Seq(1 .. n) /\ s = g.next
    OBVIOUS
  <2>2. s \in Seq(S) /\ <<a>> \in S /\ b \in 1 .. Len(s) /\ next = [s EXCEPT ![b] = <<a>>] /\ Len(s) = n
    BY <1>2, <1>4, <2>1
  <2> HIDE DEF next
  <2> QED
    BY <2>1, <2>2, ExceptSeq
<1> HIDE DEF next
<1>6. next # <<>>
  BY <1>2, <1>5, EmptySeq
<1>7. Len(next[a]) = 0
  BY <1>5, EmptySeq
<1>8. ASSUME NEW k \in 1 .. n, NEW l \in 1 .. Len(next[k])
      PROVE  next[k][l] = a \/ (l \in 1 .. Len(g.next[k]) /\ next[k][l] = g.next[k][l])
  <2>1. CASE k = b
    <3>1. next[k] = <<a>>
      BY <1>5, <2>1
    <3>2. l \in 1 .. 1 /\ next[k][l] = <<a>>[l]
      BY <1>4, <3>1
    <3>3. l = 1
      BY <3>2
    <3> QED
      BY <1>4, <3>2, <3>3
  <2>2. CASE k # b
    BY <1>5, <2>2
  <2> QED
    BY <2>1, <2>2
<1>9. Redirected(g.next, next, a)
  BY <1>5, <1>6, <1>7, <1>8 DEF Redirected, IsNext
<1> QED
  BY <1>3, <1>9

\* Both returns end the function.
LEMMA ReturnsLast ==
  ASSUME PathsIInv, stage = "returns", Len(Returns) = 2, NEW i \in 1 .. 2
  PROVE  Returns[i] \in 1 .. Len(g.next) /\ g.next[Returns[i]] = <<>>
<1>1. Building /\ ~again /\ walking = FALSE
  BY DEF PathsIInv
<1>2. PICK T, W, next, k : T = paths /\ W = waiting /\ next = g.next /\ k = path - 1
  OBVIOUS
<1>3. /\ Typed(T, W, next) /\ Listed(T, W, next, k, k) /\ Once(T, W, next, k, k) /\ k \in Nat
  BY <1>1, <1>2 DEF Building, Filled
<1>4. Len(T) = k /\ DOMAIN T = 1 .. k /\ Rows(T, k, next)
  BY <1>3, RowsTyped DEF Once, Listed
<1>5. Returns # <<>>
  <2>1. Len(<<>>) = 0
    BY EmptySeq
  <2> QED
    BY <2>1
<1>6. PICK p \in Complete : Returns[i] = EndNode(p)
  BY <1>2, <1>3, <1>4, <1>5, ReturnsEnd
<1>7. p \in 1 .. k /\ T[p].head = 0 /\ Returns[i] = Last(T[p].nodes)
  BY <1>2, <1>4, <1>6 DEF Complete, EndNode
<1>8. EndWalk(next, Traces(T)[p])
  BY <1>3, <1>7 DEF Once
<1>9. /\ Last(T[p].nodes) = Traces(T)[p][Len(Traces(T)[p])] /\ Last(T[p].nodes) \in 1 .. Len(next)
  BY <1>3, <1>4, <1>7, RowEnd
<1> QED
  BY <1>2, <1>7, <1>8, <1>9 DEF EndWalk

LEMMA MergedGraph ==
  ASSUME PathsIInv, NEW common, MergeReturns(common)
  PROVE  /\ IsNext(g'.next) /\ Len(g'.next) = Len(g.next)
         /\ \A t : LoopWalk(g'.next, t) => LoopWalk(g.next, t)
<1>1. stage = "returns" /\ Len(Returns) = 2
  BY DEF MergeReturns
<1>2. Building /\ g = functions[fi]
  BY <1>1 DEF PathsIInv, Building
<1>3. IsGraph(g) /\ IsNext(g.next)
  BY <1>2, GraphIs DEF PathsIInv, Building
<1>4. PICK a, b : /\ {a, b} \subseteq {Returns[1], Returns[2]}
                  /\ g' = g \/ g' = Unified(a, b) \/ (g.len[a] < g.len[b] /\ g' = Shortened(a, b))
  BY DEF MergeReturns
<1>5. a \in 1 .. Len(g.next) /\ b \in 1 .. Len(g.next) /\ g.next[a] = <<>>
  BY <1>1, <1>4, ReturnsLast
<1>6. CASE g' = g
  BY <1>3, <1>6
<1>7. CASE g' # g
  <2>1. Redirected(g.next, g'.next, a)
    <3>1. CASE g' = Unified(a, b)
      BY <1>3, <1>5, <3>1, UnifiedIs
    <3>2. CASE g.len[a] < g.len[b] /\ g' = Shortened(a, b)
      <4>1. g.len[a] \in Nat /\ g.len[b] \in Nat
        BY <1>3, <1>5 DEF IsGraph
      <4>2. a # b
        BY <3>2, <4>1
      <4> QED
        BY <1>3, <1>5, <3>2, <4>2, ShortenedIs
    <3> QED
      BY <1>4, <1>7, <3>1, <3>2
  <2>2. PICK old, next : old = g.next /\ next = g'.next
    OBVIOUS
  <2>3. IsNext(old) /\ Redirected(old, next, a)
    BY <1>3, <2>1, <2>2
  <2>4. IsNext(next) /\ Len(next) = Len(old)
    BY <2>3 DEF Redirected
  <2>5. ASSUME NEW t, LoopWalk(next, t) PROVE LoopWalk(old, t)
    BY <2>3, <2>5, MergedLoops DEF Redirected
  <2> QED
    BY <2>2, <2>4, <2>5
<1> QED
  BY <1>6, <1>7

LEMMA PathsMerge == ASSUME PathsIInv, NEW common, MergeReturns(common) PROVE Kept
<1>1. /\ stage = "returns" /\ stage' = "paths" /\ again' = TRUE /\ waiting' = Start /\ path' = 1
      /\ UNCHANGED <<functions, fi, paths, walking>>
  BY DEF MergeReturns
<1>2. Building /\ walking = FALSE /\ functions \in Programs /\ fi \in Nat \ {0}
  BY <1>1 DEF PathsIInv
<1>3. /\ IsNext(g'.next) /\ Len(g'.next) = Len(g.next)
      /\ \A t : LoopWalk(g'.next, t) => LoopWalk(g.next, t)
  BY MergedGraph
<1>4. PICK T, next, nxt, old : T = paths /\ next = g.next /\ nxt = g'.next /\ old = Old
  OBVIOUS
<1>5. Typed(T, waiting, next) /\ Table(T, Len(next)) /\ NoNewLoop(next, old) /\ HeadsBack(T, old)
  BY <1>2, <1>4 DEF Building, Listed, Rows
<1>6. IsNext(nxt) /\ Len(nxt) = Len(next)
  BY <1>3, <1>4
<1>7. Typed(T, Start, nxt) /\ Listed(T, Start, nxt, 0, 0)
  BY <1>5, <1>6, Starting
<1>8. NoNewLoop(nxt, old)
  BY <1>3, <1>4, <1>5 DEF NoNewLoop
<1>9. Old' = old /\ Filled' = 0 /\ path' - 1 = 0 /\ path' \in Nat \ {0} /\ fi' <= Len(functions')
  BY <1>1, <1>2, <1>4 DEF Old, Filled, Building
<1>10. Building'
  BY <1>1, <1>4, <1>5, <1>7, <1>8, <1>9 DEF Building
<1>11. PathsIInv'
  BY <1>1, <1>2, <1>10 DEF PathsIInv
<1>12. WholeInv'
  BY <1>1, <1>9 DEF WholeInv, Whole
<1> QED
  BY <1>11, <1>12 DEF Kept

LEMMA PathsNext == ASSUME PathsIInv, [Next]_vars PROVE Kept
<1>1. ASSUME NEW common \in 0 .. Max({g.len[k] : k \in Node}), MergeReturns(common) \/ MergeTails(common)
      PROVE  Kept
  <2>1. CASE MergeReturns(common)
    BY <2>1, PathsMerge
  <2>2. CASE MergeTails(common)
    <3>1. stage = "returns" /\ walking = FALSE /\ UNCHANGED <<functions, fi, again, g, waiting, paths, path, walking>>
          /\ stage' = "undefined"
      BY <2>2 DEF MergeTails, PathsIInv
    <3> QED
      BY <3>1, StageOn
  <2> QED
    BY <1>1, <2>1, <2>2
<1>2. CASE UNCHANGED vars
  BY <1>2, PathsStay
<1> QED
  BY <1>1, <1>2, PathsBegin, PathsTake, PathsClose, PathsExtend, PathsEndPath, PathsPass, PathsLoops,
     PathsKeep DEF Next, PathsStep

\* The invariant implies what the table promises.
LEMMA PathsImply == ASSUME PathsIInv PROVE PathsSound
<1>1. ASSUME stage = "loops", ~again
      PROVE  {Trace[p] : p \in DOMAIN paths} \subseteq Returning(functions[fi].next) \cup Looping(functions[fi].next)
  <2>1. Building /\ walking = FALSE /\ g = functions[fi]
    BY <1>1 DEF PathsIInv, Building
  <2>2. PICK T, W, next, k : T = paths /\ W = waiting /\ next = g.next /\ k = path - 1
    OBVIOUS
  <2>3. /\ Typed(T, W, next) /\ Listed(T, W, next, k, k) /\ Once(T, W, next, k, k)
    BY <1>1, <2>1, <2>2 DEF Building, Filled
  <2>4. DOMAIN T = 1 .. k /\ IsNext(next)
    BY <2>3, RowsTyped DEF Once, Typed
  <2>5. ASSUME NEW p \in DOMAIN T PROVE Traces(T)[p] \in Returning(next) \cup Looping(next)
    <3>1. Way(next, Traces(T)[p])
      BY <2>3, <2>4 DEF Listed
    <3> QED
      BY <2>4, <3>1, InReturning, InLooping DEF Way
  <2> QED
    BY <2>1, <2>2, <2>5, TraceIs
<1>2. ASSUME stage = "failed" PROVE Returns # <<>> \/ TooSmall(functions[fi].next)
  BY <1>2 DEF PathsIInv, Old
<1> QED
  BY <1>1, <1>2 DEF PathsSound, TooSmall

\* Whatever the functions and the sizes of the tables, the path table never lists a way
\* that the function does not have, and main gives up on a function with at most one
\* return only when it has as many ways as the table has rows, or more links back than
\* the loop table has (build_control_flow_paths and main's loop over the functions).
THEOREM TableSound == Spec => []PathsSound
<1>1. Init => PathsIInv
  BY PathsStart
<1>2. PathsIInv /\ [Next]_vars => PathsIInv'
  BY PathsNext DEF Kept
<1>3. PathsIInv => PathsSound
  BY PathsImply
<1> QED
  BY <1>1, <1>2, <1>3, PTL DEF Spec

-----------------------------------------------------------------------------
(* The whole table *)

\* When nothing waits any more, every way is a row.
LEMMA AllWays ==
  ASSUME NEW T, NEW W, NEW next, NEW k \in Nat, Typed(T, W, next), Listed(T, W, next, k, k),
         Whole(T, W, next, k), InUse(W) = {}, NEW t, Way(next, t)
  PROVE  \E p \in 1 .. k : Traces(T)[p] = t
<1>1. k # 0
  BY StartIs DEF Listed
<1>2. PICK p \in 1 .. k : Begins(Traces(T)[p], t)
  BY <1>1 DEF Whole, Covers, Way
<1>3. Way(next, Traces(T)[p]) /\ IsNext(next)
  BY DEF Listed, Typed
<1> QED
  BY <1>2, <1>3, WholeWays

LEMMA RowsAre ==
  ASSUME PathsIInv, stage = "loops"
  PROVE  /\ path - 1 \in Nat /\ Typed(paths, waiting, g.next) /\ IsNext(g.next)
         /\ Listed(paths, waiting, g.next, path - 1, path - 1)
         /\ \A p \in 1 .. path - 1 : p \in 1 .. Len(paths)
         /\ ~again => Once(paths, waiting, g.next, path - 1, path - 1)
         /\ WholeInv => Whole(paths, waiting, g.next, path - 1)
         /\ WholeInv /\ ~again => Marks(paths, g.next, path - 1, path - 1) /\ Used = {}
<1>1. Building /\ walking = FALSE /\ Filled = path - 1
  BY DEF PathsIInv, Filled
<1>2. path \in Nat \ {0} /\ Typed(paths, waiting, g.next) /\ IsNext(g.next)
  BY <1>1 DEF Building, Typed
<1>3. Listed(paths, waiting, g.next, path - 1, path - 1)
  BY <1>1 DEF Building
<1>4. Len(paths) \in Nat /\ path - 1 \in 0 .. Len(paths)
  BY <1>3 DEF Listed, Rows, Table
<1>5. path - 1 \in Nat /\ \A p \in 1 .. path - 1 : p \in 1 .. Len(paths)
  BY <1>2, <1>4
<1>6. ~again => Once(paths, waiting, g.next, path - 1, path - 1)
  BY <1>1 DEF Building
<1>7. /\ WholeInv => Whole(paths, waiting, g.next, path - 1)
      /\ WholeInv /\ ~again => Marks(paths, g.next, path - 1, path - 1) /\ Used = {}
  BY <1>1 DEF WholeInv
<1> QED
  BY <1>2, <1>3, <1>5, <1>6, <1>7

\* The rows of the last build, over which a shorter one may leave rows of the one before.
Found == {Trace[p] : p \in 1 .. path - 1}
Ways(next) == Returning(next) \cup Looping(next)

LEMMA FoundWays == ASSUME PathsIInv, stage = "loops" PROVE Found \subseteq Ways(g.next)
<1>1. PICK T, next, k : T = paths /\ next = g.next /\ k = path - 1
  OBVIOUS
<1>2. IsNext(next) /\ Listed(T, waiting, next, k, k)
  BY <1>1, RowsAre
<1>3. ASSUME NEW p \in 1 .. k PROVE Traces(T)[p] \in Ways(next)
  <2>1. Way(next, Traces(T)[p])
    BY <1>2 DEF Listed
  <2> QED
    BY <1>2, <2>1, InReturning, InLooping DEF Way, Ways
<1> QED
  BY <1>1, <1>3, TraceIs DEF Found

LEMMA WaysFound ==
  ASSUME PathsIInv, WholeInv, stage = "loops", Used = {} PROVE Ways(g.next) \subseteq Found
<1>1. PICK T, W, next, k : T = paths /\ W = waiting /\ next = g.next /\ k = path - 1
  OBVIOUS
<1>2. /\ IsNext(next) /\ k \in Nat /\ Typed(T, W, next) /\ Listed(T, W, next, k, k)
      /\ Whole(T, W, next, k)
  BY <1>1, RowsAre
<1>3. InUse(W) = {}
  BY <1>1 DEF InUse, Used
<1>4. ASSUME NEW t \in Ways(next) PROVE \E p \in 1 .. k : Traces(T)[p] = t
  <2>1. Way(next, t)
    BY <1>2, ReturningIs, LoopingIs DEF Way, Ways
  <2> QED
    BY <1>2, <1>3, <2>1, AllWays
<1>5. ASSUME NEW t \in Ways(g.next) PROVE t \in Found
  <2>1. PICK p \in 1 .. path - 1 : Traces(paths)[p] = t
    BY <1>1, <1>4
  <2> QED
    BY <2>1, TraceIs DEF Found
<1> QED
  BY <1>5

LEMMA CompleteAre == ASSUME PathsIInv, WholeInv, ~again PROVE PathsComplete
<1> SUFFICES ASSUME stage = "loops" PROVE PathsComplete
  BY DEF PathsComplete, AtLoops
<1>1. PICK T, next, k, ways : /\ T = paths /\ next = g.next /\ k = path - 1
                              /\ ways = [p \in DOMAIN paths |-> Trace[p]]
  OBVIOUS
<1>2. /\ k \in Nat /\ Typed(T, waiting, next) /\ IsNext(next)
      /\ Once(T, waiting, next, k, k) /\ Marks(T, next, k, k) /\ Used = {}
  BY <1>1, RowsAre
<1>3. DOMAIN T = 1 .. k /\ Len(T) = k
  BY <1>2, RowsTyped DEF Once
<1>4. DOMAIN ways = 1 .. k /\ \A p \in 1 .. k : ways[p] = Traces(T)[p]
  BY <1>1, <1>3, TraceIs
<1>5. Range(ways) = Returning(next) \cup Looping(next)
  <2>1. Range(ways) = Found
    BY <1>1, <1>3 DEF Range, Found
  <2>2. Found = Ways(g.next)
    BY <1>2, FoundWays, WaysFound
  <2> QED
    BY <1>1, <2>1, <2>2 DEF Ways
<1>6. IsInjective(ways)
  <2>1. ASSUME NEW p \in 1 .. k, NEW q \in 1 .. k, ways[p] = ways[q] PROVE p = q
    <3>1. k # 0
      OBVIOUS
    <3>2. p # q => Parted(Traces(T)[p], Traces(T)[q])
      BY <1>2, <3>1 DEF Once, Apart
    <3>3. ~Parted(ways[p], ways[p])
      BY DEF Parted
    <3> QED
      BY <1>4, <2>1, <3>2, <3>3
  <2> QED
    BY <1>4, <2>1 DEF IsInjective
<1>7. ASSUME NEW p \in 1 .. k
      PROVE  /\ T[p].type = "loop" <=> ways[p] \in Looping(next)
             /\ T[p].head = IF ways[p] \in Looping(next) THEN Last(ways[p]) ELSE 0
  <2>1. Marked(next, T[p], ways[p])
    BY <1>2, <1>4 DEF Marks
  <2>2. ways[p] \in Looping(next) <=> LoopWalk(next, ways[p])
    BY <1>2, InLooping, LoopingIs
  <2> QED
    BY <2>1, <2>2 DEF Marked, Last
<1> QED
  BY <1>1, <1>3, <1>5, <1>6, <1>7 DEF PathsComplete

\* As long as node_mid_start has room, the path table of the first build lists every way
\* through the function once and no other, and marks those that close a loop with their
\* heads, whatever the function (build_control_flow_paths).
THEOREM TableComplete == Spec /\ []RoomLeft => [](~again => PathsComplete)
<1>1. Init => PathsIInv /\ WholeInv
  BY PathsStart
<1>2. PathsIInv /\ WholeInv /\ [Next]_vars /\ RoomLeft' => PathsIInv' /\ WholeInv'
  BY PathsNext DEF Kept
<1>3. PathsIInv /\ WholeInv => (~again => PathsComplete)
  BY CompleteAre
<1> QED
  BY <1>1, <1>2, <1>3, PTL DEF Spec

\* Built a second time over the old table, for the graph in which two returns are merged,
\* the table still lists no way but those of that graph in the rows of the build, and, as long
\* as there is room, all of them when no way out of a branch is left waiting
\* (build_control_flow_paths, called again by main).
THEOREM TableAgain ==
  /\ Spec => [](stage = "loops" => Found \subseteq Ways(g.next))
  /\ Spec /\ []RoomLeft => [](stage = "loops" /\ Used = {} => Found = Ways(g.next))
<1>1. Init => PathsIInv /\ WholeInv
  BY PathsStart
<1>2. PathsIInv /\ [Next]_vars => PathsIInv'
  BY PathsNext DEF Kept
<1>3. PathsIInv /\ WholeInv /\ [Next]_vars /\ RoomLeft' => PathsIInv' /\ WholeInv'
  BY PathsNext DEF Kept
<1>4. PathsIInv => (stage = "loops" => Found \subseteq Ways(g.next))
  BY FoundWays
<1>5. PathsIInv /\ WholeInv => (stage = "loops" /\ Used = {} => Found = Ways(g.next))
  BY FoundWays, WaysFound
<1>6. Spec => [](stage = "loops" => Found \subseteq Ways(g.next))
  BY <1>1, <1>2, <1>4, PTL DEF Spec
<1>7. Spec /\ []RoomLeft => [](stage = "loops" /\ Used = {} => Found = Ways(g.next))
  BY <1>1, <1>3, <1>5, PTL DEF Spec
<1> QED
  BY <1>6, <1>7

-----------------------------------------------------------------------------
(* The loop edges *)

\* The links a way may have closed its loop by.
LastLinks(next, t) == {lk \in Links(next) : lk[1] = t[Len(t) - 1] /\ Target(next, lk) = t[Len(t)]}

\* The loop edges are links back, those of all the rows up to d, and the heads are where
\* they lead.
Linked(T, next, E, d) ==
  \A p \in 1 .. d : LoopWalk(next, Traces(T)[p]) => LastLinks(next, Traces(T)[p]) \subseteq E
EdgesInv ==
  stage \in {"paths", "returns", "loops"} /\ ~again =>
    /\ edges \subseteq BackLinks(g.next)
    /\ heads = {Target(g.next, lk) : lk \in edges}
    /\ Linked(paths, g.next, edges, path - 1)

LEMMA LastBack ==
  ASSUME NEW next, IsNext(next), NEW t, LoopWalk(next, t) PROVE LastLinks(next, t) \subseteq BackLinks(next)
<1>1. t \in Looping(next)
  BY InLooping
<1> QED
  BY <1>1 DEF LastLinks, BackLinks

LEMMA BackLast ==
  ASSUME NEW next, IsNext(next), NEW lk \in BackLinks(next)
  PROVE  \E t : LoopWalk(next, t) /\ lk \in LastLinks(next, t)
<1>1. lk \in Links(next)
  BY DEF BackLinks
<1>2. PICK t \in Looping(next) : t[Len(t) - 1] = lk[1] /\ t[Len(t)] = Target(next, lk)
  BY DEF BackLinks
<1>3. LoopWalk(next, t)
  BY <1>2, LoopingIs
<1>4. lk \in LastLinks(next, t)
  BY <1>1, <1>2 DEF LastLinks
<1> QED
  BY <1>3, <1>4

\* The links from a node to another.
LEMMA BetweenIs ==
  ASSUME IsNext(g.next), NEW i \in 1 .. Len(g.next), NEW j
  PROVE  LinksBetween(i, j) = {lk \in Links(g.next) : lk[1] = i /\ Target(g.next, lk) = j}
<1>1. PICK next : next = g.next
  OBVIOUS
<1>2. DOMAIN next = 1 .. Len(next)
  BY <1>1, NextIs
<1>3. LinksBetween(i, j) = {<<i, l>> : l \in {l \in DOMAIN next[i] : next[i][l] = j}}
  BY <1>1 DEF LinksBetween
<1>4. i \in DOMAIN next
  BY <1>1, <1>2
<1>5. ASSUME NEW lk \in LinksBetween(i, j) PROVE lk \in Links(next) /\ lk[1] = i /\ Target(next, lk) = j
  <2>1. PICK l \in DOMAIN next[i] : lk = <<i, l>> /\ next[i][l] = j
    BY <1>3
  <2>2. lk \in {i} \X DOMAIN next[i]
    BY <2>1
  <2>3. lk \in Links(next)
    BY <1>4, <2>2 DEF Links
  <2> QED
    BY <2>1, <2>3 DEF Target
<1>6. ASSUME NEW lk \in Links(next), lk[1] = i, Target(next, lk) = j PROVE lk \in LinksBetween(i, j)
  <2>1. PICK k \in DOMAIN next : lk \in {k} \X DOMAIN next[k]
    BY DEF Links
  <2>2. PICK l \in DOMAIN next[k] : lk = <<k, l>>
    BY <2>1
  <2>3. k = i /\ next[i][l] = j
    BY <1>6, <2>2 DEF Target
  <2> QED
    BY <1>3, <2>2, <2>3
<1>7. LinksBetween(i, j) = {lk \in Links(next) : lk[1] = i /\ Target(next, lk) = j}
  BY <1>5, <1>6
<1> QED
  BY <1>1, <1>7

\* A link of a node to itself is a link back, when a walk gets to the node.
LEMMA SelfBack ==
  ASSUME NEW next, IsNext(next), NEW t, LoopWalk(next, t),
         NEW lk \in Links(next), lk[1] = t[Len(t)], Target(next, lk) = t[Len(t)]
  PROVE  lk \in BackLinks(next)
<1>1. Walks(next, t) /\ OnceTo(t, Len(t) - 1) /\ Len(t) \in Nat /\ t \in Seq(1 .. Len(next))
  BY WalkIs DEF LoopWalk, Walks
<1>2. PICK j \in 1 .. Len(t) - 1 : t[j] = t[Len(t)]
  BY DEF LoopWalk
<1>3. PICK n, h : n = Len(next) /\ h = t[Len(t)]
  OBVIOUS
<1>4. n \in Nat /\ t \in Seq(1 .. n) /\ j \in 1 .. Len(t) /\ h \in 1 .. n
  BY <1>1, <1>2, <1>3, WalkIs, NextIs
<1>5. EndsWith(t, t)
  BY <1>1 DEF EndsWith
<1>6. PICK c : /\ c \in Seq(1 .. n) /\ Len(c) = j /\ c[j] = h /\ \A i \in 1 .. j : c[i] = t[i]
  <2>1. PICK d : d = Len(t) - (Len(t) - j)
    OBVIOUS
  <2>2. d = j
    BY <1>1, <1>4, <2>1
  <2>3. /\ SubSeq(t, 1, d) \in Seq(1 .. n) /\ Len(SubSeq(t, 1, d)) = d /\ SubSeq(t, 1, d)[d] = t[j]
        /\ \A i \in 1 .. d : SubSeq(t, 1, d)[i] = t[i]
    BY <1>4, <1>5, <2>1, CutIs
  <2> QED
    BY <1>2, <1>3, <2>2, <2>3
<1>7. Walks(next, c)
  <2>1. ASSUME NEW i \in 1 .. Len(c) - 1
        PROVE  \E l \in 1 .. Len(next[c[i]]) : c[i + 1] = next[c[i]][l]
    <3>1. i \in 1 .. Len(t) - 1 /\ i \in 1 .. j /\ i + 1 \in 1 .. j
      BY <1>1, <1>4, <1>6
    <3> QED
      BY <1>1, <1>6, <3>1 DEF Walks
  <2>2. c # <<>> /\ c[1] = 1
    <3>1. Len(c) # 0 /\ 1 \in 1 .. j
      BY <1>2, <1>6
    <3>2. c # <<>>
      BY <1>6, <3>1, EmptySeq
    <3> QED
      BY <1>1, <1>6, <3>1, <3>2 DEF Walks
  <2> QED
    BY <1>3, <1>6, <2>1, <2>2 DEF Walks
<1>8. OnceTo(c, Len(c))
  <2>1. \A i \in 1 .. j : i \in 1 .. Len(t) - 1
    BY <1>1, <1>2
  <2> QED
    BY <1>1, <1>6, <2>1 DEF OnceTo
<1>9. PICK l \in 1 .. Len(next[h]) : lk = <<h, l>> /\ next[h][l] = h
  <2>1. PICK k \in DOMAIN next : lk \in {k} \X DOMAIN next[k]
    BY DEF Links
  <2>2. PICK l \in DOMAIN next[k] : lk = <<k, l>>
    BY <2>1
  <2>3. k = h /\ next[h][l] = h
    BY <1>3, <2>2 DEF Target
  <2>4. DOMAIN next[h] = 1 .. Len(next[h])
    BY <1>3, <1>4, NextIs
  <2> QED
    BY <2>2, <2>3, <2>4
<1>10. PICK u : u = Append(c, h)
  OBVIOUS
<1>11. Walks(next, u) /\ Len(u) = j + 1 /\ \A i \in 1 .. j : u[i] = c[i]
  <2>1. h = c[Len(c)]
    BY <1>6
  <2> QED
    BY SMTT(40), <1>6, <1>7, <1>9, <1>10, <2>1, WalkOn
<1>12. u[j + 1] = h /\ u[j] = h
  <2>1. h \in 1 .. n
    BY <1>4
  <2>2. u[Len(c) + 1] = h
    BY <1>6, <1>10, <2>1, AppendProperties
  <2>3. j \in 1 .. j
    BY <1>2
  <2> QED
    BY <1>6, <1>11, <2>2, <2>3
<1>13. j \in Nat \ {0} /\ Len(u) - 1 = j
  BY <1>2, <1>11
<1>14. LoopWalk(next, u)
  <2>1. OnceTo(u, j)
    BY <1>6, <1>8, <1>11 DEF OnceTo
  <2>2. j \in 1 .. Len(u) - 1 /\ u[j] = u[Len(u)]
    BY <1>11, <1>12, <1>13
  <2> QED
    BY <1>11, <1>13, <2>1, <2>2 DEF LoopWalk
<1>15. lk \in LastLinks(next, u)
  <2>1. lk[1] = u[Len(u) - 1] /\ Target(next, lk) = u[Len(u)]
    BY <1>3, <1>11, <1>12, <1>13
  <2> QED
    BY <2>1 DEF LastLinks
<1> QED
  BY <1>14, <1>15, LastBack

\* The ways to rows that a step leaves as they are.
LEMMA WaysSame ==
  ASSUME Building, Building', g' = g, NEW k \in Nat, k <= Filled, k <= Filled',
         \A i \in 1 .. k : SameRow(paths, paths', i)
  PROVE  SameWays(paths, paths', k)
<1>1. PICK T, U, next, m, d : T = paths /\ U = paths' /\ next = g.next /\ m = Filled /\ d = Filled'
  OBVIOUS
<1>2. Rows(T, m, next) /\ IsNext(next)
  BY <1>1 DEF Building, Listed, Typed
<1>3. Rows(U, d, next)
  BY <1>1 DEF Building, Listed
<1>4. /\ Table(T, Len(next)) /\ Table(U, Len(next)) /\ Fresh(T, m) /\ Len(next) \in Nat
      /\ Len(T) \in Nat /\ Len(U) \in Nat /\ m \in 0 .. Len(T) /\ d \in 0 .. Len(U)
  BY <1>2, <1>3, NextIs DEF Rows, Table
<1>5. k \in 0 .. Len(T) /\ k <= Len(U) /\ \A p \in 1 .. k : p \in 1 .. m
  BY <1>1, <1>4
<1>6. Fresh(T, k)
  BY <1>4, <1>5 DEF Fresh
<1>7. \A p \in 1 .. k : SameRow(T, U, p)
  BY <1>1
<1>8. \A p \in 1 .. k : Traces(U)[p] = Traces(T)[p]
  BY <1>4, <1>5, <1>6, <1>7, SameRows
<1> QED
  BY <1>1, <1>8 DEF SameWays

\* A step that leaves the loop edges and the rows before path as they are.
LEMMA EdgesStay ==
  ASSUME EdgesInv, stage \in {"paths", "returns", "loops"}, g' = g, again' = again, edges' = edges,
         heads' = heads, path' = path, SameWays(paths, paths', path - 1)
  PROVE  EdgesInv'
<1> SUFFICES ASSUME ~again PROVE EdgesInv'
  BY DEF EdgesInv
<1>1. PICK T, U, next, E, d : T = paths /\ U = paths' /\ next = g.next /\ E = edges /\ d = path - 1
  OBVIOUS
<1>2. edges \subseteq BackLinks(g.next) /\ heads = {Target(g.next, lk) : lk \in edges} /\ Linked(T, next, E, d)
  BY <1>1 DEF EdgesInv
<1>3. SameWays(T, U, d)
  BY <1>1
<1>4. Linked(U, next, E, d)
  BY <1>2, <1>3 DEF Linked, SameWays
<1>5. Linked(paths', g'.next, edges', path' - 1)
  BY <1>1, <1>4
<1>6. edges' \subseteq BackLinks(g'.next) /\ heads' = {Target(g'.next, lk) : lk \in edges'}
  BY <1>2
<1> QED
  BY <1>5, <1>6 DEF EdgesInv

LEMMA EdgesPass ==
  ASSUME EdgesInv, stage \in {"paths", "returns", "loops"},
         UNCHANGED <<g, again, edges, heads, path, paths>>
  PROVE  EdgesInv'
<1>1. SameWays(paths, paths', path - 1)
  BY DEF SameWays
<1> QED
  BY <1>1, EdgesStay

LEMMA EdgesTake == ASSUME PathsIInv, PathsIInv', EdgesInv, TakeMid PROVE EdgesInv'
<1>1. /\ Building /\ stage = "paths" /\ stage' = "paths" /\ walking = FALSE /\ walking' = TRUE /\ Used # {}
      /\ path' = path /\ UNCHANGED <<g, again, edges, heads>>
  BY DEF PathsIInv, TakeMid
<1>2. Building'
  BY <1>1 DEF PathsIInv
<1>3. PICK T, W, p, next, m : T = paths /\ W = waiting /\ p = path /\ next = g.next /\ m = Min(Used)
  OBVIOUS
<1>4. Filled = p - 1 /\ Filled' = p
  BY <1>1, <1>3 DEF Filled
<1>5. p \in Nat \ {0} /\ Typed(T, W, next) /\ Listed(T, W, next, p - 1, p - 1)
  BY <1>1, <1>3, <1>4 DEF Building
<1>6. /\ Len(next) \in Nat \ {0} /\ T \in Seq(RowType(Len(next))) /\ Len(T) \in Nat
      /\ p - 1 \in 0 .. Len(T) /\ \A j \in Mid : W[j] \in Entry(Len(next))
  BY <1>5, RowsTyped DEF Typed, Listed, Rows
<1>7. m \in Used
  <2>1. Used \in SUBSET Nat
    BY MidIs DEF Used
  <2> QED
    BY <1>1, <1>3, <2>1, MinIs
<1>8. W[m] \in Entry(Len(next)) /\ W[m].node # 0
  BY <1>3, <1>6, <1>7 DEF Used
<1>9. paths' = Begun(T, p, W[m])
  BY <1>3 DEF TakeMid, Begun, Older
<1>10. \A i \in 1 .. Len(T) : i # p => paths'[i] = T[i]
  <2>1. p \in 1 .. Len(T) + 1
    BY <1>5, <1>6
  <2> QED
    BY <1>6, <1>8, <1>9, <2>1, BegunIs
<1>11. ASSUME NEW i \in 1 .. p - 1 PROVE SameRow(paths, paths', i)
  <2>1. i \in 1 .. Len(T) /\ i # p
    BY <1>5, <1>6
  <2> QED
    BY <1>3, <1>10, <2>1 DEF SameRow
<1>12. SameWays(paths, paths', path - 1)
  <2>1. p - 1 \in Nat /\ p - 1 <= Filled /\ p - 1 <= Filled'
    BY <1>4, <1>5
  <2> QED
    BY <1>1, <1>2, <1>3, <1>11, <2>1, WaysSame
<1> QED
  BY <1>1, <1>12, EdgesStay

LEMMA EdgesExtend == ASSUME PathsIInv, PathsIInv', EdgesInv, Extend PROVE EdgesInv'
<1>1. Walking /\ path' = path /\ walking' = walking /\ stage' = stage /\ UNCHANGED <<g, again, edges, heads>>
      /\ paths' = [paths EXCEPT ![path].nodes = Append(@, g.next[Tip][1])]
  BY DEF Extend
<1>2. Building /\ stage = "paths" /\ walking /\ Filled = path /\ path \in Nat \ {0} /\ path \in 1 .. Len(paths)
  BY <1>1, TipIs
<1>3. Building' /\ Filled' = path
  BY <1>1, <1>2 DEF PathsIInv, Filled
<1>4. DOMAIN paths = 1 .. Len(paths) /\ Len(paths) \in Nat
  BY <1>2, RowsTyped DEF Building
<1>5. PICK p : p = path
  OBVIOUS
<1>6. ASSUME NEW i \in 1 .. p - 1 PROVE SameRow(paths, paths', i)
  <2>1. i \in DOMAIN paths /\ i # path
    BY <1>2, <1>4, <1>5
  <2>2. paths'[i] = paths[i]
    BY <1>1, <2>1
  <2> QED
    BY <2>2 DEF SameRow
<1>7. p - 1 \in Nat /\ p - 1 <= Filled /\ p - 1 <= Filled'
  BY <1>2, <1>3, <1>5
<1>8. SameWays(paths, paths', path - 1)
  BY <1>1, <1>2, <1>3, <1>5, <1>6, <1>7, WaysSame
<1> QED
  BY <1>1, <1>2, <1>8, EdgesStay

\* A path ends: its row is a way, and the loop edges have the links that close it.
LEMMA EdgesEnds ==
  ASSUME PathsIInv, PathsIInv', EdgesInv, Walking, Ended, g' = g, again' = again,
         NEW r, Changed(paths, paths', path, r),
         r.nodes = paths[path].nodes, r.prev = paths[path].prev, r.step = paths[path].step,
         edges \subseteq edges',
         ~again => edges' \subseteq BackLinks(g.next) /\ heads' = {Target(g.next, lk) : lk \in edges'},
         LoopWalk(g.next, Trace[path]) => LastLinks(g.next, Trace[path]) \subseteq edges'
  PROVE  EdgesInv'
<1> SUFFICES ASSUME ~again, stage' \in {"paths", "returns", "loops"} PROVE EdgesInv'
  BY DEF EdgesInv
<1>1. /\ Building /\ stage = "paths" /\ Filled = path /\ path \in Nat \ {0} /\ path \in 1 .. Len(paths)
      /\ Trace[path] = Traces(paths)[path]
  BY TipIs
<1>2. path' = path + 1 /\ walking' = FALSE
  BY DEF Ended
<1>3. Building' /\ Filled' = path /\ path' - 1 = path
  BY <1>1, <1>2 DEF PathsIInv, Filled
<1>4. Len(paths) \in Nat
  BY <1>1, RowsTyped DEF Building
<1>5. PICK T, U, p, next, E, D : /\ T = paths /\ U = paths' /\ p = path /\ next = g.next /\ E = edges
                                 /\ D = edges'
  OBVIOUS
<1>6. ASSUME NEW i \in 1 .. p PROVE SameRow(paths, paths', i)
  <2>1. CASE i = path
    BY <2>1 DEF Changed, SameRow
  <2>2. CASE i # path
    <3>1. i \in 1 .. Len(paths)
      BY <1>1, <1>4, <1>5
    <3>2. paths'[i] = paths[i]
      BY <2>2, <3>1 DEF Changed
    <3> QED
      BY <3>2 DEF SameRow
  <2> QED
    BY <2>1, <2>2
<1>7. SameWays(T, U, p)
  <2>1. p \in Nat /\ p <= Filled /\ p <= Filled'
    BY <1>1, <1>3, <1>5
  <2> QED
    BY <1>1, <1>3, <1>5, <1>6, <2>1, WaysSame
<1>8. Linked(T, next, E, p - 1)
  BY <1>1, <1>5 DEF EdgesInv
<1>9. Linked(U, next, D, p)
  <2>1. ASSUME NEW i \in 1 .. p, LoopWalk(next, Traces(U)[i]) PROVE LastLinks(next, Traces(U)[i]) \subseteq D
    <3>1. Traces(U)[i] = Traces(T)[i]
      BY <1>7 DEF SameWays
    <3>2. CASE i = p
      BY <1>1, <1>5, <2>1, <3>1, <3>2
    <3>3. CASE i # p
      <4>1. i \in 1 .. p - 1
        BY <1>1, <1>5, <3>3
      <4>2. LastLinks(next, Traces(T)[i]) \subseteq E
        BY <1>8, <2>1, <3>1, <4>1 DEF Linked
      <4> QED
        BY <1>5, <3>1, <4>2
    <3> QED
      BY <3>2, <3>3
  <2> QED
    BY <2>1 DEF Linked
<1>10. Linked(paths', g'.next, edges', path' - 1)
  BY <1>3, <1>5, <1>9
<1>11. edges' \subseteq BackLinks(g'.next) /\ heads' = {Target(g'.next, lk) : lk \in edges'}
  OBVIOUS
<1> QED
  BY <1>10, <1>11 DEF EdgesInv

LEMMA EdgesClose == ASSUME PathsIInv, PathsIInv', EdgesInv, CloseLoop PROVE EdgesInv'
<1>1. /\ Walking /\ Ended /\ g' = g /\ again' = again /\ heads' = heads \cup {Tip}
      /\ edges' = edges \cup LinksBetween(Before, Tip)
                        \cup (IF Len(paths[path].nodes) = 1 THEN LinksBetween(Tip, Tip) ELSE {})
  BY DEF CloseLoop
<1>2. /\ IsNext(g.next) /\ Tip = Trace[path][Len(Trace[path])] /\ Tip \in 1 .. Len(g.next)
      /\ Underway(g.next, Trace[path]) /\ stage = "paths"
  BY <1>1, TipIs
<1>3. LoopWalk(g.next, Trace[path])
  BY Closes
<1>4. PICK r : /\ Changed(paths, paths', path, r)
               /\ r.nodes = paths[path].nodes /\ r.prev = paths[path].prev /\ r.step = paths[path].step
  BY Closes
<1>5. PICK next, t, tip, before : next = g.next /\ t = Trace[path] /\ tip = Tip /\ before = Before
  OBVIOUS
<1>6. /\ IsNext(next) /\ LoopWalk(next, t) /\ tip = t[Len(t)] /\ tip \in 1 .. Len(next)
      /\ before = t[Len(t) - 1]
  BY <1>2, <1>3, <1>5 DEF Before
<1>7. before \in 1 .. Len(next)
  <2>1. Walks(next, t) /\ Len(t) \in Nat /\ \E j \in 1 .. Len(t) - 1 : TRUE
    BY <1>6, WalkIs DEF LoopWalk
  <2>2. Len(t) - 1 \in 1 .. Len(t)
    BY <2>1
  <2> QED
    BY <1>6, <2>1, <2>2, WalkIs
<1>8. /\ LinksBetween(before, tip) = {lk \in Links(next) : lk[1] = before /\ Target(next, lk) = tip}
      /\ LinksBetween(tip, tip) = {lk \in Links(next) : lk[1] = tip /\ Target(next, lk) = tip}
  BY <1>5, <1>6, <1>7, BetweenIs
<1>9. LinksBetween(before, tip) = LastLinks(next, t)
  BY <1>6, <1>8 DEF LastLinks
<1>10. LinksBetween(before, tip) \subseteq BackLinks(next) /\ LinksBetween(tip, tip) \subseteq BackLinks(next)
  <2>1. \A lk \in LinksBetween(tip, tip) : lk \in BackLinks(next)
    BY <1>6, <1>8, SelfBack
  <2> QED
    BY <1>6, <1>9, <2>1, LastBack
<1>11. PICK A, B : A = LinksBetween(before, tip) /\ B \in SUBSET LinksBetween(tip, tip) /\ edges' = edges \cup A \cup B
  BY <1>1, <1>5
<1>12. \E lk \in A : Target(next, lk) = tip
  <2>1. PICK lk \in BackLinks(next) : lk \in LastLinks(next, t)
    <3>1. t \in Looping(next) /\ Walks(next, t) /\ Len(t) \in Nat /\ Len(t) - 1 \in 1 .. Len(t) - 1
      BY <1>6, InLooping, WalkIs DEF LoopWalk
    <3>2. PICK l \in 1 .. Len(next[before]) : t[(Len(t) - 1) + 1] = next[before][l]
      BY <1>6, <3>1 DEF Walks
    <3>3. DOMAIN next = 1 .. Len(next) /\ DOMAIN next[before] = 1 .. Len(next[before])
      BY <1>6, <1>7, NextIs
    <3>4. PICK lk : lk = <<before, l>>
      OBVIOUS
    <3>5. lk \in Links(next)
      BY <1>7, <3>3, <3>4 DEF Links
    <3>6. lk[1] = before /\ Target(next, lk) = t[Len(t)]
      BY <3>1, <3>2, <3>4 DEF Target
    <3>7. lk \in LastLinks(next, t)
      BY <1>6, <3>5, <3>6 DEF LastLinks
    <3> QED
      BY <1>6, <3>7, LastBack
  <2> QED
    BY <1>6, <1>9, <1>11, <2>1 DEF LastLinks
<1>13. \A lk \in A \cup B : Target(next, lk) = tip
  BY <1>8, <1>11
<1>14. ASSUME ~again PROVE edges' \subseteq BackLinks(g.next) /\ heads' = {Target(g.next, lk) : lk \in edges'}
  <2>1. edges \subseteq BackLinks(next) /\ heads = {Target(next, lk) : lk \in edges}
    BY <1>2, <1>5, <1>14 DEF EdgesInv
  <2>2. edges' \subseteq BackLinks(next)
    BY <1>10, <1>11, <2>1
  <2>3. heads' = {Target(next, lk) : lk \in edges'}
    <3>1. ASSUME NEW h \in heads' PROVE \E lk \in edges' : h = Target(next, lk)
      BY <1>1, <1>5, <1>11, <1>12, <2>1
    <3>2. ASSUME NEW lk \in edges' PROVE Target(next, lk) \in heads'
      BY <1>1, <1>5, <1>11, <1>13, <2>1
    <3> QED
      BY <3>1, <3>2
  <2> QED
    BY <1>5, <2>2, <2>3
<1>15. edges \subseteq edges' /\ LastLinks(g.next, Trace[path]) \subseteq edges'
  BY <1>5, <1>9, <1>11
<1> QED
  BY <1>1, <1>4, <1>14, <1>15, EdgesEnds

LEMMA EdgesEndPath == ASSUME PathsIInv, PathsIInv', EdgesInv, EndPath PROVE EdgesInv'
<1>1. /\ Walking /\ Ended /\ UNCHANGED <<g, again, edges, heads, paths>> /\ g.next[Tip] = <<>>
  BY DEF EndPath
<1>2. /\ IsNext(g.next) /\ Underway(g.next, Trace[path]) /\ Tip = Trace[path][Len(Trace[path])] /\ stage = "paths"
      /\ path \in 1 .. Len(paths)
  BY <1>1, TipIs
<1>3. ~LoopWalk(g.next, Trace[path])
  <2>1. EndWalk(g.next, Trace[path])
    BY <1>1, <1>2, Returned
  <2> QED
    BY <2>1, EndsNotLoops
<1>4. Changed(paths, paths', path, paths[path])
  BY <1>1 DEF Changed
<1>5. ~again => edges' \subseteq BackLinks(g.next) /\ heads' = {Target(g.next, lk) : lk \in edges'}
  BY <1>1, <1>2 DEF EdgesInv
<1>6. edges \subseteq edges'
  BY <1>1
<1> QED
  BY <1>1, <1>3, <1>4, <1>5, <1>6, EdgesEnds

LEMMA EdgesBegin == ASSUME EdgesInv, Begin PROVE EdgesInv'
<1>1. edges' = {} /\ heads' = {} /\ path' = 1
  BY DEF Begin
<1>2. heads' = {Target(g'.next, lk) : lk \in edges'} /\ edges' \subseteq BackLinks(g'.next)
  BY <1>1
<1>3. Linked(paths', g'.next, edges', path' - 1)
  <2>1. \A p : p \notin 1 .. 0
    OBVIOUS
  <2> QED
    BY <1>1, <2>1 DEF Linked
<1> QED
  BY <1>2, <1>3 DEF EdgesInv

LEMMA EdgesNext == ASSUME PathsIInv, PathsIInv', EdgesInv, [Next]_vars PROVE EdgesInv'
<1>1. ASSUME NEW common \in 0 .. Max({g.len[k] : k \in Node}), MergeReturns(common) \/ MergeTails(common)
      PROVE  EdgesInv'
  <2>1. CASE MergeReturns(common)
    BY <2>1 DEF MergeReturns, EdgesInv
  <2>2. CASE MergeTails(common)
    BY <2>2 DEF MergeTails, EdgesInv
  <2> QED
    BY <1>1, <2>1, <2>2
<1>2. CASE PathsDone \/ OneReturn \/ TooManyReturns
  <2>1. stage \in {"paths", "returns", "loops"} /\ UNCHANGED <<g, again, edges, heads, path, paths>>
    BY <1>2 DEF PathsDone, OneReturn, TooManyReturns
  <2> QED
    BY <2>1, EdgesPass
<1>3. CASE BuildLoops \/ KeepFunction
  <2>1. stage' \notin {"paths", "returns", "loops"}
    BY <1>3 DEF BuildLoops, KeepFunction
  <2> QED
    BY <2>1 DEF EdgesInv
<1>4. CASE UNCHANGED vars
  <2>1. UNCHANGED <<g, again, edges, heads, path, paths, stage>>
    BY <1>4 DEF vars
  <2>2. CASE stage \in {"paths", "returns", "loops"}
    BY <2>1, <2>2, EdgesPass
  <2>3. CASE stage \notin {"paths", "returns", "loops"}
    BY <2>1, <2>3 DEF EdgesInv
  <2> QED
    BY <2>2, <2>3
<1> QED
  BY <1>1, <1>2, <1>3, <1>4, EdgesBegin, EdgesTake, EdgesClose, EdgesExtend, EdgesEndPath DEF Next, PathsStep

\* The loop edges of the first build.
LoopEdges == edges \subseteq BackLinks(g.next) /\ heads = {Target(g.next, lk) : lk \in edges}
AllEdges == edges = BackLinks(g.next) /\ heads = {Target(g.next, lk) : lk \in BackLinks(g.next)}

LEMMA EdgesAll ==
  ASSUME PathsIInv, WholeInv, EdgesInv, stage = "loops", ~again PROVE AllEdges
<1>1. PICK T, W, next, k : T = paths /\ W = waiting /\ next = g.next /\ k = path - 1
  OBVIOUS
<1>2. /\ IsNext(next) /\ k \in Nat /\ Typed(T, W, next) /\ Listed(T, W, next, k, k)
      /\ Whole(T, W, next, k) /\ Used = {}
  BY <1>1, RowsAre
<1>3. InUse(W) = {}
  BY <1>1, <1>2 DEF InUse, Used
<1>4. /\ edges \subseteq BackLinks(next) /\ heads = {Target(next, lk) : lk \in edges}
      /\ Linked(T, next, edges, k)
  BY <1>1 DEF EdgesInv
<1>5. ASSUME NEW lk \in BackLinks(next) PROVE lk \in edges
  <2>1. PICK t : LoopWalk(next, t) /\ lk \in LastLinks(next, t)
    BY <1>2, BackLast
  <2>2. Way(next, t)
    BY <2>1 DEF Way
  <2>3. PICK p \in 1 .. k : Traces(T)[p] = t
    BY <1>2, <1>3, <2>2, AllWays
  <2> QED
    BY <1>4, <2>1, <2>3 DEF Linked
<1>6. edges = BackLinks(next)
  BY <1>4, <1>5
<1> QED
  BY <1>1, <1>4, <1>6 DEF AllEdges

\* The loop edges of a function are links that close a loop on some way, and the loop heads
\* are where they lead; and as long as node_mid_start has room, all of those links are loop
\* edges when the loops are built (build_control_flow_paths, which marks the link a path
\* comes back by; the code goes on to look for the loops, dominators and tails by them).
THEOREM EdgesExact ==
  /\ Spec => [](stage \in {"paths", "returns", "loops"} /\ ~again => LoopEdges)
  /\ Spec /\ []RoomLeft => [](AtLoops /\ ~again => AllEdges)
<1>1. Init => PathsIInv /\ WholeInv
  BY PathsStart
<1>2. Init => EdgesInv
  BY DEF Init, EdgesInv
<1>3. PathsIInv /\ [Next]_vars => PathsIInv'
  BY PathsNext DEF Kept
<1>4. PathsIInv /\ PathsIInv' /\ EdgesInv /\ [Next]_vars => EdgesInv'
  BY EdgesNext
<1>5. PathsIInv /\ WholeInv /\ [Next]_vars /\ RoomLeft' => PathsIInv' /\ WholeInv'
  BY PathsNext DEF Kept
<1>6. EdgesInv => (stage \in {"paths", "returns", "loops"} /\ ~again => LoopEdges)
  BY DEF EdgesInv, LoopEdges
<1>7. PathsIInv /\ WholeInv /\ EdgesInv => (AtLoops /\ ~again => AllEdges)
  BY EdgesAll DEF AtLoops
<1>8. Spec => [](stage \in {"paths", "returns", "loops"} /\ ~again => LoopEdges)
  BY <1>1, <1>2, <1>3, <1>4, <1>6, PTL DEF Spec
<1>9. Spec /\ []RoomLeft => [](AtLoops /\ ~again => AllEdges)
  BY <1>1, <1>2, <1>3, <1>4, <1>5, <1>7, PTL DEF Spec
<1> QED
  BY <1>8, <1>9
-----------------------------------------------------------------------------
(* What is reached along the links *)

\* A walk along the links from a node of S, which meets no node of A.
WalkFrom(next, S, A, w) ==
  /\ w \in Seq(1 .. Len(next)) /\ w # <<>> /\ w[1] \in S
  /\ \A i \in 1 .. Len(w) : w[i] \notin A
  /\ \A i \in 1 .. Len(w) - 1 : \E l \in 1 .. Len(next[w[i]]) : w[i + 1] = next[w[i]][l]
ReachedBy(next, S, A, i) ==
  {k \in 1 .. Len(next) : \E w : WalkFrom(next, S, A, w) /\ Len(w) <= i + 1 /\ w[Len(w)] = k}

LEMMA FromIs ==
  ASSUME NEW next, NEW S, NEW A, NEW w, WalkFrom(next, S, A, w)
  PROVE  /\ Len(w) \in Nat \ {0} /\ DOMAIN w = 1 .. Len(w)
         /\ \A i \in 1 .. Len(w) : w[i] \in 1 .. Len(next)
BY LenProperties, EmptySeq, ElementOfSeq DEF WalkFrom

LEMMA FromOn ==
  ASSUME NEW next, IsNext(next), NEW S, NEW A, NEW w, WalkFrom(next, S, A, w), NEW j, j = w[Len(w)],
         NEW k \in 1 .. Len(next), k \notin A, NEW l \in 1 .. Len(next[j]), k = next[j][l]
  PROVE  /\ WalkFrom(next, S, A, Append(w, k)) /\ Len(Append(w, k)) = Len(w) + 1
         /\ Append(w, k)[Len(w) + 1] = k /\ \A i \in 1 .. Len(w) : Append(w, k)[i] = w[i]
<1>1. Len(w) \in Nat \ {0} /\ w \in Seq(1 .. Len(next))
  BY FromIs DEF WalkFrom
<1>2. PICK u : u = Append(w, k)
  OBVIOUS
<1>3. /\ u \in Seq(1 .. Len(next)) /\ Len(u) = Len(w) + 1 /\ u[Len(w) + 1] = k
      /\ \A i \in 1 .. Len(w) : u[i] = w[i]
  BY <1>1, <1>2, AppendProperties
<1>4. /\ \A i \in 1 .. Len(u) : i = Len(w) + 1 \/ i \in 1 .. Len(w)
      /\ \A i \in 1 .. Len(u) - 1 : i = Len(w) \/ i \in 1 .. Len(w) - 1
      /\ \A i \in 1 .. Len(w) - 1 : i \in 1 .. Len(w) /\ i + 1 \in 1 .. Len(w)
      /\ 1 \in 1 .. Len(w) /\ Len(w) \in 1 .. Len(w)
  BY <1>1, <1>3
<1>5. u # <<>> /\ u[1] \in S
  <2>1. u[1] = w[1]
    BY <1>3, <1>4
  <2>2. Len(u) # 0 /\ Len(<<>>) = 0
    BY <1>1, <1>3, EmptySeq
  <2> QED
    BY <2>1, <2>2 DEF WalkFrom
<1>6. \A i \in 1 .. Len(u) : u[i] \notin A
  BY <1>3, <1>4 DEF WalkFrom
<1>7. ASSUME NEW i \in 1 .. Len(u) - 1 PROVE \E m \in 1 .. Len(next[u[i]]) : u[i + 1] = next[u[i]][m]
  <2>1. CASE i = Len(w)
    BY <1>3, <1>4, <2>1
  <2>2. CASE i \in 1 .. Len(w) - 1
    <3>1. u[i] = w[i] /\ u[i + 1] = w[i + 1]
      BY <1>3, <1>4, <2>2
    <3> QED
      BY <2>2, <3>1 DEF WalkFrom
  <2> QED
    BY <1>4, <2>1, <2>2
<1>8. WalkFrom(next, S, A, u)
  BY <1>3, <1>5, <1>6, <1>7 DEF WalkFrom
<1> QED
  BY <1>2, <1>3, <1>8

\* The beginning of a walk is one.
LEMMA FromCut ==
  ASSUME NEW next, NEW S, NEW A, NEW w, WalkFrom(next, S, A, w), NEW d \in 1 .. Len(w)
  PROVE  /\ WalkFrom(next, S, A, SubSeq(w, 1, d)) /\ Len(SubSeq(w, 1, d)) = d
         /\ \A i \in 1 .. d : SubSeq(w, 1, d)[i] = w[i]
<1>1. Len(w) \in Nat \ {0} /\ d \in Nat \ {0} /\ \A i \in 1 .. d : i \in 1 .. Len(w) /\ w[i] \in 1 .. Len(next)
  BY FromIs
<1>2. PICK u : u = SubSeq(w, 1, d)
  OBVIOUS
<1>3. u \in Seq(1 .. Len(next)) /\ Len(u) = d /\ \A i \in 1 .. d : u[i] = w[i]
  <2>1. 1 \in Int /\ d \in Int /\ d - 1 + 1 = d /\ 1 <= d /\ \A i \in 1 .. d : 1 + i - 1 = i
    BY <1>1
  <2>2. /\ u \in Seq(1 .. Len(next)) /\ Len(u) = (IF 1 <= d THEN d - 1 + 1 ELSE 0)
        /\ \A i \in 1 .. d - 1 + 1 : u[i] = w[1 + i - 1]
    BY <1>1, <1>2, <2>1, SubSeqProperties
  <2> QED
    BY <2>1, <2>2
<1>4. u # <<>> /\ u[1] \in S
  <2>1. Len(u) # 0 /\ 1 \in 1 .. d /\ Len(<<>>) = 0
    BY <1>1, <1>3, EmptySeq
  <2> QED
    BY <1>3, <2>1 DEF WalkFrom
<1>5. \A i \in 1 .. Len(u) : u[i] \notin A
  BY <1>1, <1>3 DEF WalkFrom
<1>6. ASSUME NEW i \in 1 .. Len(u) - 1 PROVE \E m \in 1 .. Len(next[u[i]]) : u[i + 1] = next[u[i]][m]
  <2>1. i \in 1 .. d /\ i + 1 \in 1 .. d /\ i \in 1 .. Len(w) - 1
    BY <1>1, <1>3
  <2>2. u[i] = w[i] /\ u[i + 1] = w[i + 1]
    BY <1>3, <2>1
  <2> QED
    BY <2>1, <2>2 DEF WalkFrom
<1> QED
  BY <1>2, <1>3, <1>4, <1>5, <1>6 DEF WalkFrom

LEMMA ReachedStart ==
  ASSUME NEW next, IsNext(next), NEW S \in SUBSET (1 .. Len(next)), NEW A
  PROVE  ReachedBy(next, S, A, 0) = S \ A
<1>1. ASSUME NEW k \in ReachedBy(next, S, A, 0) PROVE k \in S \ A
  <2>1. PICK w : WalkFrom(next, S, A, w) /\ Len(w) <= 0 + 1 /\ w[Len(w)] = k
    BY DEF ReachedBy
  <2>2. Len(w) \in Nat \ {0}
    BY <2>1, FromIs
  <2>3. Len(w) = 1
    <3>1. PICK m \in Nat \ {0} : m = Len(w)
      BY <2>2
    <3>2. m <= 0 + 1
      BY <2>1, <3>1, Zenon
    <3> QED
      BY <3>1, <3>2
  <2>4. 1 \in 1 .. Len(w) /\ w[1] = k
    BY <2>1, <2>3
  <2> QED
    BY <2>1, <2>4 DEF WalkFrom
<1>2. ASSUME NEW k \in S \ A PROVE k \in ReachedBy(next, S, A, 0)
  <2>1. PICK w : w = <<k>>
    OBVIOUS
  <2>2. w \in Seq(1 .. Len(next)) /\ Len(w) = 1 /\ w[1] = k /\ w # <<>>
    BY <2>1
  <2>3. \A i \in 1 .. 1 : i = 1
    OBVIOUS
  <2>4. \A i : i \notin 1 .. 1 - 1
    OBVIOUS
  <2>5. WalkFrom(next, S, A, w)
    BY <2>2, <2>3, <2>4 DEF WalkFrom
  <2>6. Len(w) <= 0 + 1 /\ w[Len(w)] = k
    BY <2>2
  <2> QED
    BY <2>5, <2>6 DEF ReachedBy
<1> QED
  BY <1>1, <1>2

LEMMA ReachedOn ==
  ASSUME NEW next, IsNext(next), NEW S \in SUBSET (1 .. Len(next)), NEW A, NEW i \in Nat \ {0}
  PROVE  ReachedBy(next, S, A, i)
           = ReachedBy(next, S, A, i - 1) \cup (Step(next, ReachedBy(next, S, A, i - 1)) \ A)
<1> DEFINE B == ReachedBy(next, S, A, i - 1)
<1>1. \A k : k \in B <=> /\ k \in 1 .. Len(next)
                         /\ \E w : WalkFrom(next, S, A, w) /\ Len(w) <= i /\ w[Len(w)] = k
  <2>1. (i - 1) + 1 = i
    OBVIOUS
  <2> QED
    BY <2>1 DEF ReachedBy
<1>2. ASSUME NEW k \in ReachedBy(next, S, A, i) PROVE k \in B \cup (Step(next, B) \ A)
  <2>1. PICK w : k \in 1 .. Len(next) /\ WalkFrom(next, S, A, w) /\ Len(w) <= i + 1 /\ w[Len(w)] = k
    BY DEF ReachedBy
  <2>2. Len(w) \in Nat \ {0} /\ \A j \in 1 .. Len(w) : w[j] \in 1 .. Len(next)
    BY <2>1, FromIs
  <2>3. CASE Len(w) <= i
    <3> HIDE DEF B
    <3> QED
      BY <1>1, <2>1, <2>3
  <2>4. CASE ~(Len(w) <= i)
    <3>1. Len(w) = i + 1 /\ i \in 1 .. Len(w) /\ i \in 1 .. Len(w) - 1 /\ i + 1 \in 1 .. Len(w)
      BY <2>1, <2>2, <2>4
    <3>2. PICK v : v = SubSeq(w, 1, i)
      OBVIOUS
    <3>3. WalkFrom(next, S, A, v) /\ Len(v) = i /\ v[i] = w[i]
      BY <2>1, <3>1, <3>2, FromCut
    <3>4. w[i] \in B
      <4>1. Len(v) <= i /\ v[Len(v)] = w[i] /\ w[i] \in 1 .. Len(next)
        BY <2>2, <3>1, <3>3
      <4> HIDE DEF B
      <4> QED
        BY <1>1, <3>3, <4>1
    <3>5. PICK l \in 1 .. Len(next[w[i]]) : w[i + 1] = next[w[i]][l]
      BY <2>1, <3>1 DEF WalkFrom
    <3>6. l \in DOMAIN next[w[i]] /\ k = next[w[i]][l]
      <4>1. w[i] \in 1 .. Len(next)
        BY <2>2, <3>1
      <4>2. DOMAIN next[w[i]] = 1 .. Len(next[w[i]])
        BY <4>1, NextIs
      <4> QED
        BY <2>1, <3>1, <3>5, <4>2
    <3>7. k \in Step(next, B)
      <4>1. k \in Range(next[w[i]])
        BY <3>6 DEF Range
      <4> HIDE DEF B
      <4> QED
        BY <3>4, <4>1 DEF Step
    <3>8. k \notin A
      BY <2>1, <2>2 DEF WalkFrom
    <3> HIDE DEF B
    <3> QED
      BY <3>7, <3>8
  <2> QED
    BY <2>3, <2>4
<1>3. ASSUME NEW k \in B PROVE k \in ReachedBy(next, S, A, i)
  <2>1. PICK w : k \in 1 .. Len(next) /\ WalkFrom(next, S, A, w) /\ Len(w) <= i /\ w[Len(w)] = k
    <3> HIDE DEF B
    <3> QED
      BY <1>1, <1>3
  <2>2. Len(w) <= i + 1
    <3>1. Len(w) \in Nat
      BY <2>1, FromIs
    <3> QED
      BY <2>1, <3>1
  <2> QED
    BY <2>1, <2>2 DEF ReachedBy
<1>4. ASSUME NEW k \in Step(next, B) \ A PROVE k \in ReachedBy(next, S, A, i)
  <2>1. PICK j \in B : k \in Range(next[j])
    <3> HIDE DEF B
    <3> QED
      BY <1>4 DEF Step
  <2>2. PICK w : j \in 1 .. Len(next) /\ WalkFrom(next, S, A, w) /\ Len(w) <= i /\ w[Len(w)] = j
    <3> HIDE DEF B
    <3> QED
      BY <1>1, <2>1
  <2>3. PICK l \in 1 .. Len(next[j]) : k = next[j][l]
    <3>1. DOMAIN next[j] = 1 .. Len(next[j])
      BY <2>2, NextIs
    <3> QED
      BY <2>1, <3>1 DEF Range
  <2>4. k \in 1 .. Len(next) /\ k \notin A
    BY <1>4, <2>2, <2>3, NextIs
  <2>5. PICK u : u = Append(w, k)
    OBVIOUS
  <2>6. WalkFrom(next, S, A, u) /\ Len(u) = Len(w) + 1 /\ u[Len(w) + 1] = k
    BY <2>2, <2>3, <2>4, <2>5, FromOn
  <2>7. Len(u) <= i + 1 /\ u[Len(u)] = k
    <3>1. Len(w) \in Nat
      BY <2>2, FromIs
    <3> QED
      BY <2>2, <2>6, <3>1
  <2> QED
    BY <2>4, <2>6, <2>7 DEF ReachedBy
<1> HIDE DEF B
<1>5. \A k : k \in ReachedBy(next, S, A, i) <=> k \in B \cup (Step(next, B) \ A)
  BY <1>2, <1>3, <1>4
<1>6. ReachedBy(next, S, A, i) = B \cup (Step(next, B) \ A)
  BY <1>5
<1> QED
  BY <1>6 DEF B

\* The nodes reached are those some walk leads to that has no more links than there are nodes.
LEMMA ReachIs ==
  ASSUME NEW next, IsNext(next), NEW S \in SUBSET (1 .. Len(next)), NEW A
  PROVE  Reach(next, S, A) = ReachedBy(next, S, A, Len(next))
<1> DEFINE P(f) == f = [i \in Nat |-> IF i = 0 THEN S \ A ELSE f[i - 1] \cup (Step(next, f[i - 1]) \ A)]
           R == CHOOSE f : P(f)
           n == Len(next)
           h == [i \in Nat |-> ReachedBy(next, S, A, i)]
           Good == {i \in 0 .. n : R[i] = ReachedBy(next, S, A, i)}
<1>1. n \in Nat /\ Cardinality(DOMAIN next) = n
  BY NextIs
<1>2. Reach(next, S, A) = R[n]
  BY <1>1, Zenon DEF Reach
<1>3. P(h)
  <2>1. ASSUME NEW i \in Nat PROVE h[i] = IF i = 0 THEN S \ A ELSE h[i - 1] \cup (Step(next, h[i - 1]) \ A)
    <3>1. h[i] = ReachedBy(next, S, A, i)
      OBVIOUS
    <3>2. CASE i = 0
      BY <3>1, <3>2, ReachedStart
    <3>3. CASE i # 0
      <4>1. i \in Nat \ {0} /\ i - 1 \in Nat
        BY <3>3
      <4>2. h[i - 1] = ReachedBy(next, S, A, i - 1)
        BY <4>1
      <4> HIDE DEF h
      <4>3. ReachedBy(next, S, A, i)
              = ReachedBy(next, S, A, i - 1) \cup (Step(next, ReachedBy(next, S, A, i - 1)) \ A)
        BY <4>1, ReachedOn
      <4> QED
        BY <3>1, <3>3, <4>2, <4>3
    <3> QED
      BY <3>2, <3>3
  <2>2. h = [i \in Nat |-> h[i]]
    OBVIOUS
  <2> HIDE DEF h
  <2> QED
    BY <2>1, <2>2
<1>4. P(R)
  <2>1. \E f : P(f)
    <3> HIDE DEF h
    <3> QED
      BY <1>3
  <2> QED
    BY <2>1, Zenon
<1>5. /\ R[0] = S \ A
      /\ \A i \in Nat : i # 0 => R[i] = R[i - 1] \cup (Step(next, R[i - 1]) \ A)
  <2> HIDE DEF R
  <2> QED
    BY <1>4
<1> HIDE DEF R, P
<1>6. 0 \in Good
  <2>1. ReachedBy(next, S, A, 0) = S \ A
    BY ReachedStart
  <2>2. 0 \in 0 .. n
    BY <1>1
  <2> QED
    BY <1>5, <2>1, <2>2
<1>7. ASSUME NEW m \in 0 .. n, m \in Good, m + 1 <= n PROVE m + 1 \in Good
  <2>1. m + 1 \in Nat \ {0} /\ (m + 1) - 1 = m /\ m + 1 \in 0 .. n
    BY <1>1, <1>7
  <2>2. R[m + 1] = R[m] \cup (Step(next, R[m]) \ A)
    BY <1>5, <2>1
  <2>3. R[m] = ReachedBy(next, S, A, m)
    BY <1>7
  <2>4. ReachedBy(next, S, A, m + 1)
          = ReachedBy(next, S, A, m) \cup (Step(next, ReachedBy(next, S, A, m)) \ A)
    <3>1. PICK p : p = m + 1
      OBVIOUS
    <3>2. p \in Nat \ {0} /\ p - 1 = m
      BY <2>1, <3>1
    <3>3. ReachedBy(next, S, A, p)
            = ReachedBy(next, S, A, p - 1) \cup (Step(next, ReachedBy(next, S, A, p - 1)) \ A)
      BY <3>2, ReachedOn
    <3> QED
      BY <3>1, <3>2, <3>3
  <2> QED
    BY <2>1, <2>2, <2>3, <2>4
<1>8. \A m \in 0 .. n : m \in Good
  <2> HIDE DEF Good, n
  <2> QED
    BY <1>1, <1>6, <1>7, Climbing
<1>9. n \in Good
  BY <1>1, <1>8
<1> QED
  BY <1>2, <1>9

-----------------------------------------------------------------------------
(* What merging two returns keeps *)

\* The links to a node, and those its list of predecessors names.
Into(next, k) == {lk \in Links(next) : Target(next, lk) = k}
Listing(x, k) == {<<x.prev[k][m], x.index[k][m]>> : m \in DOMAIN x.prev[k]}

\* The lists of predecessors name every link once.
PredsRight(x) ==
  \A k \in DOMAIN x.next : /\ Listing(x, k) = Into(x.next, k)
                           /\ Len(x.prev[k]) = Cardinality(Into(x.next, k))
                           /\ Len(x.index[k]) = Len(x.prev[k])

\* What MergeKeepsWays says of the graph x that is left of a function.
KeepsWays(x, old) ==
  LET Nodes == DOMAIN x.next IN
  /\ Reach(x.next, {1}, {}) = x.valid
  /\ Nodes \ x.valid \subseteq {k \in Nodes : old[k] = <<>>}
  /\ \A k \in x.valid : \A l \in DOMAIN old[k] : x.next[k][l] = old[k][l] \/ old[k][l] \notin x.valid
  /\ \A k \in x.valid :
       /\ Len(x.prev[k]) = Cardinality({lk \in Links(x.next) : lk[1] \in x.valid /\ Target(x.next, lk) = k})
       /\ \A m \in DOMAIN x.prev[k] : x.next[x.prev[k][m]][x.index[k][m]] = k

LEMMA LinkIs ==
  ASSUME NEW next, IsNext(next)
  PROVE  /\ \A lk \in Links(next) : lk[1] \in 1 .. Len(next) /\ lk[2] \in 1 .. Len(next[lk[1]]) /\ lk = <<lk[1], lk[2]>>
         /\ \A k \in 1 .. Len(next) : \A l \in 1 .. Len(next[k]) : <<k, l>> \in Links(next)
<1>1. DOMAIN next = 1 .. Len(next) /\ \A k \in 1 .. Len(next) : DOMAIN next[k] = 1 .. Len(next[k])
  BY NextIs
<1> QED
  BY <1>1 DEF Links

LEMMA LinksFinite == ASSUME NEW next, IsNext(next) PROVE IsFiniteSet(Links(next))
<1> DEFINE n == Len(next)
           f == [k \in 1 .. n |-> {k} \X DOMAIN next[k]]
<1>1. n \in Nat /\ DOMAIN next = 1 .. n
  BY NextIs
<1>2. Links(next) = UNION {f[k] : k \in 1 .. n} /\ DOMAIN f = 1 .. n
  BY <1>1 DEF Links
<1>3. ASSUME NEW k \in 1 .. n PROVE IsFiniteSet(f[k])
  <2>1. Len(next[k]) \in Nat /\ DOMAIN next[k] = 1 .. Len(next[k])
    BY NextIs
  <2>2. IsFiniteSet(1 .. Len(next[k])) /\ IsFiniteSet({k})
    <3>1. PICK m \in Nat : m = Len(next[k])
      BY <2>1
    <3>2. IsFiniteSet(1 .. m)
      BY FS_Interval
    <3> QED
      BY <3>1, <3>2, FS_Singleton, Zenon
  <2>3. IsFiniteSet({k} \X (1 .. Len(next[k])))
    BY <2>2, FS_Product
  <2> QED
    BY <2>1, <2>3
<1>4. IsFiniteSet(1 .. n)
  BY <1>1, FS_Interval
<1> HIDE DEF f
<1>5. IsFiniteSet({f[k] : k \in 1 .. n})
  BY <1>2, <1>4, ImageFinite
<1> QED
  BY <1>2, <1>3, <1>5, FS_UNION

LEMMA GraphTyped ==
  ASSUME NEW x, IsGraph(x)
  PROVE  /\ IsNext(x.next) /\ DOMAIN x.next = 1 .. Len(x.next) /\ x.valid = 1 .. Len(x.next)
         /\ \A k \in 1 .. Len(x.next) :
              /\ x.prev[k] \in Seq(1 .. Len(x.next)) /\ x.index[k] \in Seq(Nat \ {0}) /\ x.len[k] \in Nat \ {0}
              /\ DOMAIN x.prev[k] = 1 .. Len(x.prev[k]) /\ Len(x.prev[k]) \in Nat
<1>1. IsNext(x.next)
  BY DEF IsGraph, IsNext
<1>2. DOMAIN x.next = 1 .. Len(x.next)
  BY <1>1, NextIs
<1>3. x.valid = 1 .. Len(x.next) /\ \A k \in 1 .. Len(x.next) :
        x.prev[k] \in Seq(1 .. Len(x.next)) /\ x.index[k] \in Seq(Nat \ {0}) /\ x.len[k] \in Nat \ {0}
  BY DEF IsGraph
<1> QED
  BY <1>1, <1>2, <1>3, LenProperties

\* Before the merge.
LEMMA KeptBefore ==
  ASSUME NEW x, IsGraph(x), Connected(x.next), PredsRight(x)
  PROVE  KeepsWays(x, x.next)
<1>1. IsNext(x.next) /\ DOMAIN x.next = 1 .. Len(x.next) /\ x.valid = 1 .. Len(x.next)
  BY GraphTyped
<1>2. Reach(x.next, {1}, {}) = x.valid
  BY <1>1 DEF Connected
<1>3. ASSUME NEW k \in x.valid
      PROVE  /\ Len(x.prev[k]) = Cardinality({lk \in Links(x.next) : lk[1] \in x.valid /\ Target(x.next, lk) = k})
             /\ \A m \in DOMAIN x.prev[k] : x.next[x.prev[k][m]][x.index[k][m]] = k
  <2>1. Listing(x, k) = Into(x.next, k) /\ Len(x.prev[k]) = Cardinality(Into(x.next, k))
    BY <1>1 DEF PredsRight
  <2>2. {lk \in Links(x.next) : lk[1] \in x.valid /\ Target(x.next, lk) = k} = Into(x.next, k)
    BY <1>1, LinkIs DEF Into
  <2>3. ASSUME NEW m \in DOMAIN x.prev[k] PROVE x.next[x.prev[k][m]][x.index[k][m]] = k
    <3>1. <<x.prev[k][m], x.index[k][m]>> \in Into(x.next, k)
      BY <2>1 DEF Listing
    <3> QED
      BY <3>1 DEF Into, Target
  <2> QED
    BY <2>1, <2>2, <2>3
<1> QED
  BY <1>1, <1>2, <1>3 DEF KeepsWays

\* y is x with the links to b led to a, and their names in a's lists.
Merges(x, y, a, b) ==
  /\ IsNext(y.next) /\ Len(y.next) = Len(x.next) /\ y.valid = (1 .. Len(x.next)) \ {b}
  /\ \A k \in 1 .. Len(x.next) :
       /\ Len(y.next[k]) = Len(x.next[k])
       /\ \A l \in 1 .. Len(x.next[k]) : y.next[k][l] = IF x.next[k][l] = b THEN a ELSE x.next[k][l]
       /\ y.prev[k] = IF k = b THEN <<>> ELSE IF k = a THEN x.prev[a] \o x.prev[b] ELSE x.prev[k]
       /\ y.index[k] = IF k = b THEN <<>> ELSE IF k = a THEN x.index[a] \o x.index[b] ELSE x.index[k]

\* Two different nodes without links: neither is the first.
LEMMA NotFirst ==
  ASSUME NEW next, IsNext(next), Connected(next), NEW a \in 1 .. Len(next), NEW b \in 1 .. Len(next), a # b,
         next[b] = <<>>
  PROVE  b # 1
<1> SUFFICES ASSUME b = 1 PROVE FALSE
  OBVIOUS
<1>1. {1} \in SUBSET (1 .. Len(next)) /\ DOMAIN next = 1 .. Len(next)
  BY NextIs
<1>2. a \in ReachedBy(next, {1}, {}, Len(next))
  BY <1>1, ReachIs DEF Connected
<1>3. PICK w : WalkFrom(next, {1}, {}, w) /\ w[Len(w)] = a
  BY <1>2 DEF ReachedBy
<1>4. Len(w) \in Nat \ {0} /\ w[1] = 1
  BY <1>3, FromIs DEF WalkFrom
<1>5. Len(w) # 1
  BY <1>3, <1>4
<1>6. 1 \in 1 .. Len(w) - 1
  BY <1>4, <1>5
<1>7. PICK l \in 1 .. Len(next[w[1]]) : TRUE
  BY <1>3, <1>6 DEF WalkFrom
<1>8. Len(next[b]) = 0
  BY EmptySeq
<1> QED
  BY <1>4, <1>7, <1>8

\* What is reached from the beginning.
LEMMA ReachWalk ==
  ASSUME NEW next, IsNext(next), NEW k
  PROVE  k \in Reach(next, {1}, {})
           <=> k \in 1 .. Len(next) /\ \E w : WalkFrom(next, {1}, {}, w) /\ Len(w) <= Len(next) + 1 /\ w[Len(w)] = k
<1>1. {1} \in SUBSET (1 .. Len(next))
  BY NextIs
<1>2. PICK S : S = {1}
  OBVIOUS
<1>3. Reach(next, S, {}) = ReachedBy(next, S, {}, Len(next))
  BY <1>1, <1>2, ReachIs
<1> QED
  BY <1>2, <1>3 DEF ReachedBy

LEMMA WalkFirst ==
  ASSUME NEW next, NEW w, WalkFrom(next, {1}, {}, w)
  PROVE  Len(w) \in Nat \ {0} /\ w[1] = 1 /\ \A i \in 1 .. Len(w) : w[i] \in 1 .. Len(next)
<1>1. w[1] \in {1}
  BY DEF WalkFrom
<1> QED
  BY <1>1, FromIs

LEMMA MergedReach ==
  ASSUME NEW x, IsGraph(x), Connected(x.next), NEW y, NEW a \in 1 .. Len(x.next), NEW b \in 1 .. Len(x.next),
         a # b, x.next[b] = <<>>, Merges(x, y, a, b)
  PROVE  Reach(y.next, {1}, {}) = y.valid
<1>1. PICK old, next, n : old = x.next /\ next = y.next /\ n = Len(x.next)
  OBVIOUS
<1>2. /\ IsNext(old) /\ IsNext(next) /\ Len(old) = n /\ Len(next) = n /\ n \in Nat \ {0} /\ DOMAIN old = 1 .. n
      /\ Connected(old) /\ y.valid = (1 .. n) \ {b} /\ a \in 1 .. n /\ b \in 1 .. n
      /\ \A k \in 1 .. n : /\ Len(next[k]) = Len(old[k])
                           /\ \A l \in 1 .. Len(old[k]) : next[k][l] = IF old[k][l] = b THEN a ELSE old[k][l]
  BY <1>1, GraphTyped, NextIs DEF Merges
<1>3. b # 1 /\ Len(old[b]) = 0 /\ {1} \in SUBSET (1 .. n)
  BY <1>1, <1>2, NotFirst, EmptySeq
<1>4. ASSUME NEW k \in Reach(next, {1}, {}) PROVE k \in y.valid
  <2>1. PICK w : k \in 1 .. n /\ WalkFrom(next, {1}, {}, w) /\ w[Len(w)] = k
    BY <1>2, <1>4, ReachWalk
  <2>2. Len(w) \in Nat \ {0} /\ w[1] = 1 /\ \A i \in 1 .. Len(w) : w[i] \in 1 .. n
    BY <1>2, <2>1, WalkFirst
  <2>3. ASSUME Len(w) # 1 PROVE w[Len(w)] # b
    <3>1. PICK d \in 1 .. Len(w) - 1 : d + 1 = Len(w) /\ d \in 1 .. Len(w)
      <4>1. PICK m \in Nat \ {0} : m = Len(w) /\ m # 1
        BY <2>2, <2>3
      <4>2. m - 1 \in 1 .. m - 1 /\ m - 1 + 1 = m /\ m - 1 \in 1 .. m
        BY <4>1
      <4> QED
        BY <4>1, <4>2
    <3>2. PICK l \in 1 .. Len(next[w[d]]) : w[d + 1] = next[w[d]][l]
      BY <2>1 DEF WalkFrom
    <3>3. PICK j \in 1 .. n : j = w[d]
      BY <2>2, <3>1
    <3>4. w[Len(w)] = next[j][l] /\ l \in 1 .. Len(old[j])
      BY <1>2, <3>1, <3>2, <3>3
    <3>5. next[j][l] # b
      BY <1>2, <3>4
    <3> QED
      BY <3>4, <3>5
  <2> QED
    BY <1>2, <1>3, <2>1, <2>2, <2>3
<1>5. ASSUME NEW k \in y.valid PROVE k \in Reach(next, {1}, {})
  <2>1. k \in Reach(old, {1}, {}) /\ k # b
    BY <1>2, <1>5 DEF Connected
  <2>2. PICK w : k \in 1 .. n /\ WalkFrom(old, {1}, {}, w) /\ Len(w) <= n + 1 /\ w[Len(w)] = k
    BY <1>2, <2>1, ReachWalk
  <2>3. Len(w) \in Nat \ {0} /\ w[1] = 1 /\ \A i \in 1 .. Len(w) : w[i] \in 1 .. n
    BY <1>2, <2>2, WalkFirst
  <2>4. ASSUME NEW i \in 1 .. Len(w) PROVE w[i] # b
    <3>1. CASE i = Len(w)
      BY <2>1, <2>2, <3>1
    <3>2. CASE i # Len(w)
      <4>1. i \in 1 .. Len(w) - 1
        BY <2>3, <3>2
      <4>2. PICK l \in 1 .. Len(old[w[i]]) : TRUE
        BY <2>2, <4>1 DEF WalkFrom
      <4> QED
        BY <1>3, <4>2
    <3> QED
      BY <3>1, <3>2
  <2>5. ASSUME NEW i \in 1 .. Len(w) - 1 PROVE \E l \in 1 .. Len(next[w[i]]) : w[i + 1] = next[w[i]][l]
    <3>1. PICK l \in 1 .. Len(old[w[i]]) : w[i + 1] = old[w[i]][l]
      BY <2>2 DEF WalkFrom
    <3>2. i \in 1 .. Len(w) /\ i + 1 \in 1 .. Len(w)
      BY <2>3
    <3>3. w[i + 1] # b /\ w[i] \in 1 .. n
      BY <2>3, <2>4, <3>2
    <3>4. Len(next[w[i]]) = Len(old[w[i]]) /\ next[w[i]][l] = IF old[w[i]][l] = b THEN a ELSE old[w[i]][l]
      BY <1>2, <3>1, <3>3
    <3> QED
      BY <3>1, <3>3, <3>4
  <2>6. WalkFrom(next, {1}, {}, w)
    BY <1>2, <2>2, <2>5 DEF WalkFrom
  <2> QED
    BY <1>2, <2>2, <2>6, ReachWalk
<1> QED
  BY <1>1, <1>4, <1>5

\* The links of the merged graph are those there were; those to b lead to a.
Moved(old, next, a, b) ==
  /\ Into(next, a) = Into(old, a) \cup Into(old, b)
  /\ Into(old, a) \cap Into(old, b) = {}
  /\ \A k \in 1 .. Len(old) : k \notin {a, b} => Into(next, k) = Into(old, k)

LEMMA MergedInto ==
  ASSUME NEW x, IsGraph(x), NEW y, NEW a \in 1 .. Len(x.next), NEW b \in 1 .. Len(x.next),
         a # b, Merges(x, y, a, b)
  PROVE  Moved(x.next, y.next, a, b)
<1>1. PICK old, next, n : old = x.next /\ next = y.next /\ n = Len(x.next)
  OBVIOUS
<1>2. /\ IsNext(old) /\ IsNext(next) /\ Len(old) = n /\ Len(next) = n
      /\ \A k \in 1 .. n : /\ Len(next[k]) = Len(old[k])
                           /\ \A l \in 1 .. Len(old[k]) : next[k][l] = IF old[k][l] = b THEN a ELSE old[k][l]
  BY <1>1, GraphTyped DEF Merges
<1>3. ASSUME NEW lk \in Links(old)
      PROVE  lk \in Links(next) /\ Target(next, lk) = IF Target(old, lk) = b THEN a ELSE Target(old, lk)
  <2>1. PICK k, l : k \in 1 .. n /\ l \in 1 .. Len(old[k]) /\ lk = <<k, l>>
    BY <1>2, LinkIs
  <2>2. lk \in Links(next)
    BY <1>2, <2>1, LinkIs
  <2>3. Target(next, lk) = next[k][l] /\ Target(old, lk) = old[k][l]
    BY <2>1 DEF Target
  <2>4. next[k][l] = IF old[k][l] = b THEN a ELSE old[k][l]
    BY <1>2, <2>1
  <2> QED
    BY <2>2, <2>3, <2>4
<1>4. ASSUME NEW lk \in Links(next) PROVE lk \in Links(old)
  <2>1. PICK k, l : k \in 1 .. n /\ l \in 1 .. Len(next[k]) /\ lk = <<k, l>>
    BY <1>2, LinkIs
  <2> QED
    BY <1>2, <2>1, LinkIs
<1>5. Links(next) = Links(old)
  BY <1>3, <1>4
<1>6. \A lk \in Links(old) : Target(next, lk) = IF Target(old, lk) = b THEN a ELSE Target(old, lk)
  BY <1>3
<1>7. Into(next, a) = Into(old, a) \cup Into(old, b) /\ Into(old, a) \cap Into(old, b) = {}
  BY <1>5, <1>6 DEF Into
<1>8. \A k \in 1 .. n : k \notin {a, b} => Into(next, k) = Into(old, k)
  BY <1>5, <1>6 DEF Into
<1>9. Moved(old, next, a, b)
  BY <1>2, <1>7, <1>8 DEF Moved
<1> QED
  BY <1>1, <1>9

LEMMA IntoFinite == ASSUME NEW next, IsNext(next), NEW k PROVE IsFiniteSet(Into(next, k))
<1>1. IsFiniteSet(Links(next)) /\ Into(next, k) \subseteq Links(next)
  BY LinksFinite DEF Into
<1> QED
  BY <1>1, FS_Subset

\* The lists of y name its links, and as many as there are.
ListsRight(y, k) ==
  /\ Len(y.prev[k]) = Cardinality(Into(y.next, k))
  /\ \A m \in DOMAIN y.prev[k] : y.next[y.prev[k][m]][y.index[k][m]] = k

\* What is left to show of a graph whose invalid nodes have no links.
LEMMA KeptAfter ==
  ASSUME NEW y, IsNext(y.next), NEW old, y.valid \in SUBSET (1 .. Len(y.next)),
         Reach(y.next, {1}, {}) = y.valid,
         \A k \in 1 .. Len(y.next) : k \in y.valid \/ (old[k] = <<>> /\ y.next[k] = <<>>),
         \A k \in y.valid : \A l \in DOMAIN old[k] : y.next[k][l] = old[k][l] \/ old[k][l] \notin y.valid,
         \A k \in y.valid : ListsRight(y, k)
  PROVE  KeepsWays(y, old)
<1>1. DOMAIN y.next = 1 .. Len(y.next)
  BY NextIs
<1>2. ASSUME NEW lk \in Links(y.next) PROVE lk[1] \in y.valid
  <2>1. lk[1] \in 1 .. Len(y.next) /\ lk[2] \in 1 .. Len(y.next[lk[1]])
    BY <1>2, LinkIs
  <2>2. PICK c : c = Len(y.next[lk[1]])
    OBVIOUS
  <2>3. c # 0
    BY <2>1, <2>2
  <2>4. y.next[lk[1]] # <<>>
    BY <2>2, <2>3, EmptySeq
  <2> QED
    BY <2>1, <2>4
<1>3. \A k : {lk \in Links(y.next) : lk[1] \in y.valid /\ Target(y.next, lk) = k} = Into(y.next, k)
  BY <1>2 DEF Into
<1>4. DOMAIN y.next \ y.valid \subseteq {k \in DOMAIN y.next : old[k] = <<>>}
  BY <1>1
<1>5. \A k \in y.valid :
        /\ Len(y.prev[k]) = Cardinality({lk \in Links(y.next) : lk[1] \in y.valid /\ Target(y.next, lk) = k})
        /\ \A m \in DOMAIN y.prev[k] : y.next[y.prev[k][m]][y.index[k][m]] = k
  BY <1>3 DEF ListsRight
<1> QED
  BY <1>4, <1>5 DEF KeepsWays

LEMMA MergedKeeps ==
  ASSUME NEW x, IsGraph(x), Connected(x.next), PredsRight(x), NEW y,
         NEW a \in 1 .. Len(x.next), NEW b \in 1 .. Len(x.next), a # b, x.next[b] = <<>>, Merges(x, y, a, b)
  PROVE  KeepsWays(y, x.next)
<1>1. PICK old, next, n : old = x.next /\ next = y.next /\ n = Len(x.next)
  OBVIOUS
<1>2. /\ IsNext(old) /\ IsNext(next) /\ Len(old) = n /\ Len(next) = n /\ DOMAIN old = 1 .. n
      /\ a \in 1 .. n /\ b \in 1 .. n /\ y.valid = (1 .. n) \ {b} /\ old[b] = <<>>
  BY <1>1, GraphTyped DEF Merges
<1>3. \A k \in 1 .. n :
        /\ Len(next[k]) = Len(old[k])
        /\ \A l \in 1 .. Len(old[k]) : next[k][l] = IF old[k][l] = b THEN a ELSE old[k][l]
  BY <1>1 DEF Merges
<1>4. Reach(y.next, {1}, {}) = y.valid
  BY MergedReach
<1>5. next[b] = <<>>
  <2>1. Len(next[b]) = 0 /\ next[b] \in Seq(1 .. n)
    <3>1. Len(old[b]) = 0
      BY <1>2, EmptySeq
    <3>2. next[b] \in Seq(1 .. n)
      BY <1>2, NextIs DEF IsNext
    <3> QED
      BY <1>2, <1>3, <3>1, <3>2
  <2> QED
    BY <2>1, EmptySeq
<1>6. \A k \in y.valid : \A l \in DOMAIN old[k] : next[k][l] = old[k][l] \/ old[k][l] \notin y.valid
  <2>1. \A k \in 1 .. n : DOMAIN old[k] = 1 .. Len(old[k])
    BY <1>2, NextIs
  <2> QED
    BY <1>2, <1>3, <2>1
<1>7. \A k \in 1 .. n : /\ Listing(x, k) = Into(old, k) /\ Len(x.prev[k]) = Cardinality(Into(old, k))
                        /\ Len(x.index[k]) = Len(x.prev[k])
  BY <1>1, <1>2 DEF PredsRight
<1>8. /\ Into(next, a) = Into(old, a) \cup Into(old, b) /\ Into(old, a) \cap Into(old, b) = {}
      /\ \A k \in 1 .. n : k \notin {a, b} => Into(next, k) = Into(old, k)
  <2>1. Moved(old, next, a, b)
    BY <1>1, MergedInto
  <2> QED
    BY <1>2, <2>1 DEF Moved
<1>9. \A k \in 1 .. n : \A m \in DOMAIN x.prev[k] : <<x.prev[k][m], x.index[k][m]>> \in Into(old, k)
  BY <1>7 DEF Listing
<1>10. ASSUME NEW k \in y.valid, k # a PROVE ListsRight(y, k)
  <2>1. k \in 1 .. n /\ y.prev[k] = x.prev[k] /\ y.index[k] = x.index[k]
    BY <1>1, <1>2, <1>10 DEF Merges
  <2>2. Into(next, k) = Into(old, k)
    BY <1>2, <1>8, <1>10
  <2>3. ASSUME NEW m \in DOMAIN x.prev[k] PROVE next[x.prev[k][m]][x.index[k][m]] = k
    <3>1. <<x.prev[k][m], x.index[k][m]>> \in Into(next, k)
      BY <1>9, <2>1, <2>2
    <3> QED
      BY <3>1 DEF Into, Target
  <2> QED
    BY <1>1, <1>7, <2>1, <2>2, <2>3 DEF ListsRight
<1>11. ListsRight(y, a)
  <2>1. PICK p, q, i, j : p = x.prev[a] /\ q = x.prev[b] /\ i = x.index[a] /\ j = x.index[b]
    OBVIOUS
  <2>2. /\ p \in Seq(1 .. n) /\ q \in Seq(1 .. n) /\ i \in Seq(Nat \ {0}) /\ j \in Seq(Nat \ {0})
        /\ Len(i) = Len(p) /\ Len(j) = Len(q)
    BY <1>1, <1>2, <1>7, <2>1, GraphTyped
  <2>3. y.prev[a] = p \o q /\ y.index[a] = i \o j
    BY <1>1, <1>2, <2>1 DEF Merges
  <2>4. /\ Len(p \o q) = Len(p) + Len(q) /\ p \o q \in Seq(1 .. n)
        /\ \A m \in 1 .. Len(p) + Len(q) : (p \o q)[m] = IF m <= Len(p) THEN p[m] ELSE q[m - Len(p)]
    BY <2>2, ConcatProperties
  <2>5. \A m \in 1 .. Len(i) + Len(j) : (i \o j)[m] = IF m <= Len(i) THEN i[m] ELSE j[m - Len(i)]
    BY <2>2, ConcatProperties
  <2>6. Len(p) \in Nat /\ Len(q) \in Nat /\ DOMAIN p = 1 .. Len(p) /\ DOMAIN q = 1 .. Len(q)
    BY <2>2, LenProperties
  <2>7. Len(p \o q) = Cardinality(Into(next, a))
    <3>1. Len(p) = Cardinality(Into(old, a)) /\ Len(q) = Cardinality(Into(old, b))
      BY <1>2, <1>7, <2>1
    <3>2. PICK A, B : A = Into(old, a) /\ B = Into(old, b)
      OBVIOUS
    <3>3. IsFiniteSet(A) /\ IsFiniteSet(B) /\ A \cap B = {}
      BY <1>2, <1>8, <3>2, IntoFinite
    <3>4. Cardinality(A \cup B) = Cardinality(A) + Cardinality(B)
      <4>1. Cardinality(A \cup B) = Cardinality(A) + Cardinality(B) - Cardinality({})
        BY <3>3, FS_Union
      <4>2. Cardinality({}) = 0 /\ Cardinality(A) \in Nat /\ Cardinality(B) \in Nat
        BY <3>3, FS_EmptySet, FS_CardinalityType
      <4> QED
        BY <4>1, <4>2
    <3> QED
      BY <1>8, <2>4, <3>1, <3>2, <3>4
  <2>8. ASSUME NEW m \in DOMAIN (p \o q) PROVE next[(p \o q)[m]][(i \o j)[m]] = a
    <3>1. m \in 1 .. Len(p) + Len(q)
      BY <2>4, LenProperties
    <3>2. CASE m <= Len(p)
      <4>1. m \in DOMAIN p /\ (p \o q)[m] = p[m] /\ (i \o j)[m] = i[m]
        BY <2>2, <2>4, <2>5, <2>6, <3>1, <3>2
      <4>2. <<p[m], i[m]>> \in Into(next, a)
        BY <1>2, <1>8, <1>9, <2>1, <4>1
      <4>3. next[p[m]][i[m]] = a
        BY <4>2 DEF Into, Target
      <4> QED
        BY <4>1, <4>3
    <3>3. CASE ~(m <= Len(p))
      <4>1. PICK d : d = m - Len(p)
        OBVIOUS
      <4>2. d \in DOMAIN q /\ (p \o q)[m] = q[d] /\ (i \o j)[m] = j[d]
        <5>1. d \in 1 .. Len(q)
          BY <2>6, <3>1, <3>3, <4>1
        <5>2. (p \o q)[m] = q[d]
          BY <2>4, <3>1, <3>3, <4>1
        <5>3. (i \o j)[m] = j[d]
          BY <2>2, <2>5, <3>1, <3>3, <4>1
        <5> QED
          BY <2>6, <5>1, <5>2, <5>3
      <4>3. <<q[d], j[d]>> \in Into(next, a)
        BY <1>2, <1>8, <1>9, <2>1, <4>2
      <4>4. next[q[d]][j[d]] = a
        BY <4>3 DEF Into, Target
      <4> QED
        BY <4>2, <4>4
    <3> QED
      BY <3>2, <3>3
  <2> QED
    BY <1>1, <2>3, <2>7, <2>8 DEF ListsRight
<1>12. \A k \in y.valid : ListsRight(y, k)
  BY <1>10, <1>11
<1>13. \A k \in 1 .. Len(next) : k \in y.valid \/ (old[k] = <<>> /\ next[k] = <<>>)
  BY <1>2, <1>5
<1>14. y.valid \in SUBSET (1 .. Len(next))
  BY <1>2
<1> QED
  BY <1>1, <1>2, <1>4, <1>6, <1>12, <1>13, <1>14, KeptAfter

\* y is x with a link from b, which had none, to a, and its name in a's lists.
GoesOn(x, y, a, b) ==
  /\ IsNext(y.next) /\ Len(y.next) = Len(x.next) /\ y.valid = 1 .. Len(x.next)
  /\ \A k \in 1 .. Len(x.next) :
       /\ y.next[k] = IF k = b THEN <<a>> ELSE x.next[k]
       /\ y.prev[k] = IF k = a THEN Append(x.prev[a], b) ELSE x.prev[k]
       /\ y.index[k] = IF k = a THEN Append(x.index[a], 1) ELSE x.index[k]

LEMMA LongerReach ==
  ASSUME NEW old, NEW next, NEW n \in Nat, NEW b, IsNext(old), IsNext(next), Len(old) = n, Len(next) = n,
         Connected(old), old[b] = <<>>, \A k \in 1 .. n : k # b => next[k] = old[k]
  PROVE  Reach(next, {1}, {}) = 1 .. n
<1>1. ASSUME NEW k \in Reach(next, {1}, {}) PROVE k \in 1 .. n
  BY <1>1, ReachWalk
<1>2. ASSUME NEW k \in 1 .. n PROVE k \in Reach(next, {1}, {})
  <2>1. k \in Reach(old, {1}, {})
    BY <1>2, NextIs DEF Connected
  <2>2. PICK w : WalkFrom(old, {1}, {}, w) /\ Len(w) <= n + 1 /\ w[Len(w)] = k
    BY <2>1, ReachWalk
  <2>3. Len(w) \in Nat \ {0} /\ \A i \in 1 .. Len(w) : w[i] \in 1 .. n
    BY <2>2, WalkFirst
  <2>4. ASSUME NEW i \in 1 .. Len(w) - 1 PROVE \E l \in 1 .. Len(next[w[i]]) : w[i + 1] = next[w[i]][l]
    <3>1. PICK j \in 1 .. n : j = w[i]
      BY <2>3
    <3>2. PICK l \in 1 .. Len(old[j]) : w[i + 1] = old[j][l]
      BY <2>2, <3>1 DEF WalkFrom
    <3>3. j # b
      <4>1. Len(<<>>) = 0
        BY EmptySeq
      <4> QED
        BY <3>2, <4>1
    <3>4. next[j] = old[j]
      BY <3>3
    <3> QED
      BY <3>1, <3>2, <3>4
  <2>5. WalkFrom(next, {1}, {}, w)
    BY <2>2, <2>4 DEF WalkFrom
  <2> QED
    BY <2>2, <2>5, ReachWalk
<1> QED
  BY <1>1, <1>2

LEMMA LongerInto ==
  ASSUME NEW old, NEW next, NEW n \in Nat, IsNext(old), IsNext(next), Len(old) = n, Len(next) = n,
         NEW a \in 1 .. n, NEW b \in 1 .. n, old[b] = <<>>,
         \A k \in 1 .. n : next[k] = IF k = b THEN <<a>> ELSE old[k]
  PROVE  /\ Into(next, a) = Into(old, a) \cup {<<b, 1>>} /\ <<b, 1>> \notin Into(old, a)
         /\ \A k \in 1 .. n : k # a => Into(next, k) = Into(old, k)
<1>1. /\ \A lk \in Links(old) : lk[1] \in 1 .. n /\ lk[2] \in 1 .. Len(old[lk[1]]) /\ lk = <<lk[1], lk[2]>>
      /\ \A k \in 1 .. n : \A l \in 1 .. Len(old[k]) : <<k, l>> \in Links(old)
  BY LinkIs
<1>2. /\ \A lk \in Links(next) : lk[1] \in 1 .. n /\ lk[2] \in 1 .. Len(next[lk[1]]) /\ lk = <<lk[1], lk[2]>>
      /\ \A k \in 1 .. n : \A l \in 1 .. Len(next[k]) : <<k, l>> \in Links(next)
  BY LinkIs
<1>3. next[b] = <<a>> /\ Len(next[b]) = 1 /\ next[b][1] = a
  BY Zenon, SMT
<1>4. ASSUME NEW lk \in Links(old) PROVE lk[1] # b
  <2>1. Len(<<>>) = 0
    BY EmptySeq
  <2>2. PICK j, l : j \in 1 .. n /\ j = lk[1] /\ l = lk[2] /\ l \in 1 .. Len(old[j])
    BY <1>1
  <2> QED
    BY <2>1, <2>2
<1>5. ASSUME NEW lk \in Links(old) PROVE lk \in Links(next) /\ Target(next, lk) = Target(old, lk)
  <2>1. PICK j, l : j \in 1 .. n /\ j # b /\ l \in 1 .. Len(old[j]) /\ lk = <<j, l>>
    BY <1>1, <1>4
  <2>2. next[j] = old[j]
    BY <2>1
  <2> QED
    BY <1>2, <2>1, <2>2 DEF Target
<1>6. ASSUME NEW lk \in Links(next) PROVE lk = <<b, 1>> \/ lk \in Links(old)
  <2>1. PICK j, l : j \in 1 .. n /\ l \in 1 .. Len(next[j]) /\ lk = <<j, l>>
    BY <1>2
  <2>2. CASE j = b
    <3>1. l = 1
      BY <1>3, <2>1, <2>2
    <3> QED
      BY <2>1, <2>2, <3>1
  <2>3. CASE j # b
    <3>1. next[j] = old[j]
      BY <2>1, <2>3
    <3> QED
      BY <1>1, <2>1, <3>1
  <2> QED
    BY <2>2, <2>3
<1>7. <<b, 1>> \in Links(next) /\ Target(next, <<b, 1>>) = a
  <2>1. 1 \in 1 .. Len(next[b])
    BY <1>3
  <2> QED
    BY <1>2, <1>3, <2>1 DEF Target
<1>8. <<b, 1>> \notin Links(old)
  <2>1. <<b, 1>>[1] = b
    OBVIOUS
  <2> QED
    BY <1>4, <2>1
<1>9. PICK e : e = <<b, 1>>
  OBVIOUS
<1> QED
  BY <1>5, <1>6, <1>7, <1>8, <1>9 DEF Into

LEMMA LongerKeeps ==
  ASSUME NEW x, IsGraph(x), Connected(x.next), PredsRight(x), NEW y,
         NEW a \in 1 .. Len(x.next), NEW b \in 1 .. Len(x.next), a # b, x.next[b] = <<>>, GoesOn(x, y, a, b)
  PROVE  KeepsWays(y, x.next)
<1>1. PICK old, next, n : old = x.next /\ next = y.next /\ n = Len(x.next)
  OBVIOUS
<1>2. /\ IsNext(old) /\ IsNext(next) /\ Len(old) = n /\ Len(next) = n /\ n \in Nat /\ DOMAIN old = 1 .. n
      /\ a \in 1 .. n /\ b \in 1 .. n /\ y.valid = 1 .. n /\ old[b] = <<>> /\ Connected(old)
  BY <1>1, GraphTyped, NextIs DEF GoesOn
<1>3. \A k \in 1 .. n : next[k] = IF k = b THEN <<a>> ELSE old[k]
  BY <1>1 DEF GoesOn
<1>4. Reach(next, {1}, {}) = y.valid
  BY <1>2, <1>3, LongerReach
<1>5. \A k \in y.valid : \A l \in DOMAIN old[k] : next[k][l] = old[k][l] \/ old[k][l] \notin y.valid
  <2>1. DOMAIN old[b] = {}
    BY <1>2
  <2> QED
    BY <1>2, <1>3, <2>1
<1>6. \A k \in 1 .. n : /\ Listing(x, k) = Into(old, k) /\ Len(x.prev[k]) = Cardinality(Into(old, k))
                        /\ Len(x.index[k]) = Len(x.prev[k])
  BY <1>1, <1>2 DEF PredsRight
<1>7. /\ Into(next, a) = Into(old, a) \cup {<<b, 1>>} /\ <<b, 1>> \notin Into(old, a)
      /\ \A k \in 1 .. n : k # a => Into(next, k) = Into(old, k)
  BY <1>2, <1>3, LongerInto
<1>8. \A k \in 1 .. n : \A m \in DOMAIN x.prev[k] : <<x.prev[k][m], x.index[k][m]>> \in Into(old, k)
  BY <1>6 DEF Listing
<1>9. ASSUME NEW k \in y.valid, k # a PROVE ListsRight(y, k)
  <2>1. k \in 1 .. n /\ y.prev[k] = x.prev[k] /\ y.index[k] = x.index[k]
    BY <1>1, <1>2, <1>9 DEF GoesOn
  <2>2. Into(next, k) = Into(old, k)
    BY <1>2, <1>7, <1>9
  <2>3. ASSUME NEW m \in DOMAIN x.prev[k] PROVE next[x.prev[k][m]][x.index[k][m]] = k
    <3>1. <<x.prev[k][m], x.index[k][m]>> \in Into(next, k)
      BY <1>8, <2>1, <2>2
    <3> QED
      BY <3>1 DEF Into, Target
  <2> QED
    BY <1>1, <1>6, <2>1, <2>2, <2>3 DEF ListsRight
<1>10. ListsRight(y, a)
  <2>1. PICK p, i : p = x.prev[a] /\ i = x.index[a]
    OBVIOUS
  <2>2. p \in Seq(1 .. n) /\ i \in Seq(Nat \ {0}) /\ Len(i) = Len(p)
    BY <1>1, <1>2, <1>6, <2>1, GraphTyped
  <2>3. y.prev[a] = Append(p, b) /\ y.index[a] = Append(i, 1)
    BY <1>1, <1>2, <2>1 DEF GoesOn
  <2>4. PICK q, j : q = Append(p, b) /\ j = Append(i, 1)
    OBVIOUS
  <2>5. /\ q \in Seq(1 .. n) /\ Len(q) = Len(p) + 1 /\ q[Len(p) + 1] = b
        /\ \A m \in 1 .. Len(p) : q[m] = p[m]
    BY <1>2, <2>2, <2>4, AppendProperties
  <2>6. j[Len(p) + 1] = 1 /\ \A m \in 1 .. Len(p) : j[m] = i[m]
    BY <2>2, <2>4, AppendProperties
  <2>7. Len(p) \in Nat /\ DOMAIN p = 1 .. Len(p) /\ DOMAIN q = 1 .. Len(p) + 1
    BY <2>2, <2>5, LenProperties
  <2>8. Len(q) = Cardinality(Into(next, a))
    <3>1. Len(p) = Cardinality(Into(old, a)) /\ IsFiniteSet(Into(old, a))
      BY <1>2, <1>6, <2>1, IntoFinite
    <3>2. PICK A, e : A = Into(old, a) /\ e = <<b, 1>>
      OBVIOUS
    <3>3. Cardinality(A \cup {e}) = Cardinality(A) + 1
      BY <1>7, <3>1, <3>2, FS_AddElement
    <3> QED
      BY <1>7, <2>5, <3>1, <3>2, <3>3
  <2>9. ASSUME NEW m \in DOMAIN q PROVE next[q[m]][j[m]] = a
    <3>1. CASE m = Len(p) + 1
      <4>1. next[b] = <<a>>
        BY <1>2, <1>3
      <4>2. <<a>>[1] = a
        OBVIOUS
      <4> QED
        BY <2>5, <2>6, <3>1, <4>1, <4>2
    <3>2. CASE m # Len(p) + 1
      <4>1. m \in DOMAIN p /\ q[m] = p[m] /\ j[m] = i[m]
        BY <2>5, <2>6, <2>7, <3>2
      <4>2. <<p[m], i[m]>> \in Into(next, a)
        BY <1>2, <1>7, <1>8, <2>1, <4>1
      <4>3. next[p[m]][i[m]] = a
        BY <4>2 DEF Into, Target
      <4> QED
        BY <4>1, <4>3
    <3> QED
      BY <3>1, <3>2
  <2> QED
    BY <1>1, <2>3, <2>4, <2>8, <2>9 DEF ListsRight
<1>11. \A k \in y.valid : ListsRight(y, k)
  BY <1>9, <1>10
<1>12. \A k \in 1 .. Len(next) : k \in y.valid \/ (old[k] = <<>> /\ next[k] = <<>>)
  BY <1>2
<1>13. y.valid \in SUBSET (1 .. Len(next))
  BY <1>2
<1> QED
  BY <1>1, <1>2, <1>4, <1>5, <1>11, <1>12, <1>13, KeptAfter

-----------------------------------------------------------------------------
(* The merge of the two returns *)

\* A function ends at two different nodes.
LEMMA ReturnsDiffer ==
  ASSUME Len(paths) \in Nat, DOMAIN paths = 1 .. Len(paths), Len(Returns) = 2
  PROVE  Returns[1] # Returns[2]
<1> DEFINE S == {p \in Complete : \A q \in Complete : q < p => EndNode(q) # EndNode(p)}
           found == InOrder(S)
           ends == [m \in DOMAIN found |-> EndNode(found[m])]
           E == {EndNode(p) : p \in Complete}
<1>1. S \in SUBSET (1 .. Len(paths)) /\ S \in SUBSET Complete
  BY DEF Complete
<1>2. \A p, q \in S : q < p => EndNode(q) # EndNode(p)
  OBVIOUS
<1>3. PICK c : c = Cardinality(S)
  OBVIOUS
<1>4. Returns = IF Len(ends) < 2 THEN <<>> ELSE Append(Tail(ends), Head(ends))
  BY Zenon DEF Returns
<1> HIDE DEF S
<1>5. /\ c \in Nat /\ DOMAIN found = 1 .. c
      /\ \A m \in 1 .. c : found[m] \in S /\ Cardinality({q \in S : q <= found[m]}) = m
  BY <1>1, <1>3, InOrderAt
<1> HIDE DEF found
<1>6. ends \in [1 .. c -> E] /\ \A m \in 1 .. c : ends[m] = EndNode(found[m])
  BY <1>1, <1>5
<1>7. ends \in Seq(E) /\ Len(ends) = c
  BY <1>5, <1>6, LenIs
<1> HIDE DEF ends, E
<1>8. Len(<<>>) = 0
  BY EmptySeq
<1>9. Returns = Append(Tail(ends), Head(ends))
  BY <1>4, <1>8
<1>10. ends # <<>>
  <2>1. ~(Len(ends) < 2)
    BY <1>4, <1>8
  <2> QED
    BY <1>8, <2>1
<1>11. /\ Tail(ends) \in Seq(E) /\ Len(Tail(ends)) = c - 1 /\ Head(ends) = ends[1]
       /\ \A i \in 1 .. Len(Tail(ends)) : Tail(ends)[i] = ends[i + 1]
  BY <1>7, <1>10, HeadTailProperties
<1>12. Head(ends) \in E
  BY <1>7, <1>10, HeadTailProperties
<1>13. PICK t, h : t = Tail(ends) /\ h = Head(ends)
  OBVIOUS
<1>14. /\ Len(Append(t, h)) = Len(t) + 1 /\ Append(t, h)[Len(t) + 1] = h
       /\ \A i \in 1 .. Len(t) : Append(t, h)[i] = t[i]
  BY <1>11, <1>12, <1>13, AppendProperties
<1>15. c = 2
  BY <1>5, <1>9, <1>11, <1>13, <1>14
<1>16. Returns[1] = ends[2] /\ Returns[2] = ends[1]
  <2>1. Len(t) = 1
    BY <1>11, <1>13, <1>15
  <2>2. Append(t, h)[2] = h /\ Append(t, h)[1] = t[1]
    <3>1. PICK u, m : u = Append(t, h) /\ m = Len(t)
      OBVIOUS
    <3>2. u[m + 1] = h /\ \A i \in 1 .. m : u[i] = t[i]
      BY <1>14, <3>1
    <3>3. m = 1
      BY <2>1, <3>1
    <3>4. u[2] = h /\ u[1] = t[1]
      BY <3>2, <3>3
    <3> QED
      BY <3>1, <3>4
  <2>3. t[1] = ends[2] /\ h = ends[1]
    <3>1. \A i \in 1 .. Len(t) : t[i] = ends[i + 1]
      BY <1>11, <1>13, Zenon
    <3>2. 1 \in 1 .. Len(t) /\ 1 + 1 = 2
      BY <2>1
    <3>3. t[1] = ends[1 + 1]
      BY <3>1, <3>2, Zenon
    <3>4. h = ends[1]
      BY <1>11, <1>13, Zenon
    <3> QED
      BY <3>2, <3>3, <3>4, Zenon
  <2>4. Returns = Append(t, h)
    BY <1>9, <1>13
  <2> QED
    BY <2>2, <2>3, <2>4, Zenon
<1>17. Returns[1] = EndNode(found[2]) /\ Returns[2] = EndNode(found[1])
  BY <1>6, <1>15, <1>16
<1>18. found[1] \in S /\ found[2] \in S /\ found[1] # found[2]
  <2>1. 1 \in 1 .. c /\ 2 \in 1 .. c
    BY <1>15
  <2>2. Cardinality({q \in S : q <= found[1]}) = 1 /\ Cardinality({q \in S : q <= found[2]}) = 2
    BY <1>5, <2>1
  <2> QED
    BY <1>5, <2>1, <2>2
<1>19. found[1] < found[2] \/ found[2] < found[1]
  <2>1. found[1] \in 1 .. Len(paths) /\ found[2] \in 1 .. Len(paths)
    BY <1>1, <1>18
  <2>2. found[1] \in Int /\ found[2] \in Int
    BY <2>1
  <2> QED
    BY <1>18, <2>2
<1> QED
  BY <1>2, <1>17, <1>18, <1>19

LEMMA UnifiedMerges ==
  ASSUME IsGraph(g), PredsRight(g), NEW a \in 1 .. Len(g.next), g.next[a] = <<>>,
         NEW b \in 1 .. Len(g.next), a # b
  PROVE  Merges(g, Unified(a, b), a, b)
<1> DEFINE into == {<<g.prev[b][m], g.index[b][m]>> : m \in DOMAIN g.prev[b]}
           next == [k \in Node |-> [l \in DOMAIN g.next[k] |->
                                      IF <<k, l>> \in into THEN a ELSE g.next[k][l]]]
           prev == [g.prev EXCEPT ![a] = g.prev[a] \o g.prev[b], ![b] = <<>>]
           index == [g.index EXCEPT ![a] = g.index[a] \o g.index[b], ![b] = <<>>]
           n == Len(g.next)
<1>1. Redirected(g.next, Unified(a, b).next, a)
  BY UnifiedIs
<1>2. /\ Unified(a, b).next = next /\ Unified(a, b).prev = prev /\ Unified(a, b).index = index
      /\ Unified(a, b).valid = g.valid \ {b}
  <2>1. Unified(a, b).next = next
    BY DEF Unified, IsGraph
  <2>2. Unified(a, b).prev = prev
    BY DEF Unified, IsGraph
  <2>3. Unified(a, b).index = index
    BY DEF Unified, IsGraph
  <2>4. Unified(a, b).valid = g.valid \ {b}
    BY DEF Unified, IsGraph
  <2> QED
    BY <2>1, <2>2, <2>3, <2>4
<1>3. /\ IsNext(g.next) /\ DOMAIN g.next = 1 .. n /\ g.valid = 1 .. n
      /\ \A k \in 1 .. n : DOMAIN g.next[k] = 1 .. Len(g.next[k])
  BY GraphTyped, NextIs
<1>4. into = Into(g.next, b)
  BY <1>3 DEF PredsRight, Listing
<1> HIDE DEF into
<1>5. ASSUME NEW k \in 1 .. n, NEW l \in 1 .. Len(g.next[k])
      PROVE  next[k][l] = IF g.next[k][l] = b THEN a ELSE g.next[k][l]
  <2>1. <<k, l>> \in Links(g.next) /\ Target(g.next, <<k, l>>) = g.next[k][l]
    BY <1>3, LinkIs DEF Target
  <2>2. <<k, l>> \in into <=> g.next[k][l] = b
    BY <1>4, <2>1 DEF Into
  <2>3. next[k][l] = IF <<k, l>> \in into THEN a ELSE g.next[k][l]
    BY <1>3 DEF Node
  <2> HIDE DEF next
  <2> QED
    BY <2>2, <2>3
<1>6. ASSUME NEW k \in 1 .. n PROVE Len(next[k]) = Len(g.next[k])
  <2>1. DOMAIN next[k] = 1 .. Len(g.next[k])
    BY <1>3 DEF Node
  <2>2. next[k] \in Seq(1 .. n)
    <3>1. IsNext(next) /\ Len(next) = n
      BY <1>1, <1>2 DEF Redirected
    <3> HIDE DEF next
    <3> QED
      BY <3>1, NextIs DEF IsNext
  <2>3. PICK s : s = next[k]
    OBVIOUS
  <2>4. Len(s) \in Nat /\ DOMAIN s = 1 .. Len(s) /\ Len(g.next[k]) \in Nat
    BY <1>3, <2>2, <2>3, NextIs, LenProperties
  <2>5. s \in [1 .. Len(g.next[k]) -> 1 .. n]
    <3>1. s \in [1 .. Len(s) -> 1 .. n]
      BY <2>2, <2>3, LenProperties
    <3>2. 1 .. Len(s) = 1 .. Len(g.next[k])
      BY <2>1, <2>3, <2>4
    <3> HIDE DEF next
    <3> QED
      BY <3>1, <3>2
  <2> QED
    BY <2>3, <2>4, <2>5, LenIs
<1>7. ASSUME NEW k \in 1 .. n
      PROVE  /\ prev[k] = IF k = b THEN <<>> ELSE IF k = a THEN g.prev[a] \o g.prev[b] ELSE g.prev[k]
             /\ index[k] = IF k = b THEN <<>> ELSE IF k = a THEN g.index[a] \o g.index[b] ELSE g.index[k]
  <2>1. DOMAIN g.prev = 1 .. n /\ DOMAIN g.index = 1 .. n
    BY DEF IsGraph
  <2> QED
    BY <2>1
<1>8. IsNext(next) /\ Len(next) = n
  BY <1>1, <1>2 DEF Redirected
<1> HIDE DEF next, prev, index
<1> QED
  BY <1>2, <1>3, <1>5, <1>6, <1>7, <1>8 DEF Merges

LEMMA ShortenedGoesOn ==
  ASSUME IsGraph(g), NEW a \in 1 .. Len(g.next), g.next[a] = <<>>, NEW b \in 1 .. Len(g.next), a # b
  PROVE  GoesOn(g, Shortened(a, b), a, b)
<1> DEFINE next == [g.next EXCEPT ![b] = <<a>>]
           prev == [g.prev EXCEPT ![a] = Append(@, b)]
           index == [g.index EXCEPT ![a] = Append(@, 1)]
           n == Len(g.next)
<1>1. Redirected(g.next, Shortened(a, b).next, a)
  BY ShortenedIs
<1>2. /\ Shortened(a, b).next = next /\ Shortened(a, b).prev = prev /\ Shortened(a, b).index = index
      /\ Shortened(a, b).valid = g.valid
  BY DEF Shortened, IsGraph
<1>3. DOMAIN g.next = 1 .. n /\ g.valid = 1 .. n /\ DOMAIN g.prev = 1 .. n /\ DOMAIN g.index = 1 .. n
  BY GraphTyped DEF IsGraph
<1>4. \A k \in 1 .. n : /\ next[k] = IF k = b THEN <<a>> ELSE g.next[k]
                        /\ prev[k] = IF k = a THEN Append(g.prev[a], b) ELSE g.prev[k]
                        /\ index[k] = IF k = a THEN Append(g.index[a], 1) ELSE g.index[k]
  BY <1>3
<1>5. IsNext(next) /\ Len(next) = n
  BY <1>1, <1>2 DEF Redirected
<1> HIDE DEF next, prev, index
<1> QED
  BY <1>2, <1>3, <1>4, <1>5 DEF GoesOn

\* The graph the paths are built over keeps the ways of the function's.
KeptInv == stage \in {"paths", "returns", "loops"} => KeepsWays(g, Old)

\* The graphs of the functions are those of create_function_node_members: every node is
\* reached, and the lists of predecessors name every link once.
Regular == \A x \in Graph : Connected(x.next) /\ PredsRight(x)

LEMMA RegularIs ==
  ASSUME Regular, functions \in Programs, fi \in Nat \ {0}, fi <= Len(functions), NEW x, x = functions[fi]
  PROVE  IsGraph(x) /\ Connected(x.next) /\ PredsRight(x)
<1>1. functions \in Seq(Graph)
  BY PathsAssumption
<1>2. fi \in 1 .. Len(functions)
  BY <1>1, LenProperties
<1>3. x \in Graph
  BY <1>1, <1>2, ElementOfSeq
<1> QED
  BY <1>3, GraphIs DEF Regular

LEMMA KeptBegin == ASSUME Regular, PathsIInv, Begin PROVE KeptInv'
<1>1. PICK x : x = functions[fi]
  OBVIOUS
<1>2. fi <= Len(functions) /\ g' = x /\ UNCHANGED <<functions, fi>>
  BY <1>1 DEF Begin
<1>3. IsGraph(x) /\ Connected(x.next) /\ PredsRight(x)
  BY <1>1, <1>2, RegularIs DEF PathsIInv
<1>4. KeepsWays(x, x.next)
  BY <1>3, KeptBefore
<1>5. g' = x /\ Old' = x.next
  BY <1>1, <1>2 DEF Old
<1> QED
  BY <1>4, <1>5 DEF KeptInv

LEMMA KeptMerge == ASSUME Regular, PathsIInv, KeptInv, NEW common, MergeReturns(common) PROVE KeptInv'
<1>1. stage = "returns" /\ Len(Returns) = 2 /\ UNCHANGED <<functions, fi>>
  BY DEF MergeReturns
<1>2. Building /\ ~again /\ walking = FALSE
  BY <1>1 DEF PathsIInv
<1>3. g = functions[fi] /\ fi <= Len(functions)
  BY <1>2 DEF Building
<1>4. IsGraph(g) /\ Connected(g.next) /\ PredsRight(g)
  BY <1>3, RegularIs DEF PathsIInv
<1>5. KeepsWays(g, g.next) /\ Old' = g.next
  BY <1>1, <1>3, <1>4, KeptBefore DEF Old
<1>6. Returns[1] # Returns[2]
  <2>1. PICK T, W, next, k : T = paths /\ W = waiting /\ next = g.next /\ k = path - 1
    OBVIOUS
  <2>2. Typed(T, W, next) /\ Listed(T, W, next, k, k)
    BY <1>2, <2>1 DEF Building, Filled
  <2>3. DOMAIN T = 1 .. Len(T) /\ Len(T) \in Nat
    BY <2>2, LenProperties DEF Typed
  <2> QED
    BY <1>1, <2>1, <2>3, ReturnsDiffer
<1>7. PICK a, b : /\ a \in {Returns[1], Returns[2]} /\ b \in {Returns[1], Returns[2]} /\ a # b
                  /\ g' = g \/ g' = Unified(a, b) \/ g' = Shortened(a, b)
  <2> DEFINE small == g.len[Returns[1]] <= g.len[Returns[2]]
             a == IF small THEN Returns[1] ELSE Returns[2]
             b == IF a = Returns[1] THEN Returns[2] ELSE Returns[1]
  <2>1. g' = g \/ g' = Unified(a, b) \/ g' = Shortened(a, b)
    BY DEF MergeReturns
  <2>2. a \in {Returns[1], Returns[2]} /\ b \in {Returns[1], Returns[2]} /\ a # b
    BY <1>6
  <2> HIDE DEF a, b
  <2> QED
    BY <2>1, <2>2
<1>8. /\ a \in 1 .. Len(g.next) /\ b \in 1 .. Len(g.next)
      /\ g.next[a] = <<>> /\ g.next[b] = <<>>
  BY <1>1, <1>7, ReturnsLast
<1>9. KeepsWays(g', g.next)
  <2>1. CASE g' = g
    BY <1>5, <2>1
  <2>2. CASE g' = Unified(a, b)
    <3>1. Merges(g, Unified(a, b), a, b)
      BY <1>4, <1>7, <1>8, UnifiedMerges
    <3>2. KeepsWays(Unified(a, b), g.next)
      BY <1>4, <1>7, <1>8, <3>1, MergedKeeps
    <3> QED
      BY <2>2, <3>2
  <2>3. CASE g' = Shortened(a, b)
    <3>1. GoesOn(g, Shortened(a, b), a, b)
      BY <1>4, <1>7, <1>8, ShortenedGoesOn
    <3>2. KeepsWays(Shortened(a, b), g.next)
      BY <1>4, <1>7, <1>8, <3>1, LongerKeeps
    <3> QED
      BY <2>3, <3>2
  <2> QED
    BY <1>7, <2>1, <2>2, <2>3
<1> QED
  BY <1>5, <1>9 DEF KeptInv

LEMMA KeptStays ==
  ASSUME KeptInv, UNCHANGED <<g, functions, fi>>, stage' = stage \/ stage \in {"paths", "returns", "loops"}
  PROVE  KeptInv'
<1>1. Old' = Old
  BY DEF Old
<1> QED
  BY <1>1 DEF KeptInv

LEMMA KeptNext == ASSUME Regular, PathsIInv, KeptInv, [Next]_vars PROVE KeptInv'
<1>1. ASSUME NEW common \in 0 .. Max({g.len[k] : k \in Node}), MergeReturns(common) \/ MergeTails(common)
      PROVE  KeptInv'
  <2>1. CASE MergeTails(common)
    BY <2>1 DEF MergeTails, KeptInv
  <2> QED
    BY <1>1, <2>1, KeptMerge
<1>2. CASE TakeMid \/ CloseLoop \/ Extend \/ EndPath
  <2>1. UNCHANGED <<g, functions, fi>> /\ stage = "paths"
    BY <1>2 DEF TakeMid, CloseLoop, Extend, EndPath, Walking
  <2> QED
    BY <2>1, KeptStays
<1>3. CASE PathsDone \/ OneReturn \/ TooManyReturns
  <2>1. UNCHANGED <<g, functions, fi>> /\ stage \in {"paths", "returns"}
    BY <1>3 DEF PathsDone, OneReturn, TooManyReturns
  <2> QED
    BY <2>1, KeptStays
<1>4. CASE BuildLoops \/ KeepFunction
  <2>1. stage' \notin {"paths", "returns", "loops"}
    BY <1>4 DEF BuildLoops, KeepFunction
  <2> QED
    BY <2>1 DEF KeptInv
<1>5. CASE UNCHANGED vars
  <2>1. UNCHANGED <<g, functions, fi, stage>>
    BY <1>5 DEF vars
  <2> QED
    BY <2>1, KeptStays
<1> QED
  BY <1>1, <1>2, <1>3, <1>4, <1>5, KeptBegin DEF Next, PathsStep

\* Whichever two returns analyse_merge_nodes makes one, in a function whose nodes are all
\* reached and whose lists of predecessors name every link once: everything the function
\* led to is still reached, only a return is given up, every link leads where it led unless
\* to that return, and the lists of the nodes left name exactly their links.
THEOREM MergeKeeps == Regular => (Spec => []MergeKeepsWays)
<1> SUFFICES ASSUME Regular PROVE Spec => []MergeKeepsWays
  OBVIOUS
<1>1. Init => PathsIInv /\ KeptInv
  <2>1. Init => KeptInv
    BY DEF Init, KeptInv
  <2> QED
    BY <2>1, PathsStart
<1>2. PathsIInv /\ [Next]_vars => PathsIInv'
  BY PathsNext DEF Kept
<1>3. PathsIInv /\ KeptInv /\ [Next]_vars => KeptInv'
  BY KeptNext
<1>4. KeptInv => MergeKeepsWays
  BY DEF KeptInv, MergeKeepsWays, KeepsWays, AtLoops, Old, Node
<1> QED
  BY <1>1, <1>2, <1>3, <1>4, PTL DEF Spec

-----------------------------------------------------------------------------
(* Walks cut and joined *)

\* The part of a walk from its step a to its step b, and what it does not meet.
Misses(w, a, b, B) == \A i \in 1 .. Len(w) : a <= i /\ i <= b => w[i] \notin B
Part(w, a, b, u) == Len(u) = b - a + 1 /\ \A i \in 1 .. b - a + 1 : u[i] = w[a + i - 1]

LEMMA Slice ==
  ASSUME NEW next, NEW S, NEW A, NEW w, WalkFrom(next, S, A, w), NEW B,
         NEW a \in 1 .. Len(w), NEW b \in 1 .. Len(w), a <= b, Misses(w, a, b, B)
  PROVE  \E u : WalkFrom(next, {w[a]}, B, u) /\ Part(w, a, b, u)
<1>1. /\ Len(w) \in Nat \ {0} /\ a \in Nat \ {0} /\ b \in Nat \ {0} /\ b <= Len(w)
      /\ \A i \in 1 .. Len(w) : w[i] \in 1 .. Len(next)
  BY FromIs
<1>2. PICK u : u = SubSeq(w, a, b)
  OBVIOUS
<1>3. \A i \in 1 .. b - a + 1 : a + i - 1 \in 1 .. Len(w) /\ a <= a + i - 1 /\ a + i - 1 <= b
  BY <1>1
<1>4. u \in Seq(1 .. Len(next)) /\ Len(u) = b - a + 1 /\ \A i \in 1 .. b - a + 1 : u[i] = w[a + i - 1]
  <2>1. w \in Seq(1 .. Len(next))
    BY DEF WalkFrom
  <2>2. u = [i \in 1 .. b - a + 1 |-> w[a + i - 1]]
    BY <1>1, <1>2, <2>1 DEF SubSeq
  <2>3. u \in [1 .. b - a + 1 -> 1 .. Len(next)] /\ b - a + 1 \in Nat
    BY <1>1, <1>3, <2>2
  <2>4. u \in Seq(1 .. Len(next)) /\ Len(u) = b - a + 1
    BY <2>3, LenIs
  <2> QED
    BY <2>2, <2>4
<1>5. u # <<>> /\ u[1] = w[a]
  <2>1. 1 \in 1 .. b - a + 1 /\ a + 1 - 1 = a /\ Len(u) # 0
    BY <1>1, <1>4
  <2> QED
    BY <1>4, <2>1, EmptySeq
<1>6. \A i \in 1 .. Len(u) : u[i] \notin B
  BY <1>3, <1>4 DEF Misses
<1>7. \A i \in 1 .. Len(u) - 1 : \E l \in 1 .. Len(next[u[i]]) : u[i + 1] = next[u[i]][l]
  <2>1. ASSUME NEW i \in 1 .. Len(u) - 1 PROVE \E l \in 1 .. Len(next[u[i]]) : u[i + 1] = next[u[i]][l]
    <3>1. PICK m \in 1 .. Len(w) - 1 : m = a + i - 1
      BY <1>1, <1>4
    <3>2. i \in 1 .. b - a + 1 /\ i + 1 \in 1 .. b - a + 1 /\ a + (i + 1) - 1 = m + 1
      BY <1>1, <1>4, <3>1
    <3>3. u[i] = w[m] /\ u[i + 1] = w[m + 1]
      BY <1>4, <3>1, <3>2
    <3>4. \E l \in 1 .. Len(next[w[m]]) : w[m + 1] = next[w[m]][l]
      BY <3>1 DEF WalkFrom
    <3> QED
      BY <3>3, <3>4
  <2> QED
    BY <2>1
<1>8. WalkFrom(next, {w[a]}, B, u)
  BY <1>4, <1>5, <1>6, <1>7 DEF WalkFrom
<1>9. Part(w, a, b, u)
  BY <1>4 DEF Part
<1> QED
  BY <1>8, <1>9

\* Two walks, the second of which begins where the first ends.
Spliced(u, v) == [i \in 1 .. Len(u) + Len(v) - 1 |-> IF i <= Len(u) THEN u[i] ELSE v[i - Len(u) + 1]]

Joint(u, v, s) == /\ Len(s) = Len(u) + Len(v) - 1
                  /\ \A i \in 1 .. Len(u) : s[i] = u[i]
                  /\ \A i \in 1 .. Len(v) : s[Len(u) + i - 1] = v[i]

LEMMA Splice ==
  ASSUME NEW next, NEW S, NEW Z, NEW A, NEW u, NEW v, WalkFrom(next, S, A, u), WalkFrom(next, Z, A, v),
         v[1] = u[Len(u)]
  PROVE  \E s : WalkFrom(next, S, A, s) /\ Joint(u, v, s)
<1>1. /\ Len(u) \in Nat \ {0} /\ Len(v) \in Nat \ {0}
      /\ \A i \in 1 .. Len(u) : u[i] \in 1 .. Len(next)
      /\ \A i \in 1 .. Len(v) : v[i] \in 1 .. Len(next)
  BY FromIs
<1>2. PICK c \in Nat \ {0}, d \in Nat \ {0} : c = Len(u) /\ d = Len(v)
  BY <1>1
<1>3. PICK t : t = Spliced(u, v)
  OBVIOUS
<1>4. /\ \A i \in 1 .. c + d - 1 : t[i] = IF i <= c THEN u[i] ELSE v[i - c + 1]
      /\ t = [i \in 1 .. c + d - 1 |-> t[i]]
  BY <1>2, <1>3 DEF Spliced
<1>5. \A i \in 1 .. c : t[i] = u[i] /\ i \in 1 .. c + d - 1
  BY <1>4
<1>6. \A i \in 1 .. d : t[c + i - 1] = v[i] /\ c + i - 1 \in 1 .. c + d - 1
  <2>1. ASSUME NEW i \in 1 .. d PROVE t[c + i - 1] = v[i] /\ c + i - 1 \in 1 .. c + d - 1
    <3>1. c + i - 1 \in 1 .. c + d - 1 /\ (i = 1 => c + i - 1 = c) /\ (i # 1 => ~(c + i - 1 <= c))
          /\ (c + i - 1) - c + 1 = i /\ c <= c
      BY <1>2
    <3>2. CASE i = 1
      BY <1>2, <1>4, <3>1, <3>2
    <3>3. CASE i # 1
      BY <1>4, <3>1, <3>3
    <3> QED
      BY <3>1, <3>2, <3>3
  <2> QED
    BY <2>1
<1>7. ASSUME NEW i \in 1 .. c + d - 1
      PROVE  (i \in 1 .. c) \/ (i - c + 1 \in 1 .. d /\ i = c + (i - c + 1) - 1)
  BY <1>2
<1>8. \A i \in 1 .. c + d - 1 : t[i] \in 1 .. Len(next) /\ t[i] \notin A
  <2>1. ASSUME NEW i \in 1 .. c + d - 1 PROVE t[i] \in 1 .. Len(next) /\ t[i] \notin A
    <3>1. CASE i \in 1 .. c
      BY <1>1, <1>2, <1>5, <3>1 DEF WalkFrom
    <3>2. CASE i - c + 1 \in 1 .. d /\ i = c + (i - c + 1) - 1
      <4>1. t[i] = v[i - c + 1]
        BY <1>6, <3>2
      <4> QED
        BY <1>1, <1>2, <3>2, <4>1 DEF WalkFrom
    <3> QED
      BY <1>7, <3>1, <3>2
  <2> QED
    BY <2>1
<1>9. t \in Seq(1 .. Len(next)) /\ Len(t) = c + d - 1
  <2>1. t \in [1 .. c + d - 1 -> 1 .. Len(next)] /\ c + d - 1 \in Nat
    BY <1>2, <1>4, <1>8
  <2> QED
    BY <2>1, LenIs
<1>10. t # <<>> /\ t[1] \in S
  <2>1. Len(t) # 0 /\ 1 \in 1 .. c
    BY <1>2, <1>9
  <2>2. t[1] = u[1] /\ u[1] \in S
    BY <1>5, <2>1 DEF WalkFrom
  <2> QED
    BY <1>9, <2>1, <2>2, EmptySeq
<1>11. ASSUME NEW i \in 1 .. Len(t) - 1 PROVE \E l \in 1 .. Len(next[t[i]]) : t[i + 1] = next[t[i]][l]
  <2>1. i \in 1 .. c + d - 2
    BY <1>2, <1>9
  <2>2. CASE i + 1 <= c
    <3>1. i \in 1 .. Len(u) - 1 /\ i \in 1 .. c /\ i + 1 \in 1 .. c
      BY <1>2, <2>1, <2>2
    <3>2. t[i] = u[i] /\ t[i + 1] = u[i + 1]
      BY <1>5, <3>1
    <3> QED
      BY <3>1, <3>2 DEF WalkFrom
  <2>3. CASE ~(i + 1 <= c)
    <3>1. PICK m \in 1 .. d - 1 : m = i - c + 1
      BY <1>2, <2>1, <2>3
    <3>2. m \in 1 .. Len(v) - 1 /\ m \in 1 .. d /\ m + 1 \in 1 .. d /\ i = c + m - 1 /\ i + 1 = c + (m + 1) - 1
      BY <1>2, <2>1, <3>1
    <3>3. t[i] = v[m] /\ t[i + 1] = v[m + 1]
      BY <1>6, <3>2
    <3> QED
      BY <3>2, <3>3 DEF WalkFrom
  <2> QED
    BY <2>2, <2>3
<1>12. WalkFrom(next, S, A, t)
  BY <1>8, <1>9, <1>10, <1>11 DEF WalkFrom
<1>13. Joint(u, v, t)
  BY <1>2, <1>5, <1>6, <1>9 DEF Joint
<1> QED
  BY <1>12, <1>13

\* What a walk leads to, one leads to that meets no node twice.
LEMMA OnceFrom ==
  ASSUME NEW next, NEW S, NEW A, NEW w, WalkFrom(next, S, A, w)
  PROVE  \E t : WalkFrom(next, S, A, t) /\ OnceTo(t, Len(t)) /\ t[Len(t)] = w[Len(w)]
<1> DEFINE k == w[Len(w)]
           T == {n \in Nat : \E t : WalkFrom(next, S, A, t) /\ Len(t) = n /\ t[n] = k}
<1>1. Len(w) \in T
  BY FromIs
<1>2. PICK n \in T : \A m \in T : n <= m
  BY <1>1, Least
<1>3. PICK t : WalkFrom(next, S, A, t) /\ Len(t) = n /\ t[n] = k
  BY <1>2
<1> HIDE DEF k
<1>4. n \in Nat \ {0}
  BY <1>3, FromIs
<1>5. ASSUME NEW i \in 1 .. n, NEW j \in 1 .. n, i < j PROVE t[i] # t[j]
  <2> SUFFICES ASSUME t[i] = t[j] PROVE FALSE
    OBVIOUS
  <2>1. 1 <= i /\ j <= n /\ 1 \in 1 .. n /\ n \in 1 .. n
    BY <1>4
  <2>2. i \in 1 .. Len(t) /\ j \in 1 .. Len(t) /\ 1 \in 1 .. Len(t) /\ n \in 1 .. Len(t)
    BY <1>3, <2>1
  <2>3. Misses(t, 1, i, A) /\ Misses(t, j, n, A)
    BY <1>3 DEF WalkFrom, Misses
  <2>4. PICK u : WalkFrom(next, {t[1]}, A, u) /\ Part(t, 1, i, u)
    BY <1>3, <2>1, <2>2, <2>3, Slice, Zenon
  <2>5. PICK v : WalkFrom(next, {t[j]}, A, v) /\ Part(t, j, n, v)
    BY <1>3, <2>1, <2>2, <2>3, Slice, Zenon
  <2>6. Len(u) = i /\ u[i] = t[i] /\ v[1] = t[j] /\ v[n - j + 1] = t[n] /\ Len(v) = n - j + 1
    <3>1. i \in 1 .. i - 1 + 1 /\ 1 + i - 1 = i /\ i - 1 + 1 = i
          /\ 1 \in 1 .. n - j + 1 /\ n - j + 1 \in 1 .. n - j + 1 /\ j + 1 - 1 = j /\ j + (n - j + 1) - 1 = n
      BY <1>4, <1>5
    <3> QED
      BY <2>4, <2>5, <3>1 DEF Part
  <2>7. v[1] = u[Len(u)]
    BY <2>6
  <2>8. PICK s : WalkFrom(next, {t[1]}, A, s) /\ Joint(u, v, s)
    BY <2>4, <2>5, <2>7, Splice, Zenon
  <2>9. Len(s) = i + (n - j + 1) - 1 /\ s[i + (n - j + 1) - 1] = v[n - j + 1]
    <3>1. n - j + 1 \in 1 .. Len(v)
      BY <1>4, <1>5, <2>6
    <3> QED
      BY <2>6, <2>8, <3>1 DEF Joint
  <2>10. WalkFrom(next, S, A, s)
    <3>1. t[1] \in S
      BY <1>3 DEF WalkFrom
    <3> QED
      BY <2>8, <3>1 DEF WalkFrom
  <2>11. i + (n - j + 1) - 1 \in Nat /\ i + (n - j + 1) - 1 < n
    BY <1>4, <1>5
  <2>12. i + (n - j + 1) - 1 \in T
    BY <1>3, <2>6, <2>10, <2>11, <2>9
  <2> HIDE DEF T
  <2> QED
    BY <1>2, <1>4, <2>11, <2>12
<1>6. OnceTo(t, Len(t))
  <2>1. \A i, j \in 1 .. n : i < j \/ j < i \/ i = j
    BY <1>4
  <2> QED
    BY <1>3, <1>5, <2>1 DEF OnceTo
<1> QED
  BY <1>3, <1>6 DEF k

\* Whatever a walk leads to is reached, also when it is longer than the rounds Reach makes.
Gets(next, S, A, k) == \E w : WalkFrom(next, S, A, w) /\ w[Len(w)] = k

LEMMA ReachAny ==
  ASSUME NEW next, IsNext(next), NEW S \in SUBSET (1 .. Len(next)), NEW A, NEW k
  PROVE  k \in Reach(next, S, A) <=> Gets(next, S, A, k)
<1>1. Reach(next, S, A) = ReachedBy(next, S, A, Len(next))
  BY ReachIs
<1>2. ASSUME NEW w, WalkFrom(next, S, A, w), w[Len(w)] = k PROVE k \in ReachedBy(next, S, A, Len(next))
  <2>1. PICK t : WalkFrom(next, S, A, t) /\ OnceTo(t, Len(t)) /\ t[Len(t)] = k
    BY <1>2, OnceFrom
  <2>2. Len(t) \in Nat \ {0} /\ \A i \in 1 .. Len(t) : t[i] \in 1 .. Len(next)
    BY <2>1, FromIs
  <2>3. Len(next) \in Nat
    BY NextIs
  <2> DEFINE f == [i \in 1 .. Len(t) |-> t[i]]
  <2>4. f \in [1 .. Len(t) -> 1 .. Len(next)] /\ \A i, j \in 1 .. Len(t) : f[i] = f[j] => i = j
    BY <2>1, <2>2 DEF OnceTo
  <2> HIDE DEF f
  <2>5. Len(t) <= Len(next)
    BY <2>2, <2>3, <2>4, Pigeons
  <2>6. Len(t) <= Len(next) + 1 /\ k \in 1 .. Len(next)
    <3>1. Len(t) \in 1 .. Len(t)
      BY <2>2
    <3> QED
      BY <2>1, <2>2, <2>3, <2>5, <3>1
  <2> QED
    BY <2>1, <2>6 DEF ReachedBy
<1> QED
  BY <1>1, <1>2 DEF ReachedBy, Gets

-----------------------------------------------------------------------------
(* Ways round *)

\* A walk with more nodes to avoid is one with fewer.
LEMMA FromLess ==
  ASSUME NEW next, NEW S, NEW A, NEW w, WalkFrom(next, S, A, w) PROVE WalkFrom(next, S, {}, w)
BY DEF WalkFrom

\* A walk goes on by one link.
Onto(w, k, y) == Len(y) = Len(w) + 1 /\ y[Len(w) + 1] = k /\ \A i \in 1 .. Len(w) : y[i] = w[i]

LEMMA OneOn ==
  ASSUME NEW next, IsNext(next), NEW S, NEW A, NEW w, WalkFrom(next, S, A, w), NEW j, j = w[Len(w)],
         NEW k, k \in 1 .. Len(next), k \notin A, NEW l \in 1 .. Len(next[j]), k = next[j][l]
  PROVE  \E y : WalkFrom(next, S, A, y) /\ Onto(w, k, y)
<1>1. k \in 1 .. Len(next)
  OBVIOUS
<1>2. /\ WalkFrom(next, S, A, Append(w, k)) /\ Len(Append(w, k)) = Len(w) + 1
      /\ Append(w, k)[Len(w) + 1] = k /\ \A i \in 1 .. Len(w) : Append(w, k)[i] = w[i]
  BY <1>1, FromOn
<1> QED
  BY <1>2 DEF Onto

\* When the code gets to a way round, a link back leads to a node of it.
LEMMA WayRound ==
  ASSUME NEW next, IsNext(next), NEW S, NEW c, WalkFrom(next, S, {}, c), Len(c) # 1, c[1] = c[Len(c)],
         NEW w, WalkFrom(next, {1}, {}, w), w[Len(w)] = c[1]
  PROVE  \E s : LoopWalk(next, s) /\ \E i \in 1 .. Len(c) : s[Len(s)] = c[i]
<1>1. PICK n \in Nat \ {0, 1} : n = Len(c)
  BY FromIs
<1>2. PICK C : C = {c[i] : i \in 1 .. n}
  OBVIOUS
<1>3. PICK B : B = (1 .. Len(next)) \ C
  OBVIOUS
<1>4. PICK t : WalkFrom(next, {1}, {}, t) /\ OnceTo(t, Len(t)) /\ t[Len(t)] = c[1]
  BY OnceFrom
<1>5. PICK L \in Nat \ {0} : L = Len(t)
  BY <1>4, FromIs
<1>6. PICK p \in 1 .. L : t[p] \in C /\ \A i \in 1 .. p - 1 : t[i] \notin C
  <2> DEFINE T == {i \in 1 .. L : t[i] \in C}
  <2>1. 1 \in 1 .. n /\ L \in 1 .. L
    BY <1>1
  <2>2. L \in T
    BY <1>2, <1>4, <1>5, <2>1
  <2>3. T \in SUBSET Nat
    OBVIOUS
  <2>4. PICK p \in T : \A k \in T : p <= k
    BY <2>2, <2>3, Least
  <2>5. ASSUME NEW i \in 1 .. p - 1 PROVE i \in 1 .. L /\ ~(p <= i)
    BY <2>4
  <2>6. \A i \in 1 .. p - 1 : t[i] \notin C
    BY <2>4, <2>5
  <2> QED
    BY <2>4, <2>6
<1>7. PICK m \in 1 .. n - 1 : t[p] = c[m]
  <2>1. PICK i \in 1 .. n : t[p] = c[i]
    BY <1>2, <1>6
  <2>2. i \in 1 .. n - 1 \/ (i = n /\ 1 \in 1 .. n - 1)
    BY <1>1
  <2> QED
    BY <1>1, <2>1, <2>2
<1>8. PICK q : /\ WalkFrom(next, {c[m + 1]}, B, q) /\ OnceTo(q, Len(q)) /\ q[Len(q)] = c[m]
  <2>1. /\ 1 \in 1 .. Len(c) /\ n \in 1 .. Len(c) /\ m \in 1 .. Len(c) /\ m + 1 \in 1 .. Len(c)
        /\ 1 <= m /\ m + 1 <= n
    BY <1>1
  <2>2. Misses(c, 1, m, B) /\ Misses(c, m + 1, n, B)
    BY <1>1, <1>2, <1>3 DEF Misses
  <2>3. PICK u : WalkFrom(next, {c[m + 1]}, B, u) /\ Part(c, m + 1, n, u)
    BY <2>1, <2>2, Slice, Zenon
  <2>4. PICK v : WalkFrom(next, {c[1]}, B, v) /\ Part(c, 1, m, v)
    BY <2>1, <2>2, Slice, Zenon
  <2>5. Len(u) = n - m /\ u[n - m] = c[n] /\ Len(v) = m /\ v[1] = c[1] /\ v[m] = c[m]
    <3>1. /\ n - (m + 1) + 1 = n - m /\ n - m \in 1 .. n - (m + 1) + 1 /\ (m + 1) + (n - m) - 1 = n
          /\ m - 1 + 1 = m /\ 1 \in 1 .. m /\ m \in 1 .. m /\ 1 + 1 - 1 = 1 /\ 1 + m - 1 = m
      BY <1>1
    <3> QED
      BY <2>3, <2>4, <3>1 DEF Part
  <2>6. v[1] = u[Len(u)]
    BY <1>1, <2>5
  <2>7. PICK s : WalkFrom(next, {c[m + 1]}, B, s) /\ Joint(u, v, s)
    BY <2>3, <2>4, <2>6, Splice, Zenon
  <2>8. s[Len(s)] = c[m]
    <3>1. Len(s) = (n - m) + m - 1 /\ m \in 1 .. Len(v) /\ s[(n - m) + m - 1] = v[m]
      BY <2>1, <2>5, <2>7 DEF Joint
    <3> QED
      BY <2>5, <3>1
  <2> QED
    BY <2>7, <2>8, OnceFrom
<1>9. PICK d \in Nat \ {0} : d = Len(q)
  BY <1>8, FromIs
<1>10. PICK u : WalkFrom(next, {1}, {}, u) /\ Len(u) = p + 1 /\ u[p + 1] = q[1] /\ \A i \in 1 .. p : u[i] = t[i]
  <2>1. p \in 1 .. Len(t)
    BY <1>5
  <2>2. PICK v : v = SubSeq(t, 1, p)
    OBVIOUS
  <2>3. WalkFrom(next, {1}, {}, v) /\ Len(v) = p /\ \A i \in 1 .. p : v[i] = t[i]
    BY <1>4, <2>1, <2>2, FromCut
  <2>4. v[Len(v)] = c[m]
    <3>1. p \in 1 .. p
      OBVIOUS
    <3> QED
      BY <1>7, <2>3, <3>1
  <2>5. m \in 1 .. Len(c) - 1
    BY <1>1
  <2>6. PICK l \in 1 .. Len(next[c[m]]) : c[m + 1] = next[c[m]][l]
    BY <2>5 DEF WalkFrom
  <2>7. q[1] = c[m + 1] /\ q[1] \in 1 .. Len(next)
    <3>1. 1 \in 1 .. d
      BY <1>9
    <3>2. q[1] \in {c[m + 1]}
      BY <1>8 DEF WalkFrom
    <3> QED
      BY <1>8, <1>9, <3>1, <3>2, FromIs
  <2>8. PICK k : k = q[1]
    OBVIOUS
  <2>9. k \in 1 .. Len(next) /\ k \notin {} /\ k = next[c[m]][l] /\ c[m] = v[Len(v)]
    BY <2>4, <2>6, <2>7, <2>8
  <2>10. PICK y : WalkFrom(next, {1}, {}, y) /\ Onto(v, k, y)
    BY <2>3, <2>9, OneOn, Zenon
  <2>11. Len(y) = p + 1 /\ y[p + 1] = q[1] /\ \A i \in 1 .. p : y[i] = t[i]
    BY <2>3, <2>8, <2>10 DEF Onto
  <2> QED
    BY <2>10, <2>11
<1>11. PICK s : WalkFrom(next, {1}, {}, s) /\ Joint(u, q, s)
  <2>1. WalkFrom(next, {c[m + 1]}, {}, q) /\ q[1] = u[Len(u)]
    BY <1>8, <1>10, FromLess
  <2> QED
    BY <1>10, <2>1, Splice, Zenon
<1>12. /\ Len(s) = p + d /\ \A i \in 1 .. p : s[i] = t[i]
       /\ \A i \in 1 .. d : s[p + i] = q[i]
  <2>1. Len(s) = (p + 1) + d - 1 /\ \A i \in 1 .. p + 1 : s[i] = u[i]
    BY <1>9, <1>10, <1>11 DEF Joint
  <2>2. ASSUME NEW i \in 1 .. d PROVE s[p + i] = q[i]
    <3>1. (p + 1) + i - 1 = p + i
      OBVIOUS
    <3> QED
      BY <1>9, <1>10, <1>11, <3>1 DEF Joint
  <2>3. \A i \in 1 .. p : i \in 1 .. p + 1
    OBVIOUS
  <2>4. Len(s) = p + d
    BY <1>9, <2>1
  <2> QED
    BY <1>10, <2>1, <2>2, <2>3, <2>4
<1>13. p \in 1 .. Len(s) - 1 /\ s[p] = c[m] /\ s[Len(s)] = c[m]
  <2>1. p \in 1 .. p + d - 1 /\ p \in 1 .. p /\ d \in 1 .. d
    BY <1>9
  <2> QED
    BY <1>7, <1>8, <1>9, <1>12, <2>1
<1>14. ASSUME NEW i \in 1 .. p + d - 1, NEW j \in 1 .. p + d - 1, i < j, s[i] = s[j] PROVE FALSE
  <2>1. CASE j \in 1 .. p
    <3>1. i \in 1 .. p /\ i \in 1 .. L /\ j \in 1 .. L
      BY <1>14, <2>1
    <3>2. t[i] = t[j]
      BY <1>12, <1>14, <2>1, <3>1
    <3>3. i = j
      BY <1>4, <1>5, <3>1, <3>2 DEF OnceTo
    <3> QED
      BY <1>14, <3>3
  <2>2. ASSUME NEW e \in 1 .. d - 1, j = p + e, i \in 1 .. p - 1 PROVE FALSE
    <3>1. i \in 1 .. p /\ e \in 1 .. d
      BY <2>2
    <3>2. t[i] = q[e]
      BY <1>12, <1>14, <2>2, <3>1
    <3>3. q[e] \in 1 .. Len(next) /\ q[e] \notin B
      BY <1>8, <1>9, <3>1, FromIs DEF WalkFrom
    <3> QED
      BY <1>3, <1>6, <2>2, <3>2, <3>3
  <2>3. ASSUME NEW e \in 1 .. d - 1, j = p + e, i = p PROVE FALSE
    <3>1. e \in 1 .. d /\ d \in 1 .. d /\ e # d
      BY <2>3
    <3>2. q[e] = q[d]
      BY <1>8, <1>9, <1>12, <1>13, <1>14, <2>3, <3>1
    <3> QED
      BY <1>8, <1>9, <3>1, <3>2 DEF OnceTo
  <2>4. ASSUME NEW e \in 1 .. d - 1, j = p + e, NEW f \in 1 .. d - 1, i = p + f PROVE FALSE
    <3>1. e \in 1 .. d /\ f \in 1 .. d /\ e # f
      BY <1>14, <2>4
    <3>2. q[e] = q[f]
      BY <1>12, <1>14, <2>4, <3>1
    <3> QED
      BY <1>8, <1>9, <3>1, <3>2 DEF OnceTo
  <2>5. \/ j \in 1 .. p
        \/ j - p \in 1 .. d - 1 /\ j = p + (j - p) /\
              (i \in 1 .. p - 1 \/ i = p \/ (i - p \in 1 .. d - 1 /\ i = p + (i - p)))
    BY <1>9, <1>14
  <2> QED
    BY <2>1, <2>2, <2>3, <2>4, <2>5
<1>15. OnceTo(s, Len(s) - 1)
  <2>1. \A i, j \in 1 .. p + d - 1 : i < j \/ j < i \/ i = j
    BY <1>9
  <2> QED
    BY <1>12, <1>14, <2>1 DEF OnceTo
<1>16. Walks(next, s)
  <2>1. s[1] \in {1}
    BY <1>11 DEF WalkFrom
  <2> QED
    BY <1>11, <2>1 DEF WalkFrom, Walks
<1>17. LoopWalk(next, s)
  BY <1>13, <1>15, <1>16 DEF LoopWalk
<1>18. m \in 1 .. Len(c)
  BY <1>1
<1> QED
  BY <1>13, <1>17, <1>18

-----------------------------------------------------------------------------
(* The nodes of a loop *)

\* Where the links back lead, and the nodes that walks pass between a head and the link
\* back to it.
HeadsOf(next) == {Target(next, lk) : lk \in BackLinks(next)}
OnLoop(next, t, h, k) ==
  LoopWalk(next, t) /\ t[Len(t)] = h /\ \E i, m \in 1 .. Len(t) - 1 : i <= m /\ t[i] = h /\ t[m] = k
LoopNodes(next, h) == {k \in 1 .. Len(next) : \E t : OnLoop(next, t, h, k)}

\* Dominators and natural loops, by walks.
LEMMA GetsIs ==
  ASSUME NEW next, IsNext(next), NEW x \in 1 .. Len(next), NEW h, NEW k
  PROVE  k \in Reach(next, {x}, {h}) <=> Gets(next, {x}, {h}, k)
<1>1. {x} \in SUBSET (1 .. Len(next))
  OBVIOUS
<1>2. PICK S, A : S = {x} /\ A = {h}
  OBVIOUS
<1>3. k \in Reach(next, S, A) <=> Gets(next, S, A, k)
  BY <1>1, <1>2, ReachAny
<1> QED
  BY <1>2, <1>3

LEMMA DominatesIs ==
  ASSUME NEW next, IsNext(next), NEW h, NEW k PROVE Dominates(next, h, k) <=> ~Gets(next, {1}, {h}, k)
<1>1. 1 \in 1 .. Len(next)
  BY NextIs
<1> QED
  BY <1>1, GetsIs DEF Dominates

Latch(next, h, j) == j \in 1 .. Len(next) /\ (\E l \in 1 .. Len(next[j]) : next[j][l] = h) /\ Dominates(next, h, j)

LEMMA NaturalIs ==
  ASSUME NEW next, IsNext(next), NEW h, NEW k
  PROVE  k \in NaturalLoop(next, h)
           <=> k = h \/ (k \in 1 .. Len(next) /\ k # h /\ \E j : Gets(next, {k}, {h}, j) /\ Latch(next, h, j))
<1>1. DOMAIN next = 1 .. Len(next)
  BY NextIs
<1>2. ASSUME NEW x \in 1 .. Len(next), NEW j
      PROVE  j \in Reach(next, {x}, {h}) <=> Gets(next, {x}, {h}, j)
  BY GetsIs
<1>3. ASSUME NEW x, NEW j, Gets(next, {x}, {h}, j) PROVE j \in 1 .. Len(next)
  <2>1. PICK w : WalkFrom(next, {x}, {h}, w) /\ w[Len(w)] = j
    BY <1>3 DEF Gets
  <2>2. Len(w) \in 1 .. Len(w)
    BY <2>1, FromIs
  <2> QED
    BY <2>1, <2>2, FromIs
<1>4. ASSUME NEW j \in 1 .. Len(next)
      PROVE  h \in Range(next[j]) <=> \E l \in 1 .. Len(next[j]) : next[j][l] = h
  <2>1. DOMAIN next[j] = 1 .. Len(next[j])
    BY NextIs
  <2> QED
    BY <2>1 DEF Range
<1>5. ASSUME NEW x \in 1 .. Len(next)
      PROVE  (\E j \in Reach(next, {x}, {h}) : h \in Range(next[j]) /\ Dominates(next, h, j))
               <=> \E j : Gets(next, {x}, {h}, j) /\ Latch(next, h, j)
  BY <1>2, <1>3, <1>4 DEF Latch
<1>6. NaturalLoop(next, h)
        = {h} \cup {x \in DOMAIN next \ {h} : \E j \in Reach(next, {x}, {h}) :
                                                h \in Range(next[j]) /\ Dominates(next, h, j)}
  BY DEF NaturalLoop
<1> HIDE DEF Latch, Gets
<1> QED
  BY <1>1, <1>5, <1>6

\* Where every loop has one way in, the nodes between a head and the link back are of its
\* natural loop.
LEMMA LoopNodesIn ==
  ASSUME NEW next, IsNext(next), Reducible(next), NEW h PROVE LoopNodes(next, h) \subseteq NaturalLoop(next, h)
<1> SUFFICES ASSUME NEW k \in 1 .. Len(next), NEW t, OnLoop(next, t, h, k), k # h PROVE k \in NaturalLoop(next, h)
  BY NaturalIs DEF LoopNodes
<1>1. PICK i \in 1 .. Len(t) - 1, m \in 1 .. Len(t) - 1 : i <= m /\ t[i] = h /\ t[m] = k
  BY DEF OnLoop
<1>2. /\ LoopWalk(next, t) /\ Walks(next, t) /\ OnceTo(t, Len(t) - 1) /\ t[Len(t)] = h
  BY DEF OnLoop, LoopWalk
<1>3. PICK n \in Nat \ {0} : n = Len(t) - 1
  <2>1. Len(t) \in Nat
    BY <1>2, WalkIs
  <2> QED
    BY <1>1, <2>1
<1>4. Len(t) = n + 1 /\ n \in 1 .. Len(t) /\ n \in 1 .. n /\ n \in 1 .. Len(t) - 1 /\ m \in 1 .. Len(t) /\ m <= n
  <2>1. Len(t) \in Nat
    BY <1>2, WalkIs
  <2> QED
    BY <1>3, <2>1
<1>5. WalkFrom(next, {1}, {}, t)
  BY <1>2 DEF Walks, WalkFrom
<1>6. Misses(t, m, n, {h})
  <2>1. ASSUME NEW x \in 1 .. Len(t), m <= x, x <= n, t[x] = h PROVE FALSE
    <3>1. x \in 1 .. Len(t) - 1
      BY <1>4, <2>1
    <3>2. x = i
      BY <1>1, <1>2, <2>1, <3>1 DEF OnceTo
    <3>3. i = m
      BY <1>1, <1>4, <2>1, <3>2
    <3> QED
      BY <1>1, <3>3
  <2> QED
    BY <2>1 DEF Misses
<1>7. PICK w : WalkFrom(next, {t[m]}, {h}, w) /\ Part(t, m, n, w)
  BY <1>4, <1>5, <1>6, Slice, Zenon
<1>8. w[Len(w)] = t[n]
  <2>1. n - m + 1 \in 1 .. n - m + 1 /\ m + (n - m + 1) - 1 = n
    BY <1>4
  <2> QED
    BY <1>7, <2>1 DEF Part
<1>9. Gets(next, {k}, {h}, t[n])
  BY <1>1, <1>7, <1>8 DEF Gets
<1>10. t[n] \in 1 .. Len(next)
  BY <1>2, <1>4, WalkIs
<1>11. PICK l \in 1 .. Len(next[t[n]]) : t[n + 1] = next[t[n]][l]
  BY <1>2, <1>4 DEF Walks
<1>12. PICK lk : lk = <<t[n], l>>
  OBVIOUS
<1>13. lk \in LastLinks(next, t) /\ Target(next, lk) = h /\ lk[1] = t[n]
  BY <1>2, <1>3, <1>4, <1>10, <1>11, <1>12, LinkIs DEF LastLinks, Target
<1>14. Dominates(next, h, t[n])
  <2>1. lk \in BackLinks(next)
    BY <1>2, <1>13, LastBack
  <2> QED
    BY <1>13, <2>1 DEF Reducible
<1>15. Latch(next, h, t[n])
  <2>1. next[t[n]][l] = h
    BY <1>2, <1>4, <1>11
  <2> QED
    BY <1>10, <1>14, <2>1 DEF Latch
<1> QED
  BY <1>9, <1>15, NaturalIs

\* A walk from the beginning that goes round for the first time is of a loop.
LEMMA LoopOn ==
  ASSUME NEW next, IsNext(next), NEW v, WalkFrom(next, {1}, {}, v), OnceTo(v, Len(v)), NEW h \in 1 .. Len(next),
         NEW l \in 1 .. Len(next[v[Len(v)]]), next[v[Len(v)]][l] = h,
         NEW i \in 1 .. Len(v), NEW m \in 1 .. Len(v), i <= m, v[i] = h
  PROVE  \E t : OnLoop(next, t, h, v[m])
<1>1. PICK n \in Nat \ {0} : n = Len(v)
  BY FromIs
<1>2. PICK j : j = v[Len(v)]
  OBVIOUS
<1>3. h \notin {} /\ l \in 1 .. Len(next[j]) /\ h = next[j][l]
  BY <1>2
<1>4. PICK t : WalkFrom(next, {1}, {}, t) /\ Onto(v, h, t)
  BY <1>2, <1>3, OneOn, Zenon
<1>5. Len(t) = n + 1 /\ Len(t) - 1 = n /\ t[n + 1] = h /\ \A x \in 1 .. n : t[x] = v[x]
  BY <1>1, <1>4 DEF Onto
<1>6. Walks(next, t)
  <2>1. t[1] \in {1}
    BY <1>4 DEF WalkFrom
  <2> QED
    BY <1>4, <2>1 DEF WalkFrom, Walks
<1>7. OnceTo(t, Len(t) - 1)
  BY <1>1, <1>5 DEF OnceTo
<1>8. i \in 1 .. Len(t) - 1 /\ m \in 1 .. Len(t) - 1 /\ t[i] = h /\ t[m] = v[m] /\ t[Len(t)] = h
  BY <1>1, <1>5
<1>9. LoopWalk(next, t)
  BY <1>6, <1>7, <1>8 DEF LoopWalk
<1> QED
  BY <1>8, <1>9 DEF OnLoop

\* In a loop without another inside, those are all of its nodes.
LEMMA LoopNodesAll ==
  ASSUME NEW next, IsNext(next), NEW h, NaturalLoop(next, h) \cap HeadsOf(next) = {h},
         NEW k \in NaturalLoop(next, h), k # h, Gets(next, {1}, {}, k)
  PROVE  k \in LoopNodes(next, h)
<1>1. k \in 1 .. Len(next) /\ \E j : Gets(next, {k}, {h}, j) /\ Latch(next, h, j)
  BY NaturalIs
<1>2. PICK j : Gets(next, {k}, {h}, j) /\ Latch(next, h, j)
  BY <1>1
<1>3. ~Gets(next, {1}, {h}, j)
  BY <1>2, DominatesIs DEF Latch
<1>4. PICK q : WalkFrom(next, {k}, {h}, q) /\ q[Len(q)] = j
  BY <1>2 DEF Gets
<1>5. PICK w : WalkFrom(next, {1}, {}, w) /\ OnceTo(w, Len(w)) /\ w[Len(w)] = k
  <2>1. PICK u : WalkFrom(next, {1}, {}, u) /\ u[Len(u)] = k
    BY DEF Gets
  <2> QED
    BY <2>1, OnceFrom
<1>6. PICK M \in Nat \ {0}, d \in Nat \ {0} : M = Len(w) /\ d = Len(q)
  BY <1>4, <1>5, FromIs
<1>7. q[1] = w[Len(w)]
  <2>1. q[1] \in {k}
    BY <1>4 DEF WalkFrom
  <2> QED
    BY <1>5, <2>1
<1>8. PICK v : WalkFrom(next, {1}, {}, v) /\ Joint(w, q, v)
  <2>1. WalkFrom(next, {k}, {}, q)
    BY <1>4, FromLess
  <2> QED
    BY <1>5, <1>7, <2>1, Splice, Zenon
<1>9. PICK n \in Nat \ {0} : n = Len(v) /\ n = M + d - 1
  BY <1>6, <1>8 DEF Joint
<1>10. /\ \A x \in 1 .. M : v[x] = w[x] /\ x \in 1 .. n
       /\ \A x \in 1 .. n : x \in 1 .. M \/ (x - M + 1 \in 1 .. d /\ v[x] = q[x - M + 1])
       /\ v[n] = j
  <2>1. \A x \in 1 .. M : v[x] = w[x] /\ x \in 1 .. n
    BY <1>6, <1>8, <1>9 DEF Joint
  <2>2. ASSUME NEW x \in 1 .. n, ~(x \in 1 .. M) PROVE x - M + 1 \in 1 .. d /\ v[x] = q[x - M + 1]
    <3>1. PICK e \in 1 .. d : e = x - M + 1
      BY <1>9, <2>2
    <3>2. x = M + e - 1
      BY <3>1
    <3> QED
      BY <1>6, <1>8, <3>1, <3>2 DEF Joint
  <2>3. d \in 1 .. d
    OBVIOUS
  <2>4. v[n] = j
    BY <1>4, <1>6, <1>8, <1>9, <2>3 DEF Joint
  <2> QED
    BY <2>1, <2>2, <2>4
<1>11. PICK i \in 1 .. M : w[i] = h
  <2> SUFFICES ASSUME \A i \in 1 .. M : w[i] # h PROVE FALSE
    OBVIOUS
  <2>1. WalkFrom(next, {1}, {h}, w)
    BY <1>5, <1>6 DEF WalkFrom
  <2>2. PICK s : WalkFrom(next, {1}, {h}, s) /\ Joint(w, q, s)
    BY <1>4, <1>7, <2>1, Splice, Zenon
  <2>3. s[Len(s)] = j
    <3>1. d \in 1 .. Len(q) /\ Len(s) = Len(w) + d - 1
      BY <1>6, <2>2 DEF Joint
    <3> QED
      BY <1>4, <1>6, <2>2, <3>1 DEF Joint
  <2> QED
    BY <1>3, <2>2, <2>3 DEF Gets
<1>12. ASSUME NEW x \in 1 .. n, i < x PROVE v[x] # h
  <2>1. CASE x \in 1 .. M
    BY <1>5, <1>6, <1>10, <1>11, <1>12, <2>1 DEF OnceTo
  <2>2. CASE x - M + 1 \in 1 .. d /\ v[x] = q[x - M + 1]
    BY <1>4, <1>6, <2>2 DEF WalkFrom
  <2> QED
    BY <1>10, <2>1, <2>2
<1>13. ASSUME NEW x \in 1 .. n, i < x PROVE Gets(next, {v[x]}, {h}, j)
  <2>1. x \in 1 .. Len(v) /\ n \in 1 .. Len(v) /\ x <= n
    BY <1>9
  <2>2. Misses(v, x, n, {h})
    BY <1>9, <1>12, <1>13 DEF Misses
  <2>3. PICK u : WalkFrom(next, {v[x]}, {h}, u) /\ Part(v, x, n, u)
    BY <1>8, <2>1, <2>2, Slice, Zenon
  <2>4. n - x + 1 \in 1 .. n - x + 1 /\ x + (n - x + 1) - 1 = n
    BY <1>9
  <2>5. u[Len(u)] = j
    BY <1>10, <2>3, <2>4 DEF Part
  <2> QED
    BY <2>3, <2>5 DEF Gets
<1>14. ASSUME NEW a \in 1 .. n, NEW b \in 1 .. n, a < b, v[a] = v[b] PROVE FALSE
  <2>1. CASE b \in 1 .. M
    <3>1. a \in 1 .. M /\ a # b
      BY <1>14, <2>1
    <3> QED
      BY <1>5, <1>6, <1>10, <1>14, <2>1, <3>1 DEF OnceTo
  <2>2. CASE ~(b \in 1 .. M) /\ a < i
    <3>1. i < b /\ 1 \in 1 .. Len(w) /\ a \in 1 .. Len(w) /\ 1 <= a /\ a \in 1 .. M
      BY <1>6, <1>14, <2>2
    <3>2. Misses(w, 1, a, {h})
      <4>1. ASSUME NEW x \in 1 .. Len(w), x <= a PROVE w[x] # h
        <5>1. x # i /\ i \in 1 .. Len(w)
          BY <1>6, <2>2, <4>1
        <5> QED
          BY <1>5, <1>11, <5>1 DEF OnceTo
      <4> QED
        BY <4>1 DEF Misses
    <3>3. PICK u : WalkFrom(next, {w[1]}, {h}, u) /\ Part(w, 1, a, u)
      BY <1>5, <3>1, <3>2, Slice, Zenon
    <3>4. PICK y : WalkFrom(next, {v[b]}, {h}, y) /\ y[Len(y)] = j
      BY <1>13, <3>1 DEF Gets
    <3>5. u[Len(u)] = y[1]
      <4>1. a - 1 + 1 = a /\ a \in 1 .. a /\ 1 + a - 1 = a
        BY <3>1
      <4>2. y[1] \in {v[b]}
        BY <3>4 DEF WalkFrom
      <4> QED
        BY <1>10, <1>14, <3>1, <3>3, <4>1, <4>2 DEF Part
    <3>6. PICK s : WalkFrom(next, {w[1]}, {h}, s) /\ Joint(u, y, s)
      BY <3>3, <3>4, <3>5, Splice, Zenon
    <3>7. w[1] \in {1}
      BY <1>5 DEF WalkFrom
    <3>8. WalkFrom(next, {1}, {h}, s)
      BY <3>6, <3>7 DEF WalkFrom
    <3>9. s[Len(s)] = j
      <4>1. PICK e \in Nat \ {0} : e = Len(y)
        BY <3>4, FromIs
      <4>2. e \in 1 .. Len(y) /\ Len(s) = Len(u) + e - 1
        BY <3>6, <4>1 DEF Joint
      <4> QED
        BY <3>4, <3>6, <4>1, <4>2 DEF Joint
    <3> QED
      BY <1>3, <3>8, <3>9 DEF Gets
  <2>3. CASE ~(b \in 1 .. M) /\ a = i
    BY <1>10, <1>11, <1>12, <1>14, <2>3
  <2>4. CASE i < a
    <3>1. a \in 1 .. Len(v) /\ b \in 1 .. Len(v) /\ 1 \in 1 .. Len(v) /\ a <= b /\ 1 <= a
      BY <1>9, <1>14
    <3>2. Misses(v, a, b, {}) /\ Misses(v, 1, a, {})
      BY DEF Misses
    <3>3. PICK c : WalkFrom(next, {v[a]}, {}, c) /\ Part(v, a, b, c)
      BY <1>8, <3>1, <3>2, Slice, Zenon
    <3>4. PICK u : WalkFrom(next, {v[1]}, {}, u) /\ Part(v, 1, a, u)
      BY <1>8, <3>1, <3>2, Slice, Zenon
    <3>5. Len(c) = b - a + 1 /\ Len(c) # 1 /\ c[1] = v[a] /\ c[Len(c)] = v[b] /\ u[Len(u)] = v[a]
      <4>1. /\ b - a + 1 # 1 /\ 1 \in 1 .. b - a + 1 /\ b - a + 1 \in 1 .. b - a + 1 /\ a + 1 - 1 = a
            /\ a + (b - a + 1) - 1 = b /\ a - 1 + 1 = a /\ a \in 1 .. a /\ 1 + a - 1 = a
        BY <1>14
      <4> QED
        BY <3>3, <3>4, <4>1 DEF Part
    <3>6. WalkFrom(next, {1}, {}, u)
      <4>1. v[1] \in {1}
        BY <1>8 DEF WalkFrom
      <4> QED
        BY <3>4, <4>1 DEF WalkFrom
    <3>7. c[1] = c[Len(c)] /\ u[Len(u)] = c[1]
      BY <1>14, <3>5
    <3>8. PICK s : LoopWalk(next, s) /\ \E e \in 1 .. Len(c) : s[Len(s)] = c[e]
      BY <3>3, <3>5, <3>6, <3>7, WayRound
    <3>9. PICK e \in 1 .. Len(c) : s[Len(s)] = c[e]
      BY <3>8
    <3>10. PICK x \in 1 .. n : i < x /\ c[e] = v[x]
      <4>1. a + e - 1 \in 1 .. n /\ i < a + e - 1 /\ e \in 1 .. b - a + 1
        BY <1>14, <2>4, <3>5
      <4> QED
        BY <3>3, <4>1 DEF Part
    <3>11. v[x] \in HeadsOf(next)
      <4>1. PICK lk \in BackLinks(next) : Target(next, lk) = s[Len(s)]
        BY <3>8, LinkBack
      <4> QED
        BY <3>10, <3>9, <4>1 DEF HeadsOf
    <3>12. v[x] \in NaturalLoop(next, h) /\ v[x] # h
      <4>1. v[x] \in 1 .. Len(next) /\ v[x] # h
        BY <1>8, <1>9, <1>12, <3>10, FromIs
      <4> QED
        BY <1>2, <1>13, <3>10, <4>1, NaturalIs
    <3> QED
      BY <3>11, <3>12
  <2> QED
    BY <1>14, <2>1, <2>2, <2>3, <2>4
<1>15. OnceTo(v, Len(v))
  <2>1. \A a, b \in 1 .. n : a < b \/ b < a \/ a = b
    BY <1>9
  <2> QED
    BY <1>9, <1>14, <2>1 DEF OnceTo
<1>16. PICK l \in 1 .. Len(next[v[Len(v)]]) : next[v[Len(v)]][l] = h
  BY <1>2, <1>9, <1>10 DEF Latch
<1>17. i \in 1 .. Len(v) /\ M \in 1 .. Len(v) /\ i <= M /\ v[i] = h /\ v[M] = k
  BY <1>5, <1>6, <1>9, <1>10, <1>11
<1>18. h \in 1 .. Len(next)
  BY <1>8, <1>17, FromIs
<1>19. \E t : OnLoop(next, t, h, v[M])
  BY <1>8, <1>15, <1>16, <1>17, <1>18, LoopOn
<1> QED
  BY <1>1, <1>17, <1>19 DEF LoopNodes

-----------------------------------------------------------------------------
(* The loop table *)

\* The path table when it is whole: the rows are marked as what they are, and every walk
\* that closes a loop is one.
MarkedTable(T, next) ==
  /\ IsNext(next) /\ Len(T) \in Nat /\ DOMAIN T = 1 .. Len(T)
  /\ \A p \in 1 .. Len(T) : Marked(next, T[p], Traces(T)[p])
  /\ \A t : LoopWalk(next, t) => \E p \in 1 .. Len(T) : Traces(T)[p] = t

LEMMA FinalTable ==
  ASSUME PathsIInv, WholeInv, stage = "loops", ~again PROVE MarkedTable(paths, g.next)
<1>1. PICK T, W, next, k : T = paths /\ W = waiting /\ next = g.next /\ k = path - 1
  OBVIOUS
<1>2. /\ k \in Nat /\ Typed(T, W, next) /\ IsNext(next) /\ Listed(T, W, next, k, k)
      /\ Once(T, W, next, k, k) /\ Whole(T, W, next, k) /\ Marks(T, next, k, k) /\ Used = {}
  BY <1>1, RowsAre
<1>3. DOMAIN T = 1 .. k /\ Len(T) = k
  BY <1>2, RowsTyped DEF Once
<1>4. InUse(W) = {}
  BY <1>1, <1>2 DEF InUse, Used
<1>5. ASSUME NEW t, LoopWalk(next, t) PROVE \E p \in 1 .. k : Traces(T)[p] = t
  <2>1. Way(next, t)
    BY <1>5 DEF Way
  <2> QED
    BY <1>2, <1>4, <2>1, AllWays
<1>6. \A p \in 1 .. k : Marked(next, T[p], Traces(T)[p])
  BY <1>2 DEF Marks
<1> QED
  BY <1>1, <1>2, <1>3, <1>5, <1>6 DEF MarkedTable

LEMMA RowHead ==
  ASSUME NEW T, NEW next, MarkedTable(T, next), NEW p \in 1 .. Len(T), NEW t, t = Traces(T)[p]
  PROVE  /\ T[p].head # 0 <=> LoopWalk(next, t)
         /\ LoopWalk(next, t) => T[p].head = t[Len(t)]
<1>1. IsNext(next) /\ Marked(next, T[p], t)
  BY DEF MarkedTable
<1>2. ASSUME LoopWalk(next, t) PROVE t[Len(t)] # 0
  <2>1. Walks(next, t)
    BY <1>2 DEF LoopWalk
  <2>2. Len(t) \in 1 .. Len(t)
    BY <1>1, <2>1, WalkIs
  <2> QED
    BY <1>1, <2>1, <2>2, WalkIs
<1> QED
  BY <1>1, <1>2 DEF Marked

\* The heads of the rows are where the links back lead, and the first rows with each of
\* them have all.
LEMMA RowHeads ==
  ASSUME NEW T, NEW next, MarkedTable(T, next)
  PROVE  /\ \A p \in HeadRows(T) : T[p].head \in HeadsOf(next)
         /\ \A h \in HeadsOf(next) : \E p \in HeadRows(T) : T[p].head = h
<1>1. IsNext(next) /\ Len(T) \in Nat /\ DOMAIN T = 1 .. Len(T)
  BY DEF MarkedTable
<1>2. ASSUME NEW p \in HeadRows(T) PROVE T[p].head \in HeadsOf(next)
  <2>1. p \in 1 .. Len(T) /\ T[p].head # 0
    BY <1>1 DEF HeadRows
  <2>2. PICK t : t = Traces(T)[p]
    OBVIOUS
  <2>3. LoopWalk(next, t) /\ T[p].head = t[Len(t)]
    BY <2>1, <2>2, RowHead
  <2> QED
    BY <1>1, <2>3, LinkBack DEF HeadsOf
<1>3. ASSUME NEW h \in HeadsOf(next) PROVE \E p \in HeadRows(T) : T[p].head = h
  <2>1. PICK lk \in BackLinks(next) : h = Target(next, lk)
    BY DEF HeadsOf
  <2>2. PICK t : LoopWalk(next, t) /\ lk \in LastLinks(next, t)
    BY <1>1, <2>1, BackLast
  <2>3. PICK q \in 1 .. Len(T) : Traces(T)[q] = t
    BY <2>2 DEF MarkedTable
  <2>4. T[q].head = h /\ h # 0
    <3>1. T[q].head # 0 /\ T[q].head = t[Len(t)]
      BY <2>2, <2>3, RowHead
    <3> QED
      BY <2>1, <2>2, <3>1 DEF LastLinks
  <2> DEFINE Q == {p \in 1 .. Len(T) : T[p].head = h}
  <2>5. Q \in SUBSET Nat /\ q \in Q
    BY <2>4
  <2>6. PICK p \in Q : \A x \in Q : p <= x
    BY <2>5, Least
  <2>7. ASSUME NEW x \in 1 .. p - 1 PROVE T[x].head # h
    <3>1. x \in 1 .. Len(T) /\ ~(p <= x)
      BY <1>1
    <3> QED
      BY <2>6, <3>1
  <2>8. p \in 1 .. Len(T) /\ T[p].head = h
    OBVIOUS
  <2> HIDE DEF Q
  <2>9. p \in HeadRows(T)
    BY <1>1, <2>4, <2>7, <2>8 DEF HeadRows
  <2> QED
    BY <2>8, <2>9
<1> QED
  BY <1>2, <1>3

\* merge_path_into_loop adds the nodes between the head and the link back.
RowBody(T, p) ==
  LET t == Front(Traces(T)[p])
      from == {k \in DOMAIN t : t[k] = T[p].head}
  IN  Range(SubSeq(t, Max({1} \cup from), Len(t)))

LEMMA BodyIs ==
  ASSUME NEW T, NEW next, MarkedTable(T, next), NEW p \in 1 .. Len(T), NEW h, T[p].head = h, h # 0
  PROVE  RowBody(T, p) = {k \in 1 .. Len(next) : OnLoop(next, Traces(T)[p], h, k)}
<1>1. PICK t : t = Traces(T)[p]
  OBVIOUS
<1>2. IsNext(next) /\ LoopWalk(next, t) /\ h = t[Len(t)] /\ Walks(next, t) /\ OnceTo(t, Len(t) - 1)
  <2>1. T[p].head # 0 <=> LoopWalk(next, t)
    BY <1>1, RowHead
  <2>2. LoopWalk(next, t) => T[p].head = t[Len(t)]
    BY <1>1, RowHead
  <2> QED
    BY <2>1, <2>2 DEF MarkedTable, LoopWalk
<1>3. PICK i \in 1 .. Len(t) - 1 : t[i] = h
  BY <1>2 DEF LoopWalk
<1>4. PICK n \in Nat \ {0} : n = Len(t) - 1
  <2>1. Len(t) \in Nat
    BY <1>2, WalkIs
  <2> QED
    BY <1>3, <2>1
<1>5. \A x \in 1 .. n : x \in 1 .. Len(t) /\ t[x] \in 1 .. Len(next)
  <2>1. Len(t) \in Nat /\ \A x \in 1 .. Len(t) : t[x] \in 1 .. Len(next)
    BY <1>2, WalkIs
  <2>2. \A x \in 1 .. n : x \in 1 .. Len(t)
    BY <1>4, <2>1
  <2> QED
    BY <2>1, <2>2
<1>6. PICK f : f = Front(t)
  OBVIOUS
<1>7. Len(f) = n /\ DOMAIN f = 1 .. n /\ \A x \in 1 .. n : f[x] = t[x]
  <2>1. f = SubSeq(t, 1, n)
    BY <1>4, <1>6 DEF Front
  <2>2. 1 \in Int /\ n \in Int /\ 1 <= n /\ n - 1 + 1 = n /\ \A x \in 1 .. n : 1 + x - 1 = x
    OBVIOUS
  <2>3. /\ f \in Seq(1 .. Len(next)) /\ Len(f) = (IF 1 <= n THEN n - 1 + 1 ELSE 0)
        /\ \A x \in 1 .. n - 1 + 1 : f[x] = t[1 + x - 1]
    BY <1>5, <2>1, <2>2, SubSeqProperties
  <2> QED
    BY <2>2, <2>3, LenProperties
<1>8. i \in 1 .. n /\ {k \in DOMAIN f : f[k] = T[p].head} = {i}
  <2>1. i \in 1 .. n
    BY <1>4
  <2>2. ASSUME NEW x \in 1 .. n, f[x] = h PROVE x = i
    BY <1>2, <1>3, <1>4, <1>7, <2>1, <2>2 DEF OnceTo
  <2>3. f[i] = h
    BY <1>3, <1>7, <2>1
  <2>4. \A x : x \in {k \in DOMAIN f : f[k] = h} <=> x = i
    BY <1>7, <2>1, <2>2, <2>3
  <2> QED
    BY <2>1, <2>4
<1>9. Max({1} \cup {i}) = i
  <2>1. i \in {1} \cup {i} /\ \A y \in {1} \cup {i} : i >= y
    BY <1>8
  <2>2. ASSUME NEW x \in {1} \cup {i}, \A y \in {1} \cup {i} : x >= y PROVE x = i
    BY <1>8, <2>2
  <2> QED
    BY <2>1, <2>2 DEF Max
<1>10. PICK u : u = SubSeq(f, i, n)
  OBVIOUS
<1>11. RowBody(T, p) = Range(u)
  <2>1. RowBody(T, p) = Range(SubSeq(f, Max({1} \cup {k \in DOMAIN f : f[k] = T[p].head}), Len(f)))
    BY <1>1, <1>6 DEF RowBody
  <2> QED
    BY <1>7, <1>8, <1>9, <1>10, <2>1
<1>12. DOMAIN u = 1 .. n - i + 1 /\ \A x \in 1 .. n - i + 1 : u[x] = t[i + x - 1] /\ i + x - 1 \in i .. n
  <2>1. i \in Int /\ n \in Int /\ i <= n /\ n - i + 1 \in Nat /\ \A x \in i .. n : x \in 1 .. n
    BY <1>8
  <2>2. \A x \in i .. n : f[x] \in 1 .. Len(next)
    BY <1>5, <1>7, <2>1
  <2>3. /\ u \in Seq(1 .. Len(next)) /\ Len(u) = (IF i <= n THEN n - i + 1 ELSE 0)
        /\ \A x \in 1 .. n - i + 1 : u[x] = f[i + x - 1]
    BY <1>10, <2>1, <2>2, SubSeqProperties
  <2>4. \A x \in 1 .. n - i + 1 : i + x - 1 \in i .. n
    BY <2>1
  <2> QED
    BY <1>7, <2>1, <2>3, <2>4, LenProperties
<1>13. ASSUME NEW k \in Range(u) PROVE k \in 1 .. Len(next) /\ OnLoop(next, t, h, k)
  <2>1. PICK x \in 1 .. n - i + 1 : k = u[x]
    BY <1>12 DEF Range
  <2>2. PICK m \in i .. n : k = t[m]
    BY <1>12, <2>1
  <2>3. m \in 1 .. n /\ i \in 1 .. Len(t) - 1 /\ m \in 1 .. Len(t) - 1 /\ i <= m
    BY <1>4, <1>8
  <2> QED
    BY <1>2, <1>3, <1>5, <2>2, <2>3 DEF OnLoop
<1>14. ASSUME NEW k, OnLoop(next, t, h, k) PROVE k \in Range(u)
  <2>1. PICK j \in 1 .. Len(t) - 1, m \in 1 .. Len(t) - 1 : j <= m /\ t[j] = h /\ t[m] = k
    BY <1>14 DEF OnLoop
  <2>2. j = i
    BY <1>2, <1>3, <2>1 DEF OnceTo
  <2>3. PICK x \in 1 .. n - i + 1 : i + x - 1 = m
    <3>1. m - i + 1 \in 1 .. n - i + 1 /\ i + (m - i + 1) - 1 = m
      BY <1>4, <1>8, <2>1, <2>2
    <3> QED
      BY <3>1
  <2> QED
    BY <1>12, <2>1, <2>3 DEF Range
<1> QED
  BY <1>1, <1>11, <1>13, <1>14

\* Every element of a set has its place in the order.
LEMMA InOrderOnto ==
  ASSUME NEW n \in Nat, NEW S \in SUBSET (1 .. n), NEW p \in S
  PROVE  \E m \in 1 .. Cardinality(S) : InOrder(S)[m] = p
<1>1. PICK f, c : f = InOrder(S) /\ c = Cardinality(S) /\ c \in Nat
  BY InOrderAt
<1>2. DOMAIN f = 1 .. c /\ f = [m \in 1 .. c |-> f[m]]
  <2> DEFINE At(m) == CHOOSE q \in S : Cardinality({x \in S : x <= q}) = m
  <2>1. f = [m \in 1 .. c |-> At(m)]
    BY <1>1, Zenon DEF InOrder
  <2> HIDE DEF At
  <2> QED
    BY <2>1
<1>3. \A m \in 1 .. c : f[m] \in S /\ Cardinality({q \in S : q <= f[m]}) = m
  BY <1>1, InOrderAt
<1>4. f \in [1 .. c -> S]
  BY <1>2, <1>3
<1>5. f \in Injection(1 .. c, S)
  <2>1. ASSUME NEW a \in 1 .. c, NEW b \in 1 .. c, f[a] = f[b] PROVE a = b
    BY <1>3, <2>1
  <2> QED
    BY <1>4, <2>1 DEF Injection, IsInjective
<1>6. IsFiniteSet(1 .. n)
  BY FS_Interval
<1>7. IsFiniteSet(1 .. c) /\ Cardinality(1 .. c) = c
  <2>1. PICK d \in Nat : d = c
    BY <1>1
  <2>2. IsFiniteSet(1 .. d) /\ Cardinality(1 .. d) = d
    BY FS_Interval
  <2> QED
    BY <2>1, <2>2
<1>8. IsFiniteSet(S)
  BY <1>6, FS_Subset
<1>9. f \in Surjection(1 .. c, S)
  BY <1>1, <1>5, <1>8, <1>7, FS_Injection
<1> QED
  BY <1>1, <1>9 DEF Surjection

\* A loop for every head, with the nodes that walks pass between it and a link back to it.
LoopsRight(L, next) ==
  /\ {L[m].head : m \in DOMAIN L} = HeadsOf(next) /\ Len(L) = Cardinality(HeadsOf(next))
  /\ \A m \in DOMAIN L : L[m].body = LoopNodes(next, L[m].head)

LEMMA LoopTableIs == ASSUME MarkedTable(paths, g.next) PROVE LoopsRight(LoopTable, g.next)
<1>1. PICK T, next, H, c, L, n : /\ T = paths /\ next = g.next /\ H = HeadRows(paths) /\ c = Cardinality(H)
                                 /\ L = LoopTable /\ n = Len(paths)
  OBVIOUS
<1>2. /\ MarkedTable(T, next) /\ IsNext(next) /\ n = Len(T) /\ n \in Nat /\ DOMAIN T = 1 .. n
      /\ H = HeadRows(T) /\ H \in SUBSET (1 .. n)
  BY <1>1 DEF MarkedTable, HeadRows
<1>3. PICK o : o = InOrder(H)
  OBVIOUS
<1>4. c \in Nat /\ (\A m \in 1 .. c : o[m] \in H) /\ \A p \in H : \E m \in 1 .. c : o[m] = p
  BY <1>1, <1>2, <1>3, InOrderIn, InOrderOnto
<1>5. Heading = H
  BY <1>1 DEF Heading, HeadRows
<1>6. DOMAIN L = 1 .. c /\ L = [m \in 1 .. c |-> L[m]]
  BY <1>1, <1>5 DEF LoopTable
<1>7. ASSUME NEW m \in 1 .. c
      PROVE  /\ L[m].head = T[o[m]].head
             /\ L[m].body = UNION {LoopBody(p) : p \in {p \in DOMAIN T : T[p].head = L[m].head}}
  <2> DEFINE h == paths[InOrder(Heading)[m]].head
             Of(x) == {p \in DOMAIN paths : paths[p].head = x}
             outer(p) == paths[paths[p].prev].head
             Inner(x) == {p \in Of(x) : outer(p) # 0}
  <2>1. LoopTable[m] = [head |-> h, body |-> UNION {LoopBody(p) : p \in Of(h)},
                        nest |-> IF Inner(h) = {} THEN 0 ELSE outer(Max(Inner(h)))]
    BY <1>1, <1>5, <1>7 DEF LoopTable
  <2>2. h = T[o[m]].head
    BY <1>1, <1>3, <1>5
  <2>3. \A x : Of(x) = {p \in DOMAIN T : T[p].head = x}
    BY <1>1
  <2> HIDE DEF h, Of, outer, Inner
  <2>4. L[m].head = h /\ L[m].body = UNION {LoopBody(p) : p \in Of(h)}
    BY <1>1, <2>1
  <2> QED
    BY <2>2, <2>3, <2>4
<1>8. {L[m].head : m \in DOMAIN L} = HeadsOf(next)
  <2>1. ASSUME NEW m \in 1 .. c PROVE L[m].head \in HeadsOf(next)
    BY <1>2, <1>4, <1>7, RowHeads
  <2>2. ASSUME NEW h \in HeadsOf(next) PROVE \E m \in 1 .. c : L[m].head = h
    <3>1. PICK p \in H : T[p].head = h
      BY <1>2, RowHeads
    <3>2. PICK m \in 1 .. c : o[m] = p
      BY <1>4
    <3> QED
      BY <1>7, <3>1, <3>2
  <2> QED
    BY <1>6, <2>1, <2>2
<1>9. Len(L) = Cardinality(HeadsOf(next))
  <2> DEFINE f == [p \in H |-> T[p].head]
  <2>1. IsFiniteSet(1 .. n)
    BY <1>2, FS_Interval
  <2>2. IsFiniteSet(H)
    BY <1>2, <2>1, FS_Subset
  <2>3. /\ \A p \in H : f[p] = T[p].head /\ f[p] \in HeadsOf(next)
        /\ \A h \in HeadsOf(next) : \E p \in H : f[p] = h
        /\ f \in [H -> HeadsOf(next)]
    BY <1>2, RowHeads
  <2>4. ASSUME NEW p \in H, NEW q \in H, p < q PROVE T[p].head # T[q].head
    <3>1. p \in 1 .. q - 1
      BY <1>2, <2>4
    <3> QED
      BY <1>2, <3>1 DEF HeadRows
  <2>5. \A p, q \in H : p < q \/ q < p \/ p = q
    BY <1>2
  <2> HIDE DEF f
  <2>6. f \in Surjection(H, HeadsOf(next))
    BY <2>3 DEF Surjection
  <2>7. \A p, q \in H : f[p] = f[q] => p = q
    BY <2>3, <2>4, <2>5
  <2>8. f \in Injection(H, HeadsOf(next))
    BY <2>3, <2>7 DEF Injection, IsInjective
  <2>9. Cardinality(HeadsOf(next)) = Cardinality(H)
    BY <2>2, <2>6, <2>8, FS_Surjection
  <2>10. Len(L) = c
    <3>1. PICK Z : Z = {L[m] : m \in 1 .. c}
      OBVIOUS
    <3>2. L \in [1 .. c -> Z]
      BY <1>6, <3>1
    <3> QED
      BY <1>4, <3>2, LenIs
  <2> QED
    BY <1>1, <2>9, <2>10
<1>10. ASSUME NEW m \in 1 .. c PROVE L[m].body = LoopNodes(next, L[m].head)
  <2>1. PICK h : h = L[m].head
    OBVIOUS
  <2>2. h # 0
    <3>1. o[m] \in H /\ h = T[o[m]].head
      BY <1>4, <1>7, <2>1
    <3> QED
      BY <1>2, <3>1 DEF HeadRows
  <2>3. L[m].body = UNION {LoopBody(p) : p \in {p \in 1 .. n : T[p].head = h}}
    BY <1>2, <1>7, <2>1
  <2>4. ASSUME NEW p \in 1 .. n, T[p].head = h
        PROVE  LoopBody(p) = {k \in 1 .. Len(next) : OnLoop(next, Traces(T)[p], h, k)}
    <3>1. LoopBody(p) = RowBody(T, p)
      BY <1>1, TraceIs DEF LoopBody, RowBody
    <3> QED
      BY <1>2, <2>2, <2>4, <3>1, BodyIs
  <2>5. ASSUME NEW k \in LoopNodes(next, h) PROVE \E p \in 1 .. n : T[p].head = h /\ OnLoop(next, Traces(T)[p], h, k)
    <3>1. PICK t : OnLoop(next, t, h, k)
      BY DEF LoopNodes
    <3>2. LoopWalk(next, t) /\ t[Len(t)] = h
      BY <3>1 DEF OnLoop
    <3>3. PICK p \in 1 .. n : Traces(T)[p] = t
      BY <1>2, <3>2 DEF MarkedTable
    <3>4. T[p].head = h
      BY <1>2, <3>2, <3>3, RowHead
    <3> QED
      BY <3>1, <3>3, <3>4
  <2>6. ASSUME NEW k PROVE k \in L[m].body <=> k \in LoopNodes(next, h)
    <3>1. ASSUME k \in L[m].body PROVE k \in LoopNodes(next, h)
      <4>1. PICK p \in 1 .. n : T[p].head = h /\ k \in LoopBody(p)
        BY <2>3, <3>1
      <4> QED
        BY <2>4, <4>1 DEF LoopNodes
    <3>2. ASSUME k \in LoopNodes(next, h) PROVE k \in L[m].body
      <4>1. PICK p \in 1 .. n : T[p].head = h /\ OnLoop(next, Traces(T)[p], h, k)
        BY <2>5, <3>2
      <4>2. k \in LoopBody(p)
        BY <2>4, <3>2, <4>1 DEF LoopNodes
      <4> QED
        BY <2>3, <4>1, <4>2
    <3> QED
      BY <3>1, <3>2
  <2>7. \A k \in L[m].body : k \in LoopNodes(next, h)
    BY <2>6
  <2>8. \A k \in LoopNodes(next, h) : k \in L[m].body
    BY <2>6
  <2> QED
    BY <2>1, <2>3, <2>7, <2>8
<1> QED
  BY <1>1, <1>6, <1>8, <1>9, <1>10 DEF LoopsRight

\* What LoopsNatural says of a loop table.
Natural(L, H, next) ==
  Reducible(next) =>
    /\ {L[m].head : m \in DOMAIN L} = H /\ Len(L) = Cardinality(H)
    /\ \A m \in DOMAIN L : LET nodes == NaturalLoop(next, L[m].head) IN
         /\ L[m].body \subseteq nodes
         /\ nodes \cap H = {L[m].head} => L[m].body = nodes

LEMMA LoopsAre ==
  ASSUME NEW next, IsNext(next), Connected(next), NEW L, LoopsRight(L, next) PROVE Natural(L, HeadsOf(next), next)
<1> SUFFICES ASSUME Reducible(next), NEW m \in DOMAIN L, NEW h, h = L[m].head
             PROVE  /\ LoopNodes(next, h) \subseteq NaturalLoop(next, h)
                    /\ NaturalLoop(next, h) \cap HeadsOf(next) = {h} => LoopNodes(next, h) = NaturalLoop(next, h)
  BY DEF Natural, LoopsRight
<1>1. LoopNodes(next, h) \subseteq NaturalLoop(next, h)
  BY LoopNodesIn
<1>2. h \in LoopNodes(next, h)
  <2>1. h \in HeadsOf(next)
    BY DEF LoopsRight
  <2>2. PICK lk \in BackLinks(next) : h = Target(next, lk)
    BY <2>1 DEF HeadsOf
  <2>3. PICK t : LoopWalk(next, t) /\ t[Len(t)] = h
    BY <2>2, BackLast DEF LastLinks
  <2>4. PICK i \in 1 .. Len(t) - 1 : t[i] = h
    BY <2>3 DEF LoopWalk
  <2>5. i <= i /\ i \in 1 .. Len(t)
    <3>1. Len(t) \in Nat
      BY <2>3, WalkIs DEF LoopWalk
    <3> QED
      BY <3>1
  <2>6. OnLoop(next, t, h, h)
    BY <2>3, <2>4, <2>5 DEF OnLoop
  <2>7. h \in 1 .. Len(next)
    BY <2>3, <2>4, <2>5, WalkIs DEF LoopWalk
  <2> QED
    BY <2>6, <2>7 DEF LoopNodes
<1>3. ASSUME NaturalLoop(next, h) \cap HeadsOf(next) = {h}, NEW k \in NaturalLoop(next, h), k # h
      PROVE  k \in LoopNodes(next, h)
  <2>1. k \in 1 .. Len(next)
    BY <1>3, NaturalIs
  <2>2. {1} \in SUBSET (1 .. Len(next)) /\ DOMAIN next = 1 .. Len(next)
    BY NextIs
  <2>3. k \in Reach(next, {1}, {})
    BY <2>1, <2>2 DEF Connected
  <2>4. PICK S, A : S = {1} /\ A = {}
    OBVIOUS
  <2>5. Gets(next, S, A, k)
    BY <2>2, <2>3, <2>4, ReachAny
  <2> QED
    BY <1>3, <2>4, <2>5, LoopNodesAll
<1> QED
  BY <1>1, <1>2, <1>3

\* The graphs of the functions are connected, as create_function_node_members leaves them.
Connects == \A x \in Graph : Connected(x.next)
KeepInv == stage = "keep" /\ ~again => Natural(loops, heads, g.next)

LEMMA KeepBuild ==
  ASSUME Connects, PathsIInv, WholeInv, EdgesInv, BuildLoops PROVE KeepInv'
<1> SUFFICES ASSUME stage' = "keep", ~again' PROVE Natural(loops', heads', g'.next)
  BY DEF KeepInv
<1>1. stage = "loops" /\ ~again /\ loops' = LoopTable /\ heads' = heads /\ g' = g
  BY DEF BuildLoops
<1>2. PICK next : next = g.next
  OBVIOUS
<1>3. IsNext(next) /\ Connected(next)
  <2>1. /\ g = functions[fi] /\ fi <= Len(functions) /\ functions \in Programs /\ fi \in Nat \ {0}
    BY <1>1 DEF PathsIInv, Building
  <2>2. functions \in Seq(Graph)
    BY <2>1, PathsAssumption
  <2>3. fi \in 1 .. Len(functions)
    BY <2>1, <2>2, LenProperties
  <2>4. functions[fi] \in Graph
    BY <2>2, <2>3, ElementOfSeq
  <2> QED
    BY <1>2, <2>1, <2>4, GraphIs DEF Connects
<1>4. LoopsRight(LoopTable, next)
  BY <1>1, <1>2, FinalTable, LoopTableIs
<1>5. heads = HeadsOf(next)
  BY <1>1, <1>2, EdgesAll DEF AllEdges, HeadsOf
<1>6. PICK L : L = LoopTable
  OBVIOUS
<1>7. Natural(L, HeadsOf(next), next)
  BY <1>3, <1>4, <1>6, LoopsAre
<1> QED
  BY <1>1, <1>2, <1>5, <1>6, <1>7

LEMMA KeepNext ==
  ASSUME Connects, PathsIInv, WholeInv, EdgesInv, KeepInv, [Next]_vars PROVE KeepInv'
<1>1. CASE BuildLoops
  BY <1>1, KeepBuild
<1>2. CASE UNCHANGED vars
  BY <1>2 DEF vars, KeepInv
<1>3. ASSUME NEW common \in 0 .. Max({g.len[k] : k \in Node}), MergeReturns(common) \/ MergeTails(common)
      PROVE  stage' # "keep"
  BY <1>3 DEF MergeReturns, MergeTails
<1>4. CASE Begin \/ TakeMid \/ PathsDone \/ OneReturn \/ TooManyReturns \/ KeepFunction
  <2>1. stage' # "keep"
    BY <1>4 DEF Begin, TakeMid, PathsDone, OneReturn, TooManyReturns, KeepFunction
  <2> QED
    BY <2>1 DEF KeepInv
<1>5. CASE CloseLoop \/ Extend \/ EndPath
  <2>1. stage' # "keep"
    BY <1>5 DEF CloseLoop, Extend, EndPath, Ended, Walking
  <2> QED
    BY <2>1 DEF KeepInv
<1> QED
  BY <1>1, <1>2, <1>3, <1>4, <1>5 DEF Next, PathsStep, KeepInv

\* Whatever the functions, if all of their nodes are reached and as long as node_mid_start has
\* room: the loop edges of the first build are the links back and the heads where they lead;
\* and where every loop has one way in, the loop table has a loop for every head, with no nodes
\* but those of the natural loop, and with all of them when no other loop is inside
\* (build_control_flow_loops and merge_path_into_loop).
THEOREM LoopsAreNatural == Connects => (Spec /\ []RoomLeft => [](~again => LoopsNatural))
<1> SUFFICES ASSUME Connects PROVE Spec /\ []RoomLeft => [](~again => LoopsNatural)
  OBVIOUS
<1>1. Init => PathsIInv /\ WholeInv
  BY PathsStart
<1>2. Init => EdgesInv /\ KeepInv
  BY DEF Init, EdgesInv, KeepInv
<1>3. PathsIInv /\ [Next]_vars => PathsIInv'
  BY PathsNext DEF Kept
<1>4. PathsIInv /\ PathsIInv' /\ EdgesInv /\ [Next]_vars => EdgesInv'
  BY EdgesNext
<1>5. PathsIInv /\ WholeInv /\ [Next]_vars /\ RoomLeft' => PathsIInv' /\ WholeInv'
  BY PathsNext DEF Kept
<1>6. PathsIInv /\ WholeInv /\ EdgesInv /\ KeepInv /\ [Next]_vars => KeepInv'
  BY KeepNext
<1>7. PathsIInv /\ WholeInv /\ EdgesInv /\ KeepInv => (~again => LoopsNatural)
  <2>1. ASSUME PathsIInv, WholeInv, EdgesInv, ~again, AtLoops
        PROVE  edges = BackLinks(g.next) /\ heads = {Target(g.next, lk) : lk \in edges}
    BY <2>1, EdgesAll DEF AllEdges, AtLoops
  <2>2. ASSUME KeepInv, ~again, stage = "keep", Reducible(g.next)
        PROVE  /\ {loops[m].head : m \in DOMAIN loops} = heads /\ Len(loops) = Cardinality(heads)
               /\ \A m \in DOMAIN loops : LET nodes == NaturalLoop(g.next, loops[m].head) IN
                    /\ loops[m].body \subseteq nodes
                    /\ nodes \cap heads = {loops[m].head} => loops[m].body = nodes
    BY <2>2 DEF KeepInv, Natural
  <2> QED
    BY <2>1, <2>2 DEF LoopsNatural
<1> QED
  BY <1>1, <1>2, <1>3, <1>4, <1>5, <1>6, <1>7, PTL DEF Spec

-----------------------------------------------------------------------------
(* The types of the tables *)

\* The graph over n nodes, and the entries of node_mid_start, the rows and the loops of it.
GraphOf(n) ==
  [next : [1 .. n -> Seq(1 .. n)], prev : [1 .. n -> Seq(1 .. n)], index : [1 .. n -> Seq(Nat \ {0})],
   len : [1 .. n -> Nat \ {0}], valid : SUBSET (1 .. n)]
Bounded(W, n) == \A m \in Mid : W[m].path <= PathsSize /\ W[m].step <= n
Headed(T, n) == Len(T) <= PathsSize /\ \A p \in 1 .. Len(T) : T[p].head \in 0 .. n
LoopOf(n) == [head : 1 .. n, nest : 0 .. n, body : SUBSET (1 .. n)]

\* The rows up to k go on from a step of a row that is there.
Stepped(T, k) ==
  \A p \in 1 .. k : T[p].prev \in 1 .. p /\ T[p].step \in 1 .. Len(T[T[p].prev].nodes)

TablesTyped ==
  LET n == Len(g.next)
  IN  /\ g \in GraphOf(n) /\ Typed(paths, waiting, g.next)
      /\ path \in 1 .. PathsSize + 1 /\ (stage \in {"paths", "returns"} => path <= PathsSize)
      /\ Filled \in 0 .. Len(paths)
      /\ Bounded(waiting, n) /\ Headed(paths, n) /\ Stepped(paths, Filled)
      /\ heads \subseteq 1 .. n /\ edges \subseteq Links(g.next)
      /\ Len(loops) <= LoopsSize /\ loops \in Seq(LoopOf(n))
OfThisBuild == ~again \/ stage \in {"paths", "loops"}
TypesInv ==
  /\ fi \in 1 .. Len(functions) + 1 /\ (stage # "begin" => fi <= Len(functions))
  /\ stage \in {"begin", "paths", "returns", "loops", "keep", "failed", "undefined"}
  /\ OfThisBuild => TablesTyped

LEMMA ProgramIs ==
  ASSUME functions \in Programs PROVE functions \in Seq(Graph) /\ Len(functions) \in Nat \ {0}
<1>1. functions \in Seq(Graph) /\ functions # <<>>
  BY PathsAssumption
<1> QED
  BY <1>1, LenProperties, EmptySeq

\* A table whose types are right is what PathsTypeOK says it is.
LEMMA TypesImply == ASSUME PathsIInv, TypesInv, OfThisBuild PROVE PathsTypeOK
<1> DEFINE n == Len(g.next)
<1>1. /\ g \in GraphOf(n) /\ Typed(paths, waiting, g.next) /\ path \in 1 .. PathsSize + 1
      /\ Filled \in 0 .. Len(paths)
      /\ Bounded(waiting, n) /\ Headed(paths, n) /\ Stepped(paths, Filled)
      /\ heads \subseteq 1 .. n /\ edges \subseteq Links(g.next)
      /\ Len(loops) <= LoopsSize /\ loops \in Seq(LoopOf(n))
  BY DEF TypesInv, TablesTyped
<1>2. /\ n \in Nat \ {0} /\ Node = 1 .. n /\ Cardinality(Node) = n /\ DOMAIN paths = 1 .. Len(paths)
      /\ Len(paths) \in Nat /\ PathsSize \in Nat /\ {0} \cup Node = 0 .. n
  <2>1. IsNext(g.next)
    BY <1>1 DEF Typed
  <2>2. n \in Nat \ {0} /\ Node = 1 .. n /\ Cardinality(Node) = n
    BY <2>1, NextIs DEF Node
  <2>3. DOMAIN paths = 1 .. Len(paths) /\ Len(paths) \in Nat
    BY <1>1, RowsTyped
  <2>4. PathsSize \in Nat
    BY PathsAssumption
  <2> QED
    BY <2>2, <2>3, <2>4
<1>3. g \in [next : [Node -> Seq(Node)], prev : [Node -> Seq(Node)], index : [Node -> Seq(Nat \ {0})],
            len : [Node -> Nat \ {0}], valid : SUBSET Node]
  <2> HIDE DEF n
  <2> QED
    BY <1>1, <1>2 DEF GraphOf
<1>4. waiting \in [Mid -> [node : {0} \cup Node, path : 0 .. PathsSize, step : 0 .. Cardinality(Node)]]
  <2>1. waiting \in [Mid -> Entry(n)]
    BY <1>1 DEF Typed
  <2> HIDE DEF n
  <2>2. ASSUME NEW m \in Mid
        PROVE  waiting[m] \in [node : 0 .. n, path : 0 .. PathsSize, step : 0 .. n]
    <3>1. waiting[m] \in Entry(n) /\ waiting[m].path <= PathsSize /\ waiting[m].step <= n
      BY <1>1, <2>1 DEF Bounded
    <3>2. PICK e : e = waiting[m]
      OBVIOUS
    <3>3. e \in Entry(n) /\ e.path \in 0 .. PathsSize /\ e.step \in 0 .. n
      BY <1>2, <3>1, <3>2 DEF Entry
    <3> QED
      BY <3>2, <3>3 DEF Entry
  <2>3. waiting = [m \in Mid |-> waiting[m]]
    BY <2>1
  <2> QED
    BY <1>2, <2>2, <2>3
<1>5. paths \in Seq(PathType) /\ Len(paths) \in 0 .. PathsSize
  <2>1. ASSUME NEW p \in 1 .. Len(paths) PROVE paths[p] \in PathType
    <3>1. PICK r : r = paths[p]
      OBVIOUS
    <3>2. r \in RowType(n) /\ r.head \in 0 .. n
      BY <1>1, <3>1, RowsTyped DEF Headed
    <3> HIDE DEF n
    <3>3. r \in PathType
      BY <1>2, <3>2 DEF PathType, RowType
    <3> QED
      BY <3>1, <3>3
  <2>2. paths = [p \in 1 .. Len(paths) |-> paths[p]]
    <3>1. paths \in [1 .. Len(paths) -> RowType(n)]
      BY <1>1, LenProperties DEF Typed
    <3> QED
      BY <3>1
  <2>3. paths \in [1 .. Len(paths) -> PathType]
    BY <2>1, <2>2
  <2> QED
    BY <1>1, <1>2, <2>3, LenIs DEF Headed
<1>6. ASSUME NEW p \in DOMAIN paths, p < path \/ (walking /\ p = path)
      PROVE  paths[p].prev \in 1 .. p /\ paths[p].step \in DOMAIN paths[paths[p].prev].nodes
  <2>1. p \in 1 .. Filled
    <3>1. CASE walking
      <4>1. p <= path
        BY <1>1, <1>2, <1>6, <3>1
      <4> QED
        BY <1>1, <1>2, <3>1, <4>1 DEF Filled
    <3>2. CASE ~walking
      <4>1. p < path
        BY <1>6, <3>2
      <4> QED
        BY <1>1, <1>2, <3>2, <4>1 DEF Filled
    <3> QED
      BY <3>1, <3>2
  <2>2. PICK q : q = paths[p].prev
    OBVIOUS
  <2>3. q \in 1 .. p /\ paths[p].step \in 1 .. Len(paths[q].nodes)
    BY <1>1, <2>1, <2>2 DEF Stepped
  <2>4. q \in 1 .. Len(paths)
    BY <1>2, <2>3
  <2>5. paths[q] \in RowType(n)
    BY <1>1, <2>4, RowsTyped
  <2>6. DOMAIN paths[q].nodes = 1 .. Len(paths[q].nodes)
    <3>1. paths[q].nodes \in Seq(1 .. n)
      BY <2>5 DEF RowType
    <3> QED
      BY <3>1, LenProperties
  <2> QED
    BY <2>2, <2>3, <2>6
<1>7. loops \in Seq([head : Node, nest : {0} \cup Node, body : SUBSET Node])
  <2> HIDE DEF n
  <2> QED
    BY <1>1, <1>2 DEF LoopOf
<1>8. /\ functions \in Programs /\ fi \in 1 .. Len(functions) + 1
      /\ stage \in {"begin", "paths", "returns", "loops", "keep", "failed", "undefined"}
      /\ again \in BOOLEAN /\ walking \in BOOLEAN
  BY Zenon DEF PathsIInv, TypesInv
<1>9. heads \subseteq Node
  BY <1>1, <1>2
<1> HIDE DEF n
<1> QED
  BY <1>1, <1>3, <1>4, <1>5, <1>6, <1>7, <1>8, <1>9 DEF PathsTypeOK

\* The graphs of the program.
LEMMA GraphIn ==
  ASSUME NEW x, IsGraph(x) PROVE x \in GraphOf(Len(x.next)) /\ IsNext(x.next) /\ Len(x.next) \in Nat \ {0}
<1>1. IsNext(x.next) /\ Len(x.next) \in Nat \ {0}
  BY GraphTyped, NextIs
<1>2. PICK n : n = Len(x.next)
  OBVIOUS
<1>3. x \in [next : [1 .. n -> Seq(1 .. n)], prev : [1 .. n -> Seq(1 .. n)], index : [1 .. n -> Seq(Nat \ {0})],
            len : [1 .. n -> Nat \ {0}], valid : {1 .. n}]
  BY <1>2 DEF IsGraph
<1>4. x \in GraphOf(n)
  BY <1>3 DEF GraphOf
<1> QED
  BY <1>1, <1>2, <1>4

\* The tables main clears for a function.
LEMMA Cleared ==
  ASSUME NEW x, IsGraph(x), NEW W, W \in {Start, [m \in Mid |-> FreeMid]}
  PROVE  /\ x \in GraphOf(Len(x.next)) /\ Typed(<<>>, W, x.next) /\ Bounded(W, Len(x.next))
         /\ Headed(<<>>, Len(x.next)) /\ Stepped(<<>>, 0) /\ 0 \in 0 .. Len(<<>>)
         /\ Len(<<>>) <= LoopsSize /\ <<>> \in Seq(LoopOf(Len(x.next)))
<1>1. PICK n \in Nat \ {0} : n = Len(x.next)
  BY GraphIn
<1>2. x \in GraphOf(n) /\ IsNext(x.next)
  BY <1>1, GraphIn
<1>3. Len(<<>>) = 0 /\ <<>> \in Seq(LoopOf(n)) /\ <<>> \in Seq(RowType(n))
  BY EmptySeq
<1>4. PathsSize \in Nat \ {0} /\ LoopsSize \in Nat \ {0}
  BY PathsAssumption
<1>5. W \in [Mid -> Entry(n)] /\ Bounded(W, n)
  <2>1. \A m \in Mid : W[m] \in Entry(n) /\ W[m].path <= PathsSize /\ W[m].step <= n
    <3>1. /\ FreeMid \in Entry(n) /\ FreeMid.path = 0 /\ FreeMid.step = 0
          /\ [node |-> 1, path |-> 1, step |-> 1] \in Entry(n)
      BY DEF FreeMid, Entry
    <3>2. \A m \in Mid : W[m] = FreeMid \/ W[m] = [node |-> 1, path |-> 1, step |-> 1]
      BY DEF Start
    <3> QED
      BY <1>4, <3>1, <3>2
  <2>2. W = [m \in Mid |-> W[m]]
    BY DEF Start
  <2> QED
    BY <2>1, <2>2 DEF Bounded
<1>6. Headed(<<>>, n) /\ Stepped(<<>>, 0)
  <2>1. \A p \in 1 .. 0 : FALSE
    OBVIOUS
  <2> QED
    BY <1>3, <1>4, <2>1 DEF Headed, Stepped
<1> QED
  BY <1>1, <1>2, <1>3, <1>4, <1>5, <1>6 DEF Typed

LEMMA TypesStart == ASSUME Init PROVE TypesInv
<1>1. /\ functions \in Programs /\ fi = 1 /\ stage = "begin" /\ g = functions[1] /\ walking = FALSE
      /\ waiting = [m \in Mid |-> FreeMid] /\ paths = <<>> /\ path = 1
      /\ heads = {} /\ edges = {} /\ loops = <<>>
  BY DEF Init
<1>2. Len(functions) \in Nat \ {0}
  BY <1>1, ProgramIs
<1>3. IsGraph(g)
  BY <1>1, <1>2, GraphIs
<1>4. Filled = 0 /\ path \in 1 .. PathsSize + 1
  BY <1>1, PathsAssumption DEF Filled
<1>5. /\ g \in GraphOf(Len(g.next)) /\ Typed(paths, waiting, g.next) /\ Bounded(waiting, Len(g.next))
      /\ Headed(paths, Len(g.next)) /\ Stepped(paths, 0) /\ 0 \in 0 .. Len(paths)
      /\ Len(loops) <= LoopsSize /\ loops \in Seq(LoopOf(Len(g.next)))
  BY <1>1, <1>3, Cleared
<1>6. TablesTyped
  BY <1>1, <1>4, <1>5 DEF TablesTyped
<1>7. fi \in 1 .. Len(functions) + 1
  BY <1>1, <1>2
<1> QED
  BY <1>1, <1>6, <1>7 DEF TypesInv

LEMMA TypesBegin == ASSUME PathsIInv, TypesInv, Begin PROVE TypesInv'
<1>1. /\ functions \in Programs /\ fi \in Nat \ {0} /\ fi <= Len(functions) /\ walking = FALSE
      /\ g' = functions[fi] /\ stage' = "paths" /\ waiting' = Start /\ path' = 1
      /\ paths' = <<>> /\ functions' = functions /\ fi' = fi /\ walking' = FALSE
      /\ heads' = {} /\ edges' = {} /\ loops' = <<>>
  BY DEF PathsIInv, Begin
<1>2. IsGraph(g')
  BY <1>1, GraphIs
<1>3. Filled' = 0 /\ path' \in 1 .. PathsSize + 1 /\ path' <= PathsSize
  BY <1>1, PathsAssumption DEF Filled
<1>4. PICK x : x = g'
  OBVIOUS
<1>5. /\ x \in GraphOf(Len(x.next)) /\ Typed(<<>>, Start, x.next) /\ Bounded(Start, Len(x.next))
      /\ Headed(<<>>, Len(x.next)) /\ Stepped(<<>>, 0) /\ 0 \in 0 .. Len(<<>>)
      /\ Len(<<>>) <= LoopsSize /\ <<>> \in Seq(LoopOf(Len(x.next)))
  BY <1>2, <1>4, Cleared
<1>6. TablesTyped'
  BY <1>1, <1>3, <1>4, <1>5 DEF TablesTyped
<1>7. fi' \in 1 .. Len(functions') + 1 /\ fi' <= Len(functions')
  BY <1>1 DEF TypesInv
<1> QED
  BY <1>1, <1>6, <1>7 DEF TypesInv
\* What the typed tables give a step of the build.
LEMMA TypedIs ==
  ASSUME PathsIInv, TypesInv, OfThisBuild
  PROVE  /\ TablesTyped /\ Typed(paths, waiting, g.next) /\ IsNext(g.next)
         /\ Len(g.next) \in Nat \ {0} /\ Len(paths) \in Nat /\ path \in Nat \ {0} /\ PathsSize \in Nat \ {0}
<1>1. TablesTyped
  BY DEF TypesInv
<1>2. Typed(paths, waiting, g.next) /\ path \in Nat \ {0}
  BY <1>1 DEF TablesTyped
<1> QED
  BY <1>1, <1>2, RowsTyped, PathsAssumption DEF Typed

LEMMA TypesTake == ASSUME PathsIInv, PathsIInv', TypesInv, TakeMid PROVE TypesInv'
<1>1. /\ stage = "paths" /\ walking = FALSE /\ walking' = TRUE /\ Used # {}
      /\ functions' = functions /\ fi' = fi /\ stage' = stage /\ again' = again /\ g' = g /\ path' = path
      /\ heads' = heads /\ edges' = edges /\ loops' = loops
  BY DEF PathsIInv, TakeMid
<1>2. Building /\ Building' /\ OfThisBuild /\ OfThisBuild'
  BY <1>1 DEF PathsIInv, OfThisBuild
<1>3. TablesTyped /\ path \in Nat \ {0} /\ Len(paths) \in Nat /\ PathsSize \in Nat \ {0} /\ path <= PathsSize
      /\ Len(g.next) \in Nat \ {0}
  BY <1>1, <1>2, TypedIs DEF TablesTyped
<1>4. PICK T, W, p, next, m, U, V : /\ T = paths /\ W = waiting /\ p = path /\ next = g.next /\ m = Min(Used)
                                    /\ U = paths' /\ V = waiting'
  OBVIOUS
<1>5. PICK n \in Nat \ {0} : n = Len(next)
  BY <1>3, <1>4
<1>6. Filled = p - 1 /\ Filled' = p
  BY <1>1, <1>4 DEF Filled
<1>7. /\ p \in Nat \ {0} /\ p <= PathsSize /\ Typed(T, W, next) /\ Listed(T, W, next, p - 1, p - 1)
      /\ Bounded(W, n) /\ Headed(T, n) /\ Stepped(T, p - 1) /\ p - 1 \in 0 .. Len(T) /\ Len(T) \in Nat
  BY <1>2, <1>3, <1>4, <1>5, <1>6 DEF Building, TablesTyped
<1>8. m \in InUse(W)
  <2>1. Used = InUse(W)
    BY <1>4 DEF Used, InUse
  <2>2. InUse(W) \in SUBSET Nat
    BY MidIs DEF InUse
  <2> QED
    BY <1>1, <1>4, <2>1, <2>2, MinIs
<1>9. U = Begun(T, p, W[m]) /\ V = [W EXCEPT ![m].node = 0]
  BY <1>4 DEF TakeMid, Begun, Older
<1>10. T \in Seq(RowType(n)) /\ p \in 1 .. Len(T) + 1 /\ m \in Mid /\ W[m] \in Entry(n) /\ W[m].node # 0
       /\ W \in [Mid -> Entry(n)]
  <2>1. m \in Mid /\ W[m].node # 0
    BY <1>8 DEF InUse
  <2>2. T \in Seq(RowType(n)) /\ W \in [Mid -> Entry(n)]
    BY <1>5, <1>7 DEF Typed
  <2> QED
    BY <1>7, <2>1, <2>2
<1>11. PICK e : e = W[m]
  OBVIOUS
<1>12. /\ U \in Seq(RowType(n)) /\ Len(U) = (IF p <= Len(T) THEN Len(T) ELSE Len(T) + 1)
       /\ \A i \in 1 .. Len(T) : i # p => U[i] = T[i]
       /\ U[p].nodes = <<e.node>> /\ U[p].prev = e.path /\ U[p].step = e.step
       /\ U[p].head = IF p <= Len(T) THEN T[p].head ELSE 0
  BY <1>9, <1>10, <1>11, BegunIs
<1>13. Len(U) <= PathsSize /\ p \in 0 .. Len(U) /\ \A i \in 1 .. Len(U) : i = p \/ i \in 1 .. Len(T)
  BY <1>3, <1>7, <1>12 DEF Headed
<1>14. Headed(U, n)
  <2>1. ASSUME NEW i \in 1 .. Len(U) PROVE U[i].head \in 0 .. n
    <3>1. CASE i = p
      <4>1. 0 \in 0 .. n
        OBVIOUS
      <4> QED
        BY <1>7, <1>12, <3>1, <4>1 DEF Headed
    <3>2. CASE i # p
      BY <1>7, <1>12, <1>13, <3>2 DEF Headed
    <3> QED
      BY <3>1, <3>2
  <2> QED
    BY <1>13, <2>1 DEF Headed
<1>15. Bounded(V, n)
  <2>1. \A j \in Mid : V[j].path = W[j].path /\ V[j].step = W[j].step
    BY <1>9, <1>10 DEF Entry
  <2> QED
    BY <1>7, <2>1 DEF Bounded
<1>16. e.path \in 1 .. p /\ e.step \in 1 .. Len(U[e.path].nodes)
  <2>1. CASE p = 1
    <3>1. W = Start
      BY <1>7, <2>1 DEF Listed
    <3>2. e = [node |-> 1, path |-> 1, step |-> 1]
      BY <1>8, <1>11, <3>1, StartIs
    <3>3. e.path = 1 /\ e.step = 1 /\ U[1].nodes = <<e.node>>
      BY <1>12, <2>1, <3>2
    <3>4. Len(<<e.node>>) = 1
      OBVIOUS
    <3> QED
      BY <2>1, <3>3, <3>4
  <2>2. CASE p # 1
    <3>1. e.path \in 1 .. p - 1 /\ e.step \in 1 .. Len(T[e.path].nodes)
      BY <1>7, <1>8, <1>11, <2>2 DEF Listed, Ready
    <3>2. e.path \in 1 .. p /\ e.path # p /\ e.path \in 1 .. Len(T)
      BY <1>7, <3>1
    <3>3. U[e.path] = T[e.path]
      BY <1>12, <3>2
    <3> QED
      BY <3>1, <3>2, <3>3
  <2> QED
    BY <2>1, <2>2
<1>17. Stepped(U, p)
  <2>1. ASSUME NEW i \in 1 .. p
        PROVE  U[i].prev \in 1 .. i /\ U[i].step \in 1 .. Len(U[U[i].prev].nodes)
    <3>1. CASE i = p
      BY <1>12, <1>16, <3>1
    <3>2. CASE i # p
      <4>1. i \in 1 .. p - 1 /\ i \in 1 .. Len(T)
        BY <1>7, <3>2
      <4>2. PICK q : q = T[i].prev
        OBVIOUS
      <4>3. q \in 1 .. i /\ T[i].step \in 1 .. Len(T[q].nodes)
        BY <1>7, <4>1, <4>2 DEF Stepped
      <4>4. q # p /\ q \in 1 .. Len(T)
        BY <1>7, <4>1, <4>3
      <4>5. U[i] = T[i] /\ U[q] = T[q]
        BY <1>12, <3>2, <4>1, <4>4
      <4> QED
        BY <4>2, <4>3, <4>5
    <3> QED
      BY <3>1, <3>2
  <2> QED
    BY <2>1 DEF Stepped
<1>18. Typed(paths', waiting', g'.next)
  BY <1>2 DEF Building
<1>19. TablesTyped'
  <2>1. /\ g \in GraphOf(n) /\ path \in 1 .. PathsSize + 1 /\ heads \subseteq 1 .. n /\ edges \subseteq Links(g.next)
        /\ Len(loops) <= LoopsSize /\ loops \in Seq(LoopOf(n))
    BY <1>3, <1>4, <1>5 DEF TablesTyped
  <2>2. Bounded(waiting', n) /\ Headed(paths', n) /\ Stepped(paths', Filled') /\ Filled' \in 0 .. Len(paths')
        /\ Len(g'.next) = n
    BY <1>1, <1>4, <1>5, <1>6, <1>13, <1>14, <1>15, <1>17
  <2> QED
    BY <1>1, <1>3, <1>18, <2>1, <2>2 DEF TablesTyped
<1> QED
  BY <1>1, <1>19 DEF TypesInv
\* A path ends.
LEMMA TypesEnds ==
  ASSUME PathsIInv, TypesInv, Walking, Ended, UNCHANGED <<functions, fi, again, g, waiting, loops>>,
         NEW r \in RowType(Len(g.next)), paths' \in Seq(RowType(Len(g.next))), Changed(paths, paths', path, r),
         r.nodes = paths[path].nodes, r.prev = paths[path].prev, r.step = paths[path].step,
         r.head \in 0 .. Len(g.next),
         heads' \subseteq 1 .. Len(g.next), edges' \subseteq Links(g.next)
  PROVE  TypesInv'
<1>1. /\ stage = "paths" /\ walking /\ walking' = FALSE /\ path' = path + 1
      /\ stage' = IF path < PathsSize THEN stage ELSE IF again THEN "loops" ELSE "failed"
  BY DEF Walking, Ended
<1>2. OfThisBuild /\ OfThisBuild' /\ again \in BOOLEAN
  BY <1>1 DEF PathsIInv, OfThisBuild
<1>3. TablesTyped /\ path \in Nat \ {0} /\ Len(paths) \in Nat /\ PathsSize \in Nat \ {0} /\ path <= PathsSize
      /\ Len(g.next) \in Nat \ {0} /\ Typed(paths, waiting, g.next)
  BY <1>1, <1>2, TypedIs DEF TablesTyped
<1>4. PICK T, p, U : T = paths /\ p = path /\ U = paths'
  OBVIOUS
<1>5. PICK n \in Nat \ {0} : n = Len(g.next)
  BY <1>3
<1>6. Filled = p /\ Filled' = p
  BY <1>1, <1>3, <1>4 DEF Filled
<1>7. /\ p \in Nat \ {0} /\ Headed(T, n) /\ Stepped(T, p) /\ p \in 1 .. Len(T) /\ Len(T) \in Nat
  BY <1>3, <1>4, <1>5, <1>6 DEF TablesTyped
<1>8. Len(U) = Len(T) /\ U[p] = r /\ \A i \in 1 .. Len(T) : i # p => U[i] = T[i]
  BY <1>4 DEF Changed
<1>9. r.nodes = T[p].nodes /\ r.prev = T[p].prev /\ r.step = T[p].step /\ r.head \in 0 .. n
  BY <1>4, <1>5
<1>10. Headed(U, n)
  BY <1>7, <1>8, <1>9 DEF Headed
<1>11. \A i \in 1 .. Len(T) : U[i].nodes = T[i].nodes /\ U[i].prev = T[i].prev /\ U[i].step = T[i].step
  BY <1>8, <1>9
<1>12. Stepped(U, p)
  <2>1. ASSUME NEW i \in 1 .. p
        PROVE  U[i].prev \in 1 .. i /\ U[i].step \in 1 .. Len(U[U[i].prev].nodes)
    <3>1. PICK q : q = T[i].prev
      OBVIOUS
    <3>2. q \in 1 .. i /\ T[i].step \in 1 .. Len(T[q].nodes)
      BY <1>7, <3>1 DEF Stepped
    <3>3. i \in 1 .. Len(T) /\ q \in 1 .. Len(T)
      BY <1>7, <3>2
    <3> QED
      BY <1>11, <3>1, <3>2, <3>3
  <2> QED
    BY <2>1 DEF Stepped
<1>13. path' \in 1 .. PathsSize + 1 /\ (stage' \in {"paths", "returns"} => path' <= PathsSize)
  <2>1. path + 1 \in 1 .. PathsSize + 1 /\ (path < PathsSize => path + 1 <= PathsSize)
    BY <1>3
  <2>2. stage' \in {"paths", "returns"} => path < PathsSize
    BY <1>1
  <2> QED
    BY <1>1, <2>1, <2>2
<1>14. TablesTyped'
  <2>1. /\ g \in GraphOf(n) /\ Bounded(waiting, n) /\ Len(loops) <= LoopsSize /\ loops \in Seq(LoopOf(n))
    BY <1>3, <1>5 DEF TablesTyped
  <2>2. Headed(paths', n) /\ Stepped(paths', Filled') /\ Filled' \in 0 .. Len(paths') /\ Len(g'.next) = n
    BY <1>4, <1>5, <1>6, <1>7, <1>8, <1>10, <1>12
  <2>3. Typed(paths', waiting', g'.next)
    BY <1>3 DEF Typed
  <2>4. g' = g /\ waiting' = waiting /\ loops' = loops /\ heads' \subseteq 1 .. n /\ edges' \subseteq Links(g'.next)
    BY <1>5
  <2> QED
    BY <1>13, <2>1, <2>2, <2>3, <2>4 DEF TablesTyped
<1>15. stage' \in {"paths", "loops", "failed"}
  BY <1>1, <1>2
<1>16. fi' \in 1 .. Len(functions') + 1 /\ fi' <= Len(functions')
  BY <1>1 DEF TypesInv
<1> QED
  BY <1>14, <1>15, <1>16 DEF TypesInv

LEMMA TypesClose == ASSUME PathsIInv, TypesInv, CloseLoop PROVE TypesInv'
<1>1. /\ Walking /\ Ended /\ UNCHANGED <<functions, fi, again, g, waiting, loops>>
      /\ heads' = heads \cup {Tip}
      /\ edges' = edges \cup LinksBetween(Before, Tip)
                        \cup (IF Len(paths[path].nodes) = 1 THEN LinksBetween(Tip, Tip) ELSE {})
  BY DEF CloseLoop
<1>2. /\ IsNext(g.next) /\ Tip \in 1 .. Len(g.next)
  BY <1>1, TipIs
<1>3. PICK r \in RowType(Len(g.next)) :
        /\ paths' \in Seq(RowType(Len(g.next))) /\ Changed(paths, paths', path, r)
        /\ r.nodes = paths[path].nodes /\ r.prev = paths[path].prev /\ r.step = paths[path].step
        /\ r.head = Tip
  BY Closes
<1>4. LoopWalk(g.next, Trace[path])
  BY Closes
<1>5. OfThisBuild
  BY <1>1 DEF OfThisBuild, Walking
<1>6. heads \subseteq 1 .. Len(g.next) /\ edges \subseteq Links(g.next) /\ Len(g.next) \in Nat
  BY <1>5, TypedIs DEF TablesTyped
<1>7. Before \in 1 .. Len(g.next)
  <2>1. PICK t, next : t = Trace[path] /\ next = g.next
    OBVIOUS
  <2>2. IsNext(next) /\ Walks(next, t) /\ \E j \in 1 .. Len(t) - 1 : t[j] = t[Len(t)]
    BY <1>2, <1>4, <2>1 DEF LoopWalk
  <2>3. Len(t) \in Nat \ {0} /\ \A i \in 1 .. Len(t) : t[i] \in 1 .. Len(next)
    BY <2>2, WalkIs
  <2>4. Len(t) - 1 \in 1 .. Len(t)
    BY <2>2, <2>3
  <2>5. Before = t[Len(t) - 1]
    BY <2>1 DEF Before
  <2> QED
    BY <2>1, <2>3, <2>4, <2>5
<1>8. LinksBetween(Before, Tip) \subseteq Links(g.next) /\ LinksBetween(Tip, Tip) \subseteq Links(g.next)
  BY <1>2, <1>7, BetweenIs
<1>9. edges' \subseteq Links(g.next)
  BY <1>1, <1>6, <1>8
<1>10. heads' \subseteq 1 .. Len(g.next) /\ r.head \in 0 .. Len(g.next)
  BY <1>1, <1>2, <1>3, <1>6
<1> QED
  BY <1>1, <1>3, <1>9, <1>10, TypesEnds

LEMMA TypesEndPath == ASSUME PathsIInv, TypesInv, EndPath PROVE TypesInv'
<1>1. /\ Walking /\ Ended /\ UNCHANGED <<functions, fi, again, g, waiting, paths, heads, edges, loops>>
  BY DEF EndPath
<1>2. path \in 1 .. Len(paths) /\ paths[path] \in RowType(Len(g.next))
  BY <1>1, TipIs
<1>3. OfThisBuild
  BY <1>1 DEF OfThisBuild, Walking
<1>4. /\ heads \subseteq 1 .. Len(g.next) /\ edges \subseteq Links(g.next) /\ Headed(paths, Len(g.next))
      /\ Typed(paths, waiting, g.next)
  BY <1>3, TypedIs DEF TablesTyped
<1>5. PICK r \in RowType(Len(g.next)) : r = paths[path]
  BY <1>2
<1>6. Changed(paths, paths', path, r)
  BY <1>1, <1>5 DEF Changed
<1>7. r.head \in 0 .. Len(g.next)
  BY <1>2, <1>4, <1>5 DEF Headed
<1>8. paths' \in Seq(RowType(Len(g.next)))
  BY <1>1, <1>4 DEF Typed
<1>9. heads' \subseteq 1 .. Len(g.next) /\ edges' \subseteq Links(g.next)
  BY <1>1, <1>4
<1> QED
  BY <1>1, <1>5, <1>6, <1>7, <1>8, <1>9, TypesEnds
LEMMA TypesExtend == ASSUME PathsIInv, PathsIInv', TypesInv, Extend PROVE TypesInv'
<1>1. /\ Walking /\ g.next[Tip] # <<>> /\ ~SeenBefore(Trace[path])
      /\ waiting' = Queued(Tail(g.next[Tip]), Len(paths[path].nodes))
      /\ functions' = functions /\ fi' = fi /\ stage' = stage /\ again' = again /\ g' = g /\ path' = path
      /\ walking' = walking /\ heads' = heads /\ edges' = edges /\ loops' = loops
      /\ paths' = [paths EXCEPT ![path].nodes = Append(@, g.next[Tip][1])]
  BY DEF Extend
<1>2. /\ stage = "paths" /\ walking /\ path \in 1 .. Len(paths)
      /\ IsNext(g.next) /\ Trace[path] = Traces(paths)[path] /\ Underway(g.next, Trace[path])
      /\ Tip \in 1 .. Len(g.next) /\ paths[path] \in RowType(Len(g.next))
      /\ Listed(paths, waiting, g.next, path, path - 1)
  BY <1>1, TipIs
<1>3. OfThisBuild /\ OfThisBuild' /\ Building'
  BY <1>1, <1>2 DEF PathsIInv, OfThisBuild
<1>4. TablesTyped /\ path \in Nat \ {0} /\ Len(paths) \in Nat /\ PathsSize \in Nat \ {0} /\ path <= PathsSize
      /\ Len(g.next) \in Nat \ {0} /\ Typed(paths, waiting, g.next)
  BY <1>2, <1>3, TypedIs DEF TablesTyped
<1>5. PICK T, U, W, V, p, next, w, e :
        /\ T = paths /\ U = paths' /\ W = waiting /\ V = waiting' /\ p = path /\ next = g.next
        /\ w = Trace[path] /\ e = next[Tip][1]
  OBVIOUS
<1>6. PICK n \in Nat \ {0} : n = Len(g.next)
  BY <1>4
<1>7. PICK links, s : links = Tail(next[Tip]) /\ s = Len(T[p].nodes)
  OBVIOUS
<1>8. /\ next[Tip] \in Seq(1 .. n) /\ next[Tip] # <<>> /\ links \in Seq(1 .. n) /\ e \in 1 .. n
  <2>1. next[Tip] \in Seq(1 .. n)
    BY <1>2, <1>5, <1>6, NextIs
  <2>2. next[Tip] # <<>>
    BY <1>1, <1>5
  <2>3. links \in Seq(1 .. n)
    BY <1>7, <2>1, <2>2, HeadTailProperties
  <2>4. 1 \in 1 .. Len(next[Tip])
    BY <2>1, <2>2, EmptySeq
  <2> QED
    BY <1>5, <2>1, <2>2, <2>3, <2>4, ElementOfSeq
<1>9. Filled = p /\ Filled' = p /\ p \in Nat \ {0} /\ p \in 1 .. Len(T) /\ Len(T) \in Nat
  BY <1>1, <1>2, <1>4, <1>5 DEF Filled
<1>10. Headed(T, n) /\ Stepped(T, p) /\ Bounded(W, n) /\ T \in Seq(RowType(n)) /\ waiting \in [Mid -> Entry(n)]
  BY <1>4, <1>5, <1>6, <1>9 DEF TablesTyped, Typed
<1>11. s \in Nat /\ s <= n
  <2>1. Table(T, n) /\ Fresh(T, p) /\ p \in 0 .. Len(T)
    BY <1>2, <1>5, <1>6 DEF Listed, Rows
  <2>2. p \in 1 .. p
    BY <1>9
  <2>3. Traces(T)[p] \in Seq(1 .. n) /\ EndsWith(Traces(T)[p], T[p].nodes)
    BY <2>1, <2>2, TracesTyped
  <2>4. w = Traces(T)[p]
    BY <1>2, <1>5
  <2>5. Len(w) \in Nat /\ s \in Nat /\ s <= Len(w)
    BY <1>7, <1>9, <2>1, <2>3, <2>4, RowIs, LenProperties DEF EndsWith
  <2>6. OnceTo(w, Len(w))
    BY <1>1, <1>2, <1>5, LoopCheck
  <2>7. Len(w) \in 0 .. Len(w) /\ Walks(next, w) /\ IsNext(next) /\ n = Len(next)
    BY <1>2, <1>5, <1>6, <2>5 DEF Underway
  <2>8. Len(w) <= n
    BY <2>6, <2>7, WalksShort
  <2> QED
    BY <2>5, <2>8
<1>12. Bounded(V, n)
  <2>1. V = Queued(links, s)
    BY <1>1, <1>5, <1>7
  <2>2. PICK h : Waits(waiting, Queued(links, s), h, links, path, s)
    BY <1>4, <1>8, <1>10, <1>11, QueuedIs
  <2>3. Waits(W, V, h, links, p, s)
    BY <1>5, <2>1, <2>2, Zenon
  <2>4. ASSUME NEW m \in Mid PROVE V[m].path <= PathsSize /\ V[m].step <= n
    <3>1. CASE h[m] = 0
      BY <1>10, <2>3, <3>1 DEF Waits, Bounded
    <3>2. CASE h[m] # 0
      <4>1. V[m].path = p /\ V[m].step = s
        BY <2>3, <3>2 DEF Waits
      <4> QED
        BY <1>4, <1>5, <1>11, <4>1
    <3> QED
      BY <3>1, <3>2
  <2> QED
    BY <2>4 DEF Bounded
<1>13. PICK c : c = Append(T[p].nodes, e)
  OBVIOUS
<1>14. Len(c) = s + 1
  <2>1. T[p].nodes \in Seq(1 .. n)
    BY <1>2, <1>5, <1>6 DEF RowType
  <2> QED
    BY <1>7, <1>8, <1>13, <2>1, AppendProperties
<1>15. /\ Len(U) = Len(T) /\ \A i \in 1 .. Len(T) : i # p => U[i] = T[i]
       /\ U[p].nodes = c /\ U[p].prev = T[p].prev /\ U[p].step = T[p].step /\ U[p].head = T[p].head
  <2>1. U = [T EXCEPT ![p].nodes = c]
    BY <1>1, <1>5, <1>13
  <2>2. DOMAIN T = 1 .. Len(T) /\ T[p] \in RowType(n)
    BY <1>9, <1>10, LenProperties, ElementOfSeq
  <2>3. PICK r : r = [T[p] EXCEPT !.nodes = c]
    OBVIOUS
  <2>4. r.nodes = c /\ r.prev = T[p].prev /\ r.step = T[p].step /\ r.head = T[p].head
    BY <2>2, <2>3 DEF RowType
  <2>5. U = [T EXCEPT ![p] = r]
    BY <2>1, <2>3
  <2>6. Len(U) = Len(T)
    <3>1. U \in Seq(RowType(n))
      BY <1>3, <1>1, <1>5, <1>6 DEF Building, Typed
    <3>2. DOMAIN U = 1 .. Len(T)
      BY <2>2, <2>5
    <3>3. DOMAIN U = 1 .. Len(U) /\ Len(U) \in Nat /\ U \in [1 .. Len(U) -> RowType(n)]
      BY <3>1, LenProperties
    <3>4. U \in [1 .. Len(T) -> RowType(n)]
      BY <3>2, <3>3
    <3> QED
      BY <1>9, <3>4, LenIs
  <2> QED
    BY <1>9, <2>2, <2>4, <2>5, <2>6
<1>16. Headed(U, n)
  BY <1>10, <1>15 DEF Headed
<1>17. Stepped(U, p)
  <2>1. ASSUME NEW i \in 1 .. p
        PROVE  U[i].prev \in 1 .. i /\ U[i].step \in 1 .. Len(U[U[i].prev].nodes)
    <3>1. PICK q : q = T[i].prev
      OBVIOUS
    <3>2. q \in 1 .. i /\ T[i].step \in 1 .. Len(T[q].nodes) /\ i \in 1 .. Len(T)
      BY <1>9, <1>10, <3>1 DEF Stepped
    <3>3. U[i].prev = q /\ U[i].step = T[i].step
      BY <1>15, <3>1, <3>2
    <3>4. q \in 1 .. Len(T)
      BY <1>9, <3>2
    <3>5. T[i].step \in 1 .. Len(U[q].nodes)
      <4>1. CASE q = p
        BY <1>7, <1>11, <1>14, <1>15, <3>2, <4>1
      <4>2. CASE q # p
        BY <1>15, <3>2, <3>4, <4>2
      <4> QED
        BY <4>1, <4>2
    <3> QED
      BY <3>2, <3>3, <3>5
  <2> QED
    BY <2>1 DEF Stepped
<1>18. TablesTyped'
  <2>1. /\ g \in GraphOf(n) /\ path \in 1 .. PathsSize + 1 /\ heads \subseteq 1 .. n /\ edges \subseteq Links(g.next)
        /\ Len(loops) <= LoopsSize /\ loops \in Seq(LoopOf(n))
    BY <1>4, <1>6 DEF TablesTyped
  <2>2. Bounded(waiting', n) /\ Headed(paths', n) /\ Stepped(paths', Filled') /\ Filled' \in 0 .. Len(paths')
        /\ Len(g'.next) = n
    BY <1>1, <1>5, <1>6, <1>9, <1>12, <1>15, <1>16, <1>17
  <2>3. Typed(paths', waiting', g'.next)
    BY <1>3 DEF Building
  <2> QED
    BY <1>1, <1>4, <2>1, <2>2, <2>3 DEF TablesTyped
<1> QED
  BY <1>1, <1>2, <1>18 DEF TypesInv

\* The passes that leave the tables as they are.
LEMMA TypesStay ==
  ASSUME TypesInv, UNCHANGED <<functions, again, g, waiting, paths, path, walking, heads, edges, loops>>,
         OfThisBuild' => OfThisBuild,
         stage' \in {"begin", "paths", "returns", "loops", "keep", "failed", "undefined"},
         stage' \in {"paths", "returns"} => stage \in {"paths", "returns"},
         fi' \in 1 .. Len(functions) + 1, stage' # "begin" => fi' <= Len(functions)
  PROVE  TypesInv'
<1>1. ASSUME TablesTyped PROVE TablesTyped'
  <2>1. Filled' = Filled
    BY DEF Filled
  <2>2. stage' \in {"paths", "returns"} => path' <= PathsSize
    BY <1>1 DEF TablesTyped
  <2> QED
    BY <1>1, <2>1, <2>2 DEF TablesTyped
<1> QED
  BY <1>1 DEF TypesInv

LEMMA TypesPass ==
  ASSUME PathsIInv, TypesInv,
         PathsDone \/ OneReturn \/ TooManyReturns \/ (\E common : MergeTails(common)) \/ KeepFunction
         \/ UNCHANGED vars
  PROVE  TypesInv'
<1>1. fi \in 1 .. Len(functions) + 1 /\ (stage # "begin" => fi <= Len(functions))
      /\ stage \in {"begin", "paths", "returns", "loops", "keep", "failed", "undefined"}
  BY DEF TypesInv
<1>2. CASE PathsDone
  <2>1. OfThisBuild' => OfThisBuild
    BY <1>2 DEF PathsDone, OfThisBuild
  <2> QED
    BY <1>1, <1>2, <2>1, TypesStay DEF PathsDone
<1>3. CASE OneReturn
  <2>1. ~again
    BY <1>3 DEF OneReturn, PathsIInv
  <2> QED
    BY <1>1, <1>3, <2>1, TypesStay DEF OneReturn, OfThisBuild
<1>4. CASE TooManyReturns
  <2>1. ~again
    BY <1>4 DEF TooManyReturns, PathsIInv
  <2> QED
    BY <1>1, <1>4, <2>1, TypesStay DEF TooManyReturns, OfThisBuild
<1>5. CASE \E common : MergeTails(common)
  <2>1. ~again
    BY <1>5 DEF MergeTails, PathsIInv
  <2> QED
    BY <1>1, <1>5, <2>1, TypesStay DEF MergeTails, OfThisBuild
<1>6. CASE KeepFunction
  <2>1. stage = "keep" /\ stage' = "begin" /\ fi' = fi + 1 /\ again' = again
        /\ UNCHANGED <<functions, again, g, waiting, paths, path, walking, heads, edges, loops>>
    BY <1>6 DEF KeepFunction
  <2>2. OfThisBuild' => OfThisBuild
    BY <2>1 DEF OfThisBuild
  <2>3. Len(functions) \in Nat
    BY ProgramIs DEF PathsIInv
  <2>4. fi + 1 \in 1 .. Len(functions) + 1
    BY <1>1, <2>1, <2>3
  <2> QED
    BY <2>1, <2>2, <2>4, TypesStay
<1>7. CASE UNCHANGED vars
  BY <1>1, <1>7, TypesStay DEF vars, OfThisBuild
<1> QED
  BY <1>2, <1>3, <1>4, <1>5, <1>6, <1>7
\* The graphs the merge leaves.
LEMMA UnifiedTyped ==
  ASSUME IsGraph(g), NEW a \in 1 .. Len(g.next), NEW b \in 1 .. Len(g.next), g.next[a] = <<>>
  PROVE  /\ Unified(a, b) \in GraphOf(Len(g.next)) /\ Len(Unified(a, b).next) = Len(g.next)
         /\ Links(g.next) \subseteq Links(Unified(a, b).next)
<1> DEFINE into == {<<g.prev[b][m], g.index[b][m]>> : m \in DOMAIN g.prev[b]}
           next == [k \in Node |-> [l \in DOMAIN g.next[k] |->
                                      IF <<k, l>> \in into THEN a ELSE g.next[k][l]]]
           prev == [g.prev EXCEPT ![a] = g.prev[a] \o g.prev[b], ![b] = <<>>]
           index == [g.index EXCEPT ![a] = g.index[a] \o g.index[b], ![b] = <<>>]
<1>1. PICK n \in Nat \ {0} : n = Len(g.next)
  BY GraphIn
<1>2. g \in GraphOf(n) /\ DOMAIN g.next = 1 .. n /\ a \in 1 .. n /\ b \in 1 .. n
  BY <1>1, GraphIn, NextIs
<1>3. Redirected(g.next, Unified(a, b).next, a)
  BY UnifiedIs
<1>4. PICK y : y = Unified(a, b)
  OBVIOUS
<1>5. /\ y.next = next /\ y.prev = prev /\ y.index = index /\ y.valid = g.valid \ {b} /\ y.len = g.len
      /\ y = [next |-> next, prev |-> prev, index |-> index, len |-> g.len, valid |-> g.valid \ {b}]
  <2>1. y = [g EXCEPT !.next = next, !.prev = prev, !.index = index, !.valid = @ \ {b}]
    BY <1>4 DEF Unified
  <2> HIDE DEF next, prev, index
  <2> QED
    BY <1>2, <2>1 DEF GraphOf
<1>6. IsNext(y.next) /\ Len(y.next) = n
  BY <1>1, <1>3, <1>4 DEF Redirected
<1>7. y.next \in [1 .. n -> Seq(1 .. n)]
  BY <1>6, LenProperties DEF IsNext
<1>8. prev \in [1 .. n -> Seq(1 .. n)]
  <2>1. g.prev \in [1 .. n -> Seq(1 .. n)]
    BY <1>2 DEF GraphOf
  <2>2. g.prev[a] \o g.prev[b] \in Seq(1 .. n) /\ <<>> \in Seq(1 .. n)
    BY <1>2, <2>1, ConcatProperties, EmptySeq
  <2> QED
    BY <2>1, <2>2
<1>9. index \in [1 .. n -> Seq(Nat \ {0})]
  <2>1. g.index \in [1 .. n -> Seq(Nat \ {0})]
    BY <1>2 DEF GraphOf
  <2>2. g.index[a] \o g.index[b] \in Seq(Nat \ {0}) /\ <<>> \in Seq(Nat \ {0})
    BY <1>2, <2>1, ConcatProperties, EmptySeq
  <2> QED
    BY <2>1, <2>2
<1>10. Links(g.next) \subseteq Links(y.next)
  <2>1. DOMAIN next = DOMAIN g.next /\ \A k \in DOMAIN g.next : DOMAIN next[k] = DOMAIN g.next[k]
    BY DEF Node
  <2> HIDE DEF next
  <2>2. \A k \in DOMAIN g.next : {k} \X DOMAIN next[k] = {k} \X DOMAIN g.next[k]
    BY <2>1
  <2> QED
    BY <1>5, <2>1, <2>2 DEF Links
<1>11. y \in GraphOf(n)
  <2>1. g.len \in [1 .. n -> Nat \ {0}] /\ g.valid \ {b} \in SUBSET (1 .. n)
    BY <1>2 DEF GraphOf
  <2>2. next \in [1 .. n -> Seq(1 .. n)]
    BY <1>5, <1>7
  <2> HIDE DEF next, prev, index
  <2> QED
    BY <1>5, <1>8, <1>9, <2>1, <2>2 DEF GraphOf
<1> QED
  BY <1>1, <1>4, <1>6, <1>10, <1>11

LEMMA ShortenedTyped ==
  ASSUME IsGraph(g), NEW a \in 1 .. Len(g.next), NEW b \in 1 .. Len(g.next), g.next[a] = <<>>, g.next[b] = <<>>,
         g.len[a] < g.len[b]
  PROVE  /\ Shortened(a, b) \in GraphOf(Len(g.next)) /\ Len(Shortened(a, b).next) = Len(g.next)
         /\ Links(g.next) \subseteq Links(Shortened(a, b).next)
<1> DEFINE next == [g.next EXCEPT ![b] = <<a>>]
           prev == [g.prev EXCEPT ![a] = Append(g.prev[a], b)]
           index == [g.index EXCEPT ![a] = Append(g.index[a], 1)]
           len == [g.len EXCEPT ![b] = g.len[b] - g.len[a]]
<1>1. PICK n \in Nat \ {0} : n = Len(g.next)
  BY GraphIn
<1>2. g \in GraphOf(n) /\ DOMAIN g.next = 1 .. n /\ a \in 1 .. n /\ b \in 1 .. n
  BY <1>1, GraphIn, NextIs
<1>3. g.len \in [1 .. n -> Nat \ {0}] /\ g.prev \in [1 .. n -> Seq(1 .. n)] /\ g.index \in [1 .. n -> Seq(Nat \ {0})]
      /\ g.valid \in SUBSET (1 .. n) /\ g.next \in [1 .. n -> Seq(1 .. n)]
  BY <1>2 DEF GraphOf
<1>4. a # b
  <2>1. g.len[a] \in Nat
    BY <1>2, <1>3
  <2> QED
    BY <2>1
<1>5. Redirected(g.next, Shortened(a, b).next, a)
  BY <1>4, ShortenedIs
<1>6. PICK y : y = Shortened(a, b)
  OBVIOUS
<1>7. y = [next |-> next, prev |-> prev, index |-> index, len |-> len, valid |-> g.valid]
  <2>1. y = [g EXCEPT !.next[b] = <<a>>, !.prev[a] = Append(@, b), !.index[a] = Append(@, 1), !.len[b] = @ - g.len[a]]
    BY <1>6 DEF Shortened
  <2>2. /\ y.next = next /\ y.prev = prev /\ y.index = index /\ y.len = len /\ y.valid = g.valid
    BY <1>6 DEF Shortened, IsGraph
  <2>3. DOMAIN y = {"next", "prev", "index", "len", "valid"}
    BY <1>2, <2>1 DEF GraphOf
  <2>4. y = [f \in DOMAIN y |-> y[f]]
    BY <2>1
  <2> HIDE DEF next, prev, index, len
  <2> QED
    BY <2>2, <2>3, <2>4
<1>8. Len(y.next) = n
  BY <1>1, <1>5, <1>6 DEF Redirected
<1>9. next \in [1 .. n -> Seq(1 .. n)]
  <2>1. <<a>> \in Seq(1 .. n)
    BY <1>2
  <2> QED
    BY <1>2, <1>3, <2>1
<1>10. prev \in [1 .. n -> Seq(1 .. n)]
  <2>1. Append(g.prev[a], b) \in Seq(1 .. n)
    BY <1>2, <1>3, AppendProperties
  <2> QED
    BY <1>3, <2>1
<1>11. index \in [1 .. n -> Seq(Nat \ {0})]
  <2>1. Append(g.index[a], 1) \in Seq(Nat \ {0})
    BY <1>2, <1>3, AppendProperties
  <2> QED
    BY <1>3, <2>1
<1>12. len \in [1 .. n -> Nat \ {0}]
  <2>1. PICK i, j : i = g.len[a] /\ j = g.len[b]
    OBVIOUS
  <2>2. i \in Nat /\ j \in Nat /\ i < j
    BY <1>2, <1>3, <2>1
  <2>3. j - i \in Nat \ {0}
    BY <2>2
  <2>4. len = [g.len EXCEPT ![b] = j - i]
    BY <2>1
  <2> HIDE DEF len
  <2> QED
    BY <1>3, <2>3, <2>4
<1>13. Links(g.next) \subseteq Links(next)
  <2>1. DOMAIN next = DOMAIN g.next /\ \A k \in DOMAIN g.next : k # b => next[k] = g.next[k]
    OBVIOUS
  <2>2. \A l \in DOMAIN g.next[b] : FALSE
    <3>1. DOMAIN g.next[b] = 1 .. Len(g.next[b]) /\ Len(g.next[b]) = 0
      BY <1>2, <1>3, EmptySeq, LenProperties
    <3> QED
      BY <3>1
  <2> HIDE DEF next
  <2>3. ASSUME NEW lk \in Links(g.next) PROVE lk \in Links(next)
    <3>1. PICK k \in DOMAIN g.next : lk \in {k} \X DOMAIN g.next[k]
      BY DEF Links
    <3>2. k # b
      BY <2>2, <3>1
    <3>3. next[k] = g.next[k] /\ k \in DOMAIN next
      BY <2>1, <3>1, <3>2
    <3>4. lk \in {k} \X DOMAIN next[k]
      BY <3>1, <3>3
    <3> QED
      BY <3>3, <3>4 DEF Links
  <2> QED
    BY <2>3
<1> HIDE DEF next, prev, index, len
<1>14. y \in GraphOf(n)
  BY <1>3, <1>7, <1>9, <1>10, <1>11, <1>12 DEF GraphOf
<1>15. y.next = next
  BY <1>7
<1> QED
  BY <1>1, <1>6, <1>8, <1>13, <1>14, <1>15

LEMMA TypesMerge == ASSUME PathsIInv, PathsIInv', TypesInv, NEW common, MergeReturns(common) PROVE TypesInv'
<1>1. /\ stage = "returns" /\ Len(Returns) = 2 /\ stage' = "paths" /\ path' = 1 /\ waiting' = Start
      /\ UNCHANGED <<functions, fi, paths, walking, heads, edges, loops>>
  BY DEF MergeReturns
<1>2. Building /\ Building' /\ ~again /\ walking = FALSE /\ OfThisBuild
  BY <1>1 DEF PathsIInv, OfThisBuild
<1>3. IsGraph(g)
  BY <1>2, GraphIs DEF PathsIInv, Building
<1>4. /\ TablesTyped /\ Len(paths) \in Nat /\ PathsSize \in Nat \ {0}
  BY <1>2, TypedIs
<1>5. PICK n \in Nat \ {0} : n = Len(g.next)
  BY <1>3, GraphIn
<1>6. g' \in GraphOf(n) /\ Len(g'.next) = n /\ Links(g.next) \subseteq Links(g'.next)
  <2>1. PICK a, b : /\ {a, b} \subseteq {Returns[1], Returns[2]}
                    /\ g' = g \/ g' = Unified(a, b) \/ (g.len[a] < g.len[b] /\ g' = Shortened(a, b))
    BY DEF MergeReturns
  <2>2. \A i \in 1 .. 2 : Returns[i] \in 1 .. n /\ g.next[Returns[i]] = <<>>
    BY <1>1, <1>5, ReturnsLast
  <2>3. a \in 1 .. Len(g.next) /\ b \in 1 .. Len(g.next) /\ g.next[a] = <<>> /\ g.next[b] = <<>>
    <3>1. 1 \in 1 .. 2 /\ 2 \in 1 .. 2
      OBVIOUS
    <3> QED
      BY <1>5, <2>1, <2>2, <3>1
  <2>4. CASE g' = g
    BY <1>3, <1>5, <2>4, GraphIn
  <2>5. CASE g' = Unified(a, b)
    BY <1>3, <1>5, <2>3, <2>5, UnifiedTyped
  <2>6. CASE g.len[a] < g.len[b] /\ g' = Shortened(a, b)
    BY <1>3, <1>5, <2>3, <2>6, ShortenedTyped
  <2> QED
    BY <2>1, <2>4, <2>5, <2>6
<1>7. Filled' = 0 /\ path' \in 1 .. PathsSize + 1 /\ path' <= PathsSize
  BY <1>1, <1>2, <1>4 DEF Filled
<1>8. Bounded(waiting', n) /\ Stepped(paths', 0)
  <2>1. \A i \in 1 .. 0 : FALSE
    OBVIOUS
  <2> QED
    BY <1>1, <1>3, <1>5, <2>1, Cleared DEF Stepped
<1>9. TablesTyped'
  <2>1. /\ heads \subseteq 1 .. n /\ edges \subseteq Links(g.next) /\ Headed(paths, n)
        /\ Len(loops) <= LoopsSize /\ loops \in Seq(LoopOf(n))
    BY <1>4, <1>5 DEF TablesTyped
  <2>2. Headed(paths', n) /\ edges' \subseteq Links(g'.next) /\ heads' \subseteq 1 .. n
        /\ Len(loops') <= LoopsSize /\ loops' \in Seq(LoopOf(n)) /\ 0 \in 0 .. Len(paths')
    BY <1>1, <1>4, <1>6, <2>1
  <2>3. Typed(paths', waiting', g'.next)
    BY <1>2 DEF Building
  <2> QED
    BY <1>6, <1>7, <1>8, <2>2, <2>3 DEF TablesTyped
<1> QED
  BY <1>1, <1>9 DEF TypesInv
\* A set of numbers up to n has a greatest one.
LEMMA MaxIs == ASSUME NEW n \in Nat, NEW S \in SUBSET (1 .. n), S # {} PROVE Max(S) \in S
<1> DEFINE R == {x \in 0 .. n : n - x \in S}
<1>1. R \in SUBSET Nat /\ R # {}
  <2>1. PICK x \in S : TRUE
    OBVIOUS
  <2>2. n - x \in 0 .. n /\ n - (n - x) = x
    OBVIOUS
  <2>3. n - x \in R
    BY <2>1, <2>2
  <2>4. R \in SUBSET Nat
    OBVIOUS
  <2> HIDE DEF R
  <2> QED
    BY <2>3, <2>4
<1>2. PICK m \in R : \A x \in R : m <= x
  BY <1>1, Least
<1>3. m \in 0 .. n /\ n - m \in S
  OBVIOUS
<1>4. ASSUME NEW x \in S PROVE n - m >= x
  <2>1. n - x \in 0 .. n /\ n - (n - x) = x
    OBVIOUS
  <2>2. n - x \in R
    BY <2>1
  <2>3. m <= n - x
    BY <1>2, <2>2
  <2> QED
    BY <1>3, <2>3
<1>5. \E x \in S : \A y \in S : x >= y
  BY <1>3, <1>4
<1> QED
  BY <1>5 DEF Max

\* The nodes that a row adds to its loop are nodes.
LEMMA BodyIn ==
  ASSUME NEW n \in Nat, NEW T, NEW p, Traces(T)[p] \in Seq(1 .. n), Traces(T)[p] # <<>>
  PROVE  RowBody(T, p) \in SUBSET (1 .. n)
<1>1. PICK t, f, h : t = Traces(T)[p] /\ f = Front(t) /\ h = T[p].head
  OBVIOUS
<1>2. PICK d \in Nat : d = Len(t) - 1
  <2>1. Len(t) \in Nat \ {0}
    BY <1>1, LenProperties, EmptySeq
  <2> QED
    BY <2>1
<1>3. f \in Seq(1 .. n) /\ Len(f) \in Nat /\ DOMAIN f = 1 .. Len(f)
  <2>1. t \in Seq(1 .. n) /\ Len(t) \in Nat /\ f = SubSeq(t, 1, d)
    BY <1>1, <1>2, LenProperties DEF Front
  <2>2. \A i \in 1 .. d : t[i] \in 1 .. n
    BY <1>2, <2>1, ElementOfSeq
  <2>3. f \in Seq(1 .. n)
    BY <2>1, <2>2, SubSeqProperties
  <2> QED
    BY <2>3, LenProperties
<1>4. PICK S, x : S = {1} \cup {k \in DOMAIN f : f[k] = h} /\ x = Max(S)
  OBVIOUS
<1>5. x \in Nat /\ 1 <= x
  <2>1. PICK c \in Nat : c = Len(f) + 1
    BY <1>3
  <2>2. S \in SUBSET (1 .. c) /\ S # {}
    BY <1>3, <1>4, <2>1
  <2>3. x \in S
    BY <1>4, <2>2, MaxIs
  <2> QED
    BY <2>2, <2>3
<1>6. PICK u : u = SubSeq(f, x, Len(f))
  OBVIOUS
<1>7. RowBody(T, p) = Range(u)
  BY <1>1, <1>4, <1>6 DEF RowBody
<1>8. u \in Seq(1 .. n)
  <2>1. \A i \in x .. Len(f) : f[i] \in 1 .. n
    BY <1>3, <1>5, ElementOfSeq
  <2> QED
    BY <1>3, <1>5, <1>6, <2>1, SubSeqProperties
<1>9. Range(u) \in SUBSET (1 .. n)
  <2>1. DOMAIN u = 1 .. Len(u)
    BY <1>8, LenProperties
  <2> QED
    BY <1>8, <2>1, ElementOfSeq DEF Range
<1> QED
  BY <1>7, <1>9
LEMMA TypesLoops == ASSUME PathsIInv, TypesInv, BuildLoops PROVE TypesInv'
<1>1. /\ stage = "loops" /\ UNCHANGED <<functions, fi, again, g, waiting, paths, path, walking, heads, edges>>
      /\ \/ Len(LoopTable) <= LoopsSize /\ loops' = LoopTable /\ stage' = "keep"
         \/ loops' = loops /\ stage' = "failed"
  BY DEF BuildLoops
<1>2. Building /\ OfThisBuild /\ walking = FALSE
  BY <1>1 DEF PathsIInv, OfThisBuild
<1>3. TablesTyped
  BY <1>2, TypedIs
<1>4. ASSUME ~again, Len(LoopTable) <= LoopsSize, loops' = LoopTable PROVE loops' \in Seq(LoopOf(Len(g.next)))
  <2>1. PICK T, next, L, H, c : T = paths /\ next = g.next /\ L = LoopTable /\ H = HeadRows(paths) /\ c = Cardinality(H)
    OBVIOUS
  <2>2. PICK k \in Nat, n \in Nat \ {0} : k = Len(T) /\ n = Len(next)
    BY <1>2, <2>1, TypedIs
  <2>3. Typed(T, waiting, next) /\ Listed(T, waiting, next, path - 1, path - 1) /\ Len(T) = path - 1
    BY <1>2, <1>4, <2>1 DEF Building, Filled, Once
  <2>4. /\ Table(T, n) /\ Fresh(T, k) /\ DOMAIN T = 1 .. k /\ Headed(T, n)
        /\ \A p \in 1 .. k : Underway(next, Traces(T)[p])
    BY <1>3, <2>1, <2>2, <2>3, RowsTyped DEF Listed, Rows, TablesTyped
  <2>5. \A p \in 1 .. k : LoopBody(p) \in SUBSET (1 .. n)
    <3>1. ASSUME NEW p \in 1 .. k PROVE LoopBody(p) \in SUBSET (1 .. n)
      <4>1. Traces(T)[p] \in Seq(1 .. n) /\ Traces(T)[p] # <<>>
        BY <2>2, <2>4 DEF Underway, Walks
      <4>2. LoopBody(p) = RowBody(T, p)
        BY <2>1, TraceIs DEF LoopBody, RowBody
      <4> QED
        BY <4>1, <4>2, BodyIn
    <3> QED
      BY <3>1
  <2>6. \A p \in 1 .. k : T[T[p].prev].head \in 0 .. n
    <3>1. ASSUME NEW p \in 1 .. k PROVE T[T[p].prev].head \in 0 .. n
      <4>1. T[p].prev \in 1 .. Len(T)
        BY <2>2, <2>4, RowIs
      <4> QED
        BY <2>4, <4>1 DEF Headed
    <3> QED
      BY <3>1
  <2>7. H \in SUBSET (1 .. k) /\ Heading = H
    BY <2>1, <2>4 DEF HeadRows, Heading
  <2>8. c \in Nat /\ \A m \in 1 .. c : InOrder(H)[m] \in H
    BY <2>1, <2>7, InOrderIn
  <2>9. DOMAIN L = 1 .. c /\ L = [m \in 1 .. c |-> L[m]]
    BY <2>1, <2>7 DEF LoopTable
  <2>10. ASSUME NEW m \in 1 .. c PROVE L[m] \in LoopOf(n)
    <3> DEFINE h == paths[InOrder(Heading)[m]].head
               Of(x) == {p \in DOMAIN paths : paths[p].head = x}
               outer(p) == paths[paths[p].prev].head
               Inner(x) == {p \in Of(x) : outer(p) # 0}
    <3>1. PICK w, body, nest : /\ w = h /\ body = UNION {LoopBody(p) : p \in Of(h)}
                               /\ nest = IF Inner(h) = {} THEN 0 ELSE outer(Max(Inner(h)))
      OBVIOUS
    <3>2. L[m] = [head |-> w, body |-> body, nest |-> nest]
      BY <2>1, <2>7, <2>10, <3>1 DEF LoopTable
    <3>3. h \in 1 .. n
      <4>1. InOrder(H)[m] \in 1 .. k /\ T[InOrder(H)[m]].head # 0
        BY <2>1, <2>7, <2>8 DEF HeadRows
      <4>2. T[InOrder(H)[m]].head \in 0 .. n
        BY <2>2, <2>4, <4>1 DEF Headed
      <4> QED
        BY <2>1, <2>7, <4>1, <4>2
    <3>4. \A x : Of(x) \subseteq 1 .. k
      BY <2>1, <2>4
    <3>5. \A p \in 1 .. k : outer(p) \in 0 .. n
      BY <2>1, <2>6
    <3>6. \A x : Inner(x) \in SUBSET (1 .. k)
      BY <3>4
    <3> HIDE DEF h, Of, outer, Inner
    <3>7. nest \in 0 .. n
      <4>1. CASE Inner(h) = {}
        BY <3>1, <4>1
      <4>2. CASE Inner(h) # {}
        <5>1. Max(Inner(h)) \in 1 .. k
          BY <3>6, <4>2, MaxIs
        <5> QED
          BY <3>1, <3>5, <4>2, <5>1
      <4> QED
        BY <4>1, <4>2
    <3>8. body \in SUBSET (1 .. n)
      BY <2>5, <3>1, <3>4
    <3> QED
      BY <3>1, <3>2, <3>3, <3>7, <3>8 DEF LoopOf
  <2>11. L \in [1 .. c -> LoopOf(n)]
    BY <2>9, <2>10
  <2>12. L \in Seq(LoopOf(n))
    BY <2>8, <2>11, LenIs
  <2> QED
    BY <1>4, <2>1, <2>2, <2>12
<1>5. ASSUME ~again PROVE TablesTyped'
  <2>1. Filled' = Filled /\ stage' \notin {"paths", "returns"}
    BY <1>1 DEF Filled
  <2>2. Len(loops') <= LoopsSize /\ loops' \in Seq(LoopOf(Len(g.next)))
    BY <1>1, <1>3, <1>4, <1>5 DEF TablesTyped
  <2> QED
    BY <1>1, <1>3, <2>1, <2>2 DEF TablesTyped
<1>6. OfThisBuild' => ~again
  BY <1>1 DEF OfThisBuild
<1> QED
  BY <1>1, <1>5, <1>6 DEF TypesInv

LEMMA TypesNext == ASSUME PathsIInv, PathsIInv', TypesInv, [Next]_vars PROVE TypesInv'
<1>1. ASSUME NEW common, MergeReturns(common) \/ MergeTails(common) PROVE TypesInv'
  BY <1>1, TypesMerge, TypesPass
<1> QED
  BY <1>1, TypesBegin, TypesTake, TypesClose, TypesExtend, TypesEndPath, TypesPass, TypesLoops DEF Next, PathsStep

\* Whatever the functions and the sizes of the tables, every row, every way that waits
\* and every loop is what its table holds: a row goes on from a step of a row that is
\* there, no index is outside its table, and no step is behind the last node that a
\* row can have (build_control_flow_paths, node_mid_start_add, build_control_flow_loops).
\* When the paths were built again, that is so until the loops are built.
THEOREM PathsTyped == Spec => [](OfThisBuild => PathsTypeOK)
<1>1. Init => PathsIInv /\ TypesInv
  BY PathsStart, TypesStart
<1>2. PathsIInv /\ TypesInv /\ [Next]_vars => PathsIInv' /\ TypesInv'
  BY PathsNext, TypesNext DEF Kept
<1>3. PathsIInv /\ TypesInv => (OfThisBuild => PathsTypeOK)
  BY TypesImply
<1> QED
  BY <1>1, <1>2, <1>3, PTL DEF Spec
=============================================================================
