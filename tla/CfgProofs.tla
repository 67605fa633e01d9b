------------------------------ MODULE CfgProofs ------------------------------
(***************************************************************************)
(* From the tidied log to the nodes: the marks and the chains they begin   *)
(* and end make the basic blocks of the log.                               *)
(***************************************************************************)
EXTENDS TidyProofs

-----------------------------------------------------------------------------
(* The marks *)

\* Entry j continues the node of entry i.
Inner(i, j) ==
  /\ i \in Insts \ ends /\ j \in Insts \ starts
  /\ log[i].next = <<j>> /\ log[j].prev = <<i>>

BlocksInv ==
  /\ starts \subseteq Insts /\ ends \subseteq Insts
  /\ \A i \in Insts \ ends : \E j \in Insts : Inner(i, j)
  /\ \A j \in Insts \ starts : \E i \in Insts : Inner(i, j)
  /\ \A i \in ends : \A j \in Insts : Holds(log[i].next, j) => j \in starts
  /\ \A i \in ends : Len(log[i].next) = 1 => Len(log[log[i].next[1]].prev) # 1
  /\ \A L \in SUBSET Insts : L # {} => \E i \in L : \A j \in L : ~Inner(i, j)
  /\ \A L \in SUBSET Insts : L # {} => \E j \in L : \A i \in L : ~Inner(i, j)

LEMMA FirstIs ==
  ASSUME FunctionInv
  PROVE  /\ \A f \in 1 .. Len(entries) : /\ FirstInst(f) \in Insts /\ origin[FirstInst(f)][1] = f
                                         /\ First(FirstInst(f))
         /\ \A j \in Insts : First(j) => FirstInst(origin[j][1]) = j
<1> DEFINE S(f) == {i \in Insts : origin[i][1] = f}
<1>1. Insts \subseteq Nat
  BY DEF FunctionInv, Insts
<1>2. ASSUME NEW f \in 1 .. Len(entries)
      PROVE  FirstInst(f) \in S(f) /\ \A k \in S(f) : FirstInst(f) <= k
  <2>1. S(f) # {} /\ S(f) \in SUBSET Nat
    BY <1>1 DEF FunctionInv
  <2>2. \E m \in S(f) : \A k \in S(f) : m <= k
    BY <2>1, Least
  <2>3. FirstInst(f) = CHOOSE m \in S(f) : \A k \in S(f) : m <= k
    BY DEF FirstInst, Min
  <2> HIDE DEF S
  <2> QED
    BY <2>2, <2>3
<1>3. ASSUME NEW j \in Insts, First(j) PROVE FirstInst(origin[j][1]) = j
  <2> DEFINE f == origin[j][1]
  <2>1. f \in 1 .. Len(entries) /\ j \in S(f)
    BY DEF FunctionInv
  <2>2. FirstInst(f) \in S(f) /\ FirstInst(f) <= j
    BY <1>2, <2>1
  <2>3. j <= FirstInst(f)
    BY <1>3, <2>2 DEF First
  <2>4. FirstInst(f) \in Nat /\ j \in Nat
    BY <1>1, <2>2
  <2> HIDE DEF f
  <2>5. FirstInst(f) = j
    BY <2>2, <2>3, <2>4
  <2> QED
    BY <2>5 DEF f
<1> QED
  BY <1>2, <1>3 DEF First

\* A set of numbers with a bound has a greatest one.
LEMMA Greatest ==
  ASSUME NEW N \in Nat, NEW T \in SUBSET (1 .. N), T # {} PROVE \E m \in T : \A k \in T : k <= m
<1> DEFINE D == {N - i : i \in T}
<1>1. \A i \in T : i \in Nat /\ N - i \in Nat
  OBVIOUS
<1>2. D \in SUBSET Nat /\ D # {}
  BY <1>1
<1>3. PICK d \in D : \A e \in D : d <= e
  BY <1>2, Least
<1>4. PICK m \in T : d = N - m
  BY <1>3
<1>5. ASSUME NEW k \in T PROVE k <= m
  <2>1. N - k \in D
    OBVIOUS
  <2> HIDE DEF D
  <2>2. d <= N - k
    BY <1>3, <2>1
  <2> QED
    BY <1>1, <1>4, <2>2
<1> QED
  BY <1>5

\* Where control neither forks nor meets, following it from entry to entry ends,
\* forwards and backwards: the head of the function is the only entry that may
\* be led to from behind, and who comes back to it that way has been everywhere.
LEMMA NoLoops ==
  ASSUME Ready, NEW R, NEW E,
         \A i, j \in Insts : <<i, j>> \in R => i \notin E /\ log[i].next = <<j>> /\ log[j].prev = <<i>>,
         \A i \in Insts \ E : \E j \in Insts : <<i, j>> \in R,
         \A i \in Insts : Len(log[i].next) # 1 => i \in E,
         \A i, j \in Insts : Len(log[j].prev) # 1 /\ Holds(log[j].prev, i) => i \in E,
         \A f \in 1 .. Len(entries) : \E i \in Insts :
           origin[i][1] = f /\ (Len(log[i].next) # 1 \/ Len(log[i].prev) # 1)
  PROVE  /\ \A L \in SUBSET Insts : L # {} => \E i \in L : \A j \in L : <<i, j>> \notin R
         /\ \A L \in SUBSET Insts : L # {} => \E j \in L : \A i \in L : <<i, j>> \notin R
<1>i. /\ ListsInv /\ FlowInv /\ FunctionInv /\ Insts \subseteq Nat /\ Insts = 1 .. (ilog - 1) /\ ilog - 1 \in Nat
  BY DEF Ready, FunctionInv, Insts
<1>h. \A f \in 1 .. Len(entries) : FirstInst(f) \in Insts /\ origin[FirstInst(f)][1] = f
  BY <1>i, FirstIs
<1>f. \A j \in Insts : First(j) => FirstInst(origin[j][1]) = j
  BY <1>i, FirstIs
<1>l. \A i, j \in Insts : <<i, j>> \in R =>
         /\ Holds(log[i].next, j) /\ Len(log[j].prev) = 1
         /\ \A k : Holds(log[i].next, k) => k = j
         /\ \A k : Holds(log[j].prev, k) => k = i
  <2>1. \A x : Len(<<x>>) = 1 /\ Holds(<<x>>, x) /\ \A k : Holds(<<x>>, k) => k = x
    BY DEF Holds
  <2>2. ASSUME NEW i \in Insts, NEW j \in Insts, <<i, j>> \in R
        PROVE  log[i].next = <<j>> /\ log[j].prev = <<i>>
    BY <2>2
  <2> QED
    BY <2>1, <2>2
<1>n. \A i, j, k \in Insts : <<i, j>> \in R /\ <<i, k>> \in R => j = k
  BY <1>l
<1>b. \A i, j, k \in Insts : <<i, k>> \in R /\ <<j, k>> \in R => i = j
  <2>1. \A x, y : <<x>> = <<y>> => x = y
    OBVIOUS
  <2> QED
    BY <2>1
<1>o. \A i, j \in Insts : Holds(log[j].prev, i) => origin[i][1] = origin[j][1]
  BY <1>i DEF ListsInv, FlowInv
\* An entry whose only predecessor is not older begins its function.
<1>1. ASSUME NEW i \in Insts, NEW j \in Insts, <<i, j>> \in R, j <= i
      PROVE  FirstInst(origin[j][1]) = j
  <2> SUFFICES ASSUME ~First(j) PROVE FALSE
    BY <1>f
  <2>1. PICK p \in Insts : p < j /\ Holds(log[j].prev, p)
    BY <1>i DEF FlowInv
  <2>2. p = i
    BY <1>1, <1>l, <2>1
  <2> QED
    BY <1>i, <1>1, <2>1, <2>2
\* What holds the head of a function and its predecessor, leads only to its own
\* and has no end would be all of the function: a ring.
<1>2. ASSUME NEW f \in 1 .. Len(entries), NEW K \in SUBSET Insts, NEW q \in K,
             FirstInst(f) \in K, <<q, FirstInst(f)>> \in R,
             \A i \in K : \E j \in K : <<i, j>> \in R
      PROVE  FALSE
  <2>1. \A i \in Insts : origin[i][1] = f => i \in K
    <3> DEFINE T == {i \in Insts : origin[i][1] = f /\ i \notin K}
    <3> SUFFICES ASSUME T # {} PROVE FALSE
      OBVIOUS
    <3>1. T \in SUBSET Nat
      BY <1>i
    <3>2. PICK m \in T : \A k \in T : m <= k
      BY <3>1, Least
    <3>3. m \in Insts /\ origin[m][1] = f /\ m \notin K
      BY <3>2
    <3>4. ~First(m)
      BY <1>2, <1>f, <3>3
    <3>5. PICK p \in Insts : p < m /\ Holds(log[m].prev, p)
      BY <1>i, <3>3, <3>4 DEF FlowInv
    <3>6. origin[p][1] = f /\ Holds(log[p].next, m)
      BY <1>i, <1>o, <3>3, <3>5 DEF ListsInv
    <3>7. p \in K
      <4>1. p \notin T
        BY <1>i, <3>2, <3>3, <3>5
      <4> QED
        BY <3>5, <3>6, <4>1
    <3>8. PICK j \in K : <<p, j>> \in R
      BY <1>2, <3>7
    <3>9. m = j
      BY <1>l, <3>5, <3>6, <3>8
    <3> QED
      BY <3>3, <3>8, <3>9
  <2>2. \A i \in Insts : origin[i][1] = f => i \notin E
    BY <1>2, <2>1
  <2>3. PICK i \in Insts : origin[i][1] = f /\ (Len(log[i].next) # 1 \/ Len(log[i].prev) # 1)
    OBVIOUS
  <2>4. Len(log[i].prev) # 1
    BY <2>2, <2>3
  <2>5. \A p \in Insts : ~Holds(log[i].prev, p)
    BY <1>o, <2>2, <2>3, <2>4
  <2>6. First(i)
    BY <1>i, <2>5 DEF FlowInv
  <2>7. i = FirstInst(f)
    BY <1>f, <2>3, <2>6
  <2> QED
    BY <1>2, <1>l, <2>4, <2>7
<1>3. ASSUME NEW L \in SUBSET Insts, L # {}, \A i \in L : \E j \in L : <<i, j>> \in R
      PROVE  FALSE
  <2>1. PICK m \in L : \A k \in L : k <= m
    BY <1>i, <1>3, Greatest
  <2>2. PICK j \in L : <<m, j>> \in R
    BY <1>3
  <2>3. FirstInst(origin[j][1]) = j
    BY <1>1, <2>1, <2>2
  <2>4. origin[j][1] \in 1 .. Len(entries)
    BY <1>i DEF FunctionInv
  <2> QED
    BY <1>2, <1>3, <2>1, <2>2, <2>3, <2>4
<1>4. ASSUME NEW L \in SUBSET Insts, L # {}, \A j \in L : \E i \in L : <<i, j>> \in R
      PROVE  FALSE
  <2>1. PICK h \in L : \A k \in L : h <= k
    BY <1>i, <1>4, Least
  <2>2. PICK q \in L : <<q, h>> \in R
    BY <1>4
  <2> DEFINE f == origin[h][1]
  <2>3. FirstInst(f) = h /\ f \in 1 .. Len(entries)
    BY <1>i, <1>1, <2>1, <2>2 DEF FunctionInv
  <2>4. origin[q][1] = f
    BY <1>l, <1>o, <2>2 DEF Holds
  <2> HIDE DEF f
  \* The entries on the way to q.
  <2> DEFINE Back(M) == q \in M /\ \A j \in M, i \in Insts : <<i, j>> \in R => i \in M
             P == {x \in Insts : \A M \in SUBSET Insts : Back(M) => x \in M}
  <2>5. P \in SUBSET Insts /\ Back(P)
    OBVIOUS
  <2>6. \A M \in SUBSET Insts : Back(M) => P \subseteq M
    OBVIOUS
  <2> HIDE DEF P
  <2>7. P \subseteq L
    <3>1. ASSUME NEW j \in L, NEW i \in Insts, <<i, j>> \in R PROVE i \in L
      <4>1. PICK k \in L : <<k, j>> \in R
        BY <1>4
      <4>2. k = i
        BY <1>b, <3>1, <4>1
      <4> QED
        BY <4>2
    <3>2. Back(L)
      BY <2>2, <3>1
    <3> QED
      BY <2>6, <3>2
  <2>8. \A x \in P : origin[x][1] = f
    <3> DEFINE M == {x \in Insts : origin[x][1] = f}
    <3>1. Back(M)
      <4>1. ASSUME NEW j \in M, NEW i \in Insts, <<i, j>> \in R PROVE i \in M
        <5>1. Holds(log[i].next, j)
          BY <1>l, <4>1
        <5> QED
          BY <1>i, <1>o, <4>1, <5>1 DEF ListsInv
      <4> QED
        BY <2>4, <4>1
    <3> QED
      BY <2>6, <3>1
  <2>9. h \in P
    <3>1. P # {} /\ P \in SUBSET Nat
      BY <1>i, <2>5
    <3>2. PICK m \in P : \A k \in P : m <= k
      BY <3>1, Least
    <3>3. PICK i \in L : <<i, m>> \in R
      BY <1>4, <2>7
    <3>4. i \in P
      BY <2>5, <3>3
    <3>5. FirstInst(origin[m][1]) = m
      BY <1>1, <2>5, <3>2, <3>3, <3>4
    <3> QED
      BY <2>3, <2>8, <3>5
  <2>10. ASSUME NEW x \in P PROVE \E k \in P : <<x, k>> \in R
    <3>1. CASE x = q
      BY <2>2, <2>9, <3>1
    <3>2. CASE x # q
      <4> SUFFICES ASSUME \A k \in P : <<x, k>> \notin R PROVE FALSE
        OBVIOUS
      <4>1. P \ {x} \in SUBSET Insts /\ Back(P \ {x})
        BY <2>5, <3>2
      <4> QED
        BY <2>6, <4>1
    <3> QED
      BY <3>1, <3>2
  <2>11. q \in P
    BY <2>5
  <2> QED
    BY <1>2, <2>2, <2>3, <2>5, <2>9, <2>10, <2>11
<1> QED
  BY <1>3, <1>4

\* The marks begin and end the nodes where the log wants it.
LEMMA MarkStep == Ready /\ NoRings /\ MarkNodes => BlocksInv' /\ Ready'
<1> SUFFICES ASSUME Ready, NoRings, MarkNodes PROVE BlocksInv' /\ Ready'
  OBVIOUS
<1> DEFINE E == Forks \cup IntoJoins
           A == UNION {Range(log[i].next) : i \in Forks}
           B == {log[i].next[1] : i \in {k \in IntoJoins : Len(log[k].next) = 1}}
           In(i, j) == i \in Insts \ E /\ j \in Insts \ (Joins \cup A \cup B)
                       /\ log[i].next = <<j>> /\ log[j].prev = <<i>>
<1>u. UNCHANGED vars /\ At("mark") /\ ends' = E /\ starts' = Joins \cup A \cup B
  <2>1. UNCHANGED vars /\ At("mark") /\ ends' = E
    BY DEF MarkNodes
  <2>2. starts' = Joins \cup A \cup B
    BY Zenon DEF MarkNodes
  <2> QED
    BY <2>1, <2>2
<1>v. Insts' = Insts /\ entries' = entries /\ log' = log /\ origin' = origin /\ ilog' = ilog /\ Index' = Index
  BY <1>u DEF vars, Insts, program, history
<1>r. Ready'
  <2>1. Ready' <=> Ready
    BY <1>v DEF Ready, ListsInv, FlowInv, FunctionInv, First
  <2> QED
    BY <2>1
<1>i. /\ ListsInv /\ FlowInv /\ FunctionInv /\ Insts \subseteq Nat
  BY DEF Ready, FunctionInv, Insts
<1>n. \A i \in Insts : log[i].next \in Seq(Insts) /\ log[i].prev \in Seq(Insts)
  BY <1>i DEF ListsInv
<1>e. \A i, j \in Insts : Holds(log[i].next, j) <=> Holds(log[j].prev, i)
  BY <1>i DEF ListsInv
<1>o. \A i \in Insts : Len(log[i].next) = 1 =>
         /\ log[i].next[1] \in Insts /\ log[i].next = <<log[i].next[1]>>
         /\ Holds(log[i].next, log[i].next[1])
         /\ \A x : Holds(log[i].next, x) => x = log[i].next[1]
  BY <1>n, OneIs
<1>p. \A i \in Insts : Len(log[i].prev) = 1 =>
         /\ log[i].prev[1] \in Insts /\ log[i].prev = <<log[i].prev[1]>>
         /\ Holds(log[i].prev, log[i].prev[1])
         /\ \A x : Holds(log[i].prev, x) => x = log[i].prev[1]
  BY <1>n, OneIs
<1>h. \A i \in Insts : /\ \A x : Holds(log[i].next, x) => x \in Insts
                       /\ \A x : Holds(log[i].prev, x) => x \in Insts
  BY <1>n, OneIs
<1>g. /\ \A i \in Insts : \A x : x \in Range(log[i].next) <=> Holds(log[i].next, x)
      /\ \A i \in Insts : \A x : x \in Range(log[i].prev) <=> Holds(log[i].prev, x)
  BY <1>n, HoldsRange
\* An entry leads to a join.
<1>1. \A i : i \in IntoJoins <=> \E j \in Joins : Holds(log[j].prev, i)
  BY <1>g DEF IntoJoins, Joins
<1>2. \A i : i \in IntoJoins <=> i \in Insts /\ \E j \in Joins : Holds(log[i].next, j)
  BY <1>1, <1>e, <1>h DEF Joins
<1>3. Forks \subseteq Insts /\ Joins \subseteq Insts /\ IntoJoins \subseteq Insts
  BY <1>2 DEF Forks, Joins
<1>4. \A j : j \in A <=> \E i \in Forks : Holds(log[i].next, j)
  BY <1>3, <1>g
<1>5. A \subseteq Insts /\ B \subseteq Insts
  BY <1>3, <1>4, <1>h, <1>o
<1>6. ASSUME NEW i \in Insts \ E PROVE \E j \in Insts : In(i, j)
  <2> DEFINE j == log[i].next[1]
  <2>1. Len(log[i].next) = 1 /\ i \notin IntoJoins /\ i \notin Forks
    BY <1>6 DEF Forks
  <2>2. j \in Insts /\ log[i].next = <<j>> /\ Holds(log[i].next, j)
    BY <1>o, <2>1
  <2> HIDE DEF j
  <2>3. j \notin Joins
    BY <1>2, <2>1, <2>2
  <2>4. Len(log[j].prev) = 1
    BY <2>2, <2>3 DEF Joins
  <2>5. Holds(log[j].prev, i)
    BY <1>e, <2>2
  <2>6. log[j].prev = <<i>> /\ \A x : Holds(log[j].prev, x) => x = i
    BY <1>p, <2>2, <2>4, <2>5
  <2>7. j \notin A
    <3> SUFFICES ASSUME NEW k \in Forks, Holds(log[k].next, j) PROVE FALSE
      BY <1>4
    <3>1. k = i
      BY <1>3, <1>e, <2>2, <2>6
    <3> QED
      BY <2>1, <3>1
  <2>8. j \notin B
    <3> SUFFICES ASSUME NEW k \in IntoJoins, Len(log[k].next) = 1, j = log[k].next[1] PROVE FALSE
      OBVIOUS
    <3>1. Holds(log[k].next, j) /\ k \in Insts
      BY <1>3, <1>o
    <3>2. k = i
      BY <1>e, <2>2, <2>6, <3>1
    <3> QED
      BY <2>1, <3>2
  <2>10. In(i, j)
    BY <1>6, <2>2, <2>3, <2>6, <2>7, <2>8
  <2> QED
    BY <2>2, <2>10
<1>7. ASSUME NEW i \in E, NEW j \in Insts, Holds(log[i].next, j) PROVE j \in Joins \cup A \cup B
  <2>1. i \in Insts
    BY <1>3
  <2>2. CASE i \in Forks
    BY <1>4, <1>7, <2>2
  <2>3. CASE i \notin Forks
    <3>1. i \in IntoJoins /\ Len(log[i].next) = 1
      BY <2>1, <2>3 DEF Forks
    <3>2. j = log[i].next[1]
      BY <1>7, <1>o, <2>1, <3>1
    <3> QED
      BY <3>1, <3>2
  <2> QED
    BY <2>2, <2>3
<1>8. ASSUME NEW i \in E, Len(log[i].next) = 1 PROVE Len(log[log[i].next[1]].prev) # 1
  <2>1. i \in Insts /\ i \in IntoJoins
    BY <1>3, <1>8 DEF Forks
  <2>2. PICK j \in Joins : Holds(log[i].next, j)
    BY <1>2, <2>1
  <2>3. j = log[i].next[1]
    BY <1>8, <1>o, <2>1, <2>2
  <2> QED
    BY <2>2, <2>3 DEF Joins
<1>9. ASSUME NEW j \in Insts \ (Joins \cup A \cup B) PROVE \E i \in Insts : In(i, j)
  <2>1. Len(log[j].prev) = 1
    BY <1>9 DEF Joins
  <2> DEFINE i == log[j].prev[1]
  <2>2. i \in Insts /\ Holds(log[j].prev, i)
    BY <1>9, <1>p, <2>1
  <2> HIDE DEF i, E, A, B
  <2>3. Holds(log[i].next, j)
    BY <1>9, <1>e, <2>2
  <2>4. i \notin E
    BY <1>7, <1>9, <2>3
  <2>5. PICK k \in Insts : In(i, k)
    BY <1>6, <2>2, <2>4
  <2>6. k = j
    <3>1. log[i].next = <<k>> /\ Len(log[i].next) = 1 /\ log[i].next[1] = k
      BY <2>5
    <3> QED
      BY <1>o, <2>2, <2>3, <3>1
  <2> QED
    BY <2>2, <2>5, <2>6
<1>10. /\ \A L \in SUBSET Insts : L # {} => \E i \in L : \A j \in L : ~In(i, j)
       /\ \A L \in SUBSET Insts : L # {} => \E j \in L : \A i \in L : ~In(i, j)
  <2> DEFINE R == {r \in Insts \X Insts : In(r[1], r[2])}
  <2>1. \A i, j \in Insts : <<i, j>> \in R <=> In(i, j)
    OBVIOUS
  <2>2. \A i, j \in Insts : In(i, j) => i \notin E /\ log[i].next = <<j>> /\ log[j].prev = <<i>>
    OBVIOUS
  <2>3. \A i \in Insts : Len(log[i].next) # 1 => i \in E
    BY DEF Forks
  <2>4. \A i, j \in Insts : Len(log[j].prev) # 1 /\ Holds(log[j].prev, i) => i \in E
    BY <1>1 DEF Joins
  <2>5. \A f \in 1 .. Len(entries) : \E i \in Insts :
           origin[i][1] = f /\ (Len(log[i].next) # 1 \/ Len(log[i].prev) # 1)
    BY <1>u DEF NoRings
  <2> HIDE DEF R, In, E
  <2>6. \A i \in Insts \ E : \E j \in Insts : <<i, j>> \in R
    BY <1>6, <2>1
  <2>7. \A i, j \in Insts : <<i, j>> \in R => i \notin E /\ log[i].next = <<j>> /\ log[j].prev = <<i>>
    BY <2>1, <2>2
  <2>8. /\ \A L \in SUBSET Insts : L # {} => \E i \in L : \A j \in L : <<i, j>> \notin R
        /\ \A L \in SUBSET Insts : L # {} => \E j \in L : \A i \in L : <<i, j>> \notin R
    BY <2>3, <2>4, <2>5, <2>6, <2>7, NoLoops
  <2> HIDE DEF A, B
  <2>9. ASSUME NEW L \in SUBSET Insts, L # {} PROVE \E i \in L : \A j \in L : ~In(i, j)
    <3>1. PICK i \in L : \A j \in L : <<i, j>> \notin R
      BY <2>8, <2>9
    <3>2. \A j \in L : ~In(i, j)
      BY <2>1, <3>1
    <3> QED
      BY <3>2
  <2>10. ASSUME NEW L \in SUBSET Insts, L # {} PROVE \E j \in L : \A i \in L : ~In(i, j)
    <3>1. PICK j \in L : \A i \in L : <<i, j>> \notin R
      BY <2>8, <2>10
    <3>2. \A i \in L : ~In(i, j)
      BY <2>1, <3>1
    <3> QED
      BY <3>2
  <2> QED
    BY <2>9, <2>10
<1>12. \A i, j : Inner(i, j)' <=> In(i, j)
  BY <1>u, <1>v DEF Inner
<1> HIDE DEF In, E, A, B
<1>13. (\A i \in Insts \ E : \E j \in Insts : Inner(i, j)') /\ (\A j \in Insts \ (Joins \cup A \cup B) : \E i \in Insts : Inner(i, j)')
  BY <1>6, <1>9, <1>12
<1>14. E \subseteq Insts
  BY <1>3 DEF E
<1>15. BlocksInv'
  BY <1>u, <1>v, <1>3, <1>5, <1>7, <1>8, <1>10, <1>12, <1>13, <1>14 DEF BlocksInv
<1> QED
  BY <1>r, <1>15

-----------------------------------------------------------------------------
(* The nodes *)

Counted(S, i) == Cardinality({j \in S : j <= i})

\* The members of a set of numbers are counted off in their order.
LEMMA Counting ==
  ASSUME NEW N \in Nat, NEW S \in SUBSET (1 .. N)
  PROVE  /\ Cardinality(S) \in Nat
         /\ \A i \in S : Counted(S, i) \in 1 .. Cardinality(S)
         /\ \A i, j \in S : Counted(S, i) = Counted(S, j) => i = j
         /\ \A k \in 1 .. Cardinality(S) : \E i \in S : Counted(S, i) = k
<1> DEFINE U(i) == {j \in S : j <= i}
<1>1. IsFiniteSet(S) /\ Cardinality(S) \in Nat
  <2>1. IsFiniteSet(1 .. N)
    BY FS_Interval
  <2>2. IsFiniteSet(S)
    BY <2>1, FS_Subset
  <2> QED
    BY <2>2, FS_CardinalityType
<1>2. \A i : IsFiniteSet(U(i)) /\ Counted(S, i) \in Nat /\ Counted(S, i) <= Cardinality(S)
  <2> SUFFICES ASSUME NEW i PROVE IsFiniteSet(U(i)) /\ Counted(S, i) \in Nat /\ Counted(S, i) <= Cardinality(S)
    OBVIOUS
  <2>1. U(i) \in SUBSET S /\ Counted(S, i) = Cardinality(U(i))
    BY DEF Counted
  <2>2. IsFiniteSet(U(i)) /\ Cardinality(U(i)) <= Cardinality(S)
    BY <1>1, <2>1, FS_Subset
  <2> QED
    BY <2>1, <2>2, FS_CardinalityType
<1>u. /\ \A i : Counted(S, i) = Cardinality(U(i))
      /\ \A i \in 1 .. N : IF i \in S THEN U(i) = U(i - 1) \cup {i} /\ i \notin U(i - 1) ELSE U(i) = U(i - 1)
      /\ U(0) = {} /\ U(N) = S
      /\ \A i, j \in 0 .. N : i <= j => U(i) \subseteq U(j)
  <2>1. \A i : Counted(S, i) = Cardinality(U(i))
    BY DEF Counted
  <2>s. \A j \in S : j \in Int /\ 1 <= j /\ j <= N
    OBVIOUS
  <2>u. \A i, x : x \in U(i) <=> x \in S /\ x <= i
    OBVIOUS
  <2> HIDE DEF U
  <2>2. ASSUME NEW i \in 1 .. N, i \in S PROVE U(i) = U(i - 1) \cup {i} /\ i \notin U(i - 1)
    <3>1. \A x \in S : (x <= i <=> x <= i - 1 \/ x = i) /\ ~(i <= i - 1)
      BY <2>s
    <3>2. i \notin U(i - 1)
      BY <2>u, <2>2, <3>1
    <3>3. ASSUME NEW x PROVE x \in U(i) <=> x \in U(i - 1) \/ x = i
      BY <2>u, <2>2, <3>1
    <3> QED
      BY <3>2, <3>3
  <2>3. ASSUME NEW i \in 1 .. N, i \notin S PROVE U(i) = U(i - 1)
    <3>1. ASSUME NEW x \in S PROVE x <= i <=> x <= i - 1
      <4>1. x \in Int /\ x # i /\ i \in Int
        BY <2>s, <2>3
      <4> QED
        BY <4>1
    <3>2. ASSUME NEW x PROVE x \in U(i) <=> x \in U(i - 1)
      BY <2>u, <3>1
    <3> QED
      BY <3>2
  <2>4. U(0) = {} /\ U(N) = S
    <3>1. \A x \in S : ~(x <= 0) /\ x <= N
      BY <2>s
    <3> QED
      BY <2>u, <3>1
  <2>5. ASSUME NEW i \in 0 .. N, NEW j \in 0 .. N, i <= j PROVE U(i) \subseteq U(j)
    <3>1. \A x \in S : x <= i => x <= j
      BY <2>s, <2>5
    <3> QED
      BY <2>u, <3>1
  <2> QED
    BY <2>1, <2>2, <2>3, <2>4, <2>5
<1> HIDE DEF U
<1>3. ASSUME NEW i \in 1 .. N
      PROVE  /\ i \in S => Counted(S, i) = Counted(S, i - 1) + 1
             /\ i \notin S => Counted(S, i) = Counted(S, i - 1)
  <2>1. CASE i \in S
    <3>1. U(i) = U(i - 1) \cup {i} /\ i \notin U(i - 1) /\ IsFiniteSet(U(i - 1))
      BY <1>2, <1>u, <2>1
    <3> DEFINE u == U(i - 1)
    <3>2. IsFiniteSet(u) /\ i \notin u
      BY <3>1
    <3> HIDE DEF u
    <3>3. Cardinality(u \cup {i}) = Cardinality(u) + 1
      BY <3>2, FS_AddElement
    <3> QED
      BY <1>u, <2>1, <3>1, <3>3 DEF u
  <2>2. CASE i \notin S
    BY <1>u, <2>2
  <2> QED
    BY <2>1, <2>2
<1>4. Counted(S, 0) = 0 /\ Counted(S, N) = Cardinality(S)
  BY <1>u, FS_EmptySet
<1>5. ASSUME NEW i \in 0 .. N, NEW j \in 0 .. N, i <= j PROVE Counted(S, i) <= Counted(S, j)
  <2>1. U(i) \in SUBSET U(j) /\ IsFiniteSet(U(j))
    BY <1>2, <1>5, <1>u
  <2>2. Cardinality(U(i)) <= Cardinality(U(j))
    BY <2>1, FS_Subset
  <2> QED
    BY <1>u, <2>2
<1>6. ASSUME NEW i \in S, NEW j \in S, i < j PROVE Counted(S, i) < Counted(S, j)
  <2>1. i \in 0 .. N /\ j - 1 \in 0 .. N /\ i <= j - 1 /\ j \in 1 .. N
    BY <1>6
  <2>2. Counted(S, i) <= Counted(S, j - 1) /\ Counted(S, j) = Counted(S, j - 1) + 1
    BY <1>3, <1>5, <2>1
  <2>3. Counted(S, i) \in Nat /\ Counted(S, j) \in Nat /\ Counted(S, j - 1) \in Nat
    BY <1>2
  <2> HIDE DEF U
  <2> QED
    BY <2>2, <2>3
<1>7. ASSUME NEW i \in S PROVE Counted(S, i) \in 1 .. Cardinality(S)
  <2>1. i - 1 \in 0 .. N /\ i \in 1 .. N
    OBVIOUS
  <2>2. Counted(S, i) = Counted(S, i - 1) + 1 /\ Counted(S, i - 1) \in Nat /\ Counted(S, i) <= Cardinality(S) /\ Counted(S, i) \in Nat
    BY <1>2, <1>3, <2>1
  <2> QED
    BY <1>1, <2>2
<1>8. ASSUME NEW i \in S, NEW j \in S, Counted(S, i) = Counted(S, j) PROVE i = j
  <2>1. i < j \/ j < i \/ i = j
    OBVIOUS
  <2>2. Counted(S, i) \in Nat /\ Counted(S, j) \in Nat
    BY <1>2
  <2> QED
    BY <1>6, <1>8, <2>1, <2>2
<1>9. ASSUME NEW k \in 1 .. Cardinality(S) PROVE \E i \in S : Counted(S, i) = k
  <2> DEFINE T == {i \in 1 .. N : Counted(S, i) >= k}
  <2>0. Cardinality(S) \in Nat /\ k \in Nat /\ 1 <= k /\ k <= Cardinality(S)
    BY <1>1
  <2>1. N # 0
    BY <1>4, <2>0
  <2>2. N \in T /\ T \in SUBSET Nat
    BY <1>4, <2>0, <2>1
  <2>3. PICK i \in T : \A e \in T : i <= e
    BY <2>2, Least
  <2>4. i \in 1 .. N /\ Counted(S, i) >= k /\ \A e \in 1 .. N : e \notin T => ~(Counted(S, e) >= k)
    BY <2>3
  <2> HIDE DEF T
  <2>5. Counted(S, i - 1) < k
    <3>1. CASE i = 1
      BY <1>4, <2>0, <3>1
    <3>2. CASE i # 1
      <4>1. i - 1 \in 1 .. N /\ ~(i <= i - 1)
        BY <2>4, <3>2
      <4>2. i - 1 \notin T
        BY <2>3, <4>1
      <4>3. ~(Counted(S, i - 1) >= k) /\ Counted(S, i - 1) \in Nat
        BY <1>2, <2>4, <4>1, <4>2
      <4> QED
        BY <2>0, <4>3
    <3> QED
      BY <3>1, <3>2
  <2>6. Counted(S, i) \in Nat /\ Counted(S, i - 1) \in Nat
    BY <1>2
  <2>7. i \in S
    <3> SUFFICES ASSUME i \notin S PROVE FALSE
      OBVIOUS
    <3>1. Counted(S, i) = Counted(S, i - 1)
      BY <1>3, <2>4
    <3> QED
      BY <2>0, <2>4, <2>5, <2>6, <3>1
  <2>8. Counted(S, i) = Counted(S, i - 1) + 1
    BY <1>3, <2>4, <2>7
  <2>9. Counted(S, i) = k
    BY <2>0, <2>4, <2>5, <2>6, <2>8
  <2> QED
    BY <2>7, <2>9
<1> QED
  BY <1>1, <1>7, <1>8, <1>9

\* What the recursive definition of a node's entries computes.
LEMMA ChainIs ==
  ASSUME FunctionInv, BlocksInv
  PROVE  \A i \in Insts : Chain[i] = IF i \in ends THEN <<i>> ELSE <<i>> \o Chain[log[i].next[1]]
<1> DEFINE X == Seq(Insts)
           P(c) == c = [i \in Insts |-> IF i \in ends THEN <<i>> ELSE <<i>> \o c[log[i].next[1]]]
           Closed(Q) == /\ \A i \in Insts \cap ends : <<i, <<i>> >> \in Q
                        /\ \A i \in Insts \ ends : \A t \in X :
                             <<log[i].next[1], t>> \in Q => <<i, <<i>> \o t>> \in Q
           V == {q \in Insts \X X : \A Q \in SUBSET (Insts \X X) : Closed(Q) => q \in Q}
<1>1. \A i \in Insts \ ends : log[i].next[1] \in Insts /\ Inner(i, log[i].next[1])
  <2>1. \A x : <<x>>[1] = x
    OBVIOUS
  <2>2. \A i, j : Inner(i, j) => log[i].next[1] = j
    BY <2>1 DEF Inner
  <2> QED
    BY <2>2 DEF BlocksInv
<1>2. \A i \in Insts : <<i>> \in X /\ \A t \in X : <<i>> \o t \in X
  <2>1. ASSUME NEW i \in Insts, NEW t \in X PROVE <<i>> \in X /\ <<i>> \o t \in X
    <3>1. <<i>> \in Seq(Insts)
      OBVIOUS
    <3> QED
      BY <3>1, ConcatProperties
  <2>2. <<>> \in X
    OBVIOUS
  <2> HIDE DEF X
  <2> QED
    BY <2>1, <2>2
<1> HIDE DEF X
<1>3. V \in SUBSET (Insts \X X) /\ Closed(V)
  BY <1>1, <1>2
<1>4. \A Q \in SUBSET (Insts \X X) : Closed(Q) => V \subseteq Q
  OBVIOUS
<1> HIDE DEF V
<1>5. \A i \in Insts : \E t \in X : <<i, t>> \in V
  <2> DEFINE L == {i \in Insts : \A t \in X : <<i, t>> \notin V}
  <2> SUFFICES ASSUME L # {} PROVE FALSE
    OBVIOUS
  <2>1. PICK i \in L : \A j \in L : ~Inner(i, j)
    <3>1. L \in SUBSET Insts
      OBVIOUS
    <3> QED
      BY <3>1 DEF BlocksInv
  <2>2. CASE i \in ends
    BY <1>2, <1>3, <2>2
  <2>3. CASE i \notin ends
    <3>1. log[i].next[1] \in Insts \ L
      BY <1>1, <2>1, <2>3
    <3>2. PICK t \in X : <<log[i].next[1], t>> \in V
      BY <3>1
    <3> QED
      BY <1>2, <1>3, <2>3, <3>2
  <2> QED
    BY <2>2, <2>3
\* Taking away all but one value of an entry leaves V closed.
<1>6. ASSUME NEW i \in Insts, NEW u \in X,
             i \in ends => u = <<i>>,
             i \notin ends => \A t \in X : <<log[i].next[1], t>> \in V => u = <<i>> \o t
      PROVE  \A s \in X : <<i, s>> \in V => s = u
  <2> DEFINE Q == {r \in V : r[1] = i => r[2] = u}
  <2>1. \A k, s : <<k, s>> \in Q <=> <<k, s>> \in V /\ (k = i => s = u)
    OBVIOUS
  <2>2. Q \in SUBSET (Insts \X X)
    BY <1>3
  <2> HIDE DEF Q
  <2>3. Closed(Q)
    <3>1. \A k \in Insts \cap ends : <<k, <<k>> >> \in Q
      BY <1>3, <1>6, <2>1
    <3>2. ASSUME NEW k \in Insts \ ends, NEW t \in X, <<log[k].next[1], t>> \in Q
          PROVE  <<k, <<k>> \o t>> \in Q
      <4>1. <<log[k].next[1], t>> \in V
        BY <2>1, <3>2
      <4>2. <<k, <<k>> \o t>> \in V
        BY <1>3, <4>1
      <4>3. k = i => u = <<k>> \o t
        BY <1>6, <4>1
      <4> QED
        BY <2>1, <4>2, <4>3
    <3> QED
      BY <3>1, <3>2
  <2> HIDE DEF Closed
  <2>4. V \subseteq Q
    BY <1>4, <2>2, <2>3
  <2> QED
    BY <2>1, <2>4
<1> HIDE DEF Closed
<1>7. \A i \in Insts : \A s, t \in X : <<i, s>> \in V /\ <<i, t>> \in V => s = t
  <2> DEFINE L == {i \in Insts : \E s, t \in X : <<i, s>> \in V /\ <<i, t>> \in V /\ s # t}
  <2> SUFFICES ASSUME L # {} PROVE FALSE
    OBVIOUS
  <2>1. PICK i \in L : \A j \in L : ~Inner(i, j)
    <3>1. L \in SUBSET Insts
      OBVIOUS
    <3> QED
      BY <3>1 DEF BlocksInv
  <2>2. CASE i \in ends
    BY <1>2, <1>6, <2>2
  <2>3. CASE i \notin ends
    <3>1. log[i].next[1] \in Insts \ L
      BY <1>1, <2>1, <2>3
    <3>2. PICK t \in X : <<log[i].next[1], t>> \in V
      BY <1>5, <3>1
    <3>3. \A s \in X : <<log[i].next[1], s>> \in V => s = t
      BY <3>1, <3>2
    <3>4. \A s \in X : <<i, s>> \in V => s = <<i>> \o t
      <4> DEFINE u == <<i>> \o t
      <4>1. u \in X /\ \A s \in X : <<log[i].next[1], s>> \in V => u = <<i>> \o s
        BY <1>2, <3>3
      <4> HIDE DEF u
      <4>2. \A s \in X : <<i, s>> \in V => s = u
        BY <1>6, <2>3, <4>1
      <4> QED
        BY <4>2 DEF u
    <3> QED
      BY <3>4
  <2> QED
    BY <2>2, <2>3
<1> DEFINE c == [i \in Insts |-> CHOOSE t \in X : <<i, t>> \in V]
<1>8. c \in [Insts -> X] /\ \A i \in Insts : c[i] \in X /\ <<i, c[i]>> \in V
  BY <1>5
<1> HIDE DEF c
<1>9. ASSUME NEW i \in Insts
      PROVE  c[i] = IF i \in ends THEN <<i>> ELSE <<i>> \o c[log[i].next[1]]
  <2> DEFINE j == log[i].next[1]
  <2>1. CASE i \in ends
    <3>1. <<i, <<i>> >> \in V
      BY <1>3, <2>1 DEF Closed
    <3> QED
      BY <1>2, <1>7, <1>8, <2>1, <3>1
  <2>2. CASE i \notin ends
    <3>1. j \in Insts
      BY <1>1, <2>2
    <3>2. c[j] \in X /\ <<j, c[j]>> \in V
      BY <1>8, <3>1
    <3>3. <<i, <<i>> \o c[j]>> \in V
      BY <1>3, <2>2, <3>2 DEF Closed
    <3> HIDE DEF j
    <3>4. <<i>> \o c[j] \in X
      BY <1>2, <3>2
    <3>5. c[i] = <<i>> \o c[j]
      BY <1>7, <1>8, <3>3, <3>4
    <3> QED
      BY <2>2, <3>5 DEF j
  <2> QED
    BY <2>1, <2>2
<1>10. P(c)
  <2>1. c = [i \in Insts |-> c[i]]
    BY <1>8
  <2> QED
    BY <1>9, <2>1
<1> HIDE DEF V
<1>11. Chain = CHOOSE a : P(a)
  BY DEF Chain
<1>12. P(Chain)
  BY <1>10, <1>11
<1> QED
  BY <1>12

Body(a) == Range(Chain[a])

\* A node is what its chain is made of.
WellMade(a) ==
  /\ a \in Body(a) /\ Body(a) \subseteq Insts /\ Last(Chain[a]) \in Body(a) \cap ends
  /\ Chain[a] \in Seq(Insts) /\ Len(Chain[a]) > 0
  /\ \A i \in Body(a) : \A j : Inner(i, j) => j \in Body(a)
  /\ \A i \in Body(a) : i # a => \E p \in Body(a) : Inner(p, i)
  /\ \A i \in Body(a) \cap ends : i = Last(Chain[a])

LEMMA SingleIs ==
  ASSUME NEW S, NEW x \in S
  PROVE  <<x>> \in Seq(S) /\ Len(<<x>>) = 1 /\ Range(<<x>>) = {x} /\ Last(<<x>>) = x
<1>1. <<x>> \in Seq(S) /\ Len(<<x>>) = 1 /\ <<x>>[1] = x /\ DOMAIN <<x>> = {1}
  OBVIOUS
<1> QED
  BY <1>1 DEF Range, Last

LEMMA LeadIs ==
  ASSUME NEW S, NEW x \in S, NEW s \in Seq(S), Len(s) > 0
  PROVE  /\ <<x>> \o s \in Seq(S) /\ Len(<<x>> \o s) > 0
         /\ Range(<<x>> \o s) = {x} \cup Range(s) /\ Last(<<x>> \o s) = Last(s)
<1> DEFINE t == <<x>> \o s
<1>1. /\ <<x>> \in Seq(S) /\ Len(<<x>>) = 1 /\ <<x>>[1] = x
      /\ Len(s) \in Nat /\ DOMAIN s = 1 .. Len(s)
  BY LenProperties
<1>2. /\ t \in Seq(S) /\ Len(t) = 1 + Len(s)
      /\ \A a \in 1 .. 1 + Len(s) : t[a] = IF a <= 1 THEN <<x>>[a] ELSE s[a - 1]
  BY <1>1, ConcatProperties
<1>3. DOMAIN t = 1 .. 1 + Len(s)
  BY <1>2, LenProperties
<1> HIDE DEF t
<1>4. t[1] = x /\ \A a \in 1 .. Len(s) : t[a + 1] = s[a]
  <2>1. 1 \in 1 .. 1 + Len(s) /\ \A a \in 1 .. Len(s) : a + 1 \in 1 .. 1 + Len(s) /\ ~(a + 1 <= 1) /\ a + 1 - 1 = a
    BY <1>1
  <2> QED
    BY <1>1, <1>2, <2>1
<1>5. Last(t) = Last(s)
  <2>1. Len(s) \in 1 .. Len(s) /\ Len(t) = Len(s) + 1
    BY <1>1, <1>2
  <2> QED
    BY <1>4, <2>1 DEF Last
<1>6. ASSUME NEW y PROVE y \in Range(t) <=> y = x \/ y \in Range(s)
  <2>1. ASSUME NEW a \in 1 .. 1 + Len(s) PROVE t[a] = x \/ t[a] \in Range(s)
    <3>1. a = 1 \/ a - 1 \in 1 .. Len(s)
      BY <1>1
    <3>2. a - 1 \in 1 .. Len(s) => t[a - 1 + 1] = s[a - 1] /\ a - 1 + 1 = a
      BY <1>1, <1>4
    <3> QED
      BY <1>1, <1>4, <3>1, <3>2 DEF Range
  <2>2. x \in Range(t)
    <3>1. 1 \in DOMAIN t
      BY <1>1, <1>3
    <3> QED
      BY <1>4, <3>1 DEF Range
  <2>3. ASSUME NEW a \in 1 .. Len(s) PROVE s[a] \in Range(t)
    <3>1. a + 1 \in DOMAIN t
      BY <1>1, <1>3
    <3> QED
      BY <1>4, <3>1 DEF Range
  <2> QED
    BY <1>1, <1>3, <2>1, <2>2, <2>3 DEF Range
<1>7. Range(t) = {x} \cup Range(s)
  BY <1>6
<1> QED
  BY <1>1, <1>2, <1>5, <1>7 DEF t

LEMMA ChainsMade ==
  ASSUME FunctionInv, BlocksInv
  PROVE  \A a \in Insts : WellMade(a)
<1> DEFINE T == {a \in Insts : ~WellMade(a)}
<1> SUFFICES ASSUME T # {} PROVE FALSE
  OBVIOUS
<1>2. PICK a \in T : \A k \in T : ~Inner(a, k)
  <2>1. T \in SUBSET Insts
    OBVIOUS
  <2> HIDE DEF T
  <2> QED
    BY <2>1 DEF BlocksInv
<1>3. a \in Insts /\ ~WellMade(a) /\ \A k \in Insts : k \notin T => WellMade(k)
  BY <1>2
<1> HIDE DEF T
<1>4. CASE a \in ends
  <2>1. Chain[a] = <<a>>
    BY <1>3, <1>4, ChainIs
  <2>2. Chain[a] \in Seq(Insts) /\ Len(Chain[a]) = 1 /\ Body(a) = {a} /\ Last(Chain[a]) = a
    BY <1>3, <2>1, SingleIs DEF Body
  <2>3. \A j : ~Inner(a, j)
    BY <1>4 DEF Inner
  <2> QED
    BY <1>3, <1>4, <2>2, <2>3 DEF WellMade
<1>5. CASE a \notin ends
  <2>1. PICK j \in Insts : Inner(a, j)
    BY <1>3, <1>5 DEF BlocksInv
  <2>2. log[a].next = <<j>> /\ log[a].next[1] = j
    <3>1. log[a].next = <<j>>
      BY <2>1 DEF Inner
    <3> QED
      BY <3>1
  <2>3. WellMade(j)
    BY <1>2, <1>3, <2>1
  <2>4. Chain[a] = <<a>> \o Chain[j]
    BY <1>3, <1>5, <2>2, ChainIs
  <2>5. /\ Chain[a] \in Seq(Insts) /\ Len(Chain[a]) > 0
        /\ Body(a) = {a} \cup Body(j) /\ Last(Chain[a]) = Last(Chain[j])
    <3>1. Chain[j] \in Seq(Insts) /\ Len(Chain[j]) > 0
      BY <2>3 DEF WellMade
    <3> QED
      BY <1>3, <2>4, <3>1, LeadIs DEF Body
  <2>6. \A k : Inner(a, k) => k = j
    <3>1. \A k : <<k>> = <<j>> => k = j
      OBVIOUS
    <3> QED
      BY <2>2, <3>1 DEF Inner
  <2>7. /\ a \in Body(a) /\ Body(a) \subseteq Insts /\ Last(Chain[a]) \in Body(a) \cap ends
    BY <1>3, <2>3, <2>5 DEF WellMade
  <2>8. \A i \in Body(a) : \A k : Inner(i, k) => k \in Body(a)
    BY <2>3, <2>5, <2>6 DEF WellMade
  <2>9. \A i \in Body(a) : i # a => \E p \in Body(a) : Inner(p, i)
    BY <2>1, <2>3, <2>5 DEF WellMade
  <2>10. \A i \in Body(a) \cap ends : i = Last(Chain[a])
    BY <1>5, <2>3, <2>5 DEF WellMade
  <2> QED
    BY <1>3, <2>5, <2>7, <2>8, <2>9, <2>10 DEF WellMade
<1> QED
  BY <1>4, <1>5

\* Every entry belongs to the chain of one start.
LEMMA OneBody ==
  ASSUME FunctionInv, BlocksInv
  PROVE  /\ \A i \in Insts : \E a \in starts : i \in Body(a)
         /\ \A i \in Insts : \A a, b \in starts : i \in Body(a) /\ i \in Body(b) => a = b
<1>1. ilog - 1 \in Nat /\ Insts = 1 .. ilog - 1 /\ Insts \subseteq Nat /\ starts \subseteq Insts
  BY DEF FunctionInv, Insts, BlocksInv
<1>2. \A a \in Insts : WellMade(a)
  BY ChainsMade
<1>3. \A i \in Insts : \E a \in starts : i \in Body(a)
  <2> DEFINE T == {i \in Insts : \A a \in starts : i \notin Body(a)}
  <2> SUFFICES ASSUME T # {} PROVE FALSE
    OBVIOUS
  <2>1. PICK i \in T : \A k \in T : ~Inner(k, i)
    <3>1. T \in SUBSET Insts
      OBVIOUS
    <3> HIDE DEF T
    <3> QED
      BY <3>1 DEF BlocksInv
  <2>2. i \in Insts /\ (\A a \in starts : i \notin Body(a))
        /\ \A k \in Insts : k \notin T => \E a \in starts : k \in Body(a)
    BY <2>1
  <2> HIDE DEF T
  <2>3. i \notin starts
    BY <1>2, <2>2 DEF WellMade
  <2>4. PICK p \in Insts : Inner(p, i)
    BY <2>2, <2>3 DEF BlocksInv
  <2>5. p \notin T
    BY <2>1, <2>4
  <2>6. PICK a \in starts : p \in Body(a)
    BY <2>2, <2>5
  <2>7. i \in Body(a)
    BY <1>1, <1>2, <2>4, <2>6 DEF WellMade
  <2> QED
    BY <2>2, <2>7
<1>4. \A i \in Insts : \A a, b \in starts : i \in Body(a) /\ i \in Body(b) => a = b
  <2> DEFINE T == {i \in Insts : \E a, b \in starts : i \in Body(a) /\ i \in Body(b) /\ a # b}
  <2> SUFFICES ASSUME T # {} PROVE FALSE
    OBVIOUS
  <2>1. PICK i \in T : \A k \in T : ~Inner(k, i)
    <3>1. T \in SUBSET Insts
      OBVIOUS
    <3> HIDE DEF T
    <3> QED
      BY <3>1 DEF BlocksInv
  <2>2. i \in Insts /\ (\E a, b \in starts : i \in Body(a) /\ i \in Body(b) /\ a # b)
        /\ \A k \in Insts : k \notin T => \A a, b \in starts : k \in Body(a) /\ k \in Body(b) => a = b
    BY <2>1
  <2> HIDE DEF T
  <2>3. PICK a \in starts, b \in starts : i \in Body(a) /\ i \in Body(b) /\ a # b
    BY <2>2
  <2>4. \A c \in starts : i \in Body(c) /\ i # c => \E p \in Body(c) : Inner(p, i)
    BY <1>1, <1>2 DEF WellMade
  <2>5. i # a /\ i # b
    <3>1. i \in starts => \A p : ~Inner(p, i)
      BY DEF Inner
    <3> QED
      BY <2>3, <2>4, <3>1
  <2>6. PICK p \in Body(a) : Inner(p, i)
    BY <2>3, <2>4, <2>5
  <2>7. PICK q \in Body(b) : Inner(q, i)
    BY <2>3, <2>4, <2>5
  <2>8. p = q
    <3>1. log[i].prev = <<p>> /\ log[i].prev = <<q>>
      BY <2>6, <2>7 DEF Inner
    <3>2. <<p>> = <<q>> => p = q
      OBVIOUS
    <3> QED
      BY <3>1, <3>2
  <2>9. p \in Insts /\ p \notin T
    BY <2>1, <2>6 DEF Inner
  <2> QED
    BY <2>2, <2>3, <2>6, <2>7, <2>8, <2>9
<1> QED
  BY <1>3, <1>4

\* The nodes are the chains, and every entry knows its node.
Fields == {"first", "last", "prev", "next", "index"}

NodesInv ==
  /\ \A k \in DOMAIN nodes : DOMAIN nodes[k] = Fields
  /\ \A k \in DOMAIN nodes : /\ nodes[k].first \in starts /\ member[nodes[k].first] = k
                             /\ nodes[k].last \in ends /\ member[nodes[k].last] = k
  /\ \A i \in Insts : member[i] \in DOMAIN nodes
  /\ \A i \in starts : nodes[member[i]].first = i
  /\ \A i \in ends : nodes[member[i]].last = i
  /\ \A i, j \in Insts : Inner(i, j) => member[j] = member[i]

LEMMA RanksIs ==
  ASSUME FunctionInv, BlocksInv
  PROVE  /\ NodeCount \in Nat
         /\ \A a \in starts : Rank(a) \in 1 .. NodeCount /\ FirstOf(Rank(a)) = a
         /\ \A k \in 1 .. NodeCount : FirstOf(k) \in starts /\ Rank(FirstOf(k)) = k
<1> DEFINE S == starts \cap Insts
<1>1. ilog - 1 \in Nat /\ S \in SUBSET (1 .. (ilog - 1)) /\ S = starts
  <2>1. ilog - 1 \in Nat /\ Insts = 1 .. (ilog - 1)
    BY DEF FunctionInv, Insts
  <2>2. S \subseteq Insts /\ S = starts
    BY DEF BlocksInv
  <2> QED
    BY <2>1, <2>2
<1>2. NodeCount = Cardinality(S) /\ \A i : Rank(i) = Counted(S, i)
  <2>1. NodeCount = Cardinality(S)
    BY Zenon DEF NodeCount
  <2>2. \A i : Rank(i) = Counted(S, i)
    BY Zenon DEF Rank, Counted
  <2> QED
    BY <2>1, <2>2
<1>3. /\ NodeCount \in Nat
      /\ \A i \in S : Rank(i) \in 1 .. NodeCount
      /\ \A i, j \in S : Rank(i) = Rank(j) => i = j
      /\ \A k \in 1 .. NodeCount : \E i \in S : Rank(i) = k
  <2> HIDE DEF S
  <2>1. /\ Cardinality(S) \in Nat
        /\ \A i \in S : Counted(S, i) \in 1 .. Cardinality(S)
        /\ \A i, j \in S : Counted(S, i) = Counted(S, j) => i = j
        /\ \A k \in 1 .. Cardinality(S) : \E i \in S : Counted(S, i) = k
    <3> DEFINE N == ilog - 1
    <3>1. N \in Nat /\ S \in SUBSET (1 .. N)
      BY <1>1
    <3> HIDE DEF N
    <3> QED
      BY <3>1, Counting
  <2> QED
    BY <1>2, <2>1
<1>4. \A k : FirstOf(k) = CHOOSE i \in S : Rank(i) = k
  BY DEF FirstOf
<1>5. \A k \in 1 .. NodeCount : FirstOf(k) \in S /\ Rank(FirstOf(k)) = k
  <2> HIDE DEF S
  <2> QED
    BY <1>3, <1>4
<1>6. \A a \in S : FirstOf(Rank(a)) = a
  BY <1>3, <1>5
<1> QED
  BY <1>1, <1>3, <1>5, <1>6

LEMMA BuildStep == Ready /\ BlocksInv /\ BuildNodes => NodesInv' /\ BlocksInv' /\ Ready'
<1> SUFFICES ASSUME Ready, BlocksInv, BuildNodes PROVE NodesInv' /\ BlocksInv' /\ Ready'
  OBVIOUS
<1>i. FunctionInv /\ Insts \subseteq Index /\ starts \subseteq Insts /\ ends \subseteq Insts
  BY DEF Ready, FunctionInv, BlocksInv
<1>u. /\ UNCHANGED <<vars, starts, ends>>
      /\ nodes' = [k \in 1 .. NodeCount |-> NewNode(k)]
      /\ member' = [i \in Index |->
           Max({0} \cup {Rank(j) : j \in {j \in starts \cap Insts : i \in Range(Chain[j])}})]
  BY DEF BuildNodes
<1>v. Insts' = Insts /\ entries' = entries /\ log' = log /\ origin' = origin /\ ilog' = ilog /\ Index' = Index
      /\ starts' = starts /\ ends' = ends
  BY <1>u DEF vars, Insts, program, history
<1>1. Ready' /\ BlocksInv'
  <2>1. Ready'
    BY <1>v DEF Ready, ListsInv, FlowInv, FunctionInv, First
  <2>2. \A i, j : Inner(i, j)' <=> Inner(i, j)
    BY <1>v DEF Inner
  <2> QED
    BY <1>v, <2>1, <2>2 DEF BlocksInv
<1>2. ASSUME NEW i \in Insts, NEW a \in starts, i \in Body(a) PROVE member'[i] = Rank(a)
  <2> DEFINE M == {Rank(j) : j \in {j \in starts \cap Insts : i \in Range(Chain[j])}}
  <2>1. {j \in starts \cap Insts : i \in Range(Chain[j])} = {a}
    <3>1. \A j \in starts : i \in Body(j) <=> j = a
      BY <1>2, <1>i, OneBody
    <3> QED
      BY <1>i, <3>1 DEF Body
  <2>2. M = {Rank(a)}
    BY <2>1
  <2>3. member'[i] = Max({0} \cup M)
    BY <1>i, <1>u
  <2> HIDE DEF M
  <2>4. Rank(a) \in Nat /\ Rank(a) > 0
    <3>1. NodeCount \in Nat /\ Rank(a) \in 1 .. NodeCount
      BY <1>i, RanksIs
    <3> QED
      BY <3>1
  <2> DEFINE x == Rank(a)
  <2>5. Max({0, x}) = x
    <3>1. Max({0, x}) = CHOOSE m \in {0, x} : \A y \in {0, x} : m >= y
      BY DEF Max
    <3> HIDE DEF x
    <3>2. x \in Nat /\ x > 0
      BY <2>4 DEF x
    <3>3. x \in {0, x} /\ (\A y \in {0, x} : x >= y)
      BY <3>2
    <3>4. \A m \in {0, x} : (\A y \in {0, x} : m >= y) => m = x
      BY <3>2
    <3> QED
      BY <3>1, <3>3, <3>4
  <2>6. {0} \cup M = {0, x}
    BY <2>2
  <2> QED
    BY <2>3, <2>5, <2>6
<1>3. \A a \in starts : WellMade(a)
  BY <1>i, ChainsMade
<1>4. /\ DOMAIN nodes' = 1 .. NodeCount
      /\ \A k \in 1 .. NodeCount : nodes'[k].first = FirstOf(k) /\ nodes'[k].last = Last(Chain[FirstOf(k)])
      /\ \A k \in 1 .. NodeCount : DOMAIN nodes'[k] = Fields
  <2>1. DOMAIN nodes' = 1 .. NodeCount /\ \A k \in 1 .. NodeCount : nodes'[k] = NewNode(k)
    BY <1>u
  <2>2. \A k : NewNode(k).first = FirstOf(k) /\ NewNode(k).last = Last(Chain[FirstOf(k)])
    BY DEF NewNode
  <2>3. \A k : DOMAIN NewNode(k) = Fields
    BY DEF NewNode, Fields
  <2> QED
    BY <2>1, <2>2, <2>3
<1>5. /\ \A a \in starts : Rank(a) \in 1 .. NodeCount /\ FirstOf(Rank(a)) = a
      /\ \A k \in 1 .. NodeCount : FirstOf(k) \in starts /\ Rank(FirstOf(k)) = k
  BY <1>i, RanksIs
<1>6. ASSUME NEW k \in DOMAIN nodes'
      PROVE  /\ nodes'[k].first \in starts /\ member'[nodes'[k].first] = k
             /\ nodes'[k].last \in ends /\ member'[nodes'[k].last] = k
  <2> DEFINE a == FirstOf(k)
  <2>1. a \in starts /\ a \in Insts /\ Rank(a) = k /\ nodes'[k].first = a /\ nodes'[k].last = Last(Chain[a])
    BY <1>i, <1>4, <1>5, <1>6
  <2> HIDE DEF a
  <2>2. a \in Body(a) /\ Last(Chain[a]) \in Body(a) /\ Last(Chain[a]) \in ends
    BY <1>3, <2>1 DEF WellMade
  <2> QED
    BY <1>2, <1>i, <2>1, <2>2
<1>7. \A i \in Insts : \E a \in starts : i \in Body(a) /\ member'[i] = Rank(a)
  BY <1>2, <1>i, OneBody
<1>8. \A i \in Insts : member'[i] \in DOMAIN nodes'
  BY <1>4, <1>5, <1>7
<1>9. ASSUME NEW i \in starts PROVE nodes'[member'[i]].first = i
  <2>1. i \in Insts /\ i \in Body(i)
    BY <1>3, <1>i DEF WellMade
  <2> QED
    BY <1>2, <1>4, <1>5, <2>1
<1>10. ASSUME NEW i \in ends PROVE nodes'[member'[i]].last = i
  <2>1. PICK a \in starts : i \in Body(a) /\ member'[i] = Rank(a)
    BY <1>i, <1>7
  <2>2. i = Last(Chain[a])
    BY <1>3, <2>1 DEF WellMade
  <2> QED
    BY <1>4, <1>5, <2>1, <2>2
<1>11. ASSUME NEW i \in Insts, NEW j \in Insts, Inner(i, j) PROVE member'[j] = member'[i]
  <2>1. PICK a \in starts : i \in Body(a) /\ member'[i] = Rank(a)
    BY <1>7
  <2>2. j \in Body(a)
    BY <1>3, <1>11, <2>1 DEF WellMade
  <2> QED
    BY <1>2, <2>1, <2>2
<1>12. \A i, j : Inner(i, j)' <=> Inner(i, j)
  BY <1>v DEF Inner
<1>13. NodesInv'
  BY <1>4, <1>v, <1>6, <1>8, <1>9, <1>10, <1>11, <1>12 DEF NodesInv
<1> QED
  BY <1>1, <1>13

\* The passes behind leave the log, the marks and the entries of the nodes alone.
LEMMA NodesKept ==
  ASSUME Ready, BlocksInv, NodesInv, UNCHANGED <<vars, starts, ends, member>>,
         DOMAIN nodes' = DOMAIN nodes,
         \A k \in DOMAIN nodes : /\ nodes'[k].first = nodes[k].first /\ nodes'[k].last = nodes[k].last
                                 /\ DOMAIN nodes'[k] = DOMAIN nodes[k]
  PROVE  Ready' /\ BlocksInv' /\ NodesInv'
<1>v. Insts' = Insts /\ entries' = entries /\ log' = log /\ origin' = origin /\ ilog' = ilog /\ Index' = Index
      /\ starts' = starts /\ ends' = ends /\ member' = member
  BY DEF vars, Insts, program, history
<1>1. Ready' /\ BlocksInv'
  <2>1. Ready'
    BY <1>v DEF Ready, ListsInv, FlowInv, FunctionInv, First
  <2>2. \A i, j : Inner(i, j)' <=> Inner(i, j)
    BY <1>v DEF Inner
  <2> QED
    BY <1>v, <2>1, <2>2 DEF BlocksInv
<1>2. \A i, j : Inner(i, j)' <=> Inner(i, j)
  BY <1>v DEF Inner
<1>3. NodesInv'
  <2>1. starts \subseteq Insts /\ ends \subseteq Insts
    BY DEF BlocksInv
  <2> QED
    BY <1>v, <1>2, <2>1 DEF NodesInv
<1> QED
  BY <1>1, <1>3

\* These are the basic blocks.
LEMMA AreBlocks ==
  ASSUME Ready, BlocksInv, NodesInv, NEW k \in DOMAIN nodes
  PROVE  IsBlock(k) /\ IsMaximal(k)
<1>i. /\ FunctionInv /\ nodes[k].first \in Insts /\ member[nodes[k].first] = k
      /\ nodes[k].last \in ends /\ nodes[k].last \in Insts /\ member[nodes[k].last] = k
  BY DEF Ready, BlocksInv, NodesInv
<1>1. ASSUME NEW i \in Insts, member[i] = k, i # nodes[k].last
      PROVE  \E j \in Insts : member[j] = k /\ log[i].next = <<j>> /\ log[j].prev = <<i>>
  <2>1. i \notin ends
    BY <1>1 DEF NodesInv
  <2>2. PICK j \in Insts : Inner(i, j)
    BY <2>1 DEF BlocksInv
  <2>3. member[j] = k
    BY <1>1, <2>2 DEF NodesInv
  <2> QED
    BY <2>2, <2>3 DEF Inner
<1>2. IsBlock(k)
  BY <1>i, <1>1 DEF IsBlock
<1>3. IsMaximal(k)
  BY <1>i DEF IsMaximal, BlocksInv
<1> QED
  BY <1>2, <1>3

-----------------------------------------------------------------------------
(* The passes one after the other *)

PassInv ==
  /\ stage \notin {"tidy", "mark"} => BlocksInv
  /\ stage \notin {"tidy", "mark", "build"} => NodesInv

LEMMA PassInit == CfgInit => PassInv
BY DEF CfgInit, PassInv

\* What the passes change of a node.
LEMMA LinkedIs ==
  ASSUME NodesInv, LinkNodes
  PROVE  /\ nodes' = [k \in DOMAIN nodes |-> nodes'[k]]
         /\ \A k \in DOMAIN nodes :
              /\ DOMAIN nodes'[k] = Fields
              /\ nodes'[k].first = nodes[k].first /\ nodes'[k].last = nodes[k].last
              /\ nodes'[k].index = nodes[k].index
              /\ nodes'[k].prev = [m \in DOMAIN log[nodes[k].first].prev |-> FindNode[log[nodes[k].first].prev[m]]]
              /\ nodes'[k].next = [m \in DOMAIN log[nodes[k].last].next |-> FindNode[log[nodes[k].last].next[m]]]
<1> DEFINE before(k) == [m \in DOMAIN log[nodes[k].first].prev |-> FindNode[log[nodes[k].first].prev[m]]]
           after(k) == [m \in DOMAIN log[nodes[k].last].next |-> FindNode[log[nodes[k].last].next[m]]]
           linked == [k \in DOMAIN nodes |-> [nodes[k] EXCEPT !.prev = before(k), !.next = after(k)]]
<1>1. \A k \in DOMAIN nodes : DOMAIN nodes[k] = Fields
  BY DEF NodesInv
<1>2. nodes' = linked
  BY Zenon DEF LinkNodes
<1> SUFFICES /\ nodes' = [k \in DOMAIN nodes |-> nodes'[k]]
             /\ \A k \in DOMAIN nodes :
                  /\ DOMAIN nodes'[k] = Fields
                  /\ nodes'[k].first = nodes[k].first /\ nodes'[k].last = nodes[k].last
                  /\ nodes'[k].index = nodes[k].index
                  /\ nodes'[k].prev = before(k) /\ nodes'[k].next = after(k)
  OBVIOUS
<1> HIDE DEF before, after
<1>3. nodes' = [k \in DOMAIN nodes |-> nodes'[k]]
      /\ \A k \in DOMAIN nodes : nodes'[k] = [nodes[k] EXCEPT !.prev = before(k), !.next = after(k)]
  BY <1>2
<1> HIDE DEF linked
<1>4. ASSUME NEW k \in DOMAIN nodes
      PROVE  /\ DOMAIN nodes'[k] = Fields
             /\ nodes'[k].first = nodes[k].first /\ nodes'[k].last = nodes[k].last
             /\ nodes'[k].index = nodes[k].index
             /\ nodes'[k].prev = before(k) /\ nodes'[k].next = after(k)
  <2>1. nodes'[k] = [nodes[k] EXCEPT !.prev = before(k), !.next = after(k)]
    BY <1>3
  <2>2. DOMAIN nodes[k] = Fields
    BY <1>1
  <2> QED
    BY <2>1, <2>2 DEF Fields
<1> QED
  BY <1>3, <1>4

LEMMA IndexedIs ==
  ASSUME NodesInv, IndexLinks
  PROVE  /\ nodes' = [k \in DOMAIN nodes |-> nodes'[k]]
         /\ \A k \in DOMAIN nodes :
              /\ DOMAIN nodes'[k] = Fields
              /\ nodes'[k].first = nodes[k].first /\ nodes'[k].last = nodes[k].last
              /\ nodes'[k].prev = nodes[k].prev /\ nodes'[k].next = nodes[k].next
              /\ nodes'[k].index = [l \in DOMAIN nodes[k].prev |-> Max({1} \cup LinksTo(nodes[k].prev[l], k))]
<1> DEFINE ix(k) == [l \in DOMAIN nodes[k].prev |-> Max({1} \cup LinksTo(nodes[k].prev[l], k))]
<1>1. \A k \in DOMAIN nodes : DOMAIN nodes[k] = Fields
  BY DEF NodesInv
<1>2. nodes' = [k \in DOMAIN nodes |-> [nodes[k] EXCEPT !.index = ix(k)]]
  BY DEF IndexLinks
<1> SUFFICES /\ nodes' = [k \in DOMAIN nodes |-> nodes'[k]]
             /\ \A k \in DOMAIN nodes :
                  /\ DOMAIN nodes'[k] = Fields
                  /\ nodes'[k].first = nodes[k].first /\ nodes'[k].last = nodes[k].last
                  /\ nodes'[k].prev = nodes[k].prev /\ nodes'[k].next = nodes[k].next
                  /\ nodes'[k].index = ix(k)
  OBVIOUS
<1> HIDE DEF ix
<1> QED
  BY <1>1, <1>2 DEF Fields

LEMMA RenamedIs ==
  ASSUME NodesInv, EndMembers
  PROVE  /\ nodes' = [k \in DOMAIN nodes |-> nodes'[k]]
         /\ \A k \in DOMAIN nodes :
              /\ DOMAIN nodes'[k] = Fields
              /\ nodes'[k].first = nodes[k].first /\ nodes'[k].last = nodes[k].last
              /\ nodes'[k].index = nodes[k].index
              /\ k \notin Numbered => nodes'[k] = nodes[k]
              /\ k \in Numbered => /\ nodes'[k].prev = Renumbered(nodes[k].prev)
                                   /\ nodes'[k].next = Renumbered(nodes[k].next)
<1> DEFINE before(k) == Renumbered(nodes[k].prev)
           after(k) == Renumbered(nodes[k].next)
           renamed(k) == [nodes[k] EXCEPT !.prev = Renumbered(@), !.next = Renumbered(@)]
<1>1. \A k \in DOMAIN nodes : DOMAIN nodes[k] = Fields
  BY DEF NodesInv
<1>2. \A k \in DOMAIN nodes : renamed(k) = [nodes[k] EXCEPT !.prev = before(k), !.next = after(k)]
  BY <1>1, Zenon DEF Fields
<1>3. nodes' = [k \in DOMAIN nodes |-> IF k \notin Numbered THEN nodes[k] ELSE renamed(k)]
  BY Zenon DEF EndMembers
<1> SUFFICES /\ nodes' = [k \in DOMAIN nodes |-> nodes'[k]]
             /\ \A k \in DOMAIN nodes :
                  /\ DOMAIN nodes'[k] = Fields
                  /\ nodes'[k].first = nodes[k].first /\ nodes'[k].last = nodes[k].last
                  /\ nodes'[k].index = nodes[k].index
                  /\ k \notin Numbered => nodes'[k] = nodes[k]
                  /\ k \in Numbered => nodes'[k].prev = before(k) /\ nodes'[k].next = after(k)
  OBVIOUS
<1> HIDE DEF before, after, renamed
<1>4. nodes' = [k \in DOMAIN nodes |-> nodes'[k]]
      /\ \A k \in DOMAIN nodes : nodes'[k] = IF k \notin Numbered THEN nodes[k] ELSE renamed(k)
  BY <1>3
<1>5. ASSUME NEW k \in DOMAIN nodes
      PROVE  /\ DOMAIN nodes'[k] = Fields
             /\ nodes'[k].first = nodes[k].first /\ nodes'[k].last = nodes[k].last
             /\ nodes'[k].index = nodes[k].index
             /\ k \notin Numbered => nodes'[k] = nodes[k]
             /\ k \in Numbered => nodes'[k].prev = before(k) /\ nodes'[k].next = after(k)
  <2>1. nodes'[k] = IF k \notin Numbered THEN nodes[k] ELSE [nodes[k] EXCEPT !.prev = before(k), !.next = after(k)]
    BY <1>2, <1>4
  <2>2. DOMAIN nodes[k] = Fields
    BY <1>1
  <2> QED
    BY <2>1, <2>2 DEF Fields
<1> QED
  BY <1>4, <1>5

\* None of them changes which entries make a node, or how many there are.
LEMMA LinkKept ==
  ASSUME NodesInv, LinkNodes \/ IndexLinks \/ EndMembers
  PROVE  /\ DOMAIN nodes' = DOMAIN nodes
         /\ nodes' = [k \in DOMAIN nodes |-> nodes'[k]]
         /\ \A k \in DOMAIN nodes : /\ nodes'[k].first = nodes[k].first /\ nodes'[k].last = nodes[k].last
                                    /\ DOMAIN nodes'[k] = DOMAIN nodes[k]
<1>1. \A k \in DOMAIN nodes : DOMAIN nodes[k] = Fields
  BY DEF NodesInv
<1>2. nodes' = [k \in DOMAIN nodes |-> nodes'[k]]
      /\ \A k \in DOMAIN nodes : /\ nodes'[k].first = nodes[k].first /\ nodes'[k].last = nodes[k].last
                                 /\ DOMAIN nodes'[k] = Fields
  BY LinkedIs, IndexedIs, RenamedIs
<1> QED
  BY <1>1, <1>2

LEMMA PassStep == TidyInv /\ PassInv /\ NoRings /\ [CfgNext]_allvars => PassInv'
<1> SUFFICES ASSUME TidyInv, PassInv, NoRings, [CfgNext]_allvars PROVE PassInv'
  OBVIOUS
<1>1. CASE Step /\ UNCHANGED cfgvars
  <2>1. stage' = stage /\ stage = "tidy"
    BY <1>1, StepEnds DEF TidyInv, cfgvars
  <2> QED
    BY <2>1 DEF PassInv
<1>2. CASE TidyLog
  BY <1>2 DEF TidyLog, PassInv
<1>3. CASE MarkNodes
  <2>1. stage = "mark" /\ stage' = "build"
    BY <1>3 DEF MarkNodes, At
  <2> QED
    BY <1>3, <2>1, MarkStep DEF PassInv, TidyInv
<1>4. CASE BuildNodes
  <2>1. stage = "build" /\ stage' = "link"
    BY <1>4 DEF BuildNodes, At
  <2> QED
    BY <1>4, <2>1, BuildStep DEF PassInv, TidyInv
<1>5. CASE LinkNodes \/ IndexLinks \/ EndMembers
  <2>1. /\ stage \in {"link", "index", "collect"} /\ stage' \in {"index", "start", "members"}
        /\ UNCHANGED <<vars, starts, ends, member>>
    BY <1>5 DEF LinkNodes, IndexLinks, EndMembers, At
  <2>2. BlocksInv' /\ NodesInv'
    BY <1>5, <2>1, LinkKept, NodesKept DEF PassInv, TidyInv
  <2> QED
    BY <2>1, <2>2 DEF PassInv
<1>6. ASSUME UNCHANGED <<vars, starts, ends, member, nodes>>,
             stage \notin {"tidy", "mark", "build"} /\ stage' \notin {"tidy", "mark", "build"}
      PROVE  PassInv'
  <2>1. BlocksInv' /\ NodesInv'
    BY <1>6, NodesKept DEF PassInv, TidyInv
  <2> QED
    BY <1>6, <2>1 DEF PassInv
<1>7. CASE WalkBack \/ Found \/ BeginMembers \/ CollectNode \/ CfgDone
  BY <1>6, <1>7 DEF WalkBack, Found, BeginMembers, CollectNode, CfgDone, At
<1>8. CASE UNCHANGED allvars
  <2>1. /\ stage' = stage /\ Insts' = Insts /\ entries' = entries /\ log' = log /\ origin' = origin
        /\ starts' = starts /\ ends' = ends /\ member' = member /\ nodes' = nodes
    BY <1>8 DEF allvars, vars, cfgvars, Insts, program, history
  <2>2. \A i, j : Inner(i, j)' <=> Inner(i, j)
    BY <2>1 DEF Inner
  <2>3. BlocksInv' <=> BlocksInv
    BY <2>1, <2>2 DEF BlocksInv
  <2>4. NodesInv' <=> NodesInv
    BY <2>1, <2>2 DEF NodesInv
  <2> QED
    BY <2>1, <2>3, <2>4 DEF PassInv
<1> QED
  BY <1>1, <1>2, <1>3, <1>4, <1>5, <1>7, <1>8 DEF CfgNext, Work, CfgStep, CfgStopped

\* The nodes are the basic blocks of the log, for every program whose tables are
\* found and whose NOPs are not run into; that lists are tidied without a skip and
\* no function is an endless ring is a condition of NodesPartitionLog itself.
THEOREM NodesAreBlocks ==
  CfgSpec /\ []TablesFound /\ []NopsFirst => NodesPartitionLog
<1>1. CfgSpec /\ []TablesFound /\ []NopsFirst /\ []SparseLists /\ []NoRings => [](TidyInv /\ PassInv)
  BY TidyInit, TidyStep, PassInit, PassStep, PTL DEF CfgSpec
<1>2. TidyInv /\ PassInv => NodesAreBasic
  <2> SUFFICES ASSUME TidyInv, PassInv PROVE NodesAreBasic
    OBVIOUS
  <2>1. Tidy => Ready
    BY DEF TidyInv, Tidy, Before
  <2>2. Built => Ready /\ BlocksInv /\ NodesInv
    BY DEF TidyInv, PassInv, Built, Tidy, Before
  <2>3. Built => \A k \in DOMAIN nodes : IsBlock(k) /\ IsMaximal(k)
    BY <2>2, AreBlocks
  <2>4. Built => \A i \in Insts : member[i] \in DOMAIN nodes
    BY <2>2 DEF NodesInv
  <2> QED
    BY <2>1, <2>3, <2>4, ReadyTidy DEF NodesAreBasic
<1> QED
  BY <1>1, <1>2, PTL DEF NodesPartitionLog

-----------------------------------------------------------------------------
(* The start nodes *)

\* A function whose head leads is no ring.
LEMMA HeadsNoRings == Ready /\ HeadsLead => NoRings
<1> SUFFICES ASSUME Ready, HeadsLead, At("mark"), NEW f \in 1 .. Len(entries)
             PROVE  \E i \in Insts : origin[i][1] = f /\ (Len(log[i].next) # 1 \/ Len(log[i].prev) # 1)
  BY DEF NoRings
<1> DEFINE h == FirstInst(f)  p == log[h].prev[1]
<1>1. h \in Insts /\ origin[h][1] = f
  BY FirstIs DEF Ready
<1>2. log[h].prev \in Seq(Insts)
  BY <1>1 DEF Ready, ListsInv
<1>3. CASE Len(log[h].prev) # 1
  BY <1>1, <1>3
<1>4. CASE Len(log[h].prev) = 1
  <2>1. p \in Insts /\ Holds(log[h].prev, p)
    BY <1>2, <1>4, OneIs
  <2>2. Len(log[p].next) # 1
    BY <1>4 DEF HeadsLead
  <2> HIDE DEF p
  <2>3. origin[p][1] = f
    BY <1>1, <2>1 DEF Ready, ListsInv, FlowInv
  <2> QED
    BY <2>1, <2>2, <2>3
<1> QED
  BY <1>3, <1>4

HeadsStart == \A f \in 1 .. Len(entries) : FirstInst(f) \in starts

LEMMA MarkHeads == Ready /\ HeadsLead /\ MarkNodes => HeadsStart'
<1> SUFFICES ASSUME Ready, HeadsLead, MarkNodes PROVE HeadsStart'
  OBVIOUS
<1>a. entries' = entries /\ \A f : FirstInst(f)' = FirstInst(f)
  BY DEF MarkNodes, vars, program, history, FirstInst, Insts
<1> SUFFICES ASSUME NEW f \in 1 .. Len(entries) PROVE FirstInst(f) \in starts'
  BY <1>a DEF HeadsStart
<1> DEFINE h == FirstInst(f)  p == log[h].prev[1]
<1>1. h \in Insts /\ log[h].prev \in Seq(Insts)
  BY FirstIs DEF Ready, ListsInv
<1>2. Joins \cup (UNION {Range(log[i].next) : i \in Forks}) \subseteq starts'
  BY DEF MarkNodes
<1>3. CASE Len(log[h].prev) # 1
  BY <1>1, <1>2, <1>3 DEF Joins
<1>4. CASE Len(log[h].prev) = 1
  <2>1. p \in Insts /\ Holds(log[h].prev, p)
    BY <1>1, <1>4, OneIs
  <2>2. Len(log[p].next) # 1
    BY <1>4 DEF HeadsLead, MarkNodes
  <2> HIDE DEF p, h
  <2>3. Holds(log[p].next, h) /\ log[p].next \in Seq(Insts)
    BY <1>1, <2>1 DEF Ready, ListsInv
  <2>4. h \in Range(log[p].next) /\ p \in Forks
    BY <2>1, <2>2, <2>3, HoldsRange DEF Forks
  <2>5. h \in starts'
    BY <1>2, <2>4
  <2> QED
    BY <2>5 DEF h
<1> QED
  BY <1>3, <1>4

\* One start node after the other, found by walking back in the node of the first
\* instruction; a log without functions has none.
StartInv ==
  /\ stage \in {"tidy", "mark", "build", "link", "index"} => startNode = <<>> /\ fi = 1
  /\ stage \notin {"tidy", "mark", "build"} =>
       /\ startNode \in Seq(DOMAIN nodes)
       /\ \A f \in 1 .. Len(startNode) : f \in 1 .. Len(entries) /\ startNode[f] = member[FirstInst(f)]
  /\ stage = "start" /\ Insts # {} =>
       /\ fi \in 1 .. Len(entries) /\ Len(startNode) = fi - 1
       /\ at \in Insts /\ member[at] = member[FirstInst(fi)]
  /\ stage \in {"members", "collect", "paths", "failed"} =>
       /\ Len(startNode) = Len(entries) /\ fi \in 1 .. Len(entries) + 1
       /\ stage = "collect" => fi \in 1 .. Len(entries)

LEMMA StartInit == CfgInit => StartInv
BY DEF CfgInit, StartInv

LEMMA FoundStep == ASSUME TidyInv, PassInv, StartInv, Found PROVE StartInv'
<1>1. stage = "start" /\ at \in starts /\ startNode' = Append(startNode, member[at])
      /\ UNCHANGED <<vars, starts, ends, member, nodes>>
  BY DEF Found, At
<1>2. Ready /\ BlocksInv /\ NodesInv
  BY <1>1 DEF TidyInv, PassInv
<1>3. fi \in 1 .. Len(entries) /\ Len(startNode) = fi - 1
      /\ at \in Insts /\ member[at] = member[FirstInst(fi)]
      /\ startNode \in Seq(DOMAIN nodes)
      /\ \A f \in 1 .. Len(startNode) : f \in 1 .. Len(entries) /\ startNode[f] = member[FirstInst(f)]
  BY <1>1, <1>2 DEF StartInv, BlocksInv
<1>4. member[at] \in DOMAIN nodes
  BY <1>1, <1>2 DEF BlocksInv, NodesInv
<1> DEFINE s == startNode  k == member[at]
<1>5. /\ Append(s, k) \in Seq(DOMAIN nodes) /\ Len(Append(s, k)) = Len(s) + 1
      /\ Len(s) \in Nat
      /\ \A f \in 1 .. Len(s) : Append(s, k)[f] = s[f]
      /\ Append(s, k)[Len(s) + 1] = k
  BY <1>3, <1>4, AppendProperties, LenProperties
<1>6. Len(entries) \in Nat /\ Len(startNode') = fi /\ fi \in Nat
  BY <1>1, <1>3, <1>5
<1>7. \A f \in 1 .. Len(startNode') : f \in 1 .. Len(entries) /\ startNode'[f] = member[FirstInst(f)]
  <2> SUFFICES ASSUME NEW f \in 1 .. fi PROVE f \in 1 .. Len(entries) /\ startNode'[f] = member[FirstInst(f)]
    BY <1>6
  <2>1. CASE f = fi
    BY <1>1, <1>3, <1>5, <2>1
  <2>2. CASE f # fi
    <3>1. f \in 1 .. Len(s)
      BY <1>3, <1>6, <2>2
    <3> QED
      BY <1>1, <1>3, <1>5, <3>1
  <2> QED
    BY <2>1, <2>2
<1>8. entries' = entries /\ Insts' = Insts /\ \A f : FirstInst(f)' = FirstInst(f)
  BY <1>1 DEF vars, program, history, FirstInst, Insts
<1>10. CASE fi < Len(entries)
  <2>1. stage' = "start" /\ fi' = fi + 1 /\ at' = FirstInst(fi + 1)
    BY <1>1, <1>10 DEF Found
  <2>2. fi + 1 \in 1 .. Len(entries) /\ FirstInst(fi + 1) \in Insts
    BY <1>2, <1>6, <1>10, FirstIs DEF Ready
  <2> QED
    BY <1>1, <1>3, <1>5, <1>6, <1>7, <1>8, <1>10, <2>1, <2>2 DEF StartInv
<1>11. CASE ~(fi < Len(entries))
  <2>1. stage' = "members" /\ fi' = 1
    BY <1>11 DEF Found
  <2>2. Len(startNode') = Len(entries)
    BY <1>3, <1>6, <1>11
  <2> QED
    BY <1>1, <1>3, <1>5, <1>6, <1>7, <1>8, <2>1, <2>2 DEF StartInv
<1> QED
  BY <1>10, <1>11

LEMMA StartKept ==
  ASSUME StartInv, UNCHANGED <<vars, starts, member, startNode>>, DOMAIN nodes' = DOMAIN nodes,
         \/ stage' = stage /\ fi' = fi /\ (at' = at \/ (stage = "start" /\ Insts = {}))
         \/ /\ stage \in {"members", "collect"} /\ stage' \in {"members", "collect", "paths", "failed"}
            /\ \/ fi' = fi /\ (stage' = "collect" /\ stage = "members" => fi <= Len(entries))
               \/ fi' = fi + 1 /\ stage = "collect" /\ stage' = "members"
  PROVE  StartInv'
<1>1. entries' = entries /\ Insts' = Insts /\ \A f : FirstInst(f)' = FirstInst(f)
  BY DEF vars, program, history, FirstInst, Insts
<1> QED
  BY <1>1 DEF StartInv

LEMMA StartStep ==
  TidyInv /\ PassInv /\ StartInv /\ [CfgNext]_allvars => StartInv'
<1> SUFFICES ASSUME TidyInv, PassInv, StartInv, [CfgNext]_allvars PROVE StartInv'
  OBVIOUS
<1>1. CASE Step /\ UNCHANGED cfgvars
  <2>1. stage = "tidy"
    BY <1>1, StepEnds DEF TidyInv
  <2> QED
    BY <1>1, <2>1 DEF StartInv, cfgvars
<1>2. CASE TidyLog
  BY <1>2 DEF TidyLog, StartInv, At
<1>3. CASE MarkNodes
  BY <1>3 DEF MarkNodes, StartInv, At
<1>4. CASE BuildNodes
  <2>1. stage = "build" /\ stage' = "link" /\ UNCHANGED <<startNode, fi>>
    BY <1>4 DEF BuildNodes, At
  <2>2. startNode = <<>> /\ fi = 1
    BY <2>1 DEF StartInv
  <2>3. startNode' \in Seq(DOMAIN nodes') /\ Len(startNode') = 0
    BY <2>1, <2>2
  <2> QED
    BY <2>1, <2>2, <2>3 DEF StartInv
<1>5. CASE LinkNodes
  <2>1. /\ stage = "link" /\ stage' = "index" /\ NodesInv
        /\ UNCHANGED <<vars, starts, member, startNode, fi, at>>
    BY <1>5 DEF LinkNodes, At, PassInv
  <2>2. DOMAIN nodes' = DOMAIN nodes
    BY <1>5, <2>1, LinkKept
  <2>3. entries' = entries /\ \A f : FirstInst(f)' = FirstInst(f)
    BY <2>1 DEF vars, program, history, FirstInst, Insts
  <2> QED
    BY <2>1, <2>2, <2>3 DEF StartInv
<1>6. CASE IndexLinks
  <2>1. /\ stage = "index" /\ stage' = "start" /\ NodesInv /\ BlocksInv /\ Ready /\ at' = FirstInst(1)
        /\ UNCHANGED <<vars, starts, member, startNode, fi>>
    BY <1>6 DEF IndexLinks, At, PassInv, TidyInv
  <2>2. DOMAIN nodes' = DOMAIN nodes
    BY <1>6, <2>1, LinkKept
  <2>3. entries' = entries /\ Insts' = Insts /\ \A f : FirstInst(f)' = FirstInst(f)
    BY <2>1 DEF vars, program, history, FirstInst, Insts
  <2>4. fi = 1 /\ startNode = <<>> /\ Len(startNode) = 0
    BY <2>1 DEF StartInv
  <2>5. Insts # {} => 1 \in 1 .. Len(entries) /\ FirstInst(1) \in Insts
    BY <2>1, FirstIs DEF Ready, FunctionInv
  <2> QED
    BY <2>1, <2>2, <2>3, <2>4, <2>5 DEF StartInv
<1>7. CASE WalkBack
  <2>1. /\ stage = "start" /\ stage' = "start" /\ at \notin starts /\ at' = log[at].prev[1]
        /\ UNCHANGED <<vars, starts, member, startNode, fi, nodes>> /\ BlocksInv /\ NodesInv
    BY <1>7 DEF WalkBack, At, PassInv
  <2>2. CASE Insts = {}
    BY <2>1, <2>2, StartKept
  <2>3. CASE Insts # {}
    <3>1. at \in Insts /\ member[at] = member[FirstInst(fi)]
      BY <2>1, <2>3 DEF StartInv
    <3>2. PICK p \in Insts : Inner(p, at)
      BY <2>1, <3>1 DEF BlocksInv
    <3>3. at' = p
      <4>1. log[at].prev = <<p>>
        BY <3>2 DEF Inner
      <4> QED
        BY <2>1, <4>1
    <3>4. member[p] = member[at]
      BY <2>1, <3>1, <3>2 DEF NodesInv
    <3>5. entries' = entries /\ Insts' = Insts /\ \A f : FirstInst(f)' = FirstInst(f)
      BY <2>1 DEF vars, program, history, FirstInst, Insts
    <3> QED
      BY <2>1, <2>3, <3>1, <3>3, <3>4, <3>5 DEF StartInv
  <2> QED
    BY <2>2, <2>3
<1>8. CASE Found
  BY <1>8, FoundStep
<1>9. CASE BeginMembers \/ CollectNode
  <2>1. /\ stage \in {"members", "collect"} /\ stage' \in {"collect", "failed"}
        /\ stage = "members" => fi <= Len(entries)
        /\ UNCHANGED <<vars, starts, member, startNode, fi, nodes>>
    BY <1>9 DEF BeginMembers, CollectNode, At
  <2> QED
    BY <2>1, StartKept
<1>10. CASE EndMembers
  <2>1. /\ stage = "collect" /\ stage' = "members" /\ fi' = fi + 1 /\ NodesInv
        /\ UNCHANGED <<vars, starts, member, startNode>>
    BY <1>10 DEF EndMembers, At, PassInv
  <2>2. DOMAIN nodes' = DOMAIN nodes
    BY <1>10, <2>1, LinkKept
  <2>3. fi \in 1 .. Len(entries)
    BY <2>1 DEF StartInv
  <2> QED
    BY <2>1, <2>2, <2>3, StartKept
<1>11. CASE CfgDone
  <2>1. /\ stage = "members" /\ stage' = "paths"
        /\ UNCHANGED <<vars, starts, member, startNode, fi, nodes>>
    BY <1>11 DEF CfgDone, At
  <2> QED
    BY <2>1, StartKept
<1>12. CASE UNCHANGED allvars
  BY <1>12, StartKept DEF allvars, vars, cfgvars
<1> QED
  BY <1>1, <1>2, <1>3, <1>4, <1>5, <1>6, <1>7, <1>8, <1>9, <1>10, <1>11, <1>12
     DEF CfgNext, Work, CfgStep, CfgStopped

\* With such heads the walk back from the first instruction ends where it begins.
HeadInv == stage \notin {"tidy", "mark"} => HeadsStart

LEMMA HeadStep == TidyInv /\ HeadInv /\ HeadsLead /\ [CfgNext]_allvars => HeadInv'
<1> SUFFICES ASSUME TidyInv, HeadInv, HeadsLead, [CfgNext]_allvars PROVE HeadInv'
  OBVIOUS
<1>1. CASE Step /\ UNCHANGED cfgvars
  <2>1. stage = "tidy"
    BY <1>1, StepEnds DEF TidyInv
  <2> QED
    BY <1>1, <2>1 DEF HeadInv, cfgvars
<1>2. CASE TidyLog
  BY <1>2 DEF TidyLog, HeadInv
<1>3. CASE MarkNodes
  <2>1. stage = "mark"
    BY <1>3 DEF MarkNodes, At
  <2> QED
    BY <1>3, <2>1, MarkHeads DEF TidyInv, HeadInv
<1>4. ASSUME UNCHANGED <<vars, starts>>, stage \in {"tidy", "mark"} <=> stage' \in {"tidy", "mark"}
      PROVE  HeadInv'
  BY <1>4 DEF HeadInv, HeadsStart, vars, program, history, FirstInst, Insts
<1>5. CASE BuildNodes \/ LinkNodes \/ IndexLinks \/ WalkBack \/ Found
  BY <1>4, <1>5 DEF BuildNodes, LinkNodes, IndexLinks, WalkBack, Found, At
<1>6. CASE BeginMembers \/ CollectNode \/ EndMembers \/ CfgDone
  BY <1>4, <1>6 DEF BeginMembers, CollectNode, EndMembers, CfgDone, At
<1>7. CASE UNCHANGED allvars
  BY <1>4, <1>7 DEF allvars, vars, cfgvars
<1> QED
  BY <1>1, <1>2, <1>3, <1>5, <1>6, <1>7 DEF CfgNext, Work, CfgStep, CfgStopped

\* The start node of a function begins with its first instruction, for every program
\* whose tables are found, whose NOPs are not run into and whose lists are tidied
\* without a skip; that functions do not begin inside straight-line code that is
\* jumped back to is a condition of StartRight itself.
THEOREM StartsRight ==
  CfgSpec /\ []TablesFound /\ []NopsFirst /\ []SparseLists => StartRight
<1>1. TidyInv /\ HeadsLead => NoRings
  BY HeadsNoRings DEF TidyInv, NoRings, At
<1>2. CfgInit => HeadInv
  BY DEF CfgInit, HeadInv
<1>3. CfgSpec /\ []TablesFound /\ []NopsFirst /\ []SparseLists /\ []HeadsLead
        => [](TidyInv /\ PassInv /\ StartInv /\ HeadInv)
  BY <1>1, <1>2, TidyInit, TidyStep, PassInit, PassStep, StartInit, StartStep, HeadStep, PTL DEF CfgSpec
<1>4. PassInv /\ StartInv /\ HeadInv => StartsFirst
  <2> SUFFICES ASSUME PassInv, StartInv, HeadInv, NEW f \in DOMAIN startNode
               PROVE nodes[startNode[f]].first = FirstInst(f)
    BY DEF StartsFirst
  <2>1. stage \notin {"tidy", "mark", "build", "link", "index"}
    <3>1. DOMAIN <<>> = {}
      OBVIOUS
    <3> QED
      BY <3>1 DEF StartInv
  <2>2. NodesInv /\ HeadsStart /\ startNode \in Seq(DOMAIN nodes)
        /\ \A g \in 1 .. Len(startNode) : g \in 1 .. Len(entries) /\ startNode[g] = member[FirstInst(g)]
    BY <2>1 DEF PassInv, StartInv, HeadInv
  <2>3. f \in 1 .. Len(startNode)
    BY <2>2, LenProperties
  <2> QED
    BY <2>2, <2>3 DEF NodesInv, HeadsStart
<1> QED
  BY <1>3, <1>4, PTL DEF StartRight

-----------------------------------------------------------------------------
(* The links *)

\* find_node_from_inst finds the node of every entry of the log: the walk back
\* stays in it.
LEMMA FindIs ==
  ASSUME Ready, BlocksInv, NodesInv
  PROVE  \A i \in Insts : FindNode[i] = member[i]
<1> DEFINE P(c) == c = [i \in Index |-> IF i \in starts THEN member[i]
                                        ELSE IF NoWayBack(i) THEN 0 ELSE c[log[i].prev[1]]]
           c == [i \in Index |-> IF i \in Insts THEN member[i] ELSE 0]
<1>i. Insts \subseteq Index /\ Insts \subseteq Nat \ {0} /\ starts \subseteq Insts
  BY DEF Ready, FunctionInv, Insts, BlocksInv
<1>1. ASSUME NEW i \in Insts \ starts
      PROVE  ~NoWayBack(i) /\ log[i].prev[1] \in Insts /\ Inner(log[i].prev[1], i)
  <2>1. PICK p \in Insts : Inner(p, i)
    BY <1>1 DEF BlocksInv
  <2>2. log[i].prev = <<p>>
    BY <2>1 DEF Inner
  <2>3. log[i].prev[1] = p /\ log[i].prev # <<>> /\ p # 0
    BY <1>i, <2>2
  <2> QED
    BY <2>1, <2>3 DEF NoWayBack
<1>2. \A i \in Insts \ starts : member[log[i].prev[1]] = member[i]
  BY <1>1 DEF NodesInv
<1>3. \A i \in Index \ Insts : NoWayBack(i)
  BY DEF Ready, ListsInv, NoWayBack
<1>4. P(c)
  <2>1. \A i \in Index : c[i] = IF i \in starts THEN member[i]
                                 ELSE IF NoWayBack(i) THEN 0 ELSE c[log[i].prev[1]]
    BY <1>i, <1>1, <1>2, <1>3
  <2>2. c = [i \in Index |-> c[i]]
    OBVIOUS
  <2> HIDE DEF c
  <2> QED
    BY <2>1, <2>2
<1> HIDE DEF c
<1>5. FindNode = CHOOSE d : P(d)
  BY DEF FindNode
<1>6. P(FindNode)
  BY <1>4, <1>5
<1>7. \A i \in Insts : FindNode[i] = IF i \in starts THEN member[i]
                                       ELSE IF NoWayBack(i) THEN 0 ELSE FindNode[log[i].prev[1]]
  BY <1>i, <1>6
<1> DEFINE L == {i \in Insts : FindNode[i] # member[i]}
<1> SUFFICES ASSUME L # {} PROVE FALSE
  OBVIOUS
<1>8. PICK i \in L : \A p \in L : ~Inner(p, i)
  <2>1. L \in SUBSET Insts
    OBVIOUS
  <2> HIDE DEF L
  <2> QED
    BY <2>1 DEF BlocksInv
<1>9. i \in Insts \ starts
  BY <1>7, <1>8
<1>10. log[i].prev[1] \in Insts \ L
  BY <1>1, <1>8, <1>9
<1> QED
  BY <1>1, <1>2, <1>7, <1>8, <1>9, <1>10

\* Where control comes to a node from and goes to, by the log, and its function.
Comes(k) == log[nodes[k].first].prev
Goes(k) == log[nodes[k].last].next
Of(k) == origin[nodes[k].first][1]

\* The entries of a node belong to one function.
LEMMA OneFunction ==
  ASSUME Ready, BlocksInv, NodesInv PROVE \A i \in Insts : origin[i][1] = Of(member[i])
<1> DEFINE L == {i \in Insts : origin[i][1] # Of(member[i])}
<1> SUFFICES ASSUME L # {} PROVE FALSE
  OBVIOUS
<1>1. PICK i \in L : \A p \in L : ~Inner(p, i)
  <2>1. L \in SUBSET Insts
    OBVIOUS
  <2> HIDE DEF L
  <2> QED
    BY <2>1 DEF BlocksInv
<1>2. CASE i \in starts
  BY <1>1, <1>2 DEF NodesInv, Of
<1>3. CASE i \notin starts
  <2>1. PICK p \in Insts : Inner(p, i)
    BY <1>1, <1>3 DEF BlocksInv
  <2>2. p \notin L /\ member[p] = member[i]
    BY <1>1, <2>1 DEF NodesInv
  <2>3. origin[i][1] = origin[p][1]
    <3>1. log[p].next = <<i>> /\ Holds(<<i>>, i)
      BY <2>1 DEF Inner, Holds
    <3> QED
      BY <1>1, <2>1, <3>1 DEF Ready, FlowInv
  <2> QED
    BY <1>1, <2>1, <2>2, <2>3
<1> QED
  BY <1>2, <1>3

\* Control goes from the end of a node to the beginning of others.
LEMMA EndsMeet ==
  ASSUME Ready, BlocksInv, NodesInv, NEW k \in DOMAIN nodes
  PROVE  /\ Goes(k) \in Seq(Insts) /\ Comes(k) \in Seq(Insts) /\ Of(k) \in 1 .. Len(entries)
         /\ \A m \in 1 .. Len(Goes(k)) :
              /\ Goes(k)[m] \in Insts /\ member[Goes(k)[m]] \in DOMAIN nodes
              /\ nodes[member[Goes(k)[m]]].first = Goes(k)[m]
              /\ Of(member[Goes(k)[m]]) = Of(k)
         /\ \A m \in 1 .. Len(Comes(k)) :
              /\ Comes(k)[m] \in Insts /\ member[Comes(k)[m]] \in DOMAIN nodes
              /\ nodes[member[Comes(k)[m]]].last = Comes(k)[m]
              /\ Of(member[Comes(k)[m]]) = Of(k)
              /\ Holds(log[Comes(k)[m]].next, nodes[k].first)
<1> DEFINE a == nodes[k].first  b == nodes[k].last
<1>1. a \in Insts /\ a \in starts /\ b \in Insts /\ b \in ends /\ member[a] = k /\ member[b] = k
  BY DEF NodesInv, BlocksInv
<1>2. log[b].next \in Seq(Insts) /\ log[a].prev \in Seq(Insts)
  BY <1>1 DEF Ready, ListsInv
<1>3. Of(k) \in 1 .. Len(entries) /\ origin[a][1] = Of(k) /\ origin[b][1] = Of(k)
  BY <1>1, OneFunction DEF Of, Ready, FunctionInv
<1>4. ASSUME NEW m \in 1 .. Len(log[b].next)
      PROVE  /\ log[b].next[m] \in Insts /\ member[log[b].next[m]] \in DOMAIN nodes
             /\ nodes[member[log[b].next[m]]].first = log[b].next[m]
             /\ Of(member[log[b].next[m]]) = Of(k)
  <2> DEFINE j == log[b].next[m]
  <2>1. j \in Insts /\ Holds(log[b].next, j)
    BY <1>2, <1>4, ElementOfSeq DEF Holds
  <2> HIDE DEF j, b
  <2>2. j \in starts
    BY <1>1, <2>1 DEF BlocksInv
  <2>3. origin[j][1] = Of(k)
    BY <1>1, <1>3, <2>1 DEF Ready, FlowInv
  <2>4. Of(member[j]) = Of(k)
    BY <2>1, <2>3, OneFunction
  <2> QED
    BY <2>1, <2>2, <2>4 DEF NodesInv, j
<1>5. ASSUME NEW m \in 1 .. Len(log[a].prev)
      PROVE  /\ log[a].prev[m] \in Insts /\ member[log[a].prev[m]] \in DOMAIN nodes
             /\ nodes[member[log[a].prev[m]]].last = log[a].prev[m]
             /\ Of(member[log[a].prev[m]]) = Of(k)
             /\ Holds(log[log[a].prev[m]].next, a)
  <2> DEFINE p == log[a].prev[m]
  <2>1. p \in Insts /\ Holds(log[a].prev, p)
    BY <1>2, <1>5, ElementOfSeq DEF Holds
  <2> HIDE DEF p, a
  <2>2. Holds(log[p].next, a)
    BY <1>1, <2>1 DEF Ready, ListsInv
  <2>3. p \in ends
    <3> SUFFICES ASSUME p \notin ends PROVE FALSE
      OBVIOUS
    <3>1. PICK j \in Insts : Inner(p, j)
      BY <2>1 DEF BlocksInv
    <3>2. log[p].next = <<j>> /\ j \notin starts
      BY <3>1 DEF Inner
    <3>3. a = j
      BY <2>2, <3>2 DEF Holds
    <3> QED
      BY <1>1, <3>2, <3>3
  <2>4. origin[p][1] = Of(k)
    BY <1>1, <1>3, <2>1, <2>2 DEF Ready, FlowInv
  <2>5. Of(member[p]) = Of(k)
    BY <2>1, <2>4, OneFunction
  <2> QED
    BY <2>1, <2>2, <2>3, <2>5 DEF NodesInv, p
<1> QED
  BY <1>2, <1>3, <1>4, <1>5 DEF Goes, Comes

\* The links of a node as LinkNodes makes them, and what its indices name.
Leads(k) ==
  /\ nodes[k].next = [m \in 1 .. Len(Goes(k)) |-> member[Goes(k)[m]]]
  /\ nodes[k].prev = [m \in 1 .. Len(Comes(k)) |-> member[Comes(k)[m]]]
Indexed(k) ==
  \A l \in 1 .. Len(Comes(k)) :
    LET next == log[Comes(k)[l]].next IN
    nodes[k].index[l] \in 1 .. Len(next) /\ next[nodes[k].index[l]] = nodes[k].first

IsTable == nodes \in [1 .. NodeCount -> Range(nodes)]

LEMMA TableIs ==
  ASSUME FunctionInv, BlocksInv, IsTable
  PROVE  DOMAIN nodes = 1 .. Len(nodes) /\ Len(nodes) \in Nat
<1>1. NodeCount \in Nat
  BY RanksIs
<1>2. nodes \in Seq(Range(nodes))
  BY <1>1, SeqDef DEF IsTable
<1> QED
  BY <1>2, LenProperties

LEMMA TableKept ==
  ASSUME NodesInv, IsTable, LinkNodes \/ IndexLinks \/ EndMembers PROVE IsTable'
<1>1. UNCHANGED <<vars, starts>>
  BY DEF LinkNodes, IndexLinks, EndMembers
<1>2. NodeCount' = NodeCount
  BY <1>1 DEF NodeCount, Insts, vars, history
<1>3. nodes' = [k \in 1 .. NodeCount |-> nodes'[k]]
  BY LinkKept DEF IsTable
<1>4. nodes' \in [1 .. NodeCount -> Range(nodes')]
  BY <1>3 DEF Range
<1> QED
  BY <1>2, <1>4 DEF IsTable

\* Every link is found, and every index names the link it is meant to.
LEMMA LinksMade ==
  ASSUME Ready, BlocksInv, NodesInv, LinkNodes PROVE \A k \in DOMAIN nodes : Leads(k)'
<1> SUFFICES ASSUME NEW k \in DOMAIN nodes PROVE Leads(k)'
  OBVIOUS
<1>1. UNCHANGED <<vars, member>>
  BY DEF LinkNodes
<1>2. Goes(k)' = Goes(k) /\ Comes(k)' = Comes(k) /\ member' = member
  BY <1>1, LinkedIs DEF Goes, Comes, vars
<1>3. /\ Goes(k) \in Seq(Insts) /\ Comes(k) \in Seq(Insts)
      /\ \A m \in 1 .. Len(Goes(k)) : Goes(k)[m] \in Insts
      /\ \A m \in 1 .. Len(Comes(k)) : Comes(k)[m] \in Insts
  BY EndsMeet
<1>4. DOMAIN Goes(k) = 1 .. Len(Goes(k)) /\ DOMAIN Comes(k) = 1 .. Len(Comes(k))
  BY <1>3, LenProperties
<1>5. /\ nodes'[k].next = [m \in DOMAIN Goes(k) |-> FindNode[Goes(k)[m]]]
      /\ nodes'[k].prev = [m \in DOMAIN Comes(k) |-> FindNode[Comes(k)[m]]]
  BY LinkedIs DEF Goes, Comes
<1>6. /\ \A m \in 1 .. Len(Goes(k)) : FindNode[Goes(k)[m]] = member[Goes(k)[m]]
      /\ \A m \in 1 .. Len(Comes(k)) : FindNode[Comes(k)[m]] = member[Comes(k)[m]]
  BY <1>3, FindIs
<1>7. /\ nodes'[k].next = [m \in 1 .. Len(Goes(k)) |-> member[Goes(k)[m]]]
      /\ nodes'[k].prev = [m \in 1 .. Len(Comes(k)) |-> member[Comes(k)[m]]]
  BY <1>4, <1>5, <1>6
<1> QED
  BY <1>2, <1>7 DEF Leads

LEMMA IndicesMade ==
  ASSUME Ready, BlocksInv, NodesInv, IsTable, \A k \in DOMAIN nodes : Leads(k), IndexLinks
  PROVE  \A k \in DOMAIN nodes : Leads(k)' /\ Indexed(k)'
<1> SUFFICES ASSUME NEW k \in DOMAIN nodes PROVE Leads(k)' /\ Indexed(k)'
  OBVIOUS
<1>1. UNCHANGED <<vars, member>>
  BY DEF IndexLinks
<1>2. Goes(k)' = Goes(k) /\ Comes(k)' = Comes(k) /\ member' = member /\ log' = log
  BY <1>1, IndexedIs DEF Goes, Comes, vars
<1>3. Leads(k)'
  BY <1>2, IndexedIs DEF Leads
<1>4. ASSUME NEW l \in 1 .. Len(Comes(k))
      PROVE  LET next == log[Comes(k)[l]].next IN
             nodes'[k].index[l] \in 1 .. Len(next) /\ next[nodes'[k].index[l]] = nodes[k].first
  <2> DEFINE p == Comes(k)[l]  q == member[p]  next == log[p].next  T == LinksTo(q, k)
  <2>1. /\ p \in Insts /\ q \in DOMAIN nodes /\ nodes[q].last = p /\ Holds(next, nodes[k].first)
        /\ nodes[k].prev[l] = q /\ DOMAIN nodes[k].prev = 1 .. Len(Comes(k))
    <3>1. p \in Insts /\ q \in DOMAIN nodes /\ nodes[q].last = p /\ Holds(next, nodes[k].first)
      BY <1>4, EndsMeet
    <3>2. nodes[k].prev = [m \in 1 .. Len(Comes(k)) |-> member[Comes(k)[m]]]
      BY DEF Leads
    <3> QED
      BY <1>4, <3>1, <3>2
  <2>2. Goes(q) = next /\ nodes[q].next = [m \in 1 .. Len(next) |-> member[next[m]]]
    BY <2>1 DEF Goes, Leads
  <2>3. PICK a \in 1 .. Len(next) : next[a] = nodes[k].first
    BY <2>1 DEF Holds
  <2>4. q # 0
    BY <2>1, RanksIs DEF IsTable, Ready
  <2>5. member[nodes[k].first] = k
    BY DEF NodesInv
  <2>6. \A m \in 1 .. Len(next) : member[next[m]] = k => m = a
    <3>1. ASSUME NEW m \in 1 .. Len(next), member[next[m]] = k PROVE m = a
      <4>1. nodes[member[next[m]]].first = next[m]
        <5>1. \A e \in 1 .. Len(Goes(q)) : nodes[member[Goes(q)[e]]].first = Goes(q)[e]
          BY <2>1, EndsMeet
        <5> QED
          BY <2>2, <3>1, <5>1
      <4>2. next[m] = next[a]
        BY <2>3, <3>1, <4>1
      <4> QED
        BY <2>1, <2>3, <3>1, <4>2 DEF Ready, ListsInv
    <3> QED
      BY <3>1
  <2>7. T = {a}
    <3>1. T = {m \in DOMAIN nodes[q].next : nodes[q].next[m] = k}
      BY <2>4 DEF LinksTo
    <3> HIDE DEF T, next, q
    <3> QED
      BY <2>2, <2>3, <2>5, <2>6, <3>1
  <2>8. nodes'[k].index[l] = Max({1} \cup T)
    <3>1. nodes'[k].index = [e \in DOMAIN nodes[k].prev |-> Max({1} \cup LinksTo(nodes[k].prev[e], k))]
      BY IndexedIs
    <3> QED
      BY <1>4, <2>1, <3>1
  <2> HIDE DEF T, next, q
  <2>9. Max({1} \cup {a}) = a
    <3>1. Len(next) \in Nat
      <4>1. next \in Seq(Insts)
        BY <2>1 DEF next, Ready, ListsInv
      <4> QED
        BY <4>1, LenProperties
    <3>2. a \in Nat /\ 1 <= a
      BY <2>3, <3>1
    <3>3. Max({1} \cup {a}) = CHOOSE x \in {1} \cup {a} : \A y \in {1} \cup {a} : x >= y
      BY DEF Max
    <3>4. a \in {1} \cup {a} /\ \A y \in {1} \cup {a} : a >= y
      BY <3>2
    <3>5. ASSUME NEW x \in {1} \cup {a}, \A y \in {1} \cup {a} : x >= y PROVE x = a
      BY <3>2, <3>5
    <3> QED
      BY <3>3, <3>4, <3>5
  <2>10. nodes'[k].index[l] = a
    BY <2>7, <2>8, <2>9
  <2> QED
    BY <2>3, <2>10 DEF next
<1>5. Indexed(k)'
  BY <1>2, <1>4, IndexedIs DEF Indexed
<1> QED
  BY <1>3, <1>5

-----------------------------------------------------------------------------
(* The slots of mid_node *)

\* One turn of the loop over the links of a node.
Put(t, ks, ms, m) == IF m \notin ms THEN t ELSE [t EXCEPT ![Min(FreeIn(t))] = ks[m]]

LEMMA PutIs ==
  ASSUME NEW X, NEW ks \in Seq(X), NEW ms, NEW m \in 1 .. Len(ks), NEW t \in [Mid -> {NoNode} \cup X]
  PROVE  Put(t, ks, ms, m) \in [Mid -> {NoNode} \cup X]
<1>1. ks[m] \in X
  BY ElementOfSeq
<1> QED
  BY <1>1 DEF Put

LEMMA PlacedTurns ==
  ASSUME NEW X, NEW slot \in [Mid -> {NoNode} \cup X], NEW ks \in Seq(X), NEW ms
  PROVE  \E f : /\ f[0] = slot /\ \A m \in 1 .. Len(ks) : f[m] = Put(f[m - 1], ks, ms, m)
                /\ Placed(slot, ks, ms) = f[Len(ks)]
<1> DEFINE k == Len(ks)
           S == [Mid -> {NoNode} \cup X]
           P(a) == a = [m \in 0 .. k |-> IF m = 0 THEN slot
                          ELSE IF m \notin ms THEN a[m - 1]
                          ELSE [a[m - 1] EXCEPT ![Min(FreeIn(a[m - 1]))] = ks[m]]]
           G == [q \in (1 .. k) \X S |-> Put(q[2], ks, ms, q[1])]
           to == [m \in 1 .. k |-> m - 1]
<1>1. k \in Nat
  BY LenProperties
<1>2. G \in [(1 .. k) \X S -> S]
  <2>1. \A q \in (1 .. k) \X S : q[1] \in 1 .. Len(ks) /\ q[2] \in S
    OBVIOUS
  <2>2. \A q \in (1 .. k) \X S : Put(q[2], ks, ms, q[1]) \in S
    BY <2>1, PutIs
  <2> QED
    BY <2>2
<1>3. to \in [1 .. k -> Nat] /\ \A m \in 1 .. k : to[m] < m /\ to[m] = m - 1
  BY <1>1
<1>4. \A m \in 1 .. k, t \in S : G[<<m, t>>] = Put(t, ks, ms, m)
  OBVIOUS
<1>5. Placed(slot, ks, ms) = (CHOOSE a : P(a))[k]
  BY DEF Placed
<1> HIDE DEF G, to
<1>6. PICK g \in [0 .. k -> S] : g[0] = slot /\ \A m \in 1 .. k : g[m] = G[<<m, g[to[m]]>>]
  <2>1. slot \in S /\ k \in Nat /\ G \in [(1 .. k) \X S -> S] /\ to \in [1 .. k -> Nat]
    BY <1>1, <1>2, <1>3
  <2>2. \A m \in 1 .. k : to[m] < m
    BY <1>3
  <2> HIDE DEF k, P, S
  <2>3. Computed(S, slot, G, to, k) # {}
    BY <2>1, <2>2, Recursion
  <2> QED
    BY <2>3 DEF Computed
<1>7. \A m \in 1 .. k : g[m] = Put(g[m - 1], ks, ms, m)
  <2> SUFFICES ASSUME NEW m \in 1 .. k PROVE g[m] = Put(g[m - 1], ks, ms, m)
    OBVIOUS
  <2>1. m - 1 \in 0 .. k /\ to[m] = m - 1
    BY <1>1, <1>3
  <2>2. g[m - 1] \in S
    BY <1>6, <2>1
  <2> QED
    BY <1>4, <1>6, <2>1, <2>2
<1>8. P(g)
  <2>1. ASSUME NEW m \in 0 .. k, m # 0
        PROVE  g[m] = IF m \notin ms THEN g[m - 1] ELSE [g[m - 1] EXCEPT ![Min(FreeIn(g[m - 1]))] = ks[m]]
    <3>1. m \in 1 .. k
      BY <1>1, <2>1
    <3> QED
      BY <1>7, <3>1 DEF Put
  <2> HIDE DEF k, S
  <2> QED
    BY <1>6, <2>1
<1> DEFINE f == CHOOSE a : P(a)
<1>9. P(f)
  BY <1>8
<1>10. f[0] = slot /\ \A m \in 1 .. k : f[m] = Put(f[m - 1], ks, ms, m)
  <2>1. f[0] = slot
    <3> HIDE DEF f
    <3>1. 0 \in 0 .. k
      BY <1>1
    <3> QED
      BY <1>9, <3>1
  <2>2. ASSUME NEW m \in 1 .. k PROVE f[m] = Put(f[m - 1], ks, ms, m)
    <3> HIDE DEF f
    <3>1. m \in 0 .. k /\ m # 0
      BY <1>1
    <3> HIDE DEF k
    <3> QED
      BY <1>9, <3>1 DEF Put
  <2> QED
    BY <2>1, <2>2
<1>11. Placed(slot, ks, ms) = f[k]
  BY <1>5
<1> HIDE DEF f
<1> QED
  BY <1>10, <1>11

\* After m turns: the slots hold what they held and the elements at the positions up
\* to m, and as many slots fewer are free.
Filled(X, slot, ks, ms, m, t) ==
  /\ t \in [Mid -> {NoNode} \cup X]
  /\ \A x \in X : (\E a \in Mid : t[a] = x) <=>
                  \/ \E a \in Mid : slot[a] = x
                  \/ \E l \in ms : l <= m /\ ks[l] = x
  /\ Cardinality(FreeIn(t)) + Cardinality({l \in ms : l <= m}) = Cardinality(FreeIn(slot))

LEMMA FreeSlots ==
  ASSUME NEW t
  PROVE  /\ IsFiniteSet(FreeIn(t)) /\ Cardinality(FreeIn(t)) \in Nat
         /\ Cardinality(FreeIn(t)) > 0 => Min(FreeIn(t)) \in FreeIn(t)
<1>1. FreeIn(t) \subseteq 1 .. MidCount /\ IsFiniteSet(1 .. MidCount) /\ FreeIn(t) \in SUBSET Nat
  BY MidAssumption, FS_Interval DEF FreeIn, Mid
<1>2. IsFiniteSet(FreeIn(t))
  BY <1>1, FS_Subset
<1>3. Cardinality(FreeIn(t)) \in Nat
  BY <1>2, FS_CardinalityType
<1>4. ASSUME Cardinality(FreeIn(t)) > 0 PROVE Min(FreeIn(t)) \in FreeIn(t)
  <2>1. FreeIn(t) # {}
    BY <1>4, FS_EmptySet
  <2>2. \E m \in FreeIn(t) : \A k \in FreeIn(t) : m <= k
    BY <1>1, <2>1, Least
  <2> HIDE DEF FreeIn
  <2> QED
    BY <2>2 DEF Min
<1> QED
  BY <1>2, <1>3, <1>4

LEMMA FilledStep ==
  ASSUME NEW X, NoNode \notin X, NEW slot, NEW ks \in Seq(X), NEW ms \in SUBSET (1 .. Len(ks)),
         Cardinality(ms) <= Cardinality(FreeIn(slot)),
         NEW m \in 1 .. Len(ks), NEW t, Filled(X, slot, ks, ms, m - 1, t)
  PROVE  Filled(X, slot, ks, ms, m, Put(t, ks, ms, m))
<1> DEFINE before == {l \in ms : l <= m - 1}  upto == {l \in ms : l <= m}
<1>1. Len(ks) \in Nat /\ m \in Nat /\ (\A l \in ms : l \in Nat) /\ IsFiniteSet(1 .. Len(ks))
  BY LenProperties, FS_Interval
<1>2. /\ IsFiniteSet(ms) /\ IsFiniteSet(before) /\ Cardinality(ms) \in Nat /\ Cardinality(before) \in Nat
      /\ Cardinality(upto) \in Nat /\ Cardinality(upto) <= Cardinality(ms)
  <2>1. IsFiniteSet(ms)
    BY <1>1, FS_Subset
  <2>2. before \subseteq ms /\ upto \subseteq ms
    OBVIOUS
  <2> HIDE DEF before, upto
  <2>3. IsFiniteSet(before) /\ IsFiniteSet(upto) /\ Cardinality(upto) <= Cardinality(ms)
    BY <2>1, <2>2, FS_Subset
  <2> QED
    BY <2>1, <2>3, FS_CardinalityType
<1>3. /\ t \in [Mid -> {NoNode} \cup X]
      /\ \A x \in X : (\E a \in Mid : t[a] = x) <=>
                      \/ \E a \in Mid : slot[a] = x
                      \/ \E l \in ms : l <= m - 1 /\ ks[l] = x
      /\ Cardinality(FreeIn(t)) + Cardinality(before) = Cardinality(FreeIn(slot))
  BY DEF Filled
<1>4. CASE m \notin ms
  <2>1. \A l \in ms : l <= m <=> l <= m - 1
    BY <1>1, <1>4
  <2>2. upto = before
    BY <2>1
  <2>3. Put(t, ks, ms, m) = t
    BY <1>4 DEF Put
  <2>4. \A x : (\E l \in ms : l <= m /\ ks[l] = x) <=> (\E l \in ms : l <= m - 1 /\ ks[l] = x)
    BY <2>1
  <2>5. Cardinality(FreeIn(t)) + Cardinality(upto) = Cardinality(FreeIn(slot))
    <3>1. Cardinality(FreeIn(t)) + Cardinality(before) = Cardinality(FreeIn(slot))
      BY <1>3
    <3> HIDE DEF upto, before
    <3> QED
      BY <2>2, <3>1
  <2>6. Filled(X, slot, ks, ms, m, t)
    BY <1>3, <2>4, <2>5 DEF Filled
  <2> QED
    BY <2>3, <2>6
<1>5. CASE m \in ms
  <2> DEFINE a == Min(FreeIn(t))  u == [t EXCEPT ![a] = ks[m]]
  <2>1. upto = before \cup {m} /\ m \notin before
    <3>1. \A l \in ms : l <= m <=> l <= m - 1 \/ l = m
      BY <1>1
    <3>2. ~(m <= m - 1)
      BY <1>1
    <3>3. ASSUME NEW l PROVE l \in upto <=> l \in before \cup {m}
      BY <1>5, <3>1
    <3> QED
      BY <3>2, <3>3
  <2>2. Cardinality(upto) = Cardinality(before) + 1
    <3> HIDE DEF upto, before
    <3> QED
      BY <1>2, <2>1, FS_AddElement
  <2>3. Cardinality(FreeIn(t)) \in Nat /\ Cardinality(FreeIn(slot)) \in Nat
    BY FreeSlots
  <2>4. Cardinality(FreeIn(t)) > 0
    <3> HIDE DEF upto, before
    <3> QED
      BY <1>2, <1>3, <2>2, <2>3
  <2>5. a \in FreeIn(t) /\ a \in Mid /\ t[a] = NoNode
    <3>1. a \in FreeIn(t)
      BY <2>4, FreeSlots
    <3> QED
      BY <3>1 DEF FreeIn
  <2> HIDE DEF a
  <2>6. ks[m] \in X /\ ks[m] # NoNode
    BY ElementOfSeq
  <2>7. u \in [Mid -> {NoNode} \cup X] /\ u[a] = ks[m] /\ \A b \in Mid : b # a => u[b] = t[b]
    BY <1>3, <2>5, <2>6
  <2>8. FreeIn(u) = FreeIn(t) \ {a}
    <3> HIDE DEF u
    <3> QED
      BY <2>5, <2>6, <2>7 DEF FreeIn
  <2>9. Cardinality(FreeIn(u)) = Cardinality(FreeIn(t)) - 1
    <3>1. IsFiniteSet(FreeIn(t))
      BY FreeSlots
    <3> HIDE DEF u
    <3> QED
      BY <2>5, <2>8, <3>1, FS_RemoveElement
  <2>10. Cardinality(FreeIn(u)) + Cardinality(upto) = Cardinality(FreeIn(slot))
    <3>1. Cardinality(FreeIn(u)) \in Nat
      BY FreeSlots
    <3> HIDE DEF u, upto, before
    <3> QED
      BY <1>2, <1>3, <2>2, <2>3, <2>9, <3>1
  <2>11. ASSUME NEW x \in X
         PROVE  (\E b \in Mid : u[b] = x) <=>
                \/ \E b \in Mid : slot[b] = x
                \/ \E l \in ms : l <= m /\ ks[l] = x
    <3>1. (\E b \in Mid : u[b] = x) <=> (\E b \in Mid : t[b] = x) \/ ks[m] = x
      <4> HIDE DEF u
      <4> QED
        BY <2>5, <2>7, <2>11
    <3>2. (\E l \in ms : l <= m /\ ks[l] = x) <=> (\E l \in ms : l <= m - 1 /\ ks[l] = x) \/ ks[m] = x
      <4>1. \A l \in ms : l <= m <=> l <= m - 1 \/ l = m
        BY <1>1
      <4>2. m <= m
        BY <1>1
      <4> QED
        BY <1>5, <4>1, <4>2
    <3> QED
      BY <1>3, <3>1, <3>2
  <2>12. Put(t, ks, ms, m) = u
    BY <1>5 DEF Put, a
  <2> HIDE DEF u
  <2> QED
    BY <2>7, <2>10, <2>11, <2>12 DEF Filled
<1> QED
  BY <1>4, <1>5

\* What Placed does, if there are slots enough.
LEMMA PlacedIs ==
  ASSUME NEW X, NoNode \notin X, NEW slot \in [Mid -> {NoNode} \cup X], NEW ks \in Seq(X),
         NEW ms \in SUBSET (1 .. Len(ks)), Cardinality(ms) <= Cardinality(FreeIn(slot))
  PROVE  /\ Placed(slot, ks, ms) \in [Mid -> {NoNode} \cup X]
         /\ \A x \in X : (\E a \in Mid : Placed(slot, ks, ms)[a] = x) <=>
                         \/ \E a \in Mid : slot[a] = x
                         \/ \E l \in ms : ks[l] = x
<1> DEFINE n0 == Len(ks)
<1>1. n0 \in Nat /\ \A l \in ms : l \in Nat /\ l <= n0 /\ ~(l <= 0)
  BY LenProperties
<1>2. PICK f : /\ f[0] = slot /\ \A m \in 1 .. n0 : f[m] = Put(f[m - 1], ks, ms, m)
               /\ Placed(slot, ks, ms) = f[n0]
  BY PlacedTurns
<1>3. Filled(X, slot, ks, ms, 0, f[0])
  <2> DEFINE none == {l \in ms : l <= 0}
  <2>1. none = {}
    BY <1>1
  <2>2. Cardinality(FreeIn(slot)) \in Nat
    BY FreeSlots
  <2>3. Cardinality(FreeIn(slot)) + Cardinality(none) = Cardinality(FreeIn(slot))
    <3> HIDE DEF none
    <3>1. Cardinality(none) = 0
      BY <2>1, FS_EmptySet
    <3> QED
      BY <2>2, <3>1
  <2>4. \A x : ~\E l \in ms : l <= 0 /\ ks[l] = x
    BY <1>1
  <2>5. Filled(X, slot, ks, ms, 0, slot)
    BY <2>3, <2>4 DEF Filled
  <2> QED
    BY <1>2, <2>5
<1> DEFINE T == {m \in 0 .. n0 : ~Filled(X, slot, ks, ms, m, f[m])}
<1>4. T = {}
  <2> SUFFICES ASSUME T # {} PROVE FALSE
    OBVIOUS
  <2>1. T \in SUBSET Nat
    BY <1>1
  <2>2. PICK m \in T : \A k \in T : m <= k
    BY <2>1, Least
  <2>3. m \in 1 .. n0 /\ m - 1 \in 0 .. n0 /\ m - 1 < m
    BY <1>1, <1>3, <2>2
  <2>4. Filled(X, slot, ks, ms, m - 1, f[m - 1])
    BY <2>1, <2>2, <2>3
  <2>5. Filled(X, slot, ks, ms, m, Put(f[m - 1], ks, ms, m))
    BY <2>3, <2>4, FilledStep
  <2> QED
    BY <1>2, <2>2, <2>3, <2>5
<1>5. Filled(X, slot, ks, ms, n0, f[n0])
  BY <1>1, <1>4
<1>6. f[n0] \in [Mid -> {NoNode} \cup X]
  BY <1>5 DEF Filled
<1>7. \A x \in X : (\E a \in Mid : f[n0][a] = x) <=>
                   \/ \E a \in Mid : slot[a] = x
                   \/ \E l \in ms : l <= n0 /\ ks[l] = x
  BY <1>5 DEF Filled
<1> HIDE DEF n0
<1> QED
  BY <1>1, <1>2, <1>6, <1>7

-----------------------------------------------------------------------------
(* The search for the nodes of a function *)

Held == {k \in DOMAIN nodes : \E a \in Mid : mid[a] = k}

\* The nodes control gets to from the end of a node.
Heads(k) == {member[Goes(k)[m]] : m \in 1 .. Len(Goes(k))}

\* The nodes with a number are counted, belong to the function, and lead to nodes
\* that have one too or are waiting.
CollectInv ==
  /\ mid \in [Mid -> {NoNode} \cup DOMAIN nodes]
  /\ number \in [0 .. Len(nodes) -> Nat]
  /\ Numbered \subseteq DOMAIN nodes
  /\ \A k \in Numbered \cup Held : Of(k) = fi
  /\ \A k \in Numbered : number[k] \in 1 .. Cardinality(Numbered)
  /\ \A c \in 1 .. Cardinality(Numbered) : \E k \in Numbered : number[k] = c
  /\ \A k, j \in Numbered : number[k] = number[j] => k = j
  /\ startNode[fi] \in Numbered \cup Held
  /\ \A k \in Numbered : Heads(k) \subseteq Numbered \cup Held

LEMMA HeadsAre ==
  ASSUME Ready, BlocksInv, NodesInv, NEW k \in DOMAIN nodes
  PROVE  /\ Heads(k) \subseteq DOMAIN nodes
         /\ \A j \in Heads(k) : Of(j) = Of(k)
BY EndsMeet DEF Heads

LEMMA NumberedFinite ==
  ASSUME FunctionInv, BlocksInv, IsTable, CollectInv
  PROVE  /\ IsFiniteSet(Numbered) /\ Cardinality(Numbered) \in Nat
         /\ DOMAIN number = 0 .. Len(nodes) /\ DOMAIN nodes \subseteq DOMAIN number
         /\ DOMAIN nodes \subseteq Nat \ {0}
<1>1. DOMAIN nodes = 1 .. Len(nodes) /\ Len(nodes) \in Nat
  BY TableIs
<1>2. Numbered \subseteq 1 .. Len(nodes) /\ IsFiniteSet(1 .. Len(nodes))
  BY <1>1, FS_Interval DEF CollectInv
<1>3. IsFiniteSet(Numbered)
  BY <1>2, FS_Subset
<1>4. Cardinality(Numbered) \in Nat
  BY <1>3, FS_CardinalityType
<1>5. DOMAIN number = 0 .. Len(nodes)
  BY DEF CollectInv
<1> QED
  BY <1>1, <1>3, <1>4, <1>5

LEMMA BeginStep ==
  ASSUME Ready, BlocksInv, NodesInv, StartInv, IsTable, BeginMembers PROVE CollectInv'
<1>1. /\ stage = "members" /\ fi <= Len(entries) /\ UNCHANGED <<vars, member, nodes, fi, startNode>>
      /\ mid' = [m \in Mid |-> IF m = 1 THEN startNode[fi] ELSE NoNode]
      /\ number' = [k \in 0 .. Len(nodes) |-> 0]
  BY DEF BeginMembers, At
<1>2. DOMAIN nodes = 1 .. Len(nodes) /\ Len(nodes) \in Nat
  BY TableIs DEF Ready
<1>3. fi \in 1 .. Len(entries) /\ fi \in 1 .. Len(startNode)
  BY <1>1, <1>2 DEF StartInv
<1>r. PICK r : r = startNode[fi]
  OBVIOUS
<1>4. r \in DOMAIN nodes /\ Of(r) = fi
  <2>1. FirstInst(fi) \in Insts /\ origin[FirstInst(fi)][1] = fi
    BY <1>3, FirstIs DEF Ready
  <2>2. r = member[FirstInst(fi)]
    BY <1>1, <1>3, <1>r DEF StartInv
  <2> QED
    BY <2>1, <2>2, OneFunction DEF NodesInv
<1>5. r \in Nat /\ r # NoNode /\ 1 \in Mid /\ NoNode \notin DOMAIN nodes
  BY <1>2, <1>4, MidAssumption DEF NoNode, Mid
<1>6. mid' \in [Mid -> {NoNode} \cup DOMAIN nodes'] /\ mid'[1] = r /\ \A a \in Mid : a # 1 => mid'[a] = NoNode
  BY <1>1, <1>4, <1>5, <1>r
<1>7. Held' = {r}
  BY <1>1, <1>4, <1>5, <1>6 DEF Held
<1>8. Numbered' = {} /\ number' \in [0 .. Len(nodes') -> Nat]
  BY <1>1 DEF Numbered
<1>9. Cardinality(Numbered') = 0
  BY <1>8, FS_EmptySet
<1>10. Of(r)' = fi /\ fi' = fi /\ startNode'[fi'] = r
  BY <1>1, <1>4, <1>r DEF Of, vars, history
<1>11. \A k \in Numbered' \cup Held' : Of(k)' = fi'
  <2>1. \A k \in Numbered' \cup Held' : k = r
    BY <1>7, <1>8
  <2>2. Of(r)' = fi'
    BY <1>10
  <2> QED
    BY <2>1, <2>2, Zenon
<1>12. \A c \in 1 .. Cardinality(Numbered') : FALSE
  BY <1>9
<1> QED
  BY <1>6, <1>7, <1>8, <1>10, <1>11, <1>12 DEF CollectInv

\* What a turn does: a waiting node has a number behind it, and what it leads to has
\* one or waits; the node may wait on, in another slot.
LEMMA CollectTurn ==
  ASSUME Ready, BlocksInv, NodesInv, IsTable, CollectInv,
         \A k \in DOMAIN nodes : Of(k) = fi => Leads(k), CollectNode
  PROVE  \E k \in Held :
           /\ number' = Numbering(k) /\ Numbered' = Numbered \cup {k}
           /\ stage' \in {"collect", "failed"}
           /\ stage' = "collect" =>
                /\ mid' \in [Mid -> {NoNode} \cup DOMAIN nodes]
                /\ (Held \ {k}) \cup (Heads(k) \ Numbered') \subseteq Held'
                /\ Held' \subseteq Held \cup (Heads(k) \ Numbered')
<1> DEFINE slot == Min(Mid \ FreeIn(mid))  k == mid[slot]  left == [mid EXCEPT ![slot] = NoNode]
           outs == Unnumbered(k, Numbering(k))
<1>1. slot \in Mid /\ mid[slot] # NoNode
  <2>1. Mid \ FreeIn(mid) \in SUBSET Nat /\ Mid \ FreeIn(mid) # {}
    BY MidAssumption DEF CollectNode, Mid, FreeIn
  <2>2. \E m \in Mid \ FreeIn(mid) : \A l \in Mid \ FreeIn(mid) : m <= l
    BY <2>1, Least
  <2>3. slot \in Mid \ FreeIn(mid)
    BY <2>2 DEF Min
  <2> HIDE DEF slot
  <2> QED
    BY <2>3 DEF FreeIn
<1>2. /\ stage = "collect" /\ number' = Numbering(k) /\ UNCHANGED nodes
      /\ IF Cardinality(outs) <= Cardinality(FreeIn(left))
         THEN mid' = Placed(left, NextOf(k), outs) /\ stage' = stage
         ELSE stage' = "failed"
  BY DEF CollectNode, At
<1> HIDE DEF slot
<1>3. k \in DOMAIN nodes /\ k \in Held
  BY <1>1 DEF CollectInv, Held
<1>4. /\ IsFiniteSet(Numbered) /\ Cardinality(Numbered) \in Nat
      /\ DOMAIN number = 0 .. Len(nodes) /\ DOMAIN nodes \subseteq DOMAIN number
      /\ DOMAIN nodes \subseteq Nat \ {0}
  BY NumberedFinite DEF Ready
<1>5. Of(k) = fi
  BY <1>3 DEF CollectInv
<1>6. NextOf(k) = [m \in 1 .. Len(Goes(k)) |-> member[Goes(k)[m]]]
  <2>1. Leads(k) /\ k # 0
    BY <1>3, <1>4, <1>5
  <2> HIDE DEF k
  <2> QED
    BY <2>1 DEF NextOf, Leads
<1>7. Goes(k) \in Seq(Insts) /\ \A m \in 1 .. Len(Goes(k)) : member[Goes(k)[m]] \in DOMAIN nodes
  BY <1>3, EndsMeet
<1> HIDE DEF k
<1>8. Len(Goes(k)) \in Nat
  BY <1>7, LenProperties
<1>9. NextOf(k) \in Seq(DOMAIN nodes) /\ Len(NextOf(k)) = Len(Goes(k)) /\ DOMAIN NextOf(k) = 1 .. Len(Goes(k))
  <2>1. NextOf(k) \in [1 .. Len(Goes(k)) -> DOMAIN nodes]
    BY <1>6, <1>7
  <2>2. NextOf(k) \in Seq(DOMAIN nodes)
    BY <1>8, <2>1, SeqDef
  <2> QED
    BY <1>8, <2>1, <2>2, LenProperties
<1>10. Numbered' = Numbered \cup {k} /\ DOMAIN number' = DOMAIN number
  <2>1. CASE number[k] # 0
    BY <1>2, <1>3, <1>4, <2>1 DEF Numbering, Numbered
  <2>2. CASE number[k] = 0
    <3>1. number' = [number EXCEPT ![k] = Cardinality(Numbered) + 1]
      BY <1>2, <2>2 DEF Numbering
    <3>2. DOMAIN number' = DOMAIN number /\ number'[k] # 0 /\ \A j \in DOMAIN number : j # k => number'[j] = number[j]
      BY <1>3, <1>4, <3>1
    <3> QED
      BY <1>3, <1>4, <3>2 DEF Numbered
  <2> QED
    BY <2>1, <2>2
<1>11. outs \in SUBSET (1 .. Len(NextOf(k)))
       /\ \A m \in 1 .. Len(NextOf(k)) : m \in outs <=> NextOf(k)[m] \notin Numbered'
  <2>1. \A m \in 1 .. Len(Goes(k)) : NextOf(k)[m] \in DOMAIN number'
    BY <1>4, <1>6, <1>7, <1>10
  <2>2. outs = {m \in 1 .. Len(Goes(k)) : number'[NextOf(k)[m]] = 0}
    BY <1>2, <1>9 DEF Unnumbered
  <2> QED
    BY <1>9, <2>1, <2>2 DEF Numbered
<1>12. left \in [Mid -> {NoNode} \cup DOMAIN nodes]
       /\ (\A j \in DOMAIN nodes : (\E a \in Mid : left[a] = j) => j \in Held)
       /\ \A j \in Held : j # k => \E a \in Mid : left[a] = j
  <2>1. mid \in [Mid -> {NoNode} \cup DOMAIN nodes]
    BY DEF CollectInv
  <2>2. left \in [Mid -> {NoNode} \cup DOMAIN nodes] /\ left[slot] = NoNode /\ \A a \in Mid : a # slot => left[a] = mid[a]
    BY <1>1, <2>1
  <2>3. NoNode \notin DOMAIN nodes
    BY <1>4 DEF NoNode
  <2> HIDE DEF left
  <2> QED
    BY <1>1, <2>2, <2>3 DEF Held, k
<1>13. ASSUME stage' = "collect"
       PROVE  /\ mid' \in [Mid -> {NoNode} \cup DOMAIN nodes]
              /\ (Held \ {k}) \cup (Heads(k) \ Numbered') \subseteq Held'
              /\ Held' \subseteq Held \cup (Heads(k) \ Numbered')
  <2>1. Cardinality(outs) <= Cardinality(FreeIn(left)) /\ mid' = Placed(left, NextOf(k), outs)
    BY <1>2, <1>13
  <2>2. NoNode \notin DOMAIN nodes
    BY <1>4 DEF NoNode
  <2> DEFINE ks == NextOf(k)  X == DOMAIN nodes
  <2>3. X = DOMAIN nodes /\ ks = NextOf(k)
    OBVIOUS
  <2> HIDE DEF left, outs, ks, X
  <2>4. /\ mid' \in [Mid -> {NoNode} \cup X]
        /\ \A x \in X : (\E a \in Mid : mid'[a] = x) <=>
                         \/ \E a \in Mid : left[a] = x
                         \/ \E l \in outs : ks[l] = x
    BY <1>9, <1>11, <1>12, <2>1, <2>2, <2>3, PlacedIs
  <2>5. \A x \in DOMAIN nodes : (\E l \in outs : ks[l] = x) <=> x \in Heads(k) \ Numbered'
    <3>1. \A m \in 1 .. Len(Goes(k)) : ks[m] = member[Goes(k)[m]]
      BY <1>6, <2>3
    <3>2. \A l : l \in outs <=> l \in 1 .. Len(Goes(k)) /\ ks[l] \notin Numbered'
      BY <1>9, <1>11, <2>3
    <3> QED
      BY <3>1, <3>2 DEF Heads
  <2>6. \A x \in DOMAIN nodes : x \in Held' <=>
                         \/ \E a \in Mid : left[a] = x
                         \/ x \in Heads(k) \ Numbered'
    BY <1>2, <2>3, <2>4, <2>5 DEF Held
  <2>7. Heads(k) \subseteq DOMAIN nodes /\ Held \subseteq DOMAIN nodes /\ Held' \subseteq DOMAIN nodes
    BY <1>2, <1>7 DEF Heads, Held
  <2>8. mid' \in [Mid -> {NoNode} \cup DOMAIN nodes]
    BY <2>3, <2>4
  <2>9. ASSUME NEW x \in (Held \ {k}) \cup (Heads(k) \ Numbered') PROVE x \in Held'
    <3>1. CASE x \in Held /\ x # k
      <4>1. \E a \in Mid : left[a] = x
        BY <1>12, <3>1
      <4> QED
        BY <2>6, <2>7, <3>1, <4>1
    <3>2. CASE x \in Heads(k) \ Numbered'
      BY <2>6, <2>7, <3>2
    <3> QED
      BY <2>9, <3>1, <3>2
  <2>10. ASSUME NEW x \in Held' PROVE x \in Held \cup (Heads(k) \ Numbered')
    BY <1>12, <2>6, <2>7
  <2> QED
    BY <2>8, <2>9, <2>10
<1> QED
  BY <1>2, <1>3, <1>10, <1>13

LEMMA CollectStep ==
  ASSUME Ready, BlocksInv, NodesInv, IsTable, CollectInv,
         \A k \in DOMAIN nodes : Of(k) = fi => Leads(k), CollectNode, stage' = "collect"
  PROVE  CollectInv'
<1>1. UNCHANGED <<vars, member, nodes, fi, startNode>>
  BY DEF CollectNode
<1>2. PICK k \in Held :
        /\ number' = Numbering(k) /\ Numbered' = Numbered \cup {k}
        /\ mid' \in [Mid -> {NoNode} \cup DOMAIN nodes]
        /\ (Held \ {k}) \cup (Heads(k) \ Numbered') \subseteq Held'
        /\ Held' \subseteq Held \cup (Heads(k) \ Numbered')
  BY CollectTurn
<1>3. /\ IsFiniteSet(Numbered) /\ Cardinality(Numbered) \in Nat
      /\ DOMAIN number = 0 .. Len(nodes) /\ DOMAIN nodes \subseteq DOMAIN number
      /\ DOMAIN nodes \subseteq Nat \ {0}
  BY NumberedFinite DEF Ready
<1>4. k \in DOMAIN nodes /\ Of(k) = fi /\ k \in DOMAIN number
  BY <1>2, <1>3 DEF Held, CollectInv
<1>5. Heads(k) \subseteq DOMAIN nodes /\ \A j \in Heads(k) : Of(j) = fi
  BY <1>4, HeadsAre
<1>6. (\A j : Of(j)' = Of(j)) /\ (\A j : Heads(j)' = Heads(j)) /\ nodes' = nodes /\ fi' = fi
  BY <1>1 DEF Of, Heads, Goes, vars, history
<1>7. \A j \in Numbered' \cup Held' : Of(j)' = fi'
  BY <1>2, <1>4, <1>5, <1>6 DEF CollectInv
<1> DEFINE d == Cardinality(Numbered)
<1>8. /\ number' \in [0 .. Len(nodes) -> Nat]
      /\ \A j \in Numbered : number'[j] = number[j]
      /\ k \notin Numbered => number'[k] = d + 1
      /\ k \in Numbered => number' = number
  <2>1. CASE number[k] # 0
    <3>1. k \in Numbered /\ number' = number
      BY <1>2, <1>4, <2>1 DEF Numbering, Numbered
    <3> QED
      BY <3>1 DEF CollectInv
  <2>2. CASE number[k] = 0
    <3>1. k \notin Numbered /\ number' = [number EXCEPT ![k] = d + 1]
      BY <1>2, <1>4, <2>2 DEF Numbering, Numbered
    <3>2. number \in [0 .. Len(nodes) -> Nat] /\ d + 1 \in Nat /\ k \in 0 .. Len(nodes)
      BY <1>3, <1>4 DEF CollectInv
    <3>3. \A j \in Numbered : j # k /\ j \in 0 .. Len(nodes)
      BY <1>3, <3>1 DEF CollectInv
    <3> HIDE DEF d
    <3> QED
      BY <3>1, <3>2, <3>3
  <2> QED
    BY <2>1, <2>2
<1>9. Cardinality(Numbered') = IF k \in Numbered THEN d ELSE d + 1
  <2>1. CASE k \in Numbered
    <3>1. Numbered' = Numbered
      BY <1>2, <2>1
    <3> QED
      BY <2>1, <3>1
  <2>2. CASE k \notin Numbered
    BY <1>2, <1>3, <2>2, FS_AddElement
  <2> QED
    BY <2>1, <2>2
<1> HIDE DEF d
<1>10. d \in Nat
  BY <1>3 DEF d
<1>11. /\ \A j \in Numbered : number[j] \in 1 .. d
       /\ \A c \in 1 .. d : \E j \in Numbered : number[j] = c
       /\ \A i, j \in Numbered : number[i] = number[j] => i = j
  BY DEF CollectInv, d
<1>12. /\ \A j \in Numbered' : number'[j] \in 1 .. Cardinality(Numbered')
       /\ \A c \in 1 .. Cardinality(Numbered') : \E j \in Numbered' : number'[j] = c
       /\ \A i, j \in Numbered' : number'[i] = number'[j] => i = j
  <2>1. CASE k \in Numbered
    <3>1. Numbered' = Numbered /\ number' = number /\ Cardinality(Numbered') = d
      BY <1>2, <1>8, <1>9, <2>1
    <3> QED
      BY <1>11, <3>1
  <2>2. CASE k \notin Numbered
    <3>1. number'[k] = d + 1 /\ Cardinality(Numbered') = d + 1 /\ Numbered' = Numbered \cup {k}
          /\ \A j \in Numbered : number'[j] = number[j] /\ number[j] \in 1 .. d
      BY <1>2, <1>8, <1>9, <1>11, <2>2
    <3>2. \A j \in Numbered' : number'[j] \in 1 .. d + 1
      BY <1>10, <3>1
    <3>3. ASSUME NEW c \in 1 .. d + 1 PROVE \E j \in Numbered' : number'[j] = c
      <4>1. CASE c = d + 1
        BY <3>1, <4>1
      <4>2. CASE c # d + 1
        <5>1. c \in 1 .. d
          BY <1>10, <4>2
        <5>2. PICK j \in Numbered : number[j] = c
          BY <1>11, <5>1
        <5> QED
          BY <3>1, <5>2
      <4> QED
        BY <4>1, <4>2
    <3>4. ASSUME NEW i \in Numbered', NEW j \in Numbered', number'[i] = number'[j] PROVE i = j
      <4>1. CASE i \in Numbered /\ j \in Numbered
        BY <1>11, <3>1, <3>4, <4>1
      <4>2. CASE i = k /\ j = k
        BY <4>2
      <4>3. CASE i = k /\ j \in Numbered
        BY <1>10, <3>1, <3>4, <4>3
      <4>4. CASE i \in Numbered /\ j = k
        BY <1>10, <3>1, <3>4, <4>4
      <4> QED
        BY <3>1, <4>1, <4>2, <4>3, <4>4
    <3> QED
      BY <3>1, <3>2, <3>3, <3>4
  <2> QED
    BY <2>1, <2>2
<1>13. startNode'[fi'] \in Numbered' \cup Held'
  <2>1. startNode[fi] \in Numbered \cup Held
    BY DEF CollectInv
  <2> QED
    BY <1>1, <1>2, <2>1
<1>14. ASSUME NEW j \in Numbered' PROVE Heads(j)' \subseteq Numbered' \cup Held'
  <2>1. Heads(j) \subseteq Numbered' \cup Held'
    <3>1. CASE j \in Numbered
      <4>1. Heads(j) \subseteq Numbered \cup Held
        BY <3>1 DEF CollectInv
      <4> QED
        BY <1>2, <4>1
    <3>2. CASE j = k
      BY <1>2, <3>2
    <3> QED
      BY <1>2, <1>14, <3>1, <3>2
  <2> QED
    BY <1>6, <2>1
<1>15. Numbered' \subseteq DOMAIN nodes'
  BY <1>2, <1>4, <1>6 DEF CollectInv
<1>16. mid' \in [Mid -> {NoNode} \cup DOMAIN nodes'] /\ number' \in [0 .. Len(nodes') -> Nat]
  BY <1>2, <1>6, <1>8
<1> QED
  BY <1>7, <1>12, <1>13, <1>14, <1>15, <1>16 DEF CollectInv

\* When no node waits every node of the function has a number: control gets to each
\* of its entries from an older one that has one, or the function begins there.
LEMMA AllNumbered ==
  ASSUME Ready, BlocksInv, NodesInv, IsTable, CollectInv, fi \in 1 .. Len(entries),
         startNode[fi] = member[FirstInst(fi)], FreeIn(mid) = Mid
  PROVE  \A k \in DOMAIN nodes : Of(k) = fi => k \in Numbered
<1>1. Held = {}
  <2>1. \A a \in Mid : mid[a] = NoNode
    BY DEF FreeIn
  <2>2. NoNode \notin DOMAIN nodes
    BY NumberedFinite DEF Ready, NoNode
  <2> QED
    BY <2>1, <2>2 DEF Held
<1> DEFINE L == {i \in Insts : origin[i][1] = fi /\ member[i] \notin Numbered}
<1>2. L = {}
  <2> SUFFICES ASSUME L # {} PROVE FALSE
    OBVIOUS
  <2>1. L \in SUBSET Nat
    BY DEF Insts
  <2>2. PICK i \in L : \A j \in L : i <= j
    BY <2>1, Least
  <2>3. i \in Insts /\ i \in Nat /\ origin[i][1] = fi /\ member[i] \notin Numbered
    BY <2>1, <2>2
  <2>4. CASE First(i)
    <3>1. FirstInst(fi) = i
      BY <2>3, <2>4, FirstIs DEF Ready
    <3>2. member[i] \in Numbered
      BY <1>1, <3>1 DEF CollectInv
    <3> QED
      BY <2>3, <3>2
  <2>5. CASE ~First(i)
    <3>1. PICK p \in Insts : p < i /\ Holds(log[i].prev, p)
      BY <2>3, <2>5 DEF Ready, FlowInv
    <3>2. Holds(log[p].next, i)
      BY <2>3, <3>1 DEF Ready, ListsInv
    <3>3. origin[p][1] = fi /\ p \in Nat
      BY <2>3, <3>1, <3>2 DEF Ready, FlowInv, Insts
    <3>4. member[p] \in Numbered
      <4>1. p \notin L
        BY <2>2, <2>3, <3>1, <3>3
      <4> QED
        BY <3>1, <3>3, <4>1
    <3>5. CASE p \notin ends
      <4>1. PICK j \in Insts : Inner(p, j)
        BY <3>1, <3>5 DEF BlocksInv
      <4>2. j = i
        <5>1. log[p].next = <<j>>
          BY <4>1 DEF Inner
        <5> QED
          BY <3>2, <5>1 DEF Holds
      <4>3. member[i] = member[p]
        BY <2>3, <3>1, <4>1, <4>2 DEF NodesInv
      <4> QED
        BY <2>3, <3>4, <4>3
    <3>6. CASE p \in ends
      <4>1. nodes[member[p]].last = p
        BY <3>6 DEF NodesInv
      <4>2. PICK m \in 1 .. Len(log[p].next) : log[p].next[m] = i
        BY <3>2 DEF Holds
      <4>3. member[i] \in Heads(member[p])
        BY <4>1, <4>2 DEF Heads, Goes
      <4>4. member[i] \in Numbered
        BY <1>1, <3>4, <4>3 DEF CollectInv
      <4> QED
        BY <2>3, <4>4
    <3> QED
      BY <3>5, <3>6
  <2> QED
    BY <2>4, <2>5
<1>3. \A k \in DOMAIN nodes : nodes[k].first \in Insts /\ member[nodes[k].first] = k
  BY DEF NodesInv, BlocksInv
<1> QED
  BY <1>2, <1>3 DEF Of

-----------------------------------------------------------------------------
(* The tables of the functions *)

\* A list of links to the nodes of the entries es, in the numbers of the table g.
Names(g, s, es) ==
  /\ s = [m \in 1 .. Len(es) |-> s[m]]
  /\ \A m \in 1 .. Len(es) : s[m] \in 1 .. Len(g) /\ g[s[m]] = member[es[m]]

\* The nodes of the function are in its table, each once, and no others.
IsMembers(g, f) ==
  /\ \A c \in 1 .. Len(g) : g[c] \in DOMAIN nodes /\ Of(g[c]) = f
  /\ \A c, d \in 1 .. Len(g) : g[c] = g[d] => c = d
  /\ \A k \in DOMAIN nodes : Of(k) = f => \E c \in 1 .. Len(g) : g[c] = k

\* Their links have the numbers of the table.
Renames(g) ==
  \A c \in 1 .. Len(g) : /\ Names(g, nodes[g[c]].next, Goes(g[c]))
                         /\ Names(g, nodes[g[c]].prev, Comes(g[c]))

\* The links of the functions whose nodes have their numbers, and of the others.
TablesInv ==
  /\ members \in Seq(Seq(DOMAIN nodes))
  /\ \A k \in DOMAIN nodes : Indexed(k) /\ (Of(k) > Len(members) => Leads(k))
  /\ \A f \in 1 .. Len(members) : IsMembers(members[f], f) /\ Renames(members[f])

\* The table EndMembers makes.
Listed == [c \in 1 .. Cardinality(Numbered) |-> CHOOSE k \in Numbered : number[k] = c]

LEMMA ListedIs ==
  ASSUME FunctionInv, BlocksInv, IsTable, CollectInv
  PROVE  /\ Listed \in Seq(DOMAIN nodes) /\ Len(Listed) = Cardinality(Numbered)
         /\ \A k \in Numbered : number[k] \in 1 .. Len(Listed) /\ Listed[number[k]] = k
         /\ \A c \in 1 .. Len(Listed) : Listed[c] \in Numbered /\ number[Listed[c]] = c
<1> DEFINE d == Cardinality(Numbered)
<1>1. d \in Nat
  BY NumberedFinite
<1>2. \A c \in 1 .. d : Listed[c] \in Numbered /\ number[Listed[c]] = c
  BY DEF CollectInv, Listed
<1>3. Numbered \subseteq DOMAIN nodes /\ \A k \in Numbered : number[k] \in 1 .. d
  BY DEF CollectInv
<1>4. \A k \in Numbered : Listed[number[k]] = k
  BY <1>2, <1>3 DEF CollectInv
<1>5. Listed \in [1 .. d -> DOMAIN nodes]
  <2>1. Listed = [c \in 1 .. d |-> Listed[c]]
    BY DEF Listed
  <2> HIDE DEF d
  <2> QED
    BY <1>2, <1>3, <2>1
<1> HIDE DEF d
<1>6. Listed \in Seq(DOMAIN nodes)
  BY <1>1, <1>5, SeqDef
<1>7. Len(Listed) = d
  BY <1>1, <1>5, <1>6, LenProperties
<1> QED
  BY <1>2, <1>3, <1>4, <1>6, <1>7 DEF d

\* The renumbered list of a node whose function is finished.
LEMMA NamesIs ==
  ASSUME FunctionInv, BlocksInv, IsTable, CollectInv, NEW es, NEW s,
         s = [m \in 1 .. Len(es) |-> member[es[m]]],
         \A m \in 1 .. Len(es) : member[es[m]] \in Numbered
  PROVE  Names(Listed, Renumbered(s), es)
<1>1. DOMAIN s = 1 .. Len(es) /\ \A m \in 1 .. Len(es) : s[m] = member[es[m]]
  OBVIOUS
<1> DEFINE t == Renumbered(s)
<1>2. t = [m \in 1 .. Len(es) |-> number[s[m]]]
  BY <1>1 DEF Renumbered
<1> HIDE DEF t
<1>3. t = [m \in 1 .. Len(es) |-> t[m]] /\ \A m \in 1 .. Len(es) : t[m] = number[member[es[m]]]
  BY <1>1, <1>2
<1>4. \A m \in 1 .. Len(es) : t[m] \in 1 .. Len(Listed) /\ Listed[t[m]] = member[es[m]]
  BY <1>3, ListedIs
<1> QED
  BY <1>3, <1>4 DEF Names, t

LEMMA EndStep ==
  ASSUME Ready, BlocksInv, NodesInv, IsTable, TablesInv, CollectInv, EndMembers,
         fi \in 1 .. Len(entries), fi = Len(members) + 1, startNode[fi] = member[FirstInst(fi)]
  PROVE  TablesInv' /\ Len(members') = fi
<1>0. PICK g : g = Listed
  OBVIOUS
<1>1. UNCHANGED <<vars, member>> /\ members' = Append(members, g) /\ FreeIn(mid) = Mid
  BY <1>0 DEF EndMembers, Listed
<1>2. /\ DOMAIN nodes' = DOMAIN nodes
      /\ \A k \in DOMAIN nodes :
           /\ nodes'[k].first = nodes[k].first /\ nodes'[k].last = nodes[k].last
           /\ nodes'[k].index = nodes[k].index
           /\ k \notin Numbered => nodes'[k] = nodes[k]
           /\ k \in Numbered => /\ nodes'[k].prev = Renumbered(nodes[k].prev)
                                /\ nodes'[k].next = Renumbered(nodes[k].next)
  BY LinkKept, RenamedIs
<1>3. \A k \in DOMAIN nodes : Goes(k)' = Goes(k) /\ Comes(k)' = Comes(k) /\ Of(k)' = Of(k)
  BY <1>1, <1>2 DEF Goes, Comes, Of, vars, history
<1>4. \A k \in DOMAIN nodes : k \in Numbered <=> Of(k) = fi
  BY <1>1, AllNumbered DEF CollectInv
<1>5. /\ g \in Seq(DOMAIN nodes)
      /\ \A k \in Numbered : number[k] \in 1 .. Len(g) /\ g[number[k]] = k
      /\ \A c \in 1 .. Len(g) : g[c] \in Numbered /\ number[g[c]] = c
  BY <1>0, ListedIs DEF Ready
<1>6. Len(members) \in Nat /\ members \in Seq(Seq(DOMAIN nodes))
  BY LenProperties DEF TablesInv
<1>7. /\ members' \in Seq(Seq(DOMAIN nodes)) /\ Len(members') = fi
      /\ members'[fi] = g /\ \A f \in 1 .. Len(members) : members'[f] = members[f]
  BY <1>1, <1>5, <1>6, AppendProperties
<1>8. ASSUME NEW k \in DOMAIN nodes PROVE Indexed(k)' /\ (Of(k)' > Len(members') => Leads(k)')
  <2>1. Indexed(k)'
    <3>1. log' = log /\ Indexed(k)
      BY <1>1 DEF vars, TablesInv
    <3> QED
      BY <1>2, <1>3, <3>1 DEF Indexed
  <2>2. ASSUME Of(k)' > Len(members') PROVE Leads(k)'
    <3>1. Of(k) > fi /\ Of(k) \in Nat
      BY <1>3, <1>7, <2>2, EndsMeet
    <3>2. k \notin Numbered /\ Of(k) > Len(members)
      BY <1>4, <1>6, <3>1
    <3>3. Leads(k) /\ nodes'[k] = nodes[k] /\ member' = member
      BY <1>1, <1>2, <3>2 DEF TablesInv
    <3> QED
      BY <1>3, <3>3 DEF Leads
  <2> QED
    BY <2>1, <2>2
<1>9. IsMembers(g, fi)
  <2>1. \A c, d \in 1 .. Len(g) : g[c] = g[d] => c = d
    BY <1>5
  <2>2. \A c \in 1 .. Len(g) : g[c] \in DOMAIN nodes /\ Of(g[c]) = fi
    BY <1>5 DEF CollectInv
  <2>3. \A k \in DOMAIN nodes : Of(k) = fi => \E c \in 1 .. Len(g) : g[c] = k
    BY <1>4, <1>5
  <2> QED
    BY <2>1, <2>2, <2>3 DEF IsMembers
<1>10. ASSUME NEW c \in 1 .. Len(g)
       PROVE  Names(g, nodes'[g[c]].next, Goes(g[c])) /\ Names(g, nodes'[g[c]].prev, Comes(g[c]))
  <2>0. PICK k : k = g[c]
    OBVIOUS
  <2>1. k \in DOMAIN nodes /\ k \in Numbered /\ Of(k) = fi
    BY <1>5, <1>9, <2>0 DEF IsMembers
  <2>2. Of(k) > Len(members)
    BY <1>6, <2>1
  <2>3. /\ nodes[k].next = [m \in 1 .. Len(Goes(k)) |-> member[Goes(k)[m]]]
        /\ nodes[k].prev = [m \in 1 .. Len(Comes(k)) |-> member[Comes(k)[m]]]
    BY <2>1, <2>2 DEF TablesInv, Leads
  <2>4. /\ \A m \in 1 .. Len(Goes(k)) : member[Goes(k)[m]] \in Numbered
        /\ \A m \in 1 .. Len(Comes(k)) : member[Comes(k)[m]] \in Numbered
    BY <1>4, <2>1, EndsMeet
  <2>5. Names(g, Renumbered(nodes[k].next), Goes(k)) /\ Names(g, Renumbered(nodes[k].prev), Comes(k))
    BY <1>0, <2>3, <2>4, NamesIs DEF Ready
  <2>6. nodes'[k].prev = Renumbered(nodes[k].prev) /\ nodes'[k].next = Renumbered(nodes[k].next)
    BY <1>2, <2>1
  <2> QED
    BY <2>0, <2>5, <2>6
<1>11. ASSUME NEW t, NEW f, IsMembers(t, f) PROVE IsMembers(t, f)'
  <2>1. /\ \A c \in 1 .. Len(t) : t[c] \in DOMAIN nodes /\ Of(t[c]) = f
        /\ \A c, d \in 1 .. Len(t) : t[c] = t[d] => c = d
        /\ \A k \in DOMAIN nodes : Of(k) = f => \E c \in 1 .. Len(t) : t[c] = k
    BY <1>11 DEF IsMembers
  <2>2. \A c \in 1 .. Len(t) : t[c] \in DOMAIN nodes' /\ Of(t[c])' = f
    BY <1>2, <1>3, <2>1
  <2>3. \A k \in DOMAIN nodes' : Of(k)' = f => \E c \in 1 .. Len(t) : t[c] = k
    BY <1>2, <1>3, <2>1
  <2> QED
    BY <2>1, <2>2, <2>3 DEF IsMembers
<1>12. ASSUME NEW t, NEW f, IsMembers(t, f),
              \A c \in 1 .. Len(t) : Names(t, nodes'[t[c]].next, Goes(t[c])) /\ Names(t, nodes'[t[c]].prev, Comes(t[c]))
       PROVE  Renames(t)'
  <2>1. member' = member /\ \A c \in 1 .. Len(t) : Goes(t[c])' = Goes(t[c]) /\ Comes(t[c])' = Comes(t[c])
    BY <1>1, <1>3, <1>12 DEF IsMembers
  <2> QED
    BY <1>12, <2>1 DEF Renames, Names
<1>13. ASSUME NEW f \in 1 .. Len(members') PROVE (IsMembers(members[f], f) /\ Renames(members[f]))'
  <2>0. PICK t : t = members'[f]
    OBVIOUS
  <2>1. IsMembers(t, f)' /\ Renames(t)'
    <3>1. CASE f = fi
      <4>1. t = g
        BY <1>7, <2>0, <3>1
      <4> QED
        BY <1>9, <1>10, <1>11, <1>12, <3>1, <4>1
    <3>2. CASE f # fi
      <4>1. f \in 1 .. Len(members)
        BY <1>6, <1>7, <3>2
      <4>2. IsMembers(t, f) /\ Renames(t)
        BY <1>7, <2>0, <4>1 DEF TablesInv
      <4>3. \A c \in 1 .. Len(t) : nodes'[t[c]] = nodes[t[c]]
        <5>1. f # fi
          BY <3>2
        <5> QED
          BY <1>2, <1>4, <4>2, <5>1 DEF IsMembers
      <4>4. \A c \in 1 .. Len(t) : Names(t, nodes'[t[c]].next, Goes(t[c])) /\ Names(t, nodes'[t[c]].prev, Comes(t[c]))
        BY <4>2, <4>3 DEF Renames
      <4> QED
        BY <1>11, <1>12, <4>2, <4>4
    <3> QED
      BY <3>1, <3>2
  <2> QED
    BY <2>0, <2>1 DEF IsMembers, Renames
<1> QED
  BY <1>2, <1>7, <1>8, <1>13 DEF TablesInv

-----------------------------------------------------------------------------
(* The links and tables from pass to pass *)

MembersInv ==
  /\ stage \in {"tidy", "mark", "build", "link", "index", "start"} => members = <<>>
  /\ stage \notin {"tidy", "mark", "build"} => IsTable
  /\ stage = "index" => \A k \in DOMAIN nodes : Leads(k)
  /\ stage \notin {"tidy", "mark", "build", "link", "index"} => TablesInv
  /\ stage \in {"members", "collect"} => fi = Len(members) + 1
  /\ stage = "paths" => Len(members) = Len(entries)
  /\ stage = "collect" => CollectInv

LEMMA MembersInit == CfgInit => MembersInv
BY DEF CfgInit, MembersInv

LEMMA TablesSame ==
  ASSUME UNCHANGED <<vars, starts, member, nodes, members>>
  PROVE  (IsTable => IsTable') /\ (TablesInv => TablesInv')
<1>1. Insts' = Insts /\ log' = log /\ nodes' = nodes /\ member' = member /\ members' = members /\ starts' = starts
      /\ origin' = origin
  BY DEF vars, history, Insts
<1>2. IsTable => IsTable'
  BY <1>1 DEF IsTable, NodeCount
<1>3. \A k : Goes(k)' = Goes(k) /\ Comes(k)' = Comes(k) /\ Of(k)' = Of(k)
  BY <1>1 DEF Goes, Comes, Of
<1>4. \A k : (Leads(k)' <=> Leads(k)) /\ (Indexed(k)' <=> Indexed(k))
  BY <1>1, <1>3 DEF Leads, Indexed
<1>5. \A g, f : IsMembers(g, f)' <=> IsMembers(g, f)
  BY <1>1, <1>3 DEF IsMembers
<1>6. \A g : Renames(g)' <=> Renames(g)
  <2> TAKE g
  <2>1. ASSUME NEW c
        PROVE  /\ (Names(g, nodes[g[c]].next, Goes(g[c])))' <=> Names(g, nodes[g[c]].next, Goes(g[c]))
               /\ (Names(g, nodes[g[c]].prev, Comes(g[c])))' <=> Names(g, nodes[g[c]].prev, Comes(g[c]))
    <3>1. /\ nodes'[g[c]].next = nodes[g[c]].next /\ nodes'[g[c]].prev = nodes[g[c]].prev
          /\ Goes(g[c])' = Goes(g[c]) /\ Comes(g[c])' = Comes(g[c]) /\ member' = member
      BY <1>1, <1>3
    <3> QED
      BY <3>1, Zenon DEF Names
  <2> QED
    BY <2>1, Zenon DEF Renames
<1>7. \A f : (IsMembers(members[f], f) /\ Renames(members[f]))' <=> IsMembers(members[f], f) /\ Renames(members[f])
  <2> TAKE f
  <2>0. PICK g : g = members[f]
    OBVIOUS
  <2>1. (IsMembers(g, f)' <=> IsMembers(g, f)) /\ (Renames(g)' <=> Renames(g)) /\ members'[f] = g
    BY <1>1, <1>5, <1>6, <2>0
  <2> QED
    BY <2>0, <2>1 DEF IsMembers, Renames
<1>8. TablesInv => TablesInv'
  <2> SUFFICES ASSUME TablesInv PROVE TablesInv'
    OBVIOUS
  <2>1. members' \in Seq(Seq(DOMAIN nodes'))
    BY <1>1 DEF TablesInv
  <2>2. \A k \in DOMAIN nodes' : Indexed(k)' /\ (Of(k)' > Len(members') => Leads(k)')
    BY <1>1, <1>3, <1>4 DEF TablesInv
  <2>3. \A f \in 1 .. Len(members') : (IsMembers(members[f], f) /\ Renames(members[f]))'
    BY <1>1, <1>7 DEF TablesInv
  <2> QED
    BY <2>1, <2>2, <2>3 DEF TablesInv
<1> QED
  BY <1>2, <1>8

\* The tables as IndexLinks leaves them.
LEMMA TablesBegin ==
  ASSUME Ready, BlocksInv, NodesInv, IsTable, \A k \in DOMAIN nodes : Leads(k), IndexLinks, members = <<>>
  PROVE  TablesInv'
<1>1. members' = <<>> /\ DOMAIN nodes' = DOMAIN nodes
  BY LinkKept DEF IndexLinks
<1>2. \A k \in DOMAIN nodes : Leads(k)' /\ Indexed(k)'
  BY IndicesMade
<1>3. members' \in Seq(Seq(DOMAIN nodes')) /\ Len(members') = 0
  BY <1>1
<1>4. \A f \in 1 .. Len(members') : FALSE
  BY <1>3
<1> QED
  BY <1>1, <1>2, <1>3, <1>4 DEF TablesInv

LEMMA MembersStep ==
  TidyInv /\ PassInv /\ StartInv /\ MembersInv /\ [CfgNext]_allvars => MembersInv'
<1> SUFFICES ASSUME TidyInv, PassInv, StartInv, MembersInv, [CfgNext]_allvars PROVE MembersInv'
  OBVIOUS
<1>1. CASE Step /\ UNCHANGED cfgvars
  <2>1. stage = "tidy"
    BY <1>1, StepEnds DEF TidyInv
  <2> QED
    BY <1>1, <2>1 DEF MembersInv, cfgvars
<1>2. CASE TidyLog
  BY <1>2 DEF TidyLog, MembersInv, At
<1>3. CASE MarkNodes
  BY <1>3 DEF MarkNodes, MembersInv, At
<1>4. CASE BuildNodes
  <2>1. /\ stage = "build" /\ stage' = "link" /\ UNCHANGED <<vars, starts, members>>
        /\ nodes' = [k \in 1 .. NodeCount |-> NewNode(k)]
    BY <1>4 DEF BuildNodes, At
  <2>2. NodeCount' = NodeCount
    BY <2>1 DEF vars, NodeCount, Insts
  <2>3. nodes' = [k \in 1 .. NodeCount |-> nodes'[k]]
    BY <2>1
  <2>4. IsTable'
    <3>1. nodes' \in [1 .. NodeCount -> Range(nodes')]
      BY <2>3 DEF Range
    <3> QED
      BY <2>2, <3>1 DEF IsTable
  <2> QED
    BY <2>1, <2>4 DEF MembersInv
<1>5. CASE LinkNodes
  <2>1. stage = "link" /\ stage' = "index" /\ members' = members /\ Ready /\ BlocksInv /\ NodesInv /\ IsTable
    BY <1>5 DEF LinkNodes, At, TidyInv, PassInv, MembersInv
  <2>2. IsTable' /\ DOMAIN nodes' = DOMAIN nodes /\ \A k \in DOMAIN nodes : Leads(k)'
    BY <1>5, <2>1, TableKept, LinkKept, LinksMade
  <2>3. \A k \in DOMAIN nodes' : Leads(k)'
    BY <2>2
  <2> QED
    BY <2>1, <2>2, <2>3 DEF MembersInv
<1>6. CASE IndexLinks
  <2>1. /\ stage = "index" /\ stage' = "start" /\ members' = members /\ members = <<>>
        /\ Ready /\ BlocksInv /\ NodesInv /\ IsTable /\ \A k \in DOMAIN nodes : Leads(k)
    BY <1>6 DEF IndexLinks, At, TidyInv, PassInv, MembersInv
  <2>2. IsTable' /\ TablesInv'
    BY <1>6, <2>1, TableKept, TablesBegin
  <2> QED
    BY <2>1, <2>2 DEF MembersInv
<1>7. CASE WalkBack \/ Found
  <2>1. /\ stage = "start" /\ UNCHANGED <<vars, starts, member, nodes, members>>
        /\ stage' = "start" \/ (stage' = "members" /\ fi' = 1)
    BY <1>7 DEF WalkBack, Found, At
  <2>2. IsTable /\ TablesInv /\ members = <<>>
    BY <2>1 DEF MembersInv
  <2>3. IsTable' /\ TablesInv'
    BY <2>1, <2>2, TablesSame
  <2>4. Len(members') = 0 /\ members' = <<>>
    BY <2>1, <2>2
  <2> QED
    BY <2>1, <2>3, <2>4 DEF MembersInv
<1>8. CASE BeginMembers
  <2>1. /\ stage = "members" /\ stage' = "collect" /\ UNCHANGED <<vars, starts, member, nodes, members, fi>>
        /\ Ready /\ BlocksInv /\ NodesInv
    BY <1>8 DEF BeginMembers, At, TidyInv, PassInv
  <2>2. IsTable /\ TablesInv /\ fi = Len(members) + 1
    BY <2>1 DEF MembersInv
  <2>3. IsTable' /\ TablesInv' /\ CollectInv'
    BY <1>8, <2>1, <2>2, TablesSame, BeginStep
  <2> QED
    BY <2>1, <2>2, <2>3 DEF MembersInv
<1>9. CASE CollectNode
  <2>1. /\ stage = "collect" /\ stage' \in {"collect", "failed"}
        /\ UNCHANGED <<vars, starts, member, nodes, members, fi>>
        /\ Ready /\ BlocksInv /\ NodesInv
    BY <1>9 DEF CollectNode, At, TidyInv, PassInv
  <2>2. IsTable /\ TablesInv /\ CollectInv /\ fi = Len(members) + 1
    BY <2>1 DEF MembersInv
  <2>3. IsTable' /\ TablesInv'
    BY <2>1, <2>2, TablesSame
  <2>4. \A k \in DOMAIN nodes : Of(k) = fi => Leads(k)
    <3>1. Len(members) \in Nat
      BY <2>2, LenProperties DEF TablesInv
    <3> QED
      BY <2>2, <3>1 DEF TablesInv
  <2>5. stage' = "collect" => CollectInv'
    BY <1>9, <2>1, <2>2, <2>4, CollectStep
  <2> QED
    BY <2>1, <2>2, <2>3, <2>5 DEF MembersInv
<1>10. CASE EndMembers
  <2>1. /\ stage = "collect" /\ stage' = "members" /\ fi' = fi + 1
        /\ Ready /\ BlocksInv /\ NodesInv
    BY <1>10 DEF EndMembers, At, TidyInv, PassInv
  <2>2. IsTable /\ TablesInv /\ CollectInv /\ fi = Len(members) + 1
    BY <2>1 DEF MembersInv
  <2>3. fi \in 1 .. Len(entries) /\ startNode[fi] = member[FirstInst(fi)]
    <3>1. fi \in 1 .. Len(entries) /\ Len(startNode) = Len(entries)
      BY <2>1 DEF StartInv
    <3> QED
      BY <2>1, <3>1 DEF StartInv
  <2>4. IsTable' /\ TablesInv' /\ Len(members') = fi
    BY <1>10, <2>1, <2>2, <2>3, TableKept, EndStep
  <2> QED
    BY <2>1, <2>4 DEF MembersInv
<1>11. CASE CfgDone
  <2>1. /\ stage = "members" /\ stage' = "paths" /\ fi > Len(entries)
        /\ UNCHANGED <<vars, starts, member, nodes, members, fi>>
    BY <1>11 DEF CfgDone, At
  <2>2. IsTable /\ TablesInv /\ fi = Len(members) + 1 /\ fi \in 1 .. Len(entries) + 1
        /\ Len(startNode) = Len(entries) /\ startNode \in Seq(DOMAIN nodes)
    BY <2>1 DEF MembersInv, StartInv
  <2>3. IsTable' /\ TablesInv'
    BY <2>1, <2>2, TablesSame
  <2>4. Len(members') = Len(entries')
    <3>1. Len(members) \in Nat /\ Len(entries) \in Nat
      BY <2>2, LenProperties DEF TablesInv
    <3> QED
      BY <2>1, <2>2, <3>1 DEF vars, program
  <2> QED
    BY <2>1, <2>3, <2>4 DEF MembersInv
<1>12. CASE UNCHANGED allvars
  <2>1. UNCHANGED <<vars, stage, starts, member, nodes, members, fi, mid, number, startNode>>
    BY <1>12 DEF allvars, cfgvars
  <2>2. entries' = entries
    BY <2>1 DEF vars, program
  <2>3. (IsTable => IsTable') /\ (TablesInv => TablesInv')
    BY <2>1, TablesSame
  <2>4. (\A k : Leads(k) => Leads(k)') /\ (CollectInv => CollectInv')
    <3>1. (\A k : Of(k)' = Of(k)) /\ (\A k : Goes(k)' = Goes(k)) /\ \A k : Comes(k)' = Comes(k)
      BY <2>1 DEF vars, history, Of, Goes, Comes
    <3>2. (\A k : Heads(k)' = Heads(k)) /\ Numbered' = Numbered /\ Held' = Held
      BY <2>1, <3>1 DEF Heads, Numbered, Held
    <3> QED
      BY <2>1, <3>1, <3>2 DEF Leads, CollectInv
  <2> QED
    BY <2>1, <2>2, <2>3, <2>4 DEF MembersInv
<1> QED
  BY <1>1, <1>2, <1>3, <1>4, <1>5, <1>6, <1>7, <1>8, <1>9, <1>10, <1>11, <1>12
     DEF CfgNext, Work, CfgStep, CfgStopped

\* Everything that is known behind the exploration.
PassesInv == TidyInv /\ PassInv /\ StartInv /\ MembersInv

LEMMA PassesInvariant ==
  CfgSpec /\ []TablesFound /\ []NopsFirst /\ []SparseLists /\ []NoRings => []PassesInv
<1>1. CfgInit => PassesInv
  BY TidyInit, PassInit, StartInit, MembersInit DEF PassesInv
<1>2. PassesInv /\ TablesFound /\ NopsFirst /\ SparseLists /\ NoRings /\ [CfgNext]_allvars => PassesInv'
  BY TidyStep, PassStep, StartStep, MembersStep DEF PassesInv
<1> QED
  BY <1>1, <1>2, PTL DEF CfgSpec

\* What LinksFollowLog says of the node in place c of a function's table g.
LinksAt(g, c) ==
  /\ Range(nodes[g[c]].next) \cup Range(nodes[g[c]].prev) \subseteq DOMAIN g
  /\ [m \in DOMAIN nodes[g[c]].next |-> nodes[g[nodes[g[c]].next[m]]].first] = log[nodes[g[c]].last].next
  /\ [m \in DOMAIN nodes[g[c]].prev |-> nodes[g[nodes[g[c]].prev[m]]].last] = log[nodes[g[c]].first].prev
  /\ \A l \in DOMAIN nodes[g[c]].prev : nodes[g[nodes[g[c]].prev[l]]].next[nodes[g[c]].index[l]] = c

\* The links of the nodes, in the numbers of the functions, follow the log.
LEMMA LinksRight ==
  ASSUME Ready, BlocksInv, NodesInv, TablesInv, NEW f \in 1 .. Len(members), NEW g, g = members[f],
         NEW c \in DOMAIN g
  PROVE  LinksAt(g, c)
<1>1. g \in Seq(DOMAIN nodes) /\ IsMembers(g, f) /\ Renames(g)
  <2>1. members \in Seq(Seq(DOMAIN nodes))
    BY DEF TablesInv
  <2>2. members[f] \in Seq(DOMAIN nodes)
    BY <2>1, ElementOfSeq
  <2> QED
    BY <2>2 DEF TablesInv
<1>2. DOMAIN g = 1 .. Len(g) /\ c \in 1 .. Len(g)
  BY <1>1, LenProperties
<1>3. PICK k : k = g[c]
  OBVIOUS
<1>4. k \in DOMAIN nodes
  BY <1>1, <1>2, <1>3 DEF IsMembers
<1>5. PICK s, t : s = nodes[k].next /\ t = nodes[k].prev
  OBVIOUS
<1>6. Names(g, s, Goes(k)) /\ Names(g, t, Comes(k))
  BY <1>1, <1>2, <1>3, <1>5 DEF Renames
<1>7. /\ Goes(k) \in Seq(Insts) /\ Comes(k) \in Seq(Insts)
      /\ \A m \in 1 .. Len(Goes(k)) : nodes[member[Goes(k)[m]]].first = Goes(k)[m]
      /\ \A m \in 1 .. Len(Comes(k)) : member[Comes(k)[m]] \in DOMAIN nodes
                                       /\ nodes[member[Comes(k)[m]]].last = Comes(k)[m]
  BY <1>4, EndsMeet
<1>8. /\ DOMAIN s = 1 .. Len(Goes(k)) /\ \A m \in 1 .. Len(Goes(k)) : g[s[m]] = member[Goes(k)[m]]
      /\ DOMAIN t = 1 .. Len(Comes(k)) /\ \A m \in 1 .. Len(Comes(k)) : t[m] \in 1 .. Len(g) /\ g[t[m]] = member[Comes(k)[m]]
  <2>1. s = [m \in 1 .. Len(Goes(k)) |-> s[m]] /\ t = [m \in 1 .. Len(Comes(k)) |-> t[m]]
    BY <1>6 DEF Names
  <2>2. DOMAIN s = 1 .. Len(Goes(k)) /\ DOMAIN t = 1 .. Len(Comes(k))
    BY <2>1
  <2> QED
    BY <1>6, <2>2 DEF Names
<1>9. [m \in DOMAIN s |-> nodes[g[s[m]]].first] = Goes(k)
  <2>1. Goes(k) = [m \in 1 .. Len(Goes(k)) |-> Goes(k)[m]]
    BY <1>7
  <2>2. \A m \in 1 .. Len(Goes(k)) : nodes[g[s[m]]].first = Goes(k)[m]
    BY <1>7, <1>8
  <2> QED
    BY <1>8, <2>1, <2>2
<1>10. [m \in DOMAIN t |-> nodes[g[t[m]]].last] = Comes(k)
  <2>1. Comes(k) = [m \in 1 .. Len(Comes(k)) |-> Comes(k)[m]]
    BY <1>7
  <2>2. \A m \in 1 .. Len(Comes(k)) : nodes[g[t[m]]].last = Comes(k)[m]
    BY <1>7, <1>8
  <2> QED
    BY <1>8, <2>1, <2>2
<1>11. ASSUME NEW l \in 1 .. Len(Comes(k)) PROVE nodes[g[t[l]]].next[nodes[k].index[l]] = c
  <2>1. PICK q, e : q = g[t[l]] /\ e = nodes[k].index[l]
    OBVIOUS
  <2>2. q \in DOMAIN nodes /\ nodes[q].last = Comes(k)[l] /\ t[l] \in 1 .. Len(g)
    BY <1>7, <1>8, <2>1
  <2>3. e \in 1 .. Len(Goes(q)) /\ Goes(q)[e] = nodes[k].first
    <3>1. Indexed(k)
      BY <1>4 DEF TablesInv
    <3> QED
      BY <2>1, <2>2, <3>1 DEF Indexed, Goes
  <2>4. Names(g, nodes[q].next, Goes(q))
    BY <1>1, <2>1, <2>2 DEF Renames
  <2>5. nodes[q].next[e] \in 1 .. Len(g) /\ g[nodes[q].next[e]] = member[nodes[k].first]
    BY <2>3, <2>4 DEF Names
  <2>6. member[nodes[k].first] = g[c]
    BY <1>3, <1>4 DEF NodesInv
  <2>7. nodes[q].next[e] = c
    BY <1>1, <1>2, <2>5, <2>6 DEF IsMembers
  <2> QED
    BY <2>1, <2>7
<1>12. \A l \in DOMAIN t : nodes[g[t[l]]].next[nodes[k].index[l]] = c
  BY <1>8, <1>11
<1>13. Range(s) \cup Range(t) \subseteq DOMAIN g
  BY <1>2, <1>6, <1>8 DEF Names, Range
<1> QED
  BY <1>3, <1>5, <1>9, <1>10, <1>12, <1>13 DEF Goes, Comes, LinksAt

\* The links and indices of every function's nodes are those of the log, under the
\* conditions LinksFollowLog names.
THEOREM LinksFollow ==
  CfgSpec /\ []TablesFound /\ []NopsFirst => LinksFollowLog
<1>1. PassesInv => LinksAsLogged
  <2> SUFFICES ASSUME PassesInv PROVE LinksAsLogged
    OBVIOUS
  <2>1. ASSUME NEW f \in 1 .. Len(members), Done(f), NEW c \in DOMAIN members[f]
        PROVE  LinksAt(members[f], c)
    <3>1. Ready /\ BlocksInv /\ NodesInv /\ TablesInv
      BY <2>1 DEF PassesInv, TidyInv, PassInv, MembersInv, Done, Built, Tidy, Before
    <3> QED
      BY <3>1, LinksRight
  <2>2. ASSUME NEW f \in 1 .. Len(members), Done(f) PROVE Range(members[f]) \subseteq DOMAIN nodes
    <3>1. TablesInv
      BY <2>2 DEF PassesInv, MembersInv, Done, Built, Tidy, Before
    <3>2. members[f] \in Seq(DOMAIN nodes)
      BY <3>1, ElementOfSeq DEF TablesInv
    <3> QED
      BY <3>2 DEF Range
  <2> QED
    BY <2>1, <2>2 DEF LinksAsLogged, LinksAt
<1> QED
  BY <1>1, PassesInvariant, PTL DEF LinksFollowLog

\* Every node is in the table of one function, the one its code was explored for.
THEOREM Partition ==
  CfgSpec /\ []TablesFound /\ []NopsFirst /\ []NoRings => FunctionsPartition
<1>1. PassesInv => NodesOwned
  <2> SUFFICES ASSUME PassesInv, At("paths")
               PROVE  /\ \A k \in DOMAIN nodes : \E f \in DOMAIN members : k \in Range(members[f])
                      /\ \A f \in DOMAIN members : Range(members[f]) \subseteq DOMAIN nodes
                      /\ \A f \in DOMAIN members : \A k \in Range(members[f]) : origin[nodes[k].first][1] = f
    BY DEF NodesOwned
  <2>1. /\ Ready /\ BlocksInv /\ NodesInv /\ TablesInv /\ Len(members) = Len(entries)
    BY DEF PassesInv, TidyInv, PassInv, MembersInv, At
  <2>2. /\ DOMAIN members = 1 .. Len(members)
        /\ \A f \in 1 .. Len(members) : members[f] \in Seq(DOMAIN nodes) /\ IsMembers(members[f], f)
    <3>1. members \in Seq(Seq(DOMAIN nodes))
      BY <2>1 DEF TablesInv
    <3> QED
      BY <2>1, <3>1, LenProperties, ElementOfSeq DEF TablesInv
  <2>3. \A f \in 1 .. Len(members) : DOMAIN members[f] = 1 .. Len(members[f])
    BY <2>2, LenProperties
  <2>4. ASSUME NEW k \in DOMAIN nodes PROVE \E f \in DOMAIN members : k \in Range(members[f])
    <3>1. Of(k) \in 1 .. Len(members)
      BY <2>1, EndsMeet
    <3>2. PICK c \in 1 .. Len(members[Of(k)]) : members[Of(k)][c] = k
      BY <2>2, <3>1 DEF IsMembers
    <3>3. k \in Range(members[Of(k)])
      BY <2>3, <3>1, <3>2 DEF Range
    <3> QED
      BY <2>2, <3>1, <3>3
  <2>5. ASSUME NEW f \in DOMAIN members, NEW k \in Range(members[f]) PROVE origin[nodes[k].first][1] = f
    <3>1. PICK c \in 1 .. Len(members[f]) : members[f][c] = k
      BY <2>2, <2>3 DEF Range
    <3> QED
      BY <2>2, <3>1 DEF IsMembers, Of
  <2>6. ASSUME NEW f \in DOMAIN members PROVE Range(members[f]) \subseteq DOMAIN nodes
    BY <2>2, <2>3 DEF Range
  <2> QED
    BY <2>4, <2>5, <2>6
<1> QED
  BY <1>1, PassesInvariant, PTL DEF FunctionsPartition

-----------------------------------------------------------------------------
(* create_function_node_members finds the nodes as the worklist does *)

\* The nodes that wait in the slots of mid_node.
LEMMA WaitingAre ==
  ASSUME NEW X, X \subseteq Nat \ {0}, NEW s \in [Mid -> {NoNode} \cup X]
  PROVE  Range(s) \ {NoNode, 0} = {k \in X : \E a \in Mid : s[a] = k}
<1>1. NoNode \notin X
  BY DEF NoNode
<1>2. Range(s) = {s[a] : a \in Mid}
  BY DEF Range
<1> QED
  BY <1>1, <1>2

\* The successors of a node in the log are the nodes its last entry leads to.
LEMMA SuccIs ==
  ASSUME Ready, BlocksInv, NodesInv, NEW k \in DOMAIN nodes
  PROVE  NodeSucc(k) = Heads(k)
<1>1. Goes(k) \in Seq(Insts) /\ Range(Goes(k)) = {Goes(k)[m] : m \in 1 .. Len(Goes(k))}
  <2>1. Goes(k) \in Seq(Insts)
    BY EndsMeet
  <2> QED
    BY <2>1, LenProperties DEF Range
<1>2. ASSUME NEW j \in DOMAIN nodes, nodes[j].first \in Range(Goes(k)) PROVE j \in Heads(k)
  <2>1. PICK m \in 1 .. Len(Goes(k)) : nodes[j].first = Goes(k)[m]
    BY <1>1, <1>2
  <2>2. member[nodes[j].first] = j
    BY DEF NodesInv
  <2> QED
    BY <2>1, <2>2 DEF Heads
<1>3. ASSUME NEW j \in Heads(k) PROVE j \in DOMAIN nodes /\ nodes[j].first \in Range(Goes(k))
  <2>1. PICK m \in 1 .. Len(Goes(k)) : j = member[Goes(k)[m]]
    BY DEF Heads
  <2> QED
    BY <1>1, <2>1, EndsMeet
<1> QED
  BY <1>2, <1>3 DEF NodeSucc, Goes

\* While it collects, the numbers are what was visited and the slots the frontier.
LEMMA CollectIs ==
  ASSUME Ready, BlocksInv, NodesInv, IsTable, CollectInv
  PROVE  /\ Numbered \ {0} = Numbered /\ Range(mid) \ {NoNode, 0} = Held
         /\ \A k \in DOMAIN nodes : NodeSucc(k) = Heads(k)
<1>1. DOMAIN nodes \subseteq Nat \ {0}
  BY NumberedFinite DEF Ready
<1>2. Numbered \subseteq DOMAIN nodes /\ mid \in [Mid -> {NoNode} \cup DOMAIN nodes]
  BY DEF CollectInv
<1>3. Range(mid) \ {NoNode, 0} = Held
  BY <1>1, <1>2, WaitingAre DEF Held
<1> QED
  BY <1>1, <1>2, <1>3, SuccIs

\* CollectNode visits a node or drops one that was visited.
LEMMA SimulateCollect ==
  ASSUME Ready, BlocksInv, NodesInv, IsTable, CollectInv, CollectInv',
         \A k \in DOMAIN nodes : Of(k) = fi => Leads(k), CollectNode, stage' = "collect",
         At("collect"), At("collect")'
  PROVE  NodesWL!Work \/ UNCHANGED NodesWL!vars
<1>1. UNCHANGED <<vars, member, nodes, fi, startNode>>
  BY DEF CollectNode
<1>2. /\ nodes' = nodes /\ {startNode[fi]}' = {startNode[fi]}
      /\ \A k : NodeSucc(k)' = NodeSucc(k)
  BY <1>1 DEF NodeSucc, vars, history
<1>3. PICK k \in Held :
        /\ Numbered' = Numbered \cup {k}
        /\ (Held \ {k}) \cup (Heads(k) \ Numbered') \subseteq Held'
        /\ Held' \subseteq Held \cup (Heads(k) \ Numbered')
  BY CollectTurn
<1>4. /\ Numbered \ {0} = Numbered /\ Range(mid) \ {NoNode, 0} = Held
      /\ k \in DOMAIN nodes /\ NodeSucc(k) = Heads(k)
  BY CollectIs DEF Held
<1>5. Numbered' \ {0} = Numbered' /\ Range(mid') \ {NoNode, 0} = Held'
  <2>1. DOMAIN nodes \subseteq Nat \ {0}
    BY NumberedFinite DEF Ready
  <2>2. Numbered' \subseteq DOMAIN nodes /\ mid' \in [Mid -> {NoNode} \cup DOMAIN nodes]
    BY <1>2 DEF CollectInv
  <2>3. Held' = {j \in DOMAIN nodes : \E a \in Mid : mid'[a] = j}
    BY <1>2 DEF Held
  <2> QED
    BY <2>1, <2>2, <2>3, WaitingAre
<1> DEFINE S == [j \in DOMAIN nodes |-> NodeSucc(j)]  R == {startNode[fi]}
           V == Numbered  F == Held
<1>6. S' = S /\ R' = R /\ S[k] = Heads(k) /\ k \in DOMAIN S
  BY <1>2, <1>4
<1>7. NodesWL!vars = <<S, R, V, F, ~At("failed")>>
  BY <1>4 DEF NodesWL!vars
<1>8. NodesWL!vars' = <<S', R', V', F', ~At("failed")'>>
  BY <1>5 DEF NodesWL!vars
<1>9. At("failed")' = FALSE /\ At("failed") = FALSE
  BY DEF At
<1>10. CASE k \notin Numbered
  <2>1. /\ V' = V \cup {k} /\ (F \ {k}) \cup (S[k] \ V') \subseteq F' /\ F' \subseteq F \cup S[k]
    BY <1>3, <1>6
  <2>2. NodesWL!Visit(k)
    BY <1>4, <1>5, <1>6, <1>10, <2>1 DEF NodesWL!Visit
  <2>3. k \in Range(mid) \ {NoNode, 0}
    BY <1>4
  <2> QED
    BY <2>2, <2>3 DEF NodesWL!Work
<1>11. CASE k \in Numbered
  <2>1. V' = V /\ Heads(k) \subseteq V \cup F
    BY <1>3, <1>11 DEF CollectInv
  <2>2. F \ {k} \subseteq F' /\ F' \subseteq F
    BY <1>3, <2>1
  <2>3. CASE k \in F'
    <3>1. F' = F
      BY <2>2, <2>3
    <3> QED
      BY <1>6, <1>7, <1>8, <1>9, <2>1, <3>1
  <2>4. CASE k \notin F'
    <3>1. F' = F \ {k}
      BY <2>2, <2>4
    <3>2. NodesWL!Drop(k)
      BY <1>4, <1>5, <1>6, <1>11, <2>1, <3>1 DEF NodesWL!Drop
    <3>3. k \in Range(mid) \ {NoNode, 0}
      BY <1>4
    <3> QED
      BY <3>2, <3>3 DEF NodesWL!Work
  <2> QED
    BY <2>3, <2>4
<1> QED
  BY <1>10, <1>11

LEMMA SimulateMembers ==
  PassesInv /\ PassesInv' /\ [CfgNext]_allvars => [NodesWL!Next]_(NodesWL!vars)
<1>f. ASSUME At("failed")' PROVE NodesWL!Next
  BY <1>f DEF NodesWL!Next
<1> SUFFICES ASSUME PassesInv, PassesInv', [CfgNext]_allvars, ~At("failed")'
             PROVE  [NodesWL!Next]_(NodesWL!vars)
  BY <1>f, Zenon
<1>q. ASSUME stage \notin {"collect", "failed"}, stage' \notin {"collect", "failed"}
      PROVE  UNCHANGED NodesWL!vars
  BY <1>q DEF NodesWL!vars, At
<1>w. ASSUME NodesWL!Work, ~At("failed") PROVE NodesWL!Next
  BY <1>w DEF NodesWL!Next
<1>u. ASSUME UNCHANGED allvars PROVE UNCHANGED NodesWL!vars
  BY <1>u DEF NodesWL!vars, At, allvars, vars, cfgvars, history, NodeSucc, Numbered
<1>p. TidyInv /\ PassInv /\ StartInv /\ MembersInv
  BY DEF PassesInv
<1>1. CASE Step /\ UNCHANGED cfgvars
  <2>1. stage = "tidy" /\ stage' = "tidy"
    BY <1>1, <1>p, StepEnds DEF TidyInv, cfgvars
  <2> QED
    BY <1>q, <2>1
<1>2. CASE TidyLog \/ MarkNodes \/ BuildNodes \/ LinkNodes \/ IndexLinks \/ WalkBack \/ Found \/ CfgDone
  <2>1. stage \notin {"collect", "failed"} /\ stage' \notin {"collect", "failed"}
    BY <1>2 DEF TidyLog, MarkNodes, BuildNodes, LinkNodes, IndexLinks, WalkBack, Found, CfgDone, At
  <2> QED
    BY <1>q, <2>1
<1>3. CASE BeginMembers
  <2>1. /\ stage = "members" /\ stage' = "collect" /\ UNCHANGED <<vars, nodes, fi, startNode>> /\ pc = "done"
        /\ mid' = [m \in Mid |-> IF m = 1 THEN startNode[fi] ELSE NoNode]
        /\ number' = [k \in 0 .. Len(nodes) |-> 0]
    BY <1>3 DEF BeginMembers, At
  <2>2. ~At("collect") /\ ~At("failed") /\ At("collect")'
    BY <2>1 DEF At, vars
  <2>3. Numbered' = {}
    BY <2>1 DEF Numbered
  <2>4. startNode[fi] \in Nat \ {0}
    <3>1. CollectInv' /\ Ready /\ BlocksInv /\ IsTable
      BY <1>p, <2>1 DEF PassesInv, TidyInv, PassInv, MembersInv
    <3>2. startNode[fi] \in DOMAIN nodes
      BY <2>1, <3>1 DEF CollectInv, Held
    <3>3. DOMAIN nodes = 1 .. Len(nodes) /\ Len(nodes) \in Nat
      BY <3>1, TableIs DEF Ready
    <3> QED
      BY <3>2, <3>3
  <2>5. Range(mid') \ {NoNode, 0} = {startNode[fi]}
    <3>1. 1 \in Mid
      BY MidAssumption DEF Mid
    <3>2. DOMAIN mid' = Mid /\ mid'[1] = startNode[fi] /\ \A a \in Mid : a # 1 => mid'[a] = NoNode
      BY <2>1, <3>1
    <3>3. Range(mid') = {mid'[a] : a \in Mid}
      BY <3>2 DEF Range
    <3> QED
      BY <2>4, <3>1, <3>2, <3>3 DEF NoNode
  <2>6. {startNode[fi]}' = {startNode[fi]}
    BY <2>1
  <2>7. NodesWL!Begin
    BY <2>2, <2>3, <2>5, <2>6 DEF NodesWL!Begin
  <2> QED
    BY <1>w, <2>2, <2>7 DEF NodesWL!Work
<1>4. CASE CollectNode
  <2>1. /\ stage = "collect" /\ pc = "done" /\ pc' = pc /\ stage' \in {"collect", "failed"}
    BY <1>4 DEF CollectNode, At, vars
  <2>2. stage' = "collect" /\ At("collect") /\ At("collect")' /\ ~At("failed")
    BY <2>1 DEF At
  <2>3. /\ Ready /\ BlocksInv /\ NodesInv /\ IsTable /\ CollectInv /\ CollectInv'
        /\ \A k \in DOMAIN nodes : Of(k) = fi => Leads(k)
    BY <1>p, <2>1, <2>2 DEF PassesInv, TidyInv, PassInv, MembersInv, TablesInv
  <2> QED
    BY <1>4, <1>w, <2>2, <2>3, SimulateCollect
<1>5. CASE EndMembers
  <2>1. /\ stage = "collect" /\ stage' = "members" /\ pc = "done" /\ FreeIn(mid) = Mid
    BY <1>5 DEF EndMembers, At
  <2>2. At("collect") /\ ~At("collect")' /\ ~At("failed")
    BY <2>1 DEF At
  <2>3. Range(mid) \ {NoNode, 0} = {}
    <3>1. mid \in [Mid -> {NoNode} \cup DOMAIN nodes]
      BY <1>p, <2>1 DEF MembersInv, CollectInv
    <3> QED
      BY <2>1, <3>1 DEF FreeIn, Range
  <2>4. NodesWL!Begin
    BY <2>2, <2>3 DEF NodesWL!Begin
  <2> QED
    BY <1>w, <2>2, <2>4 DEF NodesWL!Work
<1>6. CASE CfgStopped
  BY <1>6, <1>u DEF CfgStopped
<1> QED
  BY <1>1, <1>2, <1>3, <1>4, <1>5, <1>6, <1>u DEF CfgNext, Work, CfgStep

\* The nodes of a function are found as a search from its start node finds them, each
\* visited once and no sooner than it was found, until a slot is lacking: the refinement
\* of the abstract search by create_function_node_members.
THEOREM MembersImplement ==
  CfgSpec /\ []TablesFound /\ []NopsFirst /\ []SparseLists /\ []NoRings => MembersImplementWorklist
<1>1. CfgInit => NodesWL!Init
  BY DEF CfgInit, NodesWL!Init, At
<1> QED
  BY <1>1, SimulateMembers, PassesInvariant, PTL DEF CfgSpec, MembersImplementWorklist, NodesWL!Spec

-----------------------------------------------------------------------------
(* The types *)

\* Every object file has a function; without one main has no start node to look for.
HasCode == \A p \in Programs : p.entries # <<>>

LEMMA EntriesStay == [CfgNext]_allvars => entries' = entries
<1>1. Step => entries' = entries
  BY DEF Step, StartFunction, AllExplored, TakeSlot, RepeatPass, FinishFunction, Return,
     OverRan, MarkOverrun, BadMark, Rejoin, Decode, LogOverrun, Refused, NoTable, Execute, Queue, Advance,
     Stop, vars, program
<1> QED
  BY <1>1 DEF CfgNext, Work, CfgStep, CfgStopped, TidyLog, MarkNodes, BuildNodes, LinkNodes, IndexLinks,
     WalkBack, Found, BeginMembers, CollectNode, EndMembers, CfgDone, allvars, vars, program

NodeType == [first : Insts, last : Insts, prev : Seq(Nat), next : Seq(Nat), index : Seq(Nat \ {0})]

\* The table grows once, behind the stages in which slots and numbers are blank.
TypesInv ==
  /\ stage \in {"tidy", "mark", "build", "link", "index", "start", "members", "collect",
                "paths", "failed"}
  /\ stage \in {"tidy", "mark", "build"} =>
       nodes = <<>> /\ number = <<>> /\ \A a \in Mid : mid[a] = NoNode
  /\ stage \in {"tidy", "mark"} => starts = {} /\ ends = {}
  /\ member \in [Index -> Nat] /\ at \in Index
  /\ \A k \in DOMAIN nodes : nodes[k] \in NodeType
  /\ mid \in [Mid -> {NoNode} \cup 0 .. Len(nodes)]
  /\ number = <<>> \/ number \in [0 .. Len(nodes) -> 0 .. Len(nodes) + 1]

LEMMA TypesBuild ==
  ASSUME Ready, BlocksInv, NodesInv', BuildNodes PROVE member' \in [Index -> Nat]
<1>i. /\ FunctionInv /\ Insts' = Insts /\ Insts \subseteq Index /\ starts \subseteq Insts
  BY DEF Ready, FunctionInv, BlocksInv, BuildNodes, vars, Insts
<1>1. member' = [i \in Index |->
        Max({0} \cup {Rank(j) : j \in {j \in starts \cap Insts : i \in Range(Chain[j])}})]
  BY DEF BuildNodes
<1>n. DOMAIN nodes' = 1 .. NodeCount
  BY DEF BuildNodes
<1>2. NodeCount \in Nat
  BY <1>i, RanksIs
<1>3. \A i \in Insts : member'[i] \in Nat
  <2>1. \A i \in Insts : member'[i] \in DOMAIN nodes'
    BY <1>i DEF NodesInv
  <2> QED
    BY <1>n, <1>2, <2>1
<1>4. ASSUME NEW i \in Index, i \notin Insts PROVE member'[i] \in Nat
  <2>1. \A j \in starts : i \notin Range(Chain[j])
    BY <1>i, <1>4, ChainsMade DEF WellMade, Body
  <2>2. {Rank(j) : j \in {j \in starts \cap Insts : i \in Range(Chain[j])}} = {}
    BY <2>1
  <2>3. member'[i] = Max({0})
    BY <1>1, <2>2
  <2>4. Max({0}) = 0
    <3>1. Max({0}) = CHOOSE m \in {0} : \A y \in {0} : m >= y
      BY DEF Max
    <3>2. 0 \in {0} /\ \A y \in {0} : 0 >= y
      OBVIOUS
    <3>3. \A m \in {0} : m = 0
      OBVIOUS
    <3> QED
      BY <3>1, <3>2, <3>3
  <2> QED
    BY <2>3, <2>4
<1>5. member' = [i \in Index |-> member'[i]]
  BY <1>1
<1> QED
  BY <1>3, <1>4, <1>5

\* Links are sequences of nodes.
LEMMA LinksTyped ==
  ASSUME Ready, BlocksInv, NodesInv, IsTable, NEW k \in DOMAIN nodes
  PROVE  /\ [m \in 1 .. Len(Goes(k)) |-> member[Goes(k)[m]]] \in Seq(DOMAIN nodes)
         /\ [m \in 1 .. Len(Comes(k)) |-> member[Comes(k)[m]]] \in Seq(DOMAIN nodes)
         /\ DOMAIN nodes = 1 .. Len(nodes) /\ Len(nodes) \in Nat /\ DOMAIN nodes \subseteq Nat \ {0}
<1>1. /\ Len(Goes(k)) \in Nat /\ Len(Comes(k)) \in Nat
      /\ \A m \in 1 .. Len(Goes(k)) : member[Goes(k)[m]] \in DOMAIN nodes
      /\ \A m \in 1 .. Len(Comes(k)) : member[Comes(k)[m]] \in DOMAIN nodes
  BY EndsMeet, LenProperties
<1>2. DOMAIN nodes = 1 .. Len(nodes) /\ Len(nodes) \in Nat
  BY TableIs DEF Ready
<1>3. DOMAIN nodes \subseteq Nat \ {0}
  BY <1>2
<1> DEFINE a == [m \in 1 .. Len(Goes(k)) |-> member[Goes(k)[m]]]
           b == [m \in 1 .. Len(Comes(k)) |-> member[Comes(k)[m]]]
<1>4. a \in [1 .. Len(Goes(k)) -> DOMAIN nodes] /\ b \in [1 .. Len(Comes(k)) -> DOMAIN nodes]
  BY <1>1
<1> HIDE DEF a, b
<1>5. a \in Seq(DOMAIN nodes) /\ b \in Seq(DOMAIN nodes)
  BY <1>1, <1>4, SeqDef
<1> QED
  BY <1>2, <1>3, <1>5 DEF a, b

LEMMA SeqWider == ASSUME NEW S, NEW T, S \subseteq T, NEW s \in Seq(S) PROVE s \in Seq(T)
OBVIOUS

LEMMA TypesLink ==
  ASSUME Ready, BlocksInv, NodesInv, IsTable, \A k \in DOMAIN nodes : nodes[k] \in NodeType, LinkNodes,
         NEW k \in DOMAIN nodes
  PROVE  nodes'[k] \in NodeType
<1> DEFINE p == [m \in DOMAIN log[nodes[k].first].prev |-> FindNode[log[nodes[k].first].prev[m]]]
           q == [m \in DOMAIN log[nodes[k].last].next |-> FindNode[log[nodes[k].last].next[m]]]
<1>1. Leads(k)'
  BY LinksMade
<1>2. member' = member /\ Goes(k)' = Goes(k) /\ Comes(k)' = Comes(k)
  BY LinkedIs DEF Goes, Comes, LinkNodes, vars, history
<1>3. nodes'[k].prev = p /\ nodes'[k].next = q
  BY LinkedIs
<1>4. nodes'[k] = [nodes[k] EXCEPT !.prev = p, !.next = q]
  BY DEF LinkNodes
<1> HIDE DEF p, q
<1>5. p = [m \in 1 .. Len(Comes(k)) |-> member[Comes(k)[m]]]
      /\ q = [m \in 1 .. Len(Goes(k)) |-> member[Goes(k)[m]]]
  BY <1>1, <1>2, <1>3 DEF Leads
<1>6. p \in Seq(DOMAIN nodes) /\ q \in Seq(DOMAIN nodes) /\ DOMAIN nodes \subseteq Nat
  BY <1>5, LinksTyped
<1>7. p \in Seq(Nat) /\ q \in Seq(Nat)
  BY <1>6, SeqWider
<1> QED
  BY <1>4, <1>7 DEF NodeType

LEMMA TypesIndex ==
  ASSUME Ready, BlocksInv, NodesInv, IsTable, \A k \in DOMAIN nodes : nodes[k] \in NodeType,
         \A k \in DOMAIN nodes : Leads(k), IndexLinks, NEW k \in DOMAIN nodes
  PROVE  nodes'[k] \in NodeType
<1> DEFINE x == [l \in DOMAIN nodes[k].prev |-> Max({1} \cup LinksTo(nodes[k].prev[l], k))]
<1>1. nodes'[k].index = x /\ nodes'[k] = [nodes[k] EXCEPT !.index = x]
  BY IndexedIs DEF IndexLinks
<1>2. Indexed(k)'
  BY IndicesMade
<1>3. Comes(k)' = Comes(k) /\ log' = log /\ nodes'[k].first = nodes[k].first
  BY IndexedIs DEF Comes, IndexLinks, vars, history
<1>4. DOMAIN nodes[k].prev = 1 .. Len(Comes(k))
  BY DEF Leads
<1>5. Len(Comes(k)) \in Nat
  BY EndsMeet, LenProperties
<1>6. \A l \in 1 .. Len(Comes(k)) : Len(log[Comes(k)[l]].next) \in Nat
  <2>1. ASSUME NEW l \in 1 .. Len(Comes(k)) PROVE Len(log[Comes(k)[l]].next) \in Nat
    <3>1. Comes(k)[l] \in Insts
      BY EndsMeet
    <3>2. log[Comes(k)[l]].next \in Seq(Insts)
      BY <3>1 DEF Ready, ListsInv
    <3> QED
      BY <3>2, LenProperties
  <2> QED
    BY <2>1
<1>7. \A l \in 1 .. Len(Comes(k)) : nodes'[k].index[l] \in 1 .. Len(log[Comes(k)[l]].next)
  BY <1>2, <1>3 DEF Indexed
<1>8. x = [l \in 1 .. Len(Comes(k)) |-> x[l]]
  BY <1>4
<1> HIDE DEF x
<1>9. \A l \in 1 .. Len(Comes(k)) : x[l] \in Nat \ {0}
  BY <1>1, <1>6, <1>7
<1>10. x \in Seq(Nat \ {0})
  BY <1>5, <1>8, <1>9, SeqDef
<1> QED
  BY <1>1, <1>10 DEF NodeType

LEMMA TypesEnd ==
  ASSUME Ready, BlocksInv, NodesInv, IsTable, \A k \in DOMAIN nodes : nodes[k] \in NodeType,
         CollectInv, \A k \in DOMAIN nodes : Of(k) = fi => Leads(k), EndMembers, NEW k \in DOMAIN nodes
  PROVE  nodes'[k] \in NodeType
<1>1. CASE k \notin Numbered
  BY <1>1, RenamedIs
<1>2. CASE k \in Numbered
  <2> DEFINE p == Renumbered(nodes[k].prev)  q == Renumbered(nodes[k].next)
  <2>1. nodes[k].prev \in Seq(DOMAIN nodes) /\ nodes[k].next \in Seq(DOMAIN nodes)
        /\ DOMAIN nodes \subseteq Nat
    <3>1. Leads(k)
      BY <1>2 DEF CollectInv
    <3> QED
      BY <3>1, LinksTyped DEF Leads
  <2>2. \A j \in DOMAIN nodes : number[j] \in Nat
    BY NumberedFinite DEF CollectInv, Ready
  <2>3. ASSUME NEW s \in Seq(DOMAIN nodes) PROVE Renumbered(s) \in Seq(Nat)
    <3>1. Len(s) \in Nat /\ DOMAIN s = 1 .. Len(s) /\ \A m \in 1 .. Len(s) : s[m] \in DOMAIN nodes
      BY LenProperties, ElementOfSeq
    <3>2. Renumbered(s) \in [1 .. Len(s) -> Nat]
      BY <2>2, <3>1 DEF Renumbered
    <3> QED
      BY <3>1, <3>2, SeqDef
  <2>4. p \in Seq(Nat) /\ q \in Seq(Nat)
    BY <2>1, <2>3
  <2>5. nodes'[k] = [nodes[k] EXCEPT !.prev = p, !.next = q]
    <3>1. nodes'[k] = [nodes[k] EXCEPT !.prev = Renumbered(@), !.next = Renumbered(@)]
      BY <1>2, Zenon DEF EndMembers
    <3>2. [nodes[k] EXCEPT !.prev = Renumbered(@), !.next = Renumbered(@)]
            = [nodes[k] EXCEPT !.prev = p, !.next = q]
      BY DEF NodeType
    <3> QED
      BY <3>1, <3>2
  <2> HIDE DEF p, q
  <2> QED
    BY <2>4, <2>5 DEF NodeType
<1> QED
  BY <1>1, <1>2

LEMMA TypesNumber ==
  ASSUME Ready, BlocksInv, NodesInv, IsTable, CollectInv,
         \A k \in DOMAIN nodes : Of(k) = fi => Leads(k), CollectNode,
         number \in [0 .. Len(nodes) -> 0 .. Len(nodes) + 1]
  PROVE  number' \in [0 .. Len(nodes) -> 0 .. Len(nodes) + 1]
<1>1. PICK k \in Held : number' = Numbering(k)
  BY CollectTurn
<1>2. DOMAIN nodes = 1 .. Len(nodes) /\ Len(nodes) \in Nat
  BY TableIs DEF Ready
<1>3. Cardinality(Numbered) \in Nat /\ Cardinality(Numbered) <= Len(nodes)
  <2>1. Numbered \subseteq 1 .. Len(nodes)
    BY <1>2 DEF CollectInv
  <2>2. IsFiniteSet(1 .. Len(nodes)) /\ Cardinality(1 .. Len(nodes)) = Len(nodes)
    <3>1. IsFiniteSet(1 .. Len(nodes)) /\ Cardinality(1 .. Len(nodes)) = IF 1 > Len(nodes) THEN 0 ELSE Len(nodes) - 1 + 1
      BY <1>2, FS_Interval
    <3> QED
      BY <1>2, <3>1
  <2> QED
    BY <2>1, <2>2, FS_Subset, FS_CardinalityType
<1>4. Cardinality(Numbered) + 1 \in 0 .. Len(nodes) + 1
  BY <1>2, <1>3
<1> QED
  BY <1>1, <1>4 DEF Numbering

LEMMA TypesInit == CfgInit => TypesInv
<1> SUFFICES ASSUME CfgInit PROVE TypesInv
  OBVIOUS
<1>1. /\ stage = "tidy" /\ starts = {} /\ ends = {} /\ member = [i \in Index |-> 0] /\ nodes = <<>>
      /\ at = 0 /\ mid = [m \in Mid |-> NoNode] /\ number = <<>>
  BY DEF CfgInit
<1>2. 0 \in Index
  BY SizesAssumption DEF Index
<1>3. DOMAIN nodes = {}
  BY <1>1
<1> QED
  BY <1>1, <1>2, <1>3 DEF TypesInv

\* There is a function to look at.
Coded == entries \in Seq(Offset) /\ entries # <<>>

LEMMA CodedIs ==
  ASSUME Coded, FunctionInv
  PROVE  /\ Len(entries) \in Nat \ {0} /\ Insts # {} /\ Insts \subseteq Index
<1>1. Len(entries) \in Nat \ {0}
  BY EmptySeq, LenProperties DEF Coded
<1>2. 1 \in 1 .. Len(entries)
  BY <1>1
<1> QED
  BY <1>1, <1>2 DEF FunctionInv

\* What the passes that leave the table alone do to it.
LEMMA TypesSame ==
  ASSUME TypesInv, UNCHANGED <<nodes, member, at, mid, number>>, Insts' = Insts,
         stage' \in {"tidy", "mark", "build", "link", "index", "start", "members", "collect",
                     "paths", "failed"},
         stage' \in {"tidy", "mark", "build"} => stage \in {"tidy", "mark", "build"},
         stage' \in {"tidy", "mark"} => starts' = {} /\ ends' = {}
  PROVE  TypesInv'
BY DEF TypesInv, NodeType

LEMMA TypesStep ==
  PassesInv /\ PassesInv' /\ Coded /\ TypesInv /\ [CfgNext]_allvars => TypesInv'
<1> SUFFICES ASSUME PassesInv, PassesInv', Coded, TypesInv, [CfgNext]_allvars
             PROVE TypesInv'
  OBVIOUS
<1>p. /\ TidyInv /\ PassInv /\ StartInv /\ MembersInv
      /\ TidyInv' /\ PassInv' /\ StartInv' /\ MembersInv'
  BY DEF PassesInv
<1>c. Coded'
  BY EntriesStay DEF Coded
<1>r. stage # "tidy" => /\ Ready /\ FunctionInv
                        /\ Len(entries) \in Nat \ {0} /\ Insts # {} /\ Insts \subseteq Index
  <2>1. stage # "tidy" => Ready /\ FunctionInv
    BY <1>p DEF TidyInv, Ready
  <2> QED
    BY <2>1, CodedIs
<1>a. stage' = "start" => at' \in Index
  <2> SUFFICES ASSUME stage' = "start" PROVE at' \in Index
    OBVIOUS
  <2>1. FunctionInv'
    BY <1>p DEF TidyInv, Ready
  <2>2. Insts' # {} /\ Insts' \subseteq Index
    <3>1. 1 \in 1 .. Len(entries')
      <4>1. Len(entries') \in Nat \ {0}
        BY <1>c, EmptySeq, LenProperties DEF Coded
      <4> QED
        BY <4>1
    <3> QED
      BY <2>1, <3>1 DEF FunctionInv
  <2> QED
    BY <1>p, <2>2 DEF StartInv
<1>t. /\ nodes = <<>> => DOMAIN nodes = {} /\ Len(nodes) = 0
      /\ member \in [Index -> Nat] /\ at \in Index
      /\ \A k \in DOMAIN nodes : nodes[k] \in NodeType
      /\ mid \in [Mid -> {NoNode} \cup 0 .. Len(nodes)]
      /\ number = <<>> \/ number \in [0 .. Len(nodes) -> 0 .. Len(nodes) + 1]
  BY DEF TypesInv
<1>1. CASE Step /\ UNCHANGED cfgvars
  <2>1. stage = "tidy"
    BY <1>1, <1>p, StepEnds DEF TidyInv
  <2>2. nodes' = <<>> /\ DOMAIN nodes' = {}
    BY <1>1, <1>t, <2>1 DEF TypesInv, cfgvars
  <2>3. UNCHANGED <<stage, starts, ends, member, nodes, at, mid, number>>
    BY <1>1 DEF cfgvars
  <2> QED
    BY <2>1, <2>2, <2>3 DEF TypesInv
<1>2. CASE TidyLog
  <2>1. /\ stage = "tidy" /\ stage' = "mark" /\ UNCHANGED <<ilog, starts, ends, member, nodes, at, mid, number>>
    BY <1>2 DEF TidyLog, At
  <2>2. starts = {} /\ ends = {} /\ Insts' = Insts
    BY <2>1 DEF TypesInv, Insts
  <2> QED
    BY <2>1, <2>2, TypesSame
<1>3. CASE MarkNodes
  <2>1. stage = "mark" /\ stage' = "build" /\ UNCHANGED <<vars, member, nodes, at, mid, number>>
    BY <1>3 DEF MarkNodes, At
  <2>2. Insts' = Insts
    BY <2>1 DEF vars, Insts
  <2> QED
    BY <2>1, <2>2, TypesSame
<1>4. CASE BuildNodes
  <2>1. /\ stage = "build" /\ stage' = "link" /\ UNCHANGED <<vars, starts, ends, at, mid, number>>
        /\ nodes' = [k \in 1 .. NodeCount |-> NewNode(k)]
    BY <1>4 DEF BuildNodes, At
  <2>2. Insts' = Insts /\ NodeType' = NodeType
    BY <2>1 DEF vars, Insts, NodeType
  <2>3. Ready /\ FunctionInv /\ BlocksInv /\ NodesInv' /\ BlocksInv'
    BY <1>p, <1>r, <2>1 DEF PassInv
  <2>4. member' \in [Index -> Nat]
    BY <1>4, <2>3, TypesBuild
  <2>5. NodeCount \in Nat
    BY <2>3, RanksIs
  <2>6. DOMAIN nodes' = 1 .. NodeCount /\ Len(nodes') = NodeCount
    BY <2>1, <2>5
  <2>7. \A k \in DOMAIN nodes' : nodes'[k] \in NodeType
    <3>1. ASSUME NEW k \in DOMAIN nodes' PROVE nodes'[k] \in NodeType
      <4>1. nodes'[k].first \in starts' /\ nodes'[k].last \in ends'
        BY <2>3 DEF NodesInv
      <4>2. starts' \subseteq Insts' /\ ends' \subseteq Insts'
        BY <2>3 DEF BlocksInv
      <4>3. nodes'[k] = NewNode(k)
        BY <2>1, <2>6
      <4>4. nodes'[k].first = FirstOf(k) /\ nodes'[k].last = Last(Chain[FirstOf(k)])
        BY <4>3 DEF NewNode
      <4>5. FirstOf(k) \in Insts /\ Last(Chain[FirstOf(k)]) \in Insts
        BY <2>2, <4>1, <4>2, <4>4
      <4>6. <<>> \in Seq(Nat) /\ <<>> \in Seq(Nat \ {0})
        OBVIOUS
      <4> QED
        BY <4>3, <4>5, <4>6 DEF NewNode, NodeType
    <3> QED
      BY <3>1
  <2>8. number' = <<>> /\ mid' \in [Mid -> {NoNode} \cup 0 .. Len(nodes')]
    <3>1. number = <<>> /\ \A a \in Mid : mid[a] = NoNode
      BY <2>1 DEF TypesInv
    <3>2. mid \in [Mid -> {NoNode}]
      BY <1>t, <3>1
    <3> QED
      BY <2>1, <3>1, <3>2
  <2> QED
    BY <1>t, <2>1, <2>2, <2>4, <2>7, <2>8 DEF TypesInv
<1>5. CASE LinkNodes
  <2>1. stage = "link" /\ stage' = "index" /\ UNCHANGED <<vars, starts, ends, member, at, mid, number>>
    BY <1>5 DEF LinkNodes, At
  <2>2. Insts' = Insts /\ NodeType' = NodeType
    BY <2>1 DEF vars, Insts, NodeType
  <2>3. Ready /\ BlocksInv /\ NodesInv /\ IsTable /\ IsTable'
    BY <1>p, <1>r, <2>1 DEF PassInv, MembersInv
  <2>4. DOMAIN nodes' = DOMAIN nodes /\ Len(nodes') = Len(nodes)
    BY <1>5, <2>3, LinkKept
  <2>5. \A k \in DOMAIN nodes' : nodes'[k] \in NodeType
    BY <1>5, <1>t, <2>3, <2>4, TypesLink
  <2> QED
    BY <1>t, <2>1, <2>2, <2>4, <2>5 DEF TypesInv
<1>6. CASE IndexLinks
  <2>1. stage = "index" /\ stage' = "start" /\ UNCHANGED <<vars, starts, ends, member, mid, number>>
    BY <1>6 DEF IndexLinks, At
  <2>2. Insts' = Insts /\ NodeType' = NodeType
    BY <2>1 DEF vars, Insts, NodeType
  <2>3. Ready /\ BlocksInv /\ NodesInv /\ IsTable /\ \A k \in DOMAIN nodes : Leads(k)
    BY <1>p, <1>r, <2>1 DEF PassInv, MembersInv
  <2>4. DOMAIN nodes' = DOMAIN nodes /\ Len(nodes') = Len(nodes)
    BY <1>6, <2>3, LinkKept
  <2>5. \A k \in DOMAIN nodes' : nodes'[k] \in NodeType
    BY <1>6, <1>t, <2>3, <2>4, TypesIndex
  <2> QED
    BY <1>t, <1>a, <2>1, <2>2, <2>4, <2>5 DEF TypesInv
<1>7. CASE WalkBack \/ Found
  <2>1. /\ stage = "start" /\ stage' \in {"start", "members"}
        /\ UNCHANGED <<vars, starts, ends, member, nodes, mid, number>>
        /\ stage' = "members" => at' = at
    BY <1>7 DEF WalkBack, Found, At
  <2>2. Insts' = Insts /\ NodeType' = NodeType
    BY <2>1 DEF vars, Insts, NodeType
  <2>3. at' \in Index
    BY <1>a, <1>t, <2>1
  <2> QED
    BY <1>t, <2>1, <2>2, <2>3 DEF TypesInv
<1>8. CASE BeginMembers
  <2>1. /\ stage = "members" /\ stage' = "collect" /\ UNCHANGED <<vars, starts, ends, member, nodes, at>>
        /\ number' = [k \in 0 .. Len(nodes) |-> 0]
    BY <1>8 DEF BeginMembers, At
  <2>2. Insts' = Insts /\ NodeType' = NodeType
    BY <2>1 DEF vars, Insts, NodeType
  <2>3. Ready /\ FunctionInv /\ BlocksInv /\ IsTable /\ CollectInv'
    BY <1>p, <1>r, <2>1 DEF PassInv, MembersInv
  <2>4. DOMAIN nodes = 1 .. Len(nodes) /\ Len(nodes) \in Nat
    BY <2>3, TableIs
  <2>5. mid' \in [Mid -> {NoNode} \cup DOMAIN nodes]
    BY <2>1, <2>3 DEF CollectInv
  <2>6. mid' \in [Mid -> {NoNode} \cup 0 .. Len(nodes)]
    BY <2>4, <2>5
  <2>7. number' \in [0 .. Len(nodes) -> 0 .. Len(nodes) + 1]
    BY <2>1, <2>4
  <2> QED
    BY <1>t, <2>1, <2>2, <2>6, <2>7 DEF TypesInv
<1>9. CASE CollectNode
  <2>1. /\ stage = "collect" /\ stage' \in {"collect", "failed"}
        /\ UNCHANGED <<vars, starts, ends, member, nodes, at>> /\ (stage' = "failed" => mid' = mid)
    BY <1>9 DEF CollectNode, At
  <2>2. Insts' = Insts /\ NodeType' = NodeType
    BY <2>1 DEF vars, Insts, NodeType
  <2>3. /\ Ready /\ FunctionInv /\ BlocksInv /\ NodesInv /\ IsTable /\ CollectInv
        /\ \A k \in DOMAIN nodes : Of(k) = fi => Leads(k)
    <3>1. /\ Ready /\ FunctionInv /\ BlocksInv /\ NodesInv /\ IsTable /\ CollectInv /\ TablesInv
          /\ fi = Len(members) + 1
      BY <1>p, <1>r, <2>1 DEF PassInv, MembersInv
    <3>2. Len(members) \in Nat
      BY <3>1, LenProperties DEF TablesInv
    <3> QED
      BY <3>1, <3>2 DEF TablesInv
  <2>4. DOMAIN nodes = 1 .. Len(nodes) /\ Len(nodes) \in Nat
    BY <2>3, TableIs
  <2>5. mid' \in [Mid -> {NoNode} \cup 0 .. Len(nodes)]
    <3>1. CASE stage' = "failed"
      BY <1>t, <2>1, <3>1
    <3>2. CASE stage' = "collect"
      <4>1. CollectInv'
        BY <1>p, <3>2 DEF MembersInv
      <4>2. mid' \in [Mid -> {NoNode} \cup DOMAIN nodes]
        BY <2>1, <4>1 DEF CollectInv
      <4> QED
        BY <2>4, <4>2
    <3> QED
      BY <2>1, <3>1, <3>2
  <2>6. number \in [0 .. Len(nodes) -> 0 .. Len(nodes) + 1]
    <3>1. DOMAIN number = 0 .. Len(nodes)
      BY <2>3 DEF CollectInv
    <3>2. number # <<>>
      <4>1. 0 \in DOMAIN number
        BY <2>4, <3>1
      <4> QED
        BY <4>1
    <3> QED
      BY <1>t, <3>2
  <2>7. number' \in [0 .. Len(nodes) -> 0 .. Len(nodes) + 1]
    BY <1>9, <2>3, <2>6, TypesNumber
  <2> QED
    BY <1>t, <2>1, <2>2, <2>5, <2>7 DEF TypesInv
<1>10. CASE EndMembers
  <2>1. /\ stage = "collect" /\ stage' = "members" /\ UNCHANGED <<vars, starts, ends, member, at, mid, number>>
    BY <1>10 DEF EndMembers, At
  <2>2. Insts' = Insts /\ NodeType' = NodeType
    BY <2>1 DEF vars, Insts, NodeType
  <2>3. /\ Ready /\ FunctionInv /\ BlocksInv /\ NodesInv /\ IsTable /\ CollectInv
        /\ \A k \in DOMAIN nodes : Of(k) = fi => Leads(k)
    <3>1. /\ Ready /\ FunctionInv /\ BlocksInv /\ NodesInv /\ IsTable /\ CollectInv /\ TablesInv
          /\ fi = Len(members) + 1
      BY <1>p, <1>r, <2>1 DEF PassInv, MembersInv
    <3>2. Len(members) \in Nat
      BY <3>1, LenProperties DEF TablesInv
    <3> QED
      BY <3>1, <3>2 DEF TablesInv
  <2>4. DOMAIN nodes' = DOMAIN nodes /\ Len(nodes') = Len(nodes)
    BY <1>10, <2>3, LinkKept
  <2>5. \A k \in DOMAIN nodes' : nodes'[k] \in NodeType
    BY <1>10, <1>t, <2>3, <2>4, TypesEnd
  <2> QED
    BY <1>t, <2>1, <2>2, <2>4, <2>5 DEF TypesInv
<1>11. CASE CfgDone
  <2>1. stage' = "paths" /\ UNCHANGED <<vars, starts, ends, member, nodes, at, mid, number>>
    BY <1>11 DEF CfgDone
  <2>2. Insts' = Insts
    BY <2>1 DEF vars, Insts
  <2> QED
    BY <2>1, <2>2, TypesSame
<1>12. CASE CfgStopped \/ UNCHANGED allvars
  <2>1. UNCHANGED <<vars, stage, starts, ends, member, nodes, at, mid, number>>
    BY <1>12 DEF CfgStopped, allvars, cfgvars
  <2>2. Insts' = Insts
    BY <2>1 DEF vars, Insts
  <2> QED
    BY <2>1, <2>2 DEF TypesInv, NodeType
<1> QED
  BY <1>1, <1>2, <1>3, <1>4, <1>5, <1>6, <1>7, <1>8, <1>9, <1>10, <1>11, <1>12 DEF CfgNext, Work, CfgStep

\* Function tables, start nodes and the loop over the functions are as wide as what
\* they count.
LEMMA TypesAre == PassesInv /\ Coded /\ TypesInv => CfgTypeOK
<1> SUFFICES ASSUME PassesInv, Coded, TypesInv PROVE CfgTypeOK
  OBVIOUS
<1>p. TidyInv /\ PassInv /\ StartInv /\ MembersInv
  BY DEF PassesInv
<1>t. /\ stage \in {"tidy", "mark", "build", "link", "index", "start", "members", "collect",
                    "paths", "failed"}
      /\ member \in [Index -> Nat] /\ at \in Index
      /\ mid \in [Mid -> {NoNode} \cup 0 .. Len(nodes)]
      /\ number = <<>> \/ number \in [0 .. Len(nodes) -> 0 .. Len(nodes) + 1]
  BY DEF TypesInv
<1>c. Len(entries) \in Nat \ {0}
  BY EmptySeq, LenProperties DEF Coded
<1>1. starts \subseteq Index /\ ends \subseteq Index
  <2>1. CASE stage \in {"tidy", "mark"}
    BY <2>1 DEF TypesInv
  <2>2. CASE stage \notin {"tidy", "mark"}
    BY <1>p, <2>2 DEF PassInv, BlocksInv, TidyInv, Ready, FunctionInv
  <2> QED
    BY <2>1, <2>2
<1>2. stage \notin {"tidy", "mark", "build"} => DOMAIN nodes = 1 .. Len(nodes) /\ Len(nodes) \in Nat
  BY <1>p, TableIs DEF PassInv, MembersInv, TidyInv, Ready
<1>3. nodes \in Seq(NodeType)
  <2>1. CASE stage \in {"tidy", "mark", "build"}
    <3>1. nodes = <<>>
      BY <2>1 DEF TypesInv
    <3> QED
      BY <3>1, EmptySeq
  <2>2. CASE stage \notin {"tidy", "mark", "build"}
    <3>1. nodes \in [1 .. NodeCount -> Range(nodes)] /\ FunctionInv /\ BlocksInv
      BY <1>p, <2>2 DEF PassInv, MembersInv, IsTable, TidyInv, Ready
    <3>2. NodeCount \in Nat
      BY <3>1, RanksIs
    <3>3. nodes \in [1 .. NodeCount -> NodeType]
      BY <3>1 DEF TypesInv
    <3> QED
      BY <3>2, <3>3, SeqDef
  <2> QED
    BY <2>1, <2>2
<1>4. fi \in 1 .. Len(entries) + 1
  <2>1. stage = "start" => Insts # {}
    BY <1>p, CodedIs DEF TidyInv, Ready
  <2> QED
    BY <1>p, <1>c, <1>t, <2>1 DEF StartInv
<1>5. startNode \in Seq(DOMAIN nodes)
  <2>1. CASE stage \in {"tidy", "mark", "build"}
    <3>1. startNode = <<>>
      BY <1>p, <2>1 DEF StartInv
    <3> QED
      BY <3>1, EmptySeq
  <2>2. CASE stage \notin {"tidy", "mark", "build"}
    BY <1>p, <2>2 DEF StartInv
  <2> QED
    BY <2>1, <2>2
<1>6. members \in Seq(Seq(0 .. Len(nodes)))
  <2>1. CASE stage \in {"tidy", "mark", "build", "link", "index", "start"}
    <3>1. members = <<>>
      BY <1>p, <2>1 DEF MembersInv
    <3> QED
      BY <3>1, EmptySeq
  <2>2. CASE stage \notin {"tidy", "mark", "build", "link", "index", "start"}
    <3>1. members \in Seq(Seq(DOMAIN nodes))
      BY <1>p, <2>2 DEF MembersInv, TablesInv
    <3>2. DOMAIN nodes \subseteq 0 .. Len(nodes)
      BY <1>2, <2>2
    <3>3. Seq(DOMAIN nodes) \subseteq Seq(0 .. Len(nodes))
      BY <3>2, SeqWider
    <3> QED
      BY <3>1, <3>3, SeqWider
  <2> QED
    BY <2>1, <2>2
<1> QED
  BY <1>t, <1>1, <1>3, <1>4, <1>5, <1>6 DEF CfgTypeOK, NodeType

\* The variables of the passes hold what the C types and tables allow.
THEOREM CfgTypeCorrect ==
  HasCode => (CfgSpec /\ []TablesFound /\ []NopsFirst /\ []SparseLists /\ []NoRings => []CfgTypeOK)
<1> SUFFICES ASSUME HasCode
             PROVE  CfgSpec /\ []TablesFound /\ []NopsFirst /\ []SparseLists /\ []NoRings => []CfgTypeOK
  OBVIOUS
<1>1. CfgInit => Coded
  BY ProgramsAssumption DEF CfgInit, Init, HasCode, Coded
<1>2. Coded /\ [CfgNext]_allvars => Coded'
  BY EntriesStay DEF Coded
<1> QED
  BY <1>1, <1>2, TypesInit, TypesStep, TypesAre, PassesInvariant, PTL DEF CfgSpec

=============================================================================
