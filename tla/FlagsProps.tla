----------------------------- MODULE FlagsProps -----------------------------
(***************************************************************************)
(* What the passes over the flags promise of the log they leave.           *)
(***************************************************************************)
EXTENDS Flags, ExploreProps

Fixed == stage = "fixed"
Into(l, i) == {j \in Insts : i \in Range(l[j].next)}

Begins(l, i) == l[i].prev = <<>>

\* The entries from which control may come to i, with none of Until between.
Way(l, i, Until) ==
  LET Back[m \in Nat] == IF m = 0 THEN Into(l, i)
                         ELSE LET w == Back[m - 1] IN w \cup UNION {Into(l, j) : j \in w \ Until}
  IN  Back[Cardinality(Insts)]

\* The two lists of every link agree; the second entry of some may be exempt.
Paired(Exempt) == \A i, j \in Insts : j \notin Exempt => (j \in Range(log[i].next) <=> i \in Range(log[j].prev))

\* The log the exploration leaves: every list names entries of it, and every function
\* has one.
LogLinked ==
  /\ log \in [Index -> Entry] /\ ilog \in 1 .. LogSize /\ Paired({})
  /\ \A i \in Insts : Range(log[i].next) \subseteq 0 .. ilog - 1 /\ Range(log[i].prev) \subseteq 0 .. ilog - 1
  /\ \A f \in DOMAIN entries : FirstInst(f) \in Insts

\* A function that began where control comes from nowhere still does.
BeginningsKept == \A f \in DOMAIN entry : Begins(before.log, before.entry[f]) => Begins(log, entry[f])

\* The two lists of every link agree before the passes, and after all that they insert,
\* and no function loses its beginning; the ADD of an SBB's selection is known to be left
\* behind (insert_nop_before, insert_nop_after).
LinksPaired == (At("mark") => LogLinked) /\ (Fixed => Paired(moved) /\ BeginningsKept)

\* The instructions that set the flags, as the exploration left the log.
Setting == {i \in Insts : before.inst[i].flags = 1}
Comparing(reg) == {i \in Insts : inst[i].op = "ICMP" /\ inst[i].d = reg}

\* On all ways to i the last entry of Until is one of Those, and there is one.
Always(l, i, Until, Those) ==
  LET back == Way(l, i, Until)
  IN  /\ back \cap Until # {} /\ back \cap Until \subseteq Those
      /\ \A j \in (back \ Until) \cup {i} : ~Begins(l, j)

\* Where one instruction sets the flags for a branch, whatever the way to it, all the
\* ways in the changed log lead over an ICMP of what that instruction computed into the
\* register the branch tests, and over no other ICMP into it behind that.  Programs with a
\* function that begins with the head of a loop are left out: it goes on beginning there,
\* behind what was inserted.
BranchesTestTheirSetter ==
  (Fixed /\ \A f \in DOMAIN entry : Begins(before.log, before.entry[f])) => \A i \in Insts : inst[i].op = "BC" =>
    \A set \in Setting : Always(before.log, i, Setting, {set}) =>
      Always(log, i, Comparing(inst[i].a), {c \in Insts : made[c] = set})
=============================================================================
