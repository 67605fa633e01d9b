--------------------------- MODULE WorklistProofs ---------------------------
(***************************************************************************)
(* What the worklist finds: when nothing is left to visit, exactly the     *)
(* places that can be reached from the root.                               *)
(***************************************************************************)
EXTENDS Worklist, TLAPS

\* The places visited are the least set that contains the root and is closed.
Exact ==
  alive /\ frontier = {} =>
    /\ root \subseteq visited /\ Closed(visited)
    /\ \A S : root \subseteq S /\ Closed(S) => visited \subseteq S

LEMMA SoundStep == Sound /\ [Next]_vars => Sound'
<1> SUFFICES ASSUME Sound, [Next]_vars, alive',
                    NEW S, root' \subseteq S, Closed(S)'
             PROVE  visited' \cup frontier' \subseteq S
  BY DEF Sound
<1>1. CASE UNCHANGED vars
  BY <1>1 DEF Sound, vars, Closed
<1>2. CASE alive /\ Begin
  BY <1>2 DEF Begin
<1>3. ASSUME alive, NEW a \in frontier, Visit(a)
      PROVE  visited' \cup frontier' \subseteq S
  <2>1. visited \cup frontier \subseteq S
    BY <1>3 DEF Sound, Visit, Closed
  <2>2. succ[a] \subseteq S
    BY <1>3, <2>1 DEF Closed, Visit
  <2> QED BY <1>3, <2>1, <2>2 DEF Visit
<1>4. ASSUME alive, NEW a \in frontier, Drop(a)
      PROVE  visited' \cup frontier' \subseteq S
  BY <1>4 DEF Sound, Drop, Closed
<1> QED BY <1>1, <1>2, <1>3, <1>4 DEF Next, Work

LEMMA CompleteStep == Complete /\ [Next]_vars => Complete'
<1> SUFFICES ASSUME Complete, [Next]_vars, alive'
             PROVE  /\ root' \subseteq visited' \cup frontier'
                    /\ \A b \in visited' : succ'[b] \subseteq visited' \cup frontier'
  BY DEF Complete
<1>1. CASE UNCHANGED vars
  BY <1>1 DEF Complete, vars
<1>2. CASE alive /\ Begin
  BY <1>2 DEF Begin
<1>3. ASSUME alive, NEW a \in frontier, Visit(a)
      PROVE  /\ root' \subseteq visited' \cup frontier'
             /\ \A b \in visited' : succ'[b] \subseteq visited' \cup frontier'
  BY <1>3 DEF Complete, Visit
<1>4. ASSUME alive, NEW a \in frontier, Drop(a)
      PROVE  /\ root' \subseteq visited' \cup frontier'
             /\ \A b \in visited' : succ'[b] \subseteq visited' \cup frontier'
  BY <1>4 DEF Complete, Drop
<1> QED BY <1>1, <1>2, <1>3, <1>4 DEF Next, Work

\* What main and process_block do to the code, and create_function_node_members
\* to the nodes, as ImplementsWorklist and MembersImplementWorklist say, finds
\* all that control can reach, and nothing else, in every graph.
THEOREM WorklistExact == Spec => []Exact
<1>1. Init => Sound /\ Complete
  BY DEF Init, Sound, Complete
<1>2. (Sound /\ Complete) /\ [Next]_vars => (Sound /\ Complete)'
  BY SoundStep, CompleteStep
<1>3. Sound /\ Complete => Exact
  BY DEF Sound, Complete, Exact, Closed
<1> QED BY <1>1, <1>2, <1>3, PTL DEF Spec
=============================================================================
