------------------------- MODULE ActTreeShape_proofs -------------------------
(***************************************************************************)
(* Proofs about ActTree, for every set of nodes, depth, limit of blocks,   *)
(* undo depth and clipboard:                                               *)
(*   Structure     the inductive invariant IInv;                           *)
(*   TypeCorrect   every node in use is in the tree or in a snapshot, once.*)
(*                                                                         *)
(* The order: graphs, sequences, what a tree is (Wired, Shape, Numbered),  *)
(* what each operator of ActTree makes of one, what each action does       *)
(* (Adds, Joins, Deletes, Moves, Pastes), the invariant.                   *)
(***************************************************************************)
EXTENDS ActTree, FiniteSetTheorems, SequenceTheorems, TLAPS

-----------------------------------------------------------------------------
(* Graphs of nodes: what is reached from a node, and how it changes when   *)
(* an edge comes or goes.                                                  *)

Graph == [Parents -> SUBSET Parents]

\* No chain of steps goes on for ever: what holds of a node when it holds of
\* the next ones holds of every node.
Grounded(next) ==
    \A S \in SUBSET Parents :
        (\A p \in Parents : next[p] \subseteq S => p \in S) => Parents \subseteq S

\* Descendants is the function its definition describes: there is one.
LEMMA DescendantsOf ==
    ASSUME NEW next \in Graph
    PROVE  \A p \in Parents : Descendants(next)[p] =
                next[p] \cup UNION {Descendants(next)[c] : c \in next[p]}
<1> DEFINE Eq(f) == f = [p \in Parents |-> next[p] \cup UNION {f[c] : c \in next[p]}]
           Closed(S) == \A q \in S : next[q] \subseteq S
           Least == [p \in Parents |-> {y \in Parents :
                       \A S \in SUBSET Parents : Closed(S) /\ next[p] \subseteq S => y \in S}]
<1>1. \A p \in Parents : next[p] \subseteq Parents
  BY DEF Graph
<1>a. \A p \in Parents : \A y : y \in Least[p] <=>
         y \in Parents /\ \A S \in SUBSET Parents : Closed(S) /\ next[p] \subseteq S => y \in S
  OBVIOUS
<1>b. Eq(Least) <=> \A p \in Parents : Least[p] = next[p] \cup UNION {Least[c] : c \in next[p]}
  OBVIOUS
<1> HIDE DEF Least
<1>2. ASSUME NEW p \in Parents PROVE Least[p] = next[p] \cup UNION {Least[c] : c \in next[p]}
  <2>1. ASSUME NEW y \in next[p] PROVE y \in Least[p]
    BY <2>1, <1>1, <1>a
  <2>2. ASSUME NEW c \in next[p], NEW y \in Least[c] PROVE y \in Least[p]
    <3>1. c \in Parents /\ y \in Parents
      BY <1>1, <2>2, <1>a
    <3>2. ASSUME NEW S \in SUBSET Parents, Closed(S), next[p] \subseteq S PROVE y \in S
      <4>1. next[c] \subseteq S
        BY <3>2
      <4> QED BY <4>1, <3>2, <2>2, <3>1, <1>a
    <3> QED BY <3>1, <3>2, <1>a
  <2>3. ASSUME NEW y \in Least[p] PROVE y \in next[p] \cup UNION {Least[c] : c \in next[p]}
    <3> DEFINE S == next[p] \cup UNION {Least[c] : c \in next[p]}
    <3>1. S \in SUBSET Parents
      BY <1>1, <1>a
    <3>2. ASSUME NEW q \in S PROVE next[q] \subseteq S
      <4>1. CASE q \in next[p]
        <5>1. q \in Parents
          BY <4>1, <1>1
        <5>2. next[q] \subseteq Least[q]
          BY <5>1, <1>1, <1>a
        <5> QED BY <5>2, <4>1
      <4>2. CASE \E c \in next[p] : q \in Least[c]
        <5>1. PICK c \in next[p] : q \in Least[c]
          BY <4>2
        <5>2. c \in Parents /\ q \in Parents
          BY <5>1, <1>1, <1>a
        <5>3. ASSUME NEW z \in next[q] PROVE z \in Least[c]
          <6>1. z \in Parents
            BY <5>2, <5>3, <1>1
          <6>2. ASSUME NEW T \in SUBSET Parents, Closed(T), next[c] \subseteq T PROVE z \in T
            <7>1. q \in T
              BY <6>2, <5>1, <5>2, <1>a
            <7> QED BY <6>2, <7>1, <5>3
          <6> QED BY <6>1, <6>2, <5>2, <1>a
        <5> QED BY <5>3, <5>1
      <4> QED BY <3>2, <4>1, <4>2
    <3>3. next[p] \subseteq S
      OBVIOUS
    <3> HIDE DEF S
    <3>4. y \in S
      BY <2>3, <3>1, <3>2, <3>3, <1>a
    <3> QED BY <3>4 DEF S
  <2>4. Least[p] \subseteq next[p] \cup UNION {Least[c] : c \in next[p]}
    BY <2>3
  <2>5. next[p] \cup UNION {Least[c] : c \in next[p]} \subseteq Least[p]
    BY <2>1, <2>2
  <2> QED BY <2>4, <2>5
<1>3. Eq(Least)
  BY <1>2, <1>b
<1>4. Descendants(next) = CHOOSE f : Eq(f)
  BY DEF Descendants
<1> HIDE DEF Eq
<1>5. Eq(CHOOSE f : Eq(f))
  BY <1>3
<1>6. Eq(Descendants(next))
  BY <1>4, <1>5
<1> QED BY <1>6 DEF Eq

\* What is closed under the steps of next holds all that is reached.
LEMMA DescendantsLeast ==
    ASSUME NEW next \in Graph, Grounded(next), NEW p \in Parents, NEW S \in SUBSET Parents,
           next[p] \subseteq S, \A q \in S : next[q] \subseteq S
    PROVE  Descendants(next)[p] \subseteq S
<1> DEFINE D == Descendants(next)
           Fits == {q \in Parents : next[q] \subseteq S => D[q] \subseteq S}
<1>1. \A q \in Parents : D[q] = next[q] \cup UNION {D[c] : c \in next[q]}
  BY DescendantsOf
<1>2. \A q \in Parents : next[q] \subseteq Parents
  BY DEF Graph
<1> HIDE DEF D
<1>3. ASSUME NEW q \in Parents, next[q] \subseteq Fits PROVE q \in Fits
  BY <1>1, <1>2, <1>3
<1>4. Fits \in SUBSET Parents
  OBVIOUS
<1> HIDE DEF Fits
<1>5. Parents \subseteq Fits
  BY <1>3, <1>4 DEF Grounded
<1> QED BY <1>5 DEF Fits, D

\* What is reached is a node or a section.
LEMMA DescendantsType ==
    ASSUME NEW next \in Graph, Grounded(next), NEW p \in Parents
    PROVE  Descendants(next)[p] \subseteq Parents
<1>1. \A q \in Parents : next[q] \subseteq Parents
  BY DEF Graph
<1> QED BY <1>1, DescendantsLeast

\* The next ones of a node are reached, and what is reached from them.
LEMMA DescendantsNext ==
    ASSUME NEW next \in Graph, NEW p \in Parents, NEW c \in next[p]
    PROVE  /\ c \in Parents
           /\ c \in Descendants(next)[p]
           /\ Descendants(next)[c] \subseteq Descendants(next)[p]
<1>1. Descendants(next)[p] = next[p] \cup UNION {Descendants(next)[d] : d \in next[p]}
  BY DescendantsOf
<1>2. c \in Parents
  BY DEF Graph
<1> QED BY <1>1, <1>2

\* What is reached from what is reached is reached.
LEMMA DescendantsTrans ==
    ASSUME NEW next \in Graph, Grounded(next), NEW p \in Parents, NEW y \in Descendants(next)[p]
    PROVE  /\ y \in Parents
           /\ next[y] \subseteq Descendants(next)[p]
           /\ Descendants(next)[y] \subseteq Descendants(next)[p]
<1> DEFINE D == Descendants(next)
           Fits == {q \in Parents : \A z \in D[q] : D[z] \subseteq D[q]}
<1>1. \A q \in Parents : D[q] = next[q] \cup UNION {D[c] : c \in next[q]}
  BY DescendantsOf
<1>2. \A q \in Parents : next[q] \subseteq Parents
  BY DEF Graph
<1>3. \A q \in Parents : D[q] \subseteq Parents
  BY DescendantsType
<1> HIDE DEF D
<1>4. ASSUME NEW q \in Parents, next[q] \subseteq Fits PROVE q \in Fits
  <2>1. ASSUME NEW z \in D[q] PROVE D[z] \subseteq D[q]
    <3>1. CASE z \in next[q]
      BY <3>1, <1>1
    <3>2. CASE \E c \in next[q] : z \in D[c]
      <4>1. PICK c \in next[q] : z \in D[c]
        BY <3>2
      <4>2. D[z] \subseteq D[c]
        BY <4>1, <1>4
      <4> QED BY <4>1, <4>2, <1>1
    <3> QED BY <3>1, <3>2, <1>1
  <2> QED BY <2>1
<1>5. Fits \in SUBSET Parents
  OBVIOUS
<1> HIDE DEF Fits
<1>6. p \in Fits
  BY <1>4, <1>5 DEF Grounded
<1>7. D[y] \subseteq D[p]
  BY <1>6 DEF Fits, D
<1>8. y \in Parents /\ next[y] \subseteq D[y]
  BY <1>1, <1>3 DEF D
<1> QED BY <1>7, <1>8 DEF D

\* No node is below itself.
LEMMA DescendantsIrreflexive ==
    ASSUME NEW next \in Graph, Grounded(next), NEW p \in Parents
    PROVE  p \notin Descendants(next)[p]
<1> DEFINE D == Descendants(next)
           Fits == {q \in Parents : q \notin D[q]}
<1>1. \A q \in Parents : D[q] = next[q] \cup UNION {D[c] : c \in next[q]}
  BY DescendantsOf
<1>2. \A q \in Parents : \A y \in D[q] : D[y] \subseteq D[q]
  BY DescendantsTrans
<1> HIDE DEF D
<1>3. ASSUME NEW q \in Parents, next[q] \subseteq Fits PROVE q \in Fits
  <2>1. SUFFICES ASSUME q \in D[q] PROVE FALSE
    OBVIOUS
  <2>2. CASE q \in next[q]
    BY <2>1, <2>2, <1>3
  <2>3. CASE \E c \in next[q] : q \in D[c]
    <3>1. PICK c \in next[q] : q \in D[c]
      BY <2>3
    <3>2. c \in D[q]
      BY <1>1
    <3>3. c \in Parents
      BY DEF Graph
    <3>4. D[q] \subseteq D[c]
      BY <1>2, <3>1, <3>3
    <3> QED BY <3>1, <3>2, <3>4, <1>3
  <2> QED BY <2>1, <2>2, <2>3, <1>1
<1>4. Fits \in SUBSET Parents
  OBVIOUS
<1> HIDE DEF Fits
<1>5. p \in Fits
  BY <1>3, <1>4 DEF Grounded
<1> QED BY <1>5 DEF Fits, D

\* What is reached is reached by a last step.
LEMMA DescendantsStep ==
    ASSUME NEW next \in Graph, Grounded(next), NEW p \in Parents, NEW y \in Descendants(next)[p]
    PROVE  \E q \in {p} \cup Descendants(next)[p] : q \in Parents /\ y \in next[q]
<1> DEFINE D == Descendants(next)
           S == {z \in D[p] : \E q \in {p} \cup D[p] : q \in Parents /\ z \in next[q]}
<1>1. D[p] \subseteq Parents
  BY DescendantsType
<1>2. next[p] \subseteq D[p] /\ \A z \in D[p] : next[z] \subseteq D[p]
  BY DescendantsTrans, DescendantsNext
<1> HIDE DEF D
<1>3. S \in SUBSET Parents /\ next[p] \subseteq S
  BY <1>1, <1>2
<1>4. \A z \in S : next[z] \subseteq S
  BY <1>1, <1>2
<1> HIDE DEF S
<1>5. D[p] \subseteq S
  BY <1>3, <1>4, DescendantsLeast DEF D
<1> QED BY <1>5 DEF S, D

\* Nothing has two parents.
SoleParents(next) ==
    \A p, q \in Parents : \A x \in next[p] \cap next[q] : p = q

\* With one parent each, the parent of what is below p is p or below it.
LEMMA DescendantsUp ==
    ASSUME NEW next \in Graph, Grounded(next), SoleParents(next), NEW p \in Parents,
           NEW y \in Descendants(next)[p], NEW q \in Parents, y \in next[q]
    PROVE  q = p \/ q \in Descendants(next)[p]
<1>1. PICK r \in {p} \cup Descendants(next)[p] : r \in Parents /\ y \in next[r]
  BY DescendantsStep
<1>2. r = q
  BY <1>1 DEF SoleParents
<1> QED BY <1>1, <1>2

\* With one parent each, two nodes above a third are one above the other.
LEMMA DescendantsChain ==
    ASSUME NEW next \in Graph, Grounded(next), SoleParents(next), NEW p \in Parents, NEW q \in Parents,
           NEW y, y \in Descendants(next)[p], y \in Descendants(next)[q]
    PROVE  p = q \/ p \in Descendants(next)[q] \/ q \in Descendants(next)[p]
<1> DEFINE D == Descendants(next)
           S == {z \in D[p] : z \notin D[q]}
<1>1. SUFFICES ASSUME p # q, p \notin D[q], q \notin D[p] PROVE FALSE
  OBVIOUS
<1>2. D[p] \subseteq Parents /\ D[q] \subseteq Parents
  BY DescendantsType
<1>3. next[p] \subseteq D[p] /\ \A z \in D[p] : next[z] \subseteq D[p]
  BY DescendantsTrans, DescendantsNext
<1>4. ASSUME NEW z \in Parents, NEW w \in D[q], w \in next[z] PROVE z = q \/ z \in D[q]
  BY <1>4, DescendantsUp
<1> HIDE DEF D
<1>5. S \in SUBSET Parents /\ next[p] \subseteq S
  BY <1>1, <1>2, <1>3, <1>4
<1>6. \A z \in S : next[z] \subseteq S
  BY <1>1, <1>2, <1>3, <1>4
<1> HIDE DEF S
<1>7. D[p] \subseteq S
  BY <1>5, <1>6, DescendantsLeast DEF D
<1> QED BY <1>7 DEF S, D

\* With fewer edges the graph stays grounded, and less is reached.
LEMMA GroundedSubgraph ==
    ASSUME NEW next \in Graph, Grounded(next), NEW less \in Graph,
           \A q \in Parents : less[q] \subseteq next[q]
    PROVE  Grounded(less) /\ \A q \in Parents : Descendants(less)[q] \subseteq Descendants(next)[q]
<1>1. ASSUME NEW S \in SUBSET Parents, \A p \in Parents : less[p] \subseteq S => p \in S
      PROVE  Parents \subseteq S
  <2>1. \A p \in Parents : next[p] \subseteq S => p \in S
    BY <1>1
  <2> QED BY <2>1 DEF Grounded
<1>2. Grounded(less)
  BY <1>1 DEF Grounded
<1>3. ASSUME NEW q \in Parents PROVE Descendants(less)[q] \subseteq Descendants(next)[q]
  <2> DEFINE S == Descendants(next)[q]
  <2>1. S \in SUBSET Parents
    BY DescendantsType
  <2>2. less[q] \subseteq S
    BY DescendantsNext
  <2>3. \A z \in S : less[z] \subseteq S
    BY DescendantsTrans
  <2> HIDE DEF S
  <2>4. Descendants(less)[q] \subseteq S
    BY <1>2, <2>1, <2>2, <2>3, DescendantsLeast
  <2> QED BY <2>4 DEF S
<1> QED BY <1>2, <1>3

\* Two graphs that agree on a node and below it have the same nodes below it.
LEMMA DescendantsSame ==
    ASSUME NEW next \in Graph, Grounded(next), NEW other \in Graph, Grounded(other), NEW p \in Parents,
           \A q \in {p} \cup Descendants(next)[p] : other[q] = next[q]
    PROVE  Descendants(other)[p] = Descendants(next)[p]
<1> DEFINE D == Descendants(next)[p]
           E == Descendants(other)[p]
           S == {z \in D : z \in E}
<1>1. D \in SUBSET Parents /\ E \in SUBSET Parents
  BY DescendantsType
<1>2. next[p] \subseteq D /\ \A z \in D : next[z] \subseteq D
  BY DescendantsTrans, DescendantsNext
<1>3. other[p] \subseteq E /\ \A z \in E : other[z] \subseteq E
  BY DescendantsTrans, DescendantsNext
<1>4. other[p] = next[p] /\ \A z \in D : other[z] = next[z]
  OBVIOUS
<1> HIDE DEF D, E
<1>5. E \subseteq D
  <2>1. other[p] \subseteq D /\ \A z \in D : other[z] \subseteq D
    BY <1>2, <1>4
  <2> QED BY <2>1, <1>1, DescendantsLeast DEF E
<1>6. S \in SUBSET Parents /\ next[p] \subseteq S /\ \A z \in S : next[z] \subseteq S
  BY <1>1, <1>2, <1>3, <1>4
<1> HIDE DEF S
<1>7. D \subseteq S
  BY <1>6, DescendantsLeast DEF D
<1> QED BY <1>5, <1>7 DEF S, D, E

Linked(next, p, x) == [next EXCEPT ![p] = @ \cup {x}]
Unlinked(next, x) == [q \in Parents |-> next[q] \ {x}]

\* A new edge to a node that is not above makes no cycle.
LEMMA LinkedGrounded ==
    ASSUME NEW next \in Graph, Grounded(next), NEW p \in Parents, NEW x \in Parents,
           p # x, p \notin Descendants(next)[x]
    PROVE  Linked(next, p, x) \in Graph /\ Grounded(Linked(next, p, x))
<1> DEFINE more == Linked(next, p, x)
           D == Descendants(next)
<1>1. more \in Graph /\ \A q \in Parents : more[q] = IF q = p THEN next[q] \cup {x} ELSE next[q]
  BY DEF Linked, Graph
<1>2. \A q \in Parents : D[q] \subseteq Parents /\ next[q] \subseteq D[q] /\ \A z \in D[q] : next[z] \subseteq D[q]
  BY DescendantsTrans, DescendantsNext, DescendantsType
<1> HIDE DEF more, D
<1>3. ASSUME NEW S \in SUBSET Parents, \A q \in Parents : more[q] \subseteq S => q \in S
      PROVE  Parents \subseteq S
  <2> DEFINE T == {q \in Parents : q \in {x} \cup D[x] => q \in S}
  <2>1. ASSUME NEW q \in Parents, next[q] \subseteq T PROVE q \in T
    <3>1. SUFFICES ASSUME q \in {x} \cup D[x] PROVE q \in S
      OBVIOUS
    <3>2. next[q] \subseteq D[x]
      BY <3>1, <1>2
    <3>3. more[q] = next[q]
      BY <3>1, <1>1 DEF D
    <3> QED BY <3>2, <3>3, <2>1, <1>3
  <2>2. T \in SUBSET Parents
    OBVIOUS
  <2> HIDE DEF T
  <2>3. x \in T
    BY <2>1, <2>2 DEF Grounded
  <2>4. x \in S
    BY <2>3 DEF T
  <2>5. \A q \in Parents : next[q] \subseteq S => q \in S
    BY <2>4, <1>1, <1>3
  <2> QED BY <2>5 DEF Grounded
<1> QED BY <1>1, <1>3 DEF Grounded, more

\* A new edge below p adds the subtree of x to what is below p and above it.
LEMMA LinkedDescendants ==
    ASSUME NEW next \in Graph, Grounded(next), NEW p \in Parents, NEW x \in Parents,
           p # x, p \notin Descendants(next)[x], NEW q \in Parents
    PROVE  Descendants(Linked(next, p, x))[q] =
             Descendants(next)[q] \cup
               (IF q = p \/ p \in Descendants(next)[q] THEN {x} \cup Descendants(next)[x] ELSE {})
<1> DEFINE more == Linked(next, p, x)
           D == Descendants(next)
           E == Descendants(more)
           R == IF q = p \/ p \in D[q] THEN {x} \cup D[x] ELSE {}
           S == D[q] \cup R
<1>1. more \in Graph /\ Grounded(more)
  BY LinkedGrounded
<1>2. \A r \in Parents : more[r] = IF r = p THEN next[r] \cup {x} ELSE next[r]
  BY DEF Linked, Graph
<1>3. \A r \in Parents : D[r] \subseteq Parents /\ next[r] \subseteq D[r] /\ \A z \in D[r] : next[z] \subseteq D[r]
  BY DescendantsTrans, DescendantsNext, DescendantsType
<1>4. \A r \in Parents : D[r] \subseteq E[r]
  <2>1. \A r \in Parents : next[r] \subseteq more[r]
    BY <1>2
  <2> HIDE DEF more
  <2> QED BY <2>1, <1>1, GroundedSubgraph
<1>5. \A r \in Parents : more[r] \subseteq E[r] /\ \A z \in E[r] : E[z] \subseteq E[r]
  <2> HIDE DEF more
  <2> QED BY <1>1, DescendantsTrans, DescendantsNext
<1>6. p \notin {x} \cup D[x]
  OBVIOUS
<1> HIDE DEF more, D, E
<1>7. R \subseteq E[q]
  <2>1. {x} \cup D[x] \subseteq E[p]
    <3>1. x \in more[p]
      BY <1>2
    <3>2. x \in E[p] /\ E[x] \subseteq E[p]
      BY <3>1, <1>5
    <3> QED BY <3>2, <1>4
  <2>2. q = p \/ p \in D[q] => E[p] \subseteq E[q]
    BY <1>4, <1>5
  <2> QED BY <2>1, <2>2
<1>8. S \in SUBSET Parents
  BY <1>3
<1>9. more[q] \subseteq S
  BY <1>2, <1>3
<1>10. ASSUME NEW z \in S PROVE more[z] \subseteq S
  <2>1. z \in Parents
    BY <1>8
  <2>2. CASE z \in D[q]
    <3>1. next[z] \subseteq D[q]
      BY <2>2, <1>3
    <3> QED BY <3>1, <2>1, <2>2, <1>2
  <2>3. CASE z \in R
    <3>1. z \in {x} \cup D[x] /\ R = {x} \cup D[x]
      BY <2>3
    <3>2. next[z] \subseteq D[x] /\ z # p
      BY <3>1, <1>3, <1>6
    <3> QED BY <3>1, <3>2, <2>1, <1>2
  <2> QED BY <2>2, <2>3
<1> HIDE DEF S
<1>11. E[q] \subseteq S
  BY <1>1, <1>8, <1>9, <1>10, DescendantsLeast DEF E
<1>12. E[q] = S
  BY <1>11, <1>7, <1>4 DEF S
<1> QED BY <1>12 DEF S, D, E, more

\* Without its edge x takes its subtree along, from every node above it.
LEMMA UnlinkedDescendants ==
    ASSUME NEW next \in Graph, Grounded(next), SoleParents(next), NEW x \in Parents
    PROVE  /\ Unlinked(next, x) \in Graph /\ Grounded(Unlinked(next, x)) /\ SoleParents(Unlinked(next, x))
           /\ \A q \in Parents : Descendants(Unlinked(next, x))[q] =
                 IF x \in Descendants(next)[q] THEN Descendants(next)[q] \ ({x} \cup Descendants(next)[x])
                 ELSE Descendants(next)[q]
<1> DEFINE less == Unlinked(next, x)
           D == Descendants(next)
           E == Descendants(less)
<1>1. less \in Graph /\ \A q \in Parents : less[q] = next[q] \ {x}
  BY DEF Unlinked, Graph
<1>2. \A q \in Parents : less[q] \subseteq next[q]
  BY <1>1
<1>3. \A q \in Parents : D[q] \subseteq Parents /\ next[q] \subseteq D[q] /\ \A z \in D[q] : next[z] \subseteq D[q]
  BY DescendantsTrans, DescendantsNext, DescendantsType
<1>4. Grounded(less) /\ \A q \in Parents : E[q] \subseteq D[q]
  <2> HIDE DEF less
  <2> QED BY <1>1, <1>2, GroundedSubgraph
<1>5. SoleParents(less)
  BY <1>2 DEF SoleParents
<1>6. \A q \in Parents : less[q] \subseteq E[q] /\ \A z \in E[q] : less[z] \subseteq E[q]
  <2> HIDE DEF less
  <2> QED BY <1>1, <1>4, DescendantsTrans, DescendantsNext
<1>7. ASSUME NEW q \in Parents, NEW z \in Parents, NEW w \in D[q], w \in next[z] PROVE z = q \/ z \in D[q]
  BY <1>7, DescendantsUp
<1>8. \A q \in Parents : q \notin D[q]
  BY DescendantsIrreflexive
<1>9. \A q \in Parents : \A z \in D[q] : D[z] \subseteq D[q]
  BY DescendantsTrans
<1> HIDE DEF less, D, E
<1>10. ASSUME NEW q \in Parents, x \in D[q] PROVE E[q] = D[q] \ ({x} \cup D[x])
  <2> DEFINE S == {z \in D[q] : z \notin {x} \cup D[x]}
             T == E[q] \cup {x} \cup D[x]
  <2>1. S \in SUBSET Parents
    BY <1>3
  <2>2. q \notin {x} \cup D[x]
    BY <1>10, <1>8, <1>9
  <2>3. less[q] \subseteq S
    BY <2>2, <1>1, <1>3, <1>7
  <2>4. \A z \in S : less[z] \subseteq S
    BY <2>1, <1>1, <1>3, <1>7
  <2>5. T \in SUBSET Parents
    BY <1>3, <1>4
  <2>6. next[q] \subseteq T
    BY <1>1, <1>6
  <2>7. \A z \in T : next[z] \subseteq T
    <3>1. ASSUME NEW z \in T PROVE next[z] \subseteq T
      <4>1. CASE z \in E[q]
        BY <4>1, <2>5, <1>1, <1>6
      <4>2. CASE z \in {x} \cup D[x]
        BY <4>2, <1>3
      <4> QED BY <4>1, <4>2
    <3> QED BY <3>1
  <2> HIDE DEF S, T
  <2>8. E[q] \subseteq S
    BY <2>1, <2>3, <2>4, <1>1, <1>4, DescendantsLeast DEF E
  <2>9. D[q] \subseteq T
    BY <2>5, <2>6, <2>7, DescendantsLeast DEF D
  <2> QED BY <2>8, <2>9 DEF S, T
<1>11. ASSUME NEW q \in Parents, x \notin D[q] PROVE E[q] = D[q]
  <2> DEFINE S == {z \in D[q] : z \in E[q]}
  <2>1. S \in SUBSET Parents
    BY <1>3
  <2>2. next[q] \subseteq S
    BY <1>11, <1>1, <1>3, <1>6
  <2>3. \A z \in S : next[z] \subseteq S
    BY <1>11, <2>1, <1>1, <1>3, <1>6
  <2> HIDE DEF S
  <2>4. D[q] \subseteq S
    BY <2>1, <2>2, <2>3, DescendantsLeast DEF D
  <2> QED BY <2>4, <1>4 DEF S
<1>12. \A q \in Parents : E[q] = IF x \in D[q] THEN D[q] \ ({x} \cup D[x]) ELSE D[q]
  BY <1>10, <1>11
<1> QED BY <1>1, <1>4, <1>5, <1>12 DEF less, D, E

\* A grounded graph on new nodes G beside the old ones.
LEMMA GraftedGrounded ==
    ASSUME NEW next \in Graph, Grounded(next), NEW G \in SUBSET Parents, NEW more \in Graph,
           \A q \in Parents \ G : more[q] = next[q] /\ next[q] \cap G = {},
           \A g \in G : more[g] \subseteq G,
           \A S \in SUBSET Parents : (\A g \in G : more[g] \subseteq S => g \in S) => G \subseteq S
    PROVE  /\ Grounded(more)
           /\ \A q \in Parents \ G : Descendants(more)[q] = Descendants(next)[q]
           /\ \A g \in G : Descendants(more)[g] \subseteq G
<1>1. ASSUME NEW S \in SUBSET Parents, \A q \in Parents : more[q] \subseteq S => q \in S
      PROVE  Parents \subseteq S
  <2>1. G \subseteq S
    BY <1>1
  <2> DEFINE T == {q \in Parents : q \in S}
  <2>2. \A q \in Parents : next[q] \subseteq T => q \in T
    BY <1>1, <2>1
  <2>3. T \in SUBSET Parents
    OBVIOUS
  <2> HIDE DEF T
  <2>4. Parents \subseteq T
    BY <2>2, <2>3 DEF Grounded
  <2> QED BY <2>4 DEF T
<1>2. Grounded(more)
  BY <1>1 DEF Grounded
<1>3. ASSUME NEW q \in Parents \ G PROVE Descendants(more)[q] = Descendants(next)[q]
  <2> DEFINE S == {z \in Descendants(next)[q] : z \notin G}
  <2>1. Descendants(next)[q] \subseteq Parents
    BY DescendantsType
  <2>2. next[q] \subseteq S
    BY DescendantsNext
  <2>3. \A z \in S : next[z] \subseteq S
    BY <2>1, DescendantsTrans
  <2>4. S \in SUBSET Parents
    BY <2>1
  <2> HIDE DEF S
  <2>5. Descendants(next)[q] \subseteq S
    BY <2>2, <2>3, <2>4, DescendantsLeast
  <2>6. \A z \in {q} \cup Descendants(next)[q] : more[z] = next[z]
    BY <2>1, <2>5 DEF S
  <2> QED BY <2>6, <1>2, DescendantsSame
<1>4. ASSUME NEW g \in G PROVE Descendants(more)[g] \subseteq G
  BY <1>2, DescendantsLeast
<1> QED BY <1>2, <1>3, <1>4


-----------------------------------------------------------------------------
(* Sequences: what InsertAt and Without do to a list of children.          *)

\* InsertAt without the words of its definition.
LEMMA InsertAtDef ==
    ASSUME NEW s, NEW k, NEW x
    PROVE  InsertAt(s, k, x) = (SubSeq(s, 1, k - 1) \o <<x>>) \o SubSeq(s, k, Len(s))
BY DEF InsertAt

\* What InsertAt gives, place by place.
LEMMA InsertAtElements ==
    ASSUME NEW S, NEW s \in Seq(S), NEW i \in 0 .. Len(s), NEW x \in S
    PROVE  /\ InsertAt(s, i + 1, x) \in Seq(S)
           /\ Len(InsertAt(s, i + 1, x)) = Len(s) + 1
           /\ \A j \in 1 .. Len(s) + 1 : InsertAt(s, i + 1, x)[j] =
                 IF j <= i THEN s[j] ELSE IF j = i + 1 THEN x ELSE s[j - 1]
<1>0. Len(s) \in Nat /\ i \in Nat
  OBVIOUS
<1> DEFINE a == SubSeq(s, 1, (i + 1) - 1)
           b == SubSeq(s, i + 1, Len(s))
           ax == a \o <<x>>
<1>1. a \in Seq(S) /\ Len(a) = i /\ \A j \in 1 .. i : a[j] = s[j]
  <2>1. (i + 1) - 1 = i
    BY <1>0
  <2> QED BY <2>1, <1>0, SubSeqProperties
<1>2. b \in Seq(S) /\ Len(b) = Len(s) - i /\ \A j \in 1 .. Len(s) - i : b[j] = s[i + j]
  <2>1. b \in Seq(S)
    BY <1>0, SubSeqProperties
  <2>2. CASE i = Len(s)
    <3>1. b = <<>>
      BY <2>2, <1>0, SubSeqProperties
    <3> QED BY <3>1, <2>2, <2>1, <1>0
  <2>3. CASE i # Len(s)
    <3>1. Len(b) = Len(s) - (i + 1) + 1
      BY <2>3, <1>0, SubSeqProperties
    <3>2. \A j \in 1 .. Len(s) - i : b[j] = s[i + 1 + j - 1]
      BY <2>3, <1>0, SubSeqProperties
    <3>3. \A j \in 1 .. Len(s) - i : i + 1 + j - 1 = i + j
      BY <1>0
    <3> QED BY <3>1, <3>2, <3>3, <2>1, <1>0
  <2> QED BY <2>2, <2>3
<1>3. InsertAt(s, i + 1, x) = ax \o b
  BY InsertAtDef
<1> HIDE DEF a, b
<1>4. ax \in Seq(S) /\ Len(ax) = i + 1 /\ (\A j \in 1 .. i : ax[j] = s[j]) /\ ax[i + 1] = x
  <2>1. <<x>> \in Seq(S) /\ Len(<<x>>) = 1 /\ <<x>>[1] = x
    OBVIOUS
  <2>2. ax \in Seq(S) /\ Len(ax) = Len(a) + 1
    BY <2>1, <1>1, ConcatProperties
  <2>3. \A j \in 1 .. Len(a) + Len(<<x>>) : ax[j] = IF j <= Len(a) THEN a[j] ELSE <<x>>[j - Len(a)]
    BY <2>1, <1>1, ConcatProperties
  <2> QED BY <2>1, <2>2, <2>3, <1>1, <1>0
<1> HIDE DEF ax
<1>5. /\ ax \o b \in Seq(S) /\ Len(ax \o b) = Len(ax) + Len(b)
      /\ \A j \in 1 .. Len(ax) + Len(b) : (ax \o b)[j] = IF j <= Len(ax) THEN ax[j] ELSE b[j - Len(ax)]
  BY <1>2, <1>4, ConcatProperties
<1>6. Len(ax) + Len(b) = Len(s) + 1
  BY <1>0, <1>2, <1>4
<1>7. ASSUME NEW j \in 1 .. Len(s) + 1
      PROVE  (ax \o b)[j] = IF j <= i THEN s[j] ELSE IF j = i + 1 THEN x ELSE s[j - 1]
  <2>0. j \in Nat /\ (j <= i + 1 \/ j > i + 1)
    BY <1>0
  <2>1. CASE j <= i + 1
    <3>1. (ax \o b)[j] = ax[j]
      BY <2>1, <1>5, <1>6, <1>4
    <3>2. j \in 1 .. i \/ j = i + 1
      BY <2>1, <1>0
    <3> QED BY <3>1, <3>2, <1>4, <1>0
  <2>2. CASE j > i + 1
    <3>1. j - (i + 1) \in 1 .. Len(s) - i /\ i + (j - (i + 1)) = j - 1 /\ ~(j <= i) /\ j # i + 1
      BY <2>2, <1>0
    <3>2. (ax \o b)[j] = b[j - (i + 1)]
      BY <2>2, <1>5, <1>6, <1>4, <1>0
    <3> QED BY <3>1, <3>2, <1>2
  <2> QED BY <2>0, <2>1, <2>2
<1> QED BY <1>3, <1>5, <1>6, <1>7

\* InsertAt adds one member, and no second copy of one.
LEMMA InsertAtRange ==
    ASSUME NEW S, NEW s \in Seq(S), NEW i \in 0 .. Len(s), NEW x \in S
    PROVE  /\ Range(InsertAt(s, i + 1, x)) = Range(s) \cup {x}
           /\ IsInjective(s) /\ x \notin Range(s) => IsInjective(InsertAt(s, i + 1, x))
<1> DEFINE n == InsertAt(s, i + 1, x)
<1>0. Len(s) \in Nat /\ i \in Nat
  OBVIOUS
<1>1. /\ n \in Seq(S) /\ Len(n) = Len(s) + 1
      /\ \A j \in 1 .. Len(s) + 1 : n[j] = IF j <= i THEN s[j] ELSE IF j = i + 1 THEN x ELSE s[j - 1]
  BY InsertAtElements
<1> HIDE DEF n
<1>2. DOMAIN n = 1 .. Len(s) + 1 /\ DOMAIN s = 1 .. Len(s)
  BY <1>1
<1>3. ASSUME NEW j \in DOMAIN n PROVE n[j] \in Range(s) \cup {x}
  <2>1. CASE j <= i
    BY <2>1, <1>0, <1>1, <1>2 DEF Range
  <2>2. CASE j = i + 1
    BY <2>2, <1>0, <1>1, <1>2
  <2>3. CASE j > i + 1
    <3>1. j - 1 \in DOMAIN s /\ n[j] = s[j - 1]
      BY <2>3, <1>0, <1>1, <1>2
    <3> QED BY <3>1 DEF Range
  <2> QED BY <2>1, <2>2, <2>3, <1>0, <1>2
<1>4. ASSUME NEW j \in DOMAIN s PROVE s[j] \in Range(n)
  <2>1. CASE j <= i
    <3>1. j \in DOMAIN n /\ n[j] = s[j]
      BY <2>1, <1>0, <1>1, <1>2
    <3> QED BY <3>1 DEF Range
  <2>2. CASE j > i
    <3>1. j + 1 \in DOMAIN n /\ n[j + 1] = s[j + 1 - 1] /\ j + 1 - 1 = j
      BY <2>2, <1>0, <1>1, <1>2
    <3> QED BY <3>1 DEF Range
  <2> QED BY <2>1, <2>2, <1>0, <1>2
<1>5. x \in Range(n)
  <2>1. i + 1 \in DOMAIN n /\ n[i + 1] = x
    BY <1>0, <1>1, <1>2
  <2> QED BY <2>1 DEF Range
<1>6. Range(n) = Range(s) \cup {x}
  BY <1>3, <1>4, <1>5 DEF Range
<1>7. ASSUME IsInjective(s), x \notin Range(s) PROVE IsInjective(n)
  <2>1. \A j, k \in DOMAIN s : s[j] = s[k] => j = k
    BY <1>7 DEF IsInjective
  <2>2. \A j \in DOMAIN s : s[j] # x
    BY <1>7 DEF Range
  <2>3. ASSUME NEW j \in DOMAIN n, NEW k \in DOMAIN n, n[j] = n[k] PROVE j = k
    <3>0. ASSUME NEW l \in DOMAIN n, l # i + 1 PROVE n[l] # x
      <4>1. CASE l <= i
        <5>1. l \in DOMAIN s /\ n[l] = s[l]
          BY <4>1, <1>0, <1>1, <1>2
        <5> QED BY <5>1, <2>2
      <4>2. CASE ~(l <= i)
        <5>1. l - 1 \in DOMAIN s /\ n[l] = s[l - 1]
          BY <4>2, <3>0, <1>0, <1>1, <1>2
        <5> QED BY <5>1, <2>2
      <4> QED BY <4>1, <4>2
    <3>a. n[i + 1] = x
      BY <1>0, <1>1
    <3>1. CASE j = i + 1
      BY <3>0, <3>a, <3>1, <2>3
    <3>2. CASE j # i + 1 /\ k = i + 1
      BY <3>0, <3>a, <3>2, <2>3
    <3>3. CASE j # i + 1 /\ k # i + 1
      <4> DEFINE J == IF j <= i THEN j ELSE j - 1
                 K == IF k <= i THEN k ELSE k - 1
      <4>1. J \in DOMAIN s /\ K \in DOMAIN s /\ s[J] = s[K]
        BY <3>3, <2>3, <1>0, <1>1, <1>2
      <4>2. J = K
        BY <4>1, <2>1
      <4> QED BY <4>2, <3>3, <1>0, <1>2
    <3> QED BY <3>1, <3>2, <3>3
  <2> QED BY <2>3 DEF IsInjective
<1> QED BY <1>6, <1>7 DEF n

\* A set of numbers has as many members below one of them as below no other.
LEMMA InOrderLists ==
    ASSUME NEW m \in Nat, NEW S \in SUBSET (1 .. m)
    PROVE  /\ InOrder(S) \in [1 .. Cardinality(S) -> S] /\ Cardinality(S) \in Nat
           /\ \A i \in S : \E n \in 1 .. Cardinality(S) : InOrder(S)[n] = i
           /\ IsInjective(InOrder(S))
<1> DEFINE less(i) == {j \in S : j < i}
           c == Cardinality(S)
           rank == [i \in S |-> Cardinality(less(i))]
<1>1. IsFiniteSet(S) /\ c \in Nat
  <2>1. IsFiniteSet(1 .. m)
    BY FS_Interval
  <2>2. IsFiniteSet(S)
    BY <2>1, FS_Subset
  <2> QED BY <2>2, FS_CardinalityType
<1>2. ASSUME NEW i \in S PROVE IsFiniteSet(less(i)) /\ rank[i] \in 0 .. c - 1
  <2>1. less(i) \subseteq S /\ less(i) # S
    OBVIOUS
  <2> HIDE DEF less
  <2>2. IsFiniteSet(less(i)) /\ Cardinality(less(i)) < c
    BY <2>1, <1>1, FS_Subset, FS_CardinalityType
  <2>3. Cardinality(less(i)) \in Nat
    BY <2>2, FS_CardinalityType
  <2> QED BY <2>2, <2>3, <1>1
<1>3. ASSUME NEW i \in S, NEW k \in S, i < k PROVE rank[i] < rank[k]
  <2>0. i \in Nat /\ k \in Nat /\ \A j \in S : j \in Nat
    OBVIOUS
  <2>a. ASSUME NEW j \in S, j < i PROVE j < k
    <3>1. j \in Nat
      BY <2>0
    <3> HIDE DEF rank
    <3> QED BY <3>1, <2>0, <2>a, <1>3
  <2>b. ~(i < i)
    BY <2>0
  <2>1. less(i) \subseteq less(k) /\ i \in less(k) /\ i \notin less(i)
    BY <2>a, <2>b, <1>3
  <2>2. less(i) # less(k)
    BY <2>1
  <2>3. Cardinality(less(i)) < Cardinality(less(k))
    BY <2>1, <2>2, <1>2, FS_Subset
  <2> QED BY <2>3
<1> HIDE DEF less, c
<1>4. \A i, k \in S : rank[i] = rank[k] => i = k
  <2>1. ASSUME NEW i \in S, NEW k \in S, rank[i] = rank[k] PROVE i = k
    <3>1. ~(i < k) /\ ~(k < i)
      BY <1>2, <1>3, <2>1
    <3> QED BY <3>1
  <2> QED BY <2>1
<1>5. rank \in [S -> 0 .. c - 1]
  BY <1>2
<1>6. \A n \in 0 .. c - 1 : \E i \in S : rank[i] = n
  <2>1. rank \in Injection(S, 0 .. c - 1)
    BY <1>4, <1>5 DEF Injection, IsInjective
  <2>2. IsFiniteSet(0 .. c - 1) /\ Cardinality(0 .. c - 1) = c
    BY <1>1, FS_Interval
  <2>3. rank \in Surjection(S, 0 .. c - 1)
    BY <2>1, <2>2, <1>1, FS_Injection DEF c
  <2> QED BY <2>3 DEF Surjection
<1>7. ASSUME NEW n \in 1 .. c PROVE InOrder(S)[n] \in S /\ rank[InOrder(S)[n]] = n - 1
  <2>1. InOrder(S)[n] = CHOOSE i \in S : Cardinality({j \in S : j < i}) = n - 1
    BY DEF InOrder, c
  <2>2. n - 1 \in 0 .. c - 1
    BY <1>1
  <2>3. \E i \in S : Cardinality({j \in S : j < i}) = n - 1
    BY <2>2, <1>6 DEF less
  <2> QED BY <2>1, <2>3 DEF less
<1>8. InOrder(S) \in [1 .. c -> S]
  BY <1>7 DEF InOrder, c
<1>9. ASSUME NEW i \in S PROVE \E n \in 1 .. c : InOrder(S)[n] = i
  <2>1. rank[i] + 1 \in 1 .. c /\ rank[i] + 1 - 1 = rank[i]
    BY <1>1, <1>2
  <2> DEFINE n == rank[i] + 1
  <2>2. n \in 1 .. c /\ n - 1 = rank[i]
    <3>1. rank[i] \in Nat
      BY <1>1, <1>2
    <3> HIDE DEF rank
    <3> QED BY <2>1, <3>1
  <2> HIDE DEF n
  <2>3. InOrder(S)[n] \in S /\ rank[InOrder(S)[n]] = rank[i]
    BY <2>2, <1>7
  <2>4. InOrder(S)[n] = i
    BY <2>3, <1>4
  <2> QED BY <2>2, <2>4
<1>10. IsInjective(InOrder(S))
  <2>1. DOMAIN InOrder(S) = 1 .. c
    BY <1>8
  <2>2. ASSUME NEW k \in 1 .. c, NEW n \in 1 .. c, InOrder(S)[k] = InOrder(S)[n] PROVE k = n
    <3>1. k - 1 = n - 1
      BY <1>7, <2>2
    <3> QED BY <3>1, <1>1
  <2> QED BY <2>1, <2>2 DEF IsInjective
<1> QED BY <1>1, <1>8, <1>9, <1>10 DEF c

\* Without takes one member out, and leaves the rest once.
LEMMA WithoutRange ==
    ASSUME NEW S, NEW s \in Seq(S), NEW x
    PROVE  /\ Without(s, x) \in Seq(S)
           /\ Range(Without(s, x)) = Range(s) \ {x}
           /\ IsInjective(s) => IsInjective(Without(s, x))
<1> DEFINE at == {i \in DOMAIN s : s[i] # x}
           stay == InOrder(at)
           c == Cardinality(at)
<1>1. DOMAIN s = 1 .. Len(s) /\ Len(s) \in Nat /\ at \in SUBSET (1 .. Len(s))
  OBVIOUS
<1>2. /\ stay \in [1 .. c -> at] /\ c \in Nat
      /\ \A i \in at : \E n \in 1 .. c : stay[n] = i
      /\ IsInjective(stay)
  BY <1>1, InOrderLists
<1>3. Without(s, x) = [n \in DOMAIN stay |-> s[stay[n]]]
  BY DEF Without
<1>4. \A i : i \in at <=> i \in DOMAIN s /\ s[i] # x
  OBVIOUS
<1>5. \A i \in DOMAIN s : s[i] \in S
  OBVIOUS
<1> HIDE DEF at, stay, c
<1>6. DOMAIN stay = 1 .. c
  BY <1>2
<1>7. Without(s, x) = [n \in 1 .. c |-> s[stay[n]]]
  BY <1>3, <1>6
<1>8. \A n \in 1 .. c : s[stay[n]] \in S /\ stay[n] \in DOMAIN s /\ s[stay[n]] # x
  BY <1>2, <1>4, <1>5
<1>9. Without(s, x) \in Seq(S)
  <2>1. Without(s, x) \in [1 .. c -> S]
    BY <1>7, <1>8
  <2> QED BY <2>1, <1>2, SeqDef
<1>10. Range(Without(s, x)) = Range(s) \ {x}
  <2>1. Range(Without(s, x)) = {s[stay[n]] : n \in 1 .. c}
    BY <1>7 DEF Range
  <2>2. ASSUME NEW i \in DOMAIN s, s[i] # x PROVE s[i] \in {s[stay[n]] : n \in 1 .. c}
    BY <2>2, <1>2, <1>4
  <2> QED BY <2>1, <2>2, <1>8 DEF Range
<1>11. IsInjective(s) => IsInjective(Without(s, x))
  BY <1>2, <1>7, <1>8 DEF IsInjective
<1> QED BY <1>9, <1>10, <1>11

KindSet == {"none", "item", "table", "violation"} \cup RiskKinds

TreeType == [kids : [Parents -> Seq(Nodes)], level : [Parents -> Nat], kind : [Parents -> KindSet],
             summary : SUBSET Parents, main : BOOLEAN, tb : SUBSET Parents]

ChildGraph(t) == [p \in Parents |-> Children(t, p)]
ItemGraph(t) == [p \in Parents |-> Items(t, p)]

\* No node hangs below itself, below two parents, or twice below one.
Wired(t) ==
    /\ t \in TreeType
    /\ Grounded(ChildGraph(t))
    /\ SoleParents(ChildGraph(t))
    /\ \A p \in Parents : IsInjective(t.kids[p])

-----------------------------------------------------------------------------
(* Trees.  Wired: one parent each, no cycle.                               *)

\* Nodes and sections are apart, and there are finitely many of them.
LEMMA ParentsNodes ==
    /\ Nodes \subseteq Parents /\ Sections \subseteq Parents /\ "s5" \in Parents /\ "pm" \in Parents
    /\ \A x \in Parents : x \in Nodes <=> x \notin Sections
    /\ "s5" \in Sections /\ "pm" \in Sections /\ "s5" \notin Nodes /\ "pm" \notin Nodes
    /\ IsFiniteSet(Parents)
<1>1. Nodes \cap Sections = {} /\ IsFiniteSet(Nodes)
  BY TreeAssumption
<1>2. IsFiniteSet({}) /\ IsFiniteSet({"s5"}) /\ IsFiniteSet({"pm"})
  BY FS_EmptySet, FS_Singleton
<1>3. Sections = {"s5"} \cup {"pm"}
  BY DEF Sections
<1>4. IsFiniteSet(Sections)
  BY <1>2, <1>3, FS_Union
<1>5. IsFiniteSet(Parents)
  BY <1>1, <1>4, FS_Union DEF Parents
<1> QED BY <1>1, <1>3, <1>5 DEF Parents

\* The fields of a tree and their types.
LEMMA TreeFields ==
    ASSUME NEW t \in TreeType
    PROVE  /\ t.kids \in [Parents -> Seq(Nodes)] /\ t.level \in [Parents -> Nat]
           /\ t.kind \in [Parents -> KindSet] /\ t.summary \in SUBSET Parents
           /\ t.main \in BOOLEAN /\ t.tb \in SUBSET Parents
           /\ t = [kids |-> t.kids, level |-> t.level, kind |-> t.kind,
                   summary |-> t.summary, main |-> t.main, tb |-> t.tb]
BY DEF TreeType

\* Children and points as graphs.
LEMMA ChildrenType ==
    ASSUME NEW t \in TreeType
    PROVE  /\ \A p \in Parents : Children(t, p) \subseteq Nodes /\ Items(t, p) \subseteq Children(t, p)
           /\ \A p \in Parents : \A x \in Items(t, p) : x \in Nodes /\ IsItem(t, x)
           /\ ChildGraph(t) \in Graph /\ \A p \in Parents : ChildGraph(t)[p] = Children(t, p)
           /\ ItemGraph(t) \in Graph /\ \A p \in Parents : ItemGraph(t)[p] = Items(t, p)
           /\ Under(t) = Descendants(ChildGraph(t)) /\ PointsUnder(t) = Descendants(ItemGraph(t))
<1>1. ASSUME NEW p \in Parents PROVE Children(t, p) \subseteq Nodes
  <2>1. t.kids[p] \in Seq(Nodes)
    BY TreeFields
  <2> QED BY <2>1 DEF Children, Range
<1>2. \A p \in Parents : Items(t, p) \subseteq Children(t, p)
  BY DEF Items
<1>3. Nodes \subseteq Parents
  BY ParentsNodes
<1>4. Under(t) = Descendants(ChildGraph(t)) /\ PointsUnder(t) = Descendants(ItemGraph(t))
  BY DEF Under, PointsUnder, ChildGraph, ItemGraph
<1>5. ChildGraph(t) \in Graph /\ \A p \in Parents : ChildGraph(t)[p] = Children(t, p)
  BY <1>1, <1>3 DEF ChildGraph, Graph
<1>6. ItemGraph(t) \in Graph /\ \A p \in Parents : ItemGraph(t)[p] = Items(t, p)
  BY <1>1, <1>2, <1>3 DEF ItemGraph, Graph
<1>7. \A p \in Parents : \A x \in Items(t, p) : x \in Nodes /\ IsItem(t, x)
  BY <1>1 DEF Items
<1> QED BY <1>1, <1>2, <1>4, <1>5, <1>6, <1>7

\* What a wired tree is like below a node.
LEMMA UnderRules ==
    ASSUME NEW t, Wired(t)
    PROVE  /\ \A p \in Parents : Under(t)[p] \subseteq Nodes /\ Children(t, p) \subseteq Under(t)[p]
                                   /\ p \notin Under(t)[p]
           /\ \A p \in Parents : \A y \in Under(t)[p] :
                 Under(t)[y] \subseteq Under(t)[p] /\ Children(t, y) \subseteq Under(t)[p]
           /\ \A p \in Parents : \A y \in Under(t)[p] :
                 \E q \in {p} \cup Under(t)[p] : q \in Parents /\ y \in Children(t, q)
           /\ \A p, q \in Parents : \A y \in Children(t, q) : y \in Under(t)[p] => q = p \/ q \in Under(t)[p]
           /\ \A p, q \in Parents : \A y \in Children(t, p) : y \in Children(t, q) => p = q
<1> DEFINE next == ChildGraph(t)
           D == Under(t)
<1>1. /\ t \in TreeType /\ next \in Graph /\ Grounded(next) /\ SoleParents(next)
      /\ D = Descendants(next) /\ \A p \in Parents : next[p] = Children(t, p) /\ Children(t, p) \subseteq Nodes
  BY ChildrenType DEF Wired
<1> HIDE DEF next
<1>2. ASSUME NEW p \in Parents PROVE D[p] \subseteq Parents /\ next[p] \subseteq D[p] /\ p \notin D[p]
  BY <1>1, DescendantsType, DescendantsNext, DescendantsIrreflexive
<1>3. ASSUME NEW p \in Parents, NEW y \in D[p] PROVE y \in Parents /\ D[y] \subseteq D[p] /\ next[y] \subseteq D[p]
  BY <1>1, DescendantsTrans
<1>4. ASSUME NEW p \in Parents, NEW y \in D[p]
      PROVE  \E q \in {p} \cup D[p] : q \in Parents /\ y \in next[q]
  BY <1>1, DescendantsStep
<1>5. ASSUME NEW p \in Parents, NEW y \in D[p], NEW q \in Parents, y \in next[q]
      PROVE  q = p \/ q \in D[p]
  BY <1>1, <1>5, DescendantsUp
<1>6. \A p, q \in Parents : \A y \in next[p] : y \in next[q] => p = q
  BY <1>1 DEF SoleParents
<1> HIDE DEF D
<1>7. \A p \in Parents : D[p] \subseteq Nodes
  BY <1>1, <1>4
<1>8. \A p \in Parents : \A y \in D[p] : next[y] = Children(t, y)
  BY <1>1, <1>3
<1>9. \A p \in Parents : next[p] = Children(t, p)
  BY <1>1
<1>10. \A p \in Parents : D[p] \subseteq Nodes /\ Children(t, p) \subseteq D[p] /\ p \notin D[p]
  BY <1>2, <1>7, <1>9
<1>11. \A p \in Parents : \A y \in D[p] : D[y] \subseteq D[p] /\ Children(t, y) \subseteq D[p]
  BY <1>3, <1>8
<1>12. \A p \in Parents : \A y \in D[p] : \E q \in {p} \cup D[p] : q \in Parents /\ y \in Children(t, q)
  BY <1>4, <1>9
<1>13. \A p, q \in Parents : \A y \in Children(t, q) : y \in D[p] => q = p \/ q \in D[p]
  BY <1>5, <1>9
<1>14. \A p, q \in Parents : \A y \in Children(t, p) : y \in Children(t, q) => p = q
  BY <1>6, <1>9
<1> QED BY <1>10, <1>11, <1>12, <1>13, <1>14 DEF D

\* Two nodes that both have y below are one below the other.
LEMMA UnderChain ==
    ASSUME NEW t, Wired(t), NEW p \in Parents, NEW q \in Parents, NEW y,
           y \in Below(t, p), y \in Below(t, q)
    PROVE  p \in Below(t, q) \/ q \in Below(t, p)
<1>1. /\ t \in TreeType /\ ChildGraph(t) \in Graph /\ Grounded(ChildGraph(t)) /\ SoleParents(ChildGraph(t))
      /\ Under(t) = Descendants(ChildGraph(t))
  BY ChildrenType DEF Wired
<1>2. CASE y = p \/ y = q
  BY <1>2 DEF Below
<1>3. CASE y # p /\ y # q
  <2>1. y \in Descendants(ChildGraph(t))[p] /\ y \in Descendants(ChildGraph(t))[q]
    BY <1>1, <1>3 DEF Below
  <2>2. p = q \/ p \in Descendants(ChildGraph(t))[q] \/ q \in Descendants(ChildGraph(t))[p]
    BY <1>1, <2>1, DescendantsChain
  <2> QED BY <2>2, <1>1 DEF Below
<1> QED BY <1>2, <1>3

\* What the points below a node are like: below it, closed, grounded.
LEMMA PointsRules ==
    ASSUME NEW t, Wired(t)
    PROVE  /\ \A p \in Parents : PointsUnder(t)[p] \subseteq Under(t)[p] /\ Items(t, p) \subseteq PointsUnder(t)[p]
           /\ \A p \in Parents : \A y \in PointsUnder(t)[p] : y \in Nodes /\ IsItem(t, y)
           /\ \A p \in Parents : \A y \in PointsUnder(t)[p] :
                 PointsUnder(t)[y] \subseteq PointsUnder(t)[p] /\ Items(t, y) \subseteq PointsUnder(t)[p]
           /\ \A p \in Parents : \A y \in PointsUnder(t)[p] :
                 \E q \in {p} \cup PointsUnder(t)[p] : q \in Parents /\ y \in Items(t, q)
           /\ \A p, q \in Parents : \A y \in Children(t, q) :
                 y \in PointsUnder(t)[p] => q = p \/ q \in PointsUnder(t)[p]
           /\ Grounded(ItemGraph(t))
<1> DEFINE next == ItemGraph(t)
           P == PointsUnder(t)
<1>1. /\ t \in TreeType /\ next \in Graph /\ P = Descendants(next)
      /\ \A p \in Parents : next[p] = Items(t, p) /\ Items(t, p) \subseteq Children(t, p)
      /\ \A p \in Parents : \A x \in Items(t, p) : x \in Nodes /\ IsItem(t, x)
      /\ ChildGraph(t) \in Graph /\ \A p \in Parents : ChildGraph(t)[p] = Children(t, p)
      /\ Grounded(ChildGraph(t)) /\ SoleParents(ChildGraph(t)) /\ Under(t) = Descendants(ChildGraph(t))
  BY ChildrenType DEF Wired
<1> HIDE DEF next
<1>2. \A p \in Parents : next[p] \subseteq ChildGraph(t)[p]
  BY <1>1
<1>3. Grounded(next) /\ \A p \in Parents : P[p] \subseteq Under(t)[p]
  BY <1>1, <1>2, GroundedSubgraph
<1>4. ASSUME NEW p \in Parents PROVE P[p] \subseteq Parents /\ next[p] \subseteq P[p]
  BY <1>1, <1>3, DescendantsType, DescendantsNext
<1>5. ASSUME NEW p \in Parents, NEW y \in P[p] PROVE y \in Parents /\ P[y] \subseteq P[p] /\ next[y] \subseteq P[p]
  BY <1>1, <1>3, DescendantsTrans
<1>6. ASSUME NEW p \in Parents, NEW y \in P[p]
      PROVE  \E q \in {p} \cup P[p] : q \in Parents /\ y \in next[q]
  BY <1>1, <1>3, DescendantsStep
<1> HIDE DEF P
<1>7. \A p \in Parents : \A y \in P[p] : \E q \in {p} \cup P[p] : q \in Parents /\ y \in Items(t, q)
  BY <1>1, <1>6
<1>8. \A p \in Parents : \A y \in P[p] : y \in Nodes /\ IsItem(t, y)
  BY <1>1, <1>7
<1>9. ASSUME NEW p \in Parents, NEW q \in Parents, NEW y \in Children(t, q), y \in P[p]
      PROVE  q = p \/ q \in P[p]
  <2>1. PICK r \in {p} \cup P[p] : r \in Parents /\ y \in Items(t, r)
    BY <1>7, <1>9
  <2>2. r = q
    BY <2>1, <1>1 DEF SoleParents
  <2> QED BY <2>1, <2>2
<1>10. \A p \in Parents : \A y \in P[p] : P[y] \subseteq P[p] /\ Items(t, y) \subseteq P[p]
  BY <1>1, <1>5
<1>11. \A p \in Parents : P[p] \subseteq Under(t)[p] /\ Items(t, p) \subseteq P[p]
  BY <1>1, <1>3, <1>4
<1> QED BY <1>3, <1>7, <1>8, <1>9, <1>10, <1>11 DEF P, next

\* The tree is what is below the two sections.
LEMMA AttachedIs ==
    ASSUME NEW t, Wired(t)
    PROVE  Attached(t) = Under(t)["s5"] \cup Under(t)["pm"] /\ Attached(t) \subseteq Nodes
<1>1. Under(t)["s5"] \subseteq Nodes /\ Under(t)["pm"] \subseteq Nodes
  BY UnderRules, ParentsNodes
<1>2. \A x \in Nodes : x \notin Sections
  BY ParentsNodes
<1> QED BY <1>1, <1>2, ParentsNodes DEF Attached, Below

\* The tree goes on below its nodes.
LEMMA AttachedDown ==
    ASSUME NEW t, Wired(t), NEW p \in Sections \cup Attached(t)
    PROVE  /\ p \in Parents
           /\ Under(t)[p] \subseteq Attached(t)
           /\ Below(t, p) \subseteq Sections \cup Attached(t)
           /\ Children(t, p) \subseteq Attached(t)
<1>1. Sections = {"s5", "pm"}
  BY DEF Sections
<1>2. p \in Parents
  BY AttachedIs, ParentsNodes
<1>3. CASE p \in Sections
  BY <1>1, <1>2, <1>3, UnderRules, AttachedIs DEF Below
<1>4. CASE p \in Attached(t)
  <2>1. PICK s \in Sections : p \in Under(t)[s]
    BY <1>1, <1>4, AttachedIs
  <2>2. s \in Parents
    BY ParentsNodes
  <2>3. Under(t)[p] \subseteq Under(t)[s] /\ Children(t, p) \subseteq Under(t)[s]
    BY <2>1, <2>2, UnderRules
  <2>4. Under(t)[s] \subseteq Attached(t)
    BY <1>1, AttachedIs
  <2> QED BY <1>2, <1>4, <2>3, <2>4 DEF Below
<1> QED BY <1>3, <1>4

\* A node below another has one parent, at that node or below it.
LEMMA ParentOf ==
    ASSUME NEW t, Wired(t), NEW x, NEW r \in Parents, x \in Under(t)[r]
    PROVE  /\ Parent(t, x) \in Parents /\ x \in Children(t, Parent(t, x)) /\ x \in Nodes
           /\ Parent(t, x) = r \/ Parent(t, x) \in Under(t)[r]
           /\ \A p \in Parents : x \in Children(t, p) <=> p = Parent(t, x)
<1>1. \E p \in Parents : x \in Children(t, p)
  BY UnderRules
<1>2. Parent(t, x) \in Parents /\ x \in Children(t, Parent(t, x))
  BY <1>1 DEF Parent
<1>3. x \in Nodes
  BY UnderRules
<1>4. Parent(t, x) = r \/ Parent(t, x) \in Under(t)[r]
  BY <1>2, UnderRules
<1>5. \A p \in Parents : x \in Children(t, p) => p = Parent(t, x)
  BY <1>2, UnderRules
<1> QED BY <1>2, <1>3, <1>4, <1>5

\* A node of the tree has one parent, in the tree or a section.
LEMMA AttachedUp ==
    ASSUME NEW t, Wired(t), NEW x \in Attached(t)
    PROVE  /\ Parent(t, x) \in Sections \cup Attached(t) /\ Parent(t, x) \in Parents
           /\ x \in Children(t, Parent(t, x)) /\ x \in Nodes
           /\ \A p \in Parents : x \in Children(t, p) <=> p = Parent(t, x)
<1>1. PICK s \in Sections : x \in Under(t)[s] /\ Under(t)[s] \subseteq Attached(t)
  BY AttachedIs DEF Sections
<1>2. s \in Parents
  BY ParentsNodes
<1> QED BY <1>1, <1>2, ParentOf

\* An identifier that is not in use leaves no trace.
Clean(t) ==
    \A x \in Nodes : t.kind[x] = "none" =>
        t.kids[x] = <<>> /\ t.level[x] = 0 /\ x \notin t.summary /\ x \notin t.tb

\* Only points have numbers, summaries and banks.
OnlyPoints(t) ==
    /\ \A x \in t.summary \cup t.tb : IsItem(t, x)
    /\ \A x \in Parents : ~IsItem(t, x) => t.level[x] = 0
    /\ \A x \in Sections : IsItem(t, x) /\ t.level[x] = 0

\* The nodes of R hang nowhere.
Loose(t, R) == \A r \in R : r \in Nodes /\ \A p \in Parents : r \notin Children(t, p)

BelowAll(t, R) == UNION {Below(t, r) : r \in R}
Alive(t, R) == Attached(t) \cup BelowAll(t, R)

\* The tree and the subtrees at R are all there is.
Shape(t, R) ==
    /\ Wired(t) /\ Clean(t) /\ OnlyPoints(t) /\ Loose(t, R)
    /\ \A x \in Nodes : t.kind[x] # "none" <=> x \in Alive(t, R)

\* Trees with the same lists of children have the same structure.
LEMMA SameWires ==
    ASSUME NEW t, NEW u, u.kids = t.kids
    PROVE  /\ \A p : Children(u, p) = Children(t, p)
           /\ ChildGraph(u) = ChildGraph(t) /\ Under(u) = Under(t)
           /\ \A p : Below(u, p) = Below(t, p)
           /\ \A x : Parent(u, x) = Parent(t, x)
           /\ Attached(u) = Attached(t)
           /\ \A R : BelowAll(u, R) = BelowAll(t, R) /\ Alive(u, R) = Alive(t, R) /\ (Loose(u, R) <=> Loose(t, R))
           /\ (u \in TreeType /\ Wired(t) => Wired(u))
<1>1. \A p : Children(u, p) = Children(t, p)
  BY DEF Children
<1>2. ChildGraph(u) = ChildGraph(t)
  BY <1>1 DEF ChildGraph
<1>3. Under(u) = Under(t)
  BY <1>2 DEF Under, ChildGraph
<1>4. \A p : Below(u, p) = Below(t, p)
  BY <1>3 DEF Below
<1>5. \A x : Parent(u, x) = Parent(t, x)
  BY <1>1 DEF Parent
<1>6. Attached(u) = Attached(t)
  BY <1>4 DEF Attached
<1>7. \A R : BelowAll(u, R) = BelowAll(t, R)
  BY <1>4 DEF BelowAll
<1>8. \A R : Alive(u, R) = Alive(t, R)
  BY <1>6, <1>7 DEF Alive
<1>9. \A R : Loose(u, R) <=> Loose(t, R)
  BY <1>1 DEF Loose
<1>10. u \in TreeType /\ Wired(t) => Wired(u)
  BY <1>2 DEF Wired
<1> QED BY <1>1, <1>2, <1>3, <1>4, <1>5, <1>6, <1>7, <1>8, <1>9, <1>10

\* With the same kinds too, they have the same points, risks and depths.
LEMMA SamePoints ==
    ASSUME NEW t, NEW u, u.kids = t.kids, u.kind = t.kind
    PROVE  /\ \A p : Items(u, p) = Items(t, p) /\ (IsItem(u, p) <=> IsItem(t, p)) /\ (OwnRisk(u, p) <=> OwnRisk(t, p))
           /\ ItemGraph(u) = ItemGraph(t) /\ PointsUnder(u) = PointsUnder(t)
           /\ \A p : PointsBelow(u, p) = PointsBelow(t, p)
           /\ \A x : HasRisks(u, x) <=> HasRisks(t, x)
           /\ \A x : getNodeDepth(u, x) = getNodeDepth(t, x)
<1>1. \A p : Children(u, p) = Children(t, p) /\ Below(u, p) = Below(t, p)
  BY SameWires
<1>2. \A p : IsItem(u, p) <=> IsItem(t, p)
  BY DEF IsItem
<1>3. \A p : Items(u, p) = Items(t, p)
  BY <1>1, <1>2 DEF Items
<1>4. ItemGraph(u) = ItemGraph(t)
  BY <1>3 DEF ItemGraph
<1>5. PointsUnder(u) = PointsUnder(t)
  BY <1>4 DEF PointsUnder, ItemGraph
<1>6. \A p : PointsBelow(u, p) = PointsBelow(t, p)
  BY <1>5 DEF PointsBelow
<1>8. \A x : HasRisks(u, x) <=> HasRisks(t, x)
  BY <1>1 DEF HasRisks, IsRisk
<1>9. \A p : OwnRisk(u, p) <=> OwnRisk(t, p)
  BY <1>1 DEF OwnRisk, IsRisk
<1>10. \A x : getNodeDepth(u, x) = getNodeDepth(t, x)
  <2>1. Under(u) = Under(t)
    BY SameWires
  <2> QED BY <2>1 DEF getNodeDepth
<1> QED BY <1>2, <1>3, <1>4, <1>5, <1>6, <1>8, <1>9, <1>10

\* Numbers and marks may change: the shape stays.
LEMMA ShapeFrame ==
    ASSUME NEW t, NEW R, Shape(t, R), NEW u \in TreeType, u.kids = t.kids, u.kind = t.kind,
           \A x \in Parents : ~IsItem(t, x) => u.level[x] = 0,
           \A x \in Sections : u.level[x] = 0,
           \A x \in u.summary \cup u.tb : IsItem(t, x)
    PROVE  Shape(u, R)
<1>1. Wired(u) /\ Loose(u, R) /\ Alive(u, R) = Alive(t, R)
  BY SameWires DEF Shape
<1>2. OnlyPoints(u)
  BY SamePoints DEF Shape, OnlyPoints
<1>3. Clean(u)
  <2>1. SUFFICES ASSUME NEW x \in Nodes, u.kind[x] = "none"
                 PROVE  u.kids[x] = <<>> /\ u.level[x] = 0 /\ x \notin u.summary /\ x \notin u.tb
    BY DEF Clean
  <2>2. ~IsItem(t, x)
    BY <2>1 DEF IsItem
  <2>3. t.kids[x] = <<>>
    BY <2>1 DEF Shape, Clean
  <2> QED BY <2>1, <2>2, <2>3, ParentsNodes
<1> QED BY <1>1, <1>2, <1>3 DEF Shape

\* The numbers are the ones the structure gives.
Numbered(t) ==
    /\ \A x \in PointsBelow(t, "s5") :
          t.level[x] = 1 + Cardinality({a \in PointsBelow(t, "s5") : x \in PointsBelow(t, a)})
    /\ \A x \in PointsBelow(t, "pm") : t.level[x] = 0

\* No node is in both sections.
LEMMA PointsApart ==
    ASSUME NEW t, Wired(t)
    PROVE  Under(t)["s5"] \cap Under(t)["pm"] = {}
<1>1. SUFFICES ASSUME NEW x \in Under(t)["s5"], x \in Under(t)["pm"] PROVE FALSE
  OBVIOUS
<1>2. "s5" \in Below(t, "pm") \/ "pm" \in Below(t, "s5")
  BY <1>1, ParentsNodes, UnderChain DEF Below
<1> QED BY <1>2, ParentsNodes, UnderRules DEF Below

-----------------------------------------------------------------------------
(* Numbers.                                                                *)

\* The number every node has after generateNumbering.
LEMMA NumberingLevels ==
    ASSUME NEW t, Wired(t)
    PROVE  LET u == generateNumbering(t) IN
           /\ u \in TreeType
           /\ u.kids = t.kids /\ u.kind = t.kind /\ u.summary = t.summary /\ u.main = t.main /\ u.tb = t.tb
           /\ \A x \in Parents : u.level[x] =
                 IF x \in PointsBelow(t, "s5")
                 THEN 1 + Cardinality({a \in PointsBelow(t, "s5") : x \in PointsBelow(t, a)})
                 ELSE IF x \in PointsBelow(t, "pm") THEN 0 ELSE t.level[x]
<1> DEFINE u == generateNumbering(t)
           lev == [x \in Parents |->
                 IF x \in PointsBelow(t, "s5")
                 THEN 1 + Cardinality({a \in PointsBelow(t, "s5") : x \in PointsBelow(t, a)})
                 ELSE IF x \in PointsBelow(t, "pm") THEN 0 ELSE t.level[x]]
<1>1. t \in TreeType
  BY DEF Wired
<1>2. u = [t EXCEPT !.level = lev]
  BY DEF generateNumbering
<1>3. PointsBelow(t, "s5") \subseteq Parents
  BY PointsRules, ParentsNodes DEF PointsBelow
<1>4. IsFiniteSet(PointsBelow(t, "s5"))
  BY <1>3, ParentsNodes, FS_Subset
<1>5. ASSUME NEW x PROVE 1 + Cardinality({a \in PointsBelow(t, "s5") : x \in PointsBelow(t, a)}) \in Nat
  <2> DEFINE A == {a \in PointsBelow(t, "s5") : x \in PointsBelow(t, a)}
  <2>1. A \in SUBSET PointsBelow(t, "s5")
    OBVIOUS
  <2> HIDE DEF A
  <2>2. IsFiniteSet(A)
    BY <2>1, <1>4, FS_Subset
  <2>3. Cardinality(A) \in Nat
    BY <2>2, FS_CardinalityType
  <2>4. 1 + Cardinality(A) \in Nat
    BY <2>3
  <2> QED BY <2>4 DEF A
<1>6. lev \in [Parents -> Nat]
  <2>1. ASSUME NEW x \in Parents
        PROVE  (IF x \in PointsBelow(t, "s5")
                THEN 1 + Cardinality({a \in PointsBelow(t, "s5") : x \in PointsBelow(t, a)})
                ELSE IF x \in PointsBelow(t, "pm") THEN 0 ELSE t.level[x]) \in Nat
    <3>1. t.level[x] \in Nat
      BY <1>1, TreeFields
    <3>2. 1 + Cardinality({a \in PointsBelow(t, "s5") : x \in PointsBelow(t, a)}) \in Nat
      BY <1>5
    <3> QED BY <3>1, <3>2, Zenon, 0 \in Nat
  <2> QED BY <2>1, Zenon
<1>7. \A x \in Parents : lev[x] =
                 IF x \in PointsBelow(t, "s5")
                 THEN 1 + Cardinality({a \in PointsBelow(t, "s5") : x \in PointsBelow(t, a)})
                 ELSE IF x \in PointsBelow(t, "pm") THEN 0 ELSE t.level[x]
  OBVIOUS
<1> HIDE DEF lev
<1>8. u.level = lev /\ u.kids = t.kids /\ u.kind = t.kind /\ u.summary = t.summary /\ u.main = t.main
      /\ u.tb = t.tb /\ u \in TreeType
  BY <1>1, <1>2, <1>6 DEF TreeType
<1> QED BY <1>7, <1>8

\* Numbering keeps the shape, and numbers it.
LEMMA ShapeNumbering ==
    ASSUME NEW t, NEW R, Shape(t, R)
    PROVE  Shape(generateNumbering(t), R) /\ Numbered(generateNumbering(t))
<1> DEFINE u == generateNumbering(t)
<1>1. Wired(t) /\ OnlyPoints(t) /\ t \in TreeType
  BY DEF Shape, Wired
<1>2. u \in TreeType /\ u.kids = t.kids /\ u.kind = t.kind /\ u.summary = t.summary /\ u.main = t.main /\ u.tb = t.tb
  BY <1>1, NumberingLevels
<1>3. \A x \in Parents : u.level[x] =
                 IF x \in PointsBelow(t, "s5")
                 THEN 1 + Cardinality({a \in PointsBelow(t, "s5") : x \in PointsBelow(t, a)})
                 ELSE IF x \in PointsBelow(t, "pm") THEN 0 ELSE t.level[x]
  BY <1>1, NumberingLevels
<1> HIDE DEF u
<1>4. \A p \in {"s5", "pm"} : \A x \in PointsBelow(t, p) : x \in Nodes /\ x \in Parents /\ IsItem(t, x)
  BY <1>1, PointsRules, ParentsNodes DEF PointsBelow
<1>5. \A x \in Parents : ~IsItem(t, x) => u.level[x] = 0
  BY <1>1, <1>3, <1>4 DEF OnlyPoints
<1>6. \A x \in Sections : u.level[x] = 0
  <2>1. ASSUME NEW x \in Sections PROVE u.level[x] = 0
    <3>1. x \in Parents /\ x \notin Nodes
      BY ParentsNodes
    <3>2. u.level[x] = t.level[x]
      BY <3>1, <1>3, <1>4
    <3> QED BY <3>2, <1>1 DEF OnlyPoints
  <2> QED BY <2>1
<1>7. \A x \in u.summary \cup u.tb : IsItem(t, x)
  BY <1>1, <1>2 DEF OnlyPoints
<1>8. Shape(u, R)
  BY <1>2, <1>5, <1>6, <1>7, ShapeFrame
<1>9. Numbered(u)
  <2>1. \A p : PointsBelow(u, p) = PointsBelow(t, p)
    BY <1>2, SamePoints
  <2>2. PointsBelow(t, "s5") \cap PointsBelow(t, "pm") = {}
    BY <1>1, PointsApart, PointsRules, ParentsNodes DEF PointsBelow
  <2>3. ASSUME NEW x \in PointsBelow(u, "s5")
        PROVE  u.level[x] = 1 + Cardinality({a \in PointsBelow(u, "s5") : x \in PointsBelow(u, a)})
    <3>1. x \in PointsBelow(t, "s5") /\ x \in Parents
      BY <2>1, <1>4
    <3>2. u.level[x] = 1 + Cardinality({a \in PointsBelow(t, "s5") : x \in PointsBelow(t, a)})
      BY <3>1, <1>3, Zenon
    <3>3. {a \in PointsBelow(u, "s5") : x \in PointsBelow(u, a)}
            = {a \in PointsBelow(t, "s5") : x \in PointsBelow(t, a)}
      BY <2>1
    <3> QED BY <3>2, <3>3, Zenon
  <2>4. ASSUME NEW x \in PointsBelow(u, "pm") PROVE u.level[x] = 0
    <3>1. x \in PointsBelow(t, "pm") /\ x \in Parents /\ x \notin PointsBelow(t, "s5")
      BY <2>1, <2>2, <1>4
    <3> QED BY <3>1, <1>3, Zenon
  <2> QED BY <2>3, <2>4 DEF Numbered
<1> QED BY <1>8, <1>9 DEF u

-----------------------------------------------------------------------------
(* What creating, inserting, detaching and forgetting do to a shape.       *)

\* The parts of Shape, for citing.
LEMMA ShapeParts ==
    ASSUME NEW t, NEW R, Shape(t, R)
    PROVE  /\ Wired(t) /\ t \in TreeType /\ Clean(t) /\ OnlyPoints(t) /\ Loose(t, R)
           /\ ChildGraph(t) \in Graph /\ Grounded(ChildGraph(t)) /\ SoleParents(ChildGraph(t))
           /\ Under(t) = Descendants(ChildGraph(t))
           /\ \A x \in Nodes : t.kind[x] # "none" <=> x \in Alive(t, R)
           /\ R \subseteq Nodes
BY ChildrenType DEF Shape, Wired, Loose

\* What hangs somewhere is alive.
LEMMA AliveDown ==
    ASSUME NEW t, NEW R, Shape(t, R), NEW p \in Parents, NEW x \in Children(t, p)
    PROVE  /\ p \in Sections \cup Alive(t, R)
           /\ x \in Alive(t, R) /\ x \in Nodes
<1>0. Wired(t) /\ t \in TreeType
  BY DEF Shape, Wired
<1>1. x \in Nodes
  BY <1>0, ChildrenType
<1>2. t.kids[p] # <<>>
  BY DEF Children, Range
<1>3. p \in Sections \cup Alive(t, R)
  <2>1. CASE p \in Sections
    BY <2>1
  <2>2. CASE p \notin Sections
    <3>1. p \in Nodes
      BY <2>2, ParentsNodes
    <3>2. t.kind[p] # "none"
      BY <3>1, <1>2 DEF Shape, Clean
    <3> QED BY <3>1, <3>2 DEF Shape
  <2> QED BY <2>1, <2>2
<1>4. CASE p \in Sections \cup Attached(t)
  BY <1>0, <1>1, <1>3, <1>4, AttachedDown DEF Alive
<1>5. CASE \E r \in R : p \in Below(t, r)
  <2>1. PICK r \in R : p \in Below(t, r)
    BY <1>5
  <2>2. r \in Parents
    BY ParentsNodes DEF Shape, Loose
  <2>3. x \in Under(t)[r]
    BY <1>0, <2>1, <2>2, UnderRules DEF Below
  <2>4. x \in Below(t, r)
    BY <2>3 DEF Below
  <2> QED BY <1>1, <1>3, <2>1, <2>4 DEF Alive, BelowAll
<1> QED BY <1>3, <1>4, <1>5 DEF Alive, BelowAll

\* Nothing of the tree is below a loose node, and no loose node below another.
LEMMA LooseApart ==
    ASSUME NEW t, NEW R, Shape(t, R), NEW r \in R
    PROVE  /\ r \in Nodes /\ r \in Parents /\ r \notin Attached(t)
           /\ \A p \in Parents : r \notin Under(t)[p]
           /\ \A p \in Sections \cup Attached(t) : p \notin Below(t, r)
           /\ Below(t, r) \cap (Sections \cup Attached(t)) = {}
           /\ \A q \in Parents : q # r /\ (\A p \in Parents : q \notin Children(t, p)) =>
                 Below(t, q) \cap Below(t, r) = {}
<1>0. Wired(t) /\ t \in TreeType
  BY DEF Shape, Wired
<1>1. r \in Nodes /\ r \in Parents /\ \A p \in Parents : r \notin Children(t, p)
  BY ParentsNodes DEF Shape, Loose
<1>2. \A p \in Parents : r \notin Under(t)[p]
  BY <1>0, <1>1, UnderRules
<1>3. ASSUME NEW q \in Parents, q # r, \A p \in Parents : q \notin Children(t, p), NEW y \in Below(t, r), y \in Below(t, q)
      PROVE  FALSE
  <2>1. r \in Below(t, q) \/ q \in Below(t, r)
    BY <1>0, <1>1, <1>3, UnderChain
  <2>2. q \in Under(t)[r]
    BY <2>1, <1>2, <1>3 DEF Below
  <2> QED BY <2>2, <1>0, <1>1, <1>3, UnderRules
<1>4. r \notin Attached(t)
  BY <1>0, <1>2, AttachedIs, ParentsNodes
<1>5. ASSUME NEW p \in Sections \cup Attached(t), p \in Below(t, r) PROVE FALSE
  <2>1. PICK s \in Sections : p \in Below(t, s)
    BY <1>0, AttachedIs DEF Sections, Below
  <2>2. s \in Parents /\ s \notin Nodes /\ \A q \in Parents : s \notin Children(t, q)
    BY <1>0, ChildrenType, ParentsNodes
  <2> QED BY <1>1, <1>3, <1>5, <2>1, <2>2
<1> QED BY <1>1, <1>2, <1>3, <1>4, <1>5

\* u is t with the new node x, nowhere in the tree.
IsCreated(t, R, x, kind, u) ==
    /\ Shape(u, R \cup {x}) /\ x \notin R /\ x \notin Attached(t)
    /\ u.kids = t.kids /\ u.level = t.level /\ u.summary = t.summary /\ u.main = t.main /\ u.tb = t.tb
    /\ u.kind[x] = kind /\ \A y \in Parents : y # x => u.kind[y] = t.kind[y]
    /\ Under(t)[x] = {} /\ Below(t, x) = {x} /\ Children(t, x) = {}
    /\ \A p \in Parents : x \notin Children(t, p) /\ x \notin Under(t)[p]

\* A node created is loose and has nothing below it.
LEMMA ShapeCreated ==
    ASSUME NEW t, NEW R, Shape(t, R), NEW x \in Nodes, t.kind[x] = "none", NEW kind \in KindSet \ {"none"}
    PROVE  IsCreated(t, R, x, kind, Created(t, x, kind))
<1> DEFINE u == Created(t, x, kind)
<1>0. Wired(t) /\ t \in TreeType /\ x \in Parents
  BY ParentsNodes DEF Shape, Wired
<1>1. /\ u \in TreeType /\ u.kids = t.kids /\ u.level = t.level /\ u.summary = t.summary /\ u.main = t.main
      /\ u.tb = t.tb /\ u.kind = [t.kind EXCEPT ![x] = kind]
  BY <1>0 DEF Created, TreeType
<1>2. u.kind[x] = kind /\ \A y \in Parents : y # x => u.kind[y] = t.kind[y]
  BY <1>0, <1>1, TreeFields
<1> HIDE DEF u
<1>3. x \notin Alive(t, R)
  BY DEF Shape
<1>4. \A p \in Parents : x \notin Children(t, p)
  BY <1>3, AliveDown
<1>5. Children(t, x) = {}
  BY DEF Shape, Clean, Children, Range
<1>6. Under(t)[x] = {}
  <2>1. Under(t) = Descendants(ChildGraph(t)) /\ ChildGraph(t) \in Graph /\ ChildGraph(t)[x] = {}
    BY <1>0, <1>5, ChildrenType
  <2> QED BY <2>1, <1>0, DescendantsOf
<1>7. Below(t, x) = {x}
  BY <1>6 DEF Below
<1>8. \A p \in Parents : x \notin Under(t)[p]
  BY <1>0, <1>4, UnderRules
<1>9. x \notin R /\ x \notin Attached(t)
  BY <1>3 DEF Alive, BelowAll, Below
<1>10. Wired(u) /\ Alive(u, R \cup {x}) = Alive(t, R) \cup {x} /\ Loose(u, R \cup {x})
  <2>1. Wired(u) /\ Alive(u, R \cup {x}) = Alive(t, R \cup {x}) /\ (Loose(u, R \cup {x}) <=> Loose(t, R \cup {x}))
    BY <1>0, <1>1, SameWires
  <2>2. Alive(t, R \cup {x}) = Alive(t, R) \cup {x}
    BY <1>7 DEF Alive, BelowAll
  <2>3. Loose(t, R \cup {x})
    BY <1>4 DEF Loose, Shape
  <2> QED BY <2>1, <2>2, <2>3
<1>11. Clean(u)
  BY <1>1, <1>2, ParentsNodes DEF Clean, Shape
<1>12. OnlyPoints(u)
  <2>1. OnlyPoints(t) /\ t.level[x] = 0 /\ x \notin t.summary /\ x \notin t.tb
    BY DEF Shape, Clean
  <2>2. \A y \in Parents : y # x => (IsItem(u, y) <=> IsItem(t, y))
    BY <1>2 DEF IsItem
  <2>3. t.summary \subseteq Parents /\ t.tb \subseteq Parents /\ x \notin Sections /\ Sections \subseteq Parents
    BY <1>0, TreeFields, ParentsNodes
  <2> QED BY <2>1, <2>2, <2>3, <1>1 DEF OnlyPoints
<1>13. \A y \in Nodes : u.kind[y] # "none" <=> y \in Alive(u, R \cup {x})
  BY <1>2, <1>10, ParentsNodes DEF Shape
<1>14. Shape(u, R \cup {x})
  BY <1>10, <1>11, <1>12, <1>13 DEF Shape
<1> QED BY <1>14, <1>9, <1>1, <1>2, <1>6, <1>7, <1>5, <1>4, <1>8 DEF u, IsCreated

\* u is t with the loose subtree of x below p.
IsInserted(t, R, p, x, u) ==
    /\ Shape(u, R \ {x}) /\ x \in Nodes /\ p \in Parents
    /\ u.kind = t.kind /\ u.level = t.level /\ u.summary = t.summary /\ u.main = t.main /\ u.tb = t.tb
    /\ \A q \in Parents : Children(u, q) = IF q = p THEN Children(t, q) \cup {x} ELSE Children(t, q)
    /\ \A q \in Parents : Under(u)[q] = Under(t)[q] \cup (IF p \in Below(t, q) THEN Below(t, x) ELSE {})
    /\ Attached(u) = Attached(t) \cup Below(t, x)
    /\ x \notin Children(t, p) /\ p \notin Below(t, x)

\* A loose node inserted in the tree brings its subtree with it.
LEMMA ShapeInserted ==
    ASSUME NEW t, NEW R, Shape(t, R), NEW x \in R, NEW p \in Sections \cup Attached(t), NEW i \in 0 .. Len(t.kids[p])
    PROVE  IsInserted(t, R, p, x, InsertedAt(t, p, i, x))
<1> DEFINE u == InsertedAt(t, p, i, x)
           old == ChildGraph(t)
           new == ChildGraph(u)
<1>0. Wired(t) /\ t \in TreeType /\ p \in Parents /\ x \in Nodes /\ x \in Parents
  BY AttachedIs, ParentsNodes DEF Shape, Wired, Loose
<1>1. t.kids[p] \in Seq(Nodes) /\ t.kids \in [Parents -> Seq(Nodes)]
  BY <1>0, TreeFields
<1>2. x \notin Children(t, p) /\ \A q \in Parents : x \notin Children(t, q)
  BY <1>0 DEF Shape, Loose
<1>3. /\ InsertAt(t.kids[p], i + 1, x) \in Seq(Nodes)
      /\ Range(InsertAt(t.kids[p], i + 1, x)) = Children(t, p) \cup {x}
      /\ IsInjective(InsertAt(t.kids[p], i + 1, x))
  <2>1. IsInjective(t.kids[p]) /\ x \notin Range(t.kids[p])
    BY <1>0, <1>2 DEF Wired, Children
  <2> DEFINE s == t.kids[p]
  <2>2. s \in Seq(Nodes) /\ i \in 0 .. Len(s) /\ IsInjective(s) /\ x \notin Range(s)
    BY <2>1, <1>1
  <2> HIDE DEF s
  <2>3. InsertAt(s, i + 1, x) \in Seq(Nodes)
    BY <2>2, <1>0, InsertAtElements
  <2>4. Range(InsertAt(s, i + 1, x)) = Range(s) \cup {x} /\ IsInjective(InsertAt(s, i + 1, x))
    BY <2>2, <1>0, InsertAtRange
  <2> QED BY <2>3, <2>4 DEF Children, s
<1>4. /\ u \in TreeType /\ u.kind = t.kind /\ u.level = t.level /\ u.summary = t.summary /\ u.main = t.main
      /\ u.tb = t.tb /\ u.kids = [t.kids EXCEPT ![p] = InsertAt(@, i + 1, x)]
  BY <1>0, <1>1, <1>3 DEF InsertedAt, TreeType
<1>5. \A q \in Parents : u.kids[q] = IF q = p THEN InsertAt(t.kids[p], i + 1, x) ELSE t.kids[q]
  BY <1>0, <1>1, <1>4
<1> HIDE DEF u
<1>6. \A q \in Parents : Children(u, q) = IF q = p THEN Children(t, q) \cup {x} ELSE Children(t, q)
  BY <1>3, <1>5 DEF Children
<1>7. new = Linked(old, p, x)
  <2>1. Linked(old, p, x) = [q \in Parents |-> IF q = p THEN Children(t, q) \cup {x} ELSE Children(t, q)]
    BY DEF Linked, ChildGraph
  <2> QED BY <2>1, <1>6 DEF ChildGraph
<1>8. p \notin Below(t, x)
  BY LooseApart
<1>9. p # x /\ p \notin Descendants(old)[x] /\ old \in Graph /\ Grounded(old) /\ SoleParents(old)
      /\ Under(t) = Descendants(old) /\ Under(u) = Descendants(new)
  BY <1>0, <1>4, <1>8, ChildrenType DEF Below, Wired
<1>10. Grounded(new)
  BY <1>0, <1>7, <1>9, LinkedGrounded
<1>11. SoleParents(new)
  <2>1. \A q \in Parents : new[q] = IF q = p THEN old[q] \cup {x} ELSE old[q]
    BY <1>6 DEF ChildGraph
  <2>2. \A q \in Parents : x \notin old[q]
    BY <1>2 DEF ChildGraph
  <2>3. \A q, r \in Parents : \A y \in old[q] \cap old[r] : q = r
    BY <1>9 DEF SoleParents
  <2> HIDE DEF new, old
  <2>4. ASSUME NEW q \in Parents, NEW r \in Parents, NEW y \in new[q] \cap new[r] PROVE q = r
    <3>1. CASE y = x
      BY <3>1, <2>1, <2>2, <2>4
    <3>2. CASE y # x
      BY <3>2, <2>1, <2>3, <2>4
    <3> QED BY <3>1, <3>2
  <2> QED BY <2>4 DEF SoleParents
<1>12. Wired(u)
  BY <1>0, <1>3, <1>4, <1>5, <1>10, <1>11 DEF Wired
<1>13. \A q \in Parents : Under(u)[q] = Under(t)[q] \cup (IF p \in Below(t, q) THEN Below(t, x) ELSE {})
  <2>1. ASSUME NEW q \in Parents
        PROVE  Under(u)[q] = Under(t)[q] \cup (IF p \in Below(t, q) THEN Below(t, x) ELSE {})
    <3>1. Descendants(new)[q] = Descendants(old)[q] \cup
             (IF q = p \/ p \in Descendants(old)[q] THEN {x} \cup Descendants(old)[x] ELSE {})
      BY <1>0, <1>7, <1>9, LinkedDescendants
    <3> QED BY <3>1, <1>9 DEF Below
  <2> QED BY <2>1
<1>14. Attached(u) = Attached(t) \cup Below(t, x)
  <2>1. Attached(u) = Under(u)["s5"] \cup Under(u)["pm"] /\ Attached(t) = Under(t)["s5"] \cup Under(t)["pm"]
    BY <1>0, <1>12, AttachedIs
  <2>2. p \in Below(t, "s5") \/ p \in Below(t, "pm")
    BY <2>1 DEF Sections, Below
  <2> QED BY <2>1, <2>2, <1>13, ParentsNodes
<1>15. \A r \in R \ {x} : Below(u, r) = Below(t, r)
  <2>1. ASSUME NEW r \in R \ {x} PROVE Under(u)[r] = Under(t)[r]
    <3>1. r \in R /\ r \in Parents /\ p \notin Below(t, r)
      BY LooseApart
    <3> QED BY <3>1, <1>13
  <2> QED BY <2>1 DEF Below
<1>16. Alive(u, R \ {x}) = Alive(t, R)
  <2>1. BelowAll(u, R \ {x}) = UNION {Below(t, r) : r \in R \ {x}}
    BY <1>15 DEF BelowAll
  <2>2. BelowAll(t, R) = Below(t, x) \cup UNION {Below(t, r) : r \in R \ {x}}
    BY DEF BelowAll
  <2> QED BY <2>1, <2>2, <1>14 DEF Alive
<1>17. Loose(u, R \ {x})
  BY <1>6 DEF Loose, Shape
<1>18. Clean(u)
  <2>1. \A y \in Nodes : t.kind[y] = "none" => y # p
    <3>1. SUFFICES ASSUME p \in Nodes, t.kind[p] = "none" PROVE FALSE
      OBVIOUS
    <3>2. p \in Attached(t)
      BY <3>1, ParentsNodes
    <3> QED BY <3>1, <3>2 DEF Shape, Alive
  <2>2. Nodes \subseteq Parents /\ Clean(t)
    BY ParentsNodes DEF Shape
  <2> QED BY <2>1, <2>2, <1>4, <1>5 DEF Clean
<1>19. OnlyPoints(u)
  BY <1>4 DEF Shape, OnlyPoints, IsItem
<1>20. Shape(u, R \ {x})
  BY <1>4, <1>12, <1>16, <1>17, <1>18, <1>19 DEF Shape
<1> QED BY <1>0, <1>2, <1>4, <1>6, <1>8, <1>13, <1>14, <1>20 DEF u, IsInserted

\* A subtree of the tree is all inside it.
LEMMA BelowAttached ==
    ASSUME NEW t, Wired(t), NEW x \in Attached(t), NEW s \in Sections
    PROVE  /\ s \in Parents /\ s \notin Below(t, x)
           /\ x \notin Under(t)[s] => Under(t)[s] \cap Below(t, x) = {}
<1>1. s \in Parents /\ s \notin Nodes /\ x \in Nodes /\ x \in Parents
  BY AttachedIs, ParentsNodes
<1>2. s \notin Below(t, x)
  BY <1>1, UnderRules DEF Below
<1>3. ASSUME NEW y \in Under(t)[s], y \in Below(t, x) PROVE x \in Under(t)[s]
  <2>1. s \in Below(t, x) \/ x \in Below(t, s)
    BY <1>1, <1>3, UnderChain DEF Below
  <2> QED BY <2>1, <1>1, <1>2 DEF Below
<1> QED BY <1>1, <1>2, <1>3

\* u is t with the subtree of x loose.
IsDetached(t, R, x, u) ==
    /\ Shape(u, R \cup {x}) /\ x \notin R /\ x \in Nodes
    /\ u.kind = t.kind /\ u.level = t.level /\ u.summary = t.summary /\ u.main = t.main /\ u.tb = t.tb
    /\ \A q \in Parents : Children(u, q) = Children(t, q) \ {x}
    /\ \A q \in Parents : Under(u)[q] = IF x \in Under(t)[q] THEN Under(t)[q] \ Below(t, x) ELSE Under(t)[q]
    /\ Below(u, x) = Below(t, x)
    /\ Attached(u) = Attached(t) \ Below(t, x)

\* A node taken out takes its subtree out, and is loose.
LEMMA ShapeDetached ==
    ASSUME NEW t, NEW R, Shape(t, R), NEW x \in Attached(t)
    PROVE  IsDetached(t, R, x, Detached(t, x))
<1> DEFINE u == Detached(t, x)
           p == Parent(t, x)
           old == ChildGraph(t)
           new == ChildGraph(u)
<1>0. Wired(t) /\ t \in TreeType /\ p \in Parents /\ x \in Nodes /\ x \in Parents /\ x \in Children(t, p)
      /\ \A q \in Parents : x \in Children(t, q) => q = p
  BY AttachedUp, ParentsNodes DEF Shape, Wired
<1> HIDE DEF p
<1>1. t.kids[p] \in Seq(Nodes) /\ t.kids \in [Parents -> Seq(Nodes)]
  BY <1>0, TreeFields
<1>2. /\ Without(t.kids[p], x) \in Seq(Nodes)
      /\ Range(Without(t.kids[p], x)) = Children(t, p) \ {x}
      /\ IsInjective(Without(t.kids[p], x))
  <2>1. IsInjective(t.kids[p])
    BY <1>0 DEF Wired
  <2> QED BY <2>1, <1>1, WithoutRange DEF Children
<1>3. /\ u \in TreeType /\ u.kind = t.kind /\ u.level = t.level /\ u.summary = t.summary /\ u.main = t.main
      /\ u.tb = t.tb /\ u.kids = [t.kids EXCEPT ![p] = Without(@, x)]
  BY <1>0, <1>1, <1>2 DEF Detached, TreeType, p
<1>4. \A q \in Parents : u.kids[q] = IF q = p THEN Without(t.kids[p], x) ELSE t.kids[q]
  BY <1>0, <1>1, <1>3
<1> HIDE DEF u
<1>5. \A q \in Parents : Children(u, q) = Children(t, q) \ {x}
  BY <1>0, <1>2, <1>4 DEF Children
<1>6. new = Unlinked(old, x)
  <2>1. Unlinked(old, x) = [q \in Parents |-> Children(t, q) \ {x}]
    BY DEF Unlinked, ChildGraph
  <2> QED BY <2>1, <1>5 DEF ChildGraph
<1>7. old \in Graph /\ Grounded(old) /\ SoleParents(old) /\ Under(t) = Descendants(old) /\ Under(u) = Descendants(new)
  BY <1>0, <1>3, ChildrenType DEF Wired
<1>8. /\ Grounded(new) /\ SoleParents(new)
      /\ \A q \in Parents : Under(u)[q] = IF x \in Under(t)[q] THEN Under(t)[q] \ Below(t, x) ELSE Under(t)[q]
  <2> HIDE DEF old, new
  <2>1. /\ Grounded(new) /\ SoleParents(new)
        /\ \A q \in Parents : Descendants(new)[q] =
              IF x \in Descendants(old)[q] THEN Descendants(old)[q] \ ({x} \cup Descendants(old)[x])
              ELSE Descendants(old)[q]
    <3>1. /\ Grounded(Unlinked(old, x)) /\ SoleParents(Unlinked(old, x))
          /\ \A q \in Parents : Descendants(Unlinked(old, x))[q] =
                IF x \in Descendants(old)[q] THEN Descendants(old)[q] \ ({x} \cup Descendants(old)[x])
                ELSE Descendants(old)[q]
      <4>1. x \in Parents
        BY <1>0, ParentsNodes
      <4> QED BY <4>1, <1>7, UnlinkedDescendants
    <3> QED BY <3>1, <1>6, Zenon
  <2> QED BY <2>1, <1>7 DEF Below
<1>9. Wired(u)
  BY <1>0, <1>2, <1>3, <1>4, <1>8 DEF Wired
<1>10. Under(u)[x] = Under(t)[x] /\ Below(u, x) = Below(t, x)
  <2>1. x \notin Under(t)[x]
    BY <1>0, UnderRules
  <2> QED BY <2>1, <1>0, <1>8 DEF Below
<1>11. Attached(u) = Attached(t) \ Below(t, x)
  <2>1. Attached(u) = Under(u)["s5"] \cup Under(u)["pm"] /\ Attached(t) = Under(t)["s5"] \cup Under(t)["pm"]
    BY <1>0, <1>9, AttachedIs
  <2>2. \A s \in Sections : Under(u)[s] = Under(t)[s] \ Below(t, x)
    <3>1. ASSUME NEW s \in Sections PROVE Under(u)[s] = Under(t)[s] \ Below(t, x)
      <4>1. s \in Parents /\ (x \notin Under(t)[s] => Under(t)[s] \cap Below(t, x) = {})
        BY <1>0, BelowAttached
      <4> QED BY <4>1, <1>8
    <3> QED BY <3>1
  <2> QED BY <2>1, <2>2 DEF Sections
<1>12. x \notin R
  BY LooseApart
<1>13. \A r \in R : Below(u, r) = Below(t, r)
  <2>1. ASSUME NEW r \in R PROVE Under(u)[r] = Under(t)[r]
    <3>1. r \in Parents /\ x \notin Below(t, r)
      BY LooseApart
    <3> QED BY <3>1, <1>8 DEF Below
  <2> QED BY <2>1 DEF Below
<1>14. Alive(u, R \cup {x}) = Alive(t, R)
  <2>1. BelowAll(u, R \cup {x}) = Below(t, x) \cup BelowAll(t, R)
    BY <1>10, <1>13 DEF BelowAll
  <2>2. Below(t, x) \subseteq Attached(t)
    <3>1. Under(t)[x] \subseteq Attached(t)
      BY <1>0, AttachedDown
    <3> QED BY <3>1 DEF Below
  <2> QED BY <2>1, <2>2, <1>11 DEF Alive
<1>15. Loose(u, R \cup {x})
  BY <1>0, <1>5 DEF Loose, Shape
<1>16. Clean(u)
  <2>1. \A y \in Nodes : t.kind[y] = "none" => y # p
    <3>1. SUFFICES ASSUME p \in Nodes, t.kind[p] = "none" PROVE FALSE
      OBVIOUS
    <3>2. t.kids[p] = <<>>
      BY <3>1 DEF Shape, Clean
    <3> QED BY <3>2, <1>0 DEF Children, Range
  <2>2. Nodes \subseteq Parents /\ Clean(t)
    BY ParentsNodes DEF Shape
  <2> QED BY <2>1, <2>2, <1>3, <1>4 DEF Clean
<1>17. OnlyPoints(u)
  BY <1>3 DEF Shape, OnlyPoints, IsItem
<1>18. Shape(u, R \cup {x})
  BY <1>3, <1>9, <1>14, <1>15, <1>16, <1>17 DEF Shape
<1> QED BY <1>0, <1>3, <1>5, <1>8, <1>10, <1>11, <1>12, <1>18 DEF u, IsDetached

\* u is t without the nodes that neither the tree nor Q holds.
IsForgotten(t, Q, u) ==
    /\ Shape(u, Q) /\ Attached(u) = Attached(t) /\ u.main = t.main
    /\ \A p \in Sections \cup Alive(t, Q) :
          /\ p \in Parents
          /\ Under(u)[p] = Under(t)[p] /\ Below(u, p) = Below(t, p)
          /\ u.kids[p] = t.kids[p] /\ Children(u, p) = Children(t, p)
          /\ u.kind[p] = t.kind[p] /\ u.level[p] = t.level[p]
          /\ p \in u.summary <=> p \in t.summary
          /\ p \in u.tb <=> p \in t.tb
    /\ u.summary \subseteq t.summary /\ u.tb \subseteq t.tb
    /\ \A x \in Parents : x \in Nodes \ Alive(t, Q) => u.kind[x] = "none" /\ u.kids[x] = <<>>

\* Forgetting what is neither in the tree nor below Q changes nothing of either.
LEMMA ShapeForgotten ==
    ASSUME NEW t, NEW R, Shape(t, R), NEW Q, Q \subseteq R
    PROVE  IsForgotten(t, Q, Forgotten(t, Nodes \ Alive(t, Q)))
<1> DEFINE gone == Nodes \ Alive(t, Q)
           u == Forgotten(t, gone)
<1>0. Wired(t) /\ t \in TreeType /\ OnlyPoints(t)
  BY DEF Shape, Wired
<1>1. gone \subseteq Nodes /\ gone \subseteq Parents /\ \A p \in Sections : p \in Parents /\ p \notin gone
  BY ParentsNodes
<1>2. /\ u \in TreeType /\ u.main = t.main /\ u.summary = t.summary \ gone /\ u.tb = t.tb \ gone
      /\ u.kids = [p \in Parents |-> IF p \in gone THEN <<>> ELSE t.kids[p]]
      /\ u.kind = [p \in Parents |-> IF p \in gone THEN "none" ELSE t.kind[p]]
      /\ u.level = [p \in Parents |-> IF p \in gone THEN 0 ELSE t.level[p]]
  <2>1. [p \in Parents |-> IF p \in gone THEN <<>> ELSE t.kids[p]] \in [Parents -> Seq(Nodes)]
    <3>1. <<>> \in Seq(Nodes) /\ \A p \in Parents : t.kids[p] \in Seq(Nodes)
      BY <1>0, TreeFields
    <3> QED BY <3>1
  <2>2. [p \in Parents |-> IF p \in gone THEN "none" ELSE t.kind[p]] \in [Parents -> KindSet]
    BY <1>0, TreeFields DEF KindSet
  <2>3. [p \in Parents |-> IF p \in gone THEN 0 ELSE t.level[p]] \in [Parents -> Nat]
    BY <1>0, TreeFields
  <2> HIDE DEF gone
  <2> QED BY <1>0, <2>1, <2>2, <2>3 DEF Forgotten, TreeType
<1> HIDE DEF u
<1>a. Sections \cap gone = {} /\ \A p : p \in gone <=> p \in Nodes /\ p \notin Alive(t, Q)
  BY <1>1
<1> HIDE DEF gone
<1>3. \A p \in Parents : Children(u, p) = IF p \in gone THEN {} ELSE Children(t, p)
  BY <1>2 DEF Children, Range
<1>4. ChildGraph(t) \in Graph /\ ChildGraph(u) \in Graph /\ Grounded(ChildGraph(t)) /\ SoleParents(ChildGraph(t))
      /\ (\A p \in Parents : ChildGraph(t)[p] = Children(t, p))
      /\ (\A p \in Parents : ChildGraph(u)[p] = Children(u, p))
      /\ Under(t) = Descendants(ChildGraph(t)) /\ Under(u) = Descendants(ChildGraph(u))
  BY <1>0, <1>2, ChildrenType DEF Wired
<1>5. \A p \in Parents : ChildGraph(u)[p] \subseteq ChildGraph(t)[p]
  BY <1>3, <1>4
<1>6. Grounded(ChildGraph(u)) /\ SoleParents(ChildGraph(u))
  <2>1. Grounded(ChildGraph(u))
    BY <1>4, <1>5, GroundedSubgraph
  <2> QED BY <2>1, <1>4, <1>5 DEF SoleParents
<1>7. \A p \in Parents : IsInjective(u.kids[p])
  <2>1. IsInjective(<<>>)
    BY DEF IsInjective
  <2>2. \A p \in Parents : IsInjective(t.kids[p])
    BY <1>0 DEF Wired
  <2> QED BY <2>1, <2>2, <1>2
<1>8. Wired(u)
  BY <1>2, <1>6, <1>7 DEF Wired
<1>9. ASSUME NEW p \in Sections \cup Alive(t, Q)
      PROVE  p \in Parents /\ p \notin gone /\ \A q \in Under(t)[p] : q \in Parents /\ q \notin gone
  <2>1. p \in Parents /\ p \notin gone
    <3>1. CASE p \in Sections
      BY <3>1, <1>1
    <3>2. CASE p \in Alive(t, Q)
      <4>1. p \in Nodes
        <5>1. CASE p \in Attached(t)
          BY <5>1, <1>0, AttachedIs
        <5>2. CASE \E r \in Q : p \in Below(t, r)
          <6>1. PICK r \in Q : p \in Below(t, r)
            BY <5>2
          <6>2. r \in Nodes /\ r \in Parents
            BY ParentsNodes DEF Shape, Loose
          <6> QED BY <6>1, <6>2, <1>0, UnderRules DEF Below
        <5> QED BY <3>2, <5>1, <5>2 DEF Alive, BelowAll
      <4> QED BY <4>1, <3>2, <1>a, ParentsNodes
    <3> QED BY <3>1, <3>2
  <2>2. Under(t)[p] \subseteq Alive(t, Q)
    <3>1. CASE p \in Sections \cup Attached(t)
      BY <3>1, <1>0, AttachedDown DEF Alive
    <3>2. CASE \E r \in Q : p \in Below(t, r)
      <4>1. PICK r \in Q : p \in Below(t, r)
        BY <3>2
      <4>2. r \in Parents
        BY ParentsNodes DEF Shape, Loose
      <4>3. Under(t)[p] \subseteq Under(t)[r]
        BY <4>1, <4>2, <1>0, UnderRules DEF Below
      <4>4. Under(t)[r] \subseteq Below(t, r) /\ Below(t, r) \subseteq Alive(t, Q)
        BY DEF Below, Alive, BelowAll
      <4> QED BY <4>3, <4>4
    <3> QED BY <3>1, <3>2 DEF Alive, BelowAll
  <2>3. Under(t)[p] \subseteq Parents
    BY <2>1, <1>0, UnderRules, ParentsNodes
  <2> QED BY <2>1, <2>2, <2>3, <1>a
<1>10. ASSUME NEW p \in Sections \cup Alive(t, Q) PROVE Under(u)[p] = Under(t)[p] /\ Below(u, p) = Below(t, p)
  <2>1. \A q \in {p} \cup Descendants(ChildGraph(t))[p] : ChildGraph(u)[q] = ChildGraph(t)[q]
    BY <1>3, <1>4, <1>9
  <2>2. p \in Parents
    BY <1>9
  <2>3. Under(u)[p] = Under(t)[p]
    BY <2>1, <2>2, <1>4, <1>6, DescendantsSame
  <2> QED BY <2>3 DEF Below
<1>11. Attached(u) = Attached(t)
  BY <1>0, <1>8, <1>10, AttachedIs DEF Sections
<1>12. Alive(u, Q) = Alive(t, Q)
  <2>1. \A r \in Q : r \in Alive(t, Q)
    BY DEF Alive, BelowAll, Below
  <2>2. BelowAll(u, Q) = BelowAll(t, Q)
    BY <2>1, <1>10 DEF BelowAll
  <2> QED BY <2>2, <1>11 DEF Alive
<1>13. Loose(u, Q)
  BY <1>3 DEF Loose, Shape
<1>14. Clean(u)
  <2>1. ASSUME NEW x \in Nodes, u.kind[x] = "none"
        PROVE  u.kids[x] = <<>> /\ u.level[x] = 0 /\ x \notin u.summary /\ x \notin u.tb
    <3>1. x \in Parents
      BY ParentsNodes
    <3>2. CASE x \in gone
      BY <3>1, <3>2, <1>2
    <3>3. CASE x \notin gone
      <4>1. t.kind[x] = "none"
        BY <2>1, <3>1, <3>3, <1>2
      <4>2. t.kids[x] = <<>> /\ t.level[x] = 0 /\ x \notin t.summary /\ x \notin t.tb
        BY <4>1 DEF Shape, Clean
      <4> QED BY <4>2, <3>1, <3>3, <1>2
    <3> QED BY <3>2, <3>3
  <2> QED BY <2>1 DEF Clean
<1>15. OnlyPoints(u)
  <2>1. \A p \in Parents : p \notin gone => (IsItem(u, p) <=> IsItem(t, p)) /\ u.level[p] = t.level[p]
    BY <1>2 DEF IsItem
  <2>2. t.summary \subseteq Parents /\ t.tb \subseteq Parents /\ Sections \subseteq Parents
    BY <1>0, TreeFields, ParentsNodes
  <2>3. \A p \in Parents : p \in gone => u.level[p] = 0
    BY <1>2
  <2> QED BY <2>1, <2>2, <2>3, <1>0, <1>2, <1>a DEF OnlyPoints
<1>16. \A x \in Nodes : u.kind[x] # "none" <=> x \in Alive(u, Q)
  <2>1. ASSUME NEW x \in Nodes PROVE u.kind[x] # "none" <=> x \in Alive(t, Q)
    <3>1. x \in Parents
      BY ParentsNodes
    <3>2. CASE x \in gone
      BY <3>1, <3>2, <1>2, <1>a
    <3>3. CASE x \notin gone
      <4>1. x \in Alive(t, Q) /\ x \in Alive(t, R)
        BY <3>3, <1>a DEF Alive, BelowAll
      <4>2. u.kind[x] = t.kind[x] /\ t.kind[x] # "none"
        BY <4>1, <3>1, <3>3, <1>2 DEF Shape
      <4> QED BY <4>1, <4>2
    <3> QED BY <3>2, <3>3
  <2> QED BY <2>1, <1>12
<1>17. Shape(u, Q)
  BY <1>8, <1>13, <1>14, <1>15, <1>16 DEF Shape
<1>18. \A p \in Sections \cup Alive(t, Q) :
                 /\ p \in Parents
                 /\ Under(u)[p] = Under(t)[p] /\ Below(u, p) = Below(t, p)
                 /\ u.kids[p] = t.kids[p] /\ Children(u, p) = Children(t, p)
                 /\ u.kind[p] = t.kind[p] /\ u.level[p] = t.level[p]
                 /\ p \in u.summary <=> p \in t.summary
                 /\ p \in u.tb <=> p \in t.tb
  BY <1>2, <1>3, <1>9, <1>10
<1>19. \A x \in Parents : x \in gone => u.kind[x] = "none" /\ u.kids[x] = <<>>
  BY <1>2
<1> QED BY <1>2, <1>11, <1>17, <1>18, <1>19 DEF u, gone, IsForgotten

Smaller == {ss \in Nat \X Nat : ss[1] < ss[2]}


-----------------------------------------------------------------------------
(* Fragments of the clipboard.                                             *)

\* A set of natural numbers that is not empty has a least one.
LEMMA LeastOf ==
    ASSUME NEW S, S \subseteq Nat, S # {}
    PROVE  \E x \in S : \A y \in S : x <= y
<1>1. IsWellFoundedOn(Smaller, Nat)
  BY NatLessThanWellFounded, Zenon DEF OpToRel, Smaller
<1>2. PICK x \in S : \A y \in S : ~(<<y, x>> \in Smaller)
  BY <1>1, WFMin
<1>3. ASSUME NEW y \in S PROVE x <= y
  <2>1. x \in Nat /\ y \in Nat /\ <<y, x>> \notin Smaller
    BY <1>2
  <2> QED BY <2>1 DEF Smaller
<1> QED BY <1>3

\* A set of numbers up to m that is not empty has a greatest one.
LEMMA GreatestOf ==
    ASSUME NEW S, NEW m \in Nat, S \subseteq 1 .. m, S # {}
    PROVE  \E x \in S : \A y \in S : y <= x
<1> DEFINE T == {m - y : y \in S}
<1>1. T \subseteq Nat /\ T # {}
  <2>1. \A y \in S : m - y \in Nat
    OBVIOUS
  <2> QED BY <2>1
<1> HIDE DEF T
<1>2. PICK z \in T : \A w \in T : z <= w
  BY <1>1, LeastOf
<1>3. PICK x \in S : z = m - x
  BY <1>2 DEF T
<1>4. ASSUME NEW y \in S PROVE y <= x
  <2>1. m - y \in T
    BY DEF T
  <2>2. m - x <= m - y /\ x \in Nat /\ y \in Nat
    BY <2>1, <1>2, <1>3
  <2> QED BY <2>2
<1> QED BY <1>4

\* The members of a finite set in a line.
LEMMA ListOf ==
    ASSUME NEW S, IsFiniteSet(S)
    PROVE  /\ SetToSeq(S) \in Seq(S) /\ Len(SetToSeq(S)) = Cardinality(S) /\ Cardinality(S) \in Nat
           /\ IsInjective(SetToSeq(S))
<1>1. Cardinality(S) \in Nat /\ ExistsBijection(1 .. Cardinality(S), S)
  BY FS_CardinalityType
<1>2. \E s \in [1 .. Cardinality(S) -> S] : IsInjective(s)
  BY <1>1 DEF ExistsBijection, Bijection, Injection, IsInjective
<1>3. SetToSeq(S) \in [1 .. Cardinality(S) -> S] /\ IsInjective(SetToSeq(S))
  BY <1>2 DEF SetToSeq
<1> HIDE DEF SetToSeq
<1> QED BY <1>1, <1>3

\* A copied subtree, with the places of its nodes that stay.
LEMMA FragmentRules ==
    ASSUME NEW f \in Fragments, NEW keep
    PROVE  LET here == {i \in DOMAIN f : i = 1 \/ keep \/ f[i].kind \notin RiskKinds} IN
           /\ Len(f) \in Nat \ {0} /\ DOMAIN f = 1 .. Len(f) /\ here \in SUBSET (1 .. Len(f)) /\ 1 \in here
           /\ \A i \in DOMAIN f : /\ f[i].kind \in KindSet \ {"none"} /\ f[i].level \in Nat /\ f[i].tb \in BOOLEAN
                                  /\ f[i].kind # "item" => f[i].level = 0 /\ ~f[i].tb
           /\ \A i \in here : i > 1 => f[i].up \in here /\ f[i].up < i /\ f[i].up \in Nat
<1>1. f \in Seq([kind : Kinds \cup {"item"}, up : Nat, level : Nat, tb : BOOLEAN]) /\ f # <<>>
  BY FragmentsAssumption
<1>2. Len(f) \in Nat \ {0} /\ DOMAIN f = 1 .. Len(f)
  BY <1>1
<1>3. ASSUME NEW i \in DOMAIN f
      PROVE  f[i].kind \in Kinds \cup {"item"} /\ f[i].level \in Nat /\ f[i].tb \in BOOLEAN /\ f[i].up \in Nat
  <2> DEFINE K == [kind : Kinds \cup {"item"}, up : Nat, level : Nat, tb : BOOLEAN]
  <2>1. f \in Seq(K)
    BY <1>1
  <2> HIDE DEF K
  <2>2. f[i] \in K
    BY <2>1
  <2> QED BY <2>2 DEF K
<1>4. Kinds \cup {"item"} \subseteq KindSet \ {"none"}
  BY TreeAssumption DEF KindSet, RiskKinds
<1>5. \A i \in DOMAIN f : f[i].kind # "item" => f[i].level = 0 /\ ~f[i].tb
  BY FragmentsAssumption
<1>6. \A i \in 2 .. Len(f) : f[i].up \in 1 .. i - 1 /\ f[f[i].up].kind \in {"item", "violation"}
  BY FragmentsAssumption
<1>7. ASSUME NEW i \in DOMAIN f, i > 1
      PROVE  f[i].up \in DOMAIN f /\ f[i].up < i /\ f[i].up \in Nat /\ f[f[i].up].kind \notin RiskKinds
  <2>1. i \in 2 .. Len(f)
    BY <1>2, <1>7
  <2> QED BY <2>1, <1>2, <1>6 DEF RiskKinds
<1> QED BY <1>2, <1>3, <1>4, <1>5, <1>7

\* u is t with the nodes of the fragment f, nowhere in the tree.
IsGrafted(t, R, f, ids, keep, u) ==
    LET here == {i \in DOMAIN f : i = 1 \/ keep \/ f[i].kind \notin RiskKinds}
        G == {ids[i] : i \in here} IN
    /\ Shape(u, R \cup {ids[1]}) /\ ids[1] \notin R /\ ids[1] \in Nodes
    /\ u.summary = t.summary /\ u.main = t.main /\ u.tb = t.tb \cup {ids[i] : i \in {j \in here : f[j].tb}}
    /\ \A q \in Parents \ G : /\ u.kids[q] = t.kids[q] /\ u.kind[q] = t.kind[q] /\ u.level[q] = t.level[q]
                              /\ Children(u, q) = Children(t, q) /\ Under(u)[q] = Under(t)[q]
    /\ Attached(u) = Attached(t) /\ Below(u, ids[1]) = G
    /\ G \subseteq Nodes /\ G \cap (Sections \cup Alive(t, R)) = {} /\ 1 \in here
    /\ \A i \in here : u.kind[ids[i]] = f[i].kind

\* What is in the tree after a fragment is made: its subtree, loose.
LEMMA ShapeGrafted ==
    ASSUME NEW t, NEW R, Shape(t, R), NEW f \in Fragments, NEW keep,
           NEW ids \in [1 .. Len(f) -> Nodes], IsInjective(ids), \A i \in 1 .. Len(f) : t.kind[ids[i]] = "none"
    PROVE  IsGrafted(t, R, f, ids, keep, Grafted(t, f, ids, keep))
<1> DEFINE u == Grafted(t, f, ids, keep)
           here == {i \in DOMAIN f : i = 1 \/ keep \/ f[i].kind \notin RiskKinds}
           G == {ids[i] : i \in here}
           mine(p) == {i \in here : i > 1 /\ ids[f[i].up] = p}
           kidsOf(p) == [n \in DOMAIN InOrder(mine(p)) |-> ids[InOrder(mine(p))[n]]]
           old == ChildGraph(t)
           new == ChildGraph(u)
<1>1. /\ Wired(t) /\ t \in TreeType /\ Clean(t) /\ OnlyPoints(t) /\ Loose(t, R)
      /\ old \in Graph /\ Grounded(old) /\ SoleParents(old) /\ Under(t) = Descendants(old)
      /\ \A x \in Nodes : t.kind[x] # "none" <=> x \in Alive(t, R)
  BY ShapeParts
<1>2. /\ Len(f) \in Nat \ {0} /\ DOMAIN f = 1 .. Len(f) /\ here \in SUBSET (1 .. Len(f)) /\ 1 \in here
      /\ \A i \in DOMAIN f : /\ f[i].kind \in KindSet \ {"none"} /\ f[i].level \in Nat /\ f[i].tb \in BOOLEAN
                             /\ f[i].kind # "item" => f[i].level = 0 /\ ~f[i].tb
      /\ \A i \in here : i > 1 => f[i].up \in here /\ f[i].up < i /\ f[i].up \in Nat
  BY FragmentRules
<1>3. u = [t EXCEPT
          !.kind = [x \in Parents |-> IF \E i \in here : ids[i] = x
                                      THEN f[CHOOSE i \in here : ids[i] = x].kind ELSE t.kind[x]],
          !.level = [x \in Parents |-> IF \E i \in here : ids[i] = x
                                      THEN f[CHOOSE i \in here : ids[i] = x].level ELSE t.level[x]],
          !.tb = t.tb \cup {ids[i] : i \in {j \in here : f[j].tb}},
          !.kids = [p \in Parents |-> IF \E i \in here : ids[i] = p THEN kidsOf(p) ELSE t.kids[p]]]
  BY <1>1, TreeFields DEF Grafted
<1> HIDE DEF u, here
<1>4. \A i, j \in here : ids[i] = ids[j] => i = j
  BY <1>2 DEF IsInjective
<1>5. \A i \in here : ids[i] \in Nodes /\ ids[i] \in Parents
  BY <1>2, ParentsNodes
<1>6. \A i \in here : (CHOOSE j \in here : ids[j] = ids[i]) = i
  BY <1>4
<1>7. ASSUME NEW p \in Parents
      PROVE  kidsOf(p) \in Seq(Nodes) /\ IsInjective(kidsOf(p)) /\ Range(kidsOf(p)) = {ids[i] : i \in mine(p)}
  <2>1. mine(p) \in SUBSET (1 .. Len(f)) /\ mine(p) \subseteq here
    BY <1>2
  <2> DEFINE M == mine(p)
             o == InOrder(M)
  <2> HIDE DEF M
  <2>2. o \in [1 .. Cardinality(M) -> M] /\ Cardinality(M) \in Nat /\ IsInjective(o)
        /\ \A i \in M : \E n \in 1 .. Cardinality(M) : o[n] = i
    BY <2>1, <1>2, InOrderLists DEF M
  <2> HIDE DEF o
  <2>3. kidsOf(p) = [n \in 1 .. Cardinality(M) |-> ids[o[n]]]
    BY <2>2 DEF M, o
  <2> HIDE DEF kidsOf
  <2>4. \A n \in 1 .. Cardinality(M) : o[n] \in here /\ ids[o[n]] \in Nodes
    BY <2>1, <2>2, <1>5 DEF M
  <2>5. kidsOf(p) \in Seq(Nodes)
    BY <2>2, <2>3, <2>4
  <2>6. IsInjective(kidsOf(p))
    BY <2>2, <2>3, <2>4, <1>4 DEF IsInjective
  <2>7. Range(kidsOf(p)) = {ids[i] : i \in M}
    <3>1. \A n \in 1 .. Cardinality(M) : o[n] \in M
      BY <2>2
    <3>2. Range(kidsOf(p)) = {ids[o[n]] : n \in 1 .. Cardinality(M)}
      BY <2>3 DEF Range
    <3> QED BY <3>1, <3>2, <2>2
  <2> QED BY <2>5, <2>6, <2>7 DEF M
<1> HIDE DEF kidsOf
<1>8. /\ u.summary = t.summary /\ u.main = t.main /\ u.tb = t.tb \cup {ids[i] : i \in {j \in here : f[j].tb}}
      /\ u.kind = [x \in Parents |-> IF \E i \in here : ids[i] = x
                                      THEN f[CHOOSE i \in here : ids[i] = x].kind ELSE t.kind[x]]
      /\ u.level = [x \in Parents |-> IF \E i \in here : ids[i] = x
                                      THEN f[CHOOSE i \in here : ids[i] = x].level ELSE t.level[x]]
      /\ u.kids = [p \in Parents |-> IF \E i \in here : ids[i] = p THEN kidsOf(p) ELSE t.kids[p]]
  BY <1>1, <1>3 DEF TreeType
<1>9. /\ \A i \in here : u.kind[ids[i]] = f[i].kind
      /\ \A q \in Parents \ G : u.kind[q] = t.kind[q]
  <2>1. ASSUME NEW i \in here PROVE u.kind[ids[i]] = f[i].kind
    <3>1. u.kind[ids[i]] = f[CHOOSE j \in here : ids[j] = ids[i]].kind
      BY <1>5, <1>8
    <3> QED BY <3>1, <1>6
  <2>2. \A q \in Parents \ G : u.kind[q] = t.kind[q]
    BY <1>8
  <2> QED BY <2>1, <2>2
<1>10. \A q \in Parents : u.kids[q] = IF q \in G THEN kidsOf(q) ELSE t.kids[q]
  BY <1>8
<1>11. /\ \A i \in here : u.level[ids[i]] = f[i].level
       /\ \A q \in Parents \ G : u.level[q] = t.level[q]
  <2>1. ASSUME NEW i \in here PROVE u.level[ids[i]] = f[i].level
    <3>1. u.level[ids[i]] = f[CHOOSE j \in here : ids[j] = ids[i]].level
      BY <1>5, <1>8
    <3> QED BY <3>1, <1>6
  <2>2. \A q \in Parents \ G : u.level[q] = t.level[q]
    BY <1>8
  <2> QED BY <2>1, <2>2
<1>12. u \in TreeType
  <2>1. ASSUME NEW x \in Parents
        PROVE  (IF \E i \in here : ids[i] = x THEN f[CHOOSE i \in here : ids[i] = x].kind ELSE t.kind[x]) \in KindSet
    <3>1. CASE \E i \in here : ids[i] = x
      <4>1. PICK i \in here : ids[i] = x
        BY <3>1
      <4>2. (CHOOSE j \in here : ids[j] = x) = i
        BY <4>1, <1>6
      <4>3. f[i].kind \in KindSet
        BY <1>2
      <4> QED BY <3>1, <4>2, <4>3, Zenon
    <3>2. CASE ~\E i \in here : ids[i] = x
      BY <3>2, <1>1, TreeFields
    <3> QED BY <3>1, <3>2
  <2>2. u.kind \in [Parents -> KindSet]
    BY <2>1, <1>8
  <2>3. u.level \in [Parents -> Nat]
    <3>1. ASSUME NEW x \in Parents PROVE u.level[x] \in Nat
      <4>1. CASE x \in G
        BY <4>1, <1>2, <1>11
      <4>2. CASE x \notin G
        BY <4>2, <1>1, <1>11, TreeFields
      <4> QED BY <4>1, <4>2
    <3>2. u.level = [x \in Parents |-> u.level[x]]
      BY <1>8, Zenon
    <3> QED BY <3>1, <3>2
  <2>4. u.kids \in [Parents -> Seq(Nodes)]
    BY <1>1, <1>7, <1>8, TreeFields
  <2>5. u.tb \subseteq Parents
    BY <1>1, <1>5, <1>8, TreeFields
  <2>6. u = [kids |-> u.kids, level |-> u.level, kind |-> u.kind, summary |-> u.summary, main |-> u.main, tb |-> u.tb]
    BY <1>1, <1>3, <1>8 DEF TreeType
  <2>7. t.summary \subseteq Parents /\ t.main \in BOOLEAN
    BY <1>1, TreeFields
  <2> QED BY <2>2, <2>3, <2>4, <2>5, <2>6, <2>7, <1>8 DEF TreeType
<1>13. \A q \in Parents : Children(u, q) = IF q \in G THEN {ids[i] : i \in mine(q)} ELSE Children(t, q)
  BY <1>7, <1>10 DEF Children
<1>14. /\ G \subseteq Nodes /\ G \in SUBSET Parents
       /\ \A g \in G : t.kind[g] = "none" /\ t.kids[g] = <<>> /\ t.level[g] = 0 /\ g \notin t.summary /\ g \notin t.tb
  BY <1>1, <1>2, <1>5 DEF Clean
<1>15. G \cap (Sections \cup Alive(t, R)) = {}
  <2>1. \A g \in G : g \notin Sections
    BY <1>14, ParentsNodes
  <2> QED BY <2>1, <1>1, <1>14
<1>16. \A q \in Parents : Children(t, q) \cap G = {}
  BY <1>15, AliveDown
<1>17. \A g \in G : Children(u, g) \subseteq G
  BY <1>13, <1>14
<1>18. new \in Graph /\ Under(u) = Descendants(new) /\ \A q \in Parents : new[q] = Children(u, q) /\ old[q] = Children(t, q)
  BY <1>1, <1>12, ChildrenType
<1> HIDE DEF G, mine, old, new
<1>19. ASSUME NEW S \in SUBSET Parents, \A g \in G : new[g] \subseteq S => g \in S
       PROVE  G \subseteq S
  <2> DEFINE bad == {i \in here : ids[i] \notin S}
  <2>1. SUFFICES ASSUME bad # {} PROVE FALSE
    BY DEF G
  <2>2. PICK i \in bad : \A j \in bad : j <= i
    BY <2>1, <1>2, GreatestOf
  <2>3. i \in here /\ ids[i] \notin S /\ ids[i] \in G /\ ids[i] \in Parents
    BY <2>2, <1>5 DEF G
  <2>4. ASSUME NEW j \in mine(ids[i]) PROVE ids[j] \in S
    <3>1. j \in here /\ j > 1 /\ f[j].up \in here /\ f[j].up < j /\ f[j].up = i
      BY <2>3, <1>2, <1>4 DEF mine
    <3>2. ~(j <= i)
      BY <3>1, <1>2
    <3> QED BY <3>1, <3>2, <2>2
  <2>5. new[ids[i]] = {ids[j] : j \in mine(ids[i])}
    BY <2>3, <1>13, <1>18
  <2> QED BY <2>3, <2>4, <2>5, <1>19
<1>20. /\ Grounded(new)
       /\ \A q \in Parents \ G : Under(u)[q] = Under(t)[q]
       /\ \A g \in G : Under(u)[g] \subseteq G
  <2>1. \A q \in Parents \ G : new[q] = old[q] /\ old[q] \cap G = {}
    BY <1>13, <1>16, <1>18
  <2>2. \A g \in G : new[g] \subseteq G
    BY <1>14, <1>17, <1>18
  <2>3. /\ Grounded(new)
        /\ \A q \in Parents \ G : Descendants(new)[q] = Descendants(old)[q]
        /\ \A g \in G : Descendants(new)[g] \subseteq G
    <3>1. old \in Graph /\ Grounded(old) /\ new \in Graph /\ G \in SUBSET Parents
      BY <1>1, <1>14, <1>18
    <3> QED BY <3>1, <2>1, <2>2, <1>19, GraftedGrounded
  <2> QED BY <2>3, <1>1, <1>18
<1>21. SoleParents(new)
  <2>1. SUFFICES ASSUME NEW p \in Parents, NEW q \in Parents, NEW x \in new[p] \cap new[q] PROVE p = q
    BY DEF SoleParents
  <2>2. x \in Children(u, p) /\ x \in Children(u, q)
    BY <2>1, <1>18
  <2>3. CASE p \in G /\ q \in G
    BY <2>2, <2>3, <1>13, <1>4 DEF mine
  <2>4. CASE p \notin G /\ q \notin G
    <3>1. x \in old[p] /\ x \in old[q]
      BY <2>2, <2>4, <1>13, <1>18
    <3> QED BY <3>1, <1>1 DEF SoleParents
  <2>5. CASE ~(p \in G <=> q \in G)
    BY <2>2, <2>5, <1>13, <1>16, <1>17
  <2> QED BY <2>3, <2>4, <2>5
<1>22. Wired(u)
  <2>1. \A q \in Parents : IsInjective(u.kids[q])
    BY <1>1, <1>7, <1>10 DEF Wired
  <2> QED BY <2>1, <1>12, <1>20, <1>21 DEF Wired, new
<1>23. ids[1] \in G /\ ids[1] \in Nodes /\ ids[1] \in Parents
  BY <1>2, <1>5 DEF G
<1>24. \A q \in Parents : ids[1] \notin Children(u, q)
  <2>1. ASSUME NEW q \in Parents, ids[1] \in Children(u, q) PROVE FALSE
    <3>1. q \in G
      BY <2>1, <1>13, <1>16, <1>23
    <3>2. PICK i \in mine(q) : ids[i] = ids[1]
      BY <3>1, <2>1, <1>13
    <3>3. i \in here /\ i > 1 /\ i = 1
      BY <3>2, <1>2, <1>4 DEF mine
    <3> QED BY <3>3
  <2> QED BY <2>1
<1>25. Below(u, ids[1]) = G
  <2>1. Below(u, ids[1]) \subseteq G
    BY <1>20, <1>23 DEF Below
  <2> DEFINE bad == {i \in here : ids[i] \notin Below(u, ids[1])}
  <2>2. bad \subseteq Nat
    <3>1. \A i \in here : i \in Nat
      BY <1>2
    <3> QED BY <3>1
  <2>3. ASSUME bad # {} PROVE FALSE
    <3>1. PICK i \in bad : \A j \in bad : i <= j
      BY <2>2, <2>3, LeastOf
    <3>2. i \in here /\ ids[i] \notin Below(u, ids[1]) /\ i # 1 /\ i \in 1 .. Len(f)
      BY <3>1, <1>2 DEF Below
    <3> DEFINE k == f[i].up
    <3>3. i > 1 /\ k \in here /\ k < i /\ k \in Nat
      BY <3>2, <1>2
    <3> HIDE DEF k
    <3>4. ~(i <= k)
      BY <3>3, <3>2
    <3>5. ids[k] \in Below(u, ids[1]) /\ ids[k] \in G /\ ids[k] \in Parents
      BY <3>1, <3>3, <3>4, <1>5 DEF G
    <3>6. ids[i] \in Children(u, ids[k])
      <4>1. i \in mine(ids[k])
        BY <3>2, <3>3 DEF mine, k
      <4> QED BY <4>1, <3>5, <1>13
    <3>7. ids[i] \in Under(u)[ids[1]]
      BY <3>5, <3>6, <1>22, <1>23, UnderRules DEF Below
    <3> QED BY <3>2, <3>7 DEF Below
  <2>4. G \subseteq Below(u, ids[1])
    BY <2>3 DEF G
  <2> QED BY <2>1, <2>4
<1>26. Attached(u) = Attached(t)
  <2>1. "s5" \notin G /\ "pm" \notin G /\ "s5" \in Parents /\ "pm" \in Parents
    BY <1>14, ParentsNodes
  <2>2. Under(u)["s5"] = Under(t)["s5"] /\ Under(u)["pm"] = Under(t)["pm"]
    BY <2>1, <1>20
  <2> QED BY <2>2, <1>1, <1>22, AttachedIs
<1>27. ids[1] \notin R
  <2>1. R \subseteq Alive(t, R)
    BY DEF Alive, BelowAll, Below
  <2> QED BY <2>1, <1>15, <1>23
<1>28. Alive(u, R \cup {ids[1]}) = Alive(t, R) \cup G
  <2>1. \A r \in R : r \in Parents /\ r \notin G
    <3>1. R \subseteq Alive(t, R) /\ R \subseteq Nodes
      BY <1>1 DEF Alive, BelowAll, Below, Loose
    <3> QED BY <3>1, <1>15, ParentsNodes
  <2>2. \A r \in R : Below(u, r) = Below(t, r)
    BY <2>1, <1>20 DEF Below
  <2>3. BelowAll(u, R \cup {ids[1]}) = BelowAll(t, R) \cup G
    BY <2>2, <1>25 DEF BelowAll
  <2> QED BY <2>3, <1>26 DEF Alive
<1>29. Loose(u, R \cup {ids[1]})
  <2>1. ASSUME NEW r \in R PROVE r \in Nodes /\ \A p \in Parents : r \notin Children(u, p)
    <3>1. r \in Nodes /\ r \notin G /\ \A p \in Parents : r \notin Children(t, p)
      BY <1>1, <1>15 DEF Loose, Alive, BelowAll, Below
    <3> QED BY <3>1, <1>13, <1>17
  <2> QED BY <2>1, <1>23, <1>24 DEF Loose
<1>30. Clean(u)
  <2>1. SUFFICES ASSUME NEW x \in Nodes, u.kind[x] = "none"
                 PROVE  u.kids[x] = <<>> /\ u.level[x] = 0 /\ x \notin u.summary /\ x \notin u.tb
    BY DEF Clean
  <2>2. x \notin G
    BY <2>1, <1>2, <1>9 DEF G
  <2>3. x \in Parents /\ t.kind[x] = "none" /\ x # ids[1]
    BY <2>1, <2>2, <1>9, <1>23, ParentsNodes DEF G
  <2>4. x \notin {ids[i] : i \in {j \in here : f[j].tb}}
    BY <2>2 DEF G
  <2> QED BY <2>2, <2>3, <2>4, <1>1, <1>8, <1>10, <1>11 DEF Clean
<1>31. OnlyPoints(u)
  <2>0. \A x \in Parents : x \notin G => (IsItem(u, x) <=> IsItem(t, x))
    BY <1>9 DEF IsItem, G
  <2>1. ASSUME NEW x \in u.summary \cup u.tb PROVE IsItem(u, x)
    <3>1. CASE x \in t.summary \cup t.tb
      <4>1. x \in Parents /\ x \notin G /\ IsItem(t, x)
        BY <3>1, <1>1, <1>14, TreeFields DEF OnlyPoints
      <4> QED BY <4>1, <2>0
    <3>2. CASE x \in {ids[i] : i \in {j \in here : f[j].tb}}
      <4>1. PICK i \in here : x = ids[i] /\ f[i].tb
        BY <3>2
      <4>2. f[i].kind = "item"
        BY <4>1, <1>2
      <4> QED BY <4>1, <4>2, <1>9 DEF IsItem
    <3> QED BY <2>1, <3>1, <3>2, <1>8
  <2>2. ASSUME NEW x \in Parents, ~IsItem(u, x) PROVE u.level[x] = 0
    <3>1. CASE x \in G
      <4>1. PICK i \in here : x = ids[i]
        BY <3>1 DEF G
      <4>2. f[i].kind # "item"
        BY <4>1, <2>2, <1>9 DEF IsItem
      <4> QED BY <4>1, <4>2, <1>2, <1>11
    <3>3. CASE x \notin G
      <4>1. ~IsItem(t, x) /\ u.level[x] = t.level[x]
        BY <2>0, <2>2, <3>3, <1>11 DEF G
      <4> QED BY <4>1, <1>1, <2>2 DEF OnlyPoints
    <3> QED BY <3>1, <3>3
  <2>3. ASSUME NEW x \in Sections PROVE IsItem(u, x) /\ u.level[x] = 0
    <3>1. x \in Parents /\ x \notin G /\ x # ids[1]
      BY <1>15, <1>23, ParentsNodes
    <3> QED BY <3>1, <2>0, <1>1, <1>11 DEF OnlyPoints
  <2> QED BY <2>1, <2>2, <2>3 DEF OnlyPoints
<1>32. ASSUME NEW x \in Nodes PROVE u.kind[x] # "none" <=> x \in Alive(t, R) \cup G
  <2>1. x \in Parents
    BY ParentsNodes
  <2>2. CASE x \in G
    BY <2>2, <1>2, <1>9 DEF G
  <2>3. CASE x \notin G
    BY <2>1, <2>3, <1>1, <1>9 DEF G
  <2> QED BY <2>2, <2>3
<1>33. Shape(u, R \cup {ids[1]})
  BY <1>22, <1>28, <1>29, <1>30, <1>31, <1>32 DEF Shape
<1>34. \A q \in Parents \ G : /\ u.kids[q] = t.kids[q] /\ u.kind[q] = t.kind[q] /\ u.level[q] = t.level[q]
                              /\ Children(u, q) = Children(t, q) /\ Under(u)[q] = Under(t)[q]
  <2>1. ids[1] \in G
    BY <1>23
  <2>2. \A q \in Parents \ G : u.kind[q] = t.kind[q] /\ u.level[q] = t.level[q]
    BY <1>9, <1>11 DEF G
  <2> QED BY <2>1, <2>2, <1>10, <1>13, <1>20
<1>35. \A i \in here : u.kind[ids[i]] = f[i].kind
  BY <1>9
<1> QED BY <1>2, <1>8, <1>14, <1>15, <1>23, <1>25, <1>26, <1>27, <1>33, <1>34, <1>35 DEF u, here, G, IsGrafted

-----------------------------------------------------------------------------
(* Places in a list of children.                                           *)

\* The place after the pinned risk tables is one of the list.
LEMMA FirstNonPinned ==
    ASSUME NEW t \in TreeType, NEW p \in Parents
    PROVE  _getFirstNonPinnedIndex(t, p) \in 0 .. Len(t.kids[p])
<1> DEFINE n == Len(t.kids[p])
           S == {i \in 0 .. n : i < n => t.kind[t.kids[p][i + 1]] \notin RiskKinds}
<1>1. n \in Nat
  BY TreeFields
<1>2. S \subseteq Nat /\ n \in S
  BY <1>1
<1>3. PICK m \in S : \A i \in S : m <= i
  BY <1>2, LeastOf
<1>4. m \in 0 .. n /\ (m < n => t.kind[t.kids[p][m + 1]] \notin RiskKinds)
  BY <1>3
<1>5. ASSUME NEW j \in 1 .. m PROVE t.kind[t.kids[p][j]] \in RiskKinds
  <2>1. j - 1 \in 0 .. n /\ ~(m <= j - 1) /\ (j - 1) + 1 = j
    BY <1>1, <1>4
  <2> QED BY <2>1, <1>3
<1> HIDE DEF n, S
<1>6. \E i \in 0 .. n : /\ \A j \in 1 .. i : t.kind[t.kids[p][j]] \in RiskKinds
                        /\ i < n => t.kind[t.kids[p][i + 1]] \notin RiskKinds
  BY <1>4, <1>5
<1> QED BY <1>6 DEF _getFirstNonPinnedIndex, IsRisk, n

\* insertNodeAt inserts at some place of the list.
LEMMA InsertNodeIs ==
    ASSUME NEW t \in TreeType, NEW p \in Parents, NEW i \in Nat, NEW x
    PROVE  \E k \in 0 .. Len(t.kids[p]) : insertNodeAt(t, p, x, i) = InsertedAt(t, p, k, x)
<1>1. _getFirstNonPinnedIndex(t, p) \in 0 .. Len(t.kids[p]) /\ Len(t.kids[p]) \in Nat
  BY FirstNonPinned, TreeFields
<1>2. Between(_getFirstNonPinnedIndex(t, p), i, Len(t.kids[p])) \in 0 .. Len(t.kids[p])
  BY <1>1 DEF Between
<1> QED BY <1>2 DEF insertNodeAt

-----------------------------------------------------------------------------
(* Summaries, banks.                                                       *)

\* Summaries and banks may change on points: the shape stays.
LEMMA ShapeMarked ==
    ASSUME NEW t, NEW R, Shape(t, R),
           NEW u \in TreeType, u.kids = t.kids, u.kind = t.kind, u.level = t.level,
           \A x \in u.summary \cup u.tb : IsItem(t, x)
    PROVE  Shape(u, R)
<1>1. OnlyPoints(t)
  BY DEF Shape
<1> QED BY <1>1, ShapeFrame DEF OnlyPoints

\* Outside the points of the two sections no node has another number in u.
KeepsLevels(t, u) ==
    \A y \in Parents : y \notin PointsUnder(u)["s5"] \cup PointsUnder(u)["pm"] => u.level[y] = t.level[y]

\* u differs from t in summaries and numbers only.
SameNodes(t, u) ==
    /\ u.kids = t.kids /\ u.kind = t.kind /\ u.tb = t.tb
    /\ PointsUnder(u) = PointsUnder(t) /\ KeepsLevels(t, u)

\* SameNodes is reflexive.
LEMMA SameNodesItself == \A t : SameNodes(t, t)
BY DEF SameNodes, KeepsLevels

\* Trees with the same lists, kinds, banks and numbers are the same nodes.
LEMMA SameNodesOf ==
    ASSUME NEW t, NEW u, u.kids = t.kids, u.kind = t.kind, u.tb = t.tb, u.level = t.level
    PROVE  SameNodes(t, u)
BY SamePoints DEF SameNodes, KeepsLevels

\* SameNodes is transitive.
LEMMA SameNodesTrans ==
    ASSUME NEW t, NEW v, NEW u, SameNodes(t, v), SameNodes(v, u)
    PROVE  SameNodes(t, u)
BY DEF SameNodes, KeepsLevels

\* The points that have a summary in u and not in t have room for it.
Roomy(t, u) ==
    \A a \in u.summary \ t.summary : a \in Nodes /\ countChildrenByType(t, a, "table") < MaxBlocks

\* What has a summary or a bank is a point.
LEMMA MarkedItems ==
    ASSUME NEW t, NEW R, Shape(t, R)
    PROVE  /\ \A x \in t.summary \cup t.tb : x \in Parents /\ IsItem(t, x)
           /\ t.main \in BOOLEAN
           /\ \A p \in Parents : \A x \in Items(t, p) : x \in Nodes /\ x \in Parents /\ IsItem(t, x)
<1>1. t \in TreeType /\ OnlyPoints(t)
  BY DEF Shape, Wired
<1>2. t.summary \subseteq Parents /\ t.tb \subseteq Parents /\ t.main \in BOOLEAN
  BY <1>1, TreeFields
<1> QED BY <1>1, <1>2, ChildrenType, ParentsNodes DEF OnlyPoints

\* A summary table is made where there is room for it, or not at all.
LEMMA ShapeCreateMetrics ==
    ASSUME NEW t, NEW R, Shape(t, R), NEW a \in Nodes, IsItem(t, a)
    PROVE  LET u == _createMetricsTable(t, a) IN
           /\ Shape(u, R) /\ SameNodes(t, u) /\ u.level = t.level /\ u.main = t.main
           /\ t.summary \subseteq u.summary /\ u.summary \subseteq t.summary \cup {a}
           /\ Roomy(t, u)
<1>1. CASE a \notin t.summary /\ canAddContent(t, a, "table")
  <2> DEFINE u == [t EXCEPT !.summary = @ \cup {a}]
  <2>1. a \in Parents /\ (\A x \in t.summary \cup {a} \cup t.tb : x \in Parents /\ IsItem(t, x)) /\ t \in TreeType
    BY MarkedItems, ParentsNodes DEF Shape, Wired
  <2>2. _createMetricsTable(t, a) = u
    BY <1>1 DEF _createMetricsTable
  <2>3. /\ u \in TreeType /\ u.kids = t.kids /\ u.kind = t.kind /\ u.level = t.level /\ u.tb = t.tb
        /\ u.summary = t.summary \cup {a} /\ u.main = t.main
    BY <2>1 DEF TreeType
  <2> HIDE DEF u
  <2>5. Shape(u, R)
    BY <2>1, <2>3, ShapeMarked
  <2>4. countChildrenByType(t, a, "table") < MaxBlocks
    BY <1>1 DEF canAddContent
  <2>6. SameNodes(t, u)
    BY <2>3, SameNodesOf
  <2> QED BY <2>2, <2>3, <2>4, <2>5, <2>6 DEF Roomy
<1>2. CASE ~(a \notin t.summary /\ canAddContent(t, a, "table"))
  <2>1. _createMetricsTable(t, a) = t
    BY <1>2 DEF _createMetricsTable
  <2> QED BY <2>1, SameNodesItself DEF Roomy
<1> QED BY <1>1, <1>2

\* The main summary is made without asking for room.
LEMMA ShapeCreateMain ==
    ASSUME NEW t, NEW R, Shape(t, R)
    PROVE  LET u == _createMainMetricsTable(t) IN
           /\ Shape(u, R) /\ SameNodes(t, u) /\ u.level = t.level /\ u.main /\ u.summary = t.summary
<1> DEFINE u == [t EXCEPT !.main = TRUE]
<1>1. (\A x \in t.summary \cup t.tb : IsItem(t, x)) /\ t \in TreeType
  BY MarkedItems DEF Shape, Wired
<1>2. _createMainMetricsTable(t) = u
  BY DEF _createMainMetricsTable
<1>3. /\ u \in TreeType /\ u.kids = t.kids /\ u.kind = t.kind /\ u.level = t.level /\ u.tb = t.tb
      /\ u.summary = t.summary /\ u.main = TRUE
  BY <1>1 DEF TreeType
<1> HIDE DEF u
<1>4. Shape(u, R)
  BY <1>1, <1>3, ShapeMarked
<1>5. SameNodes(t, u)
  BY <1>3, SameNodesOf
<1> QED BY <1>2, <1>3, <1>4, <1>5

\* New numbers.
LEMMA ShapeRenumbered ==
    ASSUME NEW t, NEW R, Shape(t, R)
    PROVE  LET u == generateNumbering(t) IN
           /\ Shape(u, R) /\ Numbered(u) /\ SameNodes(t, u) /\ u.main = t.main /\ u.summary = t.summary
<1>1. Wired(t)
  BY DEF Shape
<1> DEFINE u == generateNumbering(t)
<1>2. Shape(u, R) /\ Numbered(u)
  BY ShapeNumbering
<1>3. u.kids = t.kids /\ u.kind = t.kind /\ u.summary = t.summary /\ u.main = t.main /\ u.tb = t.tb
  BY <1>1, NumberingLevels
<1>4. \A x \in Parents : u.level[x] =
                 IF x \in PointsBelow(t, "s5")
                 THEN 1 + Cardinality({a \in PointsBelow(t, "s5") : x \in PointsBelow(t, a)})
                 ELSE IF x \in PointsBelow(t, "pm") THEN 0 ELSE t.level[x]
  BY <1>1, NumberingLevels
<1> HIDE DEF u
<1>5. PointsUnder(u) = PointsUnder(t)
  BY <1>3, SamePoints
<1>6. KeepsLevels(t, u)
  <2>1. ASSUME NEW y \in Parents, y \notin PointsUnder(u)["s5"] \cup PointsUnder(u)["pm"]
        PROVE  u.level[y] = t.level[y]
    <3>1. y \notin PointsBelow(t, "s5") /\ y \notin PointsBelow(t, "pm")
      BY <2>1, <1>5 DEF PointsBelow
    <3> QED BY <3>1, <1>4
  <2> QED BY <2>1 DEF KeepsLevels
<1>7. SameNodes(t, u)
  BY <1>3, <1>5, <1>6 DEF SameNodes
<1> QED BY <1>2, <1>3, <1>7 DEF u

\* The cleanup takes away summaries, and makes none.
LEMMA ShapeCleanup ==
    ASSUME NEW t, NEW R, Shape(t, R)
    PROVE  LET u == _cleanupMetricsTablesAfterRiskTableDeleted(t) IN
           /\ Shape(u, R) /\ Numbered(u) /\ SameNodes(t, u)
           /\ u.main = (t.main /\ shouldHaveMainMetrics(t))
           /\ u.summary = t.summary \ {a \in Items(t, "s5") : t.level[a] = 1 /\ ~shouldHaveMetricsTable(t, a)}
<1> DEFINE S == t.summary \ {a \in Items(t, "s5") : t.level[a] = 1 /\ ~shouldHaveMetricsTable(t, a)}
           m == t.main /\ shouldHaveMainMetrics(t)
           v == [t EXCEPT !.summary = S, !.main = m]
<1>1. (\A x \in S \cup t.tb : x \in Parents /\ IsItem(t, x)) /\ m \in BOOLEAN /\ t \in TreeType
  BY MarkedItems DEF Shape, Wired, shouldHaveMainMetrics, HasRisks, IsRisk
<1>2. _cleanupMetricsTablesAfterRiskTableDeleted(t) = generateNumbering(v)
  BY <1>1 DEF _cleanupMetricsTablesAfterRiskTableDeleted, TreeType
<1> HIDE DEF S, m
<1>3. /\ v \in TreeType /\ v.kids = t.kids /\ v.kind = t.kind /\ v.level = t.level /\ v.tb = t.tb
      /\ v.summary = S /\ v.main = m
  BY <1>1 DEF TreeType
<1> HIDE DEF v
<1>4. Shape(v, R)
  BY <1>1, <1>3, ShapeMarked
<1>5. LET u == generateNumbering(v) IN
           /\ Shape(u, R) /\ Numbered(u) /\ SameNodes(v, u) /\ u.main = v.main /\ u.summary = v.summary
  BY <1>4, ShapeRenumbered
<1>6. SameNodes(t, v)
  BY <1>3, SameNodesOf
<1>7. SameNodes(t, generateNumbering(v))
  BY <1>5, <1>6, SameNodesTrans
<1> QED BY <1>2, <1>3, <1>5, <1>7 DEF S, m

\* After a risk table is created.
LEMMA ShapeUpdate ==
    ASSUME NEW t, NEW R, Shape(t, R), NEW x
    PROVE  LET u == _updateMetricsTablesAfterRiskTableCreated(t, x) IN
           Shape(u, R) /\ Numbered(u) /\ SameNodes(t, u) /\ u.main /\ Roomy(t, u)
<1> DEFINE need == {a \in Items(t, "s5") : x \in Below(t, a) /\ shouldHaveMetricsTable(t, a)}
           made == IF need = {} THEN t ELSE _createMetricsTable(t, CHOOSE a \in need : TRUE)
<1>1. _updateMetricsTablesAfterRiskTableCreated(t, x) = generateNumbering(_createMainMetricsTable(made))
  BY DEF _updateMetricsTablesAfterRiskTableCreated
<1>2. \A a \in need : a \in Nodes /\ IsItem(t, a)
  BY MarkedItems, ParentsNodes
<1> HIDE DEF need
<1>3. Shape(made, R) /\ SameNodes(t, made) /\ Roomy(t, made)
  <2>1. CASE need = {}
    BY <2>1, <1>2, SameNodesItself DEF Roomy
  <2>2. CASE need # {}
    <3>1. (CHOOSE a \in need : TRUE) \in need
      BY <2>2
    <3> DEFINE a == CHOOSE a \in need : TRUE
    <3> HIDE DEF a
    <3>2. made = _createMetricsTable(t, a)
      BY <2>2 DEF a
    <3>3. a \in Nodes /\ IsItem(t, a)
      BY <3>1, <1>2 DEF a
    <3> QED BY <3>2, <3>3, ShapeCreateMetrics
  <2> QED BY <2>1, <2>2
<1> HIDE DEF made
<1> DEFINE v == _createMainMetricsTable(made)
<1>4. Shape(v, R) /\ SameNodes(made, v) /\ v.main /\ v.summary = made.summary
  BY <1>3, ShapeCreateMain
<1> HIDE DEF v
<1>5. LET u == generateNumbering(v) IN
           /\ Shape(u, R) /\ Numbered(u) /\ SameNodes(v, u) /\ u.main = v.main /\ u.summary = v.summary
  BY <1>4, ShapeRenumbered
<1>6. SameNodes(t, generateNumbering(v))
  BY <1>3, <1>4, <1>5, SameNodesTrans
<1> QED BY <1>1, <1>3, <1>4, <1>5, <1>6 DEF Roomy, v

\* Blocks are counted by what hangs below a node and by its summaries.
LEMMA SameBlocks ==
    ASSUME NEW t, NEW u, u.kids = t.kids, u.kind = t.kind, NEW a, a \in u.summary <=> a \in t.summary,
           a = "s5" => u.main = t.main, NEW type
    PROVE  countChildrenByType(u, a, type) = countChildrenByType(t, a, type)
<1>1. Children(u, a) = Children(t, a)
  BY SameWires
<1>2. {a} \cap u.summary = {a} \cap t.summary
  OBVIOUS
<1>3. (IF a = "s5" /\ u.main THEN 1 ELSE 0) = (IF a = "s5" /\ t.main THEN 1 ELSE 0)
  OBVIOUS
<1>4. Summaries(u, a) = Summaries(t, a)
  BY <1>2, <1>3 DEF Summaries
<1> QED BY <1>1, <1>4 DEF countChildrenByType

\* After a move.
LEMMA ShapeReconcile ==
    ASSUME NEW t, NEW R, Shape(t, R), NEW x, NEW old
    PROVE  LET u == _reconcileMetricsTablesAfterMove(t, x, old) IN
           /\ Shape(u, R) /\ SameNodes(t, u) /\ Roomy(t, u)
           /\ u = t \/ Numbered(u)
           /\ HasRisks(t, x) /\ old = {} => Numbered(u)
           /\ ~HasRisks(t, x) => u = t
<1> DEFINE new == _findFirstLevelAncestorUnder5(t, x)
           clean == _cleanupMetricsTablesAfterRiskTableDeleted(t)
           need == \E a \in new : shouldHaveMetricsTable(clean, a)
           made == IF need THEN _createMetricsTable(clean, CHOOSE a \in new : TRUE) ELSE clean
           mained == IF shouldHaveMainMetrics(made) THEN _createMainMetricsTable(made) ELSE made
<1>1. _reconcileMetricsTablesAfterMove(t, x, old) =
        IF ~HasRisks(t, x) \/ (old # {} /\ new = old) THEN t ELSE generateNumbering(mained)
  BY DEF _reconcileMetricsTablesAfterMove
<1>2. \A a \in new : a \in Nodes /\ IsItem(t, a)
  BY MarkedItems, ParentsNodes DEF _findFirstLevelAncestorUnder5
<1>3. /\ Shape(clean, R) /\ SameNodes(t, clean) /\ clean.summary \subseteq t.summary
  BY ShapeCleanup
<1> HIDE DEF new, clean
<1>4. Shape(made, R) /\ SameNodes(t, made) /\ Roomy(t, made)
  <2>1. CASE ~need
    BY <2>1, <1>3 DEF Roomy
  <2>2. CASE need
    <3> DEFINE a == CHOOSE a \in new : TRUE
    <3>1. a \in new
      BY <2>2
    <3>2. made = _createMetricsTable(clean, a)
      BY <2>2
    <3> HIDE DEF a, made
    <3>3. a \in Nodes /\ IsItem(clean, a)
      BY <3>1, <1>2, <1>3 DEF SameNodes, IsItem
    <3>4. /\ Shape(made, R) /\ SameNodes(clean, made) /\ Roomy(clean, made) /\ made.summary \subseteq clean.summary \cup {a}
      BY <1>3, <3>2, <3>3, ShapeCreateMetrics
    <3>5. ASSUME NEW b \in made.summary \ t.summary
          PROVE b \in Nodes /\ countChildrenByType(t, b, "table") < MaxBlocks
      <4>1. b \in Nodes /\ countChildrenByType(clean, b, "table") < MaxBlocks /\ b \notin clean.summary
        BY <3>4, <1>3 DEF Roomy
      <4>2. b # "s5"
        BY <4>1, ParentsNodes
      <4>3. clean.kids = t.kids /\ clean.kind = t.kind
        BY <1>3 DEF SameNodes
      <4>4. countChildrenByType(clean, b, "table") = countChildrenByType(t, b, "table")
        BY <4>1, <4>2, <4>3, SameBlocks
      <4> QED BY <4>1, <4>4
    <3>6. SameNodes(t, made)
      BY <3>4, <1>3, SameNodesTrans
    <3> QED BY <3>4, <3>5, <3>6 DEF Roomy
  <2> QED BY <2>1, <2>2
<1> HIDE DEF made
<1>5. Shape(mained, R) /\ SameNodes(made, mained) /\ mained.summary = made.summary
  BY <1>4, ShapeCreateMain, SameNodesItself
<1> HIDE DEF mained
<1>6. LET u == generateNumbering(mained) IN
           /\ Shape(u, R) /\ Numbered(u) /\ SameNodes(mained, u) /\ u.main = mained.main /\ u.summary = mained.summary
  BY <1>5, ShapeRenumbered
<1>7. CASE ~HasRisks(t, x) \/ (old # {} /\ new = old)
  <2>1. _reconcileMetricsTablesAfterMove(t, x, old) = t
    BY <1>1, <1>7
  <2> QED BY <2>1, <1>7, SameNodesItself DEF Roomy
<1>8. CASE ~(~HasRisks(t, x) \/ (old # {} /\ new = old))
  <2>1. _reconcileMetricsTablesAfterMove(t, x, old) = generateNumbering(mained)
    BY <1>1, <1>8
  <2>2. SameNodes(t, generateNumbering(mained))
    BY <1>4, <1>5, <1>6, SameNodesTrans
  <2> QED BY <2>1, <2>2, <1>4, <1>5, <1>6, <1>8 DEF Roomy
<1> QED BY <1>7, <1>8

\* The points below a node do not change when nothing below it does.
LEMMA PointsSame ==
    ASSUME NEW t, Wired(t), NEW u, Wired(u), NEW p \in Parents,
           \A q \in {p} \cup PointsUnder(t)[p] : Items(u, q) = Items(t, q)
    PROVE  PointsUnder(u)[p] = PointsUnder(t)[p]
<1>1. /\ t \in TreeType /\ u \in TreeType
      /\ ItemGraph(t) \in Graph /\ ItemGraph(u) \in Graph
      /\ PointsUnder(t) = Descendants(ItemGraph(t)) /\ PointsUnder(u) = Descendants(ItemGraph(u))
      /\ \A q \in Parents : ItemGraph(t)[q] = Items(t, q) /\ ItemGraph(u)[q] = Items(u, q)
  BY ChildrenType DEF Wired
<1>2. Grounded(ItemGraph(t)) /\ Grounded(ItemGraph(u))
  BY PointsRules
<1>3. \A q \in {p} \cup PointsUnder(t)[p] : q \in Parents
  BY PointsRules, ParentsNodes
<1>4. \A q \in {p} \cup Descendants(ItemGraph(t))[p] : ItemGraph(u)[q] = ItemGraph(t)[q]
  BY <1>1, <1>3
<1> QED BY <1>1, <1>2, <1>4, DescendantsSame

\* Numbers depend on the points of the two sections only.
LEMMA NumberedSame ==
    ASSUME NEW t, Wired(t), Numbered(t), NEW u, Wired(u),
           \A p \in Sections \cup Attached(t) : Items(u, p) = Items(t, p) /\ u.level[p] = t.level[p]
    PROVE  /\ Numbered(u)
           /\ \A p \in Sections \cup Attached(t) : PointsBelow(u, p) = PointsBelow(t, p)
<1>1. ASSUME NEW p \in Sections \cup Attached(t)
      PROVE  PointsUnder(u)[p] = PointsUnder(t)[p] /\ PointsUnder(t)[p] \subseteq Attached(t)
  <2>1. p \in Parents /\ Under(t)[p] \subseteq Attached(t)
    BY AttachedDown
  <2>2. PointsUnder(t)[p] \subseteq Attached(t)
    BY <2>1, PointsRules
  <2> QED BY <2>1, <2>2, PointsSame
<1>2. \A p \in Sections \cup Attached(t) : PointsBelow(u, p) = PointsBelow(t, p) /\ PointsBelow(t, p) \subseteq Attached(t)
  BY <1>1 DEF PointsBelow
<1>3. "s5" \in Sections /\ "pm" \in Sections
  BY ParentsNodes
<1>4. ASSUME NEW x \in PointsBelow(u, "s5")
      PROVE  u.level[x] = 1 + Cardinality({a \in PointsBelow(u, "s5") : x \in PointsBelow(u, a)})
  <2>1. x \in PointsBelow(t, "s5") /\ x \in Attached(t) /\ u.level[x] = t.level[x]
    BY <1>2, <1>3
  <2>2. {a \in PointsBelow(u, "s5") : x \in PointsBelow(u, a)} = {a \in PointsBelow(t, "s5") : x \in PointsBelow(t, a)}
    BY <1>2, <1>3
  <2>3. t.level[x] = 1 + Cardinality({a \in PointsBelow(t, "s5") : x \in PointsBelow(t, a)})
    BY <2>1 DEF Numbered
  <2> QED BY <2>1, <2>2, <2>3, Zenon
<1>5. ASSUME NEW x \in PointsBelow(u, "pm") PROVE u.level[x] = 0
  <2>1. x \in PointsBelow(t, "pm") /\ x \in Attached(t) /\ u.level[x] = t.level[x]
    BY <1>2, <1>3
  <2> QED BY <2>1 DEF Numbered
<1> QED BY <1>2, <1>4, <1>5 DEF Numbered

-----------------------------------------------------------------------------
(* The deletions that can be undone.                                       *)

Snapshot == [node : Nodes, parent : Parents, index : Nat]

Loosened(stack) == {stack[i].node : i \in DOMAIN stack}

StackOK(stack) ==
    /\ stack \in Seq(Snapshot) /\ Len(stack) <= UndoDepth
    /\ \A i, j \in DOMAIN stack : stack[i].node = stack[j].node => i = j

\* What the snapshots keep is below their roots, and Tidy forgets the rest.
LEMMA KeptIs ==
    ASSUME NEW t, NEW stack
    PROVE  Kept(t, stack) = BelowAll(t, Loosened(stack)) /\ Tidy(t, stack) = Forgotten(t, Nodes \ Alive(t, Loosened(stack)))
<1>1. Kept(t, stack) = BelowAll(t, Loosened(stack))
  BY DEF Kept, BelowAll, Loosened
<1> QED BY <1>1 DEF Tidy, Alive

\* u is t without the nodes that neither the tree nor the stack holds.
IsTidied(t, stack, u) ==
    LET Q == Loosened(stack) IN
    /\ Shape(u, Q) /\ Numbered(u) /\ Attached(u) = Attached(t) /\ u.main = t.main
    /\ \A p \in Sections \cup Alive(t, Q) :
          /\ p \in Parents
          /\ Under(u)[p] = Under(t)[p] /\ Below(u, p) = Below(t, p)
          /\ u.kids[p] = t.kids[p] /\ Children(u, p) = Children(t, p)
          /\ u.kind[p] = t.kind[p] /\ u.level[p] = t.level[p]
          /\ p \in u.summary <=> p \in t.summary
          /\ p \in u.tb <=> p \in t.tb
    /\ u.summary \subseteq t.summary /\ u.tb \subseteq t.tb
    /\ \A x \in Nodes \ Alive(t, Q) : u.kind[x] = "none"
    /\ \A p \in Sections \cup Attached(t) : Items(u, p) = Items(t, p)

\* Tidy forgets what is neither in the tree nor in a snapshot.
LEMMA ShapeTidy ==
    ASSUME NEW t, NEW R, Shape(t, R), Numbered(t), NEW stack, Loosened(stack) \subseteq R
    PROVE  IsTidied(t, stack, Tidy(t, stack))
<1> DEFINE u == Tidy(t, stack)
           Q == Loosened(stack)
           v == Forgotten(t, Nodes \ Alive(t, Q))
<1>1. u = v
  BY KeptIs
<1> HIDE DEF u, Q
<1>2. Q \subseteq R
  BY DEF Q
<1>3. IsForgotten(t, Q, v)
  BY <1>2, ShapeForgotten
<1> HIDE DEF v
<1>a. Shape(v, Q)
  BY <1>3 DEF IsForgotten
<1>b. Attached(v) = Attached(t) /\ v.main = t.main
  BY <1>3 DEF IsForgotten
<1>c. \A p \in Sections \cup Alive(t, Q) :
                 /\ p \in Parents
                 /\ Under(v)[p] = Under(t)[p] /\ Below(v, p) = Below(t, p)
                 /\ v.kids[p] = t.kids[p] /\ Children(v, p) = Children(t, p)
                 /\ v.kind[p] = t.kind[p] /\ v.level[p] = t.level[p]
                 /\ p \in v.summary <=> p \in t.summary
                 /\ p \in v.tb <=> p \in t.tb
  BY <1>3 DEF IsForgotten
<1>d. /\ v.summary \subseteq t.summary /\ v.tb \subseteq t.tb
           /\ \A x \in Parents : x \in Nodes \ Alive(t, Q) => v.kind[x] = "none"
  BY <1>3 DEF IsForgotten
<1>4. /\ Shape(u, Q) /\ Attached(u) = Attached(t) /\ u.main = t.main
      /\ \A p \in Sections \cup Alive(t, Q) :
                 /\ p \in Parents
                 /\ Under(u)[p] = Under(t)[p] /\ Below(u, p) = Below(t, p)
                 /\ u.kids[p] = t.kids[p] /\ Children(u, p) = Children(t, p)
                 /\ u.kind[p] = t.kind[p] /\ u.level[p] = t.level[p]
                 /\ p \in u.summary <=> p \in t.summary
                 /\ p \in u.tb <=> p \in t.tb
      /\ u.summary \subseteq t.summary /\ u.tb \subseteq t.tb
      /\ \A x \in Parents : x \in Nodes \ Alive(t, Q) => u.kind[x] = "none"
  BY <1>1, <1>a, <1>b, <1>c, <1>d
<1>5. Wired(t) /\ Wired(u)
  BY <1>4 DEF Shape
<1>6. ASSUME NEW p \in Sections \cup Attached(t) PROVE Items(u, p) = Items(t, p) /\ u.level[p] = t.level[p]
  <2>1. Sections \cup Attached(t) \subseteq Sections \cup Alive(t, Q)
    BY DEF Alive
  <2>2. Children(u, p) = Children(t, p) /\ u.level[p] = t.level[p] /\ Children(t, p) \subseteq Attached(t)
    BY <2>1, <1>4, <1>5, AttachedDown
  <2>3. \A y \in Children(t, p) : IsItem(u, y) <=> IsItem(t, y)
    BY <2>1, <2>2, <1>4 DEF IsItem
  <2> QED BY <2>2, <2>3 DEF Items
<1>7. Numbered(u)
  BY <1>5, <1>6, NumberedSame
<1> QED BY <1>4, <1>6, <1>7, ParentsNodes DEF u, Q, IsTidied

\* The number of summary tables is a number.
LEMMA SummariesType ==
    ASSUME NEW t, NEW p
    PROVE  Summaries(t, p) \in Nat
<1>1. {p} \cap t.summary \in SUBSET {p} /\ IsFiniteSet({p})
  BY FS_Singleton
<1>2. IsFiniteSet({p} \cap t.summary)
  BY <1>1, FS_Subset
<1>3. Cardinality({p} \cap t.summary) \in Nat
  BY <1>2, FS_CardinalityType
<1> QED BY <1>3 DEF Summaries

\* The place a snapshot remembers is a number.
LEMMA IndexOfType ==
    ASSUME NEW t, Wired(t), NEW x \in Attached(t)
    PROVE  IndexOf(t, x) \in Nat
<1> DEFINE p == Parent(t, x)
           at == CHOOSE i \in DOMAIN t.kids[p] : t.kids[p][i] = x
<1>1. p \in Parents /\ x \in Children(t, p) /\ t \in TreeType
  BY AttachedUp DEF Wired
<1>2. t.kids[p] \in Seq(Nodes)
  BY <1>1, TreeFields
<1>3. \E i \in DOMAIN t.kids[p] : t.kids[p][i] = x
  BY <1>1 DEF Children, Range
<1>4. at \in DOMAIN t.kids[p]
  BY <1>3
<1>5. Summaries(t, p) \in Nat
  BY SummariesType
<1>6. IndexOf(t, x) = at - 1 + Summaries(t, p)
  BY DEF IndexOf
<1> HIDE DEF at, p
<1>7. at \in Nat /\ at >= 1
  BY <1>2, <1>4
<1> QED BY <1>5, <1>6, <1>7

\* A snapshot is pushed, and the oldest may fall out.
LEMMA PushedStack ==
    ASSUME NEW stack, StackOK(stack), NEW s \in Snapshot, s.node \notin Loosened(stack)
    PROVE  /\ StackOK(Pushed(stack, s))
           /\ Loosened(Pushed(stack, s)) \subseteq Loosened(stack) \cup {s.node}
           /\ \A i \in DOMAIN Pushed(stack, s) :
                 Pushed(stack, s)[i] = s \/ \E j \in DOMAIN stack : Pushed(stack, s)[i] = stack[j]
<1> DEFINE longer == Append(stack, s)
           n == Len(stack)
<1>1. stack \in Seq(Snapshot) /\ n <= UndoDepth /\ n \in Nat /\ UndoDepth \in Nat \ {0}
      /\ DOMAIN stack = 1 .. n
      /\ \A i, j \in DOMAIN stack : stack[i].node = stack[j].node => i = j
  BY TreeAssumption DEF StackOK
<1>2. longer \in Seq(Snapshot) /\ Len(longer) = n + 1 /\ longer[n + 1] = s /\ \A i \in 1 .. n : longer[i] = stack[i]
  BY <1>1, AppendProperties
<1>3. \A i \in DOMAIN stack : s.node # stack[i].node
  BY DEF Loosened
<1> HIDE DEF longer, n
<1>4. \A i, j \in 1 .. n + 1 : longer[i].node = longer[j].node => i = j
  <2>1. SUFFICES ASSUME NEW i \in 1 .. n + 1, NEW j \in 1 .. n + 1, longer[i].node = longer[j].node PROVE i = j
    OBVIOUS
  <2>2. \A k \in 1 .. n + 1 : k = n + 1 \/ k \in DOMAIN stack
    BY <1>1
  <2> QED BY <2>1, <2>2, <1>1, <1>2, <1>3
<1>5. CASE n + 1 > UndoDepth
  <2>1. Pushed(stack, s) = Tail(longer)
    BY <1>2, <1>5 DEF Pushed, longer
  <2>2. Tail(longer) \in Seq(Snapshot) /\ Len(Tail(longer)) = n /\ \A i \in 1 .. n : Tail(longer)[i] = longer[i + 1]
    BY <1>1, <1>2, HeadTailProperties
  <2>3. DOMAIN Tail(longer) = 1 .. n
    BY <2>2
  <2>4. \A i \in 1 .. n : i + 1 \in 1 .. n + 1
    BY <1>1
  <2>5. \A i, j \in 1 .. n : longer[i + 1].node = longer[j + 1].node => i = j
    <3>1. SUFFICES ASSUME NEW i \in 1 .. n, NEW j \in 1 .. n, longer[i + 1].node = longer[j + 1].node PROVE i = j
      OBVIOUS
    <3>2. i + 1 = j + 1
      BY <3>1, <2>4, <1>4
    <3> QED BY <3>2
  <2>6. StackOK(Tail(longer))
    BY <2>2, <2>3, <2>5, <1>1 DEF StackOK
  <2>7. \A i \in 1 .. n : Tail(longer)[i] = s \/ \E j \in DOMAIN stack : Tail(longer)[i] = stack[j]
    <3>1. ASSUME NEW i \in 1 .. n PROVE Tail(longer)[i] = s \/ \E j \in DOMAIN stack : Tail(longer)[i] = stack[j]
      <4>1. Tail(longer)[i] = longer[i + 1] /\ (i + 1 = n + 1 \/ i + 1 \in 1 .. n)
        BY <2>2, <1>1
      <4> QED BY <4>1, <1>1, <1>2
    <3> QED BY <3>1
  <2>8. Loosened(Tail(longer)) \subseteq Loosened(stack) \cup {s.node}
    BY <2>3, <2>7 DEF Loosened
  <2> QED BY <2>1, <2>3, <2>6, <2>7, <2>8
<1>6. CASE ~(n + 1 > UndoDepth)
  <2>1. Pushed(stack, s) = longer
    BY <1>2, <1>6 DEF Pushed, longer
  <2>2. DOMAIN longer = 1 .. n + 1 /\ n + 1 <= UndoDepth
    BY <1>1, <1>2, <1>6
  <2>3. StackOK(longer)
    BY <2>2, <1>2, <1>4 DEF StackOK
  <2>4. \A i \in 1 .. n + 1 : longer[i] = s \/ \E j \in DOMAIN stack : longer[i] = stack[j]
    <3>1. \A k \in 1 .. n + 1 : k = n + 1 \/ k \in DOMAIN stack
      BY <1>1
    <3> QED BY <3>1, <1>1, <1>2
  <2> QED BY <2>1, <2>2, <2>3, <2>4 DEF Loosened
<1> QED BY <1>5, <1>6

\* The last snapshot is popped.
LEMMA PoppedStack ==
    ASSUME NEW stack, StackOK(stack), stack # <<>>
    PROVE  /\ StackOK(Front(stack)) /\ stack[Len(stack)] \in Snapshot
           /\ stack[Len(stack)].node \in Loosened(stack)
           /\ Loosened(Front(stack)) = Loosened(stack) \ {stack[Len(stack)].node}
           /\ \A i \in DOMAIN Front(stack) : i \in DOMAIN stack /\ Front(stack)[i] = stack[i]
<1> DEFINE n == Len(stack)
           front == Front(stack)
<1>1. stack \in Seq(Snapshot) /\ n <= UndoDepth /\ n \in Nat \ {0} /\ UndoDepth \in Nat \ {0} /\ DOMAIN stack = 1 .. n
      /\ \A i, j \in DOMAIN stack : stack[i].node = stack[j].node => i = j
  BY TreeAssumption DEF StackOK
<1>2. front = SubSeq(stack, 1, n - 1)
  BY DEF Front
<1> HIDE DEF n, front
<1>3. front \in Seq(Snapshot) /\ Len(front) = n - 1 /\ \A i \in 1 .. n - 1 : front[i] = stack[i]
  BY <1>1, <1>2
<1>4. DOMAIN front = 1 .. n - 1 /\ \A i \in 1 .. n - 1 : i \in 1 .. n /\ i # n
  BY <1>1, <1>3
<1>5. StackOK(front)
  BY <1>1, <1>3, <1>4 DEF StackOK
<1>6. stack[n] \in Snapshot /\ n \in DOMAIN stack
  BY <1>1
<1>7. \A i \in 1 .. n : i = n \/ i \in 1 .. n - 1
  BY <1>1
<1>8. Loosened(front) = Loosened(stack) \ {stack[n].node}
  BY <1>1, <1>3, <1>4, <1>6, <1>7 DEF Loosened
<1> QED BY <1>1, <1>3, <1>4, <1>5, <1>6, <1>8 DEF n, front, Loosened

-----------------------------------------------------------------------------
(* Joining: a loose subtree comes below a node of the tree.                *)

\* Numbered looks at lists, kinds and numbers only.
LEMMA NumberedFrame ==
    ASSUME NEW t, Wired(t), Numbered(t), NEW u, Wired(u), u.kids = t.kids, u.kind = t.kind, u.level = t.level
    PROVE  Numbered(u)
<1>1. \A p \in Sections \cup Attached(t) : Items(u, p) = Items(t, p) /\ u.level[p] = t.level[p]
  BY SamePoints
<1> QED BY <1>1, NumberedSame

\* u is g with the loose subtree of x below p, the new numbers, and perhaps
\* the summaries the risks call for.
Joins(g, R, p, x, u) ==
    \E k \in 0 .. Len(g.kids[p]) :
        /\ u.kids = InsertedAt(g, p, k, x).kids /\ u.kind = g.kind
        /\ Roomy(InsertedAt(g, p, k, x), u) /\ KeepsLevels(g, u)
        /\ Shape(u, R \ {x}) /\ Numbered(u)

PlainJoin(g, R, p, x, u) == Joins(g, R, p, x, u) /\ u.tb = g.tb /\ u.main = g.main
RiskyJoin(g, R, p, x, u) == Joins(g, R, p, x, u) /\ u.tb = g.tb /\ u.main

\* A loose node inserted and numbered joins the tree.
LEMMA JoinsNumbered ==
    ASSUME NEW g, NEW R, Shape(g, R), NEW x \in R, NEW p \in Sections \cup Attached(g), NEW k \in 0 .. Len(g.kids[p])
    PROVE  PlainJoin(g, R, p, x, generateNumbering(InsertedAt(g, p, k, x)))
<1> DEFINE i == InsertedAt(g, p, k, x)
<1>a. IsInserted(g, R, p, x, i)
  BY ShapeInserted
<1> HIDE DEF i
<1>1. Shape(i, R \ {x}) /\ i.kind = g.kind /\ i.tb = g.tb /\ i.main = g.main /\ i.level = g.level
  BY <1>a DEF IsInserted
<1>2. LET u == generateNumbering(i) IN
           /\ Shape(u, R \ {x}) /\ Numbered(u) /\ SameNodes(i, u) /\ u.main = i.main /\ u.summary = i.summary
  BY <1>1, ShapeRenumbered
<1> QED BY <1>1, <1>2 DEF PlainJoin, Joins, SameNodes, Roomy, KeepsLevels, i

IsJoined(g, R, p, x, u) ==
    /\ Shape(u, R \ {x}) /\ Numbered(u) /\ Wired(u) /\ x \in Nodes /\ p \in Parents
    /\ u.kind = g.kind /\ x \notin Children(g, p) /\ p \notin Below(g, x)
    /\ \A q \in Parents : Children(u, q) = IF q = p THEN Children(g, q) \cup {x} ELSE Children(g, q)
    /\ \A q \in Parents : Under(u)[q] = Under(g)[q] \cup (IF p \in Below(g, q) THEN Below(g, x) ELSE {})
    /\ Attached(u) = Attached(g) \cup Below(g, x)
    /\ Below(u, x) = Below(g, x) /\ KeepsLevels(g, u)

\* What joining changes, and what it leaves.
LEMMA JoinsFacts ==
    ASSUME NEW g, NEW R, Shape(g, R), NEW x \in R, NEW p \in Sections \cup Attached(g), NEW u, Joins(g, R, p, x, u)
    PROVE  IsJoined(g, R, p, x, u)
<1>1. PICK k \in 0 .. Len(g.kids[p]) :
        /\ u.kids = InsertedAt(g, p, k, x).kids /\ u.kind = g.kind
        /\ Roomy(InsertedAt(g, p, k, x), u) /\ KeepsLevels(g, u)
        /\ Shape(u, R \ {x}) /\ Numbered(u)
  BY DEF Joins
<1> DEFINE i == InsertedAt(g, p, k, x)
<1>a. IsInserted(g, R, p, x, i)
  BY ShapeInserted
<1>b. u.kids = i.kids
  BY <1>1
<1> HIDE DEF i
<1>2. /\ Shape(i, R \ {x}) /\ x \in Nodes /\ p \in Parents /\ i.kind = g.kind
      /\ \A q \in Parents : Children(i, q) = IF q = p THEN Children(g, q) \cup {x} ELSE Children(g, q)
      /\ \A q \in Parents : Under(i)[q] = Under(g)[q] \cup (IF p \in Below(g, q) THEN Below(g, x) ELSE {})
      /\ Attached(i) = Attached(g) \cup Below(g, x)
      /\ x \notin Children(g, p) /\ p \notin Below(g, x)
  BY <1>a DEF IsInserted
<1>3. u.kids = i.kids
  BY <1>b
<1>4. (\A q : Children(u, q) = Children(i, q)) /\ Under(u) = Under(i) /\ Attached(u) = Attached(i)
  BY <1>3, SameWires
<1>5. Below(u, x) = Below(g, x)
  <2>1. x \in Parents
    BY <1>2, ParentsNodes
  <2> QED BY <2>1, <1>2, <1>4 DEF Below
<1>6. Wired(u)
  BY <1>1 DEF Shape
<1> QED BY <1>1, <1>2, <1>4, <1>5, <1>6 DEF IsJoined

\* A new risk table, or a deletion with risks taken back.
LEMMA JoinsUpdated ==
    ASSUME NEW g, NEW R, Shape(g, R), NEW x \in R, NEW p \in Sections \cup Attached(g), NEW k \in 0 .. Len(g.kids[p]),
           NEW y, NEW v, v = InsertedAt(g, p, k, x) \/ v = generateNumbering(InsertedAt(g, p, k, x))
    PROVE  RiskyJoin(g, R, p, x, _updateMetricsTablesAfterRiskTableCreated(v, y))
<1> DEFINE i == InsertedAt(g, p, k, x)
           u == _updateMetricsTablesAfterRiskTableCreated(v, y)
<1>c. IsInserted(g, R, p, x, i)
  BY ShapeInserted
<1>1. Shape(i, R \ {x}) /\ i.kind = g.kind /\ i.tb = g.tb /\ i.level = g.level
  <2> HIDE DEF i
  <2> QED BY <1>c DEF IsInserted
<1>a. v = i \/ v = generateNumbering(i)
  OBVIOUS
<1>b. u = _updateMetricsTablesAfterRiskTableCreated(v, y)
  OBVIOUS
<1> HIDE DEF i, u
<1>2. Shape(v, R \ {x}) /\ SameNodes(i, v) /\ v.summary = i.summary /\ v.main = i.main
  <2>1. LET w == generateNumbering(i) IN
           /\ Shape(w, R \ {x}) /\ Numbered(w) /\ SameNodes(i, w) /\ w.main = i.main /\ w.summary = i.summary
    BY <1>1, ShapeRenumbered
  <2> QED BY <2>1, <1>a, <1>1, SameNodesItself
<1>3. Shape(u, R \ {x}) /\ Numbered(u) /\ SameNodes(v, u) /\ u.main /\ Roomy(v, u)
  BY <1>2, <1>b, ShapeUpdate
<1>4. Roomy(i, u)
  <2>1. ASSUME NEW a \in u.summary \ i.summary PROVE a \in Nodes /\ countChildrenByType(i, a, "table") < MaxBlocks
    <3>1. a \in Nodes /\ countChildrenByType(v, a, "table") < MaxBlocks
      BY <1>2, <1>3 DEF Roomy
    <3>2. v.kids = i.kids /\ v.kind = i.kind /\ v.summary = i.summary /\ v.main = i.main
      BY <1>2 DEF SameNodes
    <3>3. countChildrenByType(v, a, "table") = countChildrenByType(i, a, "table")
      BY <3>2, SameBlocks
    <3> QED BY <3>1, <3>3
  <2> QED BY <2>1 DEF Roomy
<1>5. u.kids = i.kids /\ u.kind = g.kind /\ u.tb = g.tb
  BY <1>1, <1>2, <1>3 DEF SameNodes
<1>7. KeepsLevels(g, u)
  <2>1. SameNodes(i, u)
    BY <1>2, <1>3, SameNodesTrans
  <2> QED BY <2>1, <1>1 DEF SameNodes, KeepsLevels
<1>6. Joins(g, R, p, x, u)
  BY <1>3, <1>4, <1>5, <1>7 DEF Joins, i
<1> QED BY <1>3, <1>5, <1>6 DEF u, RiskyJoin

\* A fragment joins the tree.
LEMMA JoinsPasted ==
    ASSUME NEW g, NEW R, Shape(g, R), NEW x \in R, NEW p \in Sections \cup Attached(g), NEW under5
    PROVE  LET u == Pasted(g, x, p, under5) IN
           Joins(g, R, p, x, u) /\ u.tb = g.tb
<1> DEFINE j == IF g.kind[x] \in RiskKinds THEN 0 ELSE Len(g.kids[p])
           there == insertNodeAt(g, p, x, j)
           u == Pasted(g, x, p, under5)
<1>1. g \in TreeType /\ p \in Parents
  BY AttachedDown DEF Shape, Wired
<1>2. Len(g.kids[p]) \in Nat
  BY <1>1, TreeFields
<1>3. j \in Nat
  BY <1>2
<1> HIDE DEF there
<1>4. u = IF under5 /\ HasRisks(g, x) THEN _reconcileMetricsTablesAfterMove(there, x, {}) ELSE generateNumbering(there)
  BY DEF Pasted, IsRisk, there
<1> HIDE DEF j
<1>5. PICK k \in 0 .. Len(g.kids[p]) : there = InsertedAt(g, p, k, x)
  BY <1>1, <1>3, InsertNodeIs DEF there
<1> HIDE DEF u
<1>a. IsInserted(g, R, p, x, there)
  BY <1>5, ShapeInserted
<1>6. Shape(there, R \ {x}) /\ there.kind = g.kind /\ there.tb = g.tb /\ there.level = g.level
  BY <1>a DEF IsInserted
<1>b. HasRisks(there, x) <=> HasRisks(g, x)
  <2>1. there.kind = g.kind /\ Below(there, x) = Below(g, x)
    <3>1. x \in Parents /\ p \notin Below(g, x) /\ there.kind = g.kind
          /\ \A q \in Parents : Under(there)[q] = Under(g)[q] \cup (IF p \in Below(g, q) THEN Below(g, x) ELSE {})
      BY <1>a, ParentsNodes DEF IsInserted
    <3> QED BY <3>1 DEF Below
  <2> QED BY <2>1 DEF HasRisks, IsRisk
<1>7. CASE under5 /\ HasRisks(g, x)
  <2>1. u = _reconcileMetricsTablesAfterMove(there, x, {})
    BY <1>4, <1>7
  <2>2. Shape(u, R \ {x}) /\ SameNodes(there, u) /\ Roomy(there, u) /\ Numbered(u)
    BY <2>1, <1>6, <1>7, <1>b, ShapeReconcile
  <2>3. KeepsLevels(g, u) /\ u.kids = there.kids /\ u.kind = there.kind /\ u.tb = there.tb
    BY <2>2, <1>6 DEF SameNodes, KeepsLevels
  <2> QED BY <2>2, <2>3, <1>5, <1>6 DEF Joins, u
<1>8. CASE ~(under5 /\ HasRisks(g, x))
  <2>1. u = generateNumbering(InsertedAt(g, p, k, x))
    BY <1>4, <1>5, <1>8
  <2> QED BY <2>1, JoinsNumbered DEF u, PlainJoin
<1> QED BY <1>7, <1>8

\* A node changes its place.
LEMMA MoveTarget ==
    ASSUME NEW t, NEW R, Shape(t, R), NEW x \in Attached(t), NEW target \in Sections \cup Attached(t),
           target \notin Below(t, x), NEW position, _determineNewParent(t, target, position) # "root"
    PROVE  LET p == _determineNewParent(t, target, position)
               off == Detached(t, x)
           IN
           /\ p \in Sections \cup Attached(t) /\ p \notin Below(t, x) /\ p \in Sections \cup Attached(off)
           /\ position # "child" => target \in Children(t, p) /\ target \in Nodes
           /\ \E k \in 0 .. Len(off.kids[p]) : _performMove(t, x, target, position) = InsertedAt(off, p, k, x)
<1> DEFINE p == _determineNewParent(t, target, position)
           off == Detached(t, x)
<1>0. Wired(t) /\ target \in Parents
  BY AttachedDown DEF Shape
<1>1. /\ Shape(off, R \cup {x}) /\ x \in Nodes
      /\ \A q \in Parents : Children(off, q) = Children(t, q) \ {x}
      /\ Attached(off) = Attached(t) \ Below(t, x)
  <2>1. IsDetached(t, R, x, off)
    BY ShapeDetached
  <2> HIDE DEF off
  <2> QED BY <2>1 DEF IsDetached
<1>2. CASE position = "child"
  <2>1. p = target
    BY <1>2 DEF _determineNewParent
  <2>2. off \in TreeType
    BY <1>1 DEF Shape, Wired
  <2>3. Len(off.kids[p]) \in Nat
    BY <2>1, <2>2, <1>0, TreeFields
  <2>4. _performMove(t, x, target, position) = InsertedAt(off, p, Len(off.kids[p]), x)
    BY <1>2 DEF _performMove
  <2> QED BY <2>1, <2>3, <2>4, <1>1, <1>2
<1>3. CASE position # "child"
  <2>1. target \notin Sections /\ p = Parent(t, target) /\ target \in Attached(t)
    BY <1>3 DEF _determineNewParent
  <2>2. p \in Sections \cup Attached(t) /\ p \in Parents /\ target \in Children(t, p) /\ target \in Nodes
    BY <2>1, <1>0, AttachedUp
  <2> HIDE DEF p
  <2>3. p \notin Below(t, x)
    <3>1. x \in Parents
      BY <1>1, ParentsNodes
    <3> QED BY <3>1, <2>2, <1>0, UnderRules DEF Below
  <2>4. target \in Children(off, p) /\ off \in TreeType
    BY <2>2, <1>1 DEF Shape, Wired, Below
  <2>5. \E i \in DOMAIN off.kids[p] : off.kids[p][i] = target
    BY <2>4 DEF Children, Range
  <2>6. off.kids[p] \in Seq(Nodes)
    BY <2>2, <2>4, TreeFields
  <2> DEFINE at == CHOOSE i \in DOMAIN off.kids[p] : off.kids[p][i] = target
  <2>7. at \in DOMAIN off.kids[p]
    BY <2>5
  <2> DEFINE j == (at - 1) + (IF position = "after" THEN 1 ELSE 0)
  <2>8. _performMove(t, x, target, position) = insertNodeAt(off, p, x, j)
    BY <1>3 DEF _performMove, p
  <2> HIDE DEF at, off
  <2>9. j \in Nat
    BY <2>6, <2>7
  <2> HIDE DEF j
  <2>10. \E k \in 0 .. Len(off.kids[p]) : _performMove(t, x, target, position) = InsertedAt(off, p, k, x)
    BY <2>2, <2>4, <2>8, <2>9, InsertNodeIs
  <2> QED BY <2>2, <2>3, <2>10, <1>1 DEF p, off
<1> QED BY <1>2, <1>3

Cleared(t, x, target, position) ==
    LET p == _determineNewParent(t, target, position)
        there == generateNumbering(_performMove(t, x, target, position))
    IN (IF position = "child" /\ IsItem(t, x) /\ isTbLeaf(t, p) THEN {p} ELSE {})
         \cup (IF isTbLeaf(there, Parent(t, x)) THEN {Parent(t, x)} ELSE {})
         \cup (IF isUnderSection5(there, x) THEN {} ELSE Below(there, x))

\* A move joins the detached node to its new parent.
LEMMA JoinsMoved ==
    ASSUME NEW t, NEW R, Shape(t, R), NEW x \in Attached(t), NEW target \in Sections \cup Attached(t),
           target \notin Below(t, x), NEW position, _determineNewParent(t, target, position) # "root"
    PROVE  LET p == _determineNewParent(t, target, position)
               off == Detached(t, x)
               u == Moved(t, x, target, position)
           IN
           /\ Joins(off, R \cup {x}, p, x, u) /\ p \in Sections \cup Attached(off) /\ p \notin Below(t, x)
           /\ u.tb = t.tb \ Cleared(t, x, target, position)
           /\ p \in Sections \cup Attached(t)
<1> DEFINE p == _determineNewParent(t, target, position)
           off == Detached(t, x)
           u == Moved(t, x, target, position)
           old == _findFirstLevelAncestorUnder5(t, x)
           there == generateNumbering(_performMove(t, x, target, position))
           cleared == Cleared(t, x, target, position)
           banked == [there EXCEPT !.tb = @ \ cleared]
<1>1. /\ p \in Sections \cup Attached(t) /\ p \notin Below(t, x) /\ p \in Sections \cup Attached(off)
      /\ \E k \in 0 .. Len(off.kids[p]) : _performMove(t, x, target, position) = InsertedAt(off, p, k, x)
  BY MoveTarget
<1>2. PICK k \in 0 .. Len(off.kids[p]) : _performMove(t, x, target, position) = InsertedAt(off, p, k, x)
  BY <1>1
<1>3. u = _reconcileMetricsTablesAfterMove(banked, x, old)
  BY DEF Moved, Cleared
<1>4. Shape(off, R \cup {x}) /\ x \notin R /\ off.tb = t.tb
  <2>1. IsDetached(t, R, x, off)
    BY ShapeDetached
  <2> HIDE DEF off
  <2> QED BY <2>1 DEF IsDetached
<1> HIDE DEF off, u, p, cleared, old
<1>5. /\ Shape(InsertedAt(off, p, k, x), R) /\ InsertedAt(off, p, k, x).kind = off.kind
      /\ InsertedAt(off, p, k, x).tb = off.tb /\ InsertedAt(off, p, k, x).level = off.level
  <2>1. (R \cup {x}) \ {x} = R
    BY <1>4
  <2>2. IsInserted(off, R \cup {x}, p, x, InsertedAt(off, p, k, x))
    BY <1>1, <1>2, <1>4, ShapeInserted
  <2> DEFINE j == InsertedAt(off, p, k, x)
  <2> HIDE DEF j
  <2>3. IsInserted(off, R \cup {x}, p, x, j)
    BY <2>2 DEF j
  <2>4. Shape(j, R) /\ j.kind = off.kind /\ j.tb = off.tb /\ j.level = off.level
    BY <2>1, <2>3 DEF IsInserted
  <2> QED BY <2>4 DEF j
<1> DEFINE i == InsertedAt(off, p, k, x)
<1>6. there = generateNumbering(i)
  BY <1>2
<1> HIDE DEF i, there
<1>7. Shape(there, R) /\ Numbered(there) /\ SameNodes(i, there) /\ there.main = i.main /\ there.summary = i.summary
  BY <1>5, <1>6, ShapeRenumbered DEF i
<1>8. /\ banked \in TreeType /\ banked.kids = there.kids /\ banked.kind = there.kind /\ banked.level = there.level
      /\ banked.tb = there.tb \ cleared /\ banked.summary = there.summary /\ banked.main = there.main
  <2>1. there \in TreeType
    BY <1>7 DEF Shape, Wired
  <2> QED BY <2>1 DEF TreeType
<1> HIDE DEF banked
<1>9. Shape(banked, R)
  <2>1. \A y \in banked.summary \cup banked.tb : IsItem(there, y)
    BY <1>7, <1>8, MarkedItems
  <2> QED BY <2>1, <1>7, <1>8, ShapeMarked
<1>10. Numbered(banked) /\ Wired(banked)
  BY <1>7, <1>8, <1>9, NumberedFrame DEF Shape
<1>11. Shape(u, R) /\ SameNodes(banked, u) /\ Roomy(banked, u) /\ (u = banked \/ Numbered(u))
  BY <1>3, <1>9, ShapeReconcile
<1>12. Numbered(u)
  BY <1>10, <1>11
<1>13. Roomy(i, u)
  <2>1. ASSUME NEW a \in u.summary \ i.summary PROVE a \in Nodes /\ countChildrenByType(i, a, "table") < MaxBlocks
    <3>1. a \in Nodes /\ countChildrenByType(banked, a, "table") < MaxBlocks
      BY <1>7, <1>8, <1>11 DEF Roomy
    <3>2. banked.kids = i.kids /\ banked.kind = i.kind /\ banked.summary = i.summary /\ banked.main = i.main
      BY <1>7, <1>8 DEF SameNodes
    <3>3. countChildrenByType(banked, a, "table") = countChildrenByType(i, a, "table")
      BY <3>2, SameBlocks
    <3> QED BY <3>1, <3>3
  <2> QED BY <2>1 DEF Roomy
<1>14. u.kids = i.kids /\ u.kind = off.kind /\ u.tb = t.tb \ cleared
  BY <1>4, <1>5, <1>7, <1>8, <1>11 DEF SameNodes, i
<1>16. KeepsLevels(off, u)
  <2>1. PointsUnder(u) = PointsUnder(banked) /\ PointsUnder(banked) = PointsUnder(there) /\ banked.level = there.level
        /\ KeepsLevels(i, there) /\ KeepsLevels(banked, u)
    BY <1>7, <1>8, <1>11, SamePoints DEF SameNodes
  <2>2. i.level = off.level
    BY <1>5 DEF i
  <2> QED BY <2>1, <2>2 DEF KeepsLevels
<1>15. Joins(off, R \cup {x}, p, x, u)
  <2>1. Shape(u, (R \cup {x}) \ {x})
    <3>1. (R \cup {x}) \ {x} = R
      BY <1>4
    <3> QED BY <3>1, <1>11
  <2> QED BY <2>1, <1>2, <1>12, <1>13, <1>14, <1>16 DEF Joins, i
<1> QED BY <1>1, <1>14, <1>15 DEF off, u, p, cleared

UnusedSet(t, stack, target) ==
    {x \in Nodes : /\ t.kind[x] = "none" /\ target # x
                   /\ \A i \in DOMAIN stack : stack[i].parent # x}

\* Nothing hangs below the content in the subtree of x.
LeafContent(t, x) == \A y \in Below(t, x) : ~IsItem(t, y) => Children(t, y) = {}

\* Without points below content, every point below x is so through points.
LEMMA PointsAll ==
    ASSUME NEW t, Wired(t), NEW x \in Parents, LeafContent(t, x), NEW y \in Under(t)[x], IsItem(t, y)
    PROVE  y \in PointsUnder(t)[x]
<1> DEFINE S == {z \in Under(t)[x] : IsItem(t, z) => z \in PointsUnder(t)[x]}
           next == ChildGraph(t)
<1>1. /\ t \in TreeType /\ next \in Graph /\ Under(t) = Descendants(next) /\ Grounded(next)
      /\ \A q \in Parents : next[q] = Children(t, q)
  BY ChildrenType DEF Wired
<1>2. /\ \A q \in Parents : Under(t)[q] \subseteq Nodes /\ Children(t, q) \subseteq Under(t)[q]
      /\ \A z \in Under(t)[x] : Children(t, z) \subseteq Under(t)[x]
  BY UnderRules
<1>3. /\ \A z \in Items(t, x) : z \in PointsUnder(t)[x]
      /\ \A z \in PointsUnder(t)[x] : Items(t, z) \subseteq PointsUnder(t)[x]
  BY PointsRules
<1> HIDE DEF next
<1>4. S \in SUBSET Parents
  BY <1>2, ParentsNodes
<1>5. next[x] \subseteq S
  BY <1>1, <1>2, <1>3 DEF Items
<1>6. ASSUME NEW q \in S PROVE next[q] \subseteq S
  <2>1. q \in Parents /\ q \in Under(t)[x] /\ q \in Below(t, x)
    BY <1>4 DEF Below
  <2>2. CASE IsItem(t, q)
    BY <2>1, <2>2, <1>1, <1>2, <1>3 DEF Items
  <2>3. CASE ~IsItem(t, q)
    BY <2>1, <2>3, <1>1 DEF LeafContent
  <2> QED BY <2>2, <2>3
<1> HIDE DEF S
<1>7. Descendants(next)[x] \subseteq S
  BY <1>1, <1>4, <1>5, <1>6, DescendantsLeast
<1> QED BY <1>1, <1>7 DEF S

\* Something hangs below the content of the tree.
MixedContent(t) == \E y \in Attached(t) : ~IsItem(t, y) /\ Under(t)[y] # {}

\* A point with a level is in section 5, or some content has points below it.
LEMMA LevelSide ==
    ASSUME NEW t, NEW R, Shape(t, R), Numbered(t), NEW p \in Attached(t), IsItem(t, p), t.level[p] >= 1
    PROVE  p \in Under(t)["s5"] \/ MixedContent(t)
<1> SUFFICES ASSUME p \notin Under(t)["s5"], ~MixedContent(t) PROVE FALSE
  OBVIOUS
<1>1. Wired(t) /\ OnlyPoints(t) /\ "pm" \in Parents /\ "pm" \in Sections
  BY ParentsNodes DEF Shape
<1>2. p \in Under(t)["pm"] /\ Under(t)["pm"] \subseteq Attached(t) /\ Attached(t) \subseteq Parents
  BY <1>1, AttachedIs, ParentsNodes
<1>3. LeafContent(t, "pm")
  <2>1. ASSUME NEW y \in Below(t, "pm"), ~IsItem(t, y) PROVE Children(t, y) = {}
    <3>1. y # "pm"
      BY <2>1, <1>1 DEF OnlyPoints
    <3>2. y \in Attached(t) /\ y \in Parents
      BY <3>1, <1>2 DEF Below
    <3>3. Under(t)[y] = {}
      BY <2>1, <3>2 DEF MixedContent
    <3> QED BY <3>2, <3>3, <1>1, UnderRules
  <2> QED BY <2>1 DEF LeafContent
<1>4. p \in PointsUnder(t)["pm"]
  BY <1>1, <1>2, <1>3, PointsAll
<1>5. t.level[p] = 0
  BY <1>4 DEF Numbered, PointsBelow
<1> QED BY <1>5

\* What a dialog remembers is still in the tree.
DialogOK(t, d) ==
    \/ d = NoDialog
    \/ /\ d.op = "risk" /\ d.kind \in RiskKinds /\ d.node \in Attached(t) /\ IsItem(t, d.node)
       /\ d.node \in Under(t)["s5"] \/ MixedContent(t)
    \/ /\ d.op = "move" /\ d.node \in Attached(t) /\ t.kind[d.node] \notin RiskKinds
       /\ d.target \in Sections \cup Attached(t) /\ d.target \notin Below(t, d.node)

\* A paste that waits finds identifiers for its nodes.
PasteOK(t, stack, q) ==
    /\ q = NoPaste \/ q.fragment \in Fragments
    /\ Len(q.fragment) <= Cardinality(UnusedSet(t, stack, q.target))

\* The invariant.
IInv ==
    /\ StackOK(undo)
    /\ Shape(tree, Loosened(undo)) /\ Numbered(tree)
    /\ DialogOK(tree, dialog)
    /\ PasteOK(tree, undo, pasting)

-----------------------------------------------------------------------------
(* Dialogs and pastes that wait; the invariant.                            *)

\* The identifiers to use, and that they are finitely many.
LEMMA UnusedIs ==
    /\ Unused = SetToSeq(UnusedSet(tree, undo, pasting.target))
    /\ \A t, stack, target : /\ UnusedSet(t, stack, target) \subseteq Nodes
                             /\ IsFiniteSet(UnusedSet(t, stack, target))
                             /\ Cardinality(UnusedSet(t, stack, target)) \in Nat
<1>1. Unused = SetToSeq(UnusedSet(tree, undo, pasting.target))
  BY DEF Unused, UnusedSet
<1>2. ASSUME NEW t, NEW stack, NEW target
      PROVE  /\ UnusedSet(t, stack, target) \subseteq Nodes
             /\ IsFiniteSet(UnusedSet(t, stack, target))
             /\ Cardinality(UnusedSet(t, stack, target)) \in Nat
  <2>1. UnusedSet(t, stack, target) \subseteq Nodes
    BY DEF UnusedSet
  <2>2. IsFiniteSet(Nodes)
    BY TreeAssumption
  <2>3. IsFiniteSet(UnusedSet(t, stack, target))
    BY <2>1, <2>2, FS_Subset
  <2> QED BY <2>1, <2>3, FS_CardinalityType
<1> QED BY <1>1, <1>2

\* The first n members of the line.
LEMMA TakenIds ==
    ASSUME NEW S, IsFiniteSet(S), NEW n \in Nat, n <= Cardinality(S)
    PROVE  LET ids == SubSeq(SetToSeq(S), 1, n) IN
           ids \in [1 .. n -> S] /\ IsInjective(ids)
<1> DEFINE s == SetToSeq(S)
           ids == SubSeq(s, 1, n)
<1>1. s \in Seq(S) /\ Len(s) = Cardinality(S) /\ Len(s) \in Nat /\ IsInjective(s)
  BY ListOf
<1> HIDE DEF s
<1>2. ids \in Seq(S) /\ Len(ids) = n /\ \A i \in 1 .. n : ids[i] = s[i]
  BY <1>1
<1>3. DOMAIN ids = 1 .. n /\ 1 .. n \subseteq DOMAIN s
  BY <1>1, <1>2
<1>4. IsInjective(ids)
  BY <1>1, <1>2, <1>3 DEF IsInjective
<1>5. ids \in [1 .. n -> S]
  <2> HIDE DEF ids
  <2>1. \A i \in 1 .. n : ids[i] \in S
    BY <1>2, <1>3, ElementOfSeq
  <2>2. ids = [i \in 1 .. n |-> ids[i]]
    BY <1>2, <1>3
  <2> QED BY <2>1, <2>2
<1> QED BY <1>4, <1>5 DEF s

\* A fragment, or no fragment, has a length.
LEMMA FragmentLength ==
    ASSUME NEW q, q = NoPaste \/ q.fragment \in Fragments
    PROVE  Len(q.fragment) \in Nat
<1>1. CASE q = NoPaste
  BY <1>1 DEF NoPaste
<1>2. CASE q.fragment \in Fragments
  BY <1>2, FragmentRules
<1> QED BY <1>1, <1>2

\* A fresh identifier is unused, and one more than the waiting paste needs.
LEMMA FreshIs ==
    ASSUME IInv, NEW x \in Fresh
    PROVE  /\ x \in UnusedSet(tree, undo, pasting.target) /\ x \in Nodes /\ tree.kind[x] = "none"
           /\ Len(pasting.fragment) < Cardinality(UnusedSet(tree, undo, pasting.target))
<1> DEFINE S == UnusedSet(tree, undo, pasting.target)
<1>1. Unused = SetToSeq(S) /\ IsFiniteSet(S)
  BY UnusedIs
<1>a. S \subseteq Nodes /\ \A y \in S : tree.kind[y] = "none"
  BY DEF UnusedSet
<1> HIDE DEF S
<1>2. Unused \in Seq(S) /\ Len(Unused) = Cardinality(S) /\ Cardinality(S) \in Nat
  BY <1>1, ListOf
<1>3. Len(pasting.fragment) \in Nat
  BY FragmentLength DEF IInv, PasteOK
<1>4. ~(Len(Unused) <= Len(pasting.fragment)) /\ x = Head(Unused)
  BY DEF Fresh
<1>5. Len(pasting.fragment) < Cardinality(S) /\ Len(Unused) > 0
  BY <1>2, <1>3, <1>4
<1>6. Head(Unused) \in S
  BY <1>2, <1>5
<1> QED BY <1>4, <1>5, <1>6, <1>a DEF S

\* The identifiers of a paste are unused, different, and leave the waiting one its own.
LEMMA IdentifiersIs ==
    ASSUME IInv, NEW f \in Fragments, NEW ids \in Identifiers(f)
    PROVE  /\ ids \in [1 .. Len(f) -> UnusedSet(tree, undo, pasting.target)] /\ IsInjective(ids)
           /\ Len(f) + Len(pasting.fragment) <= Cardinality(UnusedSet(tree, undo, pasting.target))
<1> DEFINE S == UnusedSet(tree, undo, pasting.target)
<1>1. Unused = SetToSeq(S) /\ IsFiniteSet(S)
  BY UnusedIs
<1> HIDE DEF S
<1>2. Unused \in Seq(S) /\ Len(Unused) = Cardinality(S) /\ Cardinality(S) \in Nat
  BY <1>1, ListOf
<1>3. Len(pasting.fragment) \in Nat /\ Len(f) \in Nat
  BY FragmentLength, FragmentRules DEF IInv, PasteOK
<1>4. ~(Len(f) + Len(pasting.fragment) + (IF dialog.op = "risk" THEN 1 ELSE 0) > Len(Unused))
      /\ ids = SubSeq(Unused, 1, Len(f))
  BY DEF Identifiers
<1> DEFINE late == IF dialog.op = "risk" THEN 1 ELSE 0
<1>5. late \in {0, 1} /\ ~(Len(f) + Len(pasting.fragment) + late > Len(Unused))
  BY <1>4
<1> HIDE DEF late
<1>6. Len(f) + Len(pasting.fragment) <= Cardinality(S) /\ Len(f) <= Cardinality(S)
  <2>1. \A a, b, c \in Nat, e \in {0, 1} : ~(a + b + e > c) => a + b <= c /\ a <= c
    OBVIOUS
  <2> QED BY <2>1, <1>2, <1>3, <1>5
<1>7. ids \in [1 .. Len(f) -> S] /\ IsInjective(ids)
  BY <1>1, <1>3, <1>4, <1>6, TakenIds
<1> QED BY <1>6, <1>7 DEF S

\* Identifiers that were unused and stay so.
LEMMA RoomKept ==
    ASSUME NEW S, IsFiniteSet(S), NEW X, IsFiniteSet(X), NEW T, IsFiniteSet(T), S \ X \subseteq T,
           NEW n \in Nat, n + Cardinality(X) <= Cardinality(S)
    PROVE  n <= Cardinality(T)
<1>1. IsFiniteSet(S \ X) /\ Cardinality(S \ X) = Cardinality(S) - Cardinality(S \cap X)
  BY FS_Difference
<1>2. S \cap X \in SUBSET X
  OBVIOUS
<1>3. IsFiniteSet(S \cap X) /\ Cardinality(S \cap X) <= Cardinality(X)
  BY <1>2, FS_Subset
<1>4. S \ X \in SUBSET T
  OBVIOUS
<1>5. Cardinality(S \ X) <= Cardinality(T)
  BY <1>4, FS_Subset
<1>6. Cardinality(S) \in Nat /\ Cardinality(X) \in Nat /\ Cardinality(T) \in Nat /\ Cardinality(S \cap X) \in Nat
  BY <1>3, FS_CardinalityType
<1> HIDE DEF IsFiniteSet
<1> QED BY <1>1, <1>3, <1>5, <1>6

\* One identifier is used.
LEMMA PasteKeptOne ==
    ASSUME NEW t, NEW stack, NEW q, PasteOK(t, stack, q), NEW x \in UnusedSet(t, stack, q.target),
           Len(q.fragment) < Cardinality(UnusedSet(t, stack, q.target)),
           NEW u, \A y \in Nodes : y # x /\ t.kind[y] = "none" => u.kind[y] = "none"
    PROVE  PasteOK(u, stack, q)
<1> DEFINE S == UnusedSet(t, stack, q.target)
           T == UnusedSet(u, stack, q.target)
<1>1. S \ {x} \subseteq T
  BY DEF UnusedSet
<1>2. IsFiniteSet(S) /\ IsFiniteSet(T) /\ Cardinality(S) \in Nat
  BY UnusedIs
<1>3. Len(q.fragment) \in Nat /\ (q = NoPaste \/ q.fragment \in Fragments) /\ Len(q.fragment) < Cardinality(S)
  BY FragmentLength DEF PasteOK
<1>4. IsFiniteSet({x}) /\ Cardinality({x}) = 1
  BY FS_Singleton
<1> HIDE DEF S, T
<1>5. Len(q.fragment) + Cardinality({x}) <= Cardinality(S)
  BY <1>2, <1>3, <1>4
<1>6. Len(q.fragment) <= Cardinality(T)
  BY <1>1, <1>2, <1>3, <1>4, <1>5, RoomKept
<1> QED BY <1>3, <1>6 DEF PasteOK, T

\* None is.
LEMMA PasteKept ==
    ASSUME NEW t, NEW stack, NEW q, PasteOK(t, stack, q), NEW u, NEW left,
           UnusedSet(t, stack, q.target) \subseteq UnusedSet(u, left, q.target)
    PROVE  PasteOK(u, left, q)
<1> DEFINE S == UnusedSet(t, stack, q.target)
           T == UnusedSet(u, left, q.target)
<1>1. IsFiniteSet(S) /\ IsFiniteSet(T) /\ Cardinality(S) \in Nat /\ S \ {} \subseteq T
  BY UnusedIs
<1>2. Len(q.fragment) \in Nat /\ (q = NoPaste \/ q.fragment \in Fragments) /\ Len(q.fragment) <= Cardinality(S)
  BY FragmentLength DEF PasteOK
<1>3. IsFiniteSet({}) /\ Cardinality({}) = 0
  BY FS_EmptySet
<1> HIDE DEF S, T
<1>4. Len(q.fragment) + Cardinality({}) <= Cardinality(S)
  BY <1>1, <1>2, <1>3
<1>5. Len(q.fragment) <= Cardinality(T)
  BY <1>1, <1>2, <1>3, <1>4, RoomKept
<1> QED BY <1>2, <1>5 DEF PasteOK, T

\* No paste waits: there is room for it.
LEMMA NoPasteOK ==
    ASSUME NEW t, NEW stack
    PROVE  PasteOK(t, stack, NoPaste)
<1>1. Cardinality(UnusedSet(t, stack, NoPaste.target)) \in Nat
  BY UnusedIs
<1>2. Len(NoPaste.fragment) = 0
  BY DEF NoPaste
<1> QED BY <1>1, <1>2 DEF PasteOK

-----------------------------------------------------------------------------
(* What stays in the tree.                                                 *)

Carries(t, u) ==
    /\ \A y \in Attached(t) :
          /\ y \in Attached(u) /\ u.kind[y] = t.kind[y]
          /\ \A z \in Sections \cup Attached(t) : z \in Below(u, y) => z \in Below(t, y)
    /\ \A y \in Sections \cup Attached(t) : Under(t)[y] \subseteq Under(u)[y]

\* A dialog stays right when the tree stays in the tree.
LEMMA DialogKept ==
    ASSUME NEW t, NEW u, NEW d, DialogOK(t, d), Carries(t, u)
    PROVE  DialogOK(u, d)
<1>1. CASE d = NoDialog
  BY <1>1 DEF DialogOK
<1>2. CASE /\ d.op = "risk" /\ d.kind \in RiskKinds /\ d.node \in Attached(t) /\ IsItem(t, d.node)
           /\ d.node \in Under(t)["s5"] \/ MixedContent(t)
  <2>1. d.node \in Attached(u) /\ IsItem(u, d.node)
    BY <1>2 DEF Carries, IsItem
  <2>2. Under(t)["s5"] \subseteq Under(u)["s5"]
    BY DEF Carries, Sections
  <2>3. MixedContent(t) => MixedContent(u)
    BY DEF Carries, MixedContent, IsItem
  <2> QED BY <1>2, <2>1, <2>2, <2>3 DEF DialogOK
<1>3. CASE /\ d.op = "move" /\ d.node \in Attached(t) /\ t.kind[d.node] \notin RiskKinds
           /\ d.target \in Sections \cup Attached(t) /\ d.target \notin Below(t, d.node)
  BY <1>3 DEF DialogOK, Carries
<1> QED BY <1>1, <1>2, <1>3 DEF DialogOK

\* g is t but for what is not in the tree.
Agrees(t, g) ==
    /\ Attached(g) = Attached(t) /\ g.main = t.main
    /\ \A q \in Sections \cup Attached(t) :
          /\ g.kind[q] = t.kind[q] /\ g.level[q] = t.level[q] /\ g.kids[q] = t.kids[q]
          /\ Children(g, q) = Children(t, q) /\ Under(g)[q] = Under(t)[q] /\ Below(g, q) = Below(t, q)
          /\ q \in g.summary <=> q \in t.summary

\* Joining takes nothing out of the tree.
LEMMA JoinsCarries ==
    ASSUME NEW t, NEW g, Agrees(t, g), NEW R, Shape(g, R), NEW x \in R, NEW p \in Sections \cup Attached(g),
           NEW u, Joins(g, R, p, x, u)
    PROVE  Carries(t, u)
<1>1. /\ u.kind = g.kind
      /\ \A q \in Parents : Under(u)[q] = Under(g)[q] \cup (IF p \in Below(g, q) THEN Below(g, x) ELSE {})
      /\ Attached(u) = Attached(g) \cup Below(g, x)
  <2>1. IsJoined(g, R, p, x, u)
    BY JoinsFacts
  <2> QED BY <2>1 DEF IsJoined
<1>2. Below(g, x) \cap (Sections \cup Attached(g)) = {}
  BY LooseApart
<1>3. Attached(g) \subseteq Parents
  BY AttachedIs, ParentsNodes DEF Shape
<1>4. ASSUME NEW y \in Attached(t)
      PROVE  /\ y \in Attached(u) /\ u.kind[y] = t.kind[y]
             /\ \A z \in Sections \cup Attached(t) : z \in Below(u, y) => z \in Below(t, y)
  <2>1. y \in Attached(g) /\ y \in Parents /\ g.kind[y] = t.kind[y] /\ Under(g)[y] = Under(t)[y]
        /\ Attached(g) = Attached(t)
    BY <1>3 DEF Agrees
  <2> QED BY <2>1, <1>1, <1>2 DEF Below
<1>5. ASSUME NEW y \in Sections \cup Attached(t) PROVE Under(t)[y] \subseteq Under(u)[y]
  <2>1. y \in Parents /\ Under(g)[y] = Under(t)[y]
    BY <1>3, ParentsNodes DEF Agrees
  <2> QED BY <2>1, <1>1
<1> QED BY <1>4, <1>5 DEF Carries

\* Agrees is reflexive.
LEMMA AgreesItself == \A t : Agrees(t, t)
BY DEF Agrees

\* Creating a node changes nothing in the tree.
LEMMA CreatedAgrees ==
    ASSUME NEW t, NEW R, Shape(t, R), NEW x, NEW kind, NEW u, IsCreated(t, R, x, kind, u)
    PROVE  Agrees(t, u)
<1>1. /\ u.kids = t.kids /\ u.level = t.level /\ u.summary = t.summary /\ u.main = t.main
      /\ x \notin Attached(t) /\ \A y \in Parents : y # x => u.kind[y] = t.kind[y]
  BY DEF IsCreated
<1>2. (\A q : Children(u, q) = Children(t, q) /\ Below(u, q) = Below(t, q)) /\ Under(u) = Under(t) /\ Attached(u) = Attached(t)
  BY <1>1, SameWires
<1>3. Attached(t) \subseteq Parents /\ Sections \subseteq Parents
  BY AttachedIs, ParentsNodes DEF Shape
<1>4. x \notin Sections
  <2>1. x \in Nodes
    BY DEF IsCreated, Shape, Loose
  <2> QED BY <2>1, ParentsNodes
<1> QED BY <1>1, <1>2, <1>3, <1>4 DEF Agrees

\* Making the nodes of a fragment changes nothing in the tree.
LEMMA GraftedAgrees ==
    ASSUME NEW t, NEW R, Shape(t, R), NEW f, NEW ids, NEW keep, NEW u, IsGrafted(t, R, f, ids, keep, u)
    PROVE  Agrees(t, u)
<1> DEFINE here == {i \in DOMAIN f : i = 1 \/ keep \/ f[i].kind \notin RiskKinds}
           G == {ids[i] : i \in here}
<1>1. /\ u.summary = t.summary /\ u.main = t.main /\ Attached(u) = Attached(t)
      /\ \A q \in Parents \ G : /\ u.kids[q] = t.kids[q] /\ u.kind[q] = t.kind[q] /\ u.level[q] = t.level[q]
                                /\ Children(u, q) = Children(t, q) /\ Under(u)[q] = Under(t)[q]
      /\ G \cap (Sections \cup Alive(t, R)) = {}
  BY DEF IsGrafted
<1> HIDE DEF G
<1>2. \A q \in Sections \cup Attached(t) : q \in Parents \ G
  <2>1. Sections \cup Attached(t) \subseteq Parents
    BY AttachedIs, ParentsNodes DEF Shape
  <2> QED BY <2>1, <1>1 DEF Alive
<1>3. \A q \in Sections \cup Attached(t) : Below(u, q) = Below(t, q)
  BY <1>1, <1>2 DEF Below
<1> QED BY <1>1, <1>2, <1>3 DEF Agrees

-----------------------------------------------------------------------------

\* The empty act satisfies the invariant.
LEMMA InitInv == Init => IInv
<1> SUFFICES ASSUME Init PROVE IInv
  OBVIOUS
<1>1. /\ tree = [kids |-> [p \in Parents |-> <<>>], level |-> [p \in Parents |-> 0],
                 kind |-> [x \in Parents |-> IF x \in Sections THEN "item" ELSE "none"],
                 summary |-> {}, main |-> FALSE, tb |-> {}]
      /\ undo = <<>> /\ dialog = NoDialog /\ pasting = NoPaste
  BY DEF Init
<1>2. tree \in TreeType
  <2>1. [p \in Parents |-> <<>>] \in [Parents -> Seq(Nodes)]
    OBVIOUS
  <2>2. [x \in Parents |-> IF x \in Sections THEN "item" ELSE "none"] \in [Parents -> KindSet]
    BY DEF KindSet
  <2>3. [p \in Parents |-> 0] \in [Parents -> Nat]
    OBVIOUS
  <2> QED BY <1>1, <2>1, <2>2, <2>3 DEF TreeType
<1>3. /\ \A p \in Parents : tree.kids[p] = <<>> /\ tree.level[p] = 0
      /\ \A p \in Parents : tree.kind[p] = IF p \in Sections THEN "item" ELSE "none"
      /\ tree.summary = {} /\ tree.tb = {}
  BY <1>1
<1>4. \A p \in Parents : Children(tree, p) = {}
  BY <1>3 DEF Children, Range
<1>5. ChildGraph(tree) \in Graph /\ (\A p \in Parents : ChildGraph(tree)[p] = {}) /\ Under(tree) = Descendants(ChildGraph(tree))
  BY <1>2, <1>4, ChildrenType
<1>6. \A p \in Parents : Under(tree)[p] = {}
  BY <1>5, DescendantsOf
<1>7. Grounded(ChildGraph(tree)) /\ SoleParents(ChildGraph(tree))
  BY <1>5 DEF Grounded, SoleParents
<1>8. Wired(tree)
  BY <1>2, <1>3, <1>7 DEF Wired, IsInjective
<1>9. Attached(tree) = {}
  BY <1>6, <1>8, AttachedIs, ParentsNodes
<1>10. Loosened(undo) = {}
  BY <1>1 DEF Loosened
<1>11. Alive(tree, {}) = {}
  BY <1>9 DEF Alive, BelowAll
<1>12. \A x \in Nodes : tree.kind[x] = "none"
  BY <1>3, ParentsNodes
<1>13. Clean(tree) /\ OnlyPoints(tree) /\ Loose(tree, {})
  BY <1>3, ParentsNodes DEF Clean, OnlyPoints, Loose, IsItem
<1>14. Shape(tree, Loosened(undo))
  BY <1>8, <1>10, <1>11, <1>12, <1>13 DEF Shape
<1>15. Numbered(tree)
  <2>1. PointsBelow(tree, "s5") = {} /\ PointsBelow(tree, "pm") = {}
    BY <1>6, <1>8, PointsRules, ParentsNodes DEF PointsBelow
  <2> QED BY <2>1 DEF Numbered
<1>16. StackOK(undo)
  BY <1>1, TreeAssumption DEF StackOK
<1>17. DialogOK(tree, dialog) /\ PasteOK(tree, undo, pasting)
  BY <1>1, NoPasteOK DEF DialogOK
<1> QED BY <1>14, <1>15, <1>16, <1>17 DEF IInv

\* u is t with a new node x below p.
Adds(t, R, p, x, kind, u) ==
    \E g : /\ IsCreated(t, R, x, kind, g)
           /\ Joins(g, R \cup {x}, p, x, u) /\ u.tb = t.tb

PlainAdd(t, R, p, x, kind, u) == Adds(t, R, p, x, kind, u) /\ u.main = t.main

-----------------------------------------------------------------------------
(* The actions that add one node.                                          *)

\* A node created, inserted and numbered is added.
LEMMA AddsCreated ==
    ASSUME NEW t, NEW R, Shape(t, R), NEW x \in Nodes, t.kind[x] = "none", NEW kind \in KindSet \ {"none"},
           NEW p \in Sections \cup Attached(t), NEW k \in 0 .. Len(t.kids[p])
    PROVE  PlainAdd(t, R, p, x, kind, generateNumbering(InsertedAt(Created(t, x, kind), p, k, x)))
<1> DEFINE g == Created(t, x, kind)
<1>1. IsCreated(t, R, x, kind, g)
  BY ShapeCreated
<1> HIDE DEF g
<1>2. Shape(g, R \cup {x}) /\ g.kids = t.kids /\ g.tb = t.tb /\ g.main = t.main
  BY <1>1 DEF IsCreated
<1>3. p \in Sections \cup Attached(g) /\ k \in 0 .. Len(g.kids[p])
  BY <1>2, SameWires
<1>4. x \in R \cup {x}
  OBVIOUS
<1>5. PlainJoin(g, R \cup {x}, p, x, generateNumbering(InsertedAt(g, p, k, x)))
  BY <1>2, <1>3, <1>4, JoinsNumbered
<1> QED BY <1>1, <1>2, <1>5 DEF PlainAdd, PlainJoin, Adds, g

\* Adding a node keeps the shape and the tree.
LEMMA AddsKeep ==
    ASSUME NEW t, NEW R, Shape(t, R), NEW x, NEW kind, NEW p \in Sections \cup Attached(t), NEW u,
           Adds(t, R, p, x, kind, u)
    PROVE  /\ Shape(u, R) /\ Numbered(u) /\ Carries(t, u)
           /\ \A y \in Parents : y # x => u.kind[y] = t.kind[y]
<1>1. PICK g : /\ IsCreated(t, R, x, kind, g)
               /\ Joins(g, R \cup {x}, p, x, u) /\ u.tb = t.tb
  BY DEF Adds
<1>2. Shape(g, R \cup {x}) /\ x \notin R /\ Agrees(t, g) /\ (\A y \in Parents : y # x => g.kind[y] = t.kind[y])
  BY <1>1, CreatedAgrees DEF IsCreated
<1>3. p \in Sections \cup Attached(g) /\ x \in R \cup {x}
  BY <1>2 DEF Agrees
<1>4. IsJoined(g, R \cup {x}, p, x, u)
  BY <1>1, <1>2, <1>3, JoinsFacts
<1>5. (R \cup {x}) \ {x} = R
  BY <1>2
<1>6. Shape(u, R) /\ Numbered(u) /\ u.kind = g.kind
  BY <1>4, <1>5 DEF IsJoined
<1>7. Carries(t, u)
  BY <1>1, <1>2, <1>3, JoinsCarries
<1> QED BY <1>2, <1>6, <1>7

\* The steps that add one node.
LEMMA AddChildIs ==
    ASSUME IInv, NEW p \in Here, NEW x \in Fresh, handleAddChild(p, x)
    PROVE  \E t : /\ Shape(t, Loosened(undo)) /\ t.kids = tree.kids /\ t.kind = tree.kind /\ t.level = tree.level
                  /\ t.summary = tree.summary /\ t.main = tree.main
                  /\ t.tb = (IF isTbLeaf(tree, p) THEN tree.tb \ {p} ELSE tree.tb)
                  /\ Adds(t, Loosened(undo), p, x, "item", tree') /\ tree'.main = tree.main
                  /\ p \in Sections \cup Attached(t)
<1> DEFINE R == Loosened(undo)
           t == IF isTbLeaf(tree, p) THEN [tree EXCEPT !.tb = @ \ {p}] ELSE tree
<1>1. Shape(tree, R) /\ tree \in TreeType /\ p \in Sections \cup Attached(tree)
  BY DEF IInv, Shape, Wired, Here, Placed
<1>2. x \in Nodes /\ tree.kind[x] = "none"
  BY FreshIs
<1>3. tree' = generateNumbering(InsertedAt(Created(t, x, "item"), p, Len(tree.kids[p]), x))
  BY DEF handleAddChild
<1> HIDE DEF R
<1>4. /\ t \in TreeType /\ t.kids = tree.kids /\ t.kind = tree.kind /\ t.level = tree.level /\ t.summary = tree.summary
      /\ t.main = tree.main /\ t.tb = (IF isTbLeaf(tree, p) THEN tree.tb \ {p} ELSE tree.tb)
  <2>1. CASE isTbLeaf(tree, p)
    BY <2>1, <1>1 DEF TreeType
  <2>2. CASE ~isTbLeaf(tree, p)
    BY <2>2, <1>1
  <2> QED BY <2>1, <2>2
<1> HIDE DEF t
<1>5. Shape(t, R)
  <2>1. \A y \in t.summary \cup t.tb : IsItem(tree, y)
    BY <1>1, <1>4, MarkedItems
  <2> QED BY <2>1, <1>1, <1>4, ShapeMarked
<1>6. p \in Sections \cup Attached(t) /\ p \in Parents
  BY <1>1, <1>4, SameWires, AttachedDown DEF Shape
<1>7. Len(t.kids[p]) \in Nat
  BY <1>4, <1>6, TreeFields
<1>8. "item" \in KindSet \ {"none"}
  BY DEF KindSet
<1> DEFINE k == Len(tree.kids[p])
<1>9. k \in 0 .. Len(t.kids[p]) /\ t.kind[x] = "none"
  BY <1>2, <1>4, <1>7
<1> HIDE DEF k
<1>10. tree' = generateNumbering(InsertedAt(Created(t, x, "item"), p, k, x))
  BY <1>3 DEF k
<1>11. PlainAdd(t, R, p, x, "item", generateNumbering(InsertedAt(Created(t, x, "item"), p, k, x)))
  BY <1>2, <1>5, <1>6, <1>8, <1>9, AddsCreated
<1> QED BY <1>4, <1>5, <1>6, <1>10, <1>11 DEF R, PlainAdd

\* handleAddSibling adds one point.
LEMMA AddSiblingIs ==
    ASSUME IInv, NEW p \in Here, NEW x \in Fresh, NEW i \in 0 .. Len(tree.kids[p]), handleAddSibling(p, i, x)
    PROVE  Adds(tree, Loosened(undo), p, x, "item", tree') /\ tree'.main = tree.main
<1>1. Shape(tree, Loosened(undo)) /\ p \in Sections \cup Attached(tree)
  BY DEF IInv, Here, Placed
<1>2. x \in Nodes /\ tree.kind[x] = "none"
  BY FreshIs
<1>3. tree' = generateNumbering(InsertedAt(Created(tree, x, "item"), p, i, x))
  BY DEF handleAddSibling
<1>4. "item" \in KindSet \ {"none"}
  BY DEF KindSet
<1>5. PlainAdd(tree, Loosened(undo), p, x, "item", generateNumbering(InsertedAt(Created(tree, x, "item"), p, i, x)))
  BY <1>1, <1>2, <1>4, AddsCreated
<1> QED BY <1>3, <1>5 DEF PlainAdd

\* AddContent adds one table or violation.
LEMMA AddContentIs ==
    ASSUME IInv, NEW p \in Here, NEW x \in Fresh, NEW kind \in Kinds \ RiskKinds, AddContent(p, kind, x)
    PROVE  Adds(tree, Loosened(undo), p, x, kind, tree') /\ tree'.main = tree.main
<1>1. Shape(tree, Loosened(undo)) /\ p \in Sections \cup Attached(tree) /\ tree \in TreeType /\ p \in Parents
  BY AttachedDown DEF IInv, Here, Placed, Shape, Wired
<1>2. x \in Nodes /\ tree.kind[x] = "none"
  BY FreshIs
<1> DEFINE k == Len(tree.kids[p])
<1>3. tree' = generateNumbering(InsertedAt(Created(tree, x, kind), p, k, x))
  BY DEF AddContent
<1>4. kind \in KindSet \ {"none"}
  BY TreeAssumption DEF KindSet, RiskKinds
<1>5. k \in 0 .. Len(tree.kids[p])
  <2>1. Len(tree.kids[p]) \in Nat
    BY <1>1, TreeFields
  <2> QED BY <2>1
<1> HIDE DEF k
<1>6. PlainAdd(tree, Loosened(undo), p, x, kind, generateNumbering(InsertedAt(Created(tree, x, kind), p, k, x)))
  BY <1>1, <1>2, <1>4, <1>5, AddsCreated
<1> QED BY <1>3, <1>6 DEF PlainAdd

\* CreateRiskTable adds one risk table, and the main summary is there.
LEMMA CreateRiskTableIs ==
    ASSUME IInv, NEW p \in Sections \cup Attached(tree), NEW kind \in RiskKinds, NEW x \in Fresh,
           CreateRiskTable(p, kind, x)
    PROVE  Adds(tree, Loosened(undo), p, x, kind, tree') /\ tree'.main
<1> DEFINE R == Loosened(undo)
           g == Created(tree, x, kind)
<1>1. Shape(tree, R) /\ p \in Parents
  BY AttachedDown DEF IInv, Shape
<1>2. x \in Nodes /\ tree.kind[x] = "none"
  BY FreshIs
<1>3. tree' = _updateMetricsTablesAfterRiskTableCreated(generateNumbering(insertNodeAt(g, p, x, 0)), p)
  BY DEF CreateRiskTable
<1>4. kind \in KindSet \ {"none"}
  BY DEF KindSet, RiskKinds
<1> HIDE DEF R
<1>5. IsCreated(tree, R, x, kind, g)
  BY <1>1, <1>2, <1>4, ShapeCreated
<1> HIDE DEF g
<1>6. Shape(g, R \cup {x}) /\ g.kids = tree.kids /\ g.tb = tree.tb /\ g \in TreeType
  BY <1>5 DEF IsCreated, Shape, Wired
<1>7. p \in Sections \cup Attached(g) /\ x \in R \cup {x}
  BY <1>6, SameWires
<1>8. PICK k \in 0 .. Len(g.kids[p]) : insertNodeAt(g, p, x, 0) = InsertedAt(g, p, k, x)
  <2>1. 0 \in Nat
    OBVIOUS
  <2> QED BY <2>1, <1>1, <1>6, InsertNodeIs
<1> DEFINE v == generateNumbering(InsertedAt(g, p, k, x))
<1>9. tree' = _updateMetricsTablesAfterRiskTableCreated(v, p)
  BY <1>3, <1>8
<1>10. RiskyJoin(g, R \cup {x}, p, x, _updateMetricsTablesAfterRiskTableCreated(v, p))
  <2>1. v = generateNumbering(InsertedAt(g, p, k, x))
    OBVIOUS
  <2> HIDE DEF v
  <2> QED BY <2>1, <1>6, <1>7, JoinsUpdated
<1> HIDE DEF v
<1> QED BY <1>5, <1>6, <1>9, <1>10 DEF RiskyJoin, Adds, R

\* The invariant after a step that adds one node and leaves the stack alone.
LEMMA InvAdded ==
    ASSUME IInv, NEW x \in Fresh, NEW t, t.kind = tree.kind, NEW p \in Sections \cup Attached(t),
           Shape(t, Loosened(undo)), NEW kind, Adds(t, Loosened(undo), p, x, kind, tree'),
           UNCHANGED <<undo, pasting>>, dialog' = NoDialog
    PROVE  IInv'
<1>1. /\ Shape(tree', Loosened(undo)) /\ Numbered(tree')
      /\ \A y \in Parents : y # x => tree'.kind[y] = t.kind[y]
  BY AddsKeep
<1>2. undo' = undo /\ pasting' = pasting
  OBVIOUS
<1>3. /\ x \in UnusedSet(tree, undo, pasting.target)
      /\ Len(pasting.fragment) < Cardinality(UnusedSet(tree, undo, pasting.target))
  BY FreshIs
<1>4. \A y \in Nodes : y # x /\ tree.kind[y] = "none" => tree'.kind[y] = "none"
  BY <1>1, ParentsNodes
<1>5. StackOK(undo) /\ PasteOK(tree, undo, pasting)
  BY DEF IInv
<1>6. PasteOK(tree', undo, pasting)
  BY <1>3, <1>4, <1>5, PasteKeptOne
<1>7. DialogOK(tree', dialog')
  BY DEF DialogOK
<1> QED BY <1>1, <1>2, <1>5, <1>6, <1>7 DEF IInv

\* A deletion: x leaves the tree, its summaries with it, and what the stack
\* lets go of is forgotten.
Deletes(t, R, x, u, left) ==
    \E off, clean :
        /\ IsDetached(t, R, x, off)
        /\ Shape(clean, R \cup {x}) /\ Numbered(clean) /\ SameNodes(off, clean)
        /\ clean.summary \subseteq t.summary /\ (clean.main => t.main)
        /\ StackOK(left) /\ Loosened(left) \subseteq R \cup {x}
        /\ IsTidied(clean, left, u)

-----------------------------------------------------------------------------
(* Deleting, taking back, moving.                                          *)

\* deleteNode deletes.
LEMMA DeleteIs ==
    ASSUME IInv, NEW x \in Placed, deleteNode(x)
    PROVE  /\ Deletes(tree, Loosened(undo), x, tree', undo')
           /\ \A i \in DOMAIN undo' : \/ undo'[i].parent \in Sections \cup Attached(tree)
                                      \/ \E j \in DOMAIN undo : undo'[i].parent = undo[j].parent
           /\ UNCHANGED <<dialog, pasting>> /\ dialog = NoDialog
<1> DEFINE R == Loosened(undo)
           off == Detached(tree, x)
           clean == IF HasRisks(tree, x) THEN _cleanupMetricsTablesAfterRiskTableDeleted(off)
                    ELSE generateNumbering(off)
           s == [node |-> x, parent |-> Parent(tree, x), index |-> IndexOf(tree, x)]
<1>1. Shape(tree, R) /\ Wired(tree) /\ x \in Attached(tree) /\ StackOK(undo)
  BY DEF IInv, Shape, Placed
<1>2. undo' = Pushed(undo, s) /\ tree' = Tidy(clean, undo') /\ UNCHANGED <<dialog, pasting>> /\ dialog = NoDialog
  BY DEF deleteNode, Free
<1>3. IsDetached(tree, R, x, off)
  BY <1>1, ShapeDetached
<1>4. Parent(tree, x) \in Sections \cup Attached(tree) /\ Parent(tree, x) \in Parents /\ x \in Nodes /\ IndexOf(tree, x) \in Nat
  BY <1>1, AttachedUp, IndexOfType
<1>5. s \in Snapshot /\ s.node = x /\ s.parent = Parent(tree, x)
  BY <1>4 DEF Snapshot
<1> HIDE DEF s, off
<1>6. Shape(off, R \cup {x}) /\ x \notin R /\ off.summary = tree.summary /\ off.main = tree.main
  BY <1>3 DEF IsDetached
<1>7. Shape(clean, R \cup {x}) /\ Numbered(clean) /\ SameNodes(off, clean)
      /\ clean.summary \subseteq off.summary /\ (clean.main => off.main)
  <2>1. CASE HasRisks(tree, x)
    <3> DEFINE c == _cleanupMetricsTablesAfterRiskTableDeleted(off)
    <3>1. clean = c
      BY <2>1
    <3>2. /\ Shape(c, R \cup {x}) /\ Numbered(c) /\ SameNodes(off, c)
          /\ c.main = (off.main /\ shouldHaveMainMetrics(off))
          /\ c.summary = off.summary \ {a \in Items(off, "s5") : off.level[a] = 1 /\ ~shouldHaveMetricsTable(off, a)}
      BY <1>6, ShapeCleanup
    <3> HIDE DEF c
    <3> QED BY <3>1, <3>2
  <2>2. CASE ~HasRisks(tree, x)
    <3> DEFINE c == generateNumbering(off)
    <3>1. clean = c
      BY <2>2
    <3>2. Shape(c, R \cup {x}) /\ Numbered(c) /\ SameNodes(off, c) /\ c.main = off.main /\ c.summary = off.summary
      BY <1>6, ShapeRenumbered
    <3> HIDE DEF c
    <3> QED BY <3>1, <3>2
  <2> QED BY <2>1, <2>2
<1> HIDE DEF clean
<1>8. s.node \notin Loosened(undo)
  BY <1>5, <1>6
<1>9. /\ StackOK(undo')
      /\ Loosened(undo') \subseteq R \cup {x}
      /\ \A i \in DOMAIN undo' : undo'[i] = s \/ \E j \in DOMAIN undo : undo'[i] = undo[j]
  BY <1>1, <1>2, <1>5, <1>8, PushedStack
<1>10. IsTidied(clean, undo', tree')
  BY <1>2, <1>7, <1>9, ShapeTidy
<1>11. Deletes(tree, R, x, tree', undo')
  BY <1>3, <1>6, <1>7, <1>9, <1>10 DEF Deletes
<1>12. \A i \in DOMAIN undo' : \/ undo'[i].parent \in Sections \cup Attached(tree)
                               \/ \E j \in DOMAIN undo : undo'[i].parent = undo[j].parent
  BY <1>4, <1>5, <1>9
<1> QED BY <1>2, <1>11, <1>12

\* Forgetting makes identifiers unused.
LEMMA TidiedUnused ==
    ASSUME NEW t, NEW R, Shape(t, R), NEW stack, Loosened(stack) \subseteq R, NEW u, IsTidied(t, stack, u),
           NEW y \in Nodes, t.kind[y] = "none"
    PROVE  u.kind[y] = "none"
<1>1. y \notin Alive(t, R)
  BY DEF Shape
<1>2. Alive(t, Loosened(stack)) \subseteq Alive(t, R)
  BY DEF Alive, BelowAll
<1> QED BY <1>1, <1>2 DEF IsTidied

\* Forgetting takes nothing out of the tree.
LEMMA TidiedCarries ==
    ASSUME NEW t, NEW R, Shape(t, R), NEW stack, NEW u, IsTidied(t, stack, u)
    PROVE  Carries(t, u) /\ Attached(u) = Attached(t)
<1>1. Attached(t) \subseteq Alive(t, Loosened(stack))
  BY DEF Alive
<1> QED BY <1>1 DEF IsTidied, Carries

\* A deletion keeps the invariant.
LEMMA InvDelete ==
    ASSUME IInv, NEW x \in Placed, deleteNode(x)
    PROVE  IInv'
<1> DEFINE R == Loosened(undo)
<1>1. /\ Deletes(tree, R, x, tree', undo')
      /\ \A i \in DOMAIN undo' : \/ undo'[i].parent \in Sections \cup Attached(tree)
                                 \/ \E j \in DOMAIN undo : undo'[i].parent = undo[j].parent
      /\ UNCHANGED <<dialog, pasting>> /\ dialog = NoDialog
  BY DeleteIs
<1> HIDE DEF R
<1>2. PICK off, clean :
        /\ IsDetached(tree, R, x, off)
        /\ Shape(clean, R \cup {x}) /\ Numbered(clean) /\ SameNodes(off, clean)
        /\ clean.summary \subseteq tree.summary /\ (clean.main => tree.main)
        /\ StackOK(undo') /\ Loosened(undo') \subseteq R \cup {x}
        /\ IsTidied(clean, undo', tree')
  BY <1>1 DEF Deletes
<1>3. Shape(tree', Loosened(undo')) /\ Numbered(tree')
  BY <1>2 DEF IsTidied
<1>4. clean.kind = tree.kind
  BY <1>2 DEF IsDetached, SameNodes
<1>5. ASSUME NEW y \in UnusedSet(tree, undo, pasting.target)
      PROVE  y \in UnusedSet(tree', undo', pasting'.target)
  <2>1. y \in Nodes /\ tree.kind[y] = "none" /\ pasting.target # y /\ \A i \in DOMAIN undo : undo[i].parent # y
    BY DEF UnusedSet
  <2>2. tree'.kind[y] = "none"
    BY <2>1, <1>2, <1>4, TidiedUnused
  <2>3. y \notin Sections \cup Attached(tree)
    <3>1. Shape(tree, R)
      BY DEF IInv, R
    <3> QED BY <3>1, <2>1, ParentsNodes DEF Shape, Alive
  <2>4. \A i \in DOMAIN undo' : undo'[i].parent # y
    BY <1>1, <2>1, <2>3
  <2> QED BY <1>1, <2>1, <2>2, <2>4 DEF UnusedSet
<1>6. PasteOK(tree', undo', pasting')
  <2>1. PasteOK(tree, undo, pasting) /\ pasting' = pasting
    BY <1>1 DEF IInv
  <2> QED BY <2>1, <1>5, PasteKept
<1>7. DialogOK(tree', dialog')
  BY <1>1 DEF DialogOK
<1> QED BY <1>2, <1>3, <1>6, <1>7 DEF IInv

\* A deletion is taken back, or is found to have lost its place.
LEMMA UndoIs ==
    ASSUME IInv, undoLast
    PROVE  LET x == undo[Len(undo)].node
               p == undo[Len(undo)].parent
           IN
           /\ StackOK(undo') /\ x \in Loosened(undo) /\ Loosened(undo') = Loosened(undo) \ {x}
           /\ \A i \in DOMAIN undo' : i \in DOMAIN undo /\ undo'[i] = undo[i]
           /\ \/ /\ p \in Sections \cup Attached(tree) /\ canInsertSubtree(tree, p, x)
                 /\ Joins(tree, Loosened(undo), p, x, tree') /\ tree'.tb = tree.tb
                 /\ tree'.main = tree.main \/ (tree'.main /\ HasRisks(tree, x))
              \/ IsTidied(tree, undo', tree')
           /\ UNCHANGED <<dialog, pasting>>
<1> DEFINE last == undo[Len(undo)]
           x == last.node
           p == last.parent
           j == Larger(last.index, Summaries(tree, p)) - Summaries(tree, p)
           back == insertNodeAt(tree, p, x, j)
           R == Loosened(undo)
<1>0. /\ undo # <<>> /\ UNCHANGED <<dialog, pasting>>
      /\ p \in Sections \cup Attached(tree) =>
          /\ canInsertSubtree(tree, p, x)
          /\ tree' = IF HasRisks(tree, x) THEN _updateMetricsTablesAfterRiskTableCreated(back, x)
                     ELSE generateNumbering(back)
          /\ undo' = Front(undo)
      /\ p \notin Sections \cup Attached(tree) => undo' = Front(undo) /\ tree' = Tidy(tree, undo')
  BY DEF undoLast
<1>1. Shape(tree, R) /\ Numbered(tree) /\ StackOK(undo) /\ tree \in TreeType
  BY DEF IInv, Shape, Wired
<1>2. /\ StackOK(undo') /\ last \in Snapshot /\ x \in R /\ Loosened(undo') = R \ {x}
      /\ \A i \in DOMAIN undo' : i \in DOMAIN undo /\ undo'[i] = undo[i]
  <2>1. undo' = Front(undo)
    BY <1>0
  <2> QED BY <2>1, <1>0, <1>1, PoppedStack
<1>3. last.index \in Nat /\ p \in Parents /\ Summaries(tree, p) \in Nat
  BY <1>2, SummariesType DEF Snapshot
<1>4. j \in Nat
  BY <1>3 DEF Larger
<1> HIDE DEF last, j, R
<1>5. CASE p \in Sections \cup Attached(tree)
  <2>1. PICK k \in 0 .. Len(tree.kids[p]) : back = InsertedAt(tree, p, k, x)
    BY <1>1, <1>3, <1>4, InsertNodeIs
  <2>a. canInsertSubtree(tree, p, x)
    BY <1>0, <1>5
  <2>2. CASE HasRisks(tree, x)
    <3>1. tree' = _updateMetricsTablesAfterRiskTableCreated(back, x)
      BY <1>0, <1>5, <2>2
    <3> HIDE DEF back, x, p
    <3>2. RiskyJoin(tree, R, p, x, _updateMetricsTablesAfterRiskTableCreated(back, x))
      BY <1>1, <1>2, <1>5, <2>1, JoinsUpdated
    <3>3. RiskyJoin(tree, R, p, x, tree')
      BY <3>1, <3>2
    <3>4. Joins(tree, R, p, x, tree') /\ tree'.tb = tree.tb /\ tree'.main
      BY <3>3 DEF RiskyJoin
    <3> QED BY <3>4, <2>2, <2>a, <1>0, <1>2, <1>5 DEF R, x, p, last
  <2>3. CASE ~HasRisks(tree, x)
    <3>1. tree' = generateNumbering(InsertedAt(tree, p, k, x))
      BY <1>0, <1>5, <2>1, <2>3
    <3> HIDE DEF x, p
    <3>2. PlainJoin(tree, R, p, x, generateNumbering(InsertedAt(tree, p, k, x)))
      BY <1>1, <1>2, <1>5, JoinsNumbered
    <3>3. PlainJoin(tree, R, p, x, tree')
      BY <3>1, <3>2
    <3>4. Joins(tree, R, p, x, tree') /\ tree'.tb = tree.tb /\ tree'.main = tree.main
      BY <3>3 DEF PlainJoin
    <3> QED BY <3>4, <2>a, <1>0, <1>2, <1>5 DEF R, x, p, last
  <2> QED BY <2>2, <2>3
<1>6. CASE p \notin Sections \cup Attached(tree)
  <2>1. IsTidied(tree, undo', tree')
    <3>1. tree' = Tidy(tree, undo') /\ Loosened(undo') \subseteq R
      BY <1>0, <1>2, <1>6
    <3> QED BY <3>1, <1>1, ShapeTidy
  <2> QED BY <2>1, <1>0, <1>2 DEF R, last
<1> QED BY <1>5, <1>6

\* Taking one back keeps the invariant.
LEMMA InvUndo ==
    ASSUME IInv, undoLast
    PROVE  IInv'
<1> DEFINE x == undo[Len(undo)].node
           p == undo[Len(undo)].parent
           R == Loosened(undo)
<1>1. /\ StackOK(undo') /\ x \in R /\ Loosened(undo') = R \ {x}
      /\ \A i \in DOMAIN undo' : i \in DOMAIN undo /\ undo'[i] = undo[i]
      /\ \/ /\ p \in Sections \cup Attached(tree)
            /\ Joins(tree, R, p, x, tree')
         \/ IsTidied(tree, undo', tree')
      /\ UNCHANGED <<dialog, pasting>>
  BY UndoIs
<1> HIDE DEF x, p, R
<1>2. Shape(tree, R) /\ DialogOK(tree, dialog) /\ PasteOK(tree, undo, pasting)
  BY DEF IInv, R
<1>3. /\ Shape(tree', R \ {x}) /\ Numbered(tree') /\ Carries(tree, tree')
      /\ \A y \in Nodes : tree.kind[y] = "none" => tree'.kind[y] = "none"
  <2>1. CASE p \in Sections \cup Attached(tree) /\ Joins(tree, R, p, x, tree')
    <3>1. IsJoined(tree, R, p, x, tree')
      BY <2>1, <1>1, <1>2, JoinsFacts
    <3>2. Carries(tree, tree')
      BY <2>1, <1>1, <1>2, AgreesItself, JoinsCarries
    <3> QED BY <3>1, <3>2 DEF IsJoined
  <2>2. CASE IsTidied(tree, undo', tree')
    <3>1. Shape(tree', R \ {x}) /\ Numbered(tree')
      BY <2>2, <1>1 DEF IsTidied
    <3>2. Carries(tree, tree')
      BY <2>2, <1>2, TidiedCarries
    <3>3. Loosened(undo') \subseteq R
      BY <1>1
    <3>4. \A y \in Nodes : tree.kind[y] = "none" => tree'.kind[y] = "none"
      BY <2>2, <3>3, <1>2, TidiedUnused
    <3> QED BY <3>1, <3>2, <3>4
  <2> QED BY <2>1, <2>2, <1>1
<1>4. PasteOK(tree', undo', pasting')
  <2>1. UnusedSet(tree, undo, pasting.target) \subseteq UnusedSet(tree', undo', pasting.target)
    BY <1>1, <1>3 DEF UnusedSet
  <2>2. pasting' = pasting
    BY <1>1
  <2> QED BY <2>1, <2>2, <1>2, PasteKept
<1>5. DialogOK(tree', dialog')
  BY <1>1, <1>2, <1>3, DialogKept
<1> QED BY <1>1, <1>3, <1>4, <1>5 DEF IInv

\* A move.
Moves(t, R, x, p, u) ==
    \E off : /\ IsDetached(t, R, x, off)
             /\ Joins(off, R \cup {x}, p, x, u)
             /\ p \in Sections \cup Attached(off) /\ p \in Sections \cup Attached(t) /\ p \notin Below(t, x)

\* Moved detaches and joins, and clears the banks of Cleared.
LEMMA MovedIs ==
    ASSUME NEW t, NEW R, Shape(t, R), NEW x \in Attached(t), NEW target \in Sections \cup Attached(t),
           target \notin Below(t, x), NEW position, _determineNewParent(t, target, position) # "root"
    PROVE  /\ Moves(t, R, x, _determineNewParent(t, target, position), Moved(t, x, target, position))
           /\ Moved(t, x, target, position).tb = t.tb \ Cleared(t, x, target, position)
<1>1. IsDetached(t, R, x, Detached(t, x))
  BY ShapeDetached
<1>2. LET p == _determineNewParent(t, target, position)
          off == Detached(t, x)
          u == Moved(t, x, target, position)
      IN
      /\ Joins(off, R \cup {x}, p, x, u) /\ p \in Sections \cup Attached(off) /\ p \notin Below(t, x)
      /\ u.tb = t.tb \ Cleared(t, x, target, position)
      /\ p \in Sections \cup Attached(t)
  BY JoinsMoved, Zenon
<1> QED BY <1>1, <1>2, Zenon DEF Moves

\* A move keeps the shape and the nodes of the tree.
LEMMA MovesKeep ==
    ASSUME NEW t, NEW R, Shape(t, R), NEW x, NEW p, NEW u, Moves(t, R, x, p, u), x \in Attached(t)
    PROVE  Shape(u, R) /\ Numbered(u) /\ u.kind = t.kind /\ Attached(u) = Attached(t)
<1>1. PICK off : /\ IsDetached(t, R, x, off)
                 /\ Joins(off, R \cup {x}, p, x, u)
                 /\ p \in Sections \cup Attached(off) /\ p \notin Below(t, x)
  BY DEF Moves
<1>2. /\ Shape(off, R \cup {x}) /\ x \notin R /\ off.kind = t.kind /\ Below(off, x) = Below(t, x)
      /\ Attached(off) = Attached(t) \ Below(t, x)
  BY <1>1 DEF IsDetached
<1>3. IsJoined(off, R \cup {x}, p, x, u)
  BY <1>1, <1>2, JoinsFacts
<1>4. (R \cup {x}) \ {x} = R
  BY <1>2
<1>5. Below(t, x) \subseteq Attached(t)
  <2>1. Wired(t)
    BY DEF Shape
  <2> QED BY <2>1, AttachedDown DEF Below
<1> QED BY <1>2, <1>3, <1>4, <1>5 DEF IsJoined

\* moveNode moves.
LEMMA MoveNodeIs ==
    ASSUME IInv, NEW x \in Placed, NEW target \in Here, NEW position \in Positions, moveNode(x, target, position)
    PROVE  /\ Moves(tree, Loosened(undo), x, _determineNewParent(tree, target, position), tree')
           /\ tree'.tb = tree.tb \ Cleared(tree, x, target, position)
           /\ tree' = Moved(tree, x, target, position)
<1>1. Shape(tree, Loosened(undo)) /\ x \in Attached(tree) /\ target \in Sections \cup Attached(tree)
  BY DEF IInv, Placed, Here
<1>2. /\ target \notin Below(tree, x)
      /\ _determineNewParent(tree, target, position) # "root"
      /\ tree' = Moved(tree, x, target, position)
  BY DEF moveNode, CanDrop, IsRisk, MoveAllowed
<1> QED BY <1>1, <1>2, MovedIs

\* The confirmed move: without the summary first.
LEMMA MoveConfirmedIs ==
    ASSUME IInv, MoveConfirmed
    PROVE  LET t == [tree EXCEPT !.summary = @ \ {dialog.node}]
               p == _determineNewParent(t, dialog.target, dialog.position)
           IN
           /\ Shape(t, Loosened(undo)) /\ Numbered(t) /\ t.kids = tree.kids /\ t.kind = tree.kind /\ t.tb = tree.tb
           /\ t.summary \subseteq tree.summary /\ t.main = tree.main
           /\ dialog.node \in Attached(t) /\ dialog.target \in Sections \cup Attached(t)
           /\ dialog.target \notin Below(t, dialog.node)
           /\ \/ tree' = t
              \/ /\ tree' = Moved(t, dialog.node, dialog.target, dialog.position)
                 /\ p # "root" /\ canInsertSubtree(t, p, dialog.node)
                 /\ Moves(t, Loosened(undo), dialog.node, p, tree')
<1> DEFINE t == [tree EXCEPT !.summary = @ \ {dialog.node}]
           p == _determineNewParent(t, dialog.target, dialog.position)
           R == Loosened(undo)
<1>1. Shape(tree, R) /\ Numbered(tree) /\ tree \in TreeType /\ DialogOK(tree, dialog)
  BY DEF IInv, Shape, Wired
<1>2. dialog.op = "move" /\ tree' = IF MoveAllowed(t, dialog.node, p)
                  THEN Moved(t, dialog.node, dialog.target, dialog.position) ELSE t
  BY DEF MoveConfirmed
<1>3. /\ dialog.node \in Attached(tree)
      /\ dialog.target \in Sections \cup Attached(tree) /\ dialog.target \notin Below(tree, dialog.node)
  BY <1>1, <1>2 DEF DialogOK, NoDialog
<1>4. /\ t \in TreeType /\ t.kids = tree.kids /\ t.kind = tree.kind /\ t.level = tree.level /\ t.tb = tree.tb
      /\ t.summary = tree.summary \ {dialog.node} /\ t.main = tree.main
  BY <1>1 DEF TreeType
<1>5. p = _determineNewParent(t, dialog.target, dialog.position)
  OBVIOUS
<1> HIDE DEF t, p, R
<1>6. Shape(t, R)
  <2>1. \A y \in t.summary \cup t.tb : IsItem(tree, y)
    BY <1>1, <1>4, MarkedItems
  <2> QED BY <2>1, <1>1, <1>4, ShapeMarked
<1>7. Numbered(t)
  <2>1. Wired(t) /\ Wired(tree)
    BY <1>1, <1>6 DEF Shape
  <2> QED BY <2>1, <1>1, <1>4, NumberedFrame
<1>8. /\ dialog.node \in Attached(t)
      /\ dialog.target \in Sections \cup Attached(t) /\ dialog.target \notin Below(t, dialog.node)
  BY <1>3, <1>4, SameWires
<1>9. ASSUME MoveAllowed(t, dialog.node, p)
      PROVE  /\ tree' = Moved(t, dialog.node, dialog.target, dialog.position)
             /\ p # "root" /\ canInsertSubtree(t, p, dialog.node)
             /\ Moves(t, R, dialog.node, p, tree')
  <2>1. p # "root" /\ canInsertSubtree(t, p, dialog.node)
    BY <1>9 DEF MoveAllowed
  <2>2. tree' = Moved(t, dialog.node, dialog.target, dialog.position)
    BY <1>2, <1>9
  <2>3. Moves(t, R, dialog.node, p, Moved(t, dialog.node, dialog.target, dialog.position))
    BY <2>1, <1>5, <1>6, <1>8, MovedIs
  <2> QED BY <2>1, <2>2, <2>3
<1>10. tree' = t \/ MoveAllowed(t, dialog.node, p)
  BY <1>2
<1> QED BY <1>4, <1>6, <1>7, <1>8, <1>9, <1>10 DEF t, p, R

\* The invariant after a step that keeps the nodes.
LEMMA InvMoved ==
    ASSUME IInv, Shape(tree', Loosened(undo)), Numbered(tree'), tree'.kind = tree.kind,
           UNCHANGED <<undo, pasting>>, dialog' = NoDialog
    PROVE  IInv'
<1>1. undo' = undo /\ pasting' = pasting /\ StackOK(undo) /\ PasteOK(tree, undo, pasting)
  BY DEF IInv
<1>2. UnusedSet(tree, undo, pasting.target) \subseteq UnusedSet(tree', undo, pasting.target)
  BY DEF UnusedSet
<1>3. PasteOK(tree', undo, pasting)
  BY <1>1, <1>2, PasteKept
<1>4. DialogOK(tree', dialog')
  BY DEF DialogOK
<1> QED BY <1>1, <1>3, <1>4 DEF IInv

\* u is t with the nodes of the fragment f below p.
Pastes(t, R, f, ids, keep, p, u) ==
    \E g : /\ IsGrafted(t, R, f, ids, keep, g) /\ g = Grafted(t, f, ids, keep)
           /\ Joins(g, R \cup {ids[1]}, p, ids[1], u) /\ u.tb = g.tb
           /\ p \in Sections \cup Attached(g)

-----------------------------------------------------------------------------
(* Pasting.                                                                *)

\* Pasted joins the fragment.
LEMMA PastedIs ==
    ASSUME NEW t, NEW R, Shape(t, R), NEW f \in Fragments, NEW keep, NEW under5,
           NEW ids \in [1 .. Len(f) -> Nodes], IsInjective(ids), \A i \in 1 .. Len(f) : t.kind[ids[i]] = "none",
           NEW p \in Sections \cup Attached(t)
    PROVE  Pastes(t, R, f, ids, keep, p, Pasted(Grafted(t, f, ids, keep), ids[1], p, under5))
<1> DEFINE g == Grafted(t, f, ids, keep)
<1>1. IsGrafted(t, R, f, ids, keep, g)
  BY ShapeGrafted
<1>a. g = Grafted(t, f, ids, keep)
  OBVIOUS
<1> HIDE DEF g
<1>2. Shape(g, R \cup {ids[1]}) /\ Attached(g) = Attached(t)
  BY <1>1 DEF IsGrafted
<1>3. p \in Sections \cup Attached(g) /\ ids[1] \in R \cup {ids[1]}
  BY <1>2
<1>4. LET u == Pasted(g, ids[1], p, under5) IN
      Joins(g, R \cup {ids[1]}, p, ids[1], u) /\ u.tb = g.tb
  BY <1>2, <1>3, JoinsPasted
<1>5. Pastes(t, R, f, ids, keep, p, Pasted(g, ids[1], p, under5))
  BY <1>1, <1>a, <1>3, <1>4 DEF Pastes
<1> QED BY <1>5, <1>a

\* A paste keeps the shape and the tree, and uses its own identifiers only.
LEMMA PastesKeep ==
    ASSUME NEW t, NEW R, Shape(t, R), NEW f \in Fragments, NEW ids, NEW keep, NEW p, NEW u,
           Pastes(t, R, f, ids, keep, p, u)
    PROVE  /\ Shape(u, R) /\ Numbered(u) /\ Carries(t, u)
           /\ \A y \in Nodes : y \notin {ids[i] : i \in 1 .. Len(f)} /\ t.kind[y] = "none" => u.kind[y] = "none"
<1> DEFINE here == {i \in DOMAIN f : i = 1 \/ keep \/ f[i].kind \notin RiskKinds}
           G == {ids[i] : i \in here}
<1>1. PICK g : /\ IsGrafted(t, R, f, ids, keep, g)
               /\ Joins(g, R \cup {ids[1]}, p, ids[1], u)
               /\ p \in Sections \cup Attached(g)
  BY DEF Pastes
<1>2. /\ Shape(g, R \cup {ids[1]}) /\ ids[1] \notin R
      /\ \A q \in Parents \ G : g.kind[q] = t.kind[q]
  BY <1>1 DEF IsGrafted
<1>3. Agrees(t, g) /\ ids[1] \in R \cup {ids[1]}
  BY <1>1, GraftedAgrees
<1>4. IsJoined(g, R \cup {ids[1]}, p, ids[1], u)
  BY <1>1, <1>2, <1>3, JoinsFacts
<1>5. (R \cup {ids[1]}) \ {ids[1]} = R
  BY <1>2
<1>6. Shape(u, R) /\ Numbered(u) /\ u.kind = g.kind
  BY <1>4, <1>5 DEF IsJoined
<1>7. Carries(t, u)
  BY <1>1, <1>2, <1>3, JoinsCarries
<1>8. here \subseteq 1 .. Len(f)
  BY FragmentRules
<1>9. ASSUME NEW y \in Nodes, y \notin {ids[i] : i \in 1 .. Len(f)}, t.kind[y] = "none" PROVE u.kind[y] = "none"
  <2>1. y \in Parents \ G
    BY <1>8, <1>9, ParentsNodes
  <2> QED BY <2>1, <1>2, <1>6, <1>9
<1> QED BY <1>6, <1>7, <1>9

\* The identifiers that are left after a paste.
LEMMA RoomAfter ==
    ASSUME NEW S, IsFiniteSet(S), NEW m \in Nat, NEW ids \in [1 .. m -> S], NEW T, IsFiniteSet(T),
           \A y \in S : y \notin {ids[i] : i \in 1 .. m} => y \in T,
           NEW n \in Nat, m + n <= Cardinality(S)
    PROVE  n <= Cardinality(T)
<1> DEFINE X == {ids[i] : i \in 1 .. m}
<1>1. IsFiniteSet(X) /\ Cardinality(X) <= m
  <2>1. \A i \in 1 .. m : ids[i] \in S
    OBVIOUS
  <2>2. X \in SUBSET S
    BY <2>1
  <2>3. ids \in Surjection(1 .. m, X)
    BY DEF Surjection
  <2>4. ExistsSurjection(1 .. m, X)
    BY <2>3 DEF ExistsSurjection
  <2>5. IsFiniteSet(X)
    BY <2>2, FS_Subset
  <2> HIDE DEF X
  <2> QED BY <2>4, <2>5, FS_SurjCardinalityBound
<1>2. IsFiniteSet(X)
  BY <1>1
<1>3. Cardinality(X) \in Nat /\ Cardinality(S) \in Nat
  BY <1>2, FS_CardinalityType
<1>4. S \ X \subseteq T
  OBVIOUS
<1> HIDE DEF X
<1>5. n + Cardinality(X) <= Cardinality(S)
  BY <1>1, <1>2, <1>3
<1> QED BY <1>2, <1>4, <1>5, RoomKept

\* pasteInto pastes what PasteAllowed allowed.
LEMMA PasteIntoIs ==
    ASSUME IInv, NEW f \in Fragments, NEW p \in Here, NEW ids \in Identifiers(f), pasteInto(f, ids, p)
    PROVE  /\ Pastes(tree, Loosened(undo), f, ids, p = "s5" \/ isUnderSection5(tree, p), p, tree')
           /\ PasteAllowed(Grafted(tree, f, ids, p = "s5" \/ isUnderSection5(tree, p)), ids[1], p)
           /\ p \in Sections \cup Attached(tree) /\ IsItem(tree, p)
           /\ UNCHANGED <<undo, dialog, pasting>>
           /\ ids \in [1 .. Len(f) -> UnusedSet(tree, undo, pasting.target)] /\ IsInjective(ids)
           /\ Len(f) + Len(pasting.fragment) <= Cardinality(UnusedSet(tree, undo, pasting.target))
<1> DEFINE S == UnusedSet(tree, undo, pasting.target)
           under5 == p = "s5" \/ isUnderSection5(tree, p)
<1>1. /\ ids \in [1 .. Len(f) -> S] /\ IsInjective(ids)
      /\ Len(f) + Len(pasting.fragment) <= Cardinality(S)
  BY IdentifiersIs
<1>2. S \subseteq Nodes /\ \A y \in S : tree.kind[y] = "none"
  BY DEF UnusedSet
<1>3. Shape(tree, Loosened(undo)) /\ p \in Sections \cup Attached(tree)
  BY DEF IInv, Here, Placed
<1>4. /\ PasteAllowed(Grafted(tree, f, ids, under5), ids[1], p) /\ IsItem(tree, p)
      /\ tree' = Pasted(Grafted(tree, f, ids, under5), ids[1], p, under5)
      /\ UNCHANGED <<undo, dialog, pasting>>
  BY DEF pasteInto
<1> HIDE DEF S, under5
<1>5. ids \in [1 .. Len(f) -> Nodes] /\ \A i \in 1 .. Len(f) : tree.kind[ids[i]] = "none"
  BY <1>1, <1>2
<1>6. Pastes(tree, Loosened(undo), f, ids, under5, p, Pasted(Grafted(tree, f, ids, under5), ids[1], p, under5))
  BY <1>1, <1>3, <1>5, PastedIs
<1> QED BY <1>1, <1>3, <1>4, <1>6 DEF S, under5

\* A paste keeps the invariant.
LEMMA InvPasteInto ==
    ASSUME IInv, NEW f \in Fragments, NEW p \in Here, NEW ids \in Identifiers(f), pasteInto(f, ids, p)
    PROVE  IInv'
<1> DEFINE S == UnusedSet(tree, undo, pasting.target)
           T == UnusedSet(tree', undo, pasting.target)
           keep == p = "s5" \/ isUnderSection5(tree, p)
           R == Loosened(undo)
<1>1. /\ Pastes(tree, R, f, ids, keep, p, tree')
      /\ UNCHANGED <<undo, dialog, pasting>>
      /\ ids \in [1 .. Len(f) -> S]
      /\ Len(f) + Len(pasting.fragment) <= Cardinality(S)
  BY PasteIntoIs
<1> HIDE DEF keep
<1>2. /\ Shape(tree, R) /\ StackOK(undo) /\ DialogOK(tree, dialog)
      /\ (pasting = NoPaste \/ pasting.fragment \in Fragments)
  BY DEF IInv, PasteOK
<1>3. /\ Shape(tree', R) /\ Numbered(tree') /\ Carries(tree, tree')
      /\ \A y \in Nodes : y \notin {ids[i] : i \in 1 .. Len(f)} /\ tree.kind[y] = "none" => tree'.kind[y] = "none"
  BY <1>1, <1>2, PastesKeep
<1>4. \A y \in S : y \notin {ids[i] : i \in 1 .. Len(f)} => y \in T
  BY <1>3 DEF UnusedSet
<1>5. IsFiniteSet(S) /\ IsFiniteSet(T)
  BY UnusedIs
<1>6. Len(f) \in Nat /\ Len(pasting.fragment) \in Nat
  BY <1>2, FragmentLength, FragmentRules
<1> HIDE DEF S, T
<1>7. Len(pasting.fragment) <= Cardinality(T)
  BY <1>1, <1>4, <1>5, <1>6, RoomAfter
<1>8. PasteOK(tree', undo, pasting)
  BY <1>2, <1>7 DEF PasteOK, T
<1>9. DialogOK(tree', dialog)
  BY <1>2, <1>3, DialogKept
<1> QED BY <1>1, <1>2, <1>3, <1>8, <1>9 DEF IInv, R

\* A paste that starts to wait keeps the invariant.
LEMMA InvPasteWaits ==
    ASSUME IInv, NEW f \in Fragments, NEW p \in Here, NEW ids \in Identifiers(f), PasteWaits(f, ids, p)
    PROVE  IInv'
<1>1. pasting = NoPaste /\ UNCHANGED <<tree, undo, dialog>>
      /\ pasting'.fragment = f /\ pasting'.target = p
  BY DEF PasteWaits
<1>2. /\ Shape(tree, Loosened(undo)) /\ Numbered(tree) /\ StackOK(undo) /\ DialogOK(tree, dialog)
  BY DEF IInv
<1> DEFINE S == UnusedSet(tree, undo, pasting.target)
           T == UnusedSet(tree, undo, p)
<1>3. Len(f) + Len(pasting.fragment) <= Cardinality(S)
  BY IdentifiersIs
<1>4. Len(pasting.fragment) = 0
  BY <1>1 DEF NoPaste
<1>5. \A y \in S : tree.kind[y] = "none" /\ y \in Nodes /\ \A i \in DOMAIN undo : undo[i].parent # y
  BY DEF UnusedSet
<1>6. p \notin S
  <2>1. p \in Sections \cup Attached(tree)
    BY DEF Here, Placed
  <2> QED BY <2>1, <1>2, <1>5, ParentsNodes DEF Shape, Alive
<1>7. S \subseteq T
  BY <1>5, <1>6 DEF UnusedSet
<1>8. IsFiniteSet(S) /\ IsFiniteSet(T) /\ Cardinality(S) \in Nat /\ Cardinality(T) \in Nat
  BY UnusedIs
<1>9. Len(f) \in Nat
  BY FragmentRules
<1> HIDE DEF S, T
<1>10. Cardinality(S) <= Cardinality(T)
  BY <1>7, <1>8, FS_Subset
<1>11. Len(f) <= Cardinality(T)
  BY <1>3, <1>4, <1>8, <1>9, <1>10
<1>12. PasteOK(tree, undo, pasting')
  BY <1>1, <1>11 DEF PasteOK, T
<1> QED BY <1>1, <1>2, <1>12 DEF IInv

\* The paste that waited: into the tree, or nowhere.
LEMMA PasteFinishesIs ==
    ASSUME IInv, PasteFinishes
    PROVE  LET f == pasting.fragment
               ids == SubSeq(Unused, 1, Len(f)) IN
           /\ f \in Fragments /\ pasting' = NoPaste /\ UNCHANGED <<undo, dialog>>
           /\ \/ tree' = tree
              \/ /\ Pastes(tree, Loosened(undo), f, ids, pasting.under5, pasting.target, tree')
                 /\ pasting.target \in Sections \cup Attached(tree)
<1> DEFINE f == pasting.fragment
           ids == SubSeq(Unused, 1, Len(f))
           p == pasting.target
           k == pasting.under5
           S == UnusedSet(tree, undo, pasting.target)
<1>1. /\ pasting # NoPaste /\ pasting' = NoPaste /\ UNCHANGED <<undo, dialog>>
      /\ tree' = IF p \in Sections \cup Attached(tree)
                  THEN Pasted(Grafted(tree, f, ids, k), ids[1], p, k)
                  ELSE tree
  BY DEF PasteFinishes
<1>2. f \in Fragments /\ Len(f) <= Cardinality(S) /\ Shape(tree, Loosened(undo))
  BY <1>1 DEF IInv, PasteOK
<1>3. Unused = SetToSeq(S) /\ IsFiniteSet(S) /\ S \subseteq Nodes
  BY UnusedIs
<1>4. \A y \in S : tree.kind[y] = "none"
  BY DEF UnusedSet
<1>5. Len(f) \in Nat
  BY <1>2, FragmentRules
<1> HIDE DEF S
<1>6. ids \in [1 .. Len(f) -> S] /\ IsInjective(ids)
  BY <1>2, <1>3, <1>5, TakenIds
<1> HIDE DEF ids, f, p, k
<1>7. ids \in [1 .. Len(f) -> Nodes] /\ \A i \in 1 .. Len(f) : tree.kind[ids[i]] = "none"
  BY <1>3, <1>4, <1>6
<1>8. ASSUME p \in Sections \cup Attached(tree)
      PROVE  Pastes(tree, Loosened(undo), f, ids, k, p, tree')
  <2>1. Pastes(tree, Loosened(undo), f, ids, k, p, Pasted(Grafted(tree, f, ids, k), ids[1], p, k))
    BY <1>2, <1>6, <1>7, <1>8, PastedIs
  <2> QED BY <2>1, <1>1, <1>8
<1> QED BY <1>1, <1>2, <1>8 DEF ids, f, p, k

\* A paste that waited keeps the invariant.
LEMMA InvPasteFinishes ==
    ASSUME IInv, PasteFinishes
    PROVE  IInv'
<1> DEFINE f == pasting.fragment
           ids == SubSeq(Unused, 1, Len(f))
           R == Loosened(undo)
<1>1. /\ f \in Fragments /\ pasting' = NoPaste /\ UNCHANGED <<undo, dialog>>
      /\ \/ tree' = tree
         \/ Pastes(tree, R, f, ids, pasting.under5, pasting.target, tree')
  BY PasteFinishesIs
<1>2. /\ Shape(tree, R) /\ Numbered(tree) /\ StackOK(undo) /\ DialogOK(tree, dialog)
  BY DEF IInv
<1> HIDE DEF ids, f
<1>3. Shape(tree', R) /\ Numbered(tree') /\ DialogOK(tree', dialog)
  <2>1. CASE tree' = tree
    BY <2>1, <1>2
  <2>2. CASE Pastes(tree, R, f, ids, pasting.under5, pasting.target, tree')
    <3>1. Shape(tree', R) /\ Numbered(tree') /\ Carries(tree, tree')
      BY <2>2, <1>1, <1>2, PastesKeep
    <3> QED BY <3>1, <1>2, DialogKept
  <2> QED BY <2>1, <2>2, <1>1
<1>4. PasteOK(tree', undo, pasting')
  BY <1>1, NoPasteOK
<1> QED BY <1>1, <1>2, <1>3, <1>4 DEF IInv, R

-----------------------------------------------------------------------------
(* The steps that only open or close a dialog, or set a bank.              *)

\* A paste that fails keeps the invariant.
LEMMA InvPasteFails ==
    ASSUME IInv, PasteFails
    PROVE  IInv'
<1>1. pasting' = NoPaste /\ UNCHANGED <<tree, undo, dialog>>
  BY DEF PasteFails
<1>2. PasteOK(tree, undo, pasting')
  BY <1>1, NoPasteOK
<1> QED BY <1>1, <1>2 DEF IInv

\* A cancelled move keeps the invariant.
LEMMA InvCancelled ==
    ASSUME IInv, DialogCancelled
    PROVE  IInv'
BY DEF DialogCancelled, IInv, DialogOK

\* The warning that opens keeps the invariant.
LEMMA InvWarning ==
    ASSUME IInv, NEW p \in Placed, NEW kind \in RiskKinds, _showRiskLevelWarning(p, kind)
    PROVE  IInv'
<1>1. /\ dialog'.op = "risk" /\ dialog'.node = p /\ dialog'.kind = kind /\ UNCHANGED <<tree, undo, pasting>>
      /\ IsItem(tree, p) /\ p \in Attached(tree)
  BY DEF _showRiskLevelWarning, _isRiskTableAllowedForNode, isUnderSection5, Placed
<1>a. tree.level[p] >= 1
  BY DEF _showRiskLevelWarning, _isRiskTableAllowedForNode, isUnderSection5
<1>b. p \in Under(tree)["s5"] \/ MixedContent(tree)
  <2>1. Shape(tree, Loosened(undo)) /\ Numbered(tree)
    BY DEF IInv
  <2> QED BY <2>1, <1>1, <1>a, LevelSide
<1>2. DialogOK(tree, dialog')
  BY <1>1, <1>b DEF DialogOK
<1> QED BY <1>1, <1>2 DEF IInv

\* The question about the summary keeps the invariant.
LEMMA InvAsked ==
    ASSUME IInv, NEW x \in Placed, NEW target \in Here, NEW position \in Positions,
           _checkMetricsTableDeletion(x, target, position)
    PROVE  IInv'
<1>1. /\ dialog'.op = "move" /\ dialog'.node = x /\ dialog'.target = target /\ UNCHANGED <<tree, undo, pasting>>
      /\ x \in Attached(tree) /\ target \in Sections \cup Attached(tree) /\ target \notin Below(tree, x)
      /\ tree.kind[x] \notin RiskKinds
  BY DEF _checkMetricsTableDeletion, CanDrop, IsRisk, Placed, Here
<1>2. DialogOK(tree, dialog')
  BY <1>1 DEF DialogOK
<1> QED BY <1>1, <1>2 DEF IInv

\* The banks of a leaf.
LEMMA SetTbIs ==
    ASSUME IInv, NEW x \in Placed, setNodeTb(x)
    PROVE  /\ tree'.kids = tree.kids /\ tree'.kind = tree.kind /\ tree'.level = tree.level
           /\ tree'.summary = tree.summary /\ tree'.main = tree.main /\ tree'.tb \subseteq tree.tb \cup {x}
           /\ Shape(tree', Loosened(undo)) /\ Numbered(tree') /\ isTbLeaf(tree, x) /\ Free
           /\ UNCHANGED <<undo, dialog, pasting>>
<1>1. /\ Free /\ isTbLeaf(tree, x) /\ UNCHANGED <<undo, dialog, pasting>>
      /\ tree' = [tree EXCEPT !.tb = IF x \in @ THEN @ \ {x} ELSE @ \cup {x}]
  BY DEF setNodeTb
<1>2. Shape(tree, Loosened(undo)) /\ Numbered(tree) /\ Wired(tree) /\ tree \in TreeType /\ x \in Parents
  BY AttachedIs, ParentsNodes DEF IInv, Shape, Wired, Placed
<1>3. IsItem(tree, x)
  BY <1>1 DEF isTbLeaf, isUnderSection5
<1> DEFINE banks == IF x \in tree.tb THEN tree.tb \ {x} ELSE tree.tb \cup {x}
<1>4. banks \subseteq tree.tb \cup {x} /\ banks \in SUBSET Parents
  <2>1. tree.tb \in SUBSET Parents
    BY <1>2, TreeFields
  <2> QED BY <2>1, <1>2
<1>5. tree' = [tree EXCEPT !.tb = banks]
  BY <1>1
<1> HIDE DEF banks
<1>6. /\ tree' \in TreeType /\ tree'.kids = tree.kids /\ tree'.kind = tree.kind /\ tree'.level = tree.level
      /\ tree'.summary = tree.summary /\ tree'.main = tree.main /\ tree'.tb = banks
  BY <1>2, <1>4, <1>5 DEF TreeType
<1>7. Shape(tree', Loosened(undo))
  <2>1. \A y \in tree'.summary \cup tree'.tb : IsItem(tree, y)
    BY <1>2, <1>3, <1>4, <1>6, MarkedItems
  <2> QED BY <2>1, <1>2, <1>6, ShapeMarked
<1>8. Numbered(tree')
  <2>1. Wired(tree')
    BY <1>7 DEF Shape
  <2> QED BY <2>1, <1>2, <1>6, NumberedFrame
<1> QED BY <1>1, <1>4, <1>6, <1>7, <1>8

\* A bank keeps the invariant.
LEMMA InvSetTb ==
    ASSUME IInv, NEW x \in Placed, setNodeTb(x)
    PROVE  IInv'
<1>1. /\ tree'.kind = tree.kind /\ Shape(tree', Loosened(undo)) /\ Numbered(tree') /\ Free
      /\ UNCHANGED <<undo, dialog, pasting>>
  BY SetTbIs
<1> QED BY <1>1, InvMoved DEF Free

\* The warning was read.
LEMMA RiskReadIs ==
    ASSUME IInv, NEW x \in Fresh, RiskLevelWarningRead(x)
    PROVE  /\ dialog.node \in Attached(tree) /\ IsItem(tree, dialog.node) /\ dialog.kind \in RiskKinds
           /\ \/ tree' = tree
              \/ /\ canAddContent(tree, dialog.node, "table")
                 /\ Adds(tree, Loosened(undo), dialog.node, x, dialog.kind, tree') /\ tree'.main
           /\ dialog' = NoDialog /\ UNCHANGED <<undo, pasting>>
<1>1. /\ dialog.op = "risk" /\ dialog' = NoDialog /\ UNCHANGED <<undo, pasting>>
      /\ \/ tree' = tree
         \/ canAddContent(tree, dialog.node, "table") /\ CreateRiskTable(dialog.node, dialog.kind, x)
  BY DEF RiskLevelWarningRead
<1>2. dialog.node \in Attached(tree) /\ IsItem(tree, dialog.node) /\ dialog.kind \in RiskKinds
  <2>1. DialogOK(tree, dialog)
    BY DEF IInv
  <2> QED BY <2>1, <1>1 DEF DialogOK, NoDialog
<1>3. ASSUME CreateRiskTable(dialog.node, dialog.kind, x)
      PROVE  Adds(tree, Loosened(undo), dialog.node, x, dialog.kind, tree') /\ tree'.main
  <2>1. dialog.node \in Sections \cup Attached(tree)
    BY <1>2
  <2>2. dialog.kind \in RiskKinds
    BY <1>2
  <2> QED BY <2>1, <2>2, <1>3, CreateRiskTableIs
<1> QED BY <1>1, <1>2, <1>3

\* The risk table after the warning keeps the invariant.
LEMMA InvRiskRead ==
    ASSUME IInv, NEW x \in Fresh, RiskLevelWarningRead(x)
    PROVE  IInv'
<1>1. /\ dialog.node \in Attached(tree)
      /\ \/ tree' = tree
         \/ Adds(tree, Loosened(undo), dialog.node, x, dialog.kind, tree')
      /\ dialog' = NoDialog /\ UNCHANGED <<undo, pasting>>
  BY RiskReadIs
<1>2. CASE tree' = tree
  <2>1. Shape(tree', Loosened(undo)) /\ Numbered(tree') /\ tree'.kind = tree.kind
    BY <1>2 DEF IInv
  <2> QED BY <2>1, <1>1, InvMoved
<1>3. CASE Adds(tree, Loosened(undo), dialog.node, x, dialog.kind, tree')
  <2>1. Shape(tree, Loosened(undo)) /\ dialog.node \in Sections \cup Attached(tree)
    BY <1>1 DEF IInv
  <2> QED BY <2>1, <1>1, <1>3, InvAdded
<1> QED BY <1>1, <1>2, <1>3

\* _handleRiskTableAction adds one risk table.
LEMMA RiskActionIs ==
    ASSUME IInv, NEW p \in Placed, NEW kind \in RiskKinds, NEW x \in Fresh, _handleRiskTableAction(p, kind, x)
    PROVE  /\ p \in Attached(tree) /\ _isRiskTableAllowedForNode(tree, p, kind) /\ canAddContent(tree, p, "table")
           /\ Adds(tree, Loosened(undo), p, x, kind, tree') /\ tree'.main
           /\ UNCHANGED <<undo, dialog, pasting>> /\ Free
<1>1. /\ p \in Attached(tree) /\ _isRiskTableAllowedForNode(tree, p, kind) /\ CreateRiskTable(p, kind, x)
      /\ UNCHANGED <<undo, dialog, pasting>> /\ Free
  BY DEF _handleRiskTableAction, Placed
<1>2. canAddContent(tree, p, "table")
  BY <1>1 DEF CreateRiskTable
<1>3. Adds(tree, Loosened(undo), p, x, kind, tree') /\ tree'.main
  BY <1>1, CreateRiskTableIs
<1> QED BY <1>1, <1>2, <1>3

-----------------------------------------------------------------------------
(* The invariant holds.                                                    *)

\* Every step keeps the invariant.
LEMMA NextInv == IInv /\ [Next]_vars => IInv'
<1> SUFFICES ASSUME IInv, [Next]_vars PROVE IInv'
  OBVIOUS
<1>1. ASSUME NEW p \in Here, NEW x \in Fresh, handleAddChild(p, x) PROVE IInv'
  <2>1. PICK t : /\ Shape(t, Loosened(undo)) /\ t.kind = tree.kind
                 /\ Adds(t, Loosened(undo), p, x, "item", tree') /\ p \in Sections \cup Attached(t)
    BY <1>1, AddChildIs
  <2>2. UNCHANGED <<undo, dialog, pasting>> /\ dialog = NoDialog
    BY <1>1 DEF handleAddChild, Free
  <2> QED BY <2>1, <2>2, InvAdded
<1>2. ASSUME NEW p \in Here, NEW x \in Fresh, NEW i \in 0 .. Len(tree.kids[p]), handleAddSibling(p, i, x) PROVE IInv'
  <2>1. Adds(tree, Loosened(undo), p, x, "item", tree')
    BY <1>2, AddSiblingIs
  <2>2. UNCHANGED <<undo, dialog, pasting>> /\ dialog = NoDialog
    BY <1>2 DEF handleAddSibling, Free
  <2>3. Shape(tree, Loosened(undo)) /\ p \in Sections \cup Attached(tree)
    BY DEF IInv, Here, Placed
  <2> QED BY <2>1, <2>2, <2>3, InvAdded
<1>3. ASSUME NEW p \in Here, NEW x \in Fresh, NEW kind \in Kinds \ RiskKinds, AddContent(p, kind, x) PROVE IInv'
  <2>1. Adds(tree, Loosened(undo), p, x, kind, tree')
    BY <1>3, AddContentIs
  <2>2. UNCHANGED <<undo, dialog, pasting>> /\ dialog = NoDialog
    BY <1>3 DEF AddContent, Free
  <2>3. Shape(tree, Loosened(undo)) /\ p \in Sections \cup Attached(tree)
    BY DEF IInv, Here, Placed
  <2> QED BY <2>1, <2>2, <2>3, InvAdded
<1>4. ASSUME NEW p \in Placed, NEW x \in Fresh, NEW kind \in Kinds \cap RiskKinds, _handleRiskTableAction(p, kind, x) PROVE IInv'
  <2>1. /\ p \in Attached(tree) /\ Adds(tree, Loosened(undo), p, x, kind, tree')
        /\ UNCHANGED <<undo, dialog, pasting>> /\ Free
    BY <1>4, RiskActionIs
  <2>2. Shape(tree, Loosened(undo)) /\ p \in Sections \cup Attached(tree) /\ dialog' = NoDialog
    BY <2>1 DEF IInv, Free
  <2> QED BY <2>1, <2>2, InvAdded
<1>5. ASSUME NEW p \in Placed, NEW kind \in Kinds \cap RiskKinds, _showRiskLevelWarning(p, kind) PROVE IInv'
  BY <1>5, InvWarning
<1>6. ASSUME NEW x \in Fresh, RiskLevelWarningRead(x) PROVE IInv'
  BY <1>6, InvRiskRead
<1>7. ASSUME NEW x \in Placed, setNodeTb(x) PROVE IInv'
  BY <1>7, InvSetTb
<1>8. ASSUME NEW x \in Placed, deleteNode(x) PROVE IInv'
  BY <1>8, InvDelete
<1>9. CASE undoLast
  BY <1>9, InvUndo
<1>10. ASSUME NEW x \in Placed, NEW target \in Here, NEW position \in Positions, moveNode(x, target, position)
       PROVE  IInv'
  <2>1. Moves(tree, Loosened(undo), x, _determineNewParent(tree, target, position), tree')
    BY <1>10, MoveNodeIs
  <2>2. Shape(tree, Loosened(undo)) /\ x \in Attached(tree)
    BY DEF IInv, Placed
  <2>3. Shape(tree', Loosened(undo)) /\ Numbered(tree') /\ tree'.kind = tree.kind
    BY <2>1, <2>2, MovesKeep
  <2>4. UNCHANGED <<undo, pasting>> /\ dialog' = NoDialog
    BY <1>10 DEF moveNode, Free
  <2> QED BY <2>3, <2>4, InvMoved
<1>11. ASSUME NEW x \in Placed, NEW target \in Here, NEW position \in Positions,
              _checkMetricsTableDeletion(x, target, position)
       PROVE  IInv'
  BY <1>11, InvAsked
<1>12. CASE MoveConfirmed
  <2> DEFINE t == [tree EXCEPT !.summary = @ \ {dialog.node}]
             p == _determineNewParent(t, dialog.target, dialog.position)
  <2>1. /\ Shape(t, Loosened(undo)) /\ Numbered(t) /\ t.kind = tree.kind /\ dialog.node \in Attached(t)
        /\ (tree' = t \/ Moves(t, Loosened(undo), dialog.node, p, tree'))
    BY <1>12, MoveConfirmedIs
  <2> HIDE DEF t, p
  <2>2. Shape(tree', Loosened(undo)) /\ Numbered(tree') /\ tree'.kind = tree.kind
    <3>1. CASE tree' = t
      BY <3>1, <2>1
    <3>2. CASE Moves(t, Loosened(undo), dialog.node, p, tree')
      BY <3>2, <2>1, MovesKeep
    <3> QED BY <3>1, <3>2, <2>1
  <2>3. UNCHANGED <<undo, pasting>> /\ dialog' = NoDialog
    BY <1>12 DEF MoveConfirmed
  <2> QED BY <2>2, <2>3, InvMoved
<1>13. CASE DialogCancelled
  BY <1>13, InvCancelled
<1>14. ASSUME NEW f \in Fragments, NEW p \in Here, NEW ids \in Identifiers(f), pasteInto(f, ids, p) PROVE IInv'
  BY <1>14, InvPasteInto
<1>15. ASSUME NEW f \in Fragments, NEW p \in Here, NEW ids \in Identifiers(f), PasteWaits(f, ids, p) PROVE IInv'
  BY <1>15, InvPasteWaits
<1>16. CASE PasteFinishes
  BY <1>16, InvPasteFinishes
<1>17. CASE PasteFails
  BY <1>17, InvPasteFails
<1>18. CASE UNCHANGED vars
  BY <1>18 DEF vars, IInv
<1> QED BY <1>1, <1>2, <1>3, <1>4, <1>5, <1>6, <1>7, <1>8, <1>9, <1>10, <1>11, <1>12, <1>13, <1>14, <1>15,
           <1>16, <1>17, <1>18 DEF Next

\* The invariant holds.
THEOREM Structure == Spec => []IInv
<1> QED BY InitInv, NextInv, PTL DEF Spec

\* Every node in use is in the tree or in a snapshot that can be taken back,
\* each but the roots below one parent, and only points are numbered.
LEMMA InvType == IInv => TypeOK
<1> SUFFICES ASSUME IInv PROVE TypeOK
  OBVIOUS
<1> DEFINE R == Loosened(undo)
           alive == Attached(tree) \cup Kept(tree, undo)
           above(x) == {p \in Parents : x \in Children(tree, p)}
<1>1. Shape(tree, R) /\ Wired(tree) /\ OnlyPoints(tree) /\ tree \in TreeType /\ StackOK(undo)
  BY DEF IInv, Shape, Wired
<1>2. alive = Alive(tree, R) /\ R = {undo[i].node : i \in DOMAIN undo}
  BY KeptIs DEF Alive, Loosened
<1>3. Loose(tree, R) /\ \A x \in Nodes : tree.kind[x] # "none" <=> x \in Alive(tree, R)
  BY <1>1 DEF Shape
<1> HIDE DEF R, alive
<1>4. Len(undo) <= UndoDepth
  BY <1>1 DEF StackOK
<1>5. ASSUME NEW x \in Nodes
      PROVE  tree.kind[x] \in (IF x \in alive THEN {"item", "table", "violation"} \cup RiskKinds ELSE {"none"})
  <2>1. tree.kind[x] \in KindSet
    BY <1>1, TreeFields, ParentsNodes
  <2> QED BY <2>1, <1>2, <1>3 DEF KindSet
<1>6. ASSUME NEW x \in Nodes
      PROVE  Cardinality(above(x)) = IF x \in Attached(tree) \/ x \in alive \ R THEN 1 ELSE 0
  <2>1. ASSUME NEW p, above(x) = {p} PROVE Cardinality(above(x)) = 1
    BY <2>1, FS_Singleton
  <2>2. CASE x \in Attached(tree)
    <3>1. above(x) = {Parent(tree, x)}
      BY <2>2, <1>1, AttachedUp
    <3> QED BY <2>1, <2>2, <3>1
  <2>3. CASE x \notin Attached(tree) /\ x \in alive \ R
    <3>1. PICK r \in R : x \in Below(tree, r)
      BY <2>3, <1>2 DEF Alive, BelowAll
    <3>2. r \in Parents /\ x \in Under(tree)[r]
      BY <3>1, <2>3, <1>3, ParentsNodes DEF Below, Loose
    <3>3. above(x) = {Parent(tree, x)}
      BY <3>2, <1>1, ParentOf
    <3> QED BY <2>1, <2>3, <3>3
  <2>4. CASE ~(x \in Attached(tree) \/ x \in alive \ R)
    <3>1. SUFFICES above(x) = {}
      BY <2>4, FS_EmptySet
    <3>2. ASSUME NEW p \in above(x) PROVE FALSE
      <4>1. x \in Alive(tree, R)
        BY <1>1, AliveDown
      <4>2. x \in R
        BY <4>1, <2>4, <1>2
      <4> QED BY <4>2, <1>3 DEF Loose
    <3> QED BY <3>2
  <2> QED BY <2>2, <2>3, <2>4
<1>7. \A x \in tree.summary \cup tree.tb : IsItem(tree, x)
  BY <1>1 DEF OnlyPoints
<1>8. \A x \in Nodes : tree.kind[x] # "item" => tree.level[x] = 0
  BY <1>1, ParentsNodes DEF OnlyPoints, IsItem
<1> QED BY <1>2, <1>4, <1>5, <1>6, <1>7, <1>8 DEF TypeOK, alive

\* TypeOK of ActTree holds in every state: no node of the tree or of a snapshot
\* (state-tree.js, state-undo-delete.js) is in two places, and none is lost.
THEOREM TypeCorrect == Spec => []TypeOK
<1> QED BY Structure, InvType, PTL

=============================================================================
