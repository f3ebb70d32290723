--------------------------- MODULE ActTree_proofs ---------------------------
(***************************************************************************)
(* What the invariant of ActTreeShape_proofs and its account of each       *)
(* action (Adds, Joins, Deletes, Moves, Pastes) give, for every set of     *)
(* nodes, depth, limit of blocks, undo depth and clipboard:                *)
(*   NodesKept     only a deletion takes nodes out of the tree;            *)
(*   LevelsAgree   the numbers follow the structure;                       *)
(*   BlocksStay    the limits of blocks are kept;                          *)
(*   TbStays       banks stay on the leaves of section 5;                  *)
(*   DepthStays    no point gets deeper than the numbering allows;         *)
(*   RisksStay     risk tables stay in section 5, on one side of its first *)
(*                 level;                                                  *)
(*   SummariesStay the summaries of section 5 follow its risks.            *)
(***************************************************************************)
EXTENDS ActTreeShape_proofs, FiniteSetTheorems, SequenceTheorems, TLAPS

-----------------------------------------------------------------------------

\* What stays in the tree, and that what is there keeps its kind.
LEMMA CarriesSubset ==
    ASSUME NEW t, NEW u, Carries(t, u)
    PROVE  Attached(t) \subseteq Attached(u)
BY DEF Carries

\* Every step but a deletion keeps the nodes of the tree.
LEMMA NextKeepsNodes ==
    ASSUME IInv, Next
    PROVE  Attached(tree) \subseteq Attached(tree') \/ \E x \in Placed : deleteNode(x)
<1> DEFINE R == Loosened(undo)
<1>0. Shape(tree, R) /\ Placed = Attached(tree) /\ Here = Sections \cup Attached(tree)
  BY DEF IInv, Placed, Here
<1>1. ASSUME NEW t, Shape(t, R), Attached(t) = Attached(tree), NEW p \in Sections \cup Attached(t), NEW x, NEW kind,
             Adds(t, R, p, x, kind, tree')
      PROVE  Attached(tree) \subseteq Attached(tree')
  BY <1>1, AddsKeep, CarriesSubset
<1>2. ASSUME tree'.kids = tree.kids PROVE Attached(tree) \subseteq Attached(tree')
  BY <1>2, SameWires
<1>3. ASSUME NEW p \in Here, NEW x \in Fresh, handleAddChild(p, x) PROVE Attached(tree) \subseteq Attached(tree')
  <2>1. PICK t : /\ Shape(t, R) /\ t.kids = tree.kids
                 /\ Adds(t, R, p, x, "item", tree') /\ p \in Sections \cup Attached(t)
    BY <1>3, AddChildIs
  <2>2. Attached(t) = Attached(tree)
    BY <2>1, SameWires
  <2> QED BY <2>1, <2>2, <1>1
<1>4. ASSUME NEW p \in Here, NEW x \in Fresh, NEW i \in 0 .. Len(tree.kids[p]), handleAddSibling(p, i, x)
      PROVE  Attached(tree) \subseteq Attached(tree')
  <2>1. Adds(tree, R, p, x, "item", tree')
    BY <1>4, AddSiblingIs
  <2> QED BY <2>1, <1>0, <1>1
<1>5. ASSUME NEW p \in Here, NEW x \in Fresh, NEW kind \in Kinds \ RiskKinds, AddContent(p, kind, x)
      PROVE  Attached(tree) \subseteq Attached(tree')
  <2>1. Adds(tree, R, p, x, kind, tree')
    BY <1>5, AddContentIs
  <2> QED BY <2>1, <1>0, <1>1
<1>6. ASSUME NEW p \in Placed, NEW x \in Fresh, NEW kind \in Kinds \cap RiskKinds,
             _handleRiskTableAction(p, kind, x)
      PROVE  Attached(tree) \subseteq Attached(tree')
  <2>1. p \in Attached(tree) /\ Adds(tree, R, p, x, kind, tree')
    BY <1>6, RiskActionIs
  <2> QED BY <2>1, <1>0, <1>1
<1>7. ASSUME NEW x \in Fresh, RiskLevelWarningRead(x) PROVE Attached(tree) \subseteq Attached(tree')
  <2>1. dialog.node \in Attached(tree) /\ (tree' = tree \/ Adds(tree, R, dialog.node, x, dialog.kind, tree'))
    BY <1>7, RiskReadIs
  <2> QED BY <2>1, <1>0, <1>1, <1>2
<1>8. ASSUME NEW x \in Placed, setNodeTb(x) PROVE Attached(tree) \subseteq Attached(tree')
  <2>1. tree'.kids = tree.kids
    BY <1>8, SetTbIs
  <2> QED BY <2>1, <1>2
<1>9. ASSUME undoLast PROVE Attached(tree) \subseteq Attached(tree')
  <2> DEFINE x == undo[Len(undo)].node
             p == undo[Len(undo)].parent
  <2>1. /\ x \in R
        /\ \/ p \in Sections \cup Attached(tree) /\ Joins(tree, R, p, x, tree')
           \/ IsTidied(tree, undo', tree')
    BY <1>9, UndoIs
  <2> HIDE DEF x, p, R
  <2>2. CASE p \in Sections \cup Attached(tree) /\ Joins(tree, R, p, x, tree')
    <3>1. Carries(tree, tree')
      BY <2>1, <2>2, <1>0, AgreesItself, JoinsCarries
    <3> QED BY <3>1, CarriesSubset
  <2>3. CASE IsTidied(tree, undo', tree')
    BY <2>3 DEF IsTidied
  <2> QED BY <2>1, <2>2, <2>3
<1>10. ASSUME NEW x \in Placed, NEW target \in Here, NEW position \in Positions, moveNode(x, target, position)
       PROVE  Attached(tree) \subseteq Attached(tree')
  <2>1. Moves(tree, R, x, _determineNewParent(tree, target, position), tree')
    BY <1>10, MoveNodeIs
  <2>2. Attached(tree') = Attached(tree)
    BY <2>1, <1>0, MovesKeep
  <2> QED BY <2>2
<1>11. ASSUME MoveConfirmed PROVE Attached(tree) \subseteq Attached(tree')
  <2> DEFINE t == [tree EXCEPT !.summary = @ \ {dialog.node}]
             p == _determineNewParent(t, dialog.target, dialog.position)
  <2>1. /\ Shape(t, R) /\ t.kids = tree.kids /\ dialog.node \in Attached(t)
        /\ (tree' = t \/ Moves(t, R, dialog.node, p, tree'))
    BY <1>11, MoveConfirmedIs
  <2> HIDE DEF t, p, R
  <2>2. Attached(t) = Attached(tree)
    BY <2>1, SameWires
  <2>3. CASE tree' = t
    BY <2>2, <2>3
  <2>4. CASE Moves(t, R, dialog.node, p, tree')
    <3>1. Attached(tree') = Attached(t)
      BY <2>1, <2>4, MovesKeep
    <3> QED BY <2>2, <3>1
  <2> QED BY <2>1, <2>3, <2>4
<1>12. ASSUME NEW f \in Fragments, NEW p \in Here, NEW ids \in Identifiers(f), pasteInto(f, ids, p)
       PROVE  Attached(tree) \subseteq Attached(tree')
  <2> DEFINE keep == p = "s5" \/ isUnderSection5(tree, p)
  <2>1. Pastes(tree, R, f, ids, keep, p, tree')
    BY <1>12, PasteIntoIs
  <2> HIDE DEF keep
  <2>2. Carries(tree, tree')
    BY <2>1, <1>0, PastesKeep
  <2> QED BY <2>2, CarriesSubset
<1>13. ASSUME PasteFinishes PROVE Attached(tree) \subseteq Attached(tree')
  <2> DEFINE f == pasting.fragment
             ids == SubSeq(Unused, 1, Len(f))
  <2>1. f \in Fragments /\ (tree' = tree \/ Pastes(tree, R, f, ids, pasting.under5, pasting.target, tree'))
    BY <1>13, PasteFinishesIs
  <2> HIDE DEF f, ids
  <2>2. CASE Pastes(tree, R, f, ids, pasting.under5, pasting.target, tree')
    <3>1. Carries(tree, tree')
      BY <2>1, <2>2, <1>0, PastesKeep
    <3> QED BY <3>1, CarriesSubset
  <2> QED BY <2>1, <2>2, <1>2
<1>14. ASSUME UNCHANGED tree PROVE Attached(tree) \subseteq Attached(tree')
  BY <1>14, <1>2
<1>15. CASE \E p \in Placed : \E kind \in Kinds \cap RiskKinds : _showRiskLevelWarning(p, kind)
  BY <1>15, <1>14 DEF _showRiskLevelWarning
<1>16. CASE \E x \in Placed, target \in Here, position \in Positions : _checkMetricsTableDeletion(x, target, position)
  BY <1>16, <1>14 DEF _checkMetricsTableDeletion
<1>17. CASE DialogCancelled
  BY <1>17, <1>14 DEF DialogCancelled
<1>18. CASE \E f \in Fragments, p \in Here : \E ids \in Identifiers(f) : PasteWaits(f, ids, p)
  BY <1>18, <1>14 DEF PasteWaits
<1>19. CASE PasteFails
  BY <1>19, <1>14 DEF PasteFails
<1> HIDE DEF R
<1> QED BY <1>3, <1>4, <1>5, <1>6, <1>7, <1>8, <1>9, <1>10, <1>11, <1>12, <1>13, <1>15, <1>16, <1>17, <1>18,
           <1>19 DEF Next

\* No sequence of moves, undos and pastes cuts a branch off: only a deletion
\* takes nodes out of the tree.
THEOREM NodesKept == Spec => NoNodeLost
<1>1. IInv /\ [Next]_vars =>
        [Attached(tree) \subseteq Attached(tree') \/ \E x \in Placed : deleteNode(x)]_vars
  BY NextKeepsNodes
<1> QED BY <1>1, Structure, PTL DEF Spec, NoNodeLost

\* What lies between two points of which one hangs below the other through
\* points hangs so too.
LEMMA PointsPath ==
    ASSUME NEW t, Wired(t), NEW p \in Parents, NEW x \in PointsUnder(t)[p],
           NEW a \in Under(t)[p], x \in Under(t)[a]
    PROVE  a \in PointsUnder(t)[p] /\ x \in PointsUnder(t)[a]
<1> DEFINE D == Under(t)
           P == PointsUnder(t)
           S == {y \in P[p] : \A b \in D[p] : y \in D[b] => b \in P[p] /\ y \in P[b]}
           next == ItemGraph(t)
<1>1. /\ t \in TreeType /\ next \in Graph /\ P = Descendants(next) /\ Grounded(next)
      /\ \A q \in Parents : next[q] = Items(t, q) /\ Items(t, q) \subseteq Children(t, q)
  BY ChildrenType, PointsRules DEF Wired
<1>2. /\ \A q \in Parents : P[q] \subseteq D[q] /\ Items(t, q) \subseteq P[q] /\ P[q] \subseteq Parents /\ D[q] \subseteq Parents
      /\ \A q \in Parents : \A y \in P[q] : Items(t, y) \subseteq P[q]
  BY PointsRules, UnderRules, ParentsNodes
<1>3. /\ \A q \in Parents : q \notin D[q] /\ \A y \in D[q] : D[y] \subseteq D[q]
      /\ \A q, r \in Parents : \A y \in Children(t, r) : y \in D[q] => r = q \/ r \in D[q]
  BY UnderRules
<1> HIDE DEF D, P, next
<1>4. next[p] \subseteq S
  <2>1. ASSUME NEW y \in Items(t, p) PROVE y \in S
    <3>1. ASSUME NEW b \in D[p], y \in D[b] PROVE FALSE
      <4>1. b \in Parents /\ y \in Children(t, p)
        BY <1>1, <1>2
      <4>2. p = b \/ p \in D[b]
        BY <4>1, <3>1, <1>3
      <4> QED BY <4>1, <4>2, <1>3
    <3> QED BY <3>1, <1>2
  <2> QED BY <2>1, <1>1
<1>5. ASSUME NEW y \in S PROVE next[y] \subseteq S
  <2>0. y \in Parents /\ y \in P[p]
    BY <1>2
  <2>1. ASSUME NEW z \in Items(t, y) PROVE z \in S
    <3>1. z \in P[p]
      BY <2>0, <1>2
    <3>2. ASSUME NEW b \in D[p], z \in D[b] PROVE b \in P[p] /\ z \in P[b]
      <4>1. b \in Parents /\ z \in Children(t, y)
        BY <2>0, <1>1, <1>2
      <4>2. y = b \/ y \in D[b]
        BY <4>1, <2>0, <3>2, <1>3
      <4> QED BY <4>1, <4>2, <2>0, <1>2
    <3> QED BY <3>1, <3>2
  <2> QED BY <2>0, <2>1, <1>1
<1>6. S \in SUBSET Parents
  BY <1>2
<1> HIDE DEF S
<1>7. P[p] \subseteq S
  BY <1>1, <1>4, <1>5, <1>6, DescendantsLeast
<1> QED BY <1>7 DEF S, P, D

\* The numbers and the structure agree.
LEMMA InvLevels == IInv => LevelsFollow
<1> SUFFICES ASSUME IInv, NEW x \in Nodes, x \in PointsBelow(tree, "s5")
             PROVE  tree.level[x] = getNodeDepth(tree, x) - 1
  BY DEF LevelsFollow
<1> DEFINE in5 == PointsBelow(tree, "s5")
           A == {a \in Parents : x \in Under(tree)[a]}
           B == {a \in in5 : x \in PointsBelow(tree, a)}
<1>1. Wired(tree) /\ Numbered(tree)
  BY DEF IInv, Shape
<1>2. tree.level[x] = 1 + Cardinality(B)
  BY <1>1, Zenon DEF Numbered
<1>3. in5 = PointsUnder(tree)["s5"] /\ in5 \subseteq Parents /\ "s5" \notin in5
  BY <1>1, PointsRules, ParentsNodes DEF PointsBelow
<1>4. A = {"s5"} \cup B
  <2>1. ASSUME NEW a \in B PROVE a \in A
    BY <1>1, <1>3, PointsRules DEF PointsBelow
  <2>2. "s5" \in A
    BY <1>1, PointsRules, ParentsNodes DEF PointsBelow
  <2>3. ASSUME NEW a \in A, a # "s5" PROVE a \in B
    <3>1. x \in Under(tree)["s5"]
      BY <2>2
    <3>2. a \in Below(tree, "s5") \/ "s5" \in Below(tree, a)
      BY <3>1, <1>1, UnderChain, ParentsNodes DEF Below
    <3>3. "s5" \notin Under(tree)[a]
      BY <1>1, UnderRules, ParentsNodes
    <3>4. a \in Under(tree)["s5"]
      BY <2>3, <3>2, <3>3 DEF Below
    <3> QED BY <3>4, <1>1, <1>3, PointsPath, ParentsNodes DEF PointsBelow
  <2> QED BY <2>1, <2>2, <2>3
<1>5. IsFiniteSet(B) /\ Cardinality(B) \in Nat /\ "s5" \notin B
  <2>1. B \in SUBSET Parents
    BY <1>3
  <2>2. "s5" \notin B
    BY <1>3
  <2> HIDE DEF B
  <2> QED BY <2>1, <2>2, ParentsNodes, FS_Subset, FS_CardinalityType
<1>6. getNodeDepth(tree, x) = 1 + Cardinality(A)
  BY DEF getNodeDepth
<1> HIDE DEF A, B
<1>7. Cardinality(A) = Cardinality(B) + 1
  BY <1>4, <1>5, FS_AddElement
<1> QED BY <1>2, <1>5, <1>6, <1>7

\* LevelsFollow holds in every state: generateNumbering gives every point below
\* section 5 the level of its depth, and no operation forgets to call it.
THEOREM LevelsAgree == Spec => []LevelsFollow
<1> QED BY Structure, InvLevels, PTL

-----------------------------------------------------------------------------
(* Blocks.                                                                 *)

Fits(t, D) ==
    \A p \in D : \A type \in {"table", "violation"} : countChildrenByType(t, p, type) <= MaxBlocks

\* The blocks of a type among the children of a node.
Blocks(t, p, type) ==
    {c \in Children(t, p) : t.kind[c] \in (IF type = "table" THEN {"table"} \cup RiskKinds ELSE {type})}

\* Blocks are counted by what hangs below a node and by its summaries, in numbers.
LEMMA CountIs ==
    ASSUME NEW t, t \in TreeType, NEW p \in Parents
    PROVE  /\ countChildrenByType(t, p, "table") = Cardinality(Blocks(t, p, "table")) + Summaries(t, p)
           /\ countChildrenByType(t, p, "violation") = Cardinality(Blocks(t, p, "violation"))
           /\ \A type : /\ IsFiniteSet(Blocks(t, p, type)) /\ Cardinality(Blocks(t, p, type)) \in Nat
                        /\ Blocks(t, p, type) \subseteq Children(t, p)
           /\ Summaries(t, p) = (IF p \in t.summary THEN 1 ELSE 0) + (IF p = "s5" /\ t.main THEN 1 ELSE 0)
<1>1. countChildrenByType(t, p, "table") = Cardinality(Blocks(t, p, "table")) + Summaries(t, p)
  <2>1. Blocks(t, p, "table") = {c \in Children(t, p) : t.kind[c] \in {"table"} \cup RiskKinds}
    BY DEF Blocks
  <2> QED BY <2>1, Zenon DEF countChildrenByType
<1>2. countChildrenByType(t, p, "violation") = Cardinality(Blocks(t, p, "violation"))
  <2>1. Blocks(t, p, "violation") = {c \in Children(t, p) : t.kind[c] = "violation"}
    BY DEF Blocks
  <2>2. "violation" # "table"
    OBVIOUS
  <2> QED BY <2>1, <2>2, Zenon DEF countChildrenByType
<1>3. ASSUME NEW type
      PROVE  /\ IsFiniteSet(Blocks(t, p, type)) /\ Cardinality(Blocks(t, p, type)) \in Nat
             /\ Blocks(t, p, type) \subseteq Children(t, p)
  <2>1. Blocks(t, p, type) \subseteq Children(t, p) /\ Children(t, p) \subseteq Nodes
    BY ChildrenType DEF Blocks
  <2>2. Blocks(t, p, type) \in SUBSET Parents
    BY <2>1, ParentsNodes
  <2> QED BY <2>1, <2>2, ParentsNodes, FS_Subset, FS_CardinalityType
<1>4. Summaries(t, p) = (IF p \in t.summary THEN 1 ELSE 0) + (IF p = "s5" /\ t.main THEN 1 ELSE 0)
  <2>1. Cardinality({p} \cap t.summary) = IF p \in t.summary THEN 1 ELSE 0
    <3>1. CASE p \in t.summary
      <4>1. {p} \cap t.summary = {p}
        BY <3>1
      <4> QED BY <3>1, <4>1, FS_Singleton
    <3>2. CASE p \notin t.summary
      <4>1. {p} \cap t.summary = {}
        BY <3>2
      <4> QED BY <3>2, <4>1, FS_EmptySet
    <3> QED BY <3>1, <3>2
  <2> QED BY <2>1, Zenon DEF Summaries
<1> QED BY <1>1, <1>2, <1>3, <1>4

\* Fewer blocks and no more summaries fit as well.
LEMMA CountLess ==
    ASSUME NEW t, t \in TreeType, NEW u, u \in TreeType, NEW p \in Parents,
           \A type \in {"table", "violation"} : Blocks(u, p, type) \subseteq Blocks(t, p, type),
           p \in u.summary => p \in t.summary, p = "s5" /\ u.main => t.main,
           NEW type \in {"table", "violation"}
    PROVE  countChildrenByType(u, p, type) <= countChildrenByType(t, p, type)
           /\ countChildrenByType(u, p, type) \in Nat /\ countChildrenByType(t, p, type) \in Nat
<1>1. /\ countChildrenByType(t, p, "table") = Cardinality(Blocks(t, p, "table")) + Summaries(t, p)
      /\ countChildrenByType(t, p, "violation") = Cardinality(Blocks(t, p, "violation"))
      /\ \A k : /\ IsFiniteSet(Blocks(t, p, k)) /\ Cardinality(Blocks(t, p, k)) \in Nat
                /\ Blocks(t, p, k) \subseteq Children(t, p)
      /\ Summaries(t, p) = (IF p \in t.summary THEN 1 ELSE 0) + (IF p = "s5" /\ t.main THEN 1 ELSE 0)
  BY CountIs
<1>2. /\ countChildrenByType(u, p, "table") = Cardinality(Blocks(u, p, "table")) + Summaries(u, p)
      /\ countChildrenByType(u, p, "violation") = Cardinality(Blocks(u, p, "violation"))
      /\ \A k : /\ IsFiniteSet(Blocks(u, p, k)) /\ Cardinality(Blocks(u, p, k)) \in Nat
                /\ Blocks(u, p, k) \subseteq Children(u, p)
      /\ Summaries(u, p) = (IF p \in u.summary THEN 1 ELSE 0) + (IF p = "s5" /\ u.main THEN 1 ELSE 0)
  BY CountIs
<1>3. ASSUME NEW k \in {"table", "violation"} PROVE Cardinality(Blocks(u, p, k)) <= Cardinality(Blocks(t, p, k))
  <2>1. Blocks(u, p, k) \in SUBSET Blocks(t, p, k) /\ IsFiniteSet(Blocks(t, p, k))
    BY <1>1
  <2> QED BY <2>1, FS_Subset
<1>4. Summaries(u, p) <= Summaries(t, p) /\ Summaries(u, p) \in Nat /\ Summaries(t, p) \in Nat
  BY <1>1, <1>2
<1>5. CASE type = "table"
  BY <1>1, <1>2, <1>3, <1>4, <1>5
<1>6. CASE type = "violation"
  BY <1>1, <1>2, <1>3, <1>6
<1> QED BY <1>5, <1>6

\* u is g with x below p.
LEMMA JoinFits ==
    ASSUME NEW g, NEW R, Shape(g, R), NEW x \in R, NEW p \in Sections \cup Attached(g), NEW u,
           Joins(g, R, p, x, u), u.main => g.main,
           Fits(g, Sections \cup Attached(g)), Fits(g, Below(g, x)),
           \A type \in {"table", "violation"} :
              TypeOf(g.kind[x]) = type => countChildrenByType(g, p, type) + 1 <= MaxBlocks
    PROVE  Fits(u, Sections \cup Attached(u))
<1>1. PICK k \in 0 .. Len(g.kids[p]) :
        /\ u.kids = InsertedAt(g, p, k, x).kids /\ u.kind = g.kind
        /\ Roomy(InsertedAt(g, p, k, x), u)
        /\ Shape(u, R \ {x})
  BY DEF Joins
<1> DEFINE i == InsertedAt(g, p, k, x)
<1>2. IsInserted(g, R, p, x, i)
  BY ShapeInserted
<1>3. u.kids = i.kids /\ Roomy(i, u)
  BY <1>1
<1> HIDE DEF i
<1>4. /\ i.kind = g.kind /\ i.summary = g.summary /\ i.main = g.main /\ x \in Nodes /\ p \in Parents
      /\ \A q \in Parents : Children(i, q) = IF q = p THEN Children(g, q) \cup {x} ELSE Children(g, q)
      /\ Attached(i) = Attached(g) \cup Below(g, x)
      /\ x \notin Children(g, p)
      /\ i \in TreeType /\ u \in TreeType /\ g \in TreeType
  BY <1>1, <1>2 DEF IsInserted, Shape, Wired
<1>5. (\A q : Children(u, q) = Children(i, q)) /\ Attached(u) = Attached(i)
  BY <1>3, SameWires
<1>6. MaxBlocks \in Nat
  BY TreeAssumption
<1>7. ASSUME NEW q \in Sections \cup Attached(u), NEW type \in {"table", "violation"}
      PROVE  countChildrenByType(i, q, type) <= MaxBlocks /\ countChildrenByType(i, q, type) \in Nat /\ q \in Parents
  <2>0. q \in Parents
    <3>1. Wired(u)
      BY <1>1 DEF Shape
    <3> QED BY <3>1, AttachedDown
  <2>1. q \in Sections \cup Attached(g) \cup Below(g, x)
    BY <1>4, <1>5
  <2>2. countChildrenByType(g, q, type) <= MaxBlocks
    BY <2>1 DEF Fits
  <2>3. CASE Blocks(i, q, type) \subseteq Blocks(g, q, type)
    <3>1. \A k2 \in {"table", "violation"} : k2 = type => Blocks(i, q, k2) \subseteq Blocks(g, q, k2)
      BY <2>3
    <3>2. countChildrenByType(i, q, type) <= countChildrenByType(g, q, type)
          /\ countChildrenByType(i, q, type) \in Nat /\ countChildrenByType(g, q, type) \in Nat
      <4>1. /\ countChildrenByType(g, q, "table") = Cardinality(Blocks(g, q, "table")) + Summaries(g, q)
            /\ countChildrenByType(g, q, "violation") = Cardinality(Blocks(g, q, "violation"))
            /\ \A k3 : /\ IsFiniteSet(Blocks(g, q, k3)) /\ Cardinality(Blocks(g, q, k3)) \in Nat
                      /\ Blocks(g, q, k3) \subseteq Children(g, q)
        BY <2>0, <1>4, CountIs
      <4>2. /\ countChildrenByType(i, q, "table") = Cardinality(Blocks(i, q, "table")) + Summaries(i, q)
            /\ countChildrenByType(i, q, "violation") = Cardinality(Blocks(i, q, "violation"))
            /\ \A k3 : /\ IsFiniteSet(Blocks(i, q, k3)) /\ Cardinality(Blocks(i, q, k3)) \in Nat
                      /\ Blocks(i, q, k3) \subseteq Children(i, q)
        BY <2>0, <1>4, CountIs
      <4>3. Cardinality(Blocks(i, q, type)) <= Cardinality(Blocks(g, q, type))
        <5>1. Blocks(i, q, type) \in SUBSET Blocks(g, q, type) /\ IsFiniteSet(Blocks(g, q, type))
          BY <2>3, <4>1
        <5> QED BY <5>1, FS_Subset
      <4>4. Summaries(i, q) = Summaries(g, q) /\ Summaries(g, q) \in Nat
        BY <1>4, SummariesType DEF Summaries
      <4>5. CASE type = "table"
        BY <4>1, <4>2, <4>3, <4>4, <4>5
      <4>6. CASE type = "violation"
        BY <4>1, <4>2, <4>3, <4>6
      <4> QED BY <4>5, <4>6
    <3> QED BY <2>0, <2>2, <3>2, <1>6
  <2>4. CASE ~(Blocks(i, q, type) \subseteq Blocks(g, q, type))
    <3>1. q = p /\ g.kind[x] \in (IF type = "table" THEN {"table"} \cup RiskKinds ELSE {type})
      BY <2>0, <2>4, <1>4 DEF Blocks
    <3>2. TypeOf(g.kind[x]) = type
      BY <3>1 DEF TypeOf, RiskKinds
    <3>3. countChildrenByType(g, p, type) + 1 <= MaxBlocks
      BY <3>2
    <3>4. Blocks(i, p, type) = Blocks(g, p, type) \cup {x} /\ x \notin Blocks(g, p, type)
      BY <3>1, <1>4 DEF Blocks
    <3>5. /\ countChildrenByType(g, p, "table") = Cardinality(Blocks(g, p, "table")) + Summaries(g, p)
          /\ countChildrenByType(g, p, "violation") = Cardinality(Blocks(g, p, "violation"))
          /\ \A k3 : /\ IsFiniteSet(Blocks(g, p, k3)) /\ Cardinality(Blocks(g, p, k3)) \in Nat
                    /\ Blocks(g, p, k3) \subseteq Children(g, p)
      BY <1>4, CountIs
    <3>6. /\ countChildrenByType(i, p, "table") = Cardinality(Blocks(i, p, "table")) + Summaries(i, p)
          /\ countChildrenByType(i, p, "violation") = Cardinality(Blocks(i, p, "violation"))
      BY <1>4, CountIs
    <3>7. Cardinality(Blocks(i, p, type)) = Cardinality(Blocks(g, p, type)) + 1
      BY <3>4, <3>5, FS_AddElement
    <3>8. Summaries(i, p) = Summaries(g, p) /\ Summaries(g, p) \in Nat
      BY <1>4, SummariesType DEF Summaries
    <3>9. CASE type = "table"
      BY <2>0, <3>1, <3>3, <3>5, <3>6, <3>7, <3>8, <3>9, <1>6
    <3>10. CASE type = "violation"
      BY <2>0, <3>1, <3>3, <3>5, <3>6, <3>7, <3>10, <1>6
    <3> QED BY <3>9, <3>10
  <2> QED BY <2>3, <2>4
<1>8. ASSUME NEW q \in Sections \cup Attached(u), NEW type \in {"table", "violation"}
      PROVE  countChildrenByType(u, q, type) <= MaxBlocks
  <2>1. countChildrenByType(i, q, type) <= MaxBlocks /\ countChildrenByType(i, q, type) \in Nat /\ q \in Parents
    BY <1>7
  <2>2. \A k2 \in {"table", "violation"} : Blocks(u, q, k2) = Blocks(i, q, k2)
    BY <1>1, <1>4, <1>5 DEF Blocks
  <2>3. CASE q \in u.summary => q \in i.summary
    <3>1. countChildrenByType(u, q, type) <= countChildrenByType(i, q, type) /\ countChildrenByType(u, q, type) \in Nat
      BY <2>1, <2>2, <2>3, <1>4, CountLess
    <3> QED BY <3>1, <2>1, <1>6
  <2>4. CASE q \in u.summary /\ q \notin i.summary
    <3>1. q \in Nodes /\ countChildrenByType(i, q, "table") < MaxBlocks
      BY <2>4, <1>3 DEF Roomy
    <3>2. q # "s5"
      BY <3>1, ParentsNodes
    <3>3. /\ countChildrenByType(u, q, "table") = Cardinality(Blocks(u, q, "table")) + Summaries(u, q)
          /\ countChildrenByType(u, q, "violation") = Cardinality(Blocks(u, q, "violation"))
          /\ Summaries(u, q) = (IF q \in u.summary THEN 1 ELSE 0) + (IF q = "s5" /\ u.main THEN 1 ELSE 0)
      BY <2>1, <1>4, CountIs
    <3>4. /\ countChildrenByType(i, q, "table") = Cardinality(Blocks(i, q, "table")) + Summaries(i, q)
          /\ countChildrenByType(i, q, "violation") = Cardinality(Blocks(i, q, "violation"))
          /\ Cardinality(Blocks(i, q, "table")) \in Nat
          /\ Summaries(i, q) = (IF q \in i.summary THEN 1 ELSE 0) + (IF q = "s5" /\ i.main THEN 1 ELSE 0)
      BY <2>1, <1>4, CountIs
    <3>5. Summaries(u, q) = 1 /\ Summaries(i, q) = 0
      BY <3>2, <3>3, <3>4, <2>4
    <3>6. CASE type = "table"
      BY <3>1, <3>3, <3>4, <3>5, <3>6, <2>2, <1>6
    <3>7. CASE type = "violation"
      BY <3>3, <3>4, <3>7, <2>1, <2>2
    <3> QED BY <3>6, <3>7
  <2> QED BY <2>3, <2>4
<1> QED BY <1>8 DEF Fits

\* The same blocks and summaries count the same.
LEMMA CountSame ==
    ASSUME NEW t, t \in TreeType, NEW u, u \in TreeType, NEW p \in Parents,
           \A k \in {"table", "violation"} : Blocks(u, p, k) = Blocks(t, p, k),
           p \in u.summary <=> p \in t.summary, p = "s5" => (u.main <=> t.main),
           NEW type \in {"table", "violation"}
    PROVE  countChildrenByType(u, p, type) = countChildrenByType(t, p, type)
<1>1. countChildrenByType(u, p, type) <= countChildrenByType(t, p, type)
      /\ countChildrenByType(u, p, type) \in Nat /\ countChildrenByType(t, p, type) \in Nat
  BY CountLess
<1>2. countChildrenByType(t, p, type) <= countChildrenByType(u, p, type)
  BY CountLess
<1> QED BY <1>1, <1>2

\* Fewer blocks and summaries fit as well.
LEMMA FitsLess ==
    ASSUME NEW t, t \in TreeType, NEW u, u \in TreeType, NEW D, NEW E, D \subseteq E, D \subseteq Parents, Fits(t, E),
           \A p \in D : \A k \in {"table", "violation"} : Blocks(u, p, k) \subseteq Blocks(t, p, k),
           \A p \in D : p \in u.summary => p \in t.summary, u.main => t.main
    PROVE  Fits(u, D)
<1>1. ASSUME NEW p \in D, NEW k \in {"table", "violation"} PROVE countChildrenByType(u, p, k) <= MaxBlocks
  <2>1. countChildrenByType(u, p, k) <= countChildrenByType(t, p, k)
        /\ countChildrenByType(u, p, k) \in Nat /\ countChildrenByType(t, p, k) \in Nat
    BY CountLess
  <2>2. countChildrenByType(t, p, k) <= MaxBlocks
    BY DEF Fits
  <2> QED BY <2>1, <2>2, TreeAssumption
<1> QED BY <1>1 DEF Fits

\* What is not in the tree is not counted in it.
LEMMA AgreesCount ==
    ASSUME NEW t, Wired(t), NEW g, g \in TreeType, Agrees(t, g), NEW p \in Sections \cup Attached(t),
           NEW type \in {"table", "violation"}
    PROVE  countChildrenByType(g, p, type) = countChildrenByType(t, p, type)
<1>1. t \in TreeType /\ p \in Parents /\ Children(t, p) \subseteq Attached(t)
  BY AttachedDown DEF Wired
<1>2. Children(g, p) = Children(t, p) /\ (\A c \in Children(t, p) : g.kind[c] = t.kind[c])
      /\ g.main = t.main /\ (p \in g.summary <=> p \in t.summary)
  BY <1>1 DEF Agrees
<1>3. \A k \in {"table", "violation"} : Blocks(g, p, k) = Blocks(t, p, k)
  BY <1>2 DEF Blocks
<1> QED BY <1>1, <1>2, <1>3, CountSame

\* A node added where there is room leaves the blocks fitting.
LEMMA AddsFits ==
    ASSUME NEW t, NEW R, Shape(t, R), NEW p \in Sections \cup Attached(t), NEW x, NEW kind, NEW u,
           Adds(t, R, p, x, kind, u), Fits(t, Sections \cup Attached(t)), u.main => t.main,
           \A type \in {"table", "violation"} :
              TypeOf(kind) = type => countChildrenByType(t, p, type) + 1 <= MaxBlocks
    PROVE  Fits(u, Sections \cup Attached(u))
<1>1. PICK g : IsCreated(t, R, x, kind, g) /\ Joins(g, R \cup {x}, p, x, u)
  BY DEF Adds
<1>2. /\ Shape(g, R \cup {x}) /\ g.kind[x] = kind /\ Below(g, x) = {x} /\ Children(g, x) = {} /\ g.main = t.main
      /\ g \in TreeType /\ Wired(t) /\ x \in Nodes /\ x \notin g.summary
  <2>1. g.kids = t.kids /\ Shape(g, R \cup {x}) /\ g.kind[x] = kind /\ Below(t, x) = {x} /\ Children(t, x) = {}
        /\ g.summary = t.summary /\ g.main = t.main /\ x \notin R /\ x \notin Attached(t)
    BY <1>1 DEF IsCreated
  <2>2. Below(g, x) = {x} /\ Children(g, x) = {}
    BY <2>1, SameWires
  <2>3. x \in Nodes
    BY <2>1 DEF Shape, Loose
  <2>4. x \notin t.summary
    <3>1. \A p2 \in Parents : x \notin Children(t, p2) /\ x \notin Under(t)[p2]
      BY <1>1 DEF IsCreated
    <3>2. x \notin Alive(t, R)
      <4>1. \A r \in R : r \in Parents
        BY ParentsNodes DEF Shape, Loose
      <4> QED BY <4>1, <2>1, <3>1 DEF Alive, BelowAll, Below
    <3>3. t.kind[x] = "none"
      BY <2>3, <3>2 DEF Shape
    <3> QED BY <3>3, <2>3 DEF Shape, Clean
  <2> QED BY <2>1, <2>2, <2>3, <2>4 DEF Shape, Wired
<1>3. Agrees(t, g)
  BY <1>1, CreatedAgrees
<1>4. Attached(g) = Attached(t) /\ x \in R \cup {x}
  BY <1>3 DEF Agrees
<1>5. Fits(g, Sections \cup Attached(g))
  <2>1. \A q \in Sections \cup Attached(t) : \A type \in {"table", "violation"} :
           countChildrenByType(g, q, type) = countChildrenByType(t, q, type)
    BY <1>2, <1>3, AgreesCount
  <2> QED BY <2>1, <1>4 DEF Fits
<1>6. Fits(g, Below(g, x))
  <2>1. ASSUME NEW type \in {"table", "violation"} PROVE countChildrenByType(g, x, type) <= MaxBlocks
    <3>0. x \in Parents /\ x # "s5"
      BY <1>2, ParentsNodes
    <3>1. /\ countChildrenByType(g, x, "table") = Cardinality(Blocks(g, x, "table")) + Summaries(g, x)
          /\ countChildrenByType(g, x, "violation") = Cardinality(Blocks(g, x, "violation"))
          /\ Summaries(g, x) = (IF x \in g.summary THEN 1 ELSE 0) + (IF x = "s5" /\ g.main THEN 1 ELSE 0)
      BY <1>2, <3>0, CountIs
    <3>2. Blocks(g, x, "table") = {} /\ Blocks(g, x, "violation") = {}
      BY <1>2 DEF Blocks
    <3>3. Summaries(g, x) = 0
      BY <1>2, <3>0, <3>1
    <3> QED BY <3>1, <3>2, <3>3, FS_EmptySet, TreeAssumption
  <2> QED BY <2>1, <1>2 DEF Fits
<1>7. \A type \in {"table", "violation"} :
              TypeOf(g.kind[x]) = type => countChildrenByType(g, p, type) + 1 <= MaxBlocks
  <2>1. \A type \in {"table", "violation"} : countChildrenByType(g, p, type) = countChildrenByType(t, p, type)
    BY <1>2, <1>3, AgreesCount
  <2> QED BY <2>1, <1>2
<1> QED BY <1>1, <1>2, <1>4, <1>5, <1>6, <1>7, JoinFits

\* A paste that was checked leaves the blocks fitting.
LEMMA PastesFits ==
    ASSUME NEW t, NEW R, Shape(t, R), NEW p \in Sections \cup Attached(t), NEW f, NEW ids, NEW keep, NEW u,
           Pastes(t, R, f, ids, keep, p, u), Fits(t, Sections \cup Attached(t)), u.main => t.main,
           canInsertSubtree(Grafted(t, f, ids, keep), p, ids[1])
    PROVE  Fits(u, Sections \cup Attached(u))
<1> DEFINE x == ids[1]
<1>1. PICK g : IsGrafted(t, R, f, ids, keep, g) /\ Joins(g, R \cup {x}, p, x, u) /\ g = Grafted(t, f, ids, keep)
  BY DEF Pastes
<1>2. Shape(g, R \cup {x}) /\ g.main = t.main /\ Attached(g) = Attached(t) /\ g \in TreeType /\ Wired(t)
  BY <1>1 DEF IsGrafted, Shape, Wired
<1>3. Agrees(t, g) /\ canInsertSubtree(g, p, x)
  BY <1>1, GraftedAgrees
<1> HIDE DEF x
<1>4. Fits(g, Sections \cup Attached(g))
  <2>1. \A q \in Sections \cup Attached(t) : \A type \in {"table", "violation"} :
           countChildrenByType(g, q, type) = countChildrenByType(t, q, type)
    BY <1>2, <1>3, AgreesCount
  <2> QED BY <2>1, <1>2 DEF Fits
<1>5. Fits(g, Below(g, x))
  BY <1>3 DEF canInsertSubtree, Fits
<1>6. x \notin Children(g, p)
  <2>1. p \in Parents
    BY <1>2, AttachedDown
  <2> QED BY <2>1, <1>2 DEF Shape, Loose
<1>7. \A type \in {"table", "violation"} :
              TypeOf(g.kind[x]) = type => countChildrenByType(g, p, type) + 1 <= MaxBlocks
  BY <1>3, <1>6 DEF canInsertSubtree, TypeOf, RiskKinds
<1> QED BY <1>1, <1>2, <1>4, <1>5, <1>7, JoinFits

\* A move that was checked leaves the blocks fitting.
LEMMA MovesFits ==
    ASSUME NEW t, NEW R, Shape(t, R), NEW x \in Attached(t), NEW p, NEW u, Moves(t, R, x, p, u),
           Fits(t, Sections \cup Attached(t)), u.main => t.main, canInsertSubtree(t, p, x)
    PROVE  Fits(u, Sections \cup Attached(u))
<1>1. PICK off : /\ IsDetached(t, R, x, off)
                 /\ Joins(off, R \cup {x}, p, x, u)
                 /\ p \in Sections \cup Attached(off) /\ p \in Sections \cup Attached(t) /\ p \notin Below(t, x)
  BY DEF Moves
<1>2. /\ Shape(off, R \cup {x}) /\ off.kind = t.kind /\ off.summary = t.summary /\ off.main = t.main
      /\ \A q \in Parents : Children(off, q) = Children(t, q) \ {x}
      /\ Below(off, x) = Below(t, x) /\ Attached(off) = Attached(t) \ Below(t, x)
      /\ off \in TreeType /\ t \in TreeType /\ x \in Nodes
  BY <1>1 DEF IsDetached, Shape, Wired
<1>3. p \in Parents /\ Sections \cup Attached(t) \subseteq Parents /\ Below(t, x) \subseteq Parents
      /\ Below(t, x) \subseteq Sections \cup Attached(t)
  <2>1. Wired(t)
    BY DEF Shape
  <2> QED BY <1>1, <2>1, AttachedDown
<1>4. \A q \in Parents : \A k \in {"table", "violation"} : Blocks(off, q, k) \subseteq Blocks(t, q, k)
  BY <1>2 DEF Blocks
<1>5. Fits(off, Sections \cup Attached(off)) /\ Fits(off, Below(off, x))
  <2>1. Sections \cup Attached(off) \subseteq Sections \cup Attached(t) /\ Sections \cup Attached(off) \subseteq Parents
    BY <1>2, <1>3
  <2>2. Fits(off, Sections \cup Attached(off))
    BY <2>1, <1>2, <1>4, FitsLess
  <2>3. Below(off, x) \subseteq Sections \cup Attached(t) /\ Below(off, x) \subseteq Parents
    BY <1>2, <1>3
  <2>4. Fits(off, Below(off, x))
    BY <2>3, <1>2, <1>4, FitsLess
  <2> QED BY <2>2, <2>4
<1>6. ASSUME NEW type \in {"table", "violation"}, TypeOf(off.kind[x]) = type
      PROVE  countChildrenByType(off, p, type) + 1 <= MaxBlocks
  <2>1. t.kind[x] # "item" /\ TypeOf(t.kind[x]) = type
    BY <1>2, <1>6 DEF TypeOf, RiskKinds
  <2>2. countChildrenByType(t, p, type) + (IF x \in Children(t, p) THEN 0 ELSE 1) <= MaxBlocks
    BY <2>1, Zenon DEF canInsertSubtree
  <2>3. countChildrenByType(off, p, type) <= countChildrenByType(t, p, type)
        /\ countChildrenByType(off, p, type) \in Nat /\ countChildrenByType(t, p, type) \in Nat
    BY <1>2, <1>3, <1>4, CountLess
  <2>4. CASE x \notin Children(t, p)
    <3>1. countChildrenByType(t, p, type) + 1 <= MaxBlocks
      BY <2>2, <2>4
    <3> QED BY <3>1, <2>3, TreeAssumption
  <2>5. CASE x \in Children(t, p)
    <3>1. x \in Blocks(t, p, type) /\ Blocks(off, p, type) = Blocks(t, p, type) \ {x}
      <4>1. t.kind[x] \in KindSet
        BY <1>2, TreeFields, ParentsNodes
      <4>2. t.kind[x] \in (IF type = "table" THEN {"table"} \cup RiskKinds ELSE {type})
        BY <2>1, <4>1 DEF TypeOf, KindSet
      <4> QED BY <4>2, <2>5, <1>2, <1>3 DEF Blocks
    <3>2. /\ countChildrenByType(t, p, "table") = Cardinality(Blocks(t, p, "table")) + Summaries(t, p)
          /\ countChildrenByType(t, p, "violation") = Cardinality(Blocks(t, p, "violation"))
          /\ IsFiniteSet(Blocks(t, p, type)) /\ Cardinality(Blocks(t, p, type)) \in Nat
      BY <1>2, <1>3, CountIs
    <3>3. /\ countChildrenByType(off, p, "table") = Cardinality(Blocks(off, p, "table")) + Summaries(off, p)
          /\ countChildrenByType(off, p, "violation") = Cardinality(Blocks(off, p, "violation"))
          /\ Cardinality(Blocks(off, p, type)) \in Nat
      BY <1>2, <1>3, CountIs
    <3>4. Cardinality(Blocks(off, p, type)) = Cardinality(Blocks(t, p, type)) - 1
      BY <3>1, <3>2, FS_RemoveElement
    <3>5. Summaries(off, p) = Summaries(t, p) /\ Summaries(t, p) \in Nat
      BY <1>2, SummariesType DEF Summaries
    <3>6. countChildrenByType(t, p, type) <= MaxBlocks
      BY <2>2, <2>3, <2>5
    <3>7. CASE type = "table"
      BY <3>2, <3>3, <3>4, <3>5, <3>6, <3>7, TreeAssumption
    <3>8. CASE type = "violation"
      BY <3>2, <3>3, <3>4, <3>6, <3>8, TreeAssumption
    <3> QED BY <3>7, <3>8
  <2> QED BY <2>4, <2>5
<1>7. u.main => off.main
  BY <1>2
<1> QED BY <1>1, <1>2, <1>5, <1>6, <1>7, JoinFits

\* A deletion leaves the blocks fitting.
LEMMA DeletesFits ==
    ASSUME NEW t, NEW R, Shape(t, R), NEW x \in Attached(t), NEW u, NEW left, Deletes(t, R, x, u, left),
           Fits(t, Sections \cup Attached(t))
    PROVE  Fits(u, Sections \cup Attached(u))
<1>1. PICK off, clean :
        /\ IsDetached(t, R, x, off)
        /\ Shape(clean, R \cup {x}) /\ SameNodes(off, clean)
        /\ clean.summary \subseteq t.summary /\ (clean.main => t.main)
        /\ IsTidied(clean, left, u)
  BY DEF Deletes
<1>2. /\ off.kind = t.kind /\ \A q \in Parents : Children(off, q) = Children(t, q) \ {x}
      /\ Attached(off) = Attached(t) \ Below(t, x)
      /\ clean.kids = off.kids /\ clean.kind = off.kind
  BY <1>1 DEF IsDetached, SameNodes
<1>3. (\A q : Children(clean, q) = Children(off, q)) /\ Attached(clean) = Attached(off)
  BY <1>2, SameWires
<1>4. /\ Attached(u) = Attached(clean) /\ u.main = clean.main /\ Shape(u, Loosened(left))
      /\ \A p \in Sections \cup Attached(clean) :
            Children(u, p) = Children(clean, p) /\ u.kind[p] = clean.kind[p] /\ (p \in u.summary <=> p \in clean.summary)
  BY <1>1 DEF IsTidied, Alive
<1>5. t \in TreeType /\ u \in TreeType /\ Wired(clean) /\ Wired(t)
  BY <1>1, <1>4 DEF Shape, Wired
<1>6. Sections \cup Attached(u) \subseteq Sections \cup Attached(t) /\ Sections \cup Attached(u) \subseteq Parents
      /\ Sections \cup Attached(u) = Sections \cup Attached(clean)
  <2>1. Sections \cup Attached(t) \subseteq Parents
    BY <1>5, AttachedDown
  <2> QED BY <2>1, <1>2, <1>3, <1>4
<1>7. ASSUME NEW p \in Sections \cup Attached(u), NEW k \in {"table", "violation"}
      PROVE  Blocks(u, p, k) \subseteq Blocks(t, p, k)
  <2>1. Children(u, p) = Children(clean, p) /\ Children(clean, p) \subseteq Attached(clean) /\ p \in Parents
    BY <1>4, <1>5, <1>6, AttachedDown
  <2>2. Children(u, p) \subseteq Children(t, p) /\ \A c \in Children(u, p) : u.kind[c] = t.kind[c]
    BY <2>1, <1>2, <1>3, <1>4
  <2> QED BY <2>2 DEF Blocks
<1>8. \A p \in Sections \cup Attached(u) : p \in u.summary => p \in t.summary
  BY <1>1, <1>4, <1>6
<1>9. u.main => t.main
  BY <1>1, <1>4
<1> QED BY <1>5, <1>6, <1>7, <1>8, <1>9, FitsLess

\* Losing summaries leaves the blocks fitting.
LEMMA FitsFrame ==
    ASSUME NEW t, Wired(t), NEW u, u \in TreeType, u.kids = t.kids, u.kind = t.kind, u.summary \subseteq t.summary,
           u.main => t.main, Fits(t, Sections \cup Attached(t))
    PROVE  Fits(u, Sections \cup Attached(u))
<1>1. Attached(u) = Attached(t) /\ \A p : Children(u, p) = Children(t, p)
  BY SameWires
<1>2. \A p, k : Blocks(u, p, k) = Blocks(t, p, k)
  BY <1>1 DEF Blocks
<1>3. Sections \cup Attached(u) \subseteq Parents /\ t \in TreeType
  BY <1>1, AttachedDown DEF Wired
<1>4. \A p \in Sections \cup Attached(u) : p \in u.summary => p \in t.summary
  OBVIOUS
<1>5. Sections \cup Attached(u) \subseteq Sections \cup Attached(t)
  BY <1>1
<1> QED BY <1>2, <1>3, <1>4, <1>5, FitsLess

\* Every step keeps the limits, with the exceptions of BlocksKept.
LEMMA NextKeepsBlocks ==
    ASSUME IInv, Next, BlocksFit
    PROVE  BlocksFit' \/ (tree'.main /\ ~tree.main) \/ PasteFinishes
<1> DEFINE R == Loosened(undo)
           All == Sections \cup Attached(tree)
           All2 == Sections \cup Attached(tree')
<1>0. /\ Shape(tree, R) /\ Placed = Attached(tree) /\ Here = Sections \cup Attached(tree) /\ Wired(tree)
      /\ tree \in TreeType /\ Fits(tree, All) /\ (Fits(tree', All2) => BlocksFit')
  BY DEF IInv, Placed, Here, Shape, Wired, BlocksFit, Fits
<1> SUFFICES ASSUME tree'.main => tree.main, ~PasteFinishes
             PROVE  Fits(tree', All2)
  BY <1>0
<1> HIDE DEF R
<1>1. ASSUME NEW p \in All, NEW x, NEW kind, Adds(tree, R, p, x, kind, tree'),
             \A type \in {"table", "violation"} :
                TypeOf(kind) = type => countChildrenByType(tree, p, type) + 1 <= MaxBlocks
      PROVE  Fits(tree', All2)
  BY <1>0, <1>1, AddsFits
<1>2. ASSUME tree' = tree PROVE Fits(tree', All2)
  BY <1>0, <1>2
<1>a. ASSUME NEW p \in All, canAddContent(tree, p, "table") PROVE countChildrenByType(tree, p, "table") + 1 <= MaxBlocks
  <2>1. countChildrenByType(tree, p, "table") < MaxBlocks
    BY <1>a DEF canAddContent
  <2>2. p \in Parents
    BY <1>0, AttachedDown
  <2>3. countChildrenByType(tree, p, "table") = Cardinality(Blocks(tree, p, "table")) + Summaries(tree, p)
        /\ Cardinality(Blocks(tree, p, "table")) \in Nat
    BY <1>0, <2>2, CountIs
  <2>4. Summaries(tree, p) \in Nat
    BY SummariesType
  <2> QED BY <2>1, <2>3, <2>4, TreeAssumption
<1>b. ASSUME NEW p \in All, canAddContent(tree, p, "violation") PROVE countChildrenByType(tree, p, "violation") + 1 <= MaxBlocks
  <2>1. countChildrenByType(tree, p, "violation") < MaxBlocks
    BY <1>b DEF canAddContent
  <2>2. p \in Parents
    BY <1>0, AttachedDown
  <2>3. countChildrenByType(tree, p, "violation") = Cardinality(Blocks(tree, p, "violation"))
        /\ Cardinality(Blocks(tree, p, "violation")) \in Nat
    BY <1>0, <2>2, CountIs
  <2> QED BY <2>1, <2>3, TreeAssumption
<1>3. ASSUME NEW p \in Here, NEW x \in Fresh, handleAddChild(p, x) PROVE Fits(tree', All2)
  <2>1. PICK t : /\ Shape(t, Loosened(undo)) /\ t.kids = tree.kids /\ t.kind = tree.kind /\ t.level = tree.level
                 /\ t.summary = tree.summary /\ t.main = tree.main
                 /\ Adds(t, Loosened(undo), p, x, "item", tree') /\ tree'.main = tree.main
                 /\ p \in Sections \cup Attached(t)
    BY <1>3, AddChildIs
  <2>2. t \in TreeType
    BY <2>1 DEF Shape, Wired
  <2>3. Fits(t, Sections \cup Attached(t))
    BY <2>1, <2>2, <1>0, FitsFrame
  <2>4. \A type \in {"table", "violation"} :
                TypeOf("item") = type => countChildrenByType(t, p, type) + 1 <= MaxBlocks
    BY DEF TypeOf, RiskKinds
  <2>5. tree'.main => t.main
    BY <2>1
  <2> QED BY <2>1, <2>3, <2>4, <2>5, AddsFits
<1>4. ASSUME NEW p \in Here, NEW x \in Fresh, NEW i \in 0 .. Len(tree.kids[p]), handleAddSibling(p, i, x)
      PROVE  Fits(tree', All2)
  <2>1. Adds(tree, R, p, x, "item", tree')
    BY <1>4, AddSiblingIs DEF R
  <2>2. \A type \in {"table", "violation"} :
                TypeOf("item") = type => countChildrenByType(tree, p, type) + 1 <= MaxBlocks
    BY DEF TypeOf, RiskKinds
  <2> QED BY <2>1, <2>2, <1>0, <1>1
<1>5. ASSUME NEW p \in Here, NEW x \in Fresh, NEW kind \in Kinds \ RiskKinds, AddContent(p, kind, x)
      PROVE  Fits(tree', All2)
  <2>1. Adds(tree, R, p, x, kind, tree')
    BY <1>5, AddContentIs DEF R
  <2>2. canAddContent(tree, p, kind)
    BY <1>5 DEF AddContent
  <2>3. kind \in {"table", "violation"}
    BY TreeAssumption
  <2>4. countChildrenByType(tree, p, kind) + 1 <= MaxBlocks
    BY <2>2, <2>3, <1>0, <1>a, <1>b
  <2>5. \A type \in {"table", "violation"} :
                TypeOf(kind) = type => countChildrenByType(tree, p, type) + 1 <= MaxBlocks
    BY <2>3, <2>4 DEF TypeOf
  <2> QED BY <2>1, <2>5, <1>0, <1>1
<1>c. ASSUME NEW p \in All, NEW x, NEW kind \in RiskKinds, canAddContent(tree, p, "table"), Adds(tree, R, p, x, kind, tree')
      PROVE  Fits(tree', All2)
  <2>1. countChildrenByType(tree, p, "table") + 1 <= MaxBlocks
    BY <1>c, <1>a
  <2>2. \A type \in {"table", "violation"} :
                TypeOf(kind) = type => countChildrenByType(tree, p, type) + 1 <= MaxBlocks
    BY <2>1, <1>c DEF TypeOf
  <2> QED BY <2>2, <1>c, <1>1
<1>6. ASSUME NEW p \in Placed, NEW x \in Fresh, NEW kind \in Kinds \cap RiskKinds,
             _handleRiskTableAction(p, kind, x)
      PROVE  Fits(tree', All2)
  <2>1. p \in Attached(tree) /\ Adds(tree, R, p, x, kind, tree') /\ canAddContent(tree, p, "table")
    BY <1>6, RiskActionIs DEF R
  <2> QED BY <2>1, <1>c
<1>7. ASSUME NEW x \in Fresh, RiskLevelWarningRead(x) PROVE Fits(tree', All2)
  <2>1. dialog.node \in Attached(tree) /\ dialog.kind \in RiskKinds
        /\ (tree' = tree \/ (canAddContent(tree, dialog.node, "table") /\ Adds(tree, R, dialog.node, x, dialog.kind, tree')))
    BY <1>7, RiskReadIs DEF R
  <2> QED BY <2>1, <1>c, <1>2
<1>8. ASSUME NEW x \in Placed, setNodeTb(x) PROVE Fits(tree', All2)
  <2>1. tree'.kids = tree.kids /\ tree'.kind = tree.kind /\ tree'.summary = tree.summary /\ Shape(tree', R)
    BY <1>8, SetTbIs DEF R
  <2>2. tree' \in TreeType
    BY <2>1 DEF Shape, Wired
  <2> QED BY <2>1, <2>2, <1>0, FitsFrame
<1>9. ASSUME NEW x \in Placed, deleteNode(x) PROVE Fits(tree', All2)
  <2>1. Deletes(tree, R, x, tree', undo')
    BY <1>9, DeleteIs DEF R
  <2> QED BY <2>1, <1>0, DeletesFits
<1>10. ASSUME undoLast PROVE Fits(tree', All2)
  <2> DEFINE x == undo[Len(undo)].node
             p == undo[Len(undo)].parent
  <2>1. /\ x \in R /\ Loosened(undo') = R \ {x}
        /\ \/ p \in Sections \cup Attached(tree) /\ Joins(tree, R, p, x, tree') /\ canInsertSubtree(tree, p, x)
           \/ IsTidied(tree, undo', tree')
    BY <1>10, UndoIs DEF R
  <2> HIDE DEF x, p
  <2>2. CASE p \in Sections \cup Attached(tree) /\ Joins(tree, R, p, x, tree') /\ canInsertSubtree(tree, p, x)
    <3>1. p \in Parents /\ x \notin Children(tree, p)
      <4>1. p \in Parents
        BY <2>2, <1>0, AttachedDown
      <4> QED BY <4>1, <2>1, <1>0 DEF Shape, Loose
    <3>2. Fits(tree, Below(tree, x))
      BY <2>2 DEF canInsertSubtree, Fits
    <3>3. \A type \in {"table", "violation"} :
              TypeOf(tree.kind[x]) = type => countChildrenByType(tree, p, type) + 1 <= MaxBlocks
      BY <3>1, <2>2 DEF canInsertSubtree, TypeOf, RiskKinds
    <3> QED BY <2>1, <2>2, <3>2, <3>3, <1>0, JoinFits
  <2>3. CASE IsTidied(tree, undo', tree')
    <3>1. /\ Attached(tree') = Attached(tree) /\ tree'.main = tree.main /\ Shape(tree', Loosened(undo'))
          /\ \A q \in Sections \cup Attached(tree) :
                /\ Children(tree', q) = Children(tree, q) /\ tree'.kind[q] = tree.kind[q]
                /\ (q \in tree'.summary <=> q \in tree.summary)
      BY <2>3 DEF IsTidied, Alive
    <3>2. \A q \in All : q \in Parents /\ Children(tree, q) \subseteq Attached(tree)
      BY <1>0, AttachedDown
    <3>3. \A q \in All : \A k \in {"table", "violation"} : Blocks(tree', q, k) \subseteq Blocks(tree, q, k)
      BY <3>1, <3>2 DEF Blocks
    <3>4. tree' \in TreeType
      BY <3>1 DEF Shape, Wired
    <3>5. All2 \subseteq All /\ All2 \subseteq Parents
      BY <3>1, <3>2
    <3>6. \A q \in All2 : q \in tree'.summary => q \in tree.summary
      BY <3>1
    <3> QED BY <3>1, <3>3, <3>4, <3>5, <3>6, <1>0, FitsLess
  <2> QED BY <2>1, <2>2, <2>3
<1>11. ASSUME NEW x \in Placed, NEW target \in Here, NEW position \in Positions, moveNode(x, target, position)
       PROVE  Fits(tree', All2)
  <2>1. Moves(tree, R, x, _determineNewParent(tree, target, position), tree')
    BY <1>11, MoveNodeIs DEF R
  <2>2. canInsertSubtree(tree, _determineNewParent(tree, target, position), x)
    BY <1>11 DEF moveNode, MoveAllowed
  <2> QED BY <2>1, <2>2, <1>0, MovesFits
<1>12. ASSUME MoveConfirmed PROVE Fits(tree', All2)
  <2> DEFINE t == [tree EXCEPT !.summary = @ \ {dialog.node}]
             p == _determineNewParent(t, dialog.target, dialog.position)
  <2>1. /\ Shape(t, R) /\ t.kids = tree.kids /\ t.kind = tree.kind /\ t.summary \subseteq tree.summary
        /\ t.main = tree.main /\ dialog.node \in Attached(t)
        /\ (tree' = t \/ (Moves(t, R, dialog.node, p, tree') /\ canInsertSubtree(t, p, dialog.node)))
    BY <1>12, MoveConfirmedIs DEF R
  <2> HIDE DEF t, p
  <2>2. t \in TreeType /\ (t.main => tree.main)
    BY <2>1 DEF Shape, Wired
  <2>3. Fits(t, Sections \cup Attached(t))
    BY <2>1, <2>2, <1>0, FitsFrame
  <2>4. CASE tree' = t
    BY <2>3, <2>4
  <2>5. CASE Moves(t, R, dialog.node, p, tree') /\ canInsertSubtree(t, p, dialog.node)
    <3>1. tree'.main => t.main
      BY <2>1
    <3> QED BY <2>1, <2>3, <2>5, <3>1, MovesFits
  <2> QED BY <2>1, <2>4, <2>5
<1>13. ASSUME NEW f \in Fragments, NEW p \in Here, NEW ids \in Identifiers(f), pasteInto(f, ids, p)
       PROVE  Fits(tree', All2)
  <2> DEFINE keep == p = "s5" \/ isUnderSection5(tree, p)
  <2>1. Pastes(tree, R, f, ids, keep, p, tree') /\ PasteAllowed(Grafted(tree, f, ids, keep), ids[1], p)
    BY <1>13, PasteIntoIs DEF R
  <2> HIDE DEF keep
  <2>2. canInsertSubtree(Grafted(tree, f, ids, keep), p, ids[1])
    BY <2>1 DEF PasteAllowed
  <2> QED BY <2>1, <2>2, <1>0, PastesFits
<1>15. CASE \E p \in Placed : \E kind \in Kinds \cap RiskKinds : _showRiskLevelWarning(p, kind)
  BY <1>15, <1>2 DEF _showRiskLevelWarning
<1>16. CASE \E x \in Placed, target \in Here, position \in Positions : _checkMetricsTableDeletion(x, target, position)
  BY <1>16, <1>2 DEF _checkMetricsTableDeletion
<1>17. CASE DialogCancelled
  BY <1>17, <1>2 DEF DialogCancelled
<1>18. CASE \E f \in Fragments, p \in Here : \E ids \in Identifiers(f) : PasteWaits(f, ids, p)
  BY <1>18, <1>2 DEF PasteWaits
<1>19. CASE PasteFails
  BY <1>19, <1>2 DEF PasteFails
<1> HIDE DEF All, All2
<1> QED BY <1>3, <1>4, <1>5, <1>6, <1>7, <1>8, <1>9, <1>10, <1>11, <1>12, <1>13, <1>15, <1>16, <1>17, <1>18,
           <1>19 DEF Next

\* No step makes a node hold more blocks than the server takes, but for the
\* main summary, which is made without asking, and a paste that waited.
THEOREM BlocksStay == Spec => BlocksKept
<1>1. IInv /\ [Next]_vars =>
        [BlocksFit => BlocksFit' \/ (tree'.main /\ ~tree.main) \/ PasteFinishes]_vars
  BY NextKeepsBlocks
<1> QED BY <1>1, Structure, PTL DEF Spec, BlocksKept


-----------------------------------------------------------------------------
(* Banks.                                                                  *)

\* Points are below a node in no more ways than the items of the nodes allow.
LEMMA PointsLess ==
    ASSUME NEW t, Wired(t), NEW u, Wired(u), \A q \in Parents : Items(u, q) \subseteq Items(t, q)
    PROVE  \A q \in Parents : PointsUnder(u)[q] \subseteq PointsUnder(t)[q]
<1>1. /\ ItemGraph(t) \in Graph /\ Grounded(ItemGraph(t)) /\ PointsUnder(t) = Descendants(ItemGraph(t))
      /\ ItemGraph(u) \in Graph /\ PointsUnder(u) = Descendants(ItemGraph(u))
      /\ \A q \in Parents : ItemGraph(t)[q] = Items(t, q) /\ ItemGraph(u)[q] = Items(u, q)
  BY ChildrenType, PointsRules DEF Wired
<1>2. \A q \in Parents : ItemGraph(u)[q] \subseteq ItemGraph(t)[q]
  BY <1>1
<1>3. \A q \in Parents : Descendants(ItemGraph(u))[q] \subseteq Descendants(ItemGraph(t))[q]
  BY <1>1, <1>2, GroundedSubgraph
<1> QED BY <1>1, <1>3

\* The points that come below s with the subtree of x.
LEMMA PointsJoined ==
    ASSUME NEW g, NEW R, Shape(g, R), NEW x \in R, NEW p \in Sections \cup Attached(g), NEW u,
           Joins(g, R, p, x, u), NEW s \in Parents
    PROVE  /\ PointsUnder(u)[s] \subseteq PointsUnder(g)[s] \cup Below(g, x)
           /\ x \notin PointsUnder(u)[s] => PointsUnder(u)[s] \subseteq PointsUnder(g)[s]
<1>1. /\ Wired(u) /\ Wired(g) /\ x \in Nodes /\ p \in Parents /\ u.kind = g.kind /\ p \notin Below(g, x)
      /\ \A q \in Parents : Children(u, q) = IF q = p THEN Children(g, q) \cup {x} ELSE Children(g, q)
  <2>1. IsJoined(g, R, p, x, u)
    BY JoinsFacts
  <2> QED BY <2>1 DEF IsJoined, Shape
<1>2. \A q \in Parents : /\ Items(u, q) \subseteq Items(g, q) \cup {x}
                         /\ q # p => Items(u, q) = Items(g, q)
  BY <1>1 DEF Items, IsItem
<1> DEFINE next == ItemGraph(u)
<1>3. /\ next \in Graph /\ Grounded(next) /\ PointsUnder(u) = Descendants(next)
      /\ \A q \in Parents : next[q] = Items(u, q)
      /\ \A q \in Parents : Items(u, q) \subseteq PointsUnder(u)[q] /\ PointsUnder(u)[q] \subseteq Parents
      /\ \A q \in Parents : \A y \in PointsUnder(u)[q] : Items(u, y) \subseteq PointsUnder(u)[q]
  BY <1>1, ChildrenType, PointsRules, ParentsNodes DEF Wired
<1> HIDE DEF next
<1>4. /\ \A q \in Parents : Items(g, q) \subseteq PointsUnder(g)[q] /\ PointsUnder(g)[q] \subseteq Parents
      /\ \A q \in Parents : \A y \in PointsUnder(g)[q] : Items(g, y) \subseteq PointsUnder(g)[q]
  BY <1>1, PointsRules, ParentsNodes
<1>5. Below(g, x) \subseteq Parents /\ x \in Below(g, x) /\ \A y \in Below(g, x) : Children(g, y) \subseteq Below(g, x)
  <2>1. x \in Parents
    BY <1>1, ParentsNodes
  <2> QED BY <2>1, <1>1, UnderRules, ParentsNodes DEF Below
<1>6. PointsUnder(u)[s] \subseteq PointsUnder(g)[s] \cup Below(g, x)
  <2> DEFINE S == PointsUnder(g)[s] \cup Below(g, x)
  <2>1. S \in SUBSET Parents
    BY <1>4, <1>5
  <2>2. next[s] \subseteq S
    BY <1>2, <1>3, <1>4, <1>5
  <2>3. ASSUME NEW q \in S PROVE next[q] \subseteq S
    <3>0. q \in Parents
      BY <2>1
    <3>1. CASE q \in Below(g, x)
      <4>1. q # p
        BY <3>1, <1>1
      <4>2. Items(u, q) \subseteq Children(g, q)
        BY <4>1, <3>0, <1>2 DEF Items
      <4> QED BY <4>2, <3>0, <3>1, <1>3, <1>5
    <3>2. CASE q \in PointsUnder(g)[s]
      BY <3>0, <3>2, <1>2, <1>3, <1>4, <1>5
    <3> QED BY <3>1, <3>2
  <2> HIDE DEF S
  <2>4. Descendants(next)[s] \subseteq S
    BY <2>1, <2>2, <2>3, <1>3, DescendantsLeast
  <2> QED BY <2>4, <1>3 DEF S
<1>7. ASSUME x \notin PointsUnder(u)[s] PROVE PointsUnder(u)[s] \subseteq PointsUnder(g)[s]
  <2> DEFINE S == PointsUnder(g)[s] \cap PointsUnder(u)[s]
  <2>1. S \in SUBSET Parents
    BY <1>4
  <2>2. next[s] \subseteq S
    BY <1>2, <1>3, <1>4, <1>7
  <2>3. ASSUME NEW q \in S PROVE next[q] \subseteq S
    <3>0. q \in Parents
      BY <2>1
    <3> QED BY <3>0, <1>2, <1>3, <1>4, <1>7
  <2> HIDE DEF S
  <2>4. Descendants(next)[s] \subseteq S
    BY <2>1, <2>2, <2>3, <1>3, DescendantsLeast
  <2> QED BY <2>4, <1>3 DEF S
<1> QED BY <1>6, <1>7

\* A node created changes no points.
LEMMA CreatedPoints ==
    ASSUME NEW t, NEW R, Shape(t, R), NEW x, NEW kind, NEW g, IsCreated(t, R, x, kind, g)
    PROVE  /\ \A q \in Parents : Items(g, q) = Items(t, q)
           /\ \A q \in Parents : PointsUnder(g)[q] = PointsUnder(t)[q]
<1>1. g.kids = t.kids /\ (\A q \in Parents : x \notin Children(t, q)) /\ (\A y \in Parents : y # x => g.kind[y] = t.kind[y])
      /\ Wired(g) /\ Wired(t) /\ t \in TreeType
  BY DEF IsCreated, Shape, Wired
<1>2. \A q : Children(g, q) = Children(t, q)
  BY <1>1, SameWires
<1>3. \A q \in Parents : Children(t, q) \subseteq Parents
  BY <1>1, ChildrenType, ParentsNodes
<1>4. \A q \in Parents : Items(g, q) = Items(t, q)
  BY <1>1, <1>2, <1>3 DEF Items, IsItem
<1>5. \A q \in Parents : PointsUnder(g)[q] \subseteq PointsUnder(t)[q] /\ PointsUnder(t)[q] \subseteq PointsUnder(g)[q]
  BY <1>1, <1>4, PointsLess
<1> QED BY <1>4, <1>5

\* A node taken out leaves fewer points.
LEMMA DetachedPoints ==
    ASSUME NEW t, NEW R, Shape(t, R), NEW x, NEW off, IsDetached(t, R, x, off)
    PROVE  /\ \A q \in Parents : Items(off, q) = Items(t, q) \ {x}
           /\ \A q \in Parents : PointsUnder(off)[q] \subseteq PointsUnder(t)[q]
<1>1. off.kind = t.kind /\ (\A q \in Parents : Children(off, q) = Children(t, q) \ {x}) /\ Wired(off) /\ Wired(t)
  BY DEF IsDetached, Shape
<1>2. \A q \in Parents : Items(off, q) = Items(t, q) \ {x}
  BY <1>1 DEF Items, IsItem
<1>3. \A q \in Parents : PointsUnder(off)[q] \subseteq PointsUnder(t)[q]
  BY <1>1, <1>2, PointsLess
<1> QED BY <1>2, <1>3

\* A numbered point stays so, unless it comes to the Process Mining point.
LEMMA LevelStays ==
    ASSUME NEW t, Numbered(t), NEW g, NEW u, Wired(u), Numbered(u), KeepsLevels(g, u), NEW y \in Parents,
           g.level[y] = t.level[y], t.level[y] >= 1, y \in PointsUnder(u)["pm"] => y \in PointsUnder(t)["pm"]
    PROVE  u.level[y] >= 1
<1>1. CASE y \in PointsUnder(u)["s5"]
  <2> DEFINE A == {a \in PointsBelow(u, "s5") : y \in PointsBelow(u, a)}
  <2>1. u.level[y] = 1 + Cardinality(A)
    BY <1>1, Zenon DEF Numbered, PointsBelow
  <2>2. A \in SUBSET Parents
    BY PointsRules, ParentsNodes DEF PointsBelow
  <2> HIDE DEF A
  <2>3. Cardinality(A) \in Nat
    BY <2>2, ParentsNodes, FS_Subset, FS_CardinalityType
  <2> QED BY <2>1, <2>3
<1>2. CASE y \in PointsUnder(u)["pm"]
  <2>1. t.level[y] = 0
    BY <1>2 DEF Numbered, PointsBelow
  <2> QED BY <2>1
<1>3. CASE y \notin PointsUnder(u)["s5"] \cup PointsUnder(u)["pm"]
  BY <1>3 DEF KeepsLevels
<1> QED BY <1>1, <1>2, <1>3

\* A node added leaves banks on leaves only, unless it is a point below one.
LEMMA AddsLeaves ==
    ASSUME NEW t, NEW R, Shape(t, R), Numbered(t), NEW p \in Sections \cup Attached(t), NEW x, NEW kind, NEW u,
           Adds(t, R, p, x, kind, u), TbOnLeaves(t), kind = "item" => ~(p \in t.tb /\ p \in Attached(t))
    PROVE  TbOnLeaves(u)
<1>1. PICK g : IsCreated(t, R, x, kind, g) /\ Joins(g, R \cup {x}, p, x, u) /\ u.tb = t.tb
  BY DEF Adds
<1>2. /\ Shape(g, R \cup {x}) /\ g.level = t.level /\ g.kind[x] = kind /\ Below(g, x) = {x} /\ Attached(g) = Attached(t)
      /\ x \notin Attached(t) /\ \A y \in Parents : y # x => g.kind[y] = t.kind[y]
  <2>1. /\ Shape(g, R \cup {x}) /\ g.level = t.level /\ g.kind[x] = kind /\ Below(t, x) = {x} /\ g.kids = t.kids
        /\ x \notin Attached(t) /\ \A y \in Parents : y # x => g.kind[y] = t.kind[y]
    BY <1>1 DEF IsCreated
  <2> QED BY <2>1, SameWires
<1>3. x \in R \cup {x} /\ p \in Sections \cup Attached(g)
  BY <1>2
<1>4. IsJoined(g, R \cup {x}, p, x, u)
  BY <1>1, <1>2, <1>3, JoinsFacts
<1>5. /\ Wired(u) /\ Numbered(u) /\ u.kind = g.kind /\ Attached(u) = Attached(t) \cup {x} /\ KeepsLevels(g, u)
      /\ \A q \in Parents : Children(u, q) = IF q = p THEN Children(g, q) \cup {x} ELSE Children(g, q)
  BY <1>2, <1>4 DEF IsJoined
<1>6. x \notin t.tb
  <2>1. \A p2 \in Parents : x \notin Children(t, p2) /\ x \notin Under(t)[p2]
    BY <1>1 DEF IsCreated
  <2>2. x \in Nodes /\ x \notin R
    BY <1>1 DEF IsCreated, Shape, Loose
  <2>3. x \notin Alive(t, R)
    <3>1. \A r \in R : r \in Parents
      BY ParentsNodes DEF Shape, Loose
    <3> QED BY <3>1, <2>1, <2>2, <1>2 DEF Alive, BelowAll, Below
  <2> QED BY <2>2, <2>3 DEF Shape, Clean
<1>7. /\ \A q \in Parents : Items(g, q) = Items(t, q)
      /\ \A q \in Parents : PointsUnder(g)[q] = PointsUnder(t)[q]
  BY <1>1, CreatedPoints
<1>8. ASSUME NEW y \in u.tb \cap Attached(u) PROVE isTbLeaf(u, y)
  <2>1. y \in t.tb /\ y \in Attached(t) /\ y # x
    BY <1>1, <1>5, <1>6
  <2>2. y \in Parents /\ "pm" \in Parents
    <3>1. Wired(t)
      BY DEF Shape
    <3> QED BY <2>1, <3>1, AttachedDown, ParentsNodes
  <2>3. IsItem(t, y) /\ t.level[y] >= 1 /\ Items(t, y) = {}
    BY <2>1 DEF TbOnLeaves, isTbLeaf, isUnderSection5
  <2>4. IsItem(u, y)
    BY <2>1, <2>2, <2>3, <1>2, <1>5 DEF IsItem
  <2>5. Items(u, y) = {}
    <3>1. CASE y = p
      <4>1. kind # "item"
        BY <2>1, <3>1
      <4>2. Items(u, y) \subseteq Items(g, y)
        BY <4>1, <2>2, <1>2, <1>5 DEF Items, IsItem
      <4> QED BY <4>2, <2>2, <2>3, <1>7
    <3>2. CASE y # p
      <4>1. Items(u, y) = Items(g, y)
        BY <3>2, <2>2, <1>5 DEF Items, IsItem
      <4> QED BY <4>1, <2>2, <2>3, <1>7
    <3> QED BY <3>1, <3>2
  <2>6. PointsUnder(u)["pm"] \subseteq PointsUnder(g)["pm"] \cup {x}
    BY <2>2, <1>1, <1>2, <1>3, PointsJoined
  <2>7. u.level[y] >= 1
    BY <2>1, <2>2, <2>3, <2>6, <1>2, <1>5, <1>7, LevelStays
  <2> QED BY <2>4, <2>5, <2>7 DEF isTbLeaf, isUnderSection5
<1> QED BY <1>8 DEF TbOnLeaves

\* A deletion leaves banks on leaves only.
LEMMA DeletesLeaves ==
    ASSUME NEW t, NEW R, Shape(t, R), Numbered(t), NEW x \in Attached(t), NEW u, NEW left, Deletes(t, R, x, u, left),
           TbOnLeaves(t)
    PROVE  TbOnLeaves(u)
<1>1. PICK off, clean :
        /\ IsDetached(t, R, x, off)
        /\ Shape(clean, R \cup {x}) /\ Numbered(clean) /\ SameNodes(off, clean)
        /\ IsTidied(clean, left, u)
  BY DEF Deletes
<1>2. /\ off.kind = t.kind /\ off.level = t.level /\ off.tb = t.tb /\ Attached(off) = Attached(t) \ Below(t, x)
      /\ Wired(clean) /\ Wired(off)
  BY <1>1 DEF IsDetached, Shape
<1>3. /\ clean.kids = off.kids /\ clean.kind = off.kind /\ clean.tb = off.tb /\ PointsUnder(clean) = PointsUnder(off)
      /\ KeepsLevels(off, clean)
  BY <1>1 DEF SameNodes
<1>4. /\ Attached(u) = Attached(clean) /\ u.tb \subseteq clean.tb
      /\ \A q \in Sections \cup Attached(clean) : u.kind[q] = clean.kind[q] /\ u.level[q] = clean.level[q]
                                                   /\ Items(u, q) = Items(clean, q) /\ q \in Parents
  BY <1>1 DEF IsTidied, Alive
<1>5. /\ \A q \in Parents : Items(off, q) = Items(t, q) \ {x}
      /\ \A q \in Parents : PointsUnder(off)[q] \subseteq PointsUnder(t)[q]
  BY <1>1, DetachedPoints
<1>6. Attached(clean) = Attached(off) /\ \A q : Items(clean, q) = Items(off, q)
  BY <1>3, SameWires, SamePoints
<1>7. ASSUME NEW y \in u.tb \cap Attached(u) PROVE isTbLeaf(u, y)
  <2>1. y \in Attached(clean) /\ y \in t.tb /\ y \in Attached(t) /\ y \in Parents /\ "pm" \in Parents
    BY <1>2, <1>3, <1>4, <1>6, ParentsNodes
  <2>2. IsItem(t, y) /\ t.level[y] >= 1 /\ Items(t, y) = {}
    BY <2>1 DEF TbOnLeaves, isTbLeaf, isUnderSection5
  <2>3. clean.level[y] >= 1
    BY <2>1, <2>2, <1>1, <1>2, <1>3, <1>5, LevelStays
  <2>4. IsItem(u, y) /\ Items(u, y) = {} /\ u.level[y] >= 1
    BY <2>1, <2>2, <2>3, <1>2, <1>3, <1>4, <1>5, <1>6 DEF IsItem
  <2> QED BY <2>4 DEF isTbLeaf, isUnderSection5
<1> QED BY <1>7 DEF TbOnLeaves

\* The tree of a move before the summaries are looked at.
IsThere(t, R, x, there, u) ==
    /\ Shape(there, R) /\ Numbered(there) /\ PointsUnder(there) = PointsUnder(u) /\ there.kind = t.kind
    /\ Below(there, x) = Below(t, x) /\ \A q : Items(there, q) = Items(u, q)

\* The tree of a move before its summaries has the points of the one after.
LEMMA MovedThere ==
    ASSUME NEW t, NEW R, Shape(t, R), NEW x \in Attached(t), NEW target \in Sections \cup Attached(t),
           target \notin Below(t, x), NEW position, _determineNewParent(t, target, position) # "root"
    PROVE  IsThere(t, R, x, generateNumbering(_performMove(t, x, target, position)), Moved(t, x, target, position))
<1> DEFINE p == _determineNewParent(t, target, position)
           off == Detached(t, x)
           u == Moved(t, x, target, position)
           there == generateNumbering(_performMove(t, x, target, position))
<1>1. p \in Sections \cup Attached(off)
      /\ \E k \in 0 .. Len(off.kids[p]) : _performMove(t, x, target, position) = InsertedAt(off, p, k, x)
  BY MoveTarget
<1>2. PICK k \in 0 .. Len(off.kids[p]) : _performMove(t, x, target, position) = InsertedAt(off, p, k, x)
  BY <1>1
<1>3. Moves(t, R, x, p, u)
  BY MovedIs
<1>a. IsDetached(t, R, x, off)
  BY ShapeDetached
<1>b. Joins(off, R \cup {x}, p, x, u)
  BY JoinsMoved, Zenon
<1>c. there = generateNumbering(InsertedAt(off, p, k, x))
  BY <1>2
<1> HIDE DEF off, u, p, there
<1>4. Shape(off, R \cup {x}) /\ x \notin R /\ off.kind = t.kind /\ x \in R \cup {x} /\ Below(off, x) = Below(t, x)
  BY <1>a DEF IsDetached
<1>5. PlainJoin(off, R \cup {x}, p, x, there)
  BY <1>1, <1>4, <1>c, JoinsNumbered
<1>6. IsJoined(off, R \cup {x}, p, x, there)
  BY <1>1, <1>4, <1>5, JoinsFacts DEF PlainJoin
<1>7. IsJoined(off, R \cup {x}, p, x, u)
  BY <1>1, <1>4, <1>b, JoinsFacts
<1>8. (R \cup {x}) \ {x} = R
  BY <1>4
<1>9. /\ Shape(there, R) /\ Numbered(there) /\ there.kind = off.kind /\ Below(there, x) = Below(off, x)
      /\ \A q \in Parents : Children(there, q) = IF q = p THEN Children(off, q) \cup {x} ELSE Children(off, q)
  BY <1>6, <1>8 DEF IsJoined
<1>10. /\ u.kind = off.kind
       /\ \A q \in Parents : Children(u, q) = IF q = p THEN Children(off, q) \cup {x} ELSE Children(off, q)
  BY <1>7 DEF IsJoined
<1>11. there.kids = u.kids
  <2>1. _reconcileMetricsTablesAfterMove([there EXCEPT !.tb = @ \ Cleared(t, x, target, position)], x,
              _findFirstLevelAncestorUnder5(t, x)) = u
    BY DEF Moved, Cleared, u, there
  <2> DEFINE banked == [there EXCEPT !.tb = @ \ Cleared(t, x, target, position)]
  <2>2. there \in TreeType
    BY <1>9 DEF Shape, Wired
  <2>3. /\ banked \in TreeType /\ banked.kids = there.kids /\ banked.kind = there.kind /\ banked.level = there.level
        /\ banked.tb = there.tb \ Cleared(t, x, target, position) /\ banked.summary = there.summary
    BY <2>2 DEF TreeType
  <2>4. _reconcileMetricsTablesAfterMove(banked, x, _findFirstLevelAncestorUnder5(t, x)) = u
    BY <2>1
  <2> HIDE DEF banked
  <2>5. Shape(banked, R)
    <3>1. \A y \in banked.summary \cup banked.tb : IsItem(there, y)
      BY <2>3, <1>9, MarkedItems
    <3> QED BY <3>1, <2>3, <1>9, ShapeMarked
  <2>6. SameNodes(banked, u)
    BY <2>4, <2>5, ShapeReconcile
  <2> QED BY <2>3, <2>6 DEF SameNodes
<1>12. PointsUnder(there) = PointsUnder(u) /\ \A q : Items(there, q) = Items(u, q)
  BY <1>9, <1>10, <1>11, SamePoints
<1> QED BY <1>4, <1>9, <1>12 DEF IsThere, there, u

\* A move leaves banks on leaves only, unless it is next to content.
LEMMA MovesLeaves ==
    ASSUME NEW t, NEW R, Shape(t, R), Numbered(t), NEW x \in Attached(t), NEW target \in Sections \cup Attached(t),
           target \notin Below(t, x), NEW position, _determineNewParent(t, target, position) # "root",
           position # "child" => IsItem(t, target), TbOnLeaves(t)
    PROVE  TbOnLeaves(Moved(t, x, target, position))
<1> DEFINE p == _determineNewParent(t, target, position)
           u == Moved(t, x, target, position)
           there == generateNumbering(_performMove(t, x, target, position))
           cleared == Cleared(t, x, target, position)
<1>1. Moves(t, R, x, p, u) /\ u.tb = t.tb \ cleared
  BY MovedIs
<1>2. IsThere(t, R, x, there, u)
  BY MovedThere
<1>3. position # "child" => target \in Children(t, p)
  BY MoveTarget
<1>4. /\ position = "child" /\ IsItem(t, x) /\ isTbLeaf(t, p) => p \in cleared
      /\ ~isUnderSection5(there, x) => Below(there, x) \subseteq cleared
  BY DEF Cleared
<1> HIDE DEF u, p, there, cleared
<1>5. PICK off : IsDetached(t, R, x, off) /\ Joins(off, R \cup {x}, p, x, u) /\ p \in Sections \cup Attached(off)
  BY <1>1 DEF Moves
<1>6. /\ Shape(off, R \cup {x}) /\ off.kind = t.kind /\ off.level = t.level /\ Below(off, x) = Below(t, x)
      /\ Wired(t) /\ x \in R \cup {x}
  BY <1>5 DEF IsDetached, Shape
<1>7. IsJoined(off, R \cup {x}, p, x, u)
  BY <1>5, <1>6, JoinsFacts
<1>8. /\ Wired(u) /\ Numbered(u) /\ u.kind = t.kind /\ KeepsLevels(off, u) /\ Attached(u) = Attached(t)
      /\ \A q \in Parents : Children(u, q) = IF q = p THEN Children(off, q) \cup {x} ELSE Children(off, q)
  <2>1. Attached(u) = Attached(t)
    BY <1>1, MovesKeep
  <2> QED BY <2>1, <1>6, <1>7 DEF IsJoined
<1>9. /\ \A q \in Parents : Items(off, q) = Items(t, q) \ {x}
      /\ \A q \in Parents : PointsUnder(off)[q] \subseteq PointsUnder(t)[q]
  BY <1>5, DetachedPoints
<1>10. ASSUME NEW y \in u.tb \cap Attached(u) PROVE isTbLeaf(u, y)
  <2>1. y \in t.tb /\ y \in Attached(t) /\ y \notin cleared /\ y \in Parents /\ "pm" \in Parents
    BY <1>1, <1>6, <1>8, AttachedDown, ParentsNodes
  <2>2. IsItem(t, y) /\ t.level[y] >= 1 /\ Items(t, y) = {} /\ isTbLeaf(t, y)
    BY <2>1 DEF TbOnLeaves, isTbLeaf, isUnderSection5
  <2>3. IsItem(u, y)
    BY <2>2, <1>8 DEF IsItem
  <2>4. Items(u, y) = {}
    <3>1. CASE y = p /\ IsItem(t, x)
      <4>1. position # "child"
        BY <3>1, <2>1, <2>2, <1>4
      <4>2. target \in Items(t, p)
        BY <4>1, <1>3 DEF Items
      <4> QED BY <4>2, <3>1, <2>2
    <3>2. CASE ~(y = p /\ IsItem(t, x))
      <4>1. Items(u, y) \subseteq Items(off, y)
        BY <3>2, <2>1, <1>6, <1>8 DEF Items, IsItem
      <4> QED BY <4>1, <2>1, <2>2, <1>9
    <3> QED BY <3>1, <3>2
  <2>5. ASSUME y \in PointsUnder(u)["pm"] PROVE y \in PointsUnder(t)["pm"]
    <3>1. /\ PointsUnder(u)["pm"] \subseteq PointsUnder(off)["pm"] \cup Below(off, x)
          /\ x \notin PointsUnder(u)["pm"] => PointsUnder(u)["pm"] \subseteq PointsUnder(off)["pm"]
      BY <2>1, <1>5, <1>6, PointsJoined
    <3>2. ASSUME x \in PointsUnder(u)["pm"] PROVE y \notin Below(off, x)
      <4>1. there.level[x] = 0
        BY <3>2, <1>2 DEF IsThere, Numbered, PointsBelow
      <4>2. ~isUnderSection5(there, x)
        BY <4>1 DEF isUnderSection5
      <4>3. Below(off, x) \subseteq cleared
        BY <4>2, <1>2, <1>4, <1>6 DEF IsThere
      <4> QED BY <4>3, <2>1
    <3>3. y \in PointsUnder(off)["pm"]
      BY <3>1, <3>2, <2>5
    <3> QED BY <3>3, <2>1, <1>9
  <2>6. u.level[y] >= 1
    BY <2>1, <2>2, <2>5, <1>6, <1>8, LevelStays
  <2> QED BY <2>3, <2>4, <2>6 DEF isTbLeaf, isUnderSection5
<1>11. TbOnLeaves(u)
  BY <1>10 DEF TbOnLeaves
<1> QED BY <1>11 DEF u

\* The same wires and levels, and no bank more.
LEMMA LeavesFrame ==
    ASSUME NEW t, NEW u, u.kids = t.kids, u.kind = t.kind, u.level = t.level,
           \A y \in u.tb \cap Attached(t) : isTbLeaf(t, y)
    PROVE  TbOnLeaves(u)
<1>1. Attached(u) = Attached(t) /\ \A y : Items(u, y) = Items(t, y)
  BY SameWires, SamePoints
<1> QED BY <1>1 DEF TbOnLeaves, isTbLeaf, isUnderSection5, IsItem

\* Every step keeps banks on leaves, with the exceptions of TbKept.
LEMMA NextKeepsTb ==
    ASSUME IInv, Next, TbOnLeaves(tree), ~AnyPaste, ~BesideContent, ~DropBesideContent, ~MoveConfirmed, ~undoLast
    PROVE  TbOnLeaves(tree')
<1> DEFINE R == Loosened(undo)
<1>0. /\ Shape(tree, R) /\ Numbered(tree) /\ Placed = Attached(tree) /\ Here = Sections \cup Attached(tree)
      /\ Wired(tree)
  BY DEF IInv, Placed, Here, Shape
<1> HIDE DEF R
<1>1. ASSUME tree' = tree PROVE TbOnLeaves(tree')
  BY <1>1
<1>2. ASSUME NEW p \in Sections \cup Attached(tree), NEW x, NEW kind, Adds(tree, R, p, x, kind, tree'), kind # "item"
      PROVE  TbOnLeaves(tree')
  BY <1>0, <1>2, AddsLeaves
<1>3. ASSUME NEW p \in Here, NEW x \in Fresh, handleAddChild(p, x) PROVE TbOnLeaves(tree')
  <2>1. PICK t : /\ Shape(t, R) /\ t.kids = tree.kids /\ t.kind = tree.kind /\ t.level = tree.level
                 /\ t.tb = (IF isTbLeaf(tree, p) THEN tree.tb \ {p} ELSE tree.tb)
                 /\ Adds(t, R, p, x, "item", tree') /\ p \in Sections \cup Attached(t)
    BY <1>3, AddChildIs DEF R
  <2>2. Numbered(t)
    BY <2>1, <1>0, NumberedFrame DEF Shape
  <2>3. \A y \in t.tb \cap Attached(tree) : isTbLeaf(tree, y)
    BY <2>1 DEF TbOnLeaves
  <2>4. TbOnLeaves(t)
    BY <2>1, <2>3, LeavesFrame
  <2>5. ~(p \in t.tb /\ p \in Attached(t))
    <3>1. Attached(t) = Attached(tree)
      BY <2>1, SameWires
    <3> QED BY <3>1, <2>1 DEF TbOnLeaves
  <2> QED BY <2>1, <2>2, <2>4, <2>5, AddsLeaves
<1>4. ASSUME NEW p \in Here, NEW x \in Fresh, NEW i \in 0 .. Len(tree.kids[p]), handleAddSibling(p, i, x)
      PROVE  TbOnLeaves(tree')
  <2>1. Adds(tree, R, p, x, "item", tree')
    BY <1>4, AddSiblingIs DEF R
  <2>2. ~(p \in tree.tb /\ p \in Attached(tree))
    <3>1. i # 0 /\ tree.kind[tree.kids[p][i]] = "item"
      BY <1>4 DEF BesideContent
    <3>2. p \in Parents /\ tree \in TreeType
      BY <1>0, AttachedDown DEF Wired
    <3>3. tree.kids[p] \in Seq(Nodes)
      BY <3>2, TreeFields
    <3>4. tree.kids[p][i] \in Items(tree, p)
      BY <3>1, <3>3 DEF Items, Children, Range, IsItem
    <3> QED BY <3>4 DEF TbOnLeaves, isTbLeaf
  <2> QED BY <2>1, <2>2, <1>0, AddsLeaves
<1>5. ASSUME NEW p \in Here, NEW x \in Fresh, NEW kind \in Kinds \ RiskKinds, AddContent(p, kind, x)
      PROVE  TbOnLeaves(tree')
  <2>1. Adds(tree, R, p, x, kind, tree')
    BY <1>5, AddContentIs DEF R
  <2>2. kind # "item"
    BY TreeAssumption
  <2> QED BY <2>1, <2>2, <1>0, <1>2
<1>6. ASSUME NEW p \in Placed, NEW x \in Fresh, NEW kind \in Kinds \cap RiskKinds,
             _handleRiskTableAction(p, kind, x)
      PROVE  TbOnLeaves(tree')
  <2>1. p \in Attached(tree) /\ Adds(tree, R, p, x, kind, tree')
    BY <1>6, RiskActionIs DEF R
  <2>2. kind # "item"
    BY DEF RiskKinds
  <2> QED BY <2>1, <2>2, <1>2
<1>7. ASSUME NEW x \in Fresh, RiskLevelWarningRead(x) PROVE TbOnLeaves(tree')
  <2>1. dialog.node \in Attached(tree) /\ (tree' = tree \/ Adds(tree, R, dialog.node, x, dialog.kind, tree'))
    BY <1>7, RiskReadIs DEF R
  <2>2. dialog.kind # "item"
    BY RiskReadIs, <1>7 DEF RiskKinds
  <2> QED BY <2>1, <2>2, <1>1, <1>2
<1>8. ASSUME NEW x \in Placed, setNodeTb(x) PROVE TbOnLeaves(tree')
  <2>1. /\ tree' = [tree EXCEPT !.tb = IF x \in @ THEN @ \ {x} ELSE @ \cup {x}]
        /\ isTbLeaf(tree, x) /\ tree \in TreeType
    BY <1>8, <1>0 DEF setNodeTb, Wired
  <2>2. /\ tree'.kids = tree.kids /\ tree'.kind = tree.kind /\ tree'.level = tree.level
        /\ tree'.tb \subseteq tree.tb \cup {x}
    BY <2>1 DEF TreeType
  <2>3. \A y \in tree'.tb \cap Attached(tree) : isTbLeaf(tree, y)
    BY <2>1, <2>2 DEF TbOnLeaves
  <2> QED BY <2>2, <2>3, LeavesFrame
<1>9. ASSUME NEW x \in Placed, deleteNode(x) PROVE TbOnLeaves(tree')
  <2>1. Deletes(tree, R, x, tree', undo')
    BY <1>9, DeleteIs DEF R
  <2> QED BY <2>1, <1>0, DeletesLeaves
<1>11. ASSUME NEW x \in Placed, NEW target \in Here, NEW position \in Positions, moveNode(x, target, position)
       PROVE  TbOnLeaves(tree')
  <2>1. /\ target \notin Below(tree, x) /\ _determineNewParent(tree, target, position) # "root"
        /\ tree' = Moved(tree, x, target, position)
    BY <1>11 DEF moveNode, CanDrop, IsRisk, MoveAllowed
  <2>2. position # "child" => IsItem(tree, target)
    <3>1. SUFFICES ASSUME position # "child" PROVE IsItem(tree, target)
      OBVIOUS
    <3>2. position \in {"before", "after"}
      BY <3>1 DEF Positions
    <3>3. target \in Placed
      BY <3>1, <2>1, <1>0 DEF _determineNewParent
    <3> QED BY <3>2, <3>3, <1>11 DEF DropBesideContent, IsItem
  <2>3. x \in Attached(tree) /\ target \in Sections \cup Attached(tree)
    BY <1>0
  <2> QED BY <2>1, <2>2, <2>3, <1>0, MovesLeaves
<1>15. CASE \E p \in Placed : \E kind \in Kinds \cap RiskKinds : _showRiskLevelWarning(p, kind)
  BY <1>15, <1>1 DEF _showRiskLevelWarning
<1>16. CASE \E x \in Placed, target \in Here, position \in Positions : _checkMetricsTableDeletion(x, target, position)
  BY <1>16, <1>1 DEF _checkMetricsTableDeletion
<1>17. CASE DialogCancelled
  BY <1>17, <1>1 DEF DialogCancelled
<1>18. CASE \E f \in Fragments, p \in Here : \E ids \in Identifiers(f) : PasteWaits(f, ids, p)
  BY <1>18, <1>1 DEF PasteWaits
<1>19. CASE PasteFails
  BY <1>19, <1>1 DEF PasteFails
<1>20. ~PasteFinishes /\ ~(\E f \in Fragments, p \in Here : \E ids \in Identifiers(f) : pasteInto(f, ids, p))
  BY DEF AnyPaste
<1> QED BY <1>3, <1>4, <1>5, <1>6, <1>7, <1>8, <1>9, <1>11, <1>15, <1>16, <1>17, <1>18, <1>19, <1>20 DEF Next

\* Banks stay on the leaves of section 5 whatever is added, deleted or moved,
\* but for the steps that are known to leave one on a parent.
THEOREM TbStays == Spec => TbKept
<1>1. IInv /\ [Next]_vars =>
        [TbOnLeaves(tree) =>
          TbOnLeaves(tree') \/ AnyPaste \/ BesideContent \/ DropBesideContent
            \/ MoveConfirmed \/ undoLast]_vars
  BY NextKeepsTb
<1> QED BY <1>1, Structure, PTL DEF Spec, TbKept

-----------------------------------------------------------------------------
(* Depth.                                                                  *)

Above(t, y) == {a \in Parents : y \in Under(t)[a]}

\* The nodes of the subtree of x that have y below them.
Inner(t, x, y) == {a \in Below(t, x) : y \in Under(t)[a]}

\* A node below fewer others is no deeper.
LEMMA DepthLess ==
    ASSUME NEW t, NEW u, NEW y, Above(u, y) \subseteq Above(t, y)
    PROVE  getNodeDepth(u, y) <= getNodeDepth(t, y) /\ getNodeDepth(u, y) \in Nat /\ getNodeDepth(t, y) \in Nat
<1>1. IsFiniteSet(Parents)
  BY ParentsNodes
<1>2. Above(t, y) \in SUBSET Parents /\ Above(u, y) \in SUBSET Above(t, y)
  BY DEF Above
<1>3. IsFiniteSet(Above(t, y))
  BY <1>1, <1>2, FS_Subset
<1>4. IsFiniteSet(Above(u, y)) /\ Cardinality(Above(u, y)) <= Cardinality(Above(t, y))
  BY <1>2, <1>3, FS_Subset
<1>5. Cardinality(Above(u, y)) \in Nat /\ Cardinality(Above(t, y)) \in Nat
  BY <1>3, <1>4, FS_CardinalityType
<1>6. getNodeDepth(u, y) = 1 + Cardinality(Above(u, y)) /\ getNodeDepth(t, y) = 1 + Cardinality(Above(t, y))
  BY DEF getNodeDepth, Above
<1> HIDE DEF Above
<1> QED BY <1>4, <1>5, <1>6

\* The depth of a subtree is the number of steps to its deepest point.
LEMMA SubtreeDepthIs ==
    ASSUME NEW t, Wired(t), NEW x \in Nodes
    PROVE  /\ getSubtreeDepth(t, x) \in Nat
           /\ \A y \in PointsBelow(t, x) : Steps(t, x, y) \in Nat /\ Steps(t, x, y) <= getSubtreeDepth(t, x)
<1> DEFINE P == {x} \cup PointsBelow(t, x)
           above(y) == {a \in P : y \in PointsBelow(t, a)}
           n == Cardinality(Nodes)
           S == {Steps(t, x, y) + 1 : y \in P}
<1>1. P \in SUBSET Nodes /\ IsFiniteSet(Nodes) /\ n \in Nat /\ x \in P
  <2>1. P \subseteq Nodes
    BY PointsRules, ParentsNodes DEF PointsBelow
  <2> QED BY <2>1, TreeAssumption, FS_CardinalityType
<1>2. ASSUME NEW y PROVE Steps(t, x, y) \in 0 .. n
  <2>1. above(y) \in SUBSET Nodes
    BY <1>1
  <2>2. IsFiniteSet(above(y)) /\ Cardinality(above(y)) <= n
    BY <2>1, <1>1, FS_Subset
  <2>3. Cardinality(above(y)) \in Nat
    BY <2>2, FS_CardinalityType
  <2>4. Steps(t, x, y) = Cardinality(above(y))
    BY DEF Steps
  <2> HIDE DEF above
  <2> QED BY <2>2, <2>3, <2>4, <1>1
<1> HIDE DEF n, P
<1>3. S \subseteq 1 .. (n + 1) /\ S # {} /\ n + 1 \in Nat
  <2>1. \A y \in P : Steps(t, x, y) + 1 \in 1 .. (n + 1)
    BY <1>1, <1>2
  <2> QED BY <2>1, <1>1
<1>4. PICK m \in S : \A s \in S : s <= m
  BY <1>3, GreatestOf
<1>5. PICK y \in P : m = Steps(t, x, y) + 1
  OBVIOUS
<1>6. \A z \in P : Steps(t, x, z) + 1 <= Steps(t, x, y) + 1
  BY <1>4, <1>5
<1> HIDE DEF S
<1>7. \A z \in P : Steps(t, x, z) <= Steps(t, x, y)
  BY <1>2, <1>6
<1> DEFINE Is(d) == /\ \E z \in {x} \cup PointsBelow(t, x) : Steps(t, x, z) = d
                    /\ \A z \in PointsBelow(t, x) : Steps(t, x, z) <= d
<1>8. \E d \in 0 .. n : Is(d)
  BY <1>2, <1>7 DEF P
<1>9. getSubtreeDepth(t, x) = CHOOSE d \in 0 .. n : Is(d)
  BY DEF getSubtreeDepth, n
<1>10. getSubtreeDepth(t, x) \in 0 .. n /\ Is(getSubtreeDepth(t, x))
  BY <1>8, <1>9
<1> QED BY <1>1, <1>2, <1>10

\* A point is as deep below x as the subtree of x at most.
LEMMA DepthInside ==
    ASSUME NEW t, Wired(t), NEW x \in Nodes, LeafContent(t, x), NEW y \in Below(t, x), IsItem(t, y)
    PROVE  /\ IsFiniteSet(Inner(t, x, y)) /\ Cardinality(Inner(t, x, y)) \in Nat
           /\ getSubtreeDepth(t, x) \in Nat /\ Cardinality(Inner(t, x, y)) <= getSubtreeDepth(t, x)
<1>1. x \in Parents /\ IsFiniteSet(Parents) /\ Nodes \subseteq Parents
  BY ParentsNodes
<1>2. Below(t, x) \subseteq Parents /\ x \notin Under(t)[x] /\ Under(t)[x] \subseteq Parents
      /\ \A a \in Under(t)[x] : Under(t)[a] \subseteq Under(t)[x]
  BY <1>1, UnderRules DEF Below
<1>3. Inner(t, x, y) \in SUBSET Parents
  BY <1>2 DEF Inner
<1>4. IsFiniteSet(Inner(t, x, y))
  BY <1>1, <1>3, FS_Subset
<1>5. Cardinality(Inner(t, x, y)) \in Nat
  BY <1>4, FS_CardinalityType
<1>6. getSubtreeDepth(t, x) \in Nat
  BY SubtreeDepthIs
<1>7. CASE y = x
  <2>1. Inner(t, x, y) = {}
    BY <1>2, <1>7 DEF Inner, Below
  <2> QED BY <2>1, <1>4, <1>5, <1>6, FS_EmptySet
<1>8. CASE y # x
  <2>1. y \in Under(t)[x]
    BY <1>8 DEF Below
  <2>2. y \in PointsUnder(t)[x]
    BY <2>1, <1>1, PointsAll
  <2> DEFINE A == {a \in {x} \cup PointsBelow(t, x) : y \in PointsBelow(t, a)}
  <2>3. Inner(t, x, y) \subseteq A
    <3>1. ASSUME NEW a \in Under(t)[x], y \in Under(t)[a] PROVE a \in PointsUnder(t)[x] /\ y \in PointsUnder(t)[a]
      BY <3>1, <2>2, <1>1, PointsPath
    <3> QED BY <3>1, <2>2 DEF Inner, Below, PointsBelow
  <2>4. A \in SUBSET Parents
    BY <1>1, PointsRules DEF PointsBelow
  <2>5. Steps(t, x, y) = Cardinality(A)
    BY DEF Steps
  <2> HIDE DEF A
  <2>6. IsFiniteSet(A)
    BY <2>4, <1>1, FS_Subset
  <2>7. Cardinality(Inner(t, x, y)) <= Cardinality(A)
    BY <2>3, <2>6, FS_Subset
  <2>8. Steps(t, x, y) <= getSubtreeDepth(t, x) /\ Steps(t, x, y) \in Nat
    BY <2>2, SubtreeDepthIs DEF PointsBelow
  <2> QED BY <2>5, <2>7, <2>8, <1>4, <1>5, <1>6
<1> QED BY <1>7, <1>8

\* A subtree that joins is below its new parent, and below what that is below.
LEMMA DepthJoined ==
    ASSUME NEW g, NEW R, Shape(g, R), NEW x \in R, NEW p \in Sections \cup Attached(g), NEW u, Joins(g, R, p, x, u),
           DepthFits(g),
           \A y \in Below(g, x) : IsItem(g, y) => getNodeDepth(g, p) + 1 + Cardinality(Inner(g, x, y)) <= MaxDepth
    PROVE  DepthFits(u)
<1>1. IsJoined(g, R, p, x, u)
  BY JoinsFacts
<1>2. /\ Wired(g) /\ x \in Nodes /\ x \in Parents /\ p \in Parents /\ u.kind = g.kind
      /\ \A q \in Parents : Under(u)[q] = Under(g)[q] \cup (IF p \in Below(g, q) THEN Below(g, x) ELSE {})
      /\ Attached(u) = Attached(g) \cup Below(g, x)
  BY <1>1, ParentsNodes DEF IsJoined, Shape
<1>3. ASSUME NEW y \in Attached(u), IsItem(u, y), y \notin Below(g, x) PROVE getNodeDepth(u, y) <= MaxDepth
  <2>1. Above(u, y) \subseteq Above(g, y)
    BY <1>2, <1>3 DEF Above
  <2>2. getNodeDepth(u, y) <= getNodeDepth(g, y) /\ getNodeDepth(u, y) \in Nat /\ getNodeDepth(g, y) \in Nat
    BY <2>1, DepthLess
  <2>3. getNodeDepth(g, y) <= MaxDepth
    BY <1>2, <1>3 DEF DepthFits, IsItem
  <2> QED BY <2>2, <2>3, TreeAssumption
<1>4. ASSUME NEW y \in Below(g, x), IsItem(u, y) PROVE getNodeDepth(u, y) <= MaxDepth
  <2>1. Above(g, y) \subseteq Inner(g, x, y)
    <3>1. ASSUME NEW a \in Parents, y \in Under(g)[a] PROVE a \in Below(g, x)
      <4>1. a \in Below(g, x) \/ x \in Below(g, a)
        BY <3>1, <1>2, UnderChain DEF Below
      <4>2. x \notin Under(g)[a]
        <5>1. ASSUME x \in Under(g)[a] PROVE FALSE
          <6>1. Parent(g, x) \in Parents /\ x \in Children(g, Parent(g, x))
            BY <5>1, <1>2, ParentOf
          <6> QED BY <6>1 DEF Shape, Loose
        <5> QED BY <5>1
      <4> QED BY <4>1, <4>2 DEF Below
    <3> QED BY <3>1 DEF Above, Inner
  <2>2. Above(u, y) \subseteq Inner(g, x, y) \cup (Above(g, p) \cup {p})
    BY <2>1, <1>2 DEF Above, Below
  <2>3. IsFiniteSet(Parents) /\ Inner(g, x, y) \in SUBSET Parents /\ Above(g, p) \in SUBSET Parents
    BY <1>2, UnderRules, ParentsNodes DEF Inner, Above, Below
  <2> DEFINE A == Inner(g, x, y)
             B == Above(g, p)
  <2>4. IsFiniteSet(A) /\ IsFiniteSet(B) /\ IsFiniteSet({p}) /\ Cardinality({p}) = 1
    BY <2>3, FS_Subset, FS_Singleton
  <2>5. getNodeDepth(u, y) = 1 + Cardinality(Above(u, y)) /\ getNodeDepth(g, p) = 1 + Cardinality(B)
    BY DEF getNodeDepth, Above
  <2>6. getNodeDepth(g, p) + 1 + Cardinality(A) <= MaxDepth
    BY <1>2, <1>4 DEF IsItem
  <2>7. Above(u, y) \in SUBSET (A \cup (B \cup {p}))
    BY <2>2
  <2> HIDE DEF A, B
  <2>8. IsFiniteSet(B \cup {p}) /\ Cardinality(B \cup {p}) <= Cardinality(B) + 1 /\ Cardinality(B) \in Nat
    <3>1. IsFiniteSet(B \cup {p}) /\ Cardinality(B \cup {p}) = Cardinality(B) + Cardinality({p}) - Cardinality(B \cap {p})
      BY <2>4, FS_Union
    <3>2. IsFiniteSet(B \cap {p})
      BY <2>4, FS_Intersection
    <3>3. Cardinality(B \cap {p}) \in Nat /\ Cardinality(B) \in Nat
      BY <3>2, <2>4, FS_CardinalityType
    <3> QED BY <3>1, <3>3, <2>4
  <2>9. IsFiniteSet(A \cup (B \cup {p})) /\ Cardinality(A) \in Nat /\ Cardinality(B \cup {p}) \in Nat
        /\ Cardinality(A \cup (B \cup {p})) <= Cardinality(A) + Cardinality(B \cup {p})
        /\ Cardinality(A \cup (B \cup {p})) \in Nat
    <3> DEFINE C == B \cup {p}
    <3>0. IsFiniteSet(C)
      BY <2>8
    <3> HIDE DEF C
    <3>1. IsFiniteSet(A \cup C) /\ Cardinality(A \cup C) = Cardinality(A) + Cardinality(C) - Cardinality(A \cap C)
      BY <3>0, <2>4, FS_Union
    <3>2. IsFiniteSet(A \cap C)
      BY <3>0, <2>4, FS_Intersection
    <3>3. Cardinality(A \cap C) \in Nat /\ Cardinality(A) \in Nat /\ Cardinality(C) \in Nat /\ Cardinality(A \cup C) \in Nat
      BY <3>0, <3>1, <3>2, <2>4, FS_CardinalityType
    <3> QED BY <3>1, <3>3 DEF C
  <2>10. IsFiniteSet(Above(u, y)) /\ Cardinality(Above(u, y)) <= Cardinality(A \cup (B \cup {p}))
    BY <2>7, <2>9, FS_Subset
  <2>11. Cardinality(Above(u, y)) \in Nat
    BY <2>10, FS_CardinalityType
  <2> QED BY <2>5, <2>6, <2>8, <2>9, <2>10, <2>11, TreeAssumption
<1> QED BY <1>3, <1>4 DEF DepthFits

\* The same tree with fewer nodes is no deeper.
LEMMA DepthFrame ==
    ASSUME NEW t, NEW u, Attached(u) \subseteq Attached(t), DepthFits(t),
           \A y \in Attached(u) : Above(u, y) \subseteq Above(t, y) /\ (IsItem(u, y) => IsItem(t, y))
    PROVE  DepthFits(u)
<1>1. ASSUME NEW y \in Attached(u), IsItem(u, y) PROVE getNodeDepth(u, y) <= MaxDepth
  <2>1. getNodeDepth(u, y) <= getNodeDepth(t, y) /\ getNodeDepth(u, y) \in Nat /\ getNodeDepth(t, y) \in Nat
    BY DepthLess
  <2>2. getNodeDepth(t, y) <= MaxDepth
    BY <1>1 DEF DepthFits
  <2> QED BY <2>1, <2>2, TreeAssumption
<1> QED BY <1>1 DEF DepthFits

\* What is above a node of the tree is in the tree, or a section.
LEMMA AboveAttached ==
    ASSUME NEW t, Wired(t), NEW y \in Attached(t), NEW a \in Parents, y \in Under(t)[a]
    PROVE  a \in Sections \cup Attached(t)
<1>1. Attached(t) = Under(t)["s5"] \cup Under(t)["pm"]
  BY AttachedIs
<1>2. PICK s \in Sections : y \in Under(t)[s]
  BY <1>1 DEF Sections
<1>3. s \in Parents /\ s \notin Nodes
  BY ParentsNodes
<1>4. a \in Below(t, s) \/ s \in Below(t, a)
  BY <1>2, <1>3, UnderChain DEF Below
<1>5. s \notin Under(t)[a]
  BY <1>3, UnderRules
<1>6. Under(t)[s] \subseteq Attached(t)
  BY <1>1 DEF Sections
<1> QED BY <1>4, <1>5, <1>6 DEF Below

\* A new node gets no point too deep: it is no point, or its parent has room.
LEMMA AddsDepth ==
    ASSUME NEW t, NEW R, Shape(t, R), NEW p \in Sections \cup Attached(t), NEW x, NEW kind, NEW u,
           Adds(t, R, p, x, kind, u), DepthFits(t), kind = "item" => getNodeDepth(t, p) + 1 <= MaxDepth
    PROVE  DepthFits(u)
<1>1. PICK g : IsCreated(t, R, x, kind, g) /\ Joins(g, R \cup {x}, p, x, u)
  BY DEF Adds
<1>2. /\ Shape(g, R \cup {x}) /\ g.kids = t.kids /\ g.kind[x] = kind /\ Below(t, x) = {x} /\ Under(t)[x] = {}
      /\ x \notin Attached(t) /\ (\A y \in Parents : y # x => g.kind[y] = t.kind[y])
      /\ Attached(t) \subseteq Parents /\ Wired(t)
  <2>1. Wired(t)
    BY DEF Shape
  <2> QED BY <2>1, <1>1, AttachedIs, ParentsNodes DEF IsCreated
<1>3. Under(g) = Under(t) /\ Attached(g) = Attached(t) /\ Below(g, x) = {x}
  BY <1>2, SameWires
<1>4. \A y : Above(g, y) = Above(t, y)
  BY <1>3 DEF Above
<1>5. DepthFits(g)
  <2>1. \A y \in Attached(g) : IsItem(g, y) => IsItem(t, y)
    BY <1>2, <1>3 DEF IsItem
  <2> QED BY <2>1, <1>3, <1>4, DepthFrame
<1>6. getNodeDepth(g, p) = getNodeDepth(t, p) /\ getNodeDepth(t, p) \in Nat
  <2>1. getNodeDepth(t, p) \in Nat
    BY DepthLess
  <2>2. getNodeDepth(g, p) = 1 + Cardinality(Above(g, p)) /\ getNodeDepth(t, p) = 1 + Cardinality(Above(t, p))
    BY DEF getNodeDepth, Above
  <2>3. getNodeDepth(g, p) = getNodeDepth(t, p)
    BY <2>2, <1>4
  <2> QED BY <2>1, <2>3
<1>7. ASSUME NEW y \in Below(g, x), IsItem(g, y)
      PROVE  getNodeDepth(g, p) + 1 + Cardinality(Inner(g, x, y)) <= MaxDepth
  <2>1. y = x /\ kind = "item"
    BY <1>2, <1>3, <1>7 DEF IsItem
  <2>2. Inner(g, x, y) = {}
    BY <2>1, <1>2, <1>3 DEF Inner
  <2> QED BY <2>1, <2>2, <1>6, FS_EmptySet
<1>8. x \in R \cup {x} /\ p \in Sections \cup Attached(g)
  BY <1>3
<1> QED BY <1>1, <1>2, <1>5, <1>7, <1>8, DepthJoined

\* What is left after a deletion is as deep as before.
LEMMA DeletesDepth ==
    ASSUME NEW t, NEW R, Shape(t, R), NEW x \in Attached(t), NEW u, NEW left, Deletes(t, R, x, u, left), DepthFits(t)
    PROVE  DepthFits(u)
<1>1. PICK off, clean :
        /\ IsDetached(t, R, x, off)
        /\ SameNodes(off, clean) /\ IsTidied(clean, left, u)
  BY DEF Deletes
<1>2. /\ clean.kids = off.kids /\ clean.kind = t.kind /\ Attached(off) = Attached(t) \ Below(t, x)
      /\ \A q \in Parents : Under(off)[q] \subseteq Under(t)[q]
  BY <1>1 DEF IsDetached, SameNodes
<1>3. Under(clean) = Under(off) /\ Attached(clean) = Attached(off)
  BY <1>2, SameWires
<1>4. /\ Attached(u) = Attached(clean) /\ Wired(u)
      /\ \A q \in Sections \cup Attached(clean) : Under(u)[q] = Under(clean)[q] /\ u.kind[q] = clean.kind[q]
  BY <1>1 DEF IsTidied, Alive, Shape
<1>5. ASSUME NEW y \in Attached(u) PROVE Above(u, y) \subseteq Above(t, y) /\ (IsItem(u, y) => IsItem(t, y))
  <2>1. ASSUME NEW a \in Parents, y \in Under(u)[a] PROVE y \in Under(t)[a]
    <3>1. a \in Sections \cup Attached(u)
      BY <2>1, <1>4, AboveAttached
    <3> QED BY <3>1, <2>1, <1>2, <1>3, <1>4
  <2> QED BY <2>1, <1>2, <1>4 DEF Above, IsItem
<1> QED BY <1>2, <1>3, <1>4, <1>5, DepthFrame

\* What ContentIsLeaf says, node by node.
LEMMA LeafContentOf ==
    ASSUME NEW t, Wired(t), ContentIsLeaf(t), NEW x \in Nodes
    PROVE  LeafContent(t, x)
<1>1. Below(t, x) \subseteq Nodes
  <2>1. x \in Parents
    BY ParentsNodes
  <2> QED BY <2>1, UnderRules DEF Below
<1>2. \A y \in Nodes : ~IsItem(t, y) => Children(t, y) = {}
  BY DEF ContentIsLeaf, IsItem, Children, Range
<1> QED BY <1>1, <1>2 DEF LeafContent

\* A move that passed the check of depth.
LEMMA MovesDepth ==
    ASSUME NEW t, NEW R, Shape(t, R), NEW x \in Attached(t), NEW p, NEW u, Moves(t, R, x, p, u),
           DepthFits(t), ContentIsLeaf(t), _checkDepthConstraints(t, x, p)
    PROVE  DepthFits(u)
<1>1. PICK off : /\ IsDetached(t, R, x, off) /\ Joins(off, R \cup {x}, p, x, u)
                 /\ p \in Sections \cup Attached(off)
  BY DEF Moves
<1>2. /\ Shape(off, R \cup {x}) /\ off.kind = t.kind /\ Below(off, x) = Below(t, x) /\ Attached(off) \subseteq Attached(t)
      /\ (\A q \in Parents : Under(off)[q] \subseteq Under(t)[q]) /\ x \in Nodes /\ Wired(t) /\ x \in R \cup {x}
  BY <1>1 DEF IsDetached, Shape
<1>3. \A y : Above(off, y) \subseteq Above(t, y)
  BY <1>2 DEF Above
<1>4. DepthFits(off)
  <2>1. \A y \in Attached(off) : IsItem(off, y) => IsItem(t, y)
    BY <1>2 DEF IsItem
  <2> QED BY <2>1, <1>2, <1>3, DepthFrame
<1>5. LeafContent(t, x)
  BY <1>2, LeafContentOf
<1>6. ASSUME NEW y \in Below(off, x), IsItem(off, y)
      PROVE  getNodeDepth(off, p) + 1 + Cardinality(Inner(off, x, y)) <= MaxDepth
  <2>1. y \in Below(t, x) /\ IsItem(t, y) /\ x \in Below(t, x) /\ x \in Parents
    BY <1>2, <1>6, ParentsNodes DEF IsItem, Below
  <2>2. IsItem(t, x)
    <3>1. ASSUME ~IsItem(t, x) PROVE FALSE
      <4>1. Children(t, x) = {}
        BY <3>1, <2>1, <1>5 DEF LeafContent
      <4>2. \A z \in Under(t)[x] : \E q \in {x} \cup Under(t)[x] : q \in Parents /\ z \in Children(t, q)
        BY <2>1, <1>2, UnderRules
      <4>3. y \in Under(t)[x]
        BY <2>1, <3>1 DEF Below
      <4>4. y \in PointsUnder(t)[x]
        BY <4>3, <2>1, <1>2, <1>5, PointsAll
      <4>5. ItemGraph(t) \in Graph /\ PointsUnder(t) = Descendants(ItemGraph(t)) /\ ItemGraph(t)[x] = {}
        BY <4>1, <2>1, <1>2, ChildrenType DEF Wired
      <4>6. Descendants(ItemGraph(t))[x] = {}
        BY <4>5, <2>1, DescendantsOf
      <4> QED BY <4>4, <4>5, <4>6
    <3> QED BY <3>1
  <2>3. getNodeDepth(t, p) + 1 + getSubtreeDepth(t, x) <= MaxDepth
    BY <2>2 DEF _checkDepthConstraints
  <2>4. /\ IsFiniteSet(Inner(t, x, y)) /\ Cardinality(Inner(t, x, y)) \in Nat
        /\ getSubtreeDepth(t, x) \in Nat /\ Cardinality(Inner(t, x, y)) <= getSubtreeDepth(t, x)
    BY <2>1, <1>2, <1>5, DepthInside
  <2>5. Inner(off, x, y) \subseteq Inner(t, x, y)
    <3>1. Below(t, x) \subseteq Parents
      BY <2>1, <1>2, UnderRules, ParentsNodes DEF Below
    <3> QED BY <3>1, <1>2 DEF Inner
  <2>6. IsFiniteSet(Inner(off, x, y)) /\ Cardinality(Inner(off, x, y)) <= Cardinality(Inner(t, x, y))
    BY <2>4, <2>5, FS_Subset
  <2>7. Cardinality(Inner(off, x, y)) \in Nat
    BY <2>6, FS_CardinalityType
  <2>8. getNodeDepth(off, p) <= getNodeDepth(t, p) /\ getNodeDepth(off, p) \in Nat /\ getNodeDepth(t, p) \in Nat
    BY <1>3, DepthLess
  <2> QED BY <2>3, <2>4, <2>6, <2>7, <2>8, TreeAssumption
<1> QED BY <1>1, <1>2, <1>4, <1>6, DepthJoined

\* Content that is pasted has nothing below it either.
LEMMA GraftedLeaves ==
    ASSUME NEW t, NEW R, Shape(t, R), NEW f \in Fragments, PlainFragment(f), NEW keep, NEW ids, IsInjective(ids),
           ids \in [1 .. Len(f) -> Nodes], NEW g, g = Grafted(t, f, ids, keep), IsGrafted(t, R, f, ids, keep, g)
    PROVE  LeafContent(g, ids[1])
<1> DEFINE here == {i \in DOMAIN f : i = 1 \/ keep \/ f[i].kind \notin RiskKinds}
           mine(p) == {i \in here : i > 1 /\ ids[f[i].up] = p}
           kidsOf(p) == [n \in DOMAIN InOrder(mine(p)) |-> ids[InOrder(mine(p))[n]]]
<1>1. /\ Below(g, ids[1]) = {ids[i] : i \in here} /\ \A i \in here : g.kind[ids[i]] = f[i].kind
  BY DEF IsGrafted
<1>2. Len(f) \in Nat \ {0} /\ DOMAIN f = 1 .. Len(f) /\ here \subseteq 1 .. Len(f)
      /\ \A i \in here : i > 1 => f[i].up \in here
  BY FragmentRules
<1>3. t \in TreeType /\ Nodes \subseteq Parents
  BY ParentsNodes DEF Shape, Wired
<1>4. g.kids = [p \in Parents |-> IF \E i \in here : ids[i] = p THEN kidsOf(p) ELSE t.kids[p]]
  BY <1>3 DEF Grafted, TreeType
<1> HIDE DEF kidsOf
<1>5. ASSUME NEW i \in here, f[i].kind # "item" PROVE Children(g, ids[i]) = {}
  <2>1. ids[i] \in Parents
    BY <1>2, <1>3
  <2>2. g.kids[ids[i]] = kidsOf(ids[i])
    BY <2>1, <1>4
  <2>3. mine(ids[i]) = {}
    <3>1. ASSUME NEW j \in mine(ids[i]) PROVE FALSE
      <4>1. j \in here /\ j > 1 /\ ids[f[j].up] = ids[i]
        OBVIOUS
      <4>2. f[j].up \in 1 .. Len(f) /\ i \in 1 .. Len(f)
        BY <4>1, <1>2
      <4>3. f[j].up = i
        BY <4>1, <4>2 DEF IsInjective
      <4>4. j \in 2 .. Len(f)
        BY <4>1, <1>2
      <4> QED BY <4>3, <4>4, <1>5 DEF PlainFragment
    <3> HIDE DEF mine
    <3> QED BY <3>1
  <2>4. DOMAIN InOrder({}) = {}
    BY FS_EmptySet DEF InOrder
  <2>5. DOMAIN kidsOf(ids[i]) = {}
    BY <2>3, <2>4 DEF kidsOf
  <2> QED BY <2>2, <2>5 DEF Children, Range
<1> HIDE DEF here
<1> QED BY <1>1, <1>5 DEF LeafContent, IsItem

\* A paste that passed it: what is pasted has all its points through points,
\* so the check has counted them.
LEMMA PastesDepth ==
    ASSUME NEW t, NEW R, Shape(t, R), NEW p \in Sections \cup Attached(t), NEW f \in Fragments, PlainFragment(f),
           NEW keep, NEW ids \in [1 .. Len(f) -> Nodes], IsInjective(ids), NEW u,
           Pastes(t, R, f, ids, keep, p, u), DepthFits(t), PasteAllowed(Grafted(t, f, ids, keep), ids[1], p)
    PROVE  DepthFits(u)
<1> DEFINE x == ids[1]
<1>1. PICK g : /\ IsGrafted(t, R, f, ids, keep, g) /\ g = Grafted(t, f, ids, keep)
               /\ Joins(g, R \cup {x}, p, x, u) /\ p \in Sections \cup Attached(g)
  BY DEF Pastes
<1>2. Shape(g, R \cup {x}) /\ Wired(g) /\ Wired(t) /\ x \in Nodes /\ x \in R \cup {x}
  BY <1>1 DEF IsGrafted, Shape
<1>3. Agrees(t, g) /\ LeafContent(g, x)
  BY <1>1, GraftedAgrees, GraftedLeaves
<1>4. getNodeDepth(g, p) + 1 + getSubtreeDepth(g, x) <= MaxDepth
  BY <1>1 DEF PasteAllowed
<1> HIDE DEF x
<1>5. DepthFits(g)
  <2>1. Attached(g) = Attached(t) /\ \A q \in Sections \cup Attached(t) : g.kind[q] = t.kind[q] /\ Under(g)[q] = Under(t)[q]
    BY <1>3 DEF Agrees
  <2>2. ASSUME NEW y \in Attached(g) PROVE Above(g, y) \subseteq Above(t, y) /\ (IsItem(g, y) => IsItem(t, y))
    <3>1. ASSUME NEW a \in Parents, y \in Under(g)[a] PROVE y \in Under(t)[a]
      <4>1. a \in Sections \cup Attached(g)
        BY <3>1, <1>2, AboveAttached
      <4> QED BY <4>1, <3>1, <2>1
    <3> QED BY <3>1, <2>1 DEF Above, IsItem
  <2> QED BY <2>1, <2>2, DepthFrame
<1>6. ASSUME NEW y \in Below(g, x), IsItem(g, y)
      PROVE  getNodeDepth(g, p) + 1 + Cardinality(Inner(g, x, y)) <= MaxDepth
  <2>1. /\ Cardinality(Inner(g, x, y)) \in Nat /\ getSubtreeDepth(g, x) \in Nat
        /\ Cardinality(Inner(g, x, y)) <= getSubtreeDepth(g, x)
    BY <1>2, <1>3, <1>6, DepthInside
  <2>2. getNodeDepth(g, p) \in Nat
    BY DepthLess
  <2> QED BY <2>1, <2>2, <1>4, TreeAssumption
<1> QED BY <1>1, <1>2, <1>5, <1>6, DepthJoined

\* A child is deeper than its parent.
LEMMA ChildDeeper ==
    ASSUME NEW t, Wired(t), NEW p \in Parents, NEW z \in Children(t, p)
    PROVE  getNodeDepth(t, p) + 1 <= getNodeDepth(t, z)
<1>1. z \in Under(t)[p] /\ p \notin Under(t)[p] /\ \A a \in Parents : p \in Under(t)[a] => z \in Under(t)[a]
  BY UnderRules
<1> DEFINE A == Above(t, p)
           B == Above(t, z)
<1>2. A \cup {p} \in SUBSET B /\ p \notin A /\ B \in SUBSET Parents /\ IsFiniteSet(Parents)
  BY <1>1, ParentsNodes DEF Above
<1>3. getNodeDepth(t, p) = 1 + Cardinality(A) /\ getNodeDepth(t, z) = 1 + Cardinality(B)
  BY DEF getNodeDepth, Above
<1> HIDE DEF A, B
<1>4. IsFiniteSet(B)
  BY <1>2, FS_Subset
<1>5. A \in SUBSET B
  BY <1>2
<1>6. IsFiniteSet(A) /\ IsFiniteSet(A \cup {p}) /\ Cardinality(A \cup {p}) <= Cardinality(B)
  BY <1>2, <1>4, <1>5, FS_Subset
<1>7. Cardinality(A \cup {p}) = Cardinality(A) + 1
  BY <1>2, <1>6, FS_AddElement
<1>8. Cardinality(A) \in Nat /\ Cardinality(B) \in Nat
  BY <1>4, <1>6, FS_CardinalityType
<1> QED BY <1>3, <1>6, <1>7, <1>8

\* The checks a confirmed move passed.
LEMMA ConfirmedAllowed ==
    ASSUME MoveConfirmed
    PROVE  LET t == [tree EXCEPT !.summary = @ \ {dialog.node}]
               p == _determineNewParent(t, dialog.target, dialog.position)
           IN tree' = t \/ _checkDepthConstraints(t, dialog.node, p)
<1>1. LET t == [tree EXCEPT !.summary = @ \ {dialog.node}]
          p == _determineNewParent(t, dialog.target, dialog.position)
      IN tree' = t \/ MoveAllowed(t, dialog.node, p)
  BY DEF MoveConfirmed
<1> QED BY <1>1 DEF MoveAllowed

\* The same points at the same places.
LEMMA DepthSame ==
    ASSUME NEW t, NEW u, u.kids = t.kids, u.kind = t.kind
    PROVE  (DepthFits(t) => DepthFits(u)) /\ (ContentIsLeaf(t) => ContentIsLeaf(u))
<1>1. Attached(u) = Attached(t) /\ (\A y : IsItem(u, y) <=> IsItem(t, y)) /\ \A y : getNodeDepth(u, y) = getNodeDepth(t, y)
  BY SameWires, SamePoints
<1> QED BY <1>1 DEF DepthFits, ContentIsLeaf

\* One case per action.
LEMMA NextKeepsDepth ==
    ASSUME IInv, Next, DepthFits(tree), ContentIsLeaf(tree), ~BesideContent, ~undoLast, ~PasteFinishes, ~MixedPaste
    PROVE  DepthFits(tree')
<1> DEFINE R == Loosened(undo)
<1>0. /\ Shape(tree, R) /\ Placed = Attached(tree) /\ Here = Sections \cup Attached(tree)
      /\ Wired(tree) /\ tree \in TreeType
  BY DEF IInv, Placed, Here, Shape, Wired
<1> HIDE DEF R
<1>1. ASSUME tree' = tree PROVE DepthFits(tree')
  BY <1>1
<1>2. ASSUME NEW p \in Sections \cup Attached(tree), NEW x, NEW kind, Adds(tree, R, p, x, kind, tree'), kind # "item"
      PROVE  DepthFits(tree')
  BY <1>0, <1>2, AddsDepth
<1>3. ASSUME NEW p \in Here, NEW x \in Fresh, handleAddChild(p, x) PROVE DepthFits(tree')
  <2>1. PICK t : /\ Shape(t, R) /\ t.kids = tree.kids /\ t.kind = tree.kind
                 /\ Adds(t, R, p, x, "item", tree') /\ p \in Sections \cup Attached(t)
    BY <1>3, AddChildIs DEF R
  <2>2. DepthFits(t) /\ getNodeDepth(t, p) = getNodeDepth(tree, p)
    BY <2>1, DepthSame, SamePoints
  <2>3. getNodeDepth(tree, p) < MaxDepth /\ getNodeDepth(tree, p) \in Nat
    BY <1>3, DepthLess DEF handleAddChild
  <2>4. getNodeDepth(t, p) + 1 <= MaxDepth
    BY <2>2, <2>3, TreeAssumption
  <2> QED BY <2>1, <2>2, <2>4, AddsDepth
<1>4. ASSUME NEW p \in Here, NEW x \in Fresh, NEW i \in 0 .. Len(tree.kids[p]), handleAddSibling(p, i, x)
      PROVE  DepthFits(tree')
  <2>1. Adds(tree, R, p, x, "item", tree')
    BY <1>4, AddSiblingIs DEF R
  <2>2. i # 0 /\ tree.kind[tree.kids[p][i]] = "item"
    BY <1>4 DEF BesideContent
  <2>3. p \in Parents /\ Children(tree, p) \subseteq Attached(tree)
    BY <1>0, AttachedDown
  <2>4. tree.kids[p] \in Seq(Nodes)
    BY <2>3, <1>0, TreeFields
  <2>5. tree.kids[p][i] \in Children(tree, p)
    BY <2>2, <2>4 DEF Children, Range
  <2> DEFINE z == tree.kids[p][i]
  <2>6. z \in Children(tree, p) /\ z \in Attached(tree) /\ IsItem(tree, z)
    BY <2>2, <2>3, <2>5 DEF IsItem
  <2> HIDE DEF z
  <2>7. getNodeDepth(tree, p) + 1 <= getNodeDepth(tree, z) /\ getNodeDepth(tree, z) <= MaxDepth
    BY <2>3, <2>6, <1>0, ChildDeeper DEF DepthFits
  <2>8. getNodeDepth(tree, p) \in Nat /\ getNodeDepth(tree, z) \in Nat
    BY DepthLess
  <2>9. getNodeDepth(tree, p) + 1 <= MaxDepth
    BY <2>7, <2>8, TreeAssumption
  <2>10. p \in Sections \cup Attached(tree)
    BY <1>0
  <2> QED BY <2>1, <2>9, <2>10, <1>0, AddsDepth
<1>5. ASSUME NEW p \in Here, NEW x \in Fresh, NEW kind \in Kinds \ RiskKinds, AddContent(p, kind, x)
      PROVE  DepthFits(tree')
  <2>1. Adds(tree, R, p, x, kind, tree')
    BY <1>5, AddContentIs DEF R
  <2>2. kind # "item"
    BY TreeAssumption
  <2> QED BY <2>1, <2>2, <1>0, <1>2
<1>6. ASSUME NEW p \in Placed, NEW x \in Fresh, NEW kind \in Kinds \cap RiskKinds,
             _handleRiskTableAction(p, kind, x)
      PROVE  DepthFits(tree')
  <2>1. p \in Attached(tree) /\ Adds(tree, R, p, x, kind, tree')
    BY <1>6, RiskActionIs DEF R
  <2>2. kind # "item"
    BY DEF RiskKinds
  <2> QED BY <2>1, <2>2, <1>2
<1>7. ASSUME NEW x \in Fresh, RiskLevelWarningRead(x) PROVE DepthFits(tree')
  <2>1. dialog.node \in Attached(tree) /\ (tree' = tree \/ Adds(tree, R, dialog.node, x, dialog.kind, tree'))
    BY <1>7, RiskReadIs DEF R
  <2>2. dialog.kind # "item"
    BY RiskReadIs, <1>7 DEF RiskKinds
  <2> QED BY <2>1, <2>2, <1>1, <1>2
<1>8. ASSUME NEW x \in Placed, setNodeTb(x) PROVE DepthFits(tree')
  <2>1. tree' = [tree EXCEPT !.tb = IF x \in @ THEN @ \ {x} ELSE @ \cup {x}]
    BY <1>8 DEF setNodeTb
  <2>2. tree'.kids = tree.kids /\ tree'.kind = tree.kind
    BY <2>1, <1>0 DEF TreeType
  <2> QED BY <2>2, DepthSame
<1>9. ASSUME NEW x \in Placed, deleteNode(x) PROVE DepthFits(tree')
  <2>1. Deletes(tree, R, x, tree', undo')
    BY <1>9, DeleteIs DEF R
  <2> QED BY <2>1, <1>0, DeletesDepth
<1>11. ASSUME NEW x \in Placed, NEW target \in Here, NEW position \in Positions, moveNode(x, target, position)
       PROVE  DepthFits(tree')
  <2>1. Moves(tree, R, x, _determineNewParent(tree, target, position), tree')
    BY <1>11, MoveNodeIs DEF R
  <2>2. _checkDepthConstraints(tree, x, _determineNewParent(tree, target, position))
    BY <1>11 DEF moveNode, MoveAllowed
  <2>3. x \in Attached(tree)
    BY <1>0
  <2> QED BY <2>1, <2>2, <2>3, <1>0, MovesDepth
<1>12. CASE MoveConfirmed
  <2> DEFINE t == [tree EXCEPT !.summary = @ \ {dialog.node}]
             p == _determineNewParent(t, dialog.target, dialog.position)
  <2>1. /\ Shape(t, R) /\ t.kids = tree.kids /\ t.kind = tree.kind /\ dialog.node \in Attached(t)
        /\ tree' = t \/ Moves(t, R, dialog.node, p, tree')
    BY <1>12, MoveConfirmedIs DEF R
  <2>2. tree' = t \/ _checkDepthConstraints(t, dialog.node, p)
    BY <1>12, ConfirmedAllowed
  <2> HIDE DEF t, p
  <2>3. DepthFits(t) /\ ContentIsLeaf(t)
    BY <2>1, DepthSame
  <2>4. CASE tree' = t
    BY <2>3, <2>4
  <2>5. CASE tree' # t
    BY <2>1, <2>2, <2>3, <2>5, MovesDepth
  <2> QED BY <2>4, <2>5
<1>13. ASSUME NEW f \in Fragments, NEW p \in Here, NEW ids \in Identifiers(f), pasteInto(f, ids, p)
       PROVE  DepthFits(tree')
  <2> DEFINE keep == p = "s5" \/ isUnderSection5(tree, p)
  <2>1. /\ Pastes(tree, R, f, ids, keep, p, tree') /\ PasteAllowed(Grafted(tree, f, ids, keep), ids[1], p)
        /\ p \in Sections \cup Attached(tree) /\ IsInjective(ids)
        /\ ids \in [1 .. Len(f) -> UnusedSet(tree, undo, pasting.target)]
    BY <1>13, PasteIntoIs DEF R
  <2> HIDE DEF keep
  <2>2. ids \in [1 .. Len(f) -> Nodes]
    BY <2>1, UnusedIs
  <2>3. PlainFragment(f)
    BY <1>13 DEF MixedPaste
  <2> QED BY <2>1, <2>2, <2>3, <1>0, PastesDepth
<1>15. CASE \E p \in Placed : \E kind \in Kinds \cap RiskKinds : _showRiskLevelWarning(p, kind)
  BY <1>15, <1>1 DEF _showRiskLevelWarning
<1>16. CASE \E x \in Placed, target \in Here, position \in Positions : _checkMetricsTableDeletion(x, target, position)
  BY <1>16, <1>1 DEF _checkMetricsTableDeletion
<1>17. CASE DialogCancelled
  BY <1>17, <1>1 DEF DialogCancelled
<1>18. CASE \E f \in Fragments, p \in Here : \E ids \in Identifiers(f) : PasteWaits(f, ids, p)
  BY <1>18, <1>1 DEF PasteWaits
<1>19. CASE PasteFails
  BY <1>19, <1>1 DEF PasteFails
<1> QED BY <1>3, <1>4, <1>5, <1>6, <1>7, <1>8, <1>9, <1>11, <1>12, <1>13, <1>15, <1>16, <1>17, <1>18, <1>19 DEF Next

\* No point is deeper than the numbering allows, whatever is added, moved or
\* pasted, but for the steps that are known to put one too deep.
THEOREM DepthStays == Spec => DepthKept
<1>1. IInv /\ [Next]_vars =>
        [(DepthFits(tree) /\ ContentIsLeaf(tree)) =>
           DepthFits(tree') \/ BesideContent \/ undoLast \/ PasteFinishes \/ MixedPaste]_vars
  BY NextKeepsDepth
<1> QED BY <1>1, Structure, PTL DEF Spec, DepthKept


-----------------------------------------------------------------------------
(* Risk tables.                                                            *)

\* The points of the tree that have a risk table of their own.
RiskPoints(t) == {x \in Attached(t) : IsItem(t, x) /\ OwnRisk(t, x)}

\* They are in section 5, all on its first level or all below it.
OneLevel(t) ==
    /\ RiskPoints(t) \subseteq Under(t)["s5"]
    /\ \A x, y \in RiskPoints(t) : x \in Children(t, "s5") => y \in Children(t, "s5")

\* The placement of risk tables, said of the points that hold them: all below
\* section 5, and all on its first level or all deeper.
LEMMA PlacedIs ==
    ASSUME NEW t, Wired(t)
    PROVE  RisksPlaced(t) <=> OneLevel(t)
<1> DEFINE at == {x \in Attached(t) : IsItem(t, x) /\ OwnRisk(t, x)}
<1>1. Attached(t) \subseteq Nodes /\ "s5" \notin Nodes /\ "s5" \in Parents
  BY AttachedIs, ParentsNodes
<1>2. \A x \in at : x \in Below(t, "s5") <=> x \in Under(t)["s5"]
  BY <1>1 DEF Below
<1>3. ASSUME NEW x \in at PROVE Parent(t, x) = "s5" <=> x \in Children(t, "s5")
  BY <1>1, AttachedUp
<1>4. RisksPlaced(t) <=> /\ at \subseteq Below(t, "s5")
                         /\ \A x, y \in at : Parent(t, x) = "s5" => Parent(t, y) = "s5"
  BY DEF RisksPlaced
<1>5. OneLevel(t) <=> /\ at \subseteq Under(t)["s5"]
                      /\ \A x, y \in at : x \in Children(t, "s5") => y \in Children(t, "s5")
  BY DEF OneLevel, RiskPoints
<1> HIDE DEF at
<1> QED BY <1>2, <1>3, <1>4, <1>5

\* Fewer risks at the same places.
LEMMA OneLevelLess ==
    ASSUME NEW t, OneLevel(t), NEW u, RiskPoints(u) \subseteq RiskPoints(t),
           \A y \in RiskPoints(u) : /\ y \in Under(t)["s5"] => y \in Under(u)["s5"]
                                    /\ y \in Children(t, "s5") <=> y \in Children(u, "s5")
    PROVE  OneLevel(u)
BY DEF OneLevel

\* Without points below content, those of the tree hang in it through points.
LEMMA SectionLeaf ==
    ASSUME NEW t, NEW R, Shape(t, R), ContentIsLeaf(t), NEW s \in Sections
    PROVE  /\ LeafContent(t, s)
           /\ \A y \in Under(t)[s] : IsItem(t, y) => y \in PointsUnder(t)[s]
<1>1. Wired(t) /\ OnlyPoints(t) /\ s \in Parents
  BY ParentsNodes DEF Shape
<1>2. Below(t, s) \subseteq {s} \cup Nodes /\ IsItem(t, s)
  BY <1>1, UnderRules DEF Below, OnlyPoints
<1>3. \A y \in Nodes : ~IsItem(t, y) => Children(t, y) = {}
  BY DEF ContentIsLeaf, IsItem, Children, Range
<1>4. LeafContent(t, s)
  BY <1>2, <1>3 DEF LeafContent
<1> QED BY <1>1, <1>4, PointsAll

\* What the level of a point says about its place.
LevelsTell(t) ==
    \A x \in Attached(t) : IsItem(t, x) =>
        /\ t.level[x] \in Nat
        /\ t.level[x] >= 1 <=> x \in Under(t)["s5"]
        /\ t.level[x] = 1 <=> x \in Children(t, "s5")

\* In a numbered tree the level of a point tells whether it stands in section 5
\* and whether it is one of its first points: what the checks of levels rest on.
LEMMA LevelsTellPlaces ==
    ASSUME NEW t, NEW R, Shape(t, R), Numbered(t), ContentIsLeaf(t)
    PROVE  LevelsTell(t)
<1> SUFFICES ASSUME NEW x \in Attached(t), IsItem(t, x)
             PROVE  /\ t.level[x] \in Nat
                    /\ t.level[x] >= 1 <=> x \in Under(t)["s5"]
                    /\ t.level[x] = 1 <=> x \in Children(t, "s5")
  BY DEF LevelsTell
<1>1. Wired(t) /\ t \in TreeType
  BY DEF Shape, Wired
<1>2. /\ "s5" \in Sections /\ "pm" \in Sections /\ "s5" \in Parents /\ "pm" \in Parents
      /\ "s5" \notin Nodes /\ IsFiniteSet(Parents) /\ Nodes \subseteq Parents
  BY ParentsNodes
<1>3. /\ Attached(t) = Under(t)["s5"] \cup Under(t)["pm"] /\ x \in Nodes /\ x \in Parents
      /\ Under(t)["s5"] \cap Under(t)["pm"] = {}
  BY <1>1, <1>2, AttachedIs, PointsApart
<1>4. t.level[x] \in Nat
  BY <1>1, <1>3, TreeFields
<1>5. CASE x \in Under(t)["pm"]
  <2>1. x \in PointsUnder(t)["pm"]
    BY <1>2, <1>5, SectionLeaf
  <2>2. t.level[x] = 0
    BY <2>1 DEF Numbered, PointsBelow
  <2>3. x \notin Under(t)["s5"]
    BY <1>3, <1>5
  <2>4. x \notin Children(t, "s5")
    BY <2>3, <1>1, <1>2, UnderRules
  <2> QED BY <1>4, <2>2, <2>3, <2>4
<1>6. CASE x \in Under(t)["s5"]
  <2> DEFINE A == {a \in PointsUnder(t)["s5"] : x \in PointsUnder(t)[a]}
  <2>1. x \in PointsUnder(t)["s5"]
    BY <1>2, <1>6, SectionLeaf
  <2>2. t.level[x] = 1 + Cardinality(A)
    BY <2>1 DEF Numbered, PointsBelow
  <2>3. PointsUnder(t)["s5"] \subseteq Nodes
    BY <1>1, <1>2, PointsRules
  <2>4. IsFiniteSet(A) /\ Cardinality(A) \in Nat
    <3>1. A \subseteq Parents
      BY <2>3, <1>2
    <3> HIDE DEF A
    <3> QED BY <3>1, <1>2, FS_Subset, FS_CardinalityType
  <2>5. ASSUME x \in Children(t, "s5") PROVE A = {}
    <3> SUFFICES ASSUME NEW a \in A PROVE FALSE
      OBVIOUS
    <3>1. a \in Nodes /\ a \in Parents /\ x \in PointsUnder(t)[a]
      BY <2>3, <1>2
    <3>2. x \in Under(t)[a] /\ Under(t)[a] \subseteq Nodes
      BY <3>1, <1>1, PointsRules, UnderRules
    <3>3. "s5" = a \/ "s5" \in Under(t)[a]
      BY <3>1, <3>2, <2>5, <1>1, <1>2, UnderRules
    <3> QED BY <3>1, <3>2, <3>3, <1>2
  <2>6. ASSUME x \notin Children(t, "s5") PROVE A # {}
    <3>a. \A p \in Parents : \A y \in PointsUnder(t)[p] :
             \E q \in {p} \cup PointsUnder(t)[p] : q \in Parents /\ y \in Items(t, q)
      BY <1>1, PointsRules
    <3>1. PICK q \in {"s5"} \cup PointsUnder(t)["s5"] : q \in Parents /\ x \in Items(t, q)
      BY <2>1, <1>2, <3>a
    <3>2. q # "s5"
      BY <3>1, <2>6 DEF Items
    <3>3. x \in PointsUnder(t)[q]
      BY <3>1, <1>1, PointsRules
    <3> QED BY <3>1, <3>2, <3>3
  <2>7. Cardinality(A) = 0 <=> A = {}
    <3> HIDE DEF A
    <3> QED BY <2>4, FS_EmptySet
  <2> HIDE DEF A
  <2> QED BY <1>4, <1>6, <2>2, <2>4, <2>5, <2>6, <2>7
<1> QED BY <1>3, <1>5, <1>6

\* Points are below a node through the points among its children.
LEMMA FirstStep ==
    ASSUME NEW t, Wired(t), NEW p \in Parents, NEW y \in PointsUnder(t)[p]
    PROVE  \E c \in Items(t, p) : y = c \/ y \in PointsUnder(t)[c]
<1>1. ItemGraph(t) \in Graph /\ PointsUnder(t) = Descendants(ItemGraph(t)) /\ ItemGraph(t)[p] = Items(t, p)
  BY ChildrenType DEF Wired
<1>2. PointsUnder(t)[p] = Items(t, p) \cup UNION {PointsUnder(t)[c] : c \in Items(t, p)}
  BY <1>1, DescendantsOf
<1> QED BY <1>2

\* The nodes of t that are in section 5, and on its first level, are so in u.
SamePlaces(t, u, D) ==
    \A y \in D : /\ y \in Under(t)["s5"] => y \in Under(u)["s5"]
                 /\ y \in Children(t, "s5") <=> y \in Children(u, "s5")

\* Adding a node makes at most its own point a holder of risks, and moves no
\* other.
LEMMA AddsRisks ==
    ASSUME NEW t, NEW R, Shape(t, R), NEW p \in Sections \cup Attached(t), NEW x, NEW kind, NEW u,
           Adds(t, R, p, x, kind, u)
    PROVE  /\ RiskPoints(u) \subseteq RiskPoints(t) \cup (IF kind \in RiskKinds THEN {p} ELSE {})
           /\ SamePlaces(t, u, Attached(t))
<1>1. PICK g : IsCreated(t, R, x, kind, g) /\ Joins(g, R \cup {x}, p, x, u)
  BY DEF Adds
<1>2. /\ Shape(g, R \cup {x}) /\ x \notin Attached(t) /\ g.kids = t.kids /\ g.kind[x] = kind
      /\ \A y \in Parents : y # x => g.kind[y] = t.kind[y]
      /\ Below(t, x) = {x} /\ Children(t, x) = {} /\ \A q \in Parents : x \notin Children(t, q)
  BY <1>1 DEF IsCreated
<1>3. /\ \A q : Children(g, q) = Children(t, q) /\ Below(g, q) = Below(t, q)
      /\ Under(g) = Under(t) /\ Attached(g) = Attached(t)
  BY <1>2, SameWires
<1>4. IsJoined(g, R \cup {x}, p, x, u)
  BY <1>1, <1>2, <1>3, JoinsFacts
<1>5. /\ Wired(u) /\ x \in Nodes /\ p \in Parents /\ u.kind = g.kind /\ p \notin Below(t, x)
      /\ \A q \in Parents : Children(u, q) = IF q = p THEN Children(t, q) \cup {x} ELSE Children(t, q)
      /\ \A q \in Parents : Under(t)[q] \subseteq Under(u)[q]
      /\ Attached(u) = Attached(t) \cup {x}
  BY <1>2, <1>3, <1>4 DEF IsJoined
<1>6. Wired(t) /\ Attached(t) \subseteq Nodes /\ Nodes \subseteq Parents /\ "s5" \in Parents
  BY AttachedIs, ParentsNodes DEF Shape
<1>7. \A q \in Parents : Children(t, q) \subseteq Nodes
  BY <1>6, ChildrenType DEF Wired
<1>8. ASSUME NEW y \in RiskPoints(u) PROVE y \in RiskPoints(t) \cup (IF kind \in RiskKinds THEN {p} ELSE {})
  <2>1. y \in Attached(t) \cup {x} /\ IsItem(u, y) /\ \E c \in Children(u, y) : u.kind[c] \in RiskKinds
    BY <1>5 DEF RiskPoints, OwnRisk, IsRisk
  <2>2. y # x
    <3>1. x \in Parents /\ p # x
      BY <1>2, <1>5, <1>6
    <3>2. Children(u, x) = {}
      BY <3>1, <1>2, <1>5
    <3> QED BY <2>1, <3>2
  <2>3. y \in Attached(t) /\ y \in Parents /\ IsItem(t, y)
    BY <2>1, <2>2, <1>2, <1>5, <1>6 DEF IsItem
  <2>4. PICK c \in Children(u, y) : u.kind[c] \in RiskKinds
    BY <2>1
  <2>5. CASE c = x
    BY <2>4, <2>5, <2>3, <1>2, <1>5
  <2>6. CASE c # x
    <3>1. c \in Children(t, y) /\ c \in Parents
      BY <2>4, <2>6, <2>3, <1>5, <1>6, <1>7
    <3>2. t.kind[c] \in RiskKinds
      BY <3>1, <2>4, <2>6, <1>2, <1>5
    <3> QED BY <3>1, <3>2, <2>3 DEF RiskPoints, OwnRisk, IsRisk
  <2> QED BY <2>5, <2>6
<1>9. SamePlaces(t, u, Attached(t))
  BY <1>2, <1>5, <1>6 DEF SamePlaces
<1> QED BY <1>8, <1>9

\* A deletion takes risks away and moves none.
LEMMA DeletesRisks ==
    ASSUME NEW t, NEW R, Shape(t, R), NEW x \in Attached(t), NEW u, NEW left, Deletes(t, R, x, u, left), OneLevel(t)
    PROVE  OneLevel(u)
<1>1. PICK off, clean : /\ IsDetached(t, R, x, off)
                        /\ Shape(clean, R \cup {x}) /\ SameNodes(off, clean) /\ IsTidied(clean, left, u)
  BY DEF Deletes
<1>2. /\ Shape(off, R \cup {x}) /\ x \in Nodes /\ off.kind = t.kind
      /\ \A q \in Parents : Children(off, q) = Children(t, q) \ {x}
      /\ \A q \in Parents : Under(off)[q] = IF x \in Under(t)[q] THEN Under(t)[q] \ Below(t, x) ELSE Under(t)[q]
      /\ Attached(off) = Attached(t) \ Below(t, x)
  BY <1>1 DEF IsDetached
<1>3. clean.kids = off.kids /\ clean.kind = off.kind
  BY <1>1 DEF SameNodes
<1>4. (\A q : Children(clean, q) = Children(off, q)) /\ Under(clean) = Under(off) /\ Attached(clean) = Attached(off)
  BY <1>3, SameWires
<1>5. /\ Attached(u) = Attached(clean)
      /\ \A q \in Sections \cup Attached(clean) : /\ Under(u)[q] = Under(clean)[q] /\ u.kind[q] = clean.kind[q]
                                                  /\ Children(u, q) = Children(clean, q)
  BY <1>1 DEF IsTidied, Alive
<1>6. /\ Wired(t) /\ Wired(off) /\ Attached(t) \subseteq Nodes /\ Nodes \subseteq Parents
      /\ "s5" \in Parents /\ "s5" \in Sections
  BY <1>2, AttachedIs, ParentsNodes DEF Shape
<1>7. ASSUME NEW y \in RiskPoints(u)
      PROVE  /\ y \in RiskPoints(t)
             /\ y \in Under(t)["s5"] => y \in Under(u)["s5"]
             /\ y \in Children(t, "s5") <=> y \in Children(u, "s5")
  <2>1. y \in Attached(off) /\ IsItem(u, y) /\ \E c \in Children(u, y) : u.kind[c] \in RiskKinds
    BY <1>4, <1>5 DEF RiskPoints, OwnRisk, IsRisk
  <2>2. y \in Attached(t) /\ y \notin Below(t, x) /\ y # x /\ y \in Parents
    BY <2>1, <1>2, <1>6 DEF Below
  <2>3. Children(off, y) \subseteq Attached(off)
    BY <2>1, <1>6, AttachedDown
  <2>4. IsItem(t, y) /\ OwnRisk(t, y)
    BY <2>1, <2>2, <2>3, <1>2, <1>3, <1>4, <1>5 DEF IsItem, OwnRisk, IsRisk
  <2> QED BY <2>2, <2>4, <1>2, <1>4, <1>5, <1>6 DEF RiskPoints
<1> QED BY <1>7, OneLevelLess

\* A risk table where the menu offers it.
LEMMA AllowedOneLevel ==
    ASSUME NEW t, NEW R, Shape(t, R), Numbered(t), ContentIsLeaf(t), OneLevel(t),
           NEW p \in Attached(t), NEW kind, _isRiskTableAllowedForNode(t, p, kind), NEW u,
           RiskPoints(u) \subseteq RiskPoints(t) \cup {p}, SamePlaces(t, u, Attached(t))
    PROVE  OneLevel(u)
<1>1. /\ IsItem(t, p) /\ t.level[p] >= 1
      /\ t.level[p] = 1 => ~_hasRiskTablesBelowLevel5x(t)
      /\ t.level[p] >= 2 => ~_hasRiskTablesAtLevel5x(t)
  BY DEF _isRiskTableAllowedForNode, isUnderSection5
<1>2. Wired(t) /\ "s5" \in Parents /\ "s5" \in Sections /\ Attached(t) \subseteq Nodes /\ Nodes \subseteq Parents
  BY AttachedIs, ParentsNodes DEF Shape
<1>3. LevelsTell(t)
  BY LevelsTellPlaces
<1>4. p \in Under(t)["s5"] /\ t.level[p] \in Nat /\ (t.level[p] = 1 <=> p \in Children(t, "s5"))
  BY <1>1, <1>3 DEF LevelsTell
<1>5. \A y \in RiskPoints(t) : y \in Under(t)["s5"] /\ y \in Attached(t)
  BY DEF OneLevel, RiskPoints
<1>6. ASSUME NEW c \in Items(t, "s5") PROVE c \in Attached(t) /\ t.level[c] = 1
  <2>1. c \in Children(t, "s5") /\ IsItem(t, c)
    BY DEF Items
  <2>2. c \in Attached(t)
    BY <2>1, <1>2, AttachedDown
  <2> QED BY <2>1, <2>2, <1>3 DEF LevelsTell
<1>7. ASSUME p \in Children(t, "s5"), NEW y \in RiskPoints(t) PROVE y \in Children(t, "s5")
  <2> SUFFICES ASSUME y \notin Children(t, "s5") PROVE FALSE
    OBVIOUS
  <2>1. y \in PointsUnder(t)["s5"] /\ IsItem(t, y) /\ OwnRisk(t, y) /\ y \in Parents
    BY <1>2, <1>5, SectionLeaf DEF RiskPoints
  <2>2. PICK c \in Items(t, "s5") : y = c \/ y \in PointsUnder(t)[c]
    BY <2>1, <1>2, FirstStep
  <2>3. c \in Children(t, "s5") /\ c \in Parents /\ y \in PointsUnder(t)[c]
    BY <2>2, <1>2, <1>6 DEF Items
  <2>4. PICK d \in Items(t, c) : y = d \/ y \in PointsUnder(t)[d]
    BY <2>3, <1>2, FirstStep
  <2>5. PICK r \in Children(t, y) : t.kind[r] \in RiskKinds
    BY <2>1 DEF OwnRisk, IsRisk
  <2>6. d \in Parents /\ r \in Nodes
    <3>1. \A q \in Parents : Children(t, q) \subseteq Nodes
      BY <1>2, ChildrenType DEF Wired
    <3> QED BY <3>1, <2>1, <2>3, <2>4, <2>5, <1>2 DEF Items
  <2>7. y \in Below(t, d)
    <3>1. PointsUnder(t)[d] \subseteq Under(t)[d]
      BY <2>6, <1>2, PointsRules
    <3> QED BY <3>1, <2>4 DEF Below
  <2>8. r \in Below(t, d)
    <3>1. Children(t, y) \subseteq Under(t)[y]
      BY <2>1, <1>2, UnderRules
    <3>2. y = d \/ (y \in Under(t)[d] /\ Children(t, y) \subseteq Under(t)[d])
      BY <2>6, <2>7, <1>2, UnderRules DEF Below
    <3> QED BY <3>1, <3>2, <2>5 DEF Below
  <2>9. HasRisks(t, d)
    BY <2>5, <2>6, <2>8 DEF HasRisks, IsRisk
  <2>10. _hasRiskTablesBelowLevel5x(t)
    BY <2>2, <2>4, <2>9, <1>6 DEF _hasRiskTablesBelowLevel5x
  <2> QED BY <2>10, <1>1, <1>4, <1>7
<1>8. ASSUME p \notin Children(t, "s5"), NEW y \in RiskPoints(t) PROVE y \notin Children(t, "s5")
  <2> SUFFICES ASSUME y \in Children(t, "s5") PROVE FALSE
    OBVIOUS
  <2>1. y \in Items(t, "s5") /\ OwnRisk(t, y)
    BY DEF RiskPoints, Items
  <2>2. _hasRiskTablesAtLevel5x(t)
    BY <2>1, <1>6 DEF _hasRiskTablesAtLevel5x
  <2>3. t.level[p] >= 2
    BY <1>1, <1>4, <1>8
  <2> QED BY <2>2, <2>3, <1>1
<1>9. \A y \in RiskPoints(u) : /\ y \in Attached(t) /\ y \in Under(u)["s5"]
                               /\ y \in Children(u, "s5") <=> y \in Children(t, "s5")
  BY <1>4, <1>5 DEF SamePlaces
<1>10. \A y \in RiskPoints(u) : y \in Children(t, "s5") <=> p \in Children(t, "s5")
  BY <1>7, <1>8
<1> QED BY <1>9, <1>10 DEF OneLevel

\* u is t with the subtree of x below p and nowhere else.
Replaced(t, x, p, u) ==
    /\ Wired(u) /\ u.kind = t.kind /\ x \in Nodes /\ p \in Parents /\ p \notin Below(t, x)
    /\ \A q \in Parents : Children(u, q) = (Children(t, q) \ {x}) \cup (IF q = p THEN {x} ELSE {})
    /\ Attached(u) = Attached(t) \cup Below(t, x)
    /\ Under(u)["s5"] = (Under(t)["s5"] \ Below(t, x)) \cup (IF p \in Below(t, "s5") THEN Below(t, x) ELSE {})

-----------------------------------------------------------------------------
(* Risk tables under a move.                                               *)

\* Joining a loose subtree below p: only its nodes enter or leave section 5.
LEMMA JoinsReplaced ==
    ASSUME NEW g, NEW R, Shape(g, R), NEW x \in R, NEW p \in Sections \cup Attached(g), NEW u,
           Joins(g, R, p, x, u)
    PROVE  Replaced(g, x, p, u)
<1>1. IsJoined(g, R, p, x, u)
  BY JoinsFacts
<1>2. \A q \in Parents : x \notin Children(g, q)
  BY DEF Shape, Loose
<1>3. Under(g)["s5"] \cap Below(g, x) = {}
  <2>1. "s5" \in Parents /\ Wired(g)
    BY ParentsNodes DEF Shape
  <2>2. Under(g)["s5"] \subseteq Attached(g)
    BY <2>1, AttachedIs
  <2> QED BY <2>2, LooseApart
<1>4. "s5" \in Parents
  BY ParentsNodes
<1>5. \A q \in Parents : Children(u, q) = (Children(g, q) \ {x}) \cup (IF q = p THEN {x} ELSE {})
  BY <1>1, <1>2 DEF IsJoined
<1> QED BY <1>1, <1>3, <1>4, <1>5 DEF IsJoined, Replaced

\* So it is with a move, which takes the subtree off first.
LEMMA MovesReplaced ==
    ASSUME NEW t, NEW R, Shape(t, R), NEW x \in Attached(t), NEW p, NEW u, Moves(t, R, x, p, u)
    PROVE  Replaced(t, x, p, u)
<1>1. PICK off : /\ IsDetached(t, R, x, off) /\ Joins(off, R \cup {x}, p, x, u)
                 /\ p \in Sections \cup Attached(off) /\ p \notin Below(t, x)
  BY DEF Moves
<1>2. /\ Shape(off, R \cup {x}) /\ x \in Nodes /\ off.kind = t.kind
      /\ \A q \in Parents : Children(off, q) = Children(t, q) \ {x}
      /\ \A q \in Parents : Under(off)[q] = IF x \in Under(t)[q] THEN Under(t)[q] \ Below(t, x) ELSE Under(t)[q]
      /\ Below(off, x) = Below(t, x) /\ Attached(off) = Attached(t) \ Below(t, x)
  BY <1>1 DEF IsDetached
<1>3. Replaced(off, x, p, u)
  BY <1>1, <1>2, JoinsReplaced
<1>4. "s5" \in Parents /\ "s5" \in Sections /\ Wired(t)
  BY ParentsNodes DEF Shape
<1>5. Under(off)["s5"] = Under(t)["s5"] \ Below(t, x)
  BY <1>2, <1>4, BelowAttached
<1>6. p \in Below(off, "s5") <=> p \in Below(t, "s5")
  BY <1>1, <1>5 DEF Below
<1>7. Below(t, x) \subseteq Attached(t)
  BY <1>4, AttachedDown DEF Below
<1>8. \A q \in Parents : Children(u, q) = (Children(t, q) \ {x}) \cup (IF q = p THEN {x} ELSE {})
  BY <1>2, <1>3 DEF Replaced
<1> QED BY <1>1, <1>2, <1>3, <1>5, <1>6, <1>7, <1>8 DEF Replaced

\* The steps to a point: none to itself.
LEMMA StepsSign ==
    ASSUME NEW t, Wired(t), NEW x \in Nodes
    PROVE  /\ Steps(t, x, x) = 0
           /\ \A y \in PointsBelow(t, x) : Steps(t, x, y) \in Nat \ {0}
<1>1. x \in Parents /\ IsFiniteSet(Parents) /\ Nodes \subseteq Parents
  BY ParentsNodes
<1>2. /\ PointsUnder(t)[x] \subseteq Under(t)[x] /\ Under(t)[x] \subseteq Nodes /\ x \notin Under(t)[x]
      /\ \A a \in Under(t)[x] : Under(t)[a] \subseteq Under(t)[x] /\ PointsUnder(t)[a] \subseteq Under(t)[a]
  BY <1>1, PointsRules, UnderRules
<1>3. {a \in {x} \cup PointsUnder(t)[x] : x \in PointsUnder(t)[a]} = {}
  BY <1>2
<1>4. Steps(t, x, x) = 0
  BY <1>3, FS_EmptySet DEF Steps, PointsBelow
<1>5. ASSUME NEW y \in PointsBelow(t, x) PROVE Steps(t, x, y) \in Nat \ {0}
  <2> DEFINE A == {a \in {x} \cup PointsBelow(t, x) : y \in PointsBelow(t, a)}
  <2>1. A \subseteq Parents /\ x \in A
    BY <1>1, <1>2 DEF PointsBelow
  <2>2. Steps(t, x, y) = Cardinality(A)
    BY DEF Steps
  <2> HIDE DEF A
  <2>3. IsFiniteSet(A) /\ Cardinality(A) \in Nat /\ Cardinality(A) # 0
    BY <2>1, <1>1, FS_Subset, FS_CardinalityType, FS_EmptySet
  <2> QED BY <2>2, <2>3
<1> QED BY <1>4, <1>5

\* Where the risks are once the subtree of x hangs below p.
LEMMA ReplacedRisks ==
    ASSUME NEW t, NEW R, Shape(t, R), NEW x, t.kind[x] \notin RiskKinds, NEW p, NEW u, Replaced(t, x, p, u),
           NEW y \in RiskPoints(u)
    PROVE  /\ IsItem(t, y) /\ y \in Parents /\ \E c \in Children(t, y) : c # x /\ t.kind[c] \in RiskKinds
           /\ y \in Below(t, x) \/ y \in RiskPoints(t)
<1>1. Wired(t) /\ x \in Nodes /\ Attached(t) \subseteq Nodes /\ Nodes \subseteq Parents
  BY AttachedIs, ParentsNodes DEF Shape, Replaced
<1>2. /\ u.kind = t.kind /\ Attached(u) = Attached(t) \cup Below(t, x)
      /\ \A q \in Parents : Children(u, q) = (Children(t, q) \ {x}) \cup (IF q = p THEN {x} ELSE {})
  BY DEF Replaced
<1>3. y \in Attached(u) /\ IsItem(t, y) /\ \E c \in Children(u, y) : t.kind[c] \in RiskKinds
  BY <1>2 DEF RiskPoints, IsItem, OwnRisk, IsRisk
<1>4. y \in Parents
  <2>1. Below(t, x) \subseteq Parents
    BY <1>1, UnderRules DEF Below
  <2> QED BY <2>1, <1>1, <1>2, <1>3
<1>5. PICK c \in Children(u, y) : t.kind[c] \in RiskKinds
  BY <1>3
<1>6. c # x /\ c \in Children(t, y)
  BY <1>2, <1>4, <1>5
<1> QED BY <1>2, <1>3, <1>4, <1>5, <1>6 DEF RiskPoints, OwnRisk, IsRisk

\* The check of the levels, for a subtree that joins or moves.
LEMMA CheckedOneLevel ==
    ASSUME NEW t, NEW R, Shape(t, R), LevelsTell(t), OneLevel(t), NEW x, IsItem(t, x), LeafContent(t, x),
           NEW p \in Sections \cup Attached(t), p = "s5" \/ isUnderSection5(t, p),
           _checkSection5RiskConstraints(t, x, p), NEW u, Replaced(t, x, p, u)
    PROVE  OneLevel(u)
<1> DEFINE rest == _collectSection5RiskLevels(t, Below(t, x))
           come == LevelsOfRisks(t, x, t.level[p] + 1)
           levels == rest \cup come
<1>1. 1 \in levels => levels = {1}
  BY DEF _checkSection5RiskConstraints
<1>2. /\ Wired(t) /\ x \in Nodes /\ x \in Parents /\ Attached(t) \subseteq Nodes /\ Nodes \subseteq Parents
      /\ "s5" \in Parents /\ "s5" \notin Nodes /\ p \notin Below(t, x) /\ p \in Parents /\ t.level["s5"] = 0
  BY AttachedIs, ParentsNodes DEF Shape, Replaced, OnlyPoints, Sections
<1>3. p # "s5" => p \in Attached(t) /\ t.level[p] \in Nat /\ t.level[p] >= 1 /\ p \in Under(t)["s5"]
  <2>1. ASSUME p # "s5" PROVE IsItem(t, p) /\ t.level[p] >= 1
    BY <2>1 DEF isUnderSection5
  <2>2. ASSUME p # "s5" PROVE p \in Attached(t)
    <3>1. p # "pm"
      BY <2>1, <2>2 DEF Shape, OnlyPoints, Sections
    <3> QED BY <3>1, <2>2 DEF Sections
  <2> QED BY <2>1, <2>2 DEF LevelsTell
<1>4. /\ \A q \in Parents : Children(u, q) = (Children(t, q) \ {x}) \cup (IF q = p THEN {x} ELSE {})
      /\ Under(u)["s5"] = (Under(t)["s5"] \ Below(t, x)) \cup Below(t, x)
  BY <1>3 DEF Replaced, Below
<1>5. ASSUME NEW y \in RiskPoints(u)
      PROVE  \E l \in levels : l = 1 <=> y \in Children(u, "s5")
  <2>1. /\ IsItem(t, y) /\ y \in Parents /\ \E c \in Children(t, y) : c # x /\ t.kind[c] \in RiskKinds
        /\ y \in Below(t, x) \/ y \in RiskPoints(t)
    BY ReplacedRisks DEF IsItem, RiskKinds
  <2>2. CASE y \notin Below(t, x)
    <3>1. y \in RiskPoints(t) /\ y \in Attached(t) /\ y \in Nodes /\ y \in Under(t)["s5"] /\ y \in Below(t, "s5")
      BY <2>1, <2>2, <1>2 DEF RiskPoints, OneLevel, Below
    <3>2. t.level[y] \in Nat /\ t.level[y] >= 1 /\ (t.level[y] = 1 <=> y \in Children(t, "s5"))
      BY <2>1, <3>1 DEF LevelsTell
    <3>3. PICK c \in Children(t, y) : c # x /\ t.kind[c] \in RiskKinds
      BY <2>1
    <3>4. c \notin Below(t, x)
      <4>1. c \in Under(t)[x] => y = x \/ y \in Under(t)[x]
        BY <3>3, <2>1, <1>2, UnderRules
      <4> QED BY <4>1, <3>3, <2>2 DEF Below
    <3>5. t.level[y] \in rest
      BY <3>1, <3>2, <3>3, <3>4, <2>1, <2>2 DEF _collectSection5RiskLevels, IsItem, IsRisk
    <3>6. y \in Children(u, "s5") <=> y \in Children(t, "s5")
      <4>1. y # x
        BY <2>2 DEF Below
      <4> QED BY <4>1, <1>2, <1>4
    <3> QED BY <3>2, <3>5, <3>6
  <2>3. CASE y = x
    <3>1. OwnRisk(t, x)
      BY <2>1, <2>3 DEF OwnRisk, IsRisk
    <3>2. Steps(t, x, x) = 0
      BY <1>2, StepsSign
    <3>3. t.level[p] + 1 \in come
      <4>1. t.level[p] \in Nat
        BY <1>2, <1>3
      <4>2. t.level[p] + 1 + Steps(t, x, x) \in come
        BY <3>1 DEF LevelsOfRisks
      <4> QED BY <4>1, <4>2, <3>2
    <3>4. x \in Children(u, "s5") <=> p = "s5"
      BY <1>2, <1>4
    <3>5. t.level[p] + 1 = 1 <=> p = "s5"
      BY <1>2, <1>3
    <3> QED BY <2>3, <3>3, <3>4, <3>5
  <2>4. CASE y \in Below(t, x) /\ y # x
    <3>1. y \in Under(t)[x] /\ y \in PointsUnder(t)[x]
      BY <2>1, <2>4, <1>2, PointsAll DEF Below
    <3>2. OwnRisk(t, y)
      BY <2>1 DEF OwnRisk, IsRisk
    <3>3. Steps(t, x, y) \in Nat \ {0}
      BY <3>1, <1>2, StepsSign DEF PointsBelow
    <3>4. t.level[p] + 1 + Steps(t, x, y) \in come
      BY <3>1, <3>2 DEF LevelsOfRisks, PointsBelow
    <3>5. t.level[p] \in Nat
      BY <1>2, <1>3
    <3>6. y \notin Children(t, "s5")
      <4> SUFFICES ASSUME y \in Children(t, "s5") PROVE FALSE
        OBVIOUS
      <4>1. "s5" = x \/ "s5" \in Under(t)[x]
        BY <3>1, <1>2, UnderRules
      <4>2. Under(t)[x] \subseteq Nodes
        BY <1>2, UnderRules
      <4> QED BY <4>1, <4>2, <1>2
    <3>7. y \notin Children(u, "s5")
      BY <3>6, <2>4, <1>2, <1>4
    <3> QED BY <3>3, <3>4, <3>5, <3>7
  <2> QED BY <2>2, <2>3, <2>4 DEF Below
<1> HIDE DEF levels
<1>6. ASSUME NEW a \in RiskPoints(u), NEW b \in RiskPoints(u), a \in Children(u, "s5") PROVE b \in Children(u, "s5")
  <2>1. 1 \in levels
    BY <1>5, <1>6
  <2>2. \A l \in levels : l = 1
    BY <2>1, <1>1
  <2> QED BY <2>2, <1>5
<1>7. ASSUME NEW y \in RiskPoints(u) PROVE y \in Under(u)["s5"]
  <2>1. y \in Below(t, x) \/ y \in RiskPoints(t)
    BY ReplacedRisks DEF IsItem, RiskKinds
  <2> QED BY <2>1, <1>4 DEF OneLevel
<1> QED BY <1>6, <1>7 DEF OneLevel

\* A node with something below it has children.
LEMMA UnderChildren ==
    ASSUME NEW t, Wired(t), NEW x \in Parents, Under(t)[x] # {}
    PROVE  Children(t, x) # {}
<1>1. ChildGraph(t) \in Graph /\ Under(t) = Descendants(ChildGraph(t)) /\ ChildGraph(t)[x] = Children(t, x)
  BY ChildrenType DEF Wired
<1>2. Under(t)[x] = Children(t, x) \cup UNION {Under(t)[c] : c \in Children(t, x)}
  BY <1>1, DescendantsOf
<1> QED BY <1>2

\* A subtree without risks changes none.
LEMMA RisklessOneLevel ==
    ASSUME NEW t, NEW R, Shape(t, R), OneLevel(t), NEW x, ~HasRisks(t, x), NEW p, NEW u, Replaced(t, x, p, u)
    PROVE  OneLevel(u)
<1>1. /\ Wired(t) /\ x \in Nodes /\ x \in Parents /\ "s5" \in Parents /\ Nodes \subseteq Parents
      /\ \A q \in Parents : Children(u, q) = (Children(t, q) \ {x}) \cup (IF q = p THEN {x} ELSE {})
      /\ Under(t)["s5"] \ Below(t, x) \subseteq Under(u)["s5"]
  BY ParentsNodes DEF Shape, Replaced
<1>2. \A y \in Below(t, x) \cap Nodes : t.kind[y] \notin RiskKinds
  BY DEF HasRisks, IsRisk
<1>3. t.kind[x] \notin RiskKinds
  BY <1>1, <1>2 DEF Below
<1>4. ASSUME NEW y \in RiskPoints(u) PROVE y \in RiskPoints(t) /\ y \notin Below(t, x) /\ y # x
  <2>1. /\ y \in Parents /\ \E c \in Children(t, y) : c # x /\ t.kind[c] \in RiskKinds
        /\ y \in Below(t, x) \/ y \in RiskPoints(t)
    BY <1>3, ReplacedRisks
  <2>2. y \notin Below(t, x)
    <3> SUFFICES ASSUME y \in Below(t, x) PROVE FALSE
      OBVIOUS
    <3>1. Children(t, y) \subseteq Under(t)[x] /\ Under(t)[x] \subseteq Nodes
      BY <1>1, UnderRules DEF Below
    <3> QED BY <3>1, <2>1, <1>2 DEF Below
  <2> QED BY <2>1, <2>2 DEF Below
<1>5. \A y \in RiskPoints(u) : /\ y \in Under(t)["s5"] => y \in Under(u)["s5"]
                               /\ y \in Children(t, "s5") <=> y \in Children(u, "s5")
  BY <1>1, <1>4
<1> QED BY <1>4, <1>5, OneLevelLess

\* A node with risks that is no risk table is a point, without points below
\* content.
LEMMA RiskyItem ==
    ASSUME NEW t, Wired(t), NEW x \in Nodes, LeafContent(t, x), HasRisks(t, x), t.kind[x] \notin RiskKinds
    PROVE  IsItem(t, x)
<1>1. PICK y \in Below(t, x) : t.kind[y] \in RiskKinds
  BY DEF HasRisks, IsRisk
<1>2. y \in Under(t)[x] /\ x \in Parents /\ x \in Below(t, x)
  BY <1>1, ParentsNodes DEF Below
<1>3. Children(t, x) # {}
  BY <1>2, UnderChildren
<1> QED BY <1>2, <1>3 DEF LeafContent

\* A move that the check of the risk levels let pass keeps the risk tables on one
\* side of the first level.
LEMMA MovesRisks ==
    ASSUME NEW t, NEW R, Shape(t, R), Numbered(t), ContentIsLeaf(t), OneLevel(t), NEW x \in Attached(t),
           t.kind[x] \notin RiskKinds, NEW p, NEW u, Moves(t, R, x, p, u), _checkSection5RiskConstraints(t, x, p),
           HasRisks(t, x) => p = "s5" \/ isUnderSection5(t, p)
    PROVE  OneLevel(u)
<1>1. Replaced(t, x, p, u) /\ Wired(t) /\ x \in Nodes
  BY MovesReplaced, AttachedIs DEF Shape
<1>2. CASE ~HasRisks(t, x)
  BY <1>1, <1>2, RisklessOneLevel
<1>3. CASE HasRisks(t, x)
  <2>1. LeafContent(t, x) /\ LevelsTell(t)
    BY <1>1, LeafContentOf, LevelsTellPlaces
  <2>2. IsItem(t, x)
    BY <2>1, <1>1, <1>3, RiskyItem
  <2>3. p \in Sections \cup Attached(t)
    BY DEF Moves
  <2> QED BY <2>1, <2>2, <2>3, <1>1, <1>3, CheckedOneLevel
<1> QED BY <1>2, <1>3

\* What is not in the tree does not matter.
LEMMA AgreesRisks ==
    ASSUME NEW t, Wired(t), NEW g, Agrees(t, g)
    PROVE  /\ OneLevel(t) => OneLevel(g)
           /\ LevelsTell(t) => LevelsTell(g)
<1>1. /\ Attached(g) = Attached(t) /\ "s5" \in Sections
      /\ \A q \in Sections \cup Attached(t) :
            /\ g.kind[q] = t.kind[q] /\ g.level[q] = t.level[q]
            /\ Children(g, q) = Children(t, q) /\ Under(g)[q] = Under(t)[q]
  BY ParentsNodes DEF Agrees
<1>2. \A y \in Attached(t) : Children(t, y) \subseteq Attached(t)
  BY AttachedDown
<1>3. RiskPoints(g) \subseteq RiskPoints(t)
  BY <1>1, <1>2 DEF RiskPoints, IsItem, OwnRisk, IsRisk
<1>4. OneLevel(t) => OneLevel(g)
  BY <1>1, <1>3, OneLevelLess
<1>5. LevelsTell(t) => LevelsTell(g)
  BY <1>1 DEF LevelsTell, IsItem
<1> QED BY <1>4, <1>5

\* A risk table of its own where the paste lets it.
LEMMA PlacedOneLevel ==
    ASSUME NEW g, NEW R, Shape(g, R), OneLevel(g), LevelsTell(g), NEW p \in Sections \cup Attached(g),
           NEW kind, _checkRiskTablePastePlacement(g, p, kind), NEW x, g.kind[x] \in RiskKinds, Children(g, x) = {},
           NEW u, Replaced(g, x, p, u), \A q \in Parents : x \notin Children(g, q)
    PROVE  OneLevel(u)
<1> DEFINE levels == _collectSection5RiskLevels(g, {})
<1>1. /\ Wired(g) /\ "s5" \in Parents /\ Attached(g) \subseteq Nodes /\ Nodes \subseteq Parents /\ x \in Nodes
      /\ u.kind = g.kind /\ Attached(u) = Attached(g) \cup {x}
      /\ \A q \in Parents : Children(u, q) = Children(g, q) \cup (IF q = p THEN {x} ELSE {})
      /\ p \notin Below(g, x)
  <2>1. Wired(g) /\ x \in Parents
    BY ParentsNodes DEF Shape, Replaced
  <2>2. Below(g, x) = {x}
    BY <2>1, UnderChildren DEF Below
  <2> QED BY <2>1, <2>2, AttachedIs, ParentsNodes DEF Replaced
<1>2. /\ IsItem(g, p) /\ g.level[p] >= 1
      /\ g.level[p] = 1 => levels \subseteq {1}
      /\ g.level[p] >= 2 => 1 \notin levels
  BY DEF _checkRiskTablePastePlacement, isUnderSection5
<1> HIDE DEF levels
<1>3. p \in Attached(g)
  BY <1>2 DEF Shape, OnlyPoints
<1>4. p \in Under(g)["s5"] /\ g.level[p] \in Nat /\ (g.level[p] = 1 <=> p \in Children(g, "s5"))
  BY <1>2, <1>3 DEF LevelsTell
<1>5. ASSUME NEW y \in RiskPoints(g)
      PROVE  /\ y \in Attached(g) /\ y \in Under(g)["s5"] /\ g.level[y] \in levels
             /\ g.level[y] = 1 <=> y \in Children(g, "s5")
  <2>1. y \in Attached(g) /\ IsItem(g, y) /\ OwnRisk(g, y) /\ y \in Under(g)["s5"] /\ y \in Nodes
    BY <1>1 DEF RiskPoints, OneLevel
  <2>2. g.level[y] \in Nat /\ g.level[y] >= 1 /\ (g.level[y] = 1 <=> y \in Children(g, "s5"))
    BY <2>1 DEF LevelsTell
  <2>3. g.level[y] \in levels
    BY <2>1, <2>2 DEF levels, _collectSection5RiskLevels, OwnRisk, IsRisk, IsItem, Below
  <2> QED BY <2>1, <2>2, <2>3
<1>6. ASSUME NEW y \in RiskPoints(u) PROVE y = p \/ y \in RiskPoints(g)
  <2>1. y \in Attached(g) \cup {x} /\ IsItem(g, y) /\ \E c \in Children(u, y) : g.kind[c] \in RiskKinds
    BY <1>1 DEF RiskPoints, IsItem, OwnRisk, IsRisk
  <2>2. y # x
    BY <2>1 DEF IsItem, RiskKinds
  <2>3. y \in Attached(g) /\ y \in Parents
    BY <2>1, <2>2, <1>1
  <2>4. y = p \/ Children(u, y) = Children(g, y)
    BY <2>3, <1>1
  <2> QED BY <2>1, <2>3, <2>4 DEF RiskPoints, OwnRisk, IsRisk
<1>7. \A y \in Attached(g) : /\ y \in Under(g)["s5"] => y \in Under(u)["s5"]
                             /\ y \in Children(g, "s5") <=> y \in Children(u, "s5")
  <2>1. x \notin Attached(g)
    <3>1. ASSUME x \in Attached(g) PROVE FALSE
      <4>1. x \in Children(g, Parent(g, x)) /\ Parent(g, x) \in Parents
        BY <3>1, <1>1, AttachedUp
      <4> QED BY <4>1
    <3> QED BY <3>1
  <2>2. x \in Parents
    BY <1>1
  <2>3. Under(g)["s5"] \ Below(g, x) \subseteq Under(u)["s5"] /\ Below(g, x) = {x}
    BY <2>2, <1>1, UnderChildren DEF Replaced, Below
  <2> QED BY <2>1, <2>3, <1>1
<1>8. \A y \in RiskPoints(g) : y \in Children(g, "s5") <=> p \in Children(g, "s5")
  <2>1. ASSUME NEW y \in RiskPoints(g) PROVE y \in Children(g, "s5") <=> p \in Children(g, "s5")
    <3>1. g.level[y] \in levels /\ (g.level[y] = 1 <=> y \in Children(g, "s5"))
      BY <1>5
    <3>2. CASE g.level[p] = 1
      BY <3>1, <3>2, <1>2, <1>4
    <3>3. CASE g.level[p] >= 2
      BY <3>1, <3>3, <1>2, <1>4
    <3> QED BY <3>2, <3>3, <1>2, <1>4
  <2> QED BY <2>1
<1>9. \A y \in RiskPoints(u) : /\ y \in Attached(g) /\ y \in Under(u)["s5"]
                               /\ y \in Children(u, "s5") <=> p \in Children(g, "s5")
  BY <1>3, <1>4, <1>5, <1>6, <1>7, <1>8
<1> QED BY <1>9 DEF OneLevel

\* Out of section 5 the risks of a fragment are dropped, and a risk table is
\* refused.
LEMMA DroppedRisks ==
    ASSUME NEW t, NEW R, NEW f \in Fragments, NEW ids, NEW keep, ~keep, NEW g, IsGrafted(t, R, f, ids, keep, g),
           g.kind[ids[1]] \notin RiskKinds
    PROVE  ~HasRisks(g, ids[1])
<1> DEFINE here == {i \in DOMAIN f : i = 1 \/ keep \/ f[i].kind \notin RiskKinds}
<1>1. Below(g, ids[1]) = {ids[i] : i \in here} /\ \A i \in here : g.kind[ids[i]] = f[i].kind
  BY DEF IsGrafted
<1>2. \A i \in here : g.kind[ids[i]] \notin RiskKinds
  BY <1>1
<1> HIDE DEF here
<1> QED BY <1>1, <1>2 DEF HasRisks, IsRisk

\* So does a paste of a plain fragment; outside section 5 its risk tables are
\* left out.
LEMMA PastesRisks ==
    ASSUME NEW t, NEW R, Shape(t, R), Numbered(t), ContentIsLeaf(t), OneLevel(t), NEW p \in Sections \cup Attached(t),
           NEW f \in Fragments, PlainFragment(f), NEW keep, keep <=> (p = "s5" \/ isUnderSection5(t, p)),
           NEW ids \in [1 .. Len(f) -> Nodes], IsInjective(ids), NEW u,
           Pastes(t, R, f, ids, keep, p, u), PasteAllowed(Grafted(t, f, ids, keep), ids[1], p)
    PROVE  OneLevel(u)
<1> DEFINE x == ids[1]
<1>1. PICK g : /\ IsGrafted(t, R, f, ids, keep, g) /\ g = Grafted(t, f, ids, keep)
               /\ Joins(g, R \cup {x}, p, x, u) /\ p \in Sections \cup Attached(g)
  BY DEF Pastes
<1>2. Shape(g, R \cup {x}) /\ Wired(g) /\ Wired(t) /\ x \in Nodes /\ x \in R \cup {x}
  BY <1>1 DEF IsGrafted, Shape
<1>3. Agrees(t, g) /\ LeafContent(g, x)
  BY <1>1, GraftedAgrees, GraftedLeaves
<1>4. /\ g.kind[x] \in RiskKinds => _checkRiskTablePastePlacement(g, p, g.kind[x])
      /\ HasRisks(g, x) /\ (p = "s5" \/ isUnderSection5(g, p)) => _checkSection5RiskConstraints(g, x, p)
  BY <1>1 DEF PasteAllowed, IsRisk
<1>a. ~keep /\ g.kind[x] \notin RiskKinds => ~HasRisks(g, x)
  BY <1>1, DroppedRisks
<1> HIDE DEF x
<1>5. OneLevel(g) /\ LevelsTell(g)
  BY <1>2, <1>3, AgreesRisks, LevelsTellPlaces
<1>6. Replaced(g, x, p, u) /\ \A q \in Parents : x \notin Children(g, q)
  <2>1. \A q \in Parents : x \notin Children(g, q)
    BY <1>2 DEF Shape, Loose
  <2> QED BY <2>1, <1>1, <1>2, JoinsReplaced
<1>7. p = "s5" \/ isUnderSection5(g, p) <=> keep
  BY <1>3 DEF Agrees, isUnderSection5, IsItem
<1>8. CASE g.kind[x] \in RiskKinds
  <2>1. Children(g, x) = {}
    BY <1>3, <1>8 DEF LeafContent, Below, IsItem, RiskKinds
  <2> QED BY <2>1, <1>1, <1>2, <1>4, <1>5, <1>6, <1>8, PlacedOneLevel
<1>9. CASE g.kind[x] \notin RiskKinds /\ HasRisks(g, x)
  <2>1. IsItem(g, x)
    BY <1>2, <1>3, <1>9, RiskyItem
  <2>2. p = "s5" \/ isUnderSection5(g, p)
    BY <1>7, <1>9, <1>a
  <2> QED BY <2>1, <2>2, <1>1, <1>2, <1>3, <1>4, <1>5, <1>6, <1>9, CheckedOneLevel
<1>10. CASE ~HasRisks(g, x)
  BY <1>2, <1>5, <1>6, <1>10, RisklessOneLevel
<1> QED BY <1>8, <1>9, <1>10

\* The checks on risks that a confirmed move passed.
LEMMA ConfirmedRisks ==
    ASSUME MoveConfirmed
    PROVE  LET t == [tree EXCEPT !.summary = @ \ {dialog.node}]
               p == _determineNewParent(t, dialog.target, dialog.position)
           IN \/ tree' = t
              \/ /\ _checkSection5RiskConstraints(t, dialog.node, p)
                 /\ HasRisks(t, dialog.node) => p = "s5" \/ isUnderSection5(t, p)
BY DEF MoveConfirmed, MoveAllowed

\* The same nodes at the same places.
LEMMA RisksSame ==
    ASSUME NEW t, NEW u, u.kids = t.kids, u.kind = t.kind
    PROVE  OneLevel(t) => OneLevel(u)
<1>1. (\A p : Children(u, p) = Children(t, p)) /\ Under(u) = Under(t) /\ Attached(u) = Attached(t)
  BY SameWires
<1>2. \A p : (IsItem(u, p) <=> IsItem(t, p)) /\ (OwnRisk(u, p) <=> OwnRisk(t, p))
  BY SamePoints
<1> QED BY <1>1, <1>2 DEF OneLevel, RiskPoints

\* Each step but those set aside keeps the risk tables on one side.
LEMMA NextKeepsRisks ==
    ASSUME IInv, Next, OneLevel(tree), ContentIsLeaf(tree), ~undoLast, ~LateRisk, ~PasteFinishes, ~MixedPaste
    PROVE  OneLevel(tree')
<1> DEFINE R == Loosened(undo)
<1>0. /\ Shape(tree, R) /\ Numbered(tree) /\ Placed = Attached(tree) /\ Here = Sections \cup Attached(tree)
      /\ Wired(tree) /\ tree \in TreeType
  BY DEF IInv, Placed, Here, Shape, Wired
<1> HIDE DEF R
<1>1. ASSUME tree' = tree PROVE OneLevel(tree')
  BY <1>1
<1>2. ASSUME NEW t, Shape(t, R), OneLevel(t), NEW p \in Sections \cup Attached(t), NEW x, NEW kind,
             Adds(t, R, p, x, kind, tree'), kind \notin RiskKinds
      PROVE  OneLevel(tree')
  <2>1. RiskPoints(tree') \subseteq RiskPoints(t) /\ SamePlaces(t, tree', Attached(t))
    BY <1>2, AddsRisks
  <2>2. RiskPoints(tree') \subseteq Attached(t)
    BY <2>1 DEF RiskPoints
  <2> QED BY <2>1, <2>2, <1>2, OneLevelLess DEF SamePlaces
<1>3. ASSUME NEW p \in Here, NEW x \in Fresh, handleAddChild(p, x) PROVE OneLevel(tree')
  <2>1. PICK t : /\ Shape(t, R) /\ t.kids = tree.kids /\ t.kind = tree.kind
                 /\ Adds(t, R, p, x, "item", tree') /\ p \in Sections \cup Attached(t)
    BY <1>3, AddChildIs DEF R
  <2>2. OneLevel(t)
    BY <2>1, RisksSame
  <2>3. "item" \notin RiskKinds
    BY DEF RiskKinds
  <2> QED BY <2>1, <2>2, <2>3, <1>2
<1>4. ASSUME NEW p \in Here, NEW x \in Fresh, NEW i \in 0 .. Len(tree.kids[p]), handleAddSibling(p, i, x)
      PROVE  OneLevel(tree')
  <2>1. Adds(tree, R, p, x, "item", tree')
    BY <1>4, AddSiblingIs DEF R
  <2>2. "item" \notin RiskKinds
    BY DEF RiskKinds
  <2> QED BY <2>1, <2>2, <1>0, <1>2
<1>5. ASSUME NEW p \in Here, NEW x \in Fresh, NEW kind \in Kinds \ RiskKinds, AddContent(p, kind, x)
      PROVE  OneLevel(tree')
  <2>1. Adds(tree, R, p, x, kind, tree')
    BY <1>5, AddContentIs DEF R
  <2> QED BY <2>1, <1>0, <1>2
<1>6. ASSUME NEW p \in Placed, NEW x \in Fresh, NEW kind \in Kinds \cap RiskKinds,
             _handleRiskTableAction(p, kind, x)
      PROVE  OneLevel(tree')
  <2>1. p \in Attached(tree) /\ Adds(tree, R, p, x, kind, tree') /\ _isRiskTableAllowedForNode(tree, p, kind)
    BY <1>6, RiskActionIs DEF R
  <2>2. RiskPoints(tree') \subseteq RiskPoints(tree) \cup {p} /\ SamePlaces(tree, tree', Attached(tree))
    BY <2>1, <1>0, AddsRisks
  <2> QED BY <2>1, <2>2, <1>0, AllowedOneLevel
<1>8. ASSUME NEW x \in Placed, setNodeTb(x) PROVE OneLevel(tree')
  <2>1. tree' = [tree EXCEPT !.tb = IF x \in @ THEN @ \ {x} ELSE @ \cup {x}]
    BY <1>8 DEF setNodeTb
  <2>2. tree'.kids = tree.kids /\ tree'.kind = tree.kind
    BY <2>1, <1>0 DEF TreeType
  <2> QED BY <2>2, RisksSame
<1>9. ASSUME NEW x \in Placed, deleteNode(x) PROVE OneLevel(tree')
  <2>1. Deletes(tree, R, x, tree', undo')
    BY <1>9, DeleteIs DEF R
  <2> QED BY <2>1, <1>0, DeletesRisks
<1>11. ASSUME NEW x \in Placed, NEW target \in Here, NEW position \in Positions, moveNode(x, target, position)
       PROVE  OneLevel(tree')
  <2> DEFINE p == _determineNewParent(tree, target, position)
  <2>1. Moves(tree, R, x, p, tree')
    BY <1>11, MoveNodeIs DEF R
  <2>2. /\ _checkSection5RiskConstraints(tree, x, p) /\ tree.kind[x] \notin RiskKinds
        /\ HasRisks(tree, x) => p = "s5" \/ isUnderSection5(tree, p)
    BY <1>11 DEF moveNode, MoveAllowed, CanDrop, IsRisk
  <2> HIDE DEF p
  <2>3. x \in Attached(tree)
    BY <1>0
  <2> QED BY <2>1, <2>2, <2>3, <1>0, MovesRisks
<1>12. CASE MoveConfirmed
  <2> DEFINE t == [tree EXCEPT !.summary = @ \ {dialog.node}]
             p == _determineNewParent(t, dialog.target, dialog.position)
  <2>1. /\ Shape(t, R) /\ Numbered(t) /\ t.kids = tree.kids /\ t.kind = tree.kind /\ dialog.node \in Attached(t)
        /\ tree' = t \/ Moves(t, R, dialog.node, p, tree')
    BY <1>12, MoveConfirmedIs DEF R
  <2>2. \/ tree' = t
        \/ /\ _checkSection5RiskConstraints(t, dialog.node, p)
           /\ HasRisks(t, dialog.node) => p = "s5" \/ isUnderSection5(t, p)
    BY <1>12, ConfirmedRisks
  <2> HIDE DEF t, p
  <2>3. OneLevel(t) /\ ContentIsLeaf(t)
    BY <2>1, RisksSame, DepthSame
  <2>4. t.kind[dialog.node] \notin RiskKinds
    <3>1. DialogOK(tree, dialog)
      BY DEF IInv
    <3>2. dialog.op = "move"
      BY <1>12 DEF MoveConfirmed
    <3> QED BY <3>1, <3>2, <2>1 DEF DialogOK, NoDialog
  <2>5. CASE tree' = t
    BY <2>3, <2>5
  <2>6. CASE tree' # t
    BY <2>1, <2>2, <2>3, <2>4, <2>6, MovesRisks
  <2> QED BY <2>5, <2>6
<1>13. ASSUME NEW f \in Fragments, NEW p \in Here, NEW ids \in Identifiers(f), pasteInto(f, ids, p)
       PROVE  OneLevel(tree')
  <2> DEFINE keep == p = "s5" \/ isUnderSection5(tree, p)
  <2>1. /\ Pastes(tree, R, f, ids, keep, p, tree') /\ PasteAllowed(Grafted(tree, f, ids, keep), ids[1], p)
        /\ p \in Sections \cup Attached(tree) /\ IsInjective(ids)
        /\ ids \in [1 .. Len(f) -> UnusedSet(tree, undo, pasting.target)]
    BY <1>13, PasteIntoIs DEF R
  <2>2. keep <=> p = "s5" \/ isUnderSection5(tree, p)
    OBVIOUS
  <2> HIDE DEF keep
  <2>3. ids \in [1 .. Len(f) -> Nodes]
    BY <2>1, UnusedIs
  <2>4. PlainFragment(f)
    BY <1>13 DEF MixedPaste
  <2> QED BY <2>1, <2>2, <2>3, <2>4, <1>0, PastesRisks
<1>15. CASE \E p \in Placed : \E kind \in Kinds \cap RiskKinds : _showRiskLevelWarning(p, kind)
  BY <1>15, <1>1 DEF _showRiskLevelWarning
<1>16. CASE \E x \in Placed, target \in Here, position \in Positions : _checkMetricsTableDeletion(x, target, position)
  BY <1>16, <1>1 DEF _checkMetricsTableDeletion
<1>17. CASE DialogCancelled
  BY <1>17, <1>1 DEF DialogCancelled
<1>18. CASE \E f \in Fragments, p \in Here : \E ids \in Identifiers(f) : PasteWaits(f, ids, p)
  BY <1>18, <1>1 DEF PasteWaits
<1>19. CASE PasteFails
  BY <1>19, <1>1 DEF PasteFails
<1> QED BY <1>3, <1>4, <1>5, <1>6, <1>8, <1>9, <1>11, <1>12, <1>13, <1>15, <1>16, <1>17, <1>18, <1>19 DEF Next, LateRisk

\* Risk tables stay in section 5, on points of the first level or below them
\* and never both, whatever the menu, the mouse and the clipboard do, but for
\* the steps that are known not to ask.
THEOREM RisksStay == Spec => RisksStayPlaced
<1>1. IInv /\ [Next]_vars =>
        [(RisksPlaced(tree) /\ ContentIsLeaf(tree)) =>
           RisksPlaced(tree') \/ undoLast \/ LateRisk \/ PasteFinishes \/ MixedPaste]_vars
  <2> SUFFICES ASSUME IInv, Next, RisksPlaced(tree), ContentIsLeaf(tree),
                      ~undoLast, ~LateRisk, ~PasteFinishes, ~MixedPaste
               PROVE  RisksPlaced(tree')
    OBVIOUS
  <2>1. Wired(tree)
    BY DEF IInv, Shape
  <2>2. Wired(tree')
    <3>1. IInv'
      BY NextInv
    <3> QED BY <3>1 DEF IInv, Shape
  <2>3. OneLevel(tree)
    BY <2>1, PlacedIs
  <2>4. OneLevel(tree')
    BY <2>3, NextKeepsRisks
  <2> QED BY <2>2, <2>4, PlacedIs
<1> QED BY <1>1, Structure, PTL DEF Spec, RisksStayPlaced


-----------------------------------------------------------------------------
(* The summaries of section 5.                                             *)

\* The points of the first level that must have a summary.
Called(t) == {a \in Items(t, "s5") : \E c \in Items(t, a) : HasRisks(t, c)}

\* The summaries are right, said of this set.
IsRight(t, excused) ==
    /\ Attached(t) \cap t.summary \subseteq Called(t)
    /\ Called(t) \subseteq t.summary \cup excused
    /\ t.main <=> HasRisks(t, "s5")

\* The two say the same of a tree.
LEMMA RightIs ==
    ASSUME NEW t, NEW R, Shape(t, R), NEW e
    PROVE  SummariesRight(t, e) <=> IsRight(t, e)
<1>1. Wired(t) /\ "s5" \in Sections /\ "s5" \in Parents
  BY ParentsNodes DEF Shape
<1>2. \A a \in Items(t, "s5") : a \in Attached(t) /\ a \in Children(t, "s5")
  BY <1>1, AttachedDown DEF Items
<1>3. \A x \in Attached(t) : Parent(t, x) = "s5" <=> x \in Children(t, "s5")
  BY <1>1, AttachedUp
<1>4. \A x \in t.summary : IsItem(t, x)
  BY MarkedItems
<1>5. \A a \in Items(t, "s5") : a \in Called(t) <=> \E c \in Items(t, a) : HasRisks(t, c)
  BY DEF Called
<1>6. Called(t) \subseteq Items(t, "s5")
  BY DEF Called
<1>7. \A a \in Attached(t) \cap t.summary : Parent(t, a) = "s5" <=> a \in Items(t, "s5")
  BY <1>2, <1>3, <1>4 DEF Items
<1>8. SummariesRight(t, e) <=>
        /\ \A a \in Items(t, "s5") : (a \in t.summary => a \in Called(t)) /\ (a \in Called(t) => a \in t.summary \cup e)
        /\ \A x \in Attached(t) \cap t.summary : x \in Items(t, "s5")
        /\ t.main <=> HasRisks(t, "s5")
  BY <1>5, <1>7, Zenon DEF SummariesRight
<1>9. /\ \A a \in Items(t, "s5") : (a \in t.summary => a \in Called(t)) /\ (a \in Called(t) => a \in t.summary \cup e)
      /\ \A x \in Attached(t) \cap t.summary : x \in Items(t, "s5")
      <=>
      /\ Attached(t) \cap t.summary \subseteq Called(t)
      /\ Called(t) \subseteq t.summary \cup e
  BY <1>2, <1>6
<1> QED BY <1>8, <1>9, Zenon DEF IsRight

\* The same nodes need the same summaries.
LEMMA SameCalled ==
    ASSUME NEW t, NEW u, u.kids = t.kids, u.kind = t.kind
    PROVE  Called(u) = Called(t) /\ \A y : (HasRisks(u, y) <=> HasRisks(t, y)) /\ Items(u, y) = Items(t, y)
<1>1. (\A p : Children(u, p) = Children(t, p)) /\ Under(u) = Under(t) /\ \A p : Below(u, p) = Below(t, p)
  BY SameWires
<1>2. \A p : Items(u, p) = Items(t, p)
  BY <1>1 DEF Items, IsItem
<1>3. \A p : HasRisks(u, p) <=> HasRisks(t, p)
  BY <1>1 DEF HasRisks, IsRisk
<1> QED BY <1>2, <1>3 DEF Called

\* A node has the risks of those below it.
LEMMA RisksRise ==
    ASSUME NEW t, Wired(t), NEW q \in Parents, NEW y \in Under(t)[q], HasRisks(t, y)
    PROVE  HasRisks(t, q)
<1>1. Under(t)[y] \subseteq Under(t)[q]
  BY UnderRules
<1>2. Below(t, y) \subseteq Below(t, q)
  BY <1>1 DEF Below
<1> QED BY <1>2 DEF HasRisks, IsRisk

\* A point that needs a summary has risks below it, and so has section 5.
LEMMA CalledRisky ==
    ASSUME NEW t, Wired(t), NEW a \in Called(t)
    PROVE  a \in Items(t, "s5") /\ a \in Nodes /\ a \in Parents /\ HasRisks(t, a) /\ HasRisks(t, "s5")
<1>1. "s5" \in Parents /\ Nodes \subseteq Parents /\ t \in TreeType
  BY ParentsNodes DEF Wired
<1>2. a \in Items(t, "s5") /\ \E c \in Items(t, a) : HasRisks(t, c)
  BY DEF Called
<1>3. a \in Nodes /\ a \in Children(t, "s5") /\ a \in Parents
  BY <1>1, <1>2, ChildrenType
<1>4. PICK c \in Children(t, a) : HasRisks(t, c)
  BY <1>2 DEF Items
<1>5. c \in Under(t)[a] /\ a \in Under(t)["s5"]
  BY <1>1, <1>3, <1>4, UnderRules
<1>6. HasRisks(t, a)
  BY <1>3, <1>4, <1>5, RisksRise
<1> QED BY <1>1, <1>2, <1>3, <1>5, <1>6, RisksRise

JoinCalls(g, x, p, u) ==
    /\ Called(g) \subseteq Called(u)
    /\ \A a \in Called(u) : a \in Called(g) \/ (HasRisks(g, x) /\ x \in Below(u, a))
    /\ \A y \in Parents : HasRisks(u, y) <=> HasRisks(g, y) \/ (p \in Below(g, y) /\ HasRisks(g, x))

\* A subtree brings its risks to the nodes above it and to no other.
LEMMA JoinedCalled ==
    ASSUME NEW g, NEW R, Shape(g, R), NEW x \in R, NEW p \in Sections \cup Attached(g), NEW u, Joins(g, R, p, x, u)
    PROVE  JoinCalls(g, x, p, u)
<1>0. IsJoined(g, R, p, x, u)
  BY JoinsFacts
<1>1. /\ Wired(u) /\ x \in Nodes /\ p \in Parents /\ u.kind = g.kind
      /\ \A q \in Parents : Children(u, q) = IF q = p THEN Children(g, q) \cup {x} ELSE Children(g, q)
      /\ \A q \in Parents : Under(u)[q] = Under(g)[q] \cup (IF p \in Below(g, q) THEN Below(g, x) ELSE {})
  BY <1>0 DEF IsJoined
<1>2. Wired(g) /\ g \in TreeType /\ u \in TreeType /\ "s5" \in Parents /\ Nodes \subseteq Parents
  BY <1>1, ParentsNodes DEF Shape, Wired
<1>3. ASSUME NEW y \in Parents PROVE HasRisks(u, y) <=> HasRisks(g, y) \/ (p \in Below(g, y) /\ HasRisks(g, x))
  <2>1. Below(u, y) = Below(g, y) \cup (IF p \in Below(g, y) THEN Below(g, x) ELSE {})
    BY <1>1 DEF Below
  <2> QED BY <2>1, <1>1 DEF HasRisks, IsRisk
<1>4. \A q \in Parents : Items(g, q) \subseteq Items(u, q) /\ Items(u, q) \subseteq Items(g, q) \cup {x}
  BY <1>1 DEF Items, IsItem
<1>5. \A q \in Parents : Items(g, q) \subseteq Nodes /\ Items(u, q) \subseteq Nodes
  BY <1>2, ChildrenType
<1>6. ASSUME NEW a \in Called(g) PROVE a \in Called(u)
  <2>1. a \in Items(g, "s5") /\ \E c \in Items(g, a) : HasRisks(g, c)
    BY DEF Called
  <2>2. a \in Items(u, "s5") /\ a \in Parents
    BY <2>1, <1>2, <1>4, <1>5
  <2>3. PICK c \in Items(g, a) : HasRisks(g, c)
    BY <2>1
  <2>4. c \in Items(u, a) /\ HasRisks(u, c)
    BY <2>2, <2>3, <1>2, <1>3, <1>4, <1>5
  <2> QED BY <2>2, <2>4 DEF Called
<1>7. ASSUME NEW a \in Called(u), a \notin Called(g) PROVE HasRisks(g, x) /\ x \in Below(u, a)
  <2>1. a \in Items(u, "s5") /\ a \in Parents /\ HasRisks(u, a)
    BY <1>1, CalledRisky
  <2>2. PICK c \in Items(u, a) : HasRisks(u, c)
    BY DEF Called
  <2>3. c \in Parents /\ c \in Children(u, a)
    BY <2>1, <2>2, <1>2, <1>5 DEF Items
  <2>4. CASE a = x
    <3>1. HasRisks(g, x)
      BY <2>1, <2>4, <1>3
    <3> QED BY <3>1, <2>4 DEF Below
  <2>5. CASE a # x /\ c = x
    <3>1. x \in Under(u)[a]
      BY <2>1, <2>3, <2>5, <1>1, UnderRules
    <3>2. HasRisks(g, x)
      BY <2>2, <2>3, <2>5, <1>3
    <3> QED BY <3>1, <3>2 DEF Below
  <2>6. CASE a # x /\ c # x
    <3>1. a \in Items(g, "s5") /\ c \in Items(g, a)
      BY <2>1, <2>2, <2>6, <1>2, <1>4
    <3>2. ~HasRisks(g, c)
      BY <3>1, <1>7 DEF Called
    <3>3. p \in Below(g, c) /\ HasRisks(g, x)
      BY <3>2, <2>2, <2>3, <1>3
    <3>4. x \in Under(u)[c]
      <4>1. x \in Below(g, x)
        BY DEF Below
      <4> QED BY <4>1, <3>3, <2>3, <1>1
    <3>5. c \in Under(u)[a]
      BY <2>1, <2>3, <1>1, UnderRules
    <3>6. Under(u)[c] \subseteq Under(u)[a]
      BY <3>5, <2>1, <1>1, UnderRules
    <3> QED BY <3>3, <3>4, <3>6 DEF Below
  <2> QED BY <2>4, <2>5, <2>6
<1> QED BY <1>3, <1>6, <1>7 DEF JoinCalls

DetachCalls(t, x, u) ==
    /\ Called(u) \subseteq Called(t)
    /\ \A a \in Called(t) : a \in Called(u) \/ (HasRisks(t, x) /\ x \in Below(t, a))
    /\ \A y \in Parents : /\ HasRisks(u, y) => HasRisks(t, y)
                          /\ HasRisks(t, y) => HasRisks(u, y) \/ (x \in Under(t)[y] /\ HasRisks(t, x))
    /\ HasRisks(u, x) <=> HasRisks(t, x)

\* A subtree takes its risks from the nodes above it and from no other.
LEMMA DetachedCalled ==
    ASSUME NEW t, NEW R, Shape(t, R), NEW x \in Attached(t), NEW u, IsDetached(t, R, x, u)
    PROVE  DetachCalls(t, x, u)
<1>1. /\ Shape(u, R \cup {x}) /\ x \in Nodes /\ u.kind = t.kind
      /\ \A q \in Parents : Children(u, q) = Children(t, q) \ {x}
      /\ \A q \in Parents : Under(u)[q] = IF x \in Under(t)[q] THEN Under(t)[q] \ Below(t, x) ELSE Under(t)[q]
      /\ Below(u, x) = Below(t, x)
  BY DEF IsDetached
<1>2. Wired(t) /\ t \in TreeType /\ u \in TreeType /\ Wired(u) /\ "s5" \in Parents /\ Nodes \subseteq Parents
  BY <1>1, ParentsNodes DEF Shape, Wired
<1>3. ASSUME NEW y \in Parents
      PROVE  /\ HasRisks(u, y) => HasRisks(t, y)
             /\ HasRisks(t, y) => HasRisks(u, y) \/ (x \in Under(t)[y] /\ HasRisks(t, x))
  <2>1. Under(u)[y] \subseteq Under(t)[y] /\ Under(t)[y] \subseteq Under(u)[y] \cup (IF x \in Under(t)[y] THEN Below(t, x) ELSE {})
    BY <1>1
  <2>2. Below(u, y) \subseteq Below(t, y) /\ Below(t, y) \subseteq Below(u, y) \cup (IF x \in Under(t)[y] THEN Below(t, x) ELSE {})
    BY <2>1 DEF Below
  <2> QED BY <2>2, <1>1 DEF HasRisks, IsRisk
<1>4. HasRisks(u, x) <=> HasRisks(t, x)
  BY <1>1 DEF HasRisks, IsRisk
<1>5. \A q \in Parents : Items(u, q) = Items(t, q) \ {x}
  BY <1>1 DEF Items, IsItem
<1>6. \A q \in Parents : Items(t, q) \subseteq Nodes
  BY <1>2, ChildrenType
<1>7. ASSUME NEW a \in Called(u) PROVE a \in Called(t)
  <2>1. a \in Items(u, "s5") /\ \E c \in Items(u, a) : HasRisks(u, c)
    BY DEF Called
  <2>2. a \in Items(t, "s5") /\ a \in Parents
    BY <2>1, <1>2, <1>5, <1>6
  <2>3. PICK c \in Items(u, a) : HasRisks(u, c)
    BY <2>1
  <2>4. c \in Items(t, a) /\ HasRisks(t, c)
    BY <2>2, <2>3, <1>2, <1>3, <1>5, <1>6
  <2> QED BY <2>2, <2>4 DEF Called
<1>8. ASSUME NEW a \in Called(t), a \notin Called(u) PROVE HasRisks(t, x) /\ x \in Below(t, a)
  <2>1. a \in Items(t, "s5") /\ a \in Parents /\ HasRisks(t, a)
    BY <1>2, CalledRisky
  <2>2. PICK c \in Items(t, a) : HasRisks(t, c)
    BY DEF Called
  <2>3. c \in Parents /\ c \in Children(t, a)
    BY <2>1, <2>2, <1>2, <1>6 DEF Items
  <2>4. c \in Under(t)[a]
    BY <2>1, <2>3, <1>2, UnderRules
  <2>5. CASE a = x
    BY <2>1, <2>5 DEF Below
  <2>6. CASE a # x /\ c = x
    BY <2>2, <2>4, <2>6 DEF Below
  <2>7. CASE a # x /\ c # x
    <3>1. a \in Items(u, "s5") /\ c \in Items(u, a)
      BY <2>1, <2>2, <2>7, <1>2, <1>5
    <3>2. ~HasRisks(u, c)
      BY <3>1, <1>8 DEF Called
    <3>3. x \in Under(t)[c] /\ HasRisks(t, x)
      BY <3>2, <2>2, <2>3, <1>3
    <3>4. Under(t)[c] \subseteq Under(t)[a]
      BY <2>1, <2>4, <1>2, UnderRules
    <3> QED BY <3>3, <3>4 DEF Below
  <2> QED BY <2>5, <2>6, <2>7
<1> QED BY <1>3, <1>4, <1>7, <1>8 DEF DetachCalls

\* What a move does to the points that need a summary.
MoveCalls(t, x, p, u) ==
    /\ \A a \in Called(u) : a \in Called(t) \/ (HasRisks(t, x) /\ x \in Below(u, a))
    /\ \A a \in Called(t) : a \in Called(u) \/ (HasRisks(t, x) /\ x \in Below(t, a))
    /\ ~HasRisks(t, x) => (HasRisks(u, "s5") <=> HasRisks(t, "s5"))
    /\ HasRisks(t, x) /\ p \in Below(t, "s5") => HasRisks(u, "s5")
    /\ x \in Items(t, "s5") /\ x \in Items(u, "s5") => (x \in Called(t) <=> x \in Called(u))
    /\ HasRisks(u, x) <=> HasRisks(t, x)

\* A move makes a point need a summary only by bringing it risks, and makes one
\* need none only by taking them away.
LEMMA MovedCalled ==
    ASSUME NEW t, NEW R, Shape(t, R), NEW x \in Attached(t), NEW p, NEW u, Moves(t, R, x, p, u)
    PROVE  MoveCalls(t, x, p, u)
<1>1. PICK off : /\ IsDetached(t, R, x, off) /\ Joins(off, R \cup {x}, p, x, u)
                 /\ p \in Sections \cup Attached(off) /\ p \notin Below(t, x)
  BY DEF Moves
<1>2. /\ Shape(off, R \cup {x}) /\ x \in Nodes /\ x \in R \cup {x} /\ off.kind = t.kind
      /\ \A q \in Parents : Children(off, q) = Children(t, q) \ {x}
      /\ \A q \in Parents : Under(off)[q] = IF x \in Under(t)[q] THEN Under(t)[q] \ Below(t, x) ELSE Under(t)[q]
  BY <1>1 DEF IsDetached
<1>3. DetachCalls(t, x, off)
  BY <1>1, DetachedCalled
<1>4. JoinCalls(off, x, p, u)
  BY <1>1, <1>2, JoinedCalled
<1>5. Wired(t) /\ Wired(u) /\ Wired(off) /\ "s5" \in Parents /\ Nodes \subseteq Parents /\ t \in TreeType /\ u \in TreeType
  <2>1. IsJoined(off, R \cup {x}, p, x, u)
    BY <1>1, <1>2, JoinsFacts
  <2> QED BY <2>1, <1>2, ParentsNodes DEF IsJoined, Shape, Wired
<1>6. HasRisks(off, x) <=> HasRisks(t, x)
  BY <1>3 DEF DetachCalls
<1>7. ASSUME NEW a \in Called(u) PROVE a \in Called(t) \/ (HasRisks(t, x) /\ x \in Below(u, a))
  BY <1>3, <1>4, <1>6 DEF DetachCalls, JoinCalls
<1>8. ASSUME NEW a \in Called(t) PROVE a \in Called(u) \/ (HasRisks(t, x) /\ x \in Below(t, a))
  BY <1>3, <1>4 DEF DetachCalls, JoinCalls
<1>9. ASSUME ~HasRisks(t, x) PROVE HasRisks(u, "s5") <=> HasRisks(t, "s5")
  BY <1>3, <1>4, <1>5, <1>6, <1>9 DEF DetachCalls, JoinCalls
<1>10. ASSUME HasRisks(t, x), p \in Below(t, "s5") PROVE HasRisks(u, "s5")
  <2>1. p \in Below(off, "s5")
    BY <1>1, <1>2, <1>5, <1>10 DEF Below
  <2> QED BY <2>1, <1>4, <1>5, <1>6, <1>10 DEF JoinCalls
<1>11. ASSUME x \in Items(t, "s5"), x \in Items(u, "s5") PROVE x \in Called(t) <=> x \in Called(u)
  <2>1. x \in Parents /\ p # x
    BY <1>1, <1>2, <1>5 DEF Below
  <2>2. IsJoined(off, R \cup {x}, p, x, u)
    BY <1>1, <1>2, JoinsFacts
  <2>3. Children(u, x) = Children(t, x)
    <3>1. x \notin Children(t, x)
      BY <2>1, <1>5, UnderRules
    <3>2. \A q \in Parents : Children(u, q) = IF q = p THEN Children(off, q) \cup {x} ELSE Children(off, q)
      BY <2>2 DEF IsJoined
    <3>3. Children(u, x) = Children(off, x)
      BY <3>2, <2>1
    <3> QED BY <3>1, <3>3, <2>1, <1>2
  <2>4. Items(u, x) = Items(t, x)
    BY <2>2, <2>3, <1>2 DEF Items, IsItem, IsJoined
  <2>5. ASSUME NEW c \in Items(t, x) PROVE HasRisks(u, c) <=> HasRisks(t, c)
    <3>1. c \in Under(t)[x] /\ c \in Parents
      BY <2>1, <1>5, ChildrenType, UnderRules DEF Items
    <3>2. x \notin Under(t)[c] /\ Under(t)[c] \subseteq Under(t)[x]
      <4>1. Under(t)[c] \subseteq Under(t)[x] /\ x \notin Under(t)[x]
        BY <2>1, <3>1, <1>5, UnderRules
      <4> QED BY <4>1
    <3>3. HasRisks(off, c) <=> HasRisks(t, c)
      BY <3>1, <3>2, <1>3 DEF DetachCalls
    <3>4. p \notin Below(off, c)
      BY <3>1, <3>2, <1>1, <1>2 DEF Below
    <3> QED BY <3>1, <3>3, <3>4, <1>4 DEF JoinCalls
  <2> QED BY <2>4, <2>5, <1>11 DEF Called
<1>12. HasRisks(u, x) <=> HasRisks(t, x)
  BY <1>2, <1>4, <1>5, <1>6 DEF JoinCalls
<1> QED BY <1>7, <1>8, <1>9, <1>10, <1>11, <1>12 DEF MoveCalls

\* What a new node does to them: a risk table only does anything.
AddCalls(t, p, x, kind, u) ==
    /\ Called(t) \subseteq Called(u)
    /\ \A a \in Called(u) : a \in Called(t) \/ (kind \in RiskKinds /\ x \in Below(u, a))
    /\ HasRisks(u, "s5") <=> HasRisks(t, "s5") \/ (kind \in RiskKinds /\ p \in Below(t, "s5"))
    /\ Attached(u) = Attached(t) \cup {x}

\* Only a risk table makes new needs, and only above it.
LEMMA AddedCalled ==
    ASSUME NEW t, NEW R, Shape(t, R), NEW p \in Sections \cup Attached(t), NEW x, NEW kind, NEW u,
           Adds(t, R, p, x, kind, u)
    PROVE  AddCalls(t, p, x, kind, u)
<1>1. PICK g : IsCreated(t, R, x, kind, g) /\ Joins(g, R \cup {x}, p, x, u)
  BY DEF Adds
<1>2. /\ Shape(g, R \cup {x}) /\ x \notin Attached(t) /\ g.kids = t.kids /\ g.kind[x] = kind
      /\ \A y \in Parents : y # x => g.kind[y] = t.kind[y]
      /\ Below(t, x) = {x} /\ Children(t, x) = {} /\ \A q \in Parents : x \notin Children(t, q) /\ x \notin Under(t)[q]
  BY <1>1 DEF IsCreated
<1>3. /\ \A q : Children(g, q) = Children(t, q) /\ Below(g, q) = Below(t, q)
      /\ Under(g) = Under(t) /\ Attached(g) = Attached(t)
  BY <1>2, SameWires
<1>4. IsJoined(g, R \cup {x}, p, x, u) /\ x \in R \cup {x} /\ p \in Sections \cup Attached(g)
  BY <1>1, <1>2, <1>3, JoinsFacts
<1>5. JoinCalls(g, x, p, u)
  BY <1>1, <1>2, <1>4, JoinedCalled
<1>6. x \in Nodes /\ Attached(u) = Attached(t) \cup {x} /\ Wired(t) /\ t \in TreeType /\ "s5" \in Parents /\ Nodes \subseteq Parents
      /\ x # "s5"
  BY <1>2, <1>3, <1>4, ParentsNodes DEF IsJoined, Shape, Wired
<1>7. HasRisks(g, x) <=> kind \in RiskKinds
  BY <1>2, <1>3, <1>6 DEF HasRisks, IsRisk
<1>8. ASSUME NEW y \in Parents, y # x PROVE HasRisks(g, y) <=> HasRisks(t, y)
  <2>1. x \notin Below(t, y)
    BY <1>2, <1>8 DEF Below
  <2> QED BY <2>1, <1>2, <1>3, <1>6 DEF HasRisks, IsRisk
<1>9. \A q \in Parents : Items(g, q) = Items(t, q) /\ x \notin Items(t, q)
  <2>1. \A q \in Parents : Children(t, q) \subseteq Nodes
    BY <1>6, ChildrenType
  <2> QED BY <2>1, <1>2, <1>3, <1>6 DEF Items, IsItem
<1>10. Called(g) = Called(t)
  <2>1. \A q \in Parents : Items(t, q) \subseteq Nodes
    BY <1>6, ChildrenType
  <2>2. \A a \in Items(t, "s5") : a \in Parents
    BY <2>1, <1>6
  <2>3. \A a \in Items(t, "s5") : Items(g, a) = Items(t, a) /\ \A c \in Items(t, a) : HasRisks(g, c) <=> HasRisks(t, c)
    BY <2>1, <2>2, <1>6, <1>8, <1>9
  <2> QED BY <2>3, <1>6, <1>9 DEF Called
<1>11. HasRisks(u, "s5") <=> HasRisks(t, "s5") \/ (kind \in RiskKinds /\ p \in Below(t, "s5"))
  BY <1>3, <1>5, <1>6, <1>7, <1>8 DEF JoinCalls
<1> QED BY <1>5, <1>6, <1>7, <1>10, <1>11 DEF JoinCalls, AddCalls

\* The first points of section 5 have level 1.
LEMMA FirstLevel ==
    ASSUME NEW t, Wired(t), Numbered(t), NEW a \in Items(t, "s5")
    PROVE  t.level[a] = 1
<1>1. "s5" \in Parents /\ a \in PointsUnder(t)["s5"] /\ a \in Children(t, "s5")
  BY ParentsNodes, PointsRules DEF Items
<1>2. ASSUME NEW b \in PointsUnder(t)["s5"], a \in PointsUnder(t)[b] PROVE FALSE
  <2>1. b \in Parents /\ b \in Under(t)["s5"]
    BY <1>1, <1>2, PointsRules, ParentsNodes
  <2>2. a \in Under(t)[b]
    BY <1>2, <2>1, PointsRules
  <2>3. "s5" = b \/ "s5" \in Under(t)[b]
    BY <1>1, <2>1, <2>2, UnderRules
  <2>4. "s5" \in Under(t)["s5"]
    BY <1>1, <2>1, <2>3, UnderRules
  <2> QED BY <2>4, <1>1, UnderRules
<1>3. {b \in PointsBelow(t, "s5") : a \in PointsBelow(t, b)} = {}
  BY <1>2 DEF PointsBelow
<1>4. t.level[a] = 1 + Cardinality({b \in PointsBelow(t, "s5") : a \in PointsBelow(t, b)})
  BY <1>1 DEF Numbered, PointsBelow
<1> QED BY <1>3, <1>4, FS_EmptySet

\* A node is below one point of the first level at most.
LEMMA OneAbove ==
    ASSUME NEW t, Wired(t), NEW a \in Children(t, "s5"), NEW b \in Children(t, "s5"), NEW x \in Below(t, a), x \in Below(t, b)
    PROVE  a = b
<1>1. "s5" \in Parents /\ a \in Nodes /\ b \in Nodes /\ a \in Parents /\ b \in Parents
  <2>1. "s5" \in Parents /\ Nodes \subseteq Parents
    BY ParentsNodes
  <2> QED BY <2>1, ChildrenType DEF Wired
<1>2. a \in Below(t, b) \/ b \in Below(t, a)
  BY <1>1, UnderChain DEF Below
<1>3. ASSUME NEW c \in Nodes, NEW d \in Children(t, "s5"), d \in Nodes, d \in Under(t)[c], c \in Children(t, "s5") PROVE FALSE
  <2>1. c \in Parents /\ c \in Under(t)["s5"]
    BY <1>1, <1>3, ParentsNodes, UnderRules
  <2>2. "s5" = c \/ "s5" \in Under(t)[c]
    BY <1>1, <1>3, <2>1, UnderRules
  <2>3. "s5" \in Under(t)["s5"]
    BY <1>1, <2>1, <2>2, UnderRules
  <2> QED BY <2>3, <1>1, UnderRules
<1> QED BY <1>1, <1>2, <1>3 DEF Below

\* A point with risks below a point of the first level calls for its summary.
LEMMA RiskyBelow ==
    ASSUME NEW t, Wired(t), NEW a \in Items(t, "s5"), NEW x \in Under(t)[a], IsItem(t, x), HasRisks(t, x),
           \A y \in Nodes : ~IsItem(t, y) => Children(t, y) = {}
    PROVE  a \in Called(t)
<1>1. "s5" \in Parents /\ a \in Nodes /\ a \in Parents /\ Nodes \subseteq Parents /\ a \in Children(t, "s5")
  <2>1. "s5" \in Parents /\ Nodes \subseteq Parents
    BY ParentsNodes
  <2> QED BY <2>1, ChildrenType DEF Wired, Items
<1>2. ChildGraph(t) \in Graph /\ Under(t) = Descendants(ChildGraph(t)) /\ ChildGraph(t)[a] = Children(t, a)
  BY <1>1, ChildrenType DEF Wired
<1>3. Under(t)[a] = Children(t, a) \cup UNION {Under(t)[c] : c \in Children(t, a)}
  BY <1>1, <1>2, DescendantsOf
<1>4. PICK c \in Children(t, a) : x = c \/ x \in Under(t)[c]
  BY <1>3
<1>5. c \in Nodes /\ c \in Parents
  BY <1>1, <1>4, ChildrenType DEF Wired
<1>6. IsItem(t, c)
  <2>1. CASE x \in Under(t)[c]
    <3>1. Children(t, c) # {}
      BY <2>1, <1>5, UnderChildren
    <3> QED BY <3>1, <1>5
  <2> QED BY <2>1, <1>4
<1>7. HasRisks(t, c)
  BY <1>4, <1>5, RisksRise
<1> QED BY <1>4, <1>6, <1>7 DEF Called, Items

\* Adding and numbering touch no summary.
LEMMA AddedSummary ==
    ASSUME NEW t \in TreeType, NEW x, NEW kind, NEW p, NEW k
    PROVE  generateNumbering(InsertedAt(Created(t, x, kind), p, k, x)).summary = t.summary
<1> DEFINE g == Created(t, x, kind)
           i == InsertedAt(g, p, k, x)
           u == generateNumbering(i)
           F == {"kids", "level", "kind", "summary", "main", "tb"}
<1>1. DOMAIN t = F
  BY DEF TreeType
<1>2. DOMAIN g = F /\ g.summary = t.summary
  BY <1>1 DEF Created
<1> HIDE DEF g
<1>3. DOMAIN i = F /\ i.summary = g.summary
  BY <1>2 DEF InsertedAt
<1> HIDE DEF i
<1>4. u.summary = i.summary
  BY <1>3 DEF generateNumbering
<1> QED BY <1>2, <1>3, <1>4 DEF g, i

\* The actions that add a node without risks leave the summaries alone.
LEMMA PlainSummary ==
    ASSUME IInv
    PROVE  /\ \A p \in Here, x \in Fresh : handleAddChild(p, x) => tree'.summary = tree.summary
           /\ \A p \in Here, x \in Fresh : \A i : handleAddSibling(p, i, x) => tree'.summary = tree.summary
           /\ \A p \in Here, x \in Fresh : \A kind : AddContent(p, kind, x) => tree'.summary = tree.summary
<1>1. tree \in TreeType
  BY DEF IInv, Shape, Wired
<1>2. ASSUME NEW p \in Here, NEW x \in Fresh, handleAddChild(p, x) PROVE tree'.summary = tree.summary
  <2> DEFINE t == IF isTbLeaf(tree, p) THEN [tree EXCEPT !.tb = @ \ {p}] ELSE tree
             k == Len(t.kids[p])
  <2>1. tree' = generateNumbering(InsertedAt(Created(t, x, "item"), p, k, x))
    BY <1>2 DEF handleAddChild
  <2>2. t \in TreeType /\ t.summary = tree.summary
    BY <1>1 DEF TreeType
  <2> HIDE DEF t, k
  <2> QED BY <2>1, <2>2, AddedSummary
<1>3. ASSUME NEW p \in Here, NEW x \in Fresh, NEW i, handleAddSibling(p, i, x) PROVE tree'.summary = tree.summary
  <2>1. tree' = generateNumbering(InsertedAt(Created(tree, x, "item"), p, i, x))
    BY <1>3 DEF handleAddSibling
  <2> QED BY <2>1, <1>1, AddedSummary
<1>4. ASSUME NEW p \in Here, NEW x \in Fresh, NEW kind, AddContent(p, kind, x) PROVE tree'.summary = tree.summary
  <2> DEFINE k == Len(tree.kids[p])
  <2>1. tree' = generateNumbering(InsertedAt(Created(tree, x, kind), p, k, x))
    BY <1>4 DEF AddContent
  <2> HIDE DEF k
  <2> QED BY <2>1, <1>1, AddedSummary
<1> QED BY <1>2, <1>3, <1>4

\* Adding a node that is no risk table keeps the summaries right.
LEMMA AddsRight ==
    ASSUME NEW t, NEW R, Shape(t, R), NEW p \in Sections \cup Attached(t), NEW x, NEW kind, kind \notin RiskKinds, NEW u,
           Adds(t, R, p, x, kind, u), u.summary = t.summary, u.main = t.main, x \notin t.summary,
           IsRight(t, {})
    PROVE  IsRight(u, {})
<1>1. AddCalls(t, p, x, kind, u)
  BY AddedCalled
<1>2. Called(u) = Called(t) /\ (HasRisks(u, "s5") <=> HasRisks(t, "s5")) /\ Attached(u) = Attached(t) \cup {x}
  BY <1>1 DEF AddCalls
<1>3. Attached(t) \cap t.summary \subseteq Called(t) /\ Called(t) \subseteq t.summary \cup {}
  BY DEF IsRight
<1>4. Attached(u) \cap u.summary \subseteq Called(u) /\ Called(u) \subseteq u.summary \cup {}
  BY <1>2, <1>3
<1>5. t.main <=> HasRisks(t, "s5")
  BY DEF IsRight
<1>6. u.main <=> HasRisks(u, "s5")
  BY <1>2, <1>5, Zenon
<1> QED BY <1>4, <1>6 DEF IsRight

\* More may be excused.
LEMMA RightWeaker ==
    ASSUME NEW t, NEW e, IsRight(t, {})
    PROVE  IsRight(t, e)
<1>1. Called(t) \subseteq t.summary \cup {} => Called(t) \subseteq t.summary \cup e
  OBVIOUS
<1> QED BY <1>1, Zenon DEF IsRight

\* Room for a table depends on the node and its own summary.
LEMMA SameRoom ==
    ASSUME NEW t, NEW u, u.kids = t.kids, u.kind = t.kind, NEW a, a # "s5", a \in u.summary <=> a \in t.summary
    PROVE  a \in Full(u) <=> a \in Full(t)
<1>1. countChildrenByType(u, a, "table") = countChildrenByType(t, a, "table")
  BY SameBlocks
<1>2. Under(u) = Under(t)
  BY SameWires
<1>3. getNodeDepth(u, a) = getNodeDepth(t, a) /\ (IsItem(u, a) <=> IsItem(t, a))
  BY <1>2 DEF getNodeDepth, IsItem
<1> QED BY <1>1, <1>3 DEF Full, canAddContent

\* The summary of a point is there, unless the point is full.
LEMMA MadeOrFull ==
    ASSUME NEW t, NEW R, Shape(t, R), NEW a \in Nodes, IsItem(t, a), NEW u, u = _createMetricsTable(t, a)
    PROVE  /\ Shape(u, R) /\ u.kids = t.kids /\ u.kind = t.kind /\ u.main = t.main
           /\ t.summary \subseteq u.summary /\ u.summary \subseteq t.summary \cup {a}
           /\ a \in u.summary \/ a \in Full(u)
<1>1. /\ Shape(u, R) /\ SameNodes(t, u) /\ u.main = t.main
      /\ t.summary \subseteq u.summary /\ u.summary \subseteq t.summary \cup {a}
  BY ShapeCreateMetrics
<1>2. a \in Parents /\ t \in TreeType
  BY ParentsNodes DEF Shape, Wired
<1>3. CASE a \notin t.summary /\ canAddContent(t, a, "table")
  <2>1. u = [t EXCEPT !.summary = @ \cup {a}]
    BY <1>3 DEF _createMetricsTable
  <2>2. a \in u.summary
    BY <2>1, <1>2 DEF TreeType
  <2> QED BY <2>2, <1>1 DEF SameNodes
<1>4. CASE ~(a \notin t.summary /\ canAddContent(t, a, "table"))
  <2>1. u = t
    BY <1>4 DEF _createMetricsTable
  <2> QED BY <2>1, <1>1, <1>2, <1>4 DEF Full
<1> QED BY <1>3, <1>4

\* After a risk table came to p: the summary of the point above p is there, or
\* that point is full, and nothing else is new.
LEMMA UpdatedIs ==
    ASSUME NEW v, NEW R, Shape(v, R), Numbered(v), NEW p, NEW u,
           u = _updateMetricsTablesAfterRiskTableCreated(v, p)
    PROVE  /\ u.kids = v.kids /\ u.kind = v.kind /\ u.main /\ v.summary \subseteq u.summary
           /\ u.summary \subseteq v.summary \cup Called(v)
           /\ \A a \in Called(v) : p \in Below(v, a) => a \in u.summary \cup Full(u)
<1> DEFINE need == {a \in Items(v, "s5") : p \in Below(v, a) /\ shouldHaveMetricsTable(v, a)}
           made == IF need = {} THEN v ELSE _createMetricsTable(v, CHOOSE a \in need : TRUE)
           mained == _createMainMetricsTable(made)
<1>1. u = generateNumbering(mained)
  BY DEF _updateMetricsTablesAfterRiskTableCreated
<1>2. Wired(v) /\ v \in TreeType /\ "s5" \in Parents /\ "s5" \notin Nodes
  BY ParentsNodes DEF Shape, Wired
<1>3. \A a \in Items(v, "s5") : a \in Nodes /\ IsItem(v, a) /\ a \in Children(v, "s5") /\ a # "s5"
  BY <1>2, ChildrenType DEF Items
<1>4. \A a \in Items(v, "s5") : shouldHaveMetricsTable(v, a) <=> a \in Called(v)
  BY <1>2, FirstLevel DEF shouldHaveMetricsTable, Called
<1>5. need = {a \in Called(v) : p \in Below(v, a)}
  <2>1. Called(v) \subseteq Items(v, "s5")
    BY DEF Called
  <2> QED BY <2>1, <1>4
<1>6. \A a, b \in need : a = b
  BY <1>2, <1>3, OneAbove
<1> HIDE DEF need
<1>7. need \subseteq Items(v, "s5")
  BY <1>5 DEF Called
<1>8. /\ Shape(made, R) /\ made.kids = v.kids /\ made.kind = v.kind
      /\ v.summary \subseteq made.summary /\ made.summary \subseteq v.summary \cup need
      /\ need \subseteq made.summary \cup Full(made)
  <2>1. CASE need = {}
    BY <2>1
  <2>2. CASE need # {}
    <3> DEFINE c == CHOOSE a \in need : TRUE
    <3>1. c \in need
      BY <2>2
    <3>2. made = _createMetricsTable(v, c)
      BY <2>2
    <3> HIDE DEF c, made
    <3>3. c \in Nodes /\ IsItem(v, c) /\ need = {c}
      BY <3>1, <1>3, <1>6, <1>7
    <3>4. /\ Shape(made, R) /\ made.kids = v.kids /\ made.kind = v.kind /\ made.main = v.main
          /\ v.summary \subseteq made.summary /\ made.summary \subseteq v.summary \cup {c}
          /\ c \in made.summary \/ c \in Full(made)
      BY <3>2, <3>3, MadeOrFull
    <3> QED BY <3>3, <3>4
  <2> QED BY <2>1, <2>2
<1> HIDE DEF made
<1>9. Shape(mained, R) /\ SameNodes(made, mained) /\ mained.main /\ mained.summary = made.summary
  BY <1>8, ShapeCreateMain
<1> HIDE DEF mained
<1>10. SameNodes(mained, u) /\ u.main = mained.main /\ u.summary = mained.summary
  BY <1>1, <1>9, ShapeRenumbered
<1>11. u.kids = made.kids /\ u.kind = made.kind /\ u.summary = made.summary /\ u.main
  BY <1>9, <1>10 DEF SameNodes
<1>12. ASSUME NEW a \in need PROVE a \in u.summary \cup Full(u)
  <2>1. a # "s5" /\ (a \in u.summary <=> a \in made.summary)
    BY <1>3, <1>7, <1>11
  <2>2. a \in Full(u) <=> a \in Full(made)
    BY <2>1, <1>11, SameRoom
  <2> QED BY <2>2, <1>8, <1>11
<1> QED BY <1>5, <1>8, <1>11, <1>12

\* What the creation of a risk table updates: the tree with it, numbered.
LEMMA CreatedRisk ==
    ASSUME IInv, NEW p \in Sections \cup Attached(tree), NEW kind \in RiskKinds, NEW x \in Fresh,
           CreateRiskTable(p, kind, x)
    PROVE  \E v, Q : /\ Shape(v, Q) /\ Numbered(v) /\ v.summary = tree.summary
                     /\ tree' = _updateMetricsTablesAfterRiskTableCreated(v, p)
<1> DEFINE R == Loosened(undo)
           g == Created(tree, x, kind)
<1>1. Shape(tree, R) /\ p \in Parents /\ tree \in TreeType
  BY AttachedDown DEF IInv, Shape, Wired
<1>2. x \in Nodes /\ tree.kind[x] = "none"
  BY FreshIs
<1>3. tree' = _updateMetricsTablesAfterRiskTableCreated(generateNumbering(insertNodeAt(g, p, x, 0)), p)
  BY DEF CreateRiskTable
<1>4. kind \in KindSet \ {"none"}
  BY DEF KindSet, RiskKinds
<1> HIDE DEF R
<1>5. IsCreated(tree, R, x, kind, g)
  BY <1>1, <1>2, <1>4, ShapeCreated
<1>a. \A k : generateNumbering(InsertedAt(g, p, k, x)).summary = tree.summary
  BY <1>1, AddedSummary
<1> HIDE DEF g
<1>6. Shape(g, R \cup {x}) /\ g.kids = tree.kids /\ g \in TreeType
  BY <1>5 DEF IsCreated, Shape, Wired
<1>7. p \in Sections \cup Attached(g) /\ x \in R \cup {x}
  BY <1>6, SameWires
<1>8. PICK k \in 0 .. Len(g.kids[p]) : insertNodeAt(g, p, x, 0) = InsertedAt(g, p, k, x)
  <2>1. 0 \in Nat
    OBVIOUS
  <2> QED BY <2>1, <1>1, <1>6, InsertNodeIs
<1> DEFINE v == generateNumbering(InsertedAt(g, p, k, x))
<1>9. tree' = _updateMetricsTablesAfterRiskTableCreated(v, p) /\ v.summary = tree.summary
  BY <1>3, <1>8, <1>a
<1>10. PlainJoin(g, R \cup {x}, p, x, v)
  BY <1>6, <1>7, JoinsNumbered
<1> HIDE DEF v
<1>11. Shape(v, (R \cup {x}) \ {x}) /\ Numbered(v)
  BY <1>10 DEF PlainJoin, Joins
<1> QED BY <1>9, <1>11

\* A risk table made in section 5 brings its summaries.
LEMMA RiskRight ==
    ASSUME IInv, NEW p \in Attached(tree), p \in Under(tree)["s5"], NEW kind \in RiskKinds, NEW x \in Fresh,
           CreateRiskTable(p, kind, x), IsRight(tree, {})
    PROVE  IsRight(tree', Full(tree'))
<1> DEFINE R == Loosened(undo)
           u == tree'
<1>1. Adds(tree, R, p, x, kind, u) /\ Shape(tree, R) /\ x \in Nodes /\ tree.kind[x] = "none"
      /\ p \in Sections \cup Attached(tree)
  BY CreateRiskTableIs, FreshIs DEF IInv
<1>2. PICK v, Q : /\ Shape(v, Q) /\ Numbered(v) /\ v.summary = tree.summary
                  /\ u = _updateMetricsTablesAfterRiskTableCreated(v, p)
  BY <1>1, CreatedRisk
<1> HIDE DEF R, u
<1>3. /\ u.kids = v.kids /\ u.kind = v.kind /\ u.main /\ v.summary \subseteq u.summary
      /\ u.summary \subseteq v.summary \cup Called(v)
      /\ \A a \in Called(v) : p \in Below(v, a) => a \in u.summary \cup Full(u)
  BY <1>2, UpdatedIs
<1>4. Called(u) = Called(v) /\ \A q : Below(u, q) = Below(v, q)
  BY <1>3, SameCalled, SameWires
<1>5. AddCalls(tree, p, x, kind, u)
  BY <1>1, AddedCalled
<1>6. /\ Called(tree) \subseteq Called(u) /\ Attached(u) = Attached(tree) \cup {x}
      /\ \A a \in Called(u) : a \in Called(tree) \/ x \in Below(u, a)
      /\ HasRisks(u, "s5") <=> HasRisks(tree, "s5") \/ p \in Below(tree, "s5")
  BY <1>5 DEF AddCalls
<1>7. Attached(tree) \cap tree.summary \subseteq Called(tree) /\ Called(tree) \subseteq tree.summary
  BY DEF IsRight
<1>8. x \notin tree.summary
  BY <1>1 DEF Shape, Clean
<1>9. Attached(u) \cap u.summary \subseteq Called(u)
  BY <1>2, <1>3, <1>4, <1>6, <1>7, <1>8
<1>10. ASSUME NEW a \in Called(u), x \in Below(u, a) PROVE p \in Below(u, a)
  <2>1. PICK g : IsCreated(tree, R, x, kind, g) /\ Joins(g, R \cup {x}, p, x, u)
    BY <1>1 DEF Adds
  <2>2. Shape(g, R \cup {x}) /\ g.kids = tree.kids /\ g.kind[x] \in RiskKinds
    BY <2>1 DEF IsCreated
  <2>3. p \in Sections \cup Attached(g) /\ x \in R \cup {x}
    BY <2>2, <1>1, SameWires
  <2>4. IsJoined(g, R \cup {x}, p, x, u)
    BY <2>1, <2>2, <2>3, JoinsFacts
  <2>5. Wired(u) /\ p \in Parents /\ u.kind[x] \in RiskKinds /\ x \in Children(u, p)
    BY <2>2, <2>4 DEF IsJoined
  <2>6. a \in Parents /\ IsItem(u, a)
    <3>1. a \in Items(u, "s5") /\ a \in Parents
      BY <2>5, CalledRisky
    <3> QED BY <3>1 DEF Items
  <2>7. a # x
    BY <2>5, <2>6 DEF IsItem, RiskKinds
  <2>8. x \in Under(u)[a]
    BY <2>7, <1>10 DEF Below
  <2> QED BY <2>5, <2>6, <2>8, UnderRules DEF Below
<1>11. ASSUME NEW a \in Called(u) PROVE a \in u.summary \cup Full(u)
  <2>1. CASE a \in Called(tree)
    BY <2>1, <1>2, <1>3, <1>7
  <2>2. CASE x \in Below(u, a)
    <3>1. p \in Below(v, a) /\ a \in Called(v)
      BY <2>2, <1>4, <1>10
    <3> QED BY <3>1, <1>3
  <2> QED BY <2>1, <2>2, <1>6
<1>12. Called(u) \subseteq u.summary \cup Full(u)
  BY <1>11
<1>13. HasRisks(u, "s5")
  BY <1>6 DEF Below
<1>14. u.main <=> HasRisks(u, "s5")
  BY <1>3, <1>13, Zenon
<1> QED BY <1>9, <1>12, <1>14, Zenon DEF IsRight, u

\* After a move with risks: summaries not called for are gone, and the one of
\* the point above x is there, or that point is full.
LEMMA ReconciledIs ==
    ASSUME NEW v, NEW R, Shape(v, R), Numbered(v), NEW x, NEW old, HasRisks(v, x), HasRisks(v, "s5"), v.main,
           ~(old # {} /\ _findFirstLevelAncestorUnder5(v, x) = old), NEW u,
           u = _reconcileMetricsTablesAfterMove(v, x, old)
    PROVE  /\ u.main /\ u.summary \subseteq v.summary \cup Called(v)
           /\ \A y \in u.summary : y \in Called(v) \/ y \notin Items(v, "s5")
           /\ \A a \in Called(v) : a \in v.summary \/ x \in Below(v, a) => a \in u.summary \cup Full(u)
<1> DEFINE new == _findFirstLevelAncestorUnder5(v, x)
           clean == _cleanupMetricsTablesAfterRiskTableDeleted(v)
           need == \E a \in new : shouldHaveMetricsTable(clean, a)
           made == IF need THEN _createMetricsTable(clean, CHOOSE a \in new : TRUE) ELSE clean
           mained == IF shouldHaveMainMetrics(made) THEN _createMainMetricsTable(made) ELSE made
<1>1. u = generateNumbering(mained)
  BY DEF _reconcileMetricsTablesAfterMove
<1>2. Wired(v) /\ v \in TreeType /\ "s5" \in Parents /\ "s5" \notin Nodes
  BY ParentsNodes DEF Shape, Wired
<1>3. \A a \in Items(v, "s5") : a \in Nodes /\ IsItem(v, a) /\ a \in Children(v, "s5") /\ a # "s5"
  BY <1>2, ChildrenType DEF Items
<1>4. Called(v) \subseteq Items(v, "s5")
  BY DEF Called
<1>5. new = {a \in Items(v, "s5") : x \in Below(v, a)}
  BY <1>2, FirstLevel DEF _findFirstLevelAncestorUnder5
<1>6. \A a, b \in new : a = b
  BY <1>2, <1>3, <1>5, OneAbove
<1> HIDE DEF new
<1>7. /\ Shape(clean, R) /\ Numbered(clean) /\ SameNodes(v, clean)
      /\ clean.main = (v.main /\ shouldHaveMainMetrics(v))
      /\ clean.summary = v.summary \ {a \in Items(v, "s5") : v.level[a] = 1 /\ ~shouldHaveMetricsTable(v, a)}
  BY ShapeCleanup
<1> HIDE DEF clean
<1>8. clean.kids = v.kids /\ clean.kind = v.kind
  BY <1>7 DEF SameNodes
<1>9. \A a \in Items(v, "s5") : v.level[a] = 1 /\ (shouldHaveMetricsTable(v, a) <=> a \in Called(v))
  BY <1>2, FirstLevel DEF shouldHaveMetricsTable, Called
<1>10. clean.summary = v.summary \ (Items(v, "s5") \ Called(v))
  BY <1>7, <1>9
<1>11. Called(clean) = Called(v) /\ Items(clean, "s5") = Items(v, "s5")
  BY <1>8, SameCalled
<1>12. \A a \in Items(v, "s5") : shouldHaveMetricsTable(clean, a) <=> a \in Called(v)
  <2>1. Wired(clean)
    BY <1>7 DEF Shape
  <2>2. \A a \in Items(clean, "s5") : shouldHaveMetricsTable(clean, a) <=> a \in Called(clean)
    BY <2>1, <1>7, FirstLevel DEF shouldHaveMetricsTable, Called
  <2> QED BY <2>2, <1>11
<1>13. need <=> \E a \in new : a \in Called(v)
  BY <1>5, <1>12
<1> HIDE DEF need
<1>14. /\ Shape(made, R) /\ made.kids = v.kids /\ made.kind = v.kind
       /\ clean.summary \subseteq made.summary /\ made.summary \subseteq clean.summary \cup Called(v)
       /\ \A a \in Called(v) : a \in new => a \in made.summary \cup Full(made)
  <2>1. CASE ~need
    BY <2>1, <1>7, <1>8, <1>13
  <2>2. CASE need
    <3> DEFINE c == CHOOSE a \in new : TRUE
    <3>1. c \in new
      BY <2>2, <1>13
    <3>2. made = _createMetricsTable(clean, c)
      BY <2>2
    <3> HIDE DEF c, made
    <3>3. new = {c} /\ c \in Called(v) /\ c \in Items(v, "s5")
      BY <3>1, <2>2, <1>4, <1>6, <1>13
    <3>4. c \in Nodes /\ IsItem(clean, c)
      BY <3>3, <1>3, <1>8 DEF IsItem
    <3>5. /\ Shape(made, R) /\ made.kids = clean.kids /\ made.kind = clean.kind /\ made.main = clean.main
          /\ clean.summary \subseteq made.summary /\ made.summary \subseteq clean.summary \cup {c}
          /\ c \in made.summary \/ c \in Full(made)
      BY <3>2, <3>4, <1>7, MadeOrFull
    <3> QED BY <3>3, <3>5, <1>8
  <2> QED BY <2>1, <2>2
<1> HIDE DEF made
<1>15. shouldHaveMainMetrics(made)
  BY <1>14, SameCalled DEF shouldHaveMainMetrics
<1>16. Shape(mained, R) /\ SameNodes(made, mained) /\ mained.main /\ mained.summary = made.summary
  BY <1>14, <1>15, ShapeCreateMain
<1> HIDE DEF mained
<1>17. SameNodes(mained, u) /\ u.main = mained.main /\ u.summary = mained.summary
  BY <1>1, <1>16, ShapeRenumbered
<1>18. u.kids = made.kids /\ u.kind = made.kind /\ u.summary = made.summary /\ u.main
  BY <1>16, <1>17 DEF SameNodes
<1>19. ASSUME NEW a \in Called(v), a \in v.summary \/ x \in Below(v, a) PROVE a \in u.summary \cup Full(u)
  <2>1. CASE a \in v.summary
    BY <2>1, <1>4, <1>10, <1>14, <1>18
  <2>2. CASE x \in Below(v, a)
    <3>1. a \in new /\ a # "s5"
      BY <2>2, <1>3, <1>4, <1>5
    <3>2. a \in u.summary <=> a \in made.summary
      BY <1>18
    <3>3. a \in Full(u) <=> a \in Full(made)
      BY <3>1, <3>2, <1>18, SameRoom
    <3> QED BY <3>1, <3>2, <3>3, <1>14
  <2> QED BY <2>1, <2>2, <1>19
<1>20. u.summary \subseteq v.summary \cup Called(v) /\ \A y \in u.summary : y \in Called(v) \/ y \notin Items(v, "s5")
  BY <1>10, <1>14, <1>18
<1> QED BY <1>18, <1>19, <1>20

\* What a move reconciles: the tree with the node in its new place, numbered.
LEMMA MovedTree ==
    ASSUME NEW t, NEW R, Shape(t, R), NEW x \in Attached(t), NEW target \in Sections \cup Attached(t),
           target \notin Below(t, x), NEW position, _determineNewParent(t, target, position) # "root"
    PROVE  \E v, Q : /\ Shape(v, Q) /\ Numbered(v) /\ v.summary = t.summary /\ v.main = t.main
                     /\ Moved(t, x, target, position)
                          = _reconcileMetricsTablesAfterMove(v, x, _findFirstLevelAncestorUnder5(t, x))
<1> DEFINE p == _determineNewParent(t, target, position)
           off == Detached(t, x)
           old == _findFirstLevelAncestorUnder5(t, x)
           there == generateNumbering(_performMove(t, x, target, position))
           cleared == Cleared(t, x, target, position)
           banked == [there EXCEPT !.tb = @ \ cleared]
<1>1. /\ p \in Sections \cup Attached(off)
      /\ \E k \in 0 .. Len(off.kids[p]) : _performMove(t, x, target, position) = InsertedAt(off, p, k, x)
  BY MoveTarget
<1>2. PICK k \in 0 .. Len(off.kids[p]) : _performMove(t, x, target, position) = InsertedAt(off, p, k, x)
  BY <1>1
<1>3. Moved(t, x, target, position) = _reconcileMetricsTablesAfterMove(banked, x, old)
  BY DEF Moved, Cleared
<1>4. IsDetached(t, R, x, off)
  BY ShapeDetached
<1> HIDE DEF off, p, cleared, old
<1>5. Shape(off, R \cup {x}) /\ off.summary = t.summary /\ off.main = t.main /\ x \in R \cup {x}
  BY <1>4 DEF IsDetached
<1>6. there = generateNumbering(InsertedAt(off, p, k, x))
  BY <1>2
<1>7. IsInserted(off, R \cup {x}, p, x, InsertedAt(off, p, k, x))
  BY <1>1, <1>2, <1>5, ShapeInserted
<1> DEFINE i == InsertedAt(off, p, k, x)
<1>8. there = generateNumbering(i) /\ IsInserted(off, R \cup {x}, p, x, i)
  BY <1>6, <1>7
<1> HIDE DEF i, there
<1>9. Shape(i, (R \cup {x}) \ {x}) /\ i.summary = off.summary /\ i.main = off.main
  BY <1>8 DEF IsInserted
<1>10. Shape(there, (R \cup {x}) \ {x}) /\ Numbered(there) /\ there.main = i.main /\ there.summary = i.summary
  BY <1>8, <1>9, ShapeRenumbered
<1>11. /\ banked \in TreeType /\ banked.kids = there.kids /\ banked.kind = there.kind /\ banked.level = there.level
       /\ banked.tb = there.tb \ cleared /\ banked.summary = there.summary /\ banked.main = there.main
  <2>1. there \in TreeType
    BY <1>10 DEF Shape, Wired
  <2> QED BY <2>1 DEF TreeType
<1> HIDE DEF banked
<1>12. Shape(banked, (R \cup {x}) \ {x})
  <2>1. \A y \in banked.summary \cup banked.tb : IsItem(there, y)
    BY <1>10, <1>11, MarkedItems
  <2> QED BY <2>1, <1>10, <1>11, ShapeMarked
<1>13. Numbered(banked)
  BY <1>10, <1>11, <1>12, NumberedFrame DEF Shape
<1>14. banked.summary = t.summary /\ banked.main = t.main
  BY <1>5, <1>9, <1>10, <1>11
<1>15. Moved(t, x, target, position) = _reconcileMetricsTablesAfterMove(banked, x, _findFirstLevelAncestorUnder5(t, x))
  BY <1>3 DEF old
<1> QED BY <1>12, <1>13, <1>14, <1>15

\* A move inside the subtree of one first-level point changes no need.
LEMMA SameAbove ==
    ASSUME NEW t, Wired(t), NEW x \in Nodes, IsItem(t, x), HasRisks(t, x), NEW u, Wired(u), u.kind = t.kind, HasRisks(u, x),
           \A y \in Nodes : ~IsItem(t, y) => Children(t, y) = {} /\ Children(u, y) = {},
           \A a : a \in Items(t, "s5") /\ x \in Below(t, a) <=> a \in Items(u, "s5") /\ x \in Below(u, a),
           NEW p, MoveCalls(t, x, p, u)
    PROVE  Called(u) = Called(t)
<1>1. IsItem(u, x) /\ \A y \in Nodes : ~IsItem(u, y) => Children(u, y) = {}
  BY DEF IsItem
<1>2. ASSUME NEW a \in Called(u), a \notin Called(t) PROVE FALSE
  <2>1. a \in Items(u, "s5") /\ x \in Below(u, a)
    BY <1>2 DEF MoveCalls, Called
  <2>2. a \in Items(t, "s5") /\ x \in Below(t, a)
    BY <2>1
  <2>3. CASE x = a
    BY <2>1, <2>2, <2>3, <1>2 DEF MoveCalls
  <2>4. CASE x # a
    <3>1. x \in Under(t)[a]
      BY <2>2, <2>4 DEF Below
    <3> QED BY <3>1, <2>2, <1>2, RiskyBelow
  <2> QED BY <2>3, <2>4
<1>3. ASSUME NEW a \in Called(t), a \notin Called(u) PROVE FALSE
  <2>1. a \in Items(t, "s5") /\ x \in Below(t, a)
    BY <1>3 DEF MoveCalls, Called
  <2>2. a \in Items(u, "s5") /\ x \in Below(u, a)
    BY <2>1
  <2>3. CASE x = a
    BY <2>1, <2>2, <2>3, <1>3 DEF MoveCalls
  <2>4. CASE x # a
    <3>1. x \in Under(u)[a]
      BY <2>2, <2>4 DEF Below
    <3> QED BY <3>1, <2>2, <1>1, <1>3, RiskyBelow
  <2> QED BY <2>3, <2>4
<1> QED BY <1>2, <1>3

\* An arrow does not bring a branch with risks into section 5 from outside it:
\* the checks on the new parent do what the guard of the mouse does.
LEMMA ArrowsStay ==
    ASSUME NEW t, NEW R, Shape(t, R), Numbered(t), ContentIsLeaf(t),
           NEW x \in Attached(t), t.kind[x] \notin RiskKinds, HasRisks(t, x),
           NEW target \in Sections \cup Attached(t), NEW position, ByArrows(t, x, target, position),
           NEW p, p = _determineNewParent(t, target, position), p # "root", p = "s5" \/ isUnderSection5(t, p)
    PROVE  isUnderSection5(t, x)
<1> DEFINE q == Parent(t, x)
<1>1. /\ Wired(t) /\ t \in TreeType /\ Attached(t) \subseteq Nodes /\ Nodes \subseteq Parents
      /\ "s5" \in Parents /\ "s5" \notin Nodes /\ \A y \in Nodes : y \notin Sections
  BY AttachedIs, ParentsNodes DEF Shape, Wired
<1>2. /\ q \in Parents /\ q \in Sections \cup Attached(t) /\ x \in Children(t, q) /\ x \in Nodes
      /\ \A a \in Parents : x \in Children(t, a) <=> a = q
  BY <1>1, AttachedUp
<1>3. LeafContent(t, x) /\ LevelsTell(t)
  BY <1>1, <1>2, LeafContentOf, LevelsTellPlaces
<1>4. IsItem(t, x)
  BY <1>1, <1>2, <1>3, RiskyItem
<1>5. ASSUME NEW y \in Sections \cup Attached(t), y = p PROVE y \in Below(t, "s5")
  <2>1. CASE y = "s5"
    BY <2>1 DEF Below
  <2>2. CASE y # "s5"
    <3>1. IsItem(t, y) /\ t.level[y] >= 1
      BY <2>2, <1>5 DEF isUnderSection5
    <3>2. y \in Attached(t)
      BY <3>1 DEF Shape, OnlyPoints
    <3> QED BY <3>1, <3>2, <1>3 DEF LevelsTell, Below
  <2> QED BY <2>1, <2>2
<1>6. \/ target = q /\ position = "after"
      \/ target \in Children(t, q)
  <2>1. CASE target = q /\ position = "after"
    BY <2>1
  <2>2. CASE \E i \in DOMAIN t.kids[q] : t.kids[q][i] = target
    BY <2>2 DEF Children, Range
  <2> QED BY <2>1, <2>2 DEF ByArrows
<1> HIDE DEF q
<1>7. q \in Below(t, "s5")
  <2>1. CASE target = q /\ position = "after"
    <3>1. CASE target \in Sections
      BY <2>1, <3>1 DEF _determineNewParent
    <3>2. CASE target \notin Sections
      <4>1. p = Parent(t, target) /\ target \in Attached(t)
        BY <2>1, <3>2 DEF _determineNewParent
      <4>2. p \in Sections \cup Attached(t) /\ p \in Parents /\ target \in Children(t, p)
        BY <4>1, <1>1, AttachedUp
      <4>3. p \in Below(t, "s5")
        BY <4>2, <1>5
      <4> QED BY <4>2, <4>3, <2>1, <1>1, UnderRules DEF Below
    <3> QED BY <3>1, <3>2
  <2>2. CASE target \in Children(t, q)
    <3>1. target \in Nodes /\ target \in Attached(t) /\ target \notin Sections
      <4>1. target \in Nodes
        BY <2>2, <1>1, <1>2, UnderRules
      <4> QED BY <4>1, <1>1
    <3>2. CASE position = "child"
      <4>1. p = target
        BY <3>2 DEF _determineNewParent
      <4>2. target \in Under(t)["s5"]
        BY <4>1, <3>1, <1>1, <1>5 DEF Below
      <4> QED BY <4>2, <2>2, <1>1, <1>2, UnderRules DEF Below
    <3>3. CASE position # "child"
      <4>1. p = Parent(t, target)
        BY <3>1, <3>3 DEF _determineNewParent
      <4>2. p = q
        BY <4>1, <3>1, <2>2, <1>1, <1>2, AttachedUp
      <4> QED BY <4>2, <1>2, <1>5
    <3> QED BY <3>2, <3>3
  <2> QED BY <2>1, <2>2, <1>6
<1>8. x \in Under(t)["s5"]
  BY <1>1, <1>2, <1>7, UnderRules DEF Below
<1> QED BY <1>3, <1>4, <1>8 DEF LevelsTell, isUnderSection5

\* A move carries the summaries along: of a subtree with risks the old point
\* above loses its own when no other calls for it, and the new one gets it.
LEMMA MovesRight ==
    ASSUME NEW t, NEW R, Shape(t, R), Numbered(t), ContentIsLeaf(t), IsRight(t, {}),
           NEW x \in Attached(t), t.kind[x] \notin RiskKinds, HasRisks(t, x) => isUnderSection5(t, x),
           NEW target \in Sections \cup Attached(t), target \notin Below(t, x), NEW position,
           NEW p, p = _determineNewParent(t, target, position), p # "root",
           x \in t.summary => p = "s5", HasRisks(t, x) => p = "s5" \/ isUnderSection5(t, p),
           NEW u, u = Moved(t, x, target, position)
    PROVE  IsRight(u, Full(u))
<1> DEFINE old == _findFirstLevelAncestorUnder5(t, x)
<1>1. PICK v, Q : /\ Shape(v, Q) /\ Numbered(v) /\ v.summary = t.summary /\ v.main = t.main
                  /\ u = _reconcileMetricsTablesAfterMove(v, x, old)
  BY MovedTree
<1>2. Moves(t, R, x, p, u)
  BY MovedIs
<1>3. /\ Attached(u) = Attached(t) /\ MoveCalls(t, x, p, u) /\ Replaced(t, x, p, u)
  BY <1>2, MovesKeep, MovedCalled, MovesReplaced
<1>4. /\ Wired(u) /\ u.kind = t.kind /\ x \in Nodes /\ p \in Parents
      /\ \A q \in Parents : Children(u, q) = (Children(t, q) \ {x}) \cup (IF q = p THEN {x} ELSE {})
  BY <1>3 DEF Replaced
<1>5. SameNodes(v, u) /\ (~HasRisks(v, x) => u = v)
  BY <1>1, ShapeReconcile
<1>6. /\ u.kids = v.kids /\ u.kind = v.kind /\ Called(u) = Called(v) /\ Wired(v)
      /\ \A y : HasRisks(u, y) <=> HasRisks(v, y)
      /\ \A y : Items(u, y) = Items(v, y) /\ Below(u, y) = Below(v, y)
  BY <1>1, <1>5, SameCalled, SameWires DEF SameNodes, Shape
<1>7. HasRisks(v, x) <=> HasRisks(t, x)
  BY <1>3, <1>6 DEF MoveCalls
<1>8. Attached(t) \cap t.summary \subseteq Called(t) /\ Called(t) \subseteq t.summary /\ (t.main <=> HasRisks(t, "s5"))
  BY DEF IsRight
<1>9. Wired(t) /\ "s5" \in Parents /\ "s5" \in Sections /\ Nodes \subseteq Parents /\ t \in TreeType
  BY ParentsNodes DEF Shape, Wired
<1>10. ASSUME u = v, Called(u) = Called(t), HasRisks(u, "s5") <=> HasRisks(t, "s5") PROVE IsRight(u, Full(u))
  <2>1. Attached(u) \cap u.summary \subseteq Called(u) /\ Called(u) \subseteq u.summary \cup Full(u)
    BY <1>1, <1>3, <1>8, <1>10
  <2>2. u.main <=> HasRisks(u, "s5")
    BY <1>1, <1>8, <1>10, Zenon
  <2> QED BY <2>1, <2>2, Zenon DEF IsRight
<1> HIDE DEF old
<1>11. CASE ~HasRisks(t, x)
  <2>1. u = v
    BY <1>5, <1>7, <1>11
  <2>2. Called(u) = Called(t)
    BY <1>3, <1>11 DEF MoveCalls
  <2>3. HasRisks(u, "s5") <=> HasRisks(t, "s5")
    BY <1>3, <1>11 DEF MoveCalls
  <2> QED BY <2>1, <2>2, <2>3, <1>10
<1>12. CASE HasRisks(t, x)
  <2>1. LeafContent(t, x) /\ LevelsTell(t)
    BY <1>4, <1>9, LeafContentOf, LevelsTellPlaces
  <2>2. IsItem(t, x)
    BY <2>1, <1>4, <1>9, <1>12, RiskyItem
  <2>3. x \in Under(t)["s5"]
    BY <2>1, <2>2, <1>12 DEF LevelsTell, isUnderSection5
  <2>4. HasRisks(t, "s5")
    BY <2>3, <1>9, <1>12, RisksRise
  <2>5. p \in Below(t, "s5") /\ IsItem(t, p)
    <3>1. CASE p = "s5"
      BY <3>1 DEF Below, Shape, OnlyPoints, Sections
    <3>2. CASE p # "s5"
      <4>1. isUnderSection5(t, p)
        BY <3>2, <1>12
      <4>2. p \in Sections \cup Attached(t)
        BY <1>2 DEF Moves
      <4>3. p \in Attached(t)
        <5>1. ASSUME p \in Sections PROVE t.level[p] = 0
          BY <5>1 DEF Shape, OnlyPoints
        <5> QED BY <5>1, <4>1, <4>2 DEF isUnderSection5
      <4> QED BY <4>1, <4>3, <2>1 DEF LevelsTell, isUnderSection5, Below
    <3> QED BY <3>1, <3>2
  <2>6. HasRisks(u, "s5") /\ HasRisks(v, "s5") /\ HasRisks(v, x) /\ HasRisks(u, x)
    BY <2>5, <1>3, <1>6, <1>7, <1>12 DEF MoveCalls
  <2>7. v.main
    BY <2>4, <1>1, <1>8
  <2>8. \A a : a \in old <=> a \in Items(t, "s5") /\ x \in Below(t, a)
    BY <1>9, FirstLevel DEF old, _findFirstLevelAncestorUnder5
  <2>9. \A a : a \in _findFirstLevelAncestorUnder5(v, x) <=> a \in Items(u, "s5") /\ x \in Below(u, a)
    BY <1>1, <1>6, FirstLevel DEF _findFirstLevelAncestorUnder5
  <2>10. CASE old # {} /\ _findFirstLevelAncestorUnder5(v, x) = old
    <3>1. u = v
      BY <2>10, <1>1 DEF _reconcileMetricsTablesAfterMove
    <3>2. \A y \in Nodes : ~IsItem(t, y) => Children(t, y) = {}
      BY DEF ContentIsLeaf, IsItem, Children, Range
    <3>3. \A y \in Nodes : ~IsItem(t, y) => Children(t, y) = {} /\ Children(u, y) = {}
      BY <3>2, <2>5, <1>4, <1>9
    <3>4. \A a : a \in Items(t, "s5") /\ x \in Below(t, a) <=> a \in Items(u, "s5") /\ x \in Below(u, a)
      BY <2>8, <2>9, <2>10
    <3>5. Called(u) = Called(t)
      BY <3>3, <3>4, <2>2, <2>6, <1>3, <1>4, <1>9, <1>12, SameAbove
    <3> QED BY <3>1, <3>5, <2>4, <2>6, <1>10
  <2>11. CASE ~(old # {} /\ _findFirstLevelAncestorUnder5(v, x) = old)
    <3>1. /\ u.main /\ u.summary \subseteq v.summary \cup Called(v)
          /\ \A y \in u.summary : y \in Called(v) \/ y \notin Items(v, "s5")
          /\ \A a \in Called(v) : a \in v.summary \/ x \in Below(v, a) => a \in u.summary \cup Full(u)
      BY <2>6, <2>7, <2>11, <1>1, ReconciledIs
    <3>2. ASSUME NEW a \in Called(u) PROVE a \in u.summary \cup Full(u)
      <4>1. a \in Called(t) \/ x \in Below(u, a)
        BY <1>3 DEF MoveCalls
      <4>2. a \in v.summary \/ x \in Below(v, a)
        BY <4>1, <1>1, <1>6, <1>8
      <4> QED BY <4>2, <3>1, <1>6
    <3>3. ASSUME NEW y \in Attached(u), y \in u.summary, y \notin Called(u) PROVE FALSE
      <4>1. y \notin Items(u, "s5") /\ y \in t.summary
        BY <3>1, <3>3, <1>1, <1>6
      <4>2. y \in Called(t)
        BY <4>1, <1>3, <1>8
      <4>3. y \in Children(t, "s5") /\ IsItem(t, y)
        BY <4>2 DEF Called, Items
      <4>4. y = x \/ y \in Children(u, "s5")
        BY <4>3, <1>4, <1>9
      <4>5. y = x => y \in Children(u, "s5")
        BY <4>1, <1>4, <1>9
      <4>6. IsItem(u, y)
        BY <4>3, <1>4 DEF IsItem
      <4> QED BY <4>1, <4>4, <4>5, <4>6 DEF Items
    <3>4. Attached(u) \cap u.summary \subseteq Called(u) /\ Called(u) \subseteq u.summary \cup Full(u)
      BY <3>2, <3>3
    <3>5. u.main <=> HasRisks(u, "s5")
      BY <3>1, <2>6, Zenon
    <3> QED BY <3>4, <3>5, Zenon DEF IsRight
  <2> QED BY <2>10, <2>11
<1> QED BY <1>11, <1>12

\* What agrees on the tree agrees on its summaries.
LEMMA AgreesRight ==
    ASSUME NEW t, Wired(t), NEW g, Agrees(t, g), IsRight(t, {})
    PROVE  IsRight(g, {})
<1>1. Attached(g) = Attached(t) /\ g.main = t.main /\ "s5" \in Sections
  BY ParentsNodes DEF Agrees
<1>2. \A q \in Sections \cup Attached(t) :
         /\ g.kind[q] = t.kind[q] /\ Children(g, q) = Children(t, q) /\ Below(g, q) = Below(t, q)
         /\ q \in g.summary <=> q \in t.summary
  BY DEF Agrees
<1>3. \A q \in Sections \cup Attached(t) :
         /\ Children(t, q) \subseteq Sections \cup Attached(t) /\ Below(t, q) \subseteq Sections \cup Attached(t)
         /\ Children(t, q) \subseteq Attached(t)
  BY AttachedDown
<1>4. ASSUME NEW q \in Sections \cup Attached(t)
      PROVE  Items(g, q) = Items(t, q) /\ (HasRisks(g, q) <=> HasRisks(t, q)) /\ Items(t, q) \subseteq Attached(t)
  <2>1. Items(g, q) = Items(t, q) /\ Items(t, q) \subseteq Attached(t)
    BY <1>2, <1>3 DEF Items, IsItem
  <2>2. HasRisks(g, q) <=> HasRisks(t, q)
    BY <1>2, <1>3 DEF HasRisks, IsRisk
  <2> QED BY <2>1, <2>2
<1>5. Called(g) = Called(t) /\ Called(t) \subseteq Attached(t)
  <2>1. Items(g, "s5") = Items(t, "s5") /\ Items(t, "s5") \subseteq Attached(t)
    BY <1>1, <1>4
  <2>2. ASSUME NEW a \in Items(t, "s5")
        PROVE  (\E c \in Items(g, a) : HasRisks(g, c)) <=> (\E c \in Items(t, a) : HasRisks(t, c))
    <3>1. a \in Sections \cup Attached(t)
      BY <2>1
    <3> QED BY <3>1, <1>4
  <2> QED BY <2>1, <2>2 DEF Called
<1>6. HasRisks(g, "s5") <=> HasRisks(t, "s5")
  BY <1>1, <1>4
<1>7. Attached(t) \cap t.summary \subseteq Called(t) /\ Called(t) \subseteq t.summary \cup {} /\ (t.main <=> HasRisks(t, "s5"))
  BY DEF IsRight
<1>8. Attached(g) \cap g.summary \subseteq Called(g) /\ Called(g) \subseteq g.summary \cup {}
  BY <1>1, <1>2, <1>5, <1>7
<1>9. g.main <=> HasRisks(g, "s5")
  BY <1>1, <1>6, <1>7, Zenon
<1> QED BY <1>8, <1>9 DEF IsRight

\* What a deletion leaves before it forgets: the summaries that only the
\* deleted risks called for are gone.
LEMMA CleanedRight ==
    ASSUME NEW t, NEW R, Shape(t, R), Numbered(t), IsRight(t, {}), NEW x \in Attached(t), NEW off, IsDetached(t, R, x, off),
           NEW clean, clean = IF HasRisks(t, x) THEN _cleanupMetricsTablesAfterRiskTableDeleted(off)
                              ELSE generateNumbering(off)
    PROVE  Shape(clean, R \cup {x}) /\ Numbered(clean) /\ IsRight(clean, {})
<1>1. /\ Shape(off, R \cup {x}) /\ x \in Nodes /\ off.kind = t.kind /\ off.level = t.level
      /\ off.summary = t.summary /\ off.main = t.main
      /\ \A q \in Parents : Children(off, q) = Children(t, q) \ {x}
      /\ Attached(off) = Attached(t) \ Below(t, x)
  BY DEF IsDetached
<1>2. /\ Shape(clean, R \cup {x}) /\ Numbered(clean) /\ SameNodes(off, clean)
      /\ HasRisks(t, x) =>
           /\ clean.main = (off.main /\ shouldHaveMainMetrics(off))
           /\ clean.summary = off.summary \ {a \in Items(off, "s5") : off.level[a] = 1 /\ ~shouldHaveMetricsTable(off, a)}
      /\ ~HasRisks(t, x) => clean.main = off.main /\ clean.summary = off.summary
  <2>1. CASE HasRisks(t, x)
    <3>1. clean = _cleanupMetricsTablesAfterRiskTableDeleted(off)
      BY <2>1
    <3> QED BY <3>1, <2>1, <1>1, ShapeCleanup
  <2>2. CASE ~HasRisks(t, x)
    <3>1. clean = generateNumbering(off)
      BY <2>2
    <3> QED BY <3>1, <2>2, <1>1, ShapeRenumbered
  <2> QED BY <2>1, <2>2
<1>3. DetachCalls(t, x, off)
  BY DetachedCalled
<1>4. Wired(t) /\ Wired(off) /\ "s5" \in Parents /\ t \in TreeType
  BY <1>1, ParentsNodes DEF Shape, Wired
<1>5. clean.kids = off.kids /\ clean.kind = off.kind
  BY <1>2 DEF SameNodes
<1>6. Called(clean) = Called(off) /\ (HasRisks(clean, "s5") <=> HasRisks(off, "s5")) /\ Attached(clean) = Attached(off)
  BY <1>5, SameCalled, SameWires
<1>7. /\ Called(off) \subseteq Called(t) /\ (HasRisks(off, "s5") => HasRisks(t, "s5"))
      /\ ~HasRisks(t, x) => Called(off) = Called(t) /\ (HasRisks(off, "s5") <=> HasRisks(t, "s5"))
  BY <1>3, <1>4 DEF DetachCalls
<1>8. Attached(t) \cap t.summary \subseteq Called(t) /\ Called(t) \subseteq t.summary \cup {} /\ (t.main <=> HasRisks(t, "s5"))
  BY DEF IsRight
<1>9. CASE ~HasRisks(t, x)
  <2>1. clean.summary = t.summary /\ clean.main = t.main
    BY <1>1, <1>2, <1>9
  <2>2. Attached(clean) \cap clean.summary \subseteq Called(clean) /\ Called(clean) \subseteq clean.summary \cup {}
    BY <2>1, <1>1, <1>6, <1>7, <1>8, <1>9
  <2>3. clean.main <=> HasRisks(clean, "s5")
    BY <2>1, <1>6, <1>7, <1>8, <1>9, Zenon
  <2> QED BY <2>2, <2>3, <1>2 DEF IsRight
<1>10. CASE HasRisks(t, x)
  <2>1. Items(off, "s5") = Items(t, "s5") \ {x}
    BY <1>1, <1>4 DEF Items, IsItem
  <2>2. \A a \in Items(off, "s5") : off.level[a] = 1 /\ (shouldHaveMetricsTable(off, a) <=> a \in Called(off))
    <3>1. \A a \in Items(off, "s5") : off.level[a] = 1
      BY <2>1, <1>1, <1>4, FirstLevel
    <3> QED BY <3>1 DEF shouldHaveMetricsTable, Called
  <2>3. clean.summary = t.summary \ (Items(off, "s5") \ Called(off))
    BY <2>2, <1>1, <1>2, <1>10
  <2>4. ASSUME NEW y \in Attached(clean), y \in clean.summary PROVE y \in Called(clean)
    <3>1. y \in Called(t)
      BY <2>3, <2>4, <1>1, <1>6, <1>8
    <3>2. y \in Items(t, "s5") /\ y # x
      BY <3>1, <1>1, <1>6 DEF Called, Below
    <3> QED BY <3>2, <2>1, <2>3, <2>4, <1>6
  <2>5. Attached(clean) \cap clean.summary \subseteq Called(clean) /\ Called(clean) \subseteq clean.summary \cup {}
    BY <2>3, <2>4, <1>6, <1>7, <1>8
  <2>6. clean.main <=> (off.main /\ shouldHaveMainMetrics(off))
    BY <1>2, <1>10, Zenon
  <2>7. clean.main <=> HasRisks(clean, "s5")
    BY <2>6, <1>1, <1>6, <1>7, <1>8, Zenon DEF shouldHaveMainMetrics
  <2> QED BY <2>5, <2>7, <1>2 DEF IsRight
<1> QED BY <1>9, <1>10

\* A deletion keeps the summaries right.
LEMMA DeletedRight ==
    ASSUME IInv, NEW x \in Placed, deleteNode(x), IsRight(tree, {})
    PROVE  IsRight(tree', {})
<1> DEFINE R == Loosened(undo)
           off == Detached(tree, x)
           clean == IF HasRisks(tree, x) THEN _cleanupMetricsTablesAfterRiskTableDeleted(off)
                    ELSE generateNumbering(off)
<1>1. Shape(tree, R) /\ Numbered(tree) /\ x \in Attached(tree)
  BY DEF IInv, Placed
<1>2. tree' = Tidy(clean, undo')
  BY DEF deleteNode
<1>3. Loosened(undo') \subseteq R \cup {x}
  BY DeleteIs DEF Deletes
<1>4. IsDetached(tree, R, x, off)
  BY <1>1, ShapeDetached
<1> HIDE DEF off, R
<1>5. Shape(clean, R \cup {x}) /\ Numbered(clean) /\ IsRight(clean, {})
  BY <1>1, <1>4, CleanedRight
<1> HIDE DEF clean
<1>6. IsTidied(clean, undo', tree')
  BY <1>2, <1>3, <1>5, ShapeTidy
<1>7. Agrees(clean, tree')
  <2>1. Attached(clean) \subseteq Alive(clean, Loosened(undo'))
    BY DEF Alive
  <2> QED BY <2>1, <1>6 DEF IsTidied, Agrees
<1> QED BY <1>5, <1>7, AgreesRight DEF Shape

\* A risk table that its warning held up comes into section 5.
LEMMA LateRiskRight ==
    ASSUME IInv, ContentIsLeaf(tree), NEW x \in Fresh, RiskLevelWarningRead(x), IsRight(tree, {})
    PROVE  IsRight(tree', Full(tree'))
<1>1. CASE tree' = tree
  BY <1>1, RightWeaker
<1>2. CASE tree' # tree
  <2>1. dialog.op = "risk" /\ CreateRiskTable(dialog.node, dialog.kind, x)
    BY <1>2 DEF RiskLevelWarningRead
  <2>2. DialogOK(tree, dialog) /\ Wired(tree)
    BY DEF IInv, Shape
  <2>3. /\ dialog.node \in Attached(tree)
        /\ dialog.node \in Under(tree)["s5"] \/ MixedContent(tree)
    BY <2>1, <2>2 DEF DialogOK, NoDialog
  <2>4. ~MixedContent(tree)
    <3> SUFFICES ASSUME NEW y \in Attached(tree), ~IsItem(tree, y), Under(tree)[y] # {} PROVE FALSE
      BY DEF MixedContent
    <3>1. y \in Nodes /\ y \in Parents
      BY <2>2, AttachedIs, ParentsNodes
    <3>2. Children(tree, y) # {}
      BY <2>2, <3>1, UnderChildren
    <3>3. tree.kids[y] = <<>>
      BY <3>1 DEF ContentIsLeaf, IsItem
    <3> QED BY <3>2, <3>3 DEF Children, Range
  <2> DEFINE p == dialog.node
             kind == dialog.kind
  <2>5. p \in Attached(tree) /\ p \in Under(tree)["s5"] /\ kind \in RiskKinds /\ CreateRiskTable(p, kind, x)
    BY <2>1, <2>2, <2>3, <2>4 DEF DialogOK, NoDialog
  <2> HIDE DEF p, kind
  <2> QED BY <2>5, RiskRight
<1> QED BY <1>1, <1>2

\* A node without risks joins: the tree it joins may have lost banks first.
LEMMA PlainAddRight ==
    ASSUME NEW t, NEW v, NEW R, Shape(v, R), v.kids = t.kids, v.kind = t.kind, v.summary = t.summary, v.main = t.main,
           IsRight(t, {}), NEW p \in Sections \cup Attached(v), NEW x \in Nodes, t.kind[x] = "none",
           NEW kind, kind \notin RiskKinds, NEW u, Adds(v, R, p, x, kind, u), u.summary = t.summary, u.main = t.main
    PROVE  IsRight(u, Full(u))
<1>1. Called(v) = Called(t) /\ (HasRisks(v, "s5") <=> HasRisks(t, "s5")) /\ Attached(v) = Attached(t)
  BY SameCalled, SameWires
<1>2. IsRight(v, {})
  <2>1. Attached(t) \cap t.summary \subseteq Called(t) /\ Called(t) \subseteq t.summary \cup {} /\ (t.main <=> HasRisks(t, "s5"))
    BY DEF IsRight
  <2>2. Attached(v) \cap v.summary \subseteq Called(v) /\ Called(v) \subseteq v.summary \cup {}
    BY <2>1, <1>1
  <2>3. v.main <=> HasRisks(v, "s5")
    BY <2>1, <1>1, Zenon
  <2> QED BY <2>2, <2>3 DEF IsRight
<1>3. x \notin v.summary
  BY DEF Shape, Clean
<1>4. u.summary = v.summary /\ u.main = v.main
  OBVIOUS
<1>5. IsRight(u, {})
  BY <1>2, <1>3, <1>4, AddsRight
<1> QED BY <1>5, RightWeaker

\* Every step but those known not to ask keeps the summaries right.
LEMMA NextKeepsSummaries ==
    ASSUME IInv, Next, IsRight(tree, {}), ContentIsLeaf(tree), ~undoLast, ~AnyPaste, ~MoveConfirmed
    PROVE  IsRight(tree', Full(tree'))
<1> DEFINE R == Loosened(undo)
           Goal == IsRight(tree', Full(tree'))
<1>0. /\ Shape(tree, R) /\ Numbered(tree) /\ Placed = Attached(tree) /\ Here = Sections \cup Attached(tree)
      /\ Wired(tree) /\ tree \in TreeType
  BY DEF IInv, Placed, Here, Shape, Wired
<1> HIDE DEF R
<1>1. ASSUME tree' = tree PROVE Goal
  BY <1>1, RightWeaker
<1>2. ASSUME NEW t, Shape(t, R), t.kids = tree.kids, t.kind = tree.kind, t.summary = tree.summary, t.main = tree.main,
             NEW p \in Sections \cup Attached(t), NEW x \in Fresh, NEW kind, kind \notin RiskKinds,
             Adds(t, R, p, x, kind, tree'), tree'.summary = tree.summary, tree'.main = tree.main
      PROVE  Goal
  <2>1. x \in Nodes /\ tree.kind[x] = "none"
    BY <1>2, FreshIs
  <2> QED BY <2>1, <1>2, PlainAddRight
<1>3. ASSUME NEW p \in Here, NEW x \in Fresh, handleAddChild(p, x) PROVE Goal
  <2>1. PICK t : /\ Shape(t, R) /\ t.kids = tree.kids /\ t.kind = tree.kind
                 /\ t.summary = tree.summary /\ t.main = tree.main
                 /\ Adds(t, R, p, x, "item", tree') /\ tree'.main = tree.main /\ p \in Sections \cup Attached(t)
    BY <1>3, AddChildIs DEF R
  <2>2. tree'.summary = tree.summary
    BY <1>3, PlainSummary
  <2> HIDE DEF Goal
  <2>3. "item" \notin RiskKinds
    BY DEF RiskKinds
  <2> QED BY <2>1, <2>2, <2>3, <1>2
<1>4. ASSUME NEW p \in Here, NEW x \in Fresh, NEW i \in 0 .. Len(tree.kids[p]), handleAddSibling(p, i, x)
      PROVE  Goal
  <2>1. Adds(tree, R, p, x, "item", tree') /\ tree'.main = tree.main
    BY <1>4, AddSiblingIs DEF R
  <2>2. tree'.summary = tree.summary
    BY <1>4, PlainSummary
  <2> HIDE DEF Goal
  <2>3. "item" \notin RiskKinds
    BY DEF RiskKinds
  <2> QED BY <2>1, <2>2, <2>3, <1>0, <1>2
<1>5. ASSUME NEW p \in Here, NEW x \in Fresh, NEW kind \in Kinds \ RiskKinds, AddContent(p, kind, x)
      PROVE  Goal
  <2>1. Adds(tree, R, p, x, kind, tree') /\ tree'.main = tree.main
    BY <1>5, AddContentIs DEF R
  <2>2. tree'.summary = tree.summary
    BY <1>5, PlainSummary
  <2> HIDE DEF Goal
  <2> QED BY <2>1, <2>2, <1>0, <1>2
<1>6. ASSUME NEW p \in Placed, NEW x \in Fresh, NEW kind \in Kinds \cap RiskKinds,
             _handleRiskTableAction(p, kind, x)
      PROVE  Goal
  <2>1. CreateRiskTable(p, kind, x) /\ kind \in RiskKinds /\ p \in Attached(tree) /\ isUnderSection5(tree, p)
    BY <1>6, <1>0 DEF _handleRiskTableAction, _isRiskTableAllowedForNode
  <2>2. LevelsTell(tree)
    BY <1>0, LevelsTellPlaces
  <2>3. p \in Under(tree)["s5"]
    BY <2>1, <2>2 DEF LevelsTell, isUnderSection5
  <2> QED BY <2>1, <2>3, RiskRight
<1>7. ASSUME NEW x \in Fresh, RiskLevelWarningRead(x) PROVE Goal
  BY <1>7, LateRiskRight
<1>8. ASSUME NEW x \in Placed, setNodeTb(x) PROVE Goal
  <2>1. tree' = [tree EXCEPT !.tb = IF x \in @ THEN @ \ {x} ELSE @ \cup {x}]
    BY <1>8 DEF setNodeTb
  <2>2. /\ tree'.kids = tree.kids /\ tree'.kind = tree.kind
        /\ tree'.summary = tree.summary /\ tree'.main = tree.main
    BY <2>1, <1>0 DEF TreeType
  <2>3. IInv'
    BY NextInv
  <2>4. Shape(tree', Loosened(undo)') /\ Wired(tree')
    BY <2>3 DEF IInv, Shape
  <2>5. Agrees(tree, tree')
    <3>1. \A q : Children(tree', q) = Children(tree, q) /\ Below(tree', q) = Below(tree, q)
      BY <2>2, SameWires
    <3>2. Under(tree') = Under(tree) /\ Attached(tree') = Attached(tree)
      BY <2>2, SameWires
    <3>3. tree'.level = tree.level
      BY <2>1, <1>0 DEF TreeType
    <3> QED BY <3>1, <3>2, <3>3, <2>2 DEF Agrees
  <2> QED BY <2>5, <1>0, AgreesRight, RightWeaker
<1>9. ASSUME NEW x \in Placed, deleteNode(x) PROVE Goal
  BY <1>9, DeletedRight, RightWeaker
<1>11. ASSUME NEW x \in Placed, NEW target \in Here, NEW position \in Positions, moveNode(x, target, position)
       PROVE  Goal
  <2> DEFINE p == _determineNewParent(tree, target, position)
  <2>1. /\ tree.kind[x] \notin RiskKinds /\ target \notin Below(tree, x)
        /\ HasRisks(tree, x) => isUnderSection5(tree, x) \/ ByArrows(tree, x, target, position)
    BY <1>11 DEF moveNode, CanDrop, IsRisk
  <2>2. /\ p # "root" /\ (x \in tree.summary => p = "s5")
        /\ HasRisks(tree, x) => p = "s5" \/ isUnderSection5(tree, p)
    BY <1>11 DEF moveNode, MoveAllowed, AsksForSummary
  <2>3. tree' = Moved(tree, x, target, position)
    BY <1>11 DEF moveNode
  <2>4. x \in Attached(tree) /\ target \in Sections \cup Attached(tree)
    BY <1>0
  <2>5. p = _determineNewParent(tree, target, position)
    OBVIOUS
  <2> HIDE DEF p
  <2>6. HasRisks(tree, x) => isUnderSection5(tree, x)
    BY <2>1, <2>2, <2>4, <2>5, <1>0, ArrowsStay
  <2> QED BY <2>1, <2>2, <2>3, <2>4, <2>5, <2>6, <1>0, MovesRight
<1>13. /\ ~PasteFinishes
       /\ ~\E f \in Fragments, p \in Here : \E ids \in Identifiers(f) : pasteInto(f, ids, p)
  BY DEF AnyPaste
<1>15. CASE \E p \in Placed : \E kind \in Kinds \cap RiskKinds : _showRiskLevelWarning(p, kind)
  BY <1>15, <1>1 DEF _showRiskLevelWarning
<1>16. CASE \E x \in Placed, target \in Here, position \in Positions : _checkMetricsTableDeletion(x, target, position)
  BY <1>16, <1>1 DEF _checkMetricsTableDeletion
<1>17. CASE DialogCancelled
  BY <1>17, <1>1 DEF DialogCancelled
<1>18. CASE \E f \in Fragments, p \in Here : \E ids \in Identifiers(f) : PasteWaits(f, ids, p)
  BY <1>18, <1>1 DEF PasteWaits
<1>19. CASE PasteFails
  BY <1>19, <1>1 DEF PasteFails
<1> QED BY <1>3, <1>4, <1>5, <1>6, <1>7, <1>8, <1>9, <1>11, <1>13, <1>15, <1>16, <1>17, <1>18, <1>19 DEF Next

\* The summaries of section 5 follow its risks, whatever is added, deleted or
\* moved.
THEOREM SummariesStay == Spec => SummariesFollow
<1>1. IInv /\ [Next]_vars =>
        [(SummariesRight(tree, {}) /\ ContentIsLeaf(tree)) =>
           SummariesRight(tree', Full(tree')) \/ undoLast \/ AnyPaste \/ MoveConfirmed]_vars
  <2> SUFFICES ASSUME IInv, Next, SummariesRight(tree, {}), ContentIsLeaf(tree),
                      ~undoLast, ~AnyPaste, ~MoveConfirmed
               PROVE  SummariesRight(tree', Full(tree'))
    OBVIOUS
  <2>1. Shape(tree, Loosened(undo))
    BY DEF IInv
  <2>2. Shape(tree', Loosened(undo'))
    <3>1. IInv'
      BY NextInv
    <3> QED BY <3>1 DEF IInv
  <2>3. IsRight(tree, {})
    BY <2>1, RightIs
  <2>4. IsRight(tree', Full(tree'))
    BY <2>3, NextKeepsSummaries
  <2> QED BY <2>2, <2>4, RightIs
<1> QED BY <1>1, Structure, PTL DEF Spec, SummariesFollow

=============================================================================
