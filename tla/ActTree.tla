------------------------------ MODULE ActTree ------------------------------
(***************************************************************************)
(* The structure of an act in the constructor: the tree of points, tables, *)
(* violations and risk tables below the fixed sections, the summary tables *)
(* of section 5 the risks call for, the deletions that can be undone, and  *)
(* the operations of the tree menu, drag and drop and the clipboard.       *)
(*                                                                         *)
(* The operations that read the tree, wait for a dialog or for the network *)
(* and then change it are two actions; what the user can do in between     *)
(* (shortcuts under a modal dialog, anything while images are copied)      *)
(* interleaves.  Operators take the tree as an argument t and return it    *)
(* changed, as the code does step by step.                                 *)
(***************************************************************************)
EXTENDS Naturals, Sequences, FiniteSets, SequencesExt

CONSTANTS
    Nodes,      \* identifiers of the nodes below the sections
    Kinds,      \* the kinds of content in play: "table", "violation", those of risks
    MaxDepth,   \* AppConfig.tree.maxDepth; a section has depth 1
    MaxBlocks,  \* blocks of one type a node may hold, on both sides
    UndoDepth,  \* UNDO_STACK_DEPTH
    WithTb,     \* whether the territorial banks of points are in play
    Fragments   \* what the clipboard may hold, from this act or another one

Sections == {"s5", "pm"}    \* section 5, and the Process Mining point
Parents == Nodes \cup Sections
RiskKinds == {"regularRisk", "operationalRisk", "taxRisk", "otherRisk"}

ASSUME TreeAssumption ==
    /\ IsFiniteSet(Nodes) /\ Nodes \cap (Sections \cup {"root", "none"}) = {}
    /\ Kinds \subseteq {"table", "violation"} \cup RiskKinds
    /\ MaxDepth \in Nat /\ MaxBlocks \in Nat \ {0} /\ UndoDepth \in Nat \ {0}
    /\ WithTb \in BOOLEAN

\* A copied subtree: a root, and nodes below the points and violations in it.
ASSUME FragmentsAssumption ==
    \A f \in Fragments :
        /\ f \in Seq([kind : Kinds \cup {"item"}, up : Nat, level : Nat, tb : BOOLEAN])
        /\ f # <<>>
        /\ \A i \in DOMAIN f : f[i].kind # "item" => f[i].level = 0 /\ ~f[i].tb
        /\ \A i \in 2 .. Len(f) : f[i].up \in 1 .. i - 1 /\ f[f[i].up].kind \in {"item", "violation"}

VARIABLES
    tree,       \* AppState.treeData
    undo,       \* UndoDeleteManager._stack; a deleted subtree keeps its nodes
    dialog,     \* the operation a modal dialog interrupts, or NoDialog
    pasting     \* the paste that waits for its images, or NoPaste

vars == <<tree, undo, dialog, pasting>>

NoDialog == [op |-> "none"]
NoPaste == [fragment |-> <<>>, target |-> "none"]

-----------------------------------------------------------------------------
(* Reading the tree.  kids are the children of a node but for its summary  *)
(* table, which always comes first: summary holds the points that have one *)
(* and main says whether section 5 has the main one.  level is the number  *)
(* of segments after "5." in the number of a point, 0 for the rest; it is  *)
(* what the code matches numbers with, and is as stale as they are.        *)

Children(t, p) == Range(t.kids[p])
IsItem(t, x) == t.kind[x] = "item"
Items(t, p) == {x \in Children(t, p) : IsItem(t, x)}

\* What is reached from a node in one step of next or more.
Descendants(next) ==
    LET under[p \in Parents] == next[p] \cup UNION {under[c] : c \in next[p]} IN under

Under(t) == Descendants([p \in Parents |-> Children(t, p)])
Below(t, x) == {x} \cup Under(t)[x]

\* Through points only.
PointsUnder(t) == Descendants([p \in Parents |-> Items(t, p)])
PointsBelow(t, x) == PointsUnder(t)[x]

Attached(t) == (Below(t, "s5") \cup Below(t, "pm")) \ Sections
Parent(t, x) == CHOOSE p \in Parents : x \in Children(t, p)

getNodeDepth(t, x) == 1 + Cardinality({a \in Parents : x \in Under(t)[a]})

\* How many steps below x its point y is: content does not count.
Steps(t, x, y) ==
    Cardinality({a \in {x} \cup PointsBelow(t, x) : y \in PointsBelow(t, a)})

getSubtreeDepth(t, x) ==
    CHOOSE d \in 0 .. Cardinality(Nodes) :
        /\ \E y \in {x} \cup PointsBelow(t, x) : Steps(t, x, y) = d
        /\ \A y \in PointsBelow(t, x) : Steps(t, x, y) <= d

isUnderSection5(t, x) == IsItem(t, x) /\ t.level[x] >= 1
isTbLeaf(t, x) == isUnderSection5(t, x) /\ Items(t, x) = {}
_isUnderProcessMining(t, x) == x \in Below(t, "pm")
IsRisk(t, x) == t.kind[x] \in RiskKinds
HasRisks(t, x) == \E y \in Below(t, x) \cap Nodes : IsRisk(t, y)
HasViolations(t, x) == \E y \in Below(t, x) \cap Nodes : t.kind[y] = "violation"
OwnRisk(t, p) == \E c \in Children(t, p) : IsRisk(t, c)
OwnKind(t, p, kind) == \E c \in Children(t, p) : t.kind[c] = kind

\* The summary tables among the children of p.
Summaries(t, p) == Cardinality({p} \cap t.summary) + (IF p = "s5" /\ t.main THEN 1 ELSE 0)

TypeOf(kind) == IF kind \in RiskKinds THEN "table" ELSE kind

\* All tables of a node count, the summary and the risk ones too.
countChildrenByType(t, p, type) ==
    IF type = "table"
    THEN Cardinality({c \in Children(t, p) : t.kind[c] \in {"table"} \cup RiskKinds}) + Summaries(t, p)
    ELSE Cardinality({c \in Children(t, p) : t.kind[c] = type})

\* The children a node starts with that stay first: its risk tables.
_getFirstNonPinnedIndex(t, p) ==
    CHOOSE i \in 0 .. Len(t.kids[p]) :
        /\ \A j \in 1 .. i : IsRisk(t, t.kids[p][j])
        /\ i < Len(t.kids[p]) => ~IsRisk(t, t.kids[p][i + 1])

canAddContent(t, p, type) ==
    /\ IsItem(t, p) /\ getNodeDepth(t, p) <= MaxDepth
    /\ countChildrenByType(t, p, type) < MaxBlocks

\* Mutant: the node that takes the subtree is not looked at.
InsideOnly(t, p, x) ==
    \A y \in Below(t, x) : \A type \in {"table", "violation"} :
        countChildrenByType(t, y, type) <= MaxBlocks

\* Room at p, and inside the subtree of x, under the limits of blocks.
canInsertSubtree(t, p, x) ==
    /\ t.kind[x] # "item" =>
          countChildrenByType(t, p, TypeOf(t.kind[x])) + (IF x \in Children(t, p) THEN 0 ELSE 1)
            <= MaxBlocks
    /\ \A y \in Below(t, x) : \A type \in {"table", "violation"} :
          countChildrenByType(t, y, type) <= MaxBlocks

-----------------------------------------------------------------------------
(* Changing it.                                                            *)

\* Points reached through points get their number; a point below content, or
\* in no tree, keeps the one it has.
generateNumbering(t) ==
    LET in5 == PointsBelow(t, "s5")
        outside == PointsBelow(t, "pm")
    IN [t EXCEPT !.level = [x \in Parents |->
          IF x \in in5 THEN 1 + Cardinality({a \in in5 : x \in PointsBelow(t, a)})
          ELSE IF x \in outside THEN 0 ELSE @[x]]]

\* The numbers of S from the smallest to the largest.
InOrder(S) ==
    [n \in 1 .. Cardinality(S) |-> CHOOSE i \in S : Cardinality({j \in S : j < i}) = n - 1]

InsertedAt(t, p, i, x) == [t EXCEPT !.kids[p] = InsertAt(@, i + 1, x)]
Without(s, x) ==
    LET stay == InOrder({i \in DOMAIN s : s[i] # x}) IN [n \in DOMAIN stay |-> s[stay[n]]]
Detached(t, x) == [t EXCEPT !.kids[Parent(t, x)] = Without(@, x)]
Larger(m, n) == IF m > n THEN m ELSE n
Between(lo, i, hi) == IF i < lo THEN lo ELSE IF i > hi THEN hi ELSE i

insertNodeAt(t, p, x, i) ==
    InsertedAt(t, p, Between(_getFirstNonPinnedIndex(t, p), i, Len(t.kids[p])), x)

\* A node with these identifiers is no longer anywhere.
Forgotten(t, gone) ==
    [t EXCEPT !.kids = [p \in Parents |-> IF p \in gone THEN <<>> ELSE @[p]],
              !.kind = [x \in Parents |-> IF x \in gone THEN "none" ELSE @[x]],
              !.level = [x \in Parents |-> IF x \in gone THEN 0 ELSE @[x]],
              !.summary = @ \ gone, !.tb = @ \ gone]

Kept(t, stack) == UNION {Below(t, stack[i].node) : i \in DOMAIN stack}
Tidy(t, stack) == Forgotten(t, Nodes \ (Attached(t) \cup Kept(t, stack)))

\* Identifiers for new nodes, in one order of many: they are all alike.  One
\* is not used again while anything remembers it.
Unused ==
    SetToSeq({x \in Nodes : /\ tree.kind[x] = "none" /\ pasting.target # x
                            /\ \A i \in DOMAIN undo : undo[i].parent # x})

\* Bound: a paste that waits finds its nodes left.
Fresh == IF Len(Unused) <= Len(pasting.fragment) THEN {} ELSE {Head(Unused)}

-----------------------------------------------------------------------------
(* The summary tables of section 5.                                        *)

\* Point 5.X needs one if a risk lies in a point below it, not in itself.
shouldHaveMetricsTable(t, a) ==
    t.level[a] = 1 /\ \E c \in Items(t, a) : HasRisks(t, c)

shouldHaveMainMetrics(t) == HasRisks(t, "s5")

_createMetricsTable(t, a) ==
    IF a \notin t.summary /\ canAddContent(t, a, "table")
    THEN [t EXCEPT !.summary = @ \cup {a}] ELSE t

_createMainMetricsTable(t) == [t EXCEPT !.main = TRUE]

\* The point 5.X above x, or x itself: none or one.
_findFirstLevelAncestorUnder5(t, x) ==
    {a \in Items(t, "s5") : x \in Below(t, a) /\ t.level[a] = 1}

\* A risk table came to node x.  Mutant: only the main summary is made.
RiskAddedMainOnly(t, x) == generateNumbering(_createMainMetricsTable(t))

_updateMetricsTablesAfterRiskTableCreated(t, x) ==
    LET need == {a \in Items(t, "s5") : x \in Below(t, a) /\ shouldHaveMetricsTable(t, a)}
        made == IF need = {} THEN t ELSE _createMetricsTable(t, CHOOSE a \in need : TRUE)
    IN generateNumbering(_createMainMetricsTable(made))

_cleanupMetricsTablesAfterRiskTableDeleted(t) ==
    generateNumbering(
        [t EXCEPT !.summary = @ \ {a \in Items(t, "s5") :
                                     t.level[a] = 1 /\ ~shouldHaveMetricsTable(t, a)},
                  !.main = @ /\ shouldHaveMainMetrics(t)])

_reconcileMetricsTablesAfterMove(t, x, old) ==
    LET new == _findFirstLevelAncestorUnder5(t, x)
        clean == _cleanupMetricsTablesAfterRiskTableDeleted(t)
        made == IF \E a \in new : shouldHaveMetricsTable(clean, a)
                THEN _createMetricsTable(clean, CHOOSE a \in new : TRUE) ELSE clean
    IN IF ~HasRisks(t, x) \/ (old # {} /\ new = old) THEN t
       ELSE generateNumbering(IF shouldHaveMainMetrics(made)
                              THEN _createMainMetricsTable(made) ELSE made)

-----------------------------------------------------------------------------
(* Where risks may be: all on points 5.X, or all below them.               *)

_hasRiskTablesAtLevel5x(t) ==
    \E c \in Items(t, "s5") : t.level[c] = 1 /\ OwnRisk(t, c)

_hasRiskTablesBelowLevel5x(t) ==
    \E c \in Items(t, "s5") : t.level[c] = 1 /\ \E d \in Items(t, c) : HasRisks(t, d)

\* The levels of section 5 with risks, apart from the nodes in out.
_collectSection5RiskLevels(t, out) ==
    {t.level[x] : x \in {y \in Below(t, "s5") \cap Nodes :
        /\ y \notin out /\ t.kind[y] = "item" /\ t.level[y] >= 1
        /\ \E c \in Children(t, y) \ out : IsRisk(t, c)}}

\* The levels the risks of x come to when x gets this one.
LevelsOfRisks(t, x, level) ==
    {level + Steps(t, x, y) : y \in {z \in {x} \cup PointsBelow(t, x) : OwnRisk(t, z)}}

\* Mutant: the risks that come with the subtree are not counted.
OnlyRemainingRisks(t, x, p) ==
    LET levels == _collectSection5RiskLevels(t, Below(t, x))
    IN IsItem(t, x) /\ (p = "s5" \/ isUnderSection5(t, p)) =>
          ~(1 \in levels /\ levels # {1})

_checkSection5RiskConstraints(t, x, p) ==
    LET levels == _collectSection5RiskLevels(t, Below(t, x))
                    \cup LevelsOfRisks(t, x, t.level[p] + 1)
    IN IsItem(t, x) /\ (p = "s5" \/ isUnderSection5(t, p)) =>
          /\ ~(1 \in levels /\ levels # {1})
          /\ ~(1 \in levels /\ t.level[p] = 1)

\* One table of each kind of risk on a point; the levels are those of all kinds.
_isRiskTableAllowedForNode(t, p, kind) ==
    /\ isUnderSection5(t, p) /\ ~OwnKind(t, p, kind)
    /\ t.level[p] = 1 => ~_hasRiskTablesBelowLevel5x(t)
    /\ t.level[p] >= 2 => ~_hasRiskTablesAtLevel5x(t)

\* The first risk table is announced when there is a choice of levels.
_shouldShowRiskLevelWarning(t) ==
    /\ ~_hasRiskTablesAtLevel5x(t) /\ ~_hasRiskTablesBelowLevel5x(t)
    /\ \E a \in Items(t, "s5") : Items(t, a) = {}
    /\ \E a \in Items(t, "s5") : Items(t, a) # {}

-----------------------------------------------------------------------------

Init ==
    /\ tree = [kids |-> [p \in Parents |-> <<>>], level |-> [p \in Parents |-> 0],
               kind |-> [x \in Parents |-> IF x \in Sections THEN "item" ELSE "none"],
               summary |-> {}, main |-> FALSE, tb |-> {}]
    /\ undo = <<>>
    /\ dialog = NoDialog
    /\ pasting = NoPaste

\* A modal dialog leaves only the keyboard shortcuts.
Free == dialog = NoDialog

\* x starts to exist as a node of this kind, not yet in the tree.
Created(t, x, kind) == [t EXCEPT !.kind[x] = kind]

\* Mutant: the parent that stops being a leaf keeps its banks.
AddChildKeepingTb(p, x) ==
    /\ Free
    /\ IsItem(tree, p) \/ tree.kind[p] = "violation"
    /\ ~(tree.level[p] = 1 /\ _hasRiskTablesAtLevel5x(tree))
    /\ getNodeDepth(tree, p) < MaxDepth
    /\ tree' = generateNumbering(
                  InsertedAt(Created(tree, x, "item"), p, Len(tree.kids[p]), x))
    /\ UNCHANGED <<undo, dialog, pasting>>

\* The menu offers it on everything but tables.
handleAddChild(p, x) ==
    /\ Free
    /\ IsItem(tree, p) \/ tree.kind[p] = "violation"
    /\ ~(tree.level[p] = 1 /\ _hasRiskTablesAtLevel5x(tree))
    /\ getNodeDepth(tree, p) < MaxDepth
    /\ LET t == IF isTbLeaf(tree, p) THEN [tree EXCEPT !.tb = @ \ {p}] ELSE tree
       IN tree' = generateNumbering(InsertedAt(Created(t, x, "item"), p, Len(t.kids[p]), x))
    /\ UNCHANGED <<undo, dialog, pasting>>

\* Mutant: the tree is not numbered again.
AddSiblingUnnumbered(p, i, x) ==
    /\ Free
    /\ i = 0 => Summaries(tree, p) > 0
    /\ i > 0 => ~(tree.level[tree.kids[p][i]] >= 2 /\ _hasRiskTablesAtLevel5x(tree))
    /\ tree' = InsertedAt(Created(tree, x, "item"), p, i, x)
    /\ UNCHANGED <<undo, dialog, pasting>>

\* A point right after its neighbour, which may be content: neither the depth
\* nor the place of the pinned tables is looked at.
handleAddSibling(p, i, x) ==
    /\ Free
    /\ i = 0 => Summaries(tree, p) > 0
    /\ i > 0 => ~(tree.level[tree.kids[p][i]] >= 2 /\ _hasRiskTablesAtLevel5x(tree))
    /\ tree' = generateNumbering(InsertedAt(Created(tree, x, "item"), p, i, x))
    /\ UNCHANGED <<undo, dialog, pasting>>

\* addTableToNode and addViolationToNode.
AddContent(p, kind, x) ==
    /\ Free
    /\ kind = "violation" => ~_isUnderProcessMining(tree, p)
    /\ canAddContent(tree, p, kind)
    /\ tree' = generateNumbering(InsertedAt(Created(tree, x, kind), p, Len(tree.kids[p]), x))
    /\ UNCHANGED <<undo, dialog, pasting>>

CreateRiskTable(p, kind, x) ==
    /\ canAddContent(tree, p, "table")
    /\ tree' = _updateMetricsTablesAfterRiskTableCreated(
                  generateNumbering(
                      insertNodeAt(Created(tree, x, kind), p, x, 0)), p)

_handleRiskTableAction(p, kind, x) ==
    /\ Free
    /\ _isRiskTableAllowedForNode(tree, p, kind)
    /\ ~_shouldShowRiskLevelWarning(tree)
    /\ CreateRiskTable(p, kind, x)
    /\ UNCHANGED <<undo, dialog, pasting>>

_showRiskLevelWarning(p, kind) ==
    /\ Free
    /\ _isRiskTableAllowedForNode(tree, p, kind)
    /\ _shouldShowRiskLevelWarning(tree)
    /\ dialog' = [op |-> "risk", node |-> p, kind |-> kind]
    /\ UNCHANGED <<tree, undo, pasting>>

\* The warning is read: whether the table is still allowed is not asked again.
RiskLevelWarningRead(x) ==
    /\ dialog.op = "risk"
    /\ IF canAddContent(tree, dialog.node, "table")
       THEN CreateRiskTable(dialog.node, dialog.kind, x) ELSE UNCHANGED tree
    /\ dialog' = NoDialog
    /\ UNCHANGED <<undo, pasting>>

setNodeTb(x) ==
    /\ Free /\ WithTb
    /\ isTbLeaf(tree, x)
    /\ tree' = [tree EXCEPT !.tb = IF x \in @ THEN @ \ {x} ELSE @ \cup {x}]
    /\ UNCHANGED <<undo, dialog, pasting>>

-----------------------------------------------------------------------------
(* Deleting and taking it back.                                            *)

\* The place of x, its parent's summary tables counted.
IndexOf(t, x) ==
    LET p == Parent(t, x)
    IN (CHOOSE i \in DOMAIN t.kids[p] : t.kids[p][i] = x) - 1 + Summaries(t, p)

Pushed(stack, snapshot) ==
    LET longer == Append(stack, snapshot)
    IN IF Len(longer) > UndoDepth THEN Tail(longer) ELSE longer

\* The snapshot keeps the subtree as it was; the cascade that deletes its
\* risk tables one by one ends in a cleanup of section 5.
deleteNode(x) ==
    /\ Free
    /\ LET without == Detached(tree, x)
           clean == IF HasRisks(tree, x) THEN _cleanupMetricsTablesAfterRiskTableDeleted(without)
                    ELSE generateNumbering(without)
       IN /\ undo' = Pushed(undo, [node |-> x, parent |-> Parent(tree, x),
                                   index |-> IndexOf(tree, x)])
          /\ tree' = Tidy(clean, undo')
    /\ UNCHANGED <<dialog, pasting>>

\* Ctrl+Z works under a dialog too.  A parent without room keeps the snapshot
\* for later, a parent that is gone drops it.
undoLast ==
    /\ undo # <<>>
    /\ LET last == undo[Len(undo)]
           x == last.node
           p == last.parent
           back == insertNodeAt(tree, p, x, Larger(last.index, Summaries(tree, p)) - Summaries(tree, p))
       IN IF p \in Sections \cup Attached(tree)
          THEN /\ canInsertSubtree(tree, p, x)
               /\ tree' = IF HasRisks(tree, x) THEN _updateMetricsTablesAfterRiskTableCreated(back, x)
                          ELSE generateNumbering(back)
               /\ undo' = Front(undo)
          ELSE /\ undo' = Front(undo)
               /\ tree' = Tidy(tree, undo')
    /\ UNCHANGED <<dialog, pasting>>

-----------------------------------------------------------------------------
(* Moving.                                                                 *)

Positions == {"before", "after", "child"}

_determineNewParent(t, target, position) ==
    IF position = "child" THEN target
    ELSE IF target \in Sections THEN "root" ELSE Parent(t, target)

\* Alt and an arrow: past the neighbour that is not pinned, into the one before,
\* or out of the parent.
ByArrows(t, x, target, position) ==
    \/ target = Parent(t, x) /\ position = "after"
    \/ LET line == t.kids[Parent(t, x)]
       IN \E i, j \in DOMAIN line :
             /\ i < j /\ \A k \in i + 1 .. j - 1 : IsRisk(t, line[k])
             /\ \/ line[i] = target /\ line[j] = x /\ position \in {"before", "child"}
                \/ line[i] = x /\ line[j] = target /\ position = "after"

\* What can be dropped where.  The mouse does not lift a branch with risks from
\* outside section 5; the keyboard does not ask.
CanDrop(t, x, target, position) ==
    /\ ~IsRisk(t, x)
    /\ HasRisks(t, x) => isUnderSection5(t, x) \/ ByArrows(t, x, target, position)
    /\ target \notin Below(t, x)
    /\ position = "child" => IsItem(t, target)
    /\ target \in Nodes => IF ~IsRisk(t, target) THEN TRUE
        ELSE LET line == t.kids[Parent(t, target)]
                 next == {line[i + 1] : i \in {j \in 1 .. Len(line) - 1 : line[j] = target}}
             IN position = "after" /\ \A y \in next : ~IsRisk(t, y)

\* Mutant: the points below the moved one are forgotten.
DepthOfRootOnly(t, x, p) == IsItem(t, x) => getNodeDepth(t, p) + 1 <= MaxDepth

_checkDepthConstraints(t, x, p) ==
    IsItem(t, x) => getNodeDepth(t, p) + 1 + getSubtreeDepth(t, x) <= MaxDepth

\* Process Mining gets no violation, on its own or in a subtree.
NoViolationComes(t, x, p) ==
    ~(_isUnderProcessMining(t, p) /\ HasViolations(t, x))

\* The level of the sections is fixed (_checkFirstLevelConstraints).
MoveAllowed(t, x, p) ==
    /\ p # "root"
    /\ _checkDepthConstraints(t, x, p)
    /\ canInsertSubtree(t, p, x)
    /\ _checkSection5RiskConstraints(t, x, p)
    /\ HasRisks(t, x) => p = "s5" \/ isUnderSection5(t, p)
    /\ NoViolationComes(t, x, p)

\* Mutant: the node is not taken out of its old parent.
PerformedTwice(t, x, target, position) ==
    insertNodeAt(t, _determineNewParent(t, target, position), x, 0)

_performMove(t, x, target, position) ==
    LET p == _determineNewParent(t, target, position)
        off == Detached(t, x)
        at == (CHOOSE i \in DOMAIN off.kids[p] : off.kids[p][i] = target) - 1
        i == at + (IF position = "after" THEN 1 ELSE 0)
    IN IF position = "child" THEN InsertedAt(off, p, Len(off.kids[p]), x)
       ELSE insertNodeAt(off, p, x, i)

\* The rest of moveNode after the checks.  A point that is a leaf after it lost
\* a child loses its banks, even when the child was content and it was a leaf
\* all along.
Moved(t, x, target, position) ==
    LET p == _determineNewParent(t, target, position)
        from == Parent(t, x)
        old == _findFirstLevelAncestorUnder5(t, x)
        there == generateNumbering(_performMove(t, x, target, position))
        cleared == (IF position = "child" /\ IsItem(t, x) /\ isTbLeaf(t, p)
                    THEN {p} ELSE {})
                   \cup (IF isTbLeaf(there, from) THEN {from} ELSE {})
                   \cup (IF isUnderSection5(there, x) THEN {} ELSE Below(there, x))
    IN _reconcileMetricsTablesAfterMove([there EXCEPT !.tb = @ \ cleared], x, old)

\* The summary of a point that leaves the first level goes: that is asked.
AsksForSummary(t, x, p) == x \in t.summary /\ p # "s5"

\* Mutant: the node is taken out before the checks, and a refusal returns.
MoveDetachesFirst(x, target, position) ==
    /\ Free /\ CanDrop(tree, x, target, position)
    /\ LET p == _determineNewParent(tree, target, position)
       IN /\ ~AsksForSummary(tree, x, p)
          /\ tree' = IF MoveAllowed(tree, x, p) THEN Moved(tree, x, target, position)
                     ELSE Detached(tree, x)
    /\ UNCHANGED <<undo, dialog, pasting>>

moveNode(x, target, position) ==
    /\ Free /\ CanDrop(tree, x, target, position)
    /\ LET p == _determineNewParent(tree, target, position)
       IN /\ ~AsksForSummary(tree, x, p)
          /\ MoveAllowed(tree, x, p)
    /\ tree' = Moved(tree, x, target, position)
    /\ UNCHANGED <<undo, dialog, pasting>>

_checkMetricsTableDeletion(x, target, position) ==
    /\ Free /\ CanDrop(tree, x, target, position)
    /\ AsksForSummary(tree, x, _determineNewParent(tree, target, position))
    /\ dialog' = [op |-> "move", node |-> x, target |-> target, position |-> position]
    /\ UNCHANGED <<tree, undo, pasting>>

\* The summary is removed first; the checks that may refuse the move follow.
MoveConfirmed ==
    /\ dialog.op = "move"
    /\ LET t == [tree EXCEPT !.summary = @ \ {dialog.node}]
           p == _determineNewParent(t, dialog.target, dialog.position)
       IN tree' = IF MoveAllowed(t, dialog.node, p)
                  THEN Moved(t, dialog.node, dialog.target, dialog.position) ELSE t
    /\ dialog' = NoDialog
    /\ UNCHANGED <<undo, pasting>>

DialogCancelled ==
    /\ dialog.op = "move"
    /\ dialog' = NoDialog
    /\ UNCHANGED <<tree, undo, pasting>>

-----------------------------------------------------------------------------
(* The clipboard.  A fragment is a tuple of nodes, the root first, each    *)
(* with its kind, the place of its parent in the tuple, its level when it  *)
(* was copied and its banks; summaries are dropped, so none are in it.     *)

\* The fragment f with new identifiers, not yet in the tree; out of section 5
\* its risk tables are dropped.
Grafted(t, f, ids, keepRisk) ==
    LET here == {i \in DOMAIN f : i = 1 \/ keepRisk \/ f[i].kind \notin RiskKinds}
    IN [t EXCEPT
          !.kind = [x \in Parents |-> IF \E i \in here : ids[i] = x
                                      THEN f[CHOOSE i \in here : ids[i] = x].kind ELSE @[x]],
          !.level = [x \in Parents |-> IF \E i \in here : ids[i] = x
                                      THEN f[CHOOSE i \in here : ids[i] = x].level ELSE @[x]],
          !.tb = @ \cup {ids[i] : i \in {j \in here : f[j].tb}},
          !.kids = [p \in Parents |->
              IF \E i \in here : ids[i] = p
              THEN LET mine == {i \in here : i > 1 /\ ids[f[i].up] = p}
                       order == InOrder(mine)
                   IN [n \in DOMAIN order |-> ids[order[n]]]
              ELSE @[p]]]

\* A single risk table: the rules of its creation, and points only.
_checkRiskTablePastePlacement(t, p, kind) ==
    LET levels == _collectSection5RiskLevels(t, {})
    IN /\ isUnderSection5(t, p) /\ ~OwnKind(t, p, kind)
       /\ t.level[p] = 1 => levels \subseteq {1}
       /\ t.level[p] >= 2 => 1 \notin levels

\* t is the tree with the fragment's nodes, x its root.
PasteAllowed(t, x, p) ==
    /\ IsRisk(t, x) => _checkRiskTablePastePlacement(t, p, t.kind[x])
    /\ NoViolationComes(t, x, p)
    /\ ~(IsItem(t, x) /\ t.level[p] = 1 /\ 1 \in _collectSection5RiskLevels(t, {}))
    /\ (HasRisks(t, x) /\ (p = "s5" \/ isUnderSection5(t, p))) => _checkSection5RiskConstraints(t, x, p)
    /\ getNodeDepth(t, p) < MaxDepth
    /\ getNodeDepth(t, p) + 1 + getSubtreeDepth(t, x) <= MaxDepth
    /\ canInsertSubtree(t, p, x)

\* The fragment joins the tree.  With risks, the summaries are made before the
\* new nodes have their numbers.
Pasted(t, x, p, under5) ==
    LET i == IF IsRisk(t, x) THEN 0 ELSE Len(t.kids[p])
        there == insertNodeAt(t, p, x, i)
    IN IF under5 /\ HasRisks(t, x)
       THEN _reconcileMetricsTablesAfterMove(there, x, {})
       ELSE generateNumbering(there)

\* New identifiers for the nodes of a fragment.  Bound: a late risk table and
\* a paste that waits find theirs left.
Identifiers(f) ==
    IF Len(f) + Len(pasting.fragment) + (IF dialog.op = "risk" THEN 1 ELSE 0) > Len(Unused)
    THEN {} ELSE {SubSeq(Unused, 1, Len(f))}

pasteInto(f, ids, p) ==
    /\ IsItem(tree, p)
    /\ LET under5 == p = "s5" \/ isUnderSection5(tree, p)
           t == Grafted(tree, f, ids, under5)
       IN /\ PasteAllowed(t, ids[1], p)
          /\ tree' = Pasted(t, ids[1], p, under5)
    /\ UNCHANGED <<undo, dialog, pasting>>

\* From another act, with images to copy: checked now, inserted later.
PasteWaits(f, ids, p) ==
    /\ pasting = NoPaste
    /\ IsItem(tree, p)
    /\ \E i \in DOMAIN f : f[i].kind = "violation"
    /\ LET under5 == p = "s5" \/ isUnderSection5(tree, p)
       IN /\ PasteAllowed(Grafted(tree, f, ids, under5), ids[1], p)
          /\ pasting' = [fragment |-> f, target |-> p, under5 |-> under5]
    /\ UNCHANGED <<tree, undo, dialog>>

\* The images are there: nothing is checked again but that the target exists.
PasteFinishes ==
    /\ pasting # NoPaste
    /\ LET f == pasting.fragment
           ids == SubSeq(Unused, 1, Len(f))
       IN tree' = IF pasting.target \in Sections \cup Attached(tree)
                  THEN Pasted(Grafted(tree, f, ids, pasting.under5),
                              ids[1], pasting.target, pasting.under5)
                  ELSE tree
    /\ pasting' = NoPaste
    /\ UNCHANGED <<undo, dialog>>

PasteFails ==
    /\ pasting # NoPaste
    /\ pasting' = NoPaste
    /\ UNCHANGED <<tree, undo, dialog>>

\* The nodes of the tree, and the sections with them.
Placed == Attached(tree)
Here == Sections \cup Placed

Next ==
    \/ \E p \in Here, x \in Fresh : handleAddChild(p, x)
    \/ \E p \in Here, x \in Fresh : \E i \in 0 .. Len(tree.kids[p]) : handleAddSibling(p, i, x)
    \/ \E p \in Here, x \in Fresh : \E kind \in Kinds \ RiskKinds : AddContent(p, kind, x)
    \/ \E p \in Placed, x \in Fresh : \E kind \in Kinds \cap RiskKinds : _handleRiskTableAction(p, kind, x)
    \/ \E p \in Placed, x \in Fresh : \E kind \in Kinds \cap RiskKinds : _showRiskLevelWarning(p, kind)
    \/ \E x \in Fresh : RiskLevelWarningRead(x)
    \/ \E x \in Placed : setNodeTb(x)
    \/ \E x \in Placed : deleteNode(x)
    \/ undoLast
    \/ \E x \in Placed, target \in Here, position \in Positions : moveNode(x, target, position)
    \/ \E x \in Placed, target \in Here, position \in Positions :
          _checkMetricsTableDeletion(x, target, position)
    \/ MoveConfirmed
    \/ DialogCancelled
    \/ \E f \in Fragments, p \in Here : \E ids \in Identifiers(f) : pasteInto(f, ids, p)
    \/ \E f \in Fragments, p \in Here : \E ids \in Identifiers(f) : PasteWaits(f, ids, p)
    \/ PasteFinishes
    \/ PasteFails

Spec == Init /\ [][Next]_vars

-----------------------------------------------------------------------------

Below5(t) == Below(t, "s5") \cap Nodes

\* Nodes in the tree or in a snapshot have one parent at most, a kind, and
\* only points have levels, summaries or banks.
TypeOK ==
    LET alive == Attached(tree) \cup Kept(tree, undo)
    IN /\ Len(undo) <= UndoDepth
       /\ \A x \in Nodes : tree.kind[x] \in
             (IF x \in alive THEN {"item", "table", "violation"} \cup RiskKinds ELSE {"none"})
       /\ \A x \in Nodes : Cardinality({p \in Parents : x \in Children(tree, p)})
                              = IF x \in Attached(tree) \/ x \in alive \ {undo[i].node : i \in DOMAIN undo}
                                THEN 1 ELSE 0
       /\ \A x \in tree.summary \cup tree.tb : IsItem(tree, x)
       /\ \A x \in Nodes : tree.kind[x] # "item" => tree.level[x] = 0

\* The numbers and the structure agree wherever points hang below points.
LevelsFollow ==
    \A x \in Nodes : x \in PointsBelow(tree, "s5") =>
        tree.level[x] = getNodeDepth(tree, x) - 1

\* A paste that waited for its images, and the table whose warning was read,
\* are not checked against what came in between.
LateRisk == \E x \in Fresh : RiskLevelWarningRead(x)
AnyPaste ==
    \/ PasteFinishes
    \/ \E f \in Fragments, p \in Here : \E ids \in Identifiers(f) : pasteInto(f, ids, p)

\* Nothing leaves the tree but what is deleted: no sequence of moves, not even
\* of a node next to or into its own subtree, cuts a branch off.
NoNodeLost ==
    [][Attached(tree) \subseteq Attached(tree') \/ \E x \in Placed : deleteNode(x)]_vars

\* "Add child" on a violation gives content children, which the rules of the
\* tree do not look into (against tree-drag-drop.js:154).
ContentIsLeaf(t) == \A x \in Nodes : t.kind[x] # "item" => t.kids[x] = <<>>

\* A copied subtree without points below content, and a paste of another.
PlainFragment(f) == \A i \in 2 .. Len(f) : f[f[i].up].kind = "item"

MixedPaste ==
    \E f \in Fragments, p \in Here :
        ~PlainFragment(f) /\ \E ids \in Identifiers(f) : pasteInto(f, ids, p)

RisksPlaced(t) ==
    LET at == {x \in Attached(t) : IsItem(t, x) /\ OwnRisk(t, x)}
    IN /\ at \subseteq Below(t, "s5")
       /\ \A x, y \in at : Parent(t, x) = "s5" => Parent(t, y) = "s5"

\* Risk tables are in section 5, on points of the first level or below them,
\* never both ("либо на уровне пунктов … либо на уровне подпунктов",
\* context-menu-tree.js:253): every menu action, move and paste keeps it.
\* Taking a deletion back asks nothing, nor do the two late steps; and no check
\* counts the risks in points below content.
RisksStayPlaced ==
    [][(RisksPlaced(tree) /\ ContentIsLeaf(tree)) =>
          RisksPlaced(tree') \/ undoLast \/ LateRisk \/ PasteFinishes \/ MixedPaste]_vars

\* Points of the first level with risks below them have a summary, and no
\* other; but for those in excused.
SummariesRight(t, excused) ==
    /\ \A a \in Items(t, "s5") :
          LET called == \E c \in Items(t, a) : HasRisks(t, c)
          IN (a \in t.summary => called) /\ (called => a \in t.summary \cup excused)
    /\ \A x \in Attached(t) \cap t.summary : Parent(t, x) = "s5"
    /\ t.main <=> HasRisks(t, "s5")

\* No table fits in: the summary is then left out, and nobody is told.
Full(t) == {a \in Parents : ~canAddContent(t, a, "table")}

\* The summaries that must exist are there, where they find room, and no other.
SummariesFollow ==
    [][(SummariesRight(tree, {}) /\ ContentIsLeaf(tree)) =>
          SummariesRight(tree', Full(tree')) \/ undoLast \/ AnyPaste \/ MoveConfirmed]_vars

DepthFits(t) == \A x \in Attached(t) : IsItem(t, x) => getNodeDepth(t, x) <= MaxDepth

BesideContent ==
    \E p \in Here, x \in Fresh : \E i \in 0 .. Len(tree.kids[p]) :
        /\ i = 0 \/ tree.kind[tree.kids[p][i]] # "item"
        /\ handleAddSibling(p, i, x)

\* No point is deeper than the numbering allows, but for a point added beside
\* the content of a deepest point, a deletion taken back below a point that
\* moved down, a late paste, and points pasted below content, which the depth
\* of a subtree does not count.
DepthKept == [][(DepthFits(tree) /\ ContentIsLeaf(tree)) =>
          DepthFits(tree') \/ BesideContent \/ undoLast \/ PasteFinishes \/ MixedPaste]_vars

DropBesideContent ==
    \E x, target \in Placed, position \in {"before", "after"} :
        tree.kind[target] # "item" /\ moveNode(x, target, position)

TbOnLeaves(t) == \A x \in t.tb \cap Attached(t) : isTbLeaf(t, x)

\* Only leaves of section 5 carry banks of their own: the others show the union
\* of their leaves', so a bank left on a parent is in the act and not seen.
TbKept ==
    [][TbOnLeaves(tree) =>
          TbOnLeaves(tree') \/ AnyPaste \/ BesideContent \/ DropBesideContent
            \/ MoveConfirmed \/ undoLast]_vars

\* pasteInto looks at the limits because "без этой проверки paste мог дать узлу
\* N+1 блоков" (node-clipboard.js:460): no node holds more blocks of a type than
\* its limit.  A paste that waits for its images breaks it, and the main summary.
BlocksFit ==
    \A p \in Sections \cup Attached(tree) : \A type \in {"table", "violation"} :
        countChildrenByType(tree, p, type) <= MaxBlocks

\* A node with more blocks of a type than its limit makes the server refuse
\* the whole act.
BlocksKept == [][BlocksFit => BlocksFit' \/ (tree'.main /\ ~tree.main) \/ PasteFinishes]_vars
=============================================================================
