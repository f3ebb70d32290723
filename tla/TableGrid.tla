----------------------------- MODULE TableGrid -----------------------------
(***************************************************************************)
(* A table of an act in the constructor: the dense grid the editor stores, *)
(* where a merge is its top left cell (with its spans) plus a mark on      *)
(* every cell it absorbed, and the operations of the cell menu.            *)
(*                                                                         *)
(* A position is <<row, column>>, counted from 0 as in the code; spans are *)
(* pairs too, so that rows and columns share their definitions: axis 1 is  *)
(* rows, axis 2 columns.  A text is the sequence of the pieces typed into  *)
(* it: merging joins texts, it invents none.                               *)
(***************************************************************************)
EXTENDS TableLimits, Sequences, FiniteSets, SequencesExt, FiniteSetsExt

CONSTANTS
    Texts,      \* the pieces of text a user types
    MaxCells,   \* bound of the model: the largest table it builds
    Presets     \* the tables the constructor creates: size, header rows,
                \* merges of the header, protected or not

\* What the constructor creates fits the limits, and the merges of a header
\* are inside it, apart, and of more than one cell.
ASSUME PresetsAssumption ==
    \A t \in Presets :
        /\ t.rows \in 1 .. MaxRows /\ t.cols \in 1 .. MaxCols
        /\ t.protected \in BOOLEAN
        /\ \A m \in t.merges :
              /\ m \in [at : Nat \X Nat, span : (Nat \ {0}) \X (Nat \ {0})]
              /\ m.span # <<1, 1>>
              /\ m.at[1] + m.span[1] <= t.rows /\ m.at[2] + m.span[2] <= t.cols
        /\ \A m, n \in t.merges : m # n =>
              \E a \in 1 .. 2 : m.at[a] + m.span[a] <= n.at[a] \/ n.at[a] + n.span[a] <= m.at[a]

VARIABLES
    rows,       \* grid.length
    cols,       \* grid[0].length
    grid,       \* the cell at each position
    protected   \* columns and merges of this table may not be changed

vars == <<rows, cols, grid, protected>>

NoOrigin == <<>>
NoSnapshot == [joined |-> <<>>, contents |-> <<>>]

Cells(R, C) == (0 .. R - 1) \X (0 .. C - 1)

\* A cell of its own, in no merge.
Single(text, isHeader) ==
    [content |-> text, isHeader |-> isHeader, span |-> <<1, 1>>,
     isSpanned |-> FALSE, spanOrigin |-> NoOrigin, mergeSnapshot |-> NoSnapshot]

\* Rectangle m covers position p.
Covers(m, p) ==
    \A a \in 1 .. 2 : m.at[a] <= p[a] /\ p[a] < m.at[a] + m.span[a]

\* The position one step further (or back) along an axis.
Moved(p, axis, by) == [p EXCEPT ![axis] = @ + by]

-----------------------------------------------------------------------------
(* grid-merges.js: the range-list and the dense grid.                      *)

gridToMerges(g) ==
    {[at |-> p, span |-> g[p].span] :
        p \in {q \in DOMAIN g : ~g[q].isSpanned /\ g[q].span # <<1, 1>>}}

\* The grid with exactly these merges; contents and headers stay.
applyMergesToGrid(g, merges) ==
    [p \in DOMAIN g |->
        LET absorbers == {m \in merges : Covers(m, p) /\ m.at # p}
            leads == {m \in merges : m.at = p}
        IN IF absorbers # {}
           THEN [g[p] EXCEPT !.span = <<1, 1>>, !.isSpanned = TRUE,
                             !.spanOrigin = (CHOOSE m \in absorbers : TRUE).at]
           ELSE [g[p] EXCEPT !.span = IF leads = {} THEN <<1, 1>>
                                      ELSE (CHOOSE m \in leads : TRUE).span,
                             !.isSpanned = FALSE, !.spanOrigin = NoOrigin]]

\* The editor's own check of a new grid, in the area from lo to hi.
validateGridRegion(g, lo, hi) ==
    LET near == {m \in gridToMerges(g) :
                   \A a \in 1 .. 2 : m.at[a] <= hi[a] /\ m.at[a] + m.span[a] > lo[a]}
        inArea == {p \in DOMAIN g : \A a \in 1 .. 2 : lo[a] <= p[a] /\ p[a] <= hi[a]}
    IN /\ \A m \in near : <<m.at[1] + m.span[1] - 1, m.at[2] + m.span[2] - 1>> \in DOMAIN g
       /\ \A p \in DOMAIN g : Cardinality({m \in near : Covers(m, p)}) <= 1
       /\ \A p \in inArea : g[p].isSpanned =>
             \E m \in near : Covers(m, p) /\ g[p].spanOrigin = m.at

-----------------------------------------------------------------------------
(* act_content.py: what the server accepts of a table when the act is      *)
(* saved; anything else is answered 422 and nothing of the act is saved.   *)

validate_grid_dimensions ==
    /\ rows <= MaxRows /\ cols <= MaxCols
    /\ \A p \in DOMAIN grid : grid[p].span[1] <= MaxRows /\ grid[p].span[2] <= MaxCols

validate_structure ==
    LET merges == gridToMerges(grid)
    IN /\ \A p \in DOMAIN grid : grid[p].span # <<1, 1>> =>
             p[1] + grid[p].span[1] <= rows /\ p[2] + grid[p].span[2] <= cols
       /\ \A m, n \in merges : m # n => ~\E p \in DOMAIN grid : Covers(m, p) /\ Covers(n, p)

-----------------------------------------------------------------------------
(* Where an operation acts, seen from the selected cell.                   *)

Visible(p) == p \in DOMAIN grid /\ ~grid[p].isSpanned

HeaderRow(r) == \E c \in 0 .. cols - 1 : grid[<<r, c>>].isHeader

\* The visible cells with a span along the axis that reach line i.
Reaching(axis, i) ==
    {p \in DOMAIN grid : /\ ~grid[p].isSpanned /\ grid[p].span[axis] > 1
                         /\ p[axis] <= i /\ i < p[axis] + grid[p].span[axis]}

_findRowStartOfSpan(r) == Min({r} \cup {p[1] : p \in Reaching(1, r)})

\* The columns are searched row by row: the topmost merge decides, not the
\* leftmost one.
_findColumnStartOfSpan(c) ==
    LET left == {p \in Reaching(2, c) : p[2] < c}
    IN IF left = {} THEN c
       ELSE (CHOOSE p \in left : \A q \in left : p[1] <= q[1])[2]

_findEndOfSpan(axis, i) ==
    Max({i + 1} \cup {p[axis] + grid[p].span[axis] : p \in Reaching(axis, i)})

\* Mutant: the weaker test of the table's core, blind to absorbed cells.
LeadsOnly(axis, i) ==
    \E p \in DOMAIN grid : p[axis] = i /\ ~grid[p].isSpanned /\ grid[p].span # <<1, 1>>

\* A line some merge reaches, or has a part of, is not deleted.
_hasAnyMergedCellsStrict(axis, i) ==
    \/ \E p \in DOMAIN grid : p[axis] = i /\ (grid[p].isSpanned \/ grid[p].span # <<1, 1>>)
    \/ Reaching(axis, i) # {}

-----------------------------------------------------------------------------
(* The grid with a line more or a line less.                               *)

SizeWith(axis, by) ==
    <<IF axis = 1 THEN rows + by ELSE rows, IF axis = 2 THEN cols + by ELSE cols>>

\* Mutant: the marks of absorbed cells are left where they were.
InsertedUnmarked(axis, i, headers) ==
    LET size == SizeWith(axis, 1)
    IN [p \in Cells(size[1], size[2]) |->
            IF p[axis] = i THEN Single(<<>>, p[1] \in headers)
            ELSE grid[IF p[axis] > i THEN Moved(p, axis, -1) ELSE p]]

\* Line i of the axis is new, its cells headers in the rows headers names; the
\* merges it cuts grow by one, the marks of absorbed cells follow their merge.
Opened(axis, i, headers) ==
    LET size == SizeWith(axis, 1)
    IN [p \in Cells(size[1], size[2]) |->
            IF p[axis] = i THEN Single(<<>>, p[1] \in headers)
            ELSE LET old == grid[IF p[axis] > i THEN Moved(p, axis, -1) ELSE p]
                     cut == ~old.isSpanned /\ p[axis] < i /\ p[axis] + old.span[axis] > i
                     shifted == old.isSpanned /\ old.spanOrigin[axis] >= i
                 IN [old EXCEPT !.span[axis] = IF cut THEN @ + 1 ELSE @,
                                !.spanOrigin = IF shifted THEN Moved(@, axis, 1) ELSE @]]

\* Then the new cells a merge now covers are absorbed.
Inserted(axis, i, headers) ==
    applyMergesToGrid(Opened(axis, i, headers), gridToMerges(Opened(axis, i, headers)))

\* Line i of the axis is gone.
Removed(axis, i) ==
    LET size == SizeWith(axis, -1)
    IN [p \in Cells(size[1], size[2]) |->
            LET old == grid[IF p[axis] >= i THEN Moved(p, axis, 1) ELSE p]
                spans == ~old.isSpanned /\ p[axis] < i /\ p[axis] + old.span[axis] > i
                shifted == old.isSpanned /\ old.spanOrigin[axis] > i
            IN [old EXCEPT !.span[axis] = IF spans THEN Max({1, @ - 1}) ELSE @,
                           !.spanOrigin = IF shifted THEN Moved(@, axis, -1) ELSE @]]

Area(lo, hi) == {p \in DOMAIN grid : \A a \in 1 .. 2 : lo[a] <= p[a] /\ p[a] <= hi[a]}

\* Mutant: only the text of the corner stays.
MergedOverwriting(lo, hi) ==
    [p \in DOMAIN grid |->
        IF p = lo THEN [grid[p] EXCEPT !.span = <<hi[1] - lo[1] + 1, hi[2] - lo[2] + 1>>]
        ELSE IF p \in Area(lo, hi)
             THEN [Single(<<>>, FALSE) EXCEPT !.isSpanned = TRUE, !.spanOrigin = lo]
        ELSE grid[p]]

\* table-merge-core.js: the area becomes one cell with the joined texts; the
\* texts as they were are kept with it until it is separated.
mergeRange(lo, hi) ==
    LET contents == [r \in 1 .. hi[1] - lo[1] + 1 |-> [c \in 1 .. hi[2] - lo[2] + 1 |->
                        grid[<<lo[1] + r - 1, lo[2] + c - 1>>].content]]
        joined == FlattenSeq([r \in DOMAIN contents |-> FlattenSeq(contents[r])])
    IN [p \in DOMAIN grid |->
          IF p = lo THEN [grid[p] EXCEPT
                            !.content = joined,
                            !.span = <<hi[1] - lo[1] + 1, hi[2] - lo[2] + 1>>,
                            !.mergeSnapshot = [joined |-> joined, contents |-> contents]]
          ELSE IF p \in Area(lo, hi)
               THEN [Single(<<>>, FALSE) EXCEPT !.isSpanned = TRUE, !.spanOrigin = lo]
          ELSE grid[p]]

\* Mutant: the kept texts come back whatever was typed since.
RestoresAlways(cell) == cell.mergeSnapshot # NoSnapshot

\* The texts come back only if the joined text was not edited since.
canRestore(cell) ==
    cell.mergeSnapshot # NoSnapshot /\ cell.content = cell.mergeSnapshot.joined

unmergeAt(at) ==
    LET lead == grid[at]
        old == lead.mergeSnapshot.contents
        \* what the kept texts have for position p, counted from the corner
        kept(p) == LET r == p[1] - at[1] + 1  c == p[2] - at[2] + 1
                   IN IF r \in DOMAIN old THEN IF c \in DOMAIN old[r] THEN old[r][c] ELSE <<>>
                      ELSE <<>>
    IN [p \in DOMAIN grid |->
          IF ~Covers([at |-> at, span |-> lead.span], p) THEN grid[p]
          ELSE IF canRestore(lead) THEN Single(kept(p), lead.isHeader)
          ELSE Single(IF p = at THEN lead.content ELSE <<>>, lead.isHeader)]

-----------------------------------------------------------------------------

Preset(t) ==
    LET plain == [p \in Cells(t.rows, t.cols) |-> Single(<<>>, p[1] < t.headers)]
    IN applyMergesToGrid(plain, t.merges)

Init ==
    \E t \in Presets :
        /\ rows = t.rows /\ cols = t.cols
        /\ protected = t.protected
        /\ grid = Preset(t)

\* The pieces of text a reader sees.
Holds(cell, t) == ~cell.isSpanned /\ \E i \in DOMAIN cell.content : cell.content[i] = t

VisibleTexts(g) == {t \in Texts : \E p \in DOMAIN g : Holds(g[p], t)}

\* The user types over the text of a cell, or clears it.
EditCell(p, text) ==
    /\ Visible(p)
    /\ ~(protected /\ grid[p].isHeader)
    /\ grid[p].content # text
    /\ grid' = [grid EXCEPT ![p].content = text]
    /\ UNCHANGED <<rows, cols, protected>>

\* Mutant: the limit is tested after counting one row too few.
InsertRowPastLimit(i) ==
    /\ rows <= MaxRows /\ (rows + 1) * cols <= MaxCells
    /\ grid' = Inserted(1, i, {})
    /\ rows' = rows + 1
    /\ UNCHANGED <<cols, protected>>

\* insertRowAbove and insertRowBelow, from the selected cell p.
InsertRow(i) ==
    /\ rows < MaxRows /\ (rows + 1) * cols <= MaxCells
    /\ grid' = Inserted(1, i, {})
    /\ rows' = rows + 1
    /\ UNCHANGED <<cols, protected>>

insertRowAbove(p) ==
    /\ Visible(p)
    /\ ~HeaderRow(p[1]) /\ ~HeaderRow(_findRowStartOfSpan(p[1]))
    /\ InsertRow(_findRowStartOfSpan(p[1]))

insertRowBelow(p) ==
    /\ Visible(p)
    /\ InsertRow(_findEndOfSpan(1, p[1]))

\* A new column is a header only in the first header row.
InsertColumn(i) ==
    /\ ~protected
    /\ cols < MaxCols /\ rows * (cols + 1) <= MaxCells
    /\ grid' = Inserted(2, i, {r \in 0 .. rows - 1 : HeaderRow(r) /\ \A s \in 0 .. r - 1 : ~HeaderRow(s)})
    /\ cols' = cols + 1
    /\ UNCHANGED <<rows, protected>>

insertColumnLeft(p) ==
    /\ Visible(p)
    /\ InsertColumn(_findColumnStartOfSpan(p[2]))

insertColumnRight(p) ==
    /\ Visible(p)
    /\ InsertColumn(_findEndOfSpan(2, p[2]))

\* Mutant: the last column may go as well.
DeleteAnyColumn(p) ==
    /\ Visible(p) /\ ~protected
    /\ ~_hasAnyMergedCellsStrict(2, p[2])
    /\ grid' = Removed(2, p[2])
    /\ cols' = cols - 1
    /\ UNCHANGED <<rows, protected>>

deleteRow(p) ==
    /\ Visible(p)
    /\ ~HeaderRow(p[1])
    /\ rows - Cardinality({r \in 0 .. rows - 1 : HeaderRow(r)}) > 1
    /\ ~_hasAnyMergedCellsStrict(1, p[1])
    /\ grid' = Removed(1, p[1])
    /\ rows' = rows - 1
    /\ UNCHANGED <<cols, protected>>

deleteColumn(p) ==
    /\ Visible(p)
    /\ ~protected
    /\ cols > 1
    /\ ~_hasAnyMergedCellsStrict(2, p[2])
    /\ grid' = Removed(2, p[2])
    /\ cols' = cols - 1
    /\ UNCHANGED <<rows, protected>>

\* The selected cells fill the rectangle from lo to hi; none is merged yet,
\* and headers do not mix with data.
mergeCells(lo, hi) ==
    /\ ~protected
    /\ lo[1] <= hi[1] /\ lo[2] <= hi[2] /\ lo # hi
    /\ \A p \in Area(lo, hi) : ~grid[p].isSpanned /\ grid[p].span = <<1, 1>>
    /\ \A p, q \in Area(lo, hi) : grid[p].isHeader = grid[q].isHeader
    /\ validateGridRegion(mergeRange(lo, hi), lo, hi)
    /\ grid' = mergeRange(lo, hi)
    /\ UNCHANGED <<rows, cols, protected>>

unmergeCells(p) ==
    /\ Visible(p)
    /\ ~protected
    /\ grid[p].span # <<1, 1>>
    /\ LET next == unmergeAt(p)
           hi == <<p[1] + grid[p].span[1] - 1, p[2] + grid[p].span[2] - 1>>
       IN /\ validateGridRegion(next, p, hi)
          /\ grid' = next
    /\ UNCHANGED <<rows, cols, protected>>

\* The act is saved and opened again: the kept texts are not stored.
SaveAndReload ==
    /\ validate_grid_dimensions /\ validate_structure
    /\ \E p \in DOMAIN grid : grid[p].mergeSnapshot # NoSnapshot
    /\ grid' = [p \in DOMAIN grid |-> [grid[p] EXCEPT !.mergeSnapshot = NoSnapshot]]
    /\ UNCHANGED <<rows, cols, protected>>

Next ==
    \/ \E p \in DOMAIN grid : \E text \in {<<>>} \cup {<<t>> : t \in Texts \ VisibleTexts(grid)} :
          EditCell(p, text)
    \/ \E p \in DOMAIN grid : insertRowAbove(p)
    \/ \E p \in DOMAIN grid : insertRowBelow(p)
    \/ \E p \in DOMAIN grid : insertColumnLeft(p)
    \/ \E p \in DOMAIN grid : insertColumnRight(p)
    \/ \E p \in DOMAIN grid : deleteRow(p)
    \/ \E p \in DOMAIN grid : deleteColumn(p)
    \/ \E lo, hi \in DOMAIN grid : mergeCells(lo, hi)
    \/ \E p \in DOMAIN grid : unmergeCells(p)
    \/ SaveAndReload

Spec == Init /\ [][Next]_vars

-----------------------------------------------------------------------------

\* The table has the cells its size says, and always one to select: no
\* operation leaves it without rows or columns.
TypeOK ==
    /\ rows \in 1 .. MaxRows /\ cols \in 1 .. MaxCols
    /\ protected \in BOOLEAN
    /\ DOMAIN grid = Cells(rows, cols)

\* Two descriptions of the merges agree: every absorbed cell lies in exactly
\* one merge and its mark names that one's corner, and no visible cell lies
\* inside another's merge.  An insertion rebuilds the marks, a deletion only
\* shifts them (table-cells-operations.js:751-830), a merge writes them.
Tiled ==
    LET merges == gridToMerges(grid)
    IN \A p \in DOMAIN grid :
          LET over == {m \in merges : Covers(m, p)}
          IN IF grid[p].isSpanned
             THEN \E m \in over : over = {m} /\ grid[p].spanOrigin = m.at /\ m.at # p
             ELSE \A m \in over : m.at = p

\* No sequence of editor operations builds a table the server would refuse:
\* one refused table makes every save of the whole act fail with 422.
Savable == validate_grid_dimensions /\ validate_structure

\* A piece of text stands in one cell, once: merging, typing over the merged
\* text and separating must not bring back a copy (table-merge-core.js:90-95).
NoTextTwice ==
    \A t \in Texts : \A p, q \in {x \in DOMAIN grid : Holds(grid[x], t)} :
        p = q /\ Cardinality({i \in DOMAIN grid[p].content : grid[p].content[i] = t}) = 1

\* The pieces of text of one line.
LineTexts(axis, i) ==
    {t \in Texts : \E p \in DOMAIN grid : p[axis] = i /\ Contains(grid[p].content, t)}

\* Text leaves the table only by typing over it, or with the deleted row or
\* column that showed it: no merge, separation, insertion or reload hides it.
NoTextLost ==
    [][LET gone == VisibleTexts(grid) \ VisibleTexts(grid')
       IN \/ gone = {}
          \/ \E p \in DOMAIN grid, text \in {<<>>} \cup {<<t>> : t \in Texts} : EditCell(p, text)
          \/ \E p \in DOMAIN grid : deleteRow(p) /\ gone \subseteq LineTexts(1, p[1])
          \/ \E p \in DOMAIN grid : deleteColumn(p) /\ gone \subseteq LineTexts(2, p[2])]_vars

\* The texts kept for a separation have the shape of the merge they would be
\* laid out in ("содержимое всех ячеек области восстанавливается из
\* снапшота", table-merge-core.js:90).  An insertion inside a merge breaks it.
SnapshotsFit ==
    \A p \in DOMAIN grid :
        LET old == grid[p].mergeSnapshot.contents
        IN (~grid[p].isSpanned /\ grid[p].mergeSnapshot # NoSnapshot) =>
              grid[p].span = <<Len(old), Len(old[1])>>

\* Insertions are the only operations that spoil the kept texts: a deletion
\* never shrinks a merge under them, a reload drops them with the merge.
SnapshotsStayFit ==
    [][SnapshotsFit => \/ SnapshotsFit'
                       \/ rows' > rows \/ cols' > cols]_vars

MergeRects ==
    {[row |-> m.at[1], col |-> m.at[2], rowspan |-> m.span[1], colspan |-> m.span[2]] :
        m \in gridToMerges(grid)}

Merges == INSTANCE TableMerges WITH rects <- MergeRects

\* The dense grid implements the list of merged rectangles: every operation
\* of the menu is one step on the list, or none, and the list starts and
\* stays within the table and without overlaps.
MergesSpec == Merges!Spec

=============================================================================
