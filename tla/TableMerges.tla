---------------------------- MODULE TableMerges ----------------------------
(***************************************************************************)
(* What a table of an act promises, without its cells: so many rows and    *)
(* columns and a list of merged rectangles, each inside the table and no   *)
(* two sharing a cell.  This is the "range-list" of grid-merges.js; the    *)
(* dense grid the editor stores is TableGrid, which implements this.       *)
(***************************************************************************)
EXTENDS TableLimits

VARIABLES
    rows,      \* how many rows the table has
    cols,      \* how many columns
    rects      \* its merged rectangles

vars == <<rows, cols, rects>>

Rect == [row : Nat, col : Nat, rowspan : Nat \ {0}, colspan : Nat \ {0}]

Covers(m, r, c) ==
    /\ m.row <= r /\ r < m.row + m.rowspan
    /\ m.col <= c /\ c < m.col + m.colspan

\* Two rectangles that share a cell.
Overlap(m, n) ==
    /\ m.row < n.row + n.rowspan /\ n.row < m.row + m.rowspan
    /\ m.col < n.col + n.colspan /\ n.col < m.col + m.colspan

IsMerge(m) == m.rowspan > 1 \/ m.colspan > 1

-----------------------------------------------------------------------------

TypeOK ==
    /\ rows \in 1 .. MaxRows
    /\ cols \in 1 .. MaxCols
    /\ rects \subseteq Rect

\* Every merge lies inside the table.
InBounds ==
    \A m \in rects : m.row + m.rowspan <= rows /\ m.col + m.colspan <= cols

\* Two merges never share a cell: the Word builder fails on two that do.
Disjoint ==
    \A m, n \in rects : m # n => ~Overlap(m, n)

Inv == TypeOK /\ InBounds /\ Disjoint

-----------------------------------------------------------------------------

Init == Inv

\* A new row before row i: merges from i on move down, one it cuts grows.
OpenRow(m, i) ==
    IF m.row >= i THEN [m EXCEPT !.row = @ + 1]
    ELSE IF m.row + m.rowspan > i THEN [m EXCEPT !.rowspan = @ + 1]
    ELSE m

InsertRow(i) ==
    /\ rows < MaxRows
    /\ rows' = rows + 1
    /\ rects' = {OpenRow(m, i) : m \in rects}
    /\ UNCHANGED cols

OpenCol(m, i) ==
    IF m.col >= i THEN [m EXCEPT !.col = @ + 1]
    ELSE IF m.col + m.colspan > i THEN [m EXCEPT !.colspan = @ + 1]
    ELSE m

InsertCol(i) ==
    /\ cols < MaxCols
    /\ cols' = cols + 1
    /\ rects' = {OpenCol(m, i) : m \in rects}
    /\ UNCHANGED rows

CloseRow(m, i) == IF m.row > i THEN [m EXCEPT !.row = @ - 1] ELSE m

\* Only a row no merge reaches goes: first separate, then delete.
DeleteRow(i) ==
    /\ rows > 1
    /\ \A m \in rects : i < m.row \/ m.row + m.rowspan <= i
    /\ rows' = rows - 1
    /\ rects' = {CloseRow(m, i) : m \in rects}
    /\ UNCHANGED cols

CloseCol(m, i) == IF m.col > i THEN [m EXCEPT !.col = @ - 1] ELSE m

DeleteCol(i) ==
    /\ cols > 1
    /\ \A m \in rects : i < m.col \/ m.col + m.colspan <= i
    /\ cols' = cols - 1
    /\ rects' = {CloseCol(m, i) : m \in rects}
    /\ UNCHANGED rows

Merge(m) ==
    /\ IsMerge(m)
    /\ m.row + m.rowspan <= rows /\ m.col + m.colspan <= cols
    /\ \A n \in rects : ~Overlap(m, n)
    /\ rects' = rects \cup {m}
    /\ UNCHANGED <<rows, cols>>

Unmerge(m) ==
    /\ rects' = rects \ {m}
    /\ UNCHANGED <<rows, cols>>

Next ==
    \/ \E i \in 0 .. rows : InsertRow(i)
    \/ \E i \in 0 .. cols : InsertCol(i)
    \/ \E i \in 0 .. rows - 1 : DeleteRow(i)
    \/ \E i \in 0 .. cols - 1 : DeleteCol(i)
    \/ \E r \in 0 .. rows - 1, c \in 0 .. cols - 1, h \in 1 .. rows, w \in 1 .. cols :
          Merge([row |-> r, col |-> c, rowspan |-> h, colspan |-> w])
    \/ \E m \in rects : Unmerge(m)

Spec == Init /\ [][Next]_vars

=============================================================================
