-------------------------- MODULE TableGrid_proofs --------------------------
(***************************************************************************)
(* For limits and tables of every size: what the menu of the constructor   *)
(* builds is always a table the server accepts, and the dense grid with    *)
(* its marks implements the list of merged rectangles; no text of a table  *)
(* is ever doubled, and none is lost but by typing over or deleting it.    *)
(*                                                                         *)
(* The argument: the grid carries exactly one list of merges (Carries),    *)
(* and the list is sound (Sound: inside the table, apart).  Each operation *)
(* is shown to make a grid that carries the list the abstract operation    *)
(* makes of the old one, and that this list is sound.                      *)
(*                                                                         *)
(* The texts: an absorbed cell is blank, the texts kept with a merge fit   *)
(* into it and their pieces are those of the joined text (CellText), and   *)
(* no piece stands twice (Distinct).  A cell of the new grid is blank, or  *)
(* follows one cell of the old one (Follows, CarriedTexts); joining texts  *)
(* keeps their pieces, and how often each stands there (JoinedBlock).      *)
(*                                                                         *)
(* Last, the list of merged rectangles by itself (List): its Inv needs no  *)
(* strengthening.                                                          *)
(***************************************************************************)
EXTENDS TableGrid, FiniteSetTheorems, WellFoundedInduction, TLAPS

Position == Nat \X Nat
SpanPair == (Nat \ {0}) \X (Nat \ {0})
MergeRec == [at : Position, span : SpanPair]

\* The shape of a cell; its texts may be anything.
CellShape(c) ==
    /\ c = [content |-> c.content, isHeader |-> c.isHeader, span |-> c.span,
            isSpanned |-> c.isSpanned, spanOrigin |-> c.spanOrigin,
            mergeSnapshot |-> c.mergeSnapshot]
    /\ c.span \in SpanPair
    /\ c.isSpanned \in BOOLEAN
    /\ c.isSpanned => c.spanOrigin \in Position

\* A list of merges inside a table of R rows and C columns, no two of which
\* cover the same cell.
Sound(M, R, C) ==
    /\ \A m \in M : /\ m \in MergeRec
                    /\ m.span # <<1, 1>>
                    /\ m.at[1] + m.span[1] <= R
                    /\ m.at[2] + m.span[2] <= C
    /\ \A m, n \in M : \A p \in Position : Covers(m, p) /\ Covers(n, p) => m = n

\* The grid shows the merges of M, and marks exactly the cells they absorb.
Carries(g, M) ==
    /\ \A m \in M : m.at \in DOMAIN g => g[m.at].span = m.span
    /\ \A p \in DOMAIN g : (\A m \in M : m.at # p) => g[p].span = <<1, 1>>
    /\ \A p \in DOMAIN g : g[p].isSpanned =>
          \E m \in M : Covers(m, p) /\ m.at # p /\ g[p].spanOrigin = m.at
    /\ \A p \in DOMAIN g : \A m \in M : Covers(m, p) /\ m.at # p => g[p].isSpanned

\* A grid of R rows and C columns that carries a sound list.
GoodGrid(g, M, R, C) ==
    /\ DOMAIN g = Cells(R, C)
    /\ \A p \in DOMAIN g : CellShape(g[p])
    /\ Sound(M, R, C)
    /\ Carries(g, M)

IInv ==
    /\ rows \in 1 .. MaxRows /\ cols \in 1 .. MaxCols
    /\ protected \in BOOLEAN
    /\ GoodGrid(grid, gridToMerges(grid), rows, cols)

-----------------------------------------------------------------------------
(* Least and greatest numbers, positions.                                  *)

Smaller == {ss \in Nat \X Nat : ss[1] < ss[2]}

\* A set of natural numbers that is not empty has a least one.
LEMMA LeastExists ==
    ASSUME NEW S, S \subseteq Nat, S # {}
    PROVE  \E x \in S : \A y \in S : x <= y
<1>1. IsWellFoundedOn(Smaller, Nat)
  BY NatLessThanWellFounded, Zenon DEF OpToRel, Smaller
<1>2. PICK x \in S : \A y \in S : ~(<<y, x>> \in Smaller)
  BY <1>1, WFMin
<1>3. ASSUME NEW y \in S
      PROVE  x <= y
  <2>1. x \in Nat /\ y \in Nat /\ <<y, x>> \notin Smaller
    BY <1>2
  <2>. QED
    BY <2>1 DEF Smaller
<1>. QED
  BY <1>3

LEMMA MinIn ==
    ASSUME NEW S, S \subseteq Nat, S # {}
    PROVE  Min(S) \in S
BY LeastExists DEF Min

\* A bounded one has a greatest.
LEMMA MaxIn ==
    ASSUME NEW S, NEW b \in Nat, S \subseteq 0 .. b, S # {}
    PROVE  Max(S) \in S
<1>. DEFINE D == {b - x : x \in S}
<1>1. D \subseteq Nat /\ D # {}
  <2>1. \A x \in S : x \in 0 .. b /\ b - x \in Nat
    OBVIOUS
  <2>2. D \subseteq Nat
    BY <2>1
  <2>3. PICK x \in S : TRUE
    OBVIOUS
  <2>4. b - x \in D
    OBVIOUS
  <2>. QED
    BY <2>2, <2>4
<1>2. PICK d \in D : \A y \in D : d <= y
  BY <1>1, LeastExists
<1>3. PICK x \in S : d = b - x
  OBVIOUS
<1>4. ASSUME NEW y \in S
      PROVE  x >= y
  <2>1. d <= b - y
    BY <1>2
  <2>. QED
    BY <1>3, <2>1
<1>. QED
  BY <1>4 DEF Max

LEMMA MovedAt ==
    ASSUME NEW p \in Int \X Int, NEW axis \in 1 .. 2, NEW by \in Int
    PROVE  /\ Moved(p, axis, by) \in Int \X Int
           /\ Moved(p, axis, by)[axis] = p[axis] + by
           /\ Moved(p, axis, by)[3 - axis] = p[3 - axis]
BY DEF Moved

LEMMA CellsType ==
    ASSUME NEW R, NEW C
    PROVE  /\ \A p \in Cells(R, C) : p = <<p[1], p[2]>> /\ p[1] \in 0 .. R - 1 /\ p[2] \in 0 .. C - 1
           /\ \A r \in 0 .. R - 1, c \in 0 .. C - 1 : <<r, c>> \in Cells(R, C)
BY DEF Cells

LEMMA CoversAt ==
    ASSUME NEW m \in MergeRec, NEW p \in Position
    PROVE  Covers(m, p) <=> /\ m.at[1] <= p[1] /\ p[1] < m.at[1] + m.span[1]
                            /\ m.at[2] <= p[2] /\ p[2] < m.at[2] + m.span[2]
BY DEF Covers

-----------------------------------------------------------------------------
(* A grid that carries a sound list shows exactly that list.               *)

\* The corner of a merge is a cell of the table, and the merge covers it.
LEMMA CornerInside ==
    ASSUME NEW R \in Nat, NEW C \in Nat, NEW M, Sound(M, R, C), NEW m \in M
    PROVE  m.at \in Cells(R, C) /\ m.at \in Position /\ Covers(m, m.at)
<1>1. m \in MergeRec /\ m.at[1] + m.span[1] <= R /\ m.at[2] + m.span[2] <= C
  BY DEF Sound
<1>2. /\ m.at = <<m.at[1], m.at[2]>>
      /\ m.at[1] \in Nat /\ m.at[2] \in Nat
      /\ m.span[1] \in Nat \ {0} /\ m.span[2] \in Nat \ {0}
  BY <1>1 DEF MergeRec, Position, SpanPair
<1>3. m.at[1] \in 0 .. R - 1 /\ m.at[2] \in 0 .. C - 1
  BY <1>1, <1>2
<1>4. m.at \in Cells(R, C)
  BY <1>2, <1>3 DEF Cells
<1>5. m.at \in Position
  BY <1>2 DEF Position
<1>6. Covers(m, m.at)
  BY <1>1, <1>2, <1>5, CoversAt
<1>. QED
  BY <1>4, <1>5, <1>6

LEMMA CellsArePositions ==
    ASSUME NEW R \in Nat, NEW C \in Nat
    PROVE  Cells(R, C) \subseteq Position
BY DEF Cells, Position

\* No merge absorbs the corner of a merge.
LEMMA CornersFree ==
    ASSUME NEW g, NEW M, NEW R \in Nat, NEW C \in Nat, GoodGrid(g, M, R, C), NEW m \in M
    PROVE  ~g[m.at].isSpanned
<1>1. m.at \in DOMAIN g /\ m.at \in Position /\ Covers(m, m.at)
  BY CornerInside DEF GoodGrid
<1>2. ASSUME g[m.at].isSpanned
      PROVE  FALSE
  <2>1. PICK n \in M : Covers(n, m.at) /\ n.at # m.at
    BY <1>1, <1>2 DEF GoodGrid, Carries
  <2>. QED
    BY <1>1, <2>1 DEF GoodGrid, Sound
<1>. QED
  BY <1>2

LEMMA ShownMerges ==
    ASSUME NEW g, NEW M, NEW R \in Nat, NEW C \in Nat, GoodGrid(g, M, R, C)
    PROVE  gridToMerges(g) = M
<1>1. ASSUME NEW m \in M
      PROVE  m \in gridToMerges(g)
  <2>1. m.at \in DOMAIN g /\ m \in MergeRec /\ m.span # <<1, 1>>
    BY CornerInside DEF GoodGrid, Sound
  <2>2. g[m.at].span = m.span /\ ~g[m.at].isSpanned
    BY <2>1, CornersFree DEF GoodGrid, Carries
  <2>3. m = [at |-> m.at, span |-> g[m.at].span]
    BY <2>1, <2>2 DEF MergeRec
  <2>. QED
    BY <2>1, <2>2, <2>3 DEF gridToMerges
<1>2. ASSUME NEW m \in gridToMerges(g)
      PROVE  m \in M
  <2>1. PICK p \in DOMAIN g : /\ ~g[p].isSpanned /\ g[p].span # <<1, 1>>
                              /\ m = [at |-> p, span |-> g[p].span]
    BY <1>2 DEF gridToMerges
  <2>2. PICK n \in M : n.at = p
    BY <2>1 DEF GoodGrid, Carries
  <2>3. n \in MergeRec /\ g[p].span = n.span
    BY <2>1, <2>2 DEF GoodGrid, Sound, Carries
  <2>4. n = m
    BY <2>1, <2>2, <2>3 DEF MergeRec
  <2>. QED
    BY <2>4
<1>. QED
  BY <1>1, <1>2

\* Rebuilding the marks from a sound list makes a grid that carries it.
LEMMA ApplyCarries ==
    ASSUME NEW g, NEW M, NEW R \in Nat, NEW C \in Nat, Sound(M, R, C),
           DOMAIN g = Cells(R, C), \A p \in DOMAIN g : CellShape(g[p])
    PROVE  GoodGrid(applyMergesToGrid(g, M), M, R, C)
<1>. DEFINE h == applyMergesToGrid(g, M)
            Over(p) == {m \in M : Covers(m, p) /\ m.at # p}
            Leads(p) == {m \in M : m.at = p}
<1>1. DOMAIN h = Cells(R, C)
  BY DEF applyMergesToGrid
<1>2. ASSUME NEW p \in DOMAIN g, Over(p) # {}
      PROVE  /\ CellShape(h[p])
             /\ h[p].span = <<1, 1>> /\ h[p].isSpanned
             /\ \E m \in Over(p) : h[p].spanOrigin = m.at
  <2>. DEFINE o == CHOOSE m \in Over(p) : TRUE
  <2>1. h[p] = [g[p] EXCEPT !.span = <<1, 1>>, !.isSpanned = TRUE, !.spanOrigin = o.at]
    BY <1>2 DEF applyMergesToGrid
  <2>2. o \in Over(p)
    BY <1>2
  <2>3. CellShape(g[p])
    OBVIOUS
  <2>4. o.at \in Position
    BY <2>2 DEF Sound, MergeRec
  <2>. HIDE DEF o, h
  <2>5. h[p].span = <<1, 1>> /\ h[p].isSpanned /\ h[p].spanOrigin = o.at
    BY <2>1, <2>3 DEF CellShape
  <2>6. <<1, 1>> \in SpanPair
    BY DEF SpanPair
  <2>7. CellShape(h[p])
    BY <2>1, <2>3, <2>4, <2>5, <2>6 DEF CellShape
  <2>. QED
    BY <2>2, <2>5, <2>7
<1>3. ASSUME NEW p \in DOMAIN g, Over(p) = {}
      PROVE  /\ CellShape(h[p]) /\ ~h[p].isSpanned
             /\ Leads(p) = {} => h[p].span = <<1, 1>>
             /\ \A m \in Leads(p) : h[p].span = m.span
  <2>. DEFINE o == CHOOSE m \in Leads(p) : TRUE
              sp == IF Leads(p) = {} THEN <<1, 1>> ELSE o.span
  <2>1. h[p] = [g[p] EXCEPT !.span = sp, !.isSpanned = FALSE, !.spanOrigin = NoOrigin]
    BY <1>3 DEF applyMergesToGrid
  <2>2. CellShape(g[p])
    OBVIOUS
  <2>3. \A m \in Leads(p) : m = o
    <3>1. ASSUME NEW m \in Leads(p)
          PROVE  m = o
      <4>1. o \in Leads(p)
        OBVIOUS
      <4>2. m \in M /\ o \in M /\ m.at = p /\ o.at = p
        BY <4>1
      <4>3. Covers(m, p) /\ Covers(o, p) /\ p \in Position
        BY <4>2, CornerInside
      <4>. QED
        BY <4>2, <4>3 DEF Sound
    <3>. QED
      BY <3>1
  <2>4. sp \in SpanPair
    <3>1. CASE Leads(p) = {}
      BY <3>1 DEF SpanPair
    <3>2. CASE Leads(p) # {}
      <4>1. o \in M
        BY <3>2
      <4>2. o.span \in SpanPair
        BY <4>1 DEF Sound, MergeRec
      <4>. QED
        BY <3>2, <4>2
    <3>. QED
      BY <3>1, <3>2
  <2>5. /\ Leads(p) = {} => sp = <<1, 1>>
        /\ \A m \in Leads(p) : sp = m.span
    BY <2>3
  <2>. HIDE DEF sp, h, o
  <2>6. h[p].span = sp /\ ~h[p].isSpanned /\ h[p].isSpanned \in BOOLEAN
    BY <2>1, <2>2 DEF CellShape
  <2>7. CellShape(h[p])
    BY <2>1, <2>2, <2>4 DEF CellShape
  <2>. QED
    BY <2>5, <2>6, <2>7
<1>. HIDE DEF h
<1>4. ASSUME NEW m \in M, m.at \in DOMAIN h
      PROVE  h[m.at].span = m.span
  <2>1. Over(m.at) = {}
    <3>1. ASSUME NEW n \in Over(m.at)
          PROVE  FALSE
      <4>1. Covers(m, m.at) /\ m.at \in Position /\ n \in M /\ Covers(n, m.at) /\ n.at # m.at
        BY <3>1, CornerInside
      <4>. QED
        BY <4>1 DEF Sound
    <3>. QED
      BY <3>1
  <2>. QED
    BY <1>1, <1>3, <1>4, <2>1
<1>5. Carries(h, M)
  <2>1. ASSUME NEW p \in DOMAIN h, \A m \in M : m.at # p
        PROVE  h[p].span = <<1, 1>>
    BY <1>1, <1>2, <1>3, <2>1
  <2>2. ASSUME NEW p \in DOMAIN h, h[p].isSpanned
        PROVE  \E m \in M : Covers(m, p) /\ m.at # p /\ h[p].spanOrigin = m.at
    BY <1>1, <1>2, <1>3, <2>2
  <2>3. ASSUME NEW p \in DOMAIN h, NEW m \in M, Covers(m, p) /\ m.at # p
        PROVE  h[p].isSpanned
    BY <1>1, <1>2, <2>3
  <2>. QED
    BY <1>4, <2>1, <2>2, <2>3 DEF Carries
<1>6. \A p \in DOMAIN h : CellShape(h[p])
  BY <1>1, <1>2, <1>3
<1>. QED
  BY <1>1, <1>5, <1>6 DEF GoodGrid, h

-----------------------------------------------------------------------------
(* Rows and columns alike: facts along an axis and across it.              *)

LEMMA PairEqual ==
    ASSUME NEW x \in Int \X Int, NEW y \in Int \X Int, NEW axis \in 1 .. 2,
           x[axis] = y[axis], x[3 - axis] = y[3 - axis]
    PROVE  x = y
OBVIOUS

LEMMA MovedPosition ==
    ASSUME NEW p \in Position, NEW axis \in 1 .. 2
    PROVE  /\ Moved(p, axis, 1) \in Position
           /\ p[axis] > 0 => Moved(p, axis, -1) \in Position
BY DEF Moved, Position

LEMMA MovedBack ==
    ASSUME NEW p \in Position, NEW axis \in 1 .. 2, NEW i \in Nat, p[axis] > i
    PROVE  Moved(p, axis, -1) \in Position
BY DEF Moved, Position

LEMMA PairType ==
    ASSUME NEW p \in Position, NEW s \in SpanPair, NEW axis \in 1 .. 2
    PROVE  /\ p \in Int \X Int /\ p[axis] \in Nat /\ p[3 - axis] \in Nat
           /\ s \in Int \X Int /\ s[axis] \in Nat \ {0} /\ s[3 - axis] \in Nat \ {0}
BY DEF Position, SpanPair

LEMMA CoversAxis ==
    ASSUME NEW m \in MergeRec, NEW p \in Position, NEW axis \in 1 .. 2
    PROVE  Covers(m, p) <=>
              /\ m.at[axis] <= p[axis] /\ p[axis] < m.at[axis] + m.span[axis]
              /\ m.at[3 - axis] <= p[3 - axis]
              /\ p[3 - axis] < m.at[3 - axis] + m.span[3 - axis]
BY DEF Covers

LEMMA CellsAxis ==
    ASSUME NEW size \in Nat \X Nat, NEW p \in Position, NEW axis \in 1 .. 2
    PROVE  p \in Cells(size[1], size[2]) <=>
              p[axis] < size[axis] /\ p[3 - axis] < size[3 - axis]
BY DEF Cells, Position

LEMMA InsideAxis ==
    ASSUME NEW size \in Nat \X Nat, NEW m \in MergeRec, NEW axis \in 1 .. 2
    PROVE  (m.at[1] + m.span[1] <= size[1] /\ m.at[2] + m.span[2] <= size[2]) <=>
              /\ m.at[axis] + m.span[axis] <= size[axis]
              /\ m.at[3 - axis] + m.span[3 - axis] <= size[3 - axis]
OBVIOUS

LEMMA PlainSpan ==
    ASSUME NEW s \in SpanPair, NEW axis \in 1 .. 2
    PROVE  s = <<1, 1>> <=> s[axis] = 1 /\ s[3 - axis] = 1
BY DEF SpanPair

\* A cell whose span along an axis and whose mark are rewritten.
Rewritten(c, axis, n, o) == [c EXCEPT !.span[axis] = n, !.spanOrigin = o]

LEMMA CellChange ==
    ASSUME NEW c, CellShape(c), NEW axis \in 1 .. 2, NEW n \in Nat \ {0}, NEW o,
           c.isSpanned => o \in Position,
           NEW d, d = Rewritten(c, axis, n, o)
    PROVE  /\ CellShape(d)
           /\ d.isSpanned = c.isSpanned
           /\ d.span[axis] = n /\ d.span[3 - axis] = c.span[3 - axis]
           /\ d.spanOrigin = o
<1>1. [c.span EXCEPT ![axis] = n] \in SpanPair
  BY DEF CellShape, SpanPair
<1>2. /\ [c.span EXCEPT ![axis] = n][axis] = n
      /\ [c.span EXCEPT ![axis] = n][3 - axis] = c.span[3 - axis]
  BY DEF CellShape, SpanPair
<1>3. /\ d.span = [c.span EXCEPT ![axis] = n]
      /\ d.spanOrigin = o /\ d.isSpanned = c.isSpanned
  BY DEF CellShape, Rewritten
<1>4. d = [content |-> d.content, isHeader |-> d.isHeader, span |-> d.span,
           isSpanned |-> d.isSpanned, spanOrigin |-> d.spanOrigin,
           mergeSnapshot |-> d.mergeSnapshot]
  BY DEF CellShape, Rewritten
<1>. QED
  BY <1>1, <1>2, <1>3, <1>4 DEF CellShape

LEMMA SingleShape ==
    ASSUME NEW text, NEW h
    PROVE  /\ CellShape(Single(text, h))
           /\ Single(text, h).span = <<1, 1>> /\ ~Single(text, h).isSpanned
BY DEF CellShape, Single, SpanPair

-----------------------------------------------------------------------------
(* Insertion: the merges below the new line move, those it cuts grow.      *)

OpenMerge(m, axis, i) ==
    IF m.at[axis] >= i THEN [at |-> Moved(m.at, axis, 1), span |-> m.span]
    ELSE IF m.at[axis] + m.span[axis] > i THEN [at |-> m.at, span |-> Moved(m.span, axis, 1)]
    ELSE m

OpenAll(M, axis, i) == {OpenMerge(m, axis, i) : m \in M}

LEMMA OpenMergeShape ==
    ASSUME NEW m \in MergeRec, NEW axis \in 1 .. 2, NEW i \in Nat
    PROVE  LET o == OpenMerge(m, axis, i)
           IN  /\ o \in MergeRec
               /\ o.at[3 - axis] = m.at[3 - axis] /\ o.span[3 - axis] = m.span[3 - axis]
               /\ m.at[axis] >= i => o.at[axis] = m.at[axis] + 1 /\ o.span = m.span
               /\ m.at[axis] < i => o.at = m.at
               /\ m.at[axis] < i /\ m.at[axis] + m.span[axis] > i =>
                     o.span[axis] = m.span[axis] + 1
               /\ m.at[axis] < i /\ m.at[axis] + m.span[axis] <= i => o.span = m.span
               /\ o.at \in Int \X Int /\ o.span \in Int \X Int
<1>. DEFINE o == OpenMerge(m, axis, i)
<1>1. m.at \in Position /\ m.span \in SpanPair /\ m = [at |-> m.at, span |-> m.span]
  BY DEF MergeRec
<1>2. /\ m.at[axis] \in Nat /\ m.span[axis] \in Nat \ {0}
      /\ m.at \in Int \X Int /\ m.span \in Int \X Int
      /\ m.at[3 - axis] \in Nat /\ m.span[3 - axis] \in Nat \ {0}
  BY <1>1, PairType
<1>3. /\ Moved(m.at, axis, 1) \in Position /\ Moved(m.span, axis, 1) \in SpanPair
  BY <1>1 DEF Moved, Position, SpanPair
<1>4. /\ Moved(m.at, axis, 1)[axis] = m.at[axis] + 1
      /\ Moved(m.at, axis, 1)[3 - axis] = m.at[3 - axis]
      /\ Moved(m.span, axis, 1)[axis] = m.span[axis] + 1
      /\ Moved(m.span, axis, 1)[3 - axis] = m.span[3 - axis]
  BY <1>2 DEF Moved
<1>5. o \in MergeRec
  BY <1>1, <1>3 DEF OpenMerge, MergeRec
<1>6. o.at \in Int \X Int /\ o.span \in Int \X Int
  BY <1>5 DEF MergeRec, Position, SpanPair
<1>. QED
  BY <1>1, <1>2, <1>4, <1>5, <1>6 DEF OpenMerge

\* What a moved or grown merge covers is what it covered, one line further.
LEMMA OpenCovers ==
    ASSUME NEW m \in MergeRec, NEW axis \in 1 .. 2, NEW i \in Nat, NEW p \in Position,
           NEW o, o = OpenMerge(m, axis, i), Covers(o, p),
           NEW q, q = IF p[axis] > i THEN Moved(p, axis, -1) ELSE p
    PROVE  q \in Position /\ Covers(m, q)
<1>1. m.at \in Position /\ m.span \in SpanPair
  BY DEF MergeRec
<1>2. /\ m.at[axis] \in Nat /\ m.span[axis] \in Nat \ {0}
      /\ m.at[3 - axis] \in Nat /\ m.span[3 - axis] \in Nat \ {0}
      /\ p[axis] \in Nat /\ p[3 - axis] \in Nat /\ p \in Int \X Int
  BY <1>1, PairType
<1>3. /\ q[axis] = IF p[axis] > i THEN p[axis] - 1 ELSE p[axis]
      /\ q[3 - axis] = p[3 - axis]
  BY <1>2 DEF Moved
<1>4. q \in Position
  BY <1>2 DEF Moved, Position
<1>5. /\ o.at[3 - axis] = m.at[3 - axis] /\ o.span[3 - axis] = m.span[3 - axis]
      /\ m.at[axis] >= i => o.at[axis] = m.at[axis] + 1 /\ o.span[axis] = m.span[axis]
      /\ m.at[axis] < i => o.at[axis] = m.at[axis]
      /\ m.at[axis] < i /\ m.at[axis] + m.span[axis] > i => o.span[axis] = m.span[axis] + 1
      /\ m.at[axis] < i /\ m.at[axis] + m.span[axis] <= i => o.span[axis] = m.span[axis]
      /\ o \in MergeRec
  BY OpenMergeShape
<1>6. /\ o.at[axis] <= p[axis] /\ p[axis] < o.at[axis] + o.span[axis]
      /\ o.at[3 - axis] <= p[3 - axis] /\ p[3 - axis] < o.at[3 - axis] + o.span[3 - axis]
  BY <1>5, CoversAxis
<1>. HIDE DEF Covers
<1>7. /\ m.at[axis] <= q[axis] /\ q[axis] < m.at[axis] + m.span[axis]
      /\ m.at[3 - axis] <= q[3 - axis] /\ q[3 - axis] < m.at[3 - axis] + m.span[3 - axis]
  BY <1>2, <1>3, <1>5, <1>6
<1>. QED
  BY <1>4, <1>7, CoversAxis

LEMMA OpenSound ==
    ASSUME NEW M, NEW size \in Nat \X Nat, Sound(M, size[1], size[2]),
           NEW axis \in 1 .. 2, NEW i \in 0 .. size[axis],
           NEW next \in Nat \X Nat, next[axis] = size[axis] + 1,
           next[3 - axis] = size[3 - axis]
    PROVE  Sound(OpenAll(M, axis, i), next[1], next[2])
<1>0. i \in Nat
  OBVIOUS
<1>1. ASSUME NEW o \in OpenAll(M, axis, i)
      PROVE  /\ o \in MergeRec /\ o.span # <<1, 1>>
             /\ o.at[1] + o.span[1] <= next[1] /\ o.at[2] + o.span[2] <= next[2]
  <2>1. PICK m \in M : o = OpenMerge(m, axis, i)
    BY DEF OpenAll
  <2>2. /\ m \in MergeRec /\ m.span # <<1, 1>>
        /\ m.at[1] + m.span[1] <= size[1] /\ m.at[2] + m.span[2] <= size[2]
    BY DEF Sound
  <2>3. /\ m.at[axis] + m.span[axis] <= size[axis]
        /\ m.at[3 - axis] + m.span[3 - axis] <= size[3 - axis]
    BY <2>2, InsideAxis
  <2>4. m.at \in Position /\ m.span \in SpanPair
    BY <2>2 DEF MergeRec
  <2>5. /\ m.at[axis] \in Nat /\ m.span[axis] \in Nat \ {0}
        /\ m.at[3 - axis] \in Nat /\ m.span[3 - axis] \in Nat \ {0}
        /\ size[axis] \in Nat /\ size[3 - axis] \in Nat
    BY <2>4, PairType DEF Position
  <2>6. /\ o \in MergeRec
        /\ o.at[3 - axis] = m.at[3 - axis] /\ o.span[3 - axis] = m.span[3 - axis]
        /\ m.at[axis] >= i => o.at[axis] = m.at[axis] + 1 /\ o.span = m.span
        /\ m.at[axis] < i => o.at = m.at
        /\ m.at[axis] < i /\ m.at[axis] + m.span[axis] > i => o.span[axis] = m.span[axis] + 1
        /\ m.at[axis] < i /\ m.at[axis] + m.span[axis] <= i => o.span = m.span
    BY <1>0, <2>1, <2>2, OpenMergeShape
  <2>7. o.span # <<1, 1>>
    <3>1. o.span \in SpanPair
      BY <2>6 DEF MergeRec
    <3>. QED
      BY <2>2, <2>4, <2>5, <2>6, <3>1, PlainSpan
  <2>8. o.at[axis] + o.span[axis] <= next[axis] /\ o.at[3 - axis] + o.span[3 - axis] <= next[3 - axis]
    BY <2>3, <2>5, <2>6
  <2>. QED
    BY <2>6, <2>7, <2>8, InsideAxis
<1>2. ASSUME NEW o \in OpenAll(M, axis, i), NEW u \in OpenAll(M, axis, i),
             NEW p \in Position, Covers(o, p), Covers(u, p)
      PROVE  o = u
  <2>1. PICK m \in M : o = OpenMerge(m, axis, i)
    BY DEF OpenAll
  <2>2. PICK n \in M : u = OpenMerge(n, axis, i)
    BY DEF OpenAll
  <2>. DEFINE q == IF p[axis] > i THEN Moved(p, axis, -1) ELSE p
  <2>3. m \in MergeRec /\ n \in MergeRec
    BY DEF Sound
  <2>4. q \in Position /\ Covers(m, q) /\ Covers(n, q)
    BY <1>0, <1>2, <2>1, <2>2, <2>3, OpenCovers
  <2>5. m = n
    BY <2>4 DEF Sound
  <2>. QED
    BY <2>1, <2>2, <2>5
<1>. QED
  BY <1>1, <1>2 DEF Sound

LEMMA SizeWithAxis ==
    ASSUME rows \in Nat \ {0}, cols \in Nat \ {0}, NEW axis \in 1 .. 2, NEW by \in {-1, 1}
    PROVE  /\ SizeWith(axis, by) \in Nat \X Nat
           /\ SizeWith(axis, by)[axis] = <<rows, cols>>[axis] + by
           /\ SizeWith(axis, by)[3 - axis] = <<rows, cols>>[3 - axis]
BY DEF SizeWith

\* The cells of the grid with a new line, seen from the old ones.
LEMMA OpenedCells ==
    ASSUME IInv, NEW axis \in 1 .. 2, NEW i \in 0 .. <<rows, cols>>[axis], NEW headers,
           NEW p \in DOMAIN Opened(axis, i, headers), NEW c, c = Opened(axis, i, headers)[p],
           NEW q, q = IF p[axis] > i THEN Moved(p, axis, -1) ELSE p
    PROVE  /\ CellShape(c) /\ p \in Position
           /\ p[axis] = i => ~c.isSpanned /\ c.span = <<1, 1>>
           /\ p[axis] # i =>
                 /\ q \in DOMAIN grid /\ q \in Position
                 /\ q[axis] = IF p[axis] > i THEN p[axis] - 1 ELSE p[axis]
                 /\ q[3 - axis] = p[3 - axis]
                 /\ c.isSpanned = grid[q].isSpanned
                 /\ c.span[3 - axis] = grid[q].span[3 - axis]
                 /\ c.span[axis] =
                       IF ~grid[q].isSpanned /\ p[axis] < i /\ p[axis] + grid[q].span[axis] > i
                       THEN grid[q].span[axis] + 1 ELSE grid[q].span[axis]
<1>. DEFINE size == SizeWith(axis, 1)
            now == <<rows, cols>>
<1>1. rows \in Nat \ {0} /\ cols \in Nat \ {0}
  BY LimitsAssumption DEF IInv
<1>2. /\ size \in Nat \X Nat /\ now \in Nat \X Nat
      /\ size[axis] = now[axis] + 1 /\ size[3 - axis] = now[3 - axis]
  BY <1>1, SizeWithAxis
<1>3. p \in Cells(size[1], size[2])
  BY DEF Opened
<1>. HIDE DEF size, now
<1>4. p \in Position
  BY <1>2, <1>3, CellsArePositions
<1>5. p[axis] < size[axis] /\ p[3 - axis] < size[3 - axis]
  BY <1>2, <1>3, <1>4, CellsAxis
<1>6. p[axis] \in Nat /\ p[3 - axis] \in Nat /\ i \in Nat /\ now[axis] \in Nat /\ i <= now[axis]
  BY <1>2, <1>4, PairType DEF Position, now
<1>7. CASE p[axis] = i
  <2>1. c = Single(<<>>, p[1] \in headers)
    BY <1>3, <1>7 DEF Opened, size
  <2>. QED
    BY <1>4, <1>7, <2>1, SingleShape
<1>8. CASE p[axis] # i
  <2>1. p \in Int \X Int
    BY <1>4 DEF Position
  <2>2. /\ q[axis] = IF p[axis] > i THEN p[axis] - 1 ELSE p[axis]
        /\ q[3 - axis] = p[3 - axis]
    BY <2>1, <1>6 DEF Moved
  <2>3. q \in Position
    BY <1>4, <1>6 DEF Moved, Position
  <2>4. q[axis] < now[axis] /\ q[3 - axis] < now[3 - axis]
    BY <1>2, <1>5, <1>6, <1>8, <2>2
  <2>5. q \in DOMAIN grid
    <3>1. q \in Cells(now[1], now[2])
      BY <1>2, <2>3, <2>4, CellsAxis
    <3>. QED
      BY <3>1 DEF IInv, GoodGrid, now
  <2>. DEFINE old == grid[q]
              cut == ~old.isSpanned /\ p[axis] < i /\ p[axis] + old.span[axis] > i
              shifted == old.isSpanned /\ old.spanOrigin[axis] >= i
              n == IF cut THEN old.span[axis] + 1 ELSE old.span[axis]
              o == IF shifted THEN Moved(old.spanOrigin, axis, 1) ELSE old.spanOrigin
  <2>6. c = Rewritten(old, axis, n, o)
    BY <1>3, <1>8 DEF Opened, Rewritten, size
  <2>7. CellShape(old)
    BY <2>5 DEF IInv, GoodGrid
  <2>8. old.span[axis] \in Nat \ {0}
    BY <2>7, PairType, <1>4 DEF CellShape
  <2>9. ASSUME old.isSpanned
        PROVE  o \in Position
    <3>1. old.spanOrigin \in Position
      BY <2>7, <2>9 DEF CellShape
    <3>2. Moved(old.spanOrigin, axis, 1) \in Position
      BY <3>1, MovedPosition
    <3>. QED
      BY <3>1, <3>2
  <2>10. n \in Nat \ {0}
    BY <2>8
  <2>. HIDE DEF n, o
  <2>11. /\ CellShape(c) /\ c.isSpanned = old.isSpanned
         /\ c.span[axis] = n /\ c.span[3 - axis] = old.span[3 - axis]
    BY <2>6, <2>7, <2>9, <2>10, CellChange
  <2>. QED
    BY <1>4, <1>8, <2>2, <2>3, <2>5, <2>11 DEF n
<1>. QED
  BY <1>7, <1>8

\* The list the grid with a new line shows is the old one with each merge
\* moved or grown.
LEMMA OpenedMerges ==
    ASSUME IInv, NEW axis \in 1 .. 2, NEW i \in 0 .. <<rows, cols>>[axis], NEW headers
    PROVE  gridToMerges(Opened(axis, i, headers)) = OpenAll(gridToMerges(grid), axis, i)
<1>. DEFINE g == Opened(axis, i, headers)
            M == gridToMerges(grid)
            size == SizeWith(axis, 1)
            now == <<rows, cols>>
<1>1. rows \in Nat \ {0} /\ cols \in Nat \ {0}
  BY LimitsAssumption DEF IInv
<1>2. /\ size \in Nat \X Nat /\ now \in Nat \X Nat
      /\ size[axis] = now[axis] + 1 /\ size[3 - axis] = now[3 - axis]
  BY <1>1, SizeWithAxis
<1>3. DOMAIN g = Cells(size[1], size[2])
  BY DEF Opened
<1>4. DOMAIN grid = Cells(now[1], now[2]) /\ Sound(M, now[1], now[2])
  BY DEF IInv, GoodGrid
<1>. HIDE DEF size, now
<1>5. i \in Nat /\ i <= now[axis] /\ now[axis] \in Nat /\ now[3 - axis] \in Nat
  BY <1>2 DEF now
<1>6. ASSUME NEW m \in M
      PROVE  OpenMerge(m, axis, i) \in gridToMerges(g)
  <2>. DEFINE u == OpenMerge(m, axis, i)
              p == u.at
              q == IF p[axis] > i THEN Moved(p, axis, -1) ELSE p
  <2>1. PICK r \in DOMAIN grid : /\ ~grid[r].isSpanned /\ grid[r].span # <<1, 1>>
                                 /\ m = [at |-> r, span |-> grid[r].span]
    BY DEF gridToMerges
  <2>2. m \in MergeRec /\ r \in Position /\ m.at = r /\ m.span = grid[r].span
    BY <1>2, <1>4, <2>1, CellsArePositions DEF Sound
  <2>3. /\ r[axis] \in Nat /\ r[3 - axis] \in Nat /\ r \in Int \X Int
        /\ m.span[axis] \in Nat \ {0} /\ m.span[3 - axis] \in Nat \ {0}
        /\ m.span \in SpanPair
    BY <2>2, PairType DEF MergeRec
  <2>4. r[axis] < now[axis] /\ r[3 - axis] < now[3 - axis]
    BY <1>2, <1>4, <2>1, <2>2, CellsAxis
  <2>5. /\ u \in MergeRec
        /\ u.at[3 - axis] = r[3 - axis] /\ u.span[3 - axis] = m.span[3 - axis]
        /\ r[axis] >= i => u.at[axis] = r[axis] + 1 /\ u.span = m.span
        /\ r[axis] < i => u.at = r
        /\ r[axis] < i /\ r[axis] + m.span[axis] > i => u.span[axis] = m.span[axis] + 1
        /\ r[axis] < i /\ r[axis] + m.span[axis] <= i => u.span = m.span
    BY <1>5, <2>2, OpenMergeShape
  <2>. HIDE DEF u
  <2>6. p \in Position /\ u.span \in SpanPair /\ p \in Int \X Int
    BY <2>5 DEF MergeRec, Position
  <2>7. p \in DOMAIN g
    <3>1. p[axis] < size[axis] /\ p[3 - axis] < size[3 - axis]
      BY <1>2, <1>5, <2>3, <2>4, <2>5
    <3>. QED
      BY <1>2, <1>3, <2>6, <3>1, CellsAxis
  <2>8. p[axis] # i
    BY <1>5, <2>3, <2>5
  <2>9. /\ q[axis] = IF p[axis] > i THEN p[axis] - 1 ELSE p[axis]
        /\ q[3 - axis] = p[3 - axis] /\ q \in Position
        /\ CellShape(g[p])
        /\ g[p].isSpanned = grid[q].isSpanned
        /\ g[p].span[3 - axis] = grid[q].span[3 - axis]
        /\ g[p].span[axis] =
              IF ~grid[q].isSpanned /\ p[axis] < i /\ p[axis] + grid[q].span[axis] > i
              THEN grid[q].span[axis] + 1 ELSE grid[q].span[axis]
    BY <2>7, <2>8, OpenedCells
  <2>. HIDE DEF p, q, g
  <2>10. q[axis] = r[axis] /\ q[3 - axis] = r[3 - axis]
    BY <1>5, <2>3, <2>5, <2>9 DEF p
  <2>11. q = r
    <3>1. q \in Int \X Int
      BY <2>9 DEF Position
    <3>. QED
      BY <2>3, <2>10, <3>1, PairEqual
  <2>12. ~g[p].isSpanned
    BY <2>1, <2>9, <2>11
  <2>13. g[p].span[3 - axis] = u.span[3 - axis] /\ g[p].span[axis] = u.span[axis]
    <3>1. CASE r[axis] >= i
      BY <1>5, <2>1, <2>2, <2>3, <2>5, <2>9, <2>11, <3>1 DEF p
    <3>2. CASE r[axis] < i
      BY <1>5, <2>1, <2>2, <2>3, <2>5, <2>9, <2>11, <3>2 DEF p
    <3>. QED
      BY <1>5, <2>3, <3>1, <3>2
  <2>14. g[p].span = u.span
    <3>1. g[p].span \in Int \X Int /\ u.span \in Int \X Int
      BY <2>6, <2>9 DEF CellShape, SpanPair
    <3>. QED
      BY <2>13, <3>1, PairEqual
  <2>15. u.span # <<1, 1>>
    BY <2>1, <2>2, <2>3, <2>5, <2>6, PlainSpan
  <2>16. u = [at |-> p, span |-> g[p].span]
    BY <2>5, <2>14 DEF MergeRec, p
  <2>. QED
    BY <2>7, <2>12, <2>14, <2>15, <2>16 DEF gridToMerges, u, g
<1>7. ASSUME NEW x \in gridToMerges(g)
      PROVE  \E m \in M : x = OpenMerge(m, axis, i)
  <2>1. PICK p \in DOMAIN g : /\ ~g[p].isSpanned /\ g[p].span # <<1, 1>>
                              /\ x = [at |-> p, span |-> g[p].span]
    BY <1>7 DEF gridToMerges
  <2>. DEFINE q == IF p[axis] > i THEN Moved(p, axis, -1) ELSE p
  <2>2. p[axis] # i
    BY <2>1, OpenedCells
  <2>3. /\ q \in DOMAIN grid /\ q \in Position /\ p \in Position
        /\ q[axis] = IF p[axis] > i THEN p[axis] - 1 ELSE p[axis]
        /\ q[3 - axis] = p[3 - axis]
        /\ CellShape(g[p])
        /\ g[p].isSpanned = grid[q].isSpanned
        /\ g[p].span[3 - axis] = grid[q].span[3 - axis]
        /\ g[p].span[axis] =
              IF ~grid[q].isSpanned /\ p[axis] < i /\ p[axis] + grid[q].span[axis] > i
              THEN grid[q].span[axis] + 1 ELSE grid[q].span[axis]
    BY <2>2, OpenedCells
  <2>. HIDE DEF q, g
  <2>4. g[p].span \in SpanPair /\ grid[q].span \in SpanPair
    BY <2>3 DEF IInv, GoodGrid, CellShape
  <2>5. /\ grid[q].span[axis] \in Nat \ {0} /\ grid[q].span[3 - axis] \in Nat \ {0}
        /\ q[axis] \in Nat /\ p[axis] \in Nat /\ p[3 - axis] \in Nat
    BY <2>3, <2>4, PairType
  <2>6. grid[q].span # <<1, 1>>
    BY <1>5, <2>1, <2>3, <2>4, <2>5, PlainSpan
  <2>. DEFINE m == [at |-> q, span |-> grid[q].span]
              u == OpenMerge(m, axis, i)
  <2>7. m \in M /\ m \in MergeRec /\ m.at = q /\ m.span = grid[q].span
    BY <2>1, <2>3, <2>4, <2>6 DEF gridToMerges, MergeRec
  <2>8. /\ u \in MergeRec
        /\ u.at[3 - axis] = q[3 - axis] /\ u.span[3 - axis] = m.span[3 - axis]
        /\ q[axis] >= i => u.at[axis] = q[axis] + 1 /\ u.span = m.span
        /\ q[axis] < i => u.at = q
        /\ q[axis] < i /\ q[axis] + m.span[axis] > i => u.span[axis] = m.span[axis] + 1
        /\ q[axis] < i /\ q[axis] + m.span[axis] <= i => u.span = m.span
        /\ u.at \in Int \X Int /\ u.span \in Int \X Int
    BY <1>5, <2>7, OpenMergeShape
  <2>. HIDE DEF u, m
  <2>9. u.at[axis] = p[axis] /\ u.at[3 - axis] = p[3 - axis]
    BY <1>5, <2>2, <2>3, <2>5, <2>8
  <2>10. u.span[axis] = g[p].span[axis] /\ u.span[3 - axis] = g[p].span[3 - axis]
    BY <1>5, <2>1, <2>2, <2>3, <2>5, <2>7, <2>8
  <2>11. p \in Int \X Int /\ g[p].span \in Int \X Int
    BY <2>3, <2>4 DEF Position, SpanPair
  <2>12. u.at = p /\ u.span = g[p].span
    BY <2>8, <2>9, <2>10, <2>11, PairEqual
  <2>13. x = u
    BY <2>1, <2>8, <2>12 DEF MergeRec
  <2>. QED
    BY <2>7, <2>13 DEF u
<1>. QED
  BY <1>6, <1>7 DEF OpenAll

\* An inserted row or column keeps the grid good and the list true to it.
LEMMA InsertedGood ==
    ASSUME IInv, NEW axis \in 1 .. 2, NEW i \in 0 .. <<rows, cols>>[axis], NEW headers
    PROVE  GoodGrid(Inserted(axis, i, headers), OpenAll(gridToMerges(grid), axis, i),
                    SizeWith(axis, 1)[1], SizeWith(axis, 1)[2])
<1>. DEFINE g == Opened(axis, i, headers)
            M == OpenAll(gridToMerges(grid), axis, i)
            size == SizeWith(axis, 1)
            now == <<rows, cols>>
<1>1. rows \in Nat \ {0} /\ cols \in Nat \ {0}
  BY LimitsAssumption DEF IInv
<1>2. /\ size \in Nat \X Nat /\ now \in Nat \X Nat
      /\ size[axis] = now[axis] + 1 /\ size[3 - axis] = now[3 - axis]
  BY <1>1, SizeWithAxis
<1>3. DOMAIN g = Cells(size[1], size[2])
  BY DEF Opened
<1>4. Sound(gridToMerges(grid), now[1], now[2])
  BY DEF IInv, GoodGrid
<1>5. \A p \in DOMAIN g : CellShape(g[p])
  BY OpenedCells
<1>6. i \in 0 .. now[axis]
  OBVIOUS
<1>. HIDE DEF size, now
<1>7. Sound(M, size[1], size[2])
  BY <1>2, <1>4, <1>6, OpenSound
<1>8. Inserted(axis, i, headers) = applyMergesToGrid(g, M)
  BY OpenedMerges DEF Inserted
<1>9. size[1] \in Nat /\ size[2] \in Nat
  BY <1>2
<1>. HIDE DEF g, M
<1>10. GoodGrid(applyMergesToGrid(g, M), M, size[1], size[2])
  BY <1>3, <1>5, <1>7, <1>9, ApplyCarries
<1>. QED
  BY <1>8, <1>10 DEF size, M

-----------------------------------------------------------------------------
(* Deletion of a line no merge reaches: the merges below it move up.       *)

CloseMerge(m, axis, i) ==
    IF m.at[axis] > i THEN [at |-> Moved(m.at, axis, -1), span |-> m.span] ELSE m

CloseAll(M, axis, i) == {CloseMerge(m, axis, i) : m \in M}

\* The merge has no part of line i.
Clear(m, axis, i) == i < m.at[axis] \/ m.at[axis] + m.span[axis] <= i

\* Where a cell of the smaller grid was before the line went.
Before(p, axis, i) == IF p[axis] >= i THEN Moved(p, axis, 1) ELSE p

LEMMA BeforeAt ==
    ASSUME NEW p \in Position, NEW axis \in 1 .. 2, NEW i \in Nat
    PROVE  /\ Before(p, axis, i) \in Position
           /\ Before(p, axis, i)[axis] = IF p[axis] >= i THEN p[axis] + 1 ELSE p[axis]
           /\ Before(p, axis, i)[3 - axis] = p[3 - axis]
<1>1. Moved(p, axis, 1) \in Position
  BY MovedPosition
<1>2. Moved(p, axis, 1)[axis] = p[axis] + 1 /\ Moved(p, axis, 1)[3 - axis] = p[3 - axis]
  BY DEF Moved, Position
<1>. QED
  BY <1>1, <1>2 DEF Before

LEMMA CloseMergeShape ==
    ASSUME NEW m \in MergeRec, NEW axis \in 1 .. 2, NEW i \in Nat
    PROVE  LET o == CloseMerge(m, axis, i)
           IN  /\ o \in MergeRec /\ o.span = m.span
               /\ o.at[3 - axis] = m.at[3 - axis]
               /\ m.at[axis] > i => o.at[axis] = m.at[axis] - 1 /\ o.at = Moved(m.at, axis, -1)
               /\ m.at[axis] <= i => o.at = m.at
<1>. DEFINE o == CloseMerge(m, axis, i)
<1>1. m.at \in Position /\ m.span \in SpanPair /\ m = [at |-> m.at, span |-> m.span]
  BY DEF MergeRec
<1>2. m.at[axis] \in Nat /\ m.at \in Int \X Int
  BY <1>1, PairType
<1>3. m.at[axis] > i => Moved(m.at, axis, -1) \in Position
  BY <1>1, <1>2, MovedPosition
<1>4. /\ Moved(m.at, axis, -1)[axis] = m.at[axis] - 1
      /\ Moved(m.at, axis, -1)[3 - axis] = m.at[3 - axis]
  BY <1>2 DEF Moved
<1>5. o \in MergeRec
  BY <1>1, <1>3 DEF CloseMerge, MergeRec
<1>. QED
  BY <1>1, <1>2, <1>4, <1>5 DEF CloseMerge

\* A merge the line does not reach covers and starts at the same cells.
LEMMA CloseCovers ==
    ASSUME NEW m \in MergeRec, NEW axis \in 1 .. 2, NEW i \in Nat, NEW p \in Position,
           Clear(m, axis, i)
    PROVE  /\ Covers(CloseMerge(m, axis, i), p) <=> Covers(m, Before(p, axis, i))
           /\ CloseMerge(m, axis, i).at = p <=> m.at = Before(p, axis, i)
<1>. DEFINE o == CloseMerge(m, axis, i)
            q == Before(p, axis, i)
<1>1. m.at \in Position /\ m.span \in SpanPair
  BY DEF MergeRec
<1>2. /\ m.at[axis] \in Nat /\ m.span[axis] \in Nat \ {0}
      /\ m.at[3 - axis] \in Nat /\ m.span[3 - axis] \in Nat \ {0}
      /\ p[axis] \in Nat /\ p[3 - axis] \in Nat /\ p \in Int \X Int
      /\ m.at \in Int \X Int
  BY <1>1, PairType
<1>3. /\ q \in Position
      /\ q[axis] = IF p[axis] >= i THEN p[axis] + 1 ELSE p[axis]
      /\ q[3 - axis] = p[3 - axis]
  BY BeforeAt
<1>4. /\ o \in MergeRec /\ o.span = m.span
      /\ o.at[3 - axis] = m.at[3 - axis]
      /\ m.at[axis] > i => o.at[axis] = m.at[axis] - 1
      /\ m.at[axis] <= i => o.at = m.at
  BY CloseMergeShape
<1>5. q \in Int \X Int /\ o.at \in Int \X Int /\ o.at[axis] \in Int
  BY <1>2, <1>3, <1>4 DEF Position, MergeRec
<1>. HIDE DEF o, q
<1>6. i < m.at[axis] \/ m.at[axis] + m.span[axis] <= i
  BY DEF Clear
<1>7. Covers(o, p) <=>
        /\ o.at[axis] <= p[axis] /\ p[axis] < o.at[axis] + m.span[axis]
        /\ o.at[3 - axis] <= p[3 - axis] /\ p[3 - axis] < o.at[3 - axis] + m.span[3 - axis]
  BY <1>4, CoversAxis
<1>8. Covers(m, q) <=>
        /\ m.at[axis] <= q[axis] /\ q[axis] < m.at[axis] + m.span[axis]
        /\ m.at[3 - axis] <= q[3 - axis] /\ q[3 - axis] < m.at[3 - axis] + m.span[3 - axis]
  BY <1>3, CoversAxis
<1>9. Covers(o, p) <=> Covers(m, q)
  <2>1. CASE m.at[axis] > i
    BY <1>2, <1>3, <1>4, <1>7, <1>8, <2>1
  <2>2. CASE ~(m.at[axis] > i)
    BY <1>2, <1>3, <1>4, <1>6, <1>7, <1>8, <2>2
  <2>. QED
    BY <2>1, <2>2
<1>10. o.at[axis] = p[axis] /\ o.at[3 - axis] = p[3 - axis] <=>
       m.at[axis] = q[axis] /\ m.at[3 - axis] = q[3 - axis]
  BY <1>2, <1>3, <1>4, <1>6
<1>11. o.at = p <=> m.at = q
  BY <1>2, <1>5, <1>10, PairEqual
<1>. QED
  BY <1>9, <1>11 DEF o, q

LEMMA CloseSound ==
    ASSUME NEW M, NEW size \in Nat \X Nat, Sound(M, size[1], size[2]),
           NEW axis \in 1 .. 2, NEW i \in 0 .. size[axis] - 1,
           \A m \in M : Clear(m, axis, i),
           NEW next \in Nat \X Nat, next[axis] = size[axis] - 1,
           next[3 - axis] = size[3 - axis]
    PROVE  Sound(CloseAll(M, axis, i), next[1], next[2])
<1>0. i \in Nat
  OBVIOUS
<1>1. ASSUME NEW o \in CloseAll(M, axis, i)
      PROVE  /\ o \in MergeRec /\ o.span # <<1, 1>>
             /\ o.at[1] + o.span[1] <= next[1] /\ o.at[2] + o.span[2] <= next[2]
  <2>1. PICK m \in M : o = CloseMerge(m, axis, i)
    BY DEF CloseAll
  <2>2. /\ m \in MergeRec /\ m.span # <<1, 1>>
        /\ m.at[1] + m.span[1] <= size[1] /\ m.at[2] + m.span[2] <= size[2]
    BY DEF Sound
  <2>3. /\ m.at[axis] + m.span[axis] <= size[axis]
        /\ m.at[3 - axis] + m.span[3 - axis] <= size[3 - axis]
    BY <2>2, InsideAxis
  <2>4. m.at \in Position /\ m.span \in SpanPair
    BY <2>2 DEF MergeRec
  <2>5. /\ m.at[axis] \in Nat /\ m.span[axis] \in Nat \ {0}
        /\ m.at[3 - axis] \in Nat /\ m.span[3 - axis] \in Nat \ {0}
        /\ size[axis] \in Nat /\ size[3 - axis] \in Nat
    BY <2>4, PairType DEF Position
  <2>6. /\ o \in MergeRec /\ o.span = m.span
        /\ o.at[3 - axis] = m.at[3 - axis]
        /\ m.at[axis] > i => o.at[axis] = m.at[axis] - 1
        /\ m.at[axis] <= i => o.at = m.at
    BY <1>0, <2>1, <2>2, CloseMergeShape
  <2>7. i < m.at[axis] \/ m.at[axis] + m.span[axis] <= i
    BY DEF Clear
  <2>8. o.at[axis] + o.span[axis] <= next[axis]
    BY <2>3, <2>5, <2>6, <2>7
  <2>9. o.at[3 - axis] + o.span[3 - axis] <= next[3 - axis]
    BY <2>3, <2>5, <2>6
  <2>. QED
    BY <2>2, <2>6, <2>8, <2>9, InsideAxis
<1>2. ASSUME NEW o \in CloseAll(M, axis, i), NEW u \in CloseAll(M, axis, i),
             NEW p \in Position, Covers(o, p), Covers(u, p)
      PROVE  o = u
  <2>1. PICK m \in M : o = CloseMerge(m, axis, i)
    BY DEF CloseAll
  <2>2. PICK n \in M : u = CloseMerge(n, axis, i)
    BY DEF CloseAll
  <2>3. m \in MergeRec /\ n \in MergeRec
    BY DEF Sound
  <2>4. Before(p, axis, i) \in Position
    BY <1>0, BeforeAt
  <2>5. Covers(m, Before(p, axis, i)) /\ Covers(n, Before(p, axis, i))
    BY <1>0, <1>2, <2>1, <2>2, <2>3, CloseCovers
  <2>6. m = n
    BY <2>4, <2>5 DEF Sound
  <2>. QED
    BY <2>1, <2>2, <2>6
<1>. QED
  BY <1>1, <1>2 DEF Sound

\* The strict test of the menu sees every merge that has a part of the line.
LEMMA StrictClear ==
    ASSUME IInv, NEW axis \in 1 .. 2, NEW i \in Nat, ~_hasAnyMergedCellsStrict(axis, i)
    PROVE  /\ \A m \in gridToMerges(grid) : Clear(m, axis, i)
           /\ \A q \in DOMAIN grid :
                 ~(/\ ~grid[q].isSpanned /\ q[axis] < i
                   /\ q[axis] + grid[q].span[axis] > i)
<1>1. ASSUME NEW q \in DOMAIN grid, ~grid[q].isSpanned, q[axis] < i,
             q[axis] + grid[q].span[axis] > i
      PROVE  FALSE
  <2>1. q \in Position /\ grid[q].span \in SpanPair
    BY CellsArePositions, LimitsAssumption DEF IInv, GoodGrid, CellShape
  <2>2. q[axis] \in Nat /\ grid[q].span[axis] \in Nat \ {0}
    BY <2>1, PairType
  <2>3. grid[q].span[axis] > 1 /\ q[axis] <= i /\ i < q[axis] + grid[q].span[axis]
    BY <1>1, <2>2
  <2>4. q \in Reaching(axis, i)
    BY <1>1, <2>3 DEF Reaching
  <2>. QED
    BY <2>4 DEF _hasAnyMergedCellsStrict
<1>2. ASSUME NEW m \in gridToMerges(grid)
      PROVE  Clear(m, axis, i)
  <2>1. PICK q \in DOMAIN grid : /\ ~grid[q].isSpanned /\ grid[q].span # <<1, 1>>
                                 /\ m = [at |-> q, span |-> grid[q].span]
    BY DEF gridToMerges
  <2>2. q \in Position /\ grid[q].span \in SpanPair
    BY CellsArePositions, LimitsAssumption DEF IInv, GoodGrid, CellShape
  <2>3. q[axis] \in Nat /\ grid[q].span[axis] \in Nat \ {0}
    BY <2>2, PairType
  <2>4. q[axis] # i
    BY <2>1 DEF _hasAnyMergedCellsStrict
  <2>5. ~(q[axis] < i /\ q[axis] + grid[q].span[axis] > i)
    BY <1>1, <2>1
  <2>. QED
    BY <2>1, <2>3, <2>4, <2>5 DEF Clear
<1>. QED
  BY <1>1, <1>2

\* The cells of the grid without the line, seen from the old ones.
LEMMA RemovedCells ==
    ASSUME IInv, NEW axis \in 1 .. 2, NEW i \in 0 .. <<rows, cols>>[axis] - 1,
           ~_hasAnyMergedCellsStrict(axis, i),
           NEW p \in DOMAIN Removed(axis, i), NEW c, c = Removed(axis, i)[p],
           NEW q, q = Before(p, axis, i)
    PROVE  /\ CellShape(c) /\ p \in Position
           /\ q \in DOMAIN grid /\ q \in Position
           /\ c.isSpanned = grid[q].isSpanned
           /\ c.span = grid[q].span
           /\ c.spanOrigin = IF grid[q].isSpanned /\ grid[q].spanOrigin[axis] > i
                             THEN Moved(grid[q].spanOrigin, axis, -1)
                             ELSE grid[q].spanOrigin
<1>. DEFINE size == SizeWith(axis, -1)
            now == <<rows, cols>>
<1>1. rows \in Nat \ {0} /\ cols \in Nat \ {0}
  BY LimitsAssumption DEF IInv
<1>2. /\ now \in Nat \X Nat /\ now[axis] \in Nat \ {0} /\ now[3 - axis] \in Nat \ {0}
      /\ size[axis] = now[axis] - 1 /\ size[3 - axis] = now[3 - axis]
      /\ size \in Nat \X Nat
  BY <1>1 DEF SizeWith
<1>3. p \in Cells(size[1], size[2])
  BY DEF Removed
<1>. HIDE DEF size, now
<1>4. p \in Position
  BY <1>2, <1>3, CellsArePositions
<1>5. p[axis] < size[axis] /\ p[3 - axis] < size[3 - axis]
  BY <1>2, <1>3, <1>4, CellsAxis
<1>6. p[axis] \in Nat /\ p[3 - axis] \in Nat /\ i \in Nat
  BY <1>2, <1>4 DEF Position, now
<1>7. /\ q[axis] = IF p[axis] >= i THEN p[axis] + 1 ELSE p[axis]
      /\ q[3 - axis] = p[3 - axis] /\ q \in Position
  BY <1>4, <1>6, BeforeAt
<1>8. q \in DOMAIN grid
  <2>1. q[axis] < now[axis] /\ q[3 - axis] < now[3 - axis]
    BY <1>2, <1>5, <1>6, <1>7
  <2>2. q \in Cells(now[1], now[2])
    BY <1>2, <1>7, <2>1, CellsAxis
  <2>. QED
    BY <2>2 DEF IInv, GoodGrid, now
<1>. DEFINE old == grid[q]
            spans == ~old.isSpanned /\ p[axis] < i /\ p[axis] + old.span[axis] > i
            n == IF spans THEN Max({1, old.span[axis] - 1}) ELSE old.span[axis]
            o == IF old.isSpanned /\ old.spanOrigin[axis] > i
                 THEN Moved(old.spanOrigin, axis, -1) ELSE old.spanOrigin
<1>9. c = Rewritten(old, axis, n, o)
  BY <1>3 DEF Removed, Rewritten, Before, size
<1>10. CellShape(old)
  BY <1>8 DEF IInv, GoodGrid
<1>11. old.span \in SpanPair /\ old.span[axis] \in Nat \ {0} /\ old.span[3 - axis] \in Nat \ {0}
  BY <1>4, <1>10, PairType DEF CellShape
<1>12. ~spans
  <2>1. p[axis] < i => q[axis] = p[axis]
    BY <1>6, <1>7
  <2>. QED
    BY <1>6, <1>8, <2>1, StrictClear
<1>12a. n = old.span[axis]
  BY <1>12
<1>13. n \in Nat \ {0}
  BY <1>11, <1>12a
<1>14. ASSUME old.isSpanned
       PROVE  o \in Position
  <2>1. old.spanOrigin \in Position
    BY <1>10, <1>14 DEF CellShape
  <2>2. old.spanOrigin[axis] > i => Moved(old.spanOrigin, axis, -1) \in Position
    BY <1>6, <2>1, MovedBack
  <2>. QED
    BY <2>1, <2>2
<1>. HIDE DEF n, o, old, spans
<1>15. /\ CellShape(c) /\ c.isSpanned = old.isSpanned
       /\ c.span[axis] = n /\ c.span[3 - axis] = old.span[3 - axis]
       /\ c.spanOrigin = o
  BY <1>9, <1>10, <1>13, <1>14, CellChange
<1>16. c.span = old.span
  <2>1. c.span \in Int \X Int /\ old.span \in Int \X Int
    BY <1>11, <1>15 DEF CellShape, SpanPair
  <2>. QED
    BY <1>12a, <1>15, <2>1, PairEqual DEF old
<1>. QED
  BY <1>4, <1>7, <1>8, <1>15, <1>16 DEF o, old

LEMMA RemovedGood ==
    ASSUME IInv, NEW axis \in 1 .. 2, NEW i \in 0 .. <<rows, cols>>[axis] - 1,
           ~_hasAnyMergedCellsStrict(axis, i)
    PROVE  GoodGrid(Removed(axis, i), CloseAll(gridToMerges(grid), axis, i),
                    SizeWith(axis, -1)[1], SizeWith(axis, -1)[2])
<1>. DEFINE g == Removed(axis, i)
            M == gridToMerges(grid)
            N == CloseAll(M, axis, i)
            size == SizeWith(axis, -1)
            now == <<rows, cols>>
<1>1. rows \in Nat \ {0} /\ cols \in Nat \ {0}
  BY LimitsAssumption DEF IInv
<1>2. /\ now \in Nat \X Nat
      /\ size[axis] = now[axis] - 1 /\ size[3 - axis] = now[3 - axis]
      /\ size \in Nat \X Nat
  BY <1>1 DEF SizeWith
<1>3. DOMAIN g = Cells(size[1], size[2])
  BY DEF Removed
<1>4. Sound(M, now[1], now[2]) /\ Carries(grid, M)
  BY DEF IInv, GoodGrid
<1>5. i \in 0 .. now[axis] - 1 /\ i \in Nat
  <2>1. now[axis] \in Nat
    BY <1>2
  <2>. QED
    BY <2>1
<1>6. \A m \in M : Clear(m, axis, i)
  BY <1>5, StrictClear
<1>7. ASSUME NEW p \in DOMAIN g
      PROVE  LET q == Before(p, axis, i)
             IN  /\ CellShape(g[p]) /\ p \in Position
                 /\ q \in DOMAIN grid /\ q \in Position
                 /\ g[p].isSpanned = grid[q].isSpanned
                 /\ g[p].span = grid[q].span
                 /\ g[p].spanOrigin = IF grid[q].isSpanned /\ grid[q].spanOrigin[axis] > i
                                      THEN Moved(grid[q].spanOrigin, axis, -1)
                                      ELSE grid[q].spanOrigin
  BY RemovedCells
<1>. HIDE DEF size, now, M, g
<1>8. Sound(N, size[1], size[2])
  BY <1>2, <1>4, <1>5, <1>6, CloseSound
<1>9. ASSUME NEW m \in M
      PROVE  m \in MergeRec /\ m.at \in Position /\ m.span \in SpanPair /\ m.at[axis] \in Nat
  <2>1. m \in MergeRec
    BY <1>4 DEF Sound
  <2>2. m.at \in Position /\ m.span \in SpanPair
    BY <2>1 DEF MergeRec
  <2>. QED
    BY <2>1, <2>2, PairType
<1>10. ASSUME NEW m \in M, CloseMerge(m, axis, i).at \in DOMAIN g
       PROVE  g[CloseMerge(m, axis, i).at].span = CloseMerge(m, axis, i).span
  <2>. DEFINE p == CloseMerge(m, axis, i).at
  <2>1. m.at = Before(p, axis, i)
    BY <1>5, <1>6, <1>7, <1>9, <1>10, CloseCovers
  <2>2. g[p].span = grid[m.at].span /\ m.at \in DOMAIN grid
    BY <1>7, <1>10, <2>1
  <2>3. CloseMerge(m, axis, i).span = m.span
    BY <1>5, <1>9, CloseMergeShape
  <2>. QED
    BY <1>4, <2>2, <2>3 DEF Carries
<1>11. ASSUME NEW p \in DOMAIN g, \A m \in M : CloseMerge(m, axis, i).at # p
       PROVE  g[p].span = <<1, 1>>
  <2>1. \A m \in M : m.at # Before(p, axis, i)
    BY <1>5, <1>6, <1>7, <1>9, <1>11, CloseCovers
  <2>. QED
    BY <1>4, <1>7, <2>1 DEF Carries
<1>12. ASSUME NEW p \in DOMAIN g, g[p].isSpanned
       PROVE  \E m \in M : /\ Covers(CloseMerge(m, axis, i), p)
                           /\ CloseMerge(m, axis, i).at # p
                           /\ g[p].spanOrigin = CloseMerge(m, axis, i).at
  <2>. DEFINE q == Before(p, axis, i)
  <2>1. grid[q].isSpanned /\ q \in DOMAIN grid
    BY <1>7, <1>12
  <2>2. PICK m \in M : Covers(m, q) /\ m.at # q /\ grid[q].spanOrigin = m.at
    BY <1>4, <2>1 DEF Carries
  <2>3. Covers(CloseMerge(m, axis, i), p) /\ CloseMerge(m, axis, i).at # p
    BY <1>5, <1>6, <1>7, <1>9, <2>2, CloseCovers
  <2>4. /\ m.at[axis] > i => CloseMerge(m, axis, i).at = Moved(m.at, axis, -1)
        /\ m.at[axis] <= i => CloseMerge(m, axis, i).at = m.at
    BY <1>5, <1>9, CloseMergeShape
  <2>5. g[p].spanOrigin = IF m.at[axis] > i THEN Moved(m.at, axis, -1) ELSE m.at
    BY <1>7, <2>1, <2>2
  <2>6. g[p].spanOrigin = CloseMerge(m, axis, i).at
    BY <1>5, <1>9, <2>4, <2>5
  <2>. QED
    BY <2>3, <2>6
<1>13. ASSUME NEW p \in DOMAIN g, NEW m \in M, Covers(CloseMerge(m, axis, i), p),
              CloseMerge(m, axis, i).at # p
       PROVE  g[p].isSpanned
  <2>. DEFINE q == Before(p, axis, i)
  <2>1. Covers(m, q) /\ m.at # q
    BY <1>5, <1>6, <1>7, <1>9, <1>13, CloseCovers
  <2>. QED
    BY <1>4, <1>7, <2>1 DEF Carries
<1>14. Carries(g, N)
  BY <1>10, <1>11, <1>12, <1>13 DEF Carries, CloseAll
<1>. QED
  BY <1>3, <1>7, <1>8, <1>14 DEF GoodGrid, size, g, M

-----------------------------------------------------------------------------
(* Operations that leave the lines alone.                                  *)

\* Rewriting texts keeps the grid good.
LEMMA SameMarks ==
    ASSUME NEW g, NEW h, NEW M, NEW R, NEW C, GoodGrid(g, M, R, C),
           DOMAIN h = DOMAIN g,
           \A p \in DOMAIN g : /\ CellShape(h[p])
                               /\ h[p].span = g[p].span
                               /\ h[p].isSpanned = g[p].isSpanned
                               /\ h[p].spanOrigin = g[p].spanOrigin
    PROVE  GoodGrid(h, M, R, C)
<1>1. Carries(h, M)
  <2>1. \A m \in M : m.at \in DOMAIN h => h[m.at].span = m.span
    BY DEF GoodGrid, Carries
  <2>2. \A p \in DOMAIN h : (\A m \in M : m.at # p) => h[p].span = <<1, 1>>
    BY DEF GoodGrid, Carries
  <2>3. ASSUME NEW p \in DOMAIN h, h[p].isSpanned
        PROVE  \E m \in M : Covers(m, p) /\ m.at # p /\ h[p].spanOrigin = m.at
    BY <2>3 DEF GoodGrid, Carries
  <2>4. \A p \in DOMAIN h : \A m \in M : Covers(m, p) /\ m.at # p => h[p].isSpanned
    BY DEF GoodGrid, Carries
  <2>. QED
    BY <2>1, <2>2, <2>3, <2>4 DEF Carries
<1>. QED
  BY <1>1 DEF GoodGrid

\* The rectangle from lo to hi as a merge.
AreaMerge(lo, hi) == [at |-> lo, span |-> <<hi[1] - lo[1] + 1, hi[2] - lo[2] + 1>>]

LEMMA AreaMergeShape ==
    ASSUME NEW lo \in Position, NEW hi \in Position, lo[1] <= hi[1], lo[2] <= hi[2], lo # hi
    PROVE  /\ AreaMerge(lo, hi) \in MergeRec
           /\ AreaMerge(lo, hi).at = lo
           /\ AreaMerge(lo, hi).span = <<hi[1] - lo[1] + 1, hi[2] - lo[2] + 1>>
           /\ AreaMerge(lo, hi).span # <<1, 1>>
           /\ AreaMerge(lo, hi).at[1] + AreaMerge(lo, hi).span[1] = hi[1] + 1
           /\ AreaMerge(lo, hi).at[2] + AreaMerge(lo, hi).span[2] = hi[2] + 1
           /\ \A p \in Position : Covers(AreaMerge(lo, hi), p) <=>
                 lo[1] <= p[1] /\ p[1] <= hi[1] /\ lo[2] <= p[2] /\ p[2] <= hi[2]
<1>. DEFINE m == AreaMerge(lo, hi)
<1>1. /\ lo[1] \in Nat /\ lo[2] \in Nat /\ hi[1] \in Nat /\ hi[2] \in Nat
      /\ lo = <<lo[1], lo[2]>> /\ hi = <<hi[1], hi[2]>>
  BY DEF Position
<1>2. m.at = lo /\ m.span = <<hi[1] - lo[1] + 1, hi[2] - lo[2] + 1>>
  BY DEF AreaMerge
<1>3. hi[1] - lo[1] + 1 \in Nat \ {0} /\ hi[2] - lo[2] + 1 \in Nat \ {0}
  BY <1>1
<1>4. m \in MergeRec
  BY <1>3 DEF AreaMerge, MergeRec, SpanPair
<1>5. m.span # <<1, 1>>
  <2>1. SUFFICES ASSUME m.span = <<1, 1>>
                 PROVE  FALSE
    OBVIOUS
  <2>2. hi[1] - lo[1] + 1 = 1 /\ hi[2] - lo[2] + 1 = 1
    BY <1>2, <2>1
  <2>. QED
    BY <1>1, <2>2
<1>6. m.at[1] + m.span[1] = hi[1] + 1 /\ m.at[2] + m.span[2] = hi[2] + 1
  BY <1>1, <1>2
<1>. HIDE DEF m
<1>7. ASSUME NEW p \in Position
      PROVE  Covers(m, p) <=>
               lo[1] <= p[1] /\ p[1] <= hi[1] /\ lo[2] <= p[2] /\ p[2] <= hi[2]
  <2>1. p[1] \in Nat /\ p[2] \in Nat
    BY DEF Position
  <2>2. Covers(m, p) <=> /\ m.at[1] <= p[1] /\ p[1] < m.at[1] + m.span[1]
                         /\ m.at[2] <= p[2] /\ p[2] < m.at[2] + m.span[2]
    BY <1>4, CoversAt
  <2>. QED
    BY <1>1, <1>2, <1>6, <2>1, <2>2
<1>. QED
  BY <1>2, <1>4, <1>5, <1>6, <1>7 DEF m

\* Merging an area no merge touches adds its rectangle to the list.
LEMMA MergedGood ==
    ASSUME IInv, NEW lo \in DOMAIN grid, NEW hi \in DOMAIN grid,
           lo[1] <= hi[1], lo[2] <= hi[2], lo # hi,
           \A p \in Area(lo, hi) : ~grid[p].isSpanned /\ grid[p].span = <<1, 1>>
    PROVE  /\ GoodGrid(mergeRange(lo, hi), gridToMerges(grid) \cup {AreaMerge(lo, hi)},
                       rows, cols)
           /\ \A m \in gridToMerges(grid) : \A p \in Position :
                 ~(Covers(m, p) /\ Covers(AreaMerge(lo, hi), p))
<1>. DEFINE M == gridToMerges(grid)
            n == AreaMerge(lo, hi)
            N == M \cup {n}
            g == mergeRange(lo, hi)
<1>1. /\ rows \in Nat \ {0} /\ cols \in Nat \ {0} /\ DOMAIN grid = Cells(rows, cols)
      /\ Sound(M, rows, cols) /\ Carries(grid, M)
      /\ \A p \in DOMAIN grid : CellShape(grid[p])
  BY LimitsAssumption DEF IInv, GoodGrid
<1>2. DOMAIN grid \subseteq Position
  BY <1>1, CellsArePositions
<1>3. /\ n \in MergeRec /\ n.at = lo /\ n.span # <<1, 1>>
      /\ n.span = <<hi[1] - lo[1] + 1, hi[2] - lo[2] + 1>>
      /\ n.at[1] + n.span[1] = hi[1] + 1 /\ n.at[2] + n.span[2] = hi[2] + 1
      /\ \A p \in Position : Covers(n, p) <=>
            lo[1] <= p[1] /\ p[1] <= hi[1] /\ lo[2] <= p[2] /\ p[2] <= hi[2]
  BY <1>2, AreaMergeShape
<1>4. \A p \in DOMAIN grid : p \in Area(lo, hi) <=> Covers(n, p)
  BY <1>2, <1>3 DEF Area
<1>5. lo \in Area(lo, hi) /\ lo \in DOMAIN grid
  <2>1. lo[1] \in Nat /\ lo[2] \in Nat
    BY <1>2 DEF Position
  <2>. QED
    BY <2>1 DEF Area
<1>6. hi[1] \in 0 .. rows - 1 /\ hi[2] \in 0 .. cols - 1
  BY <1>1, CellsType
<1>7. ASSUME NEW p \in Position, Covers(n, p)
      PROVE  p \in Area(lo, hi) /\ p \in DOMAIN grid
  <2>1. p[1] <= hi[1] /\ p[2] <= hi[2] /\ p = <<p[1], p[2]>> /\ p[1] \in Nat /\ p[2] \in Nat
    BY <1>3, <1>7 DEF Position
  <2>2. p[1] \in 0 .. rows - 1 /\ p[2] \in 0 .. cols - 1
    BY <1>1, <1>6, <2>1
  <2>3. p \in DOMAIN grid
    BY <1>1, <2>1, <2>2 DEF Cells
  <2>. QED
    BY <1>4, <1>7, <2>3
<1>. HIDE DEF n, M, g
<1>8. ASSUME NEW m \in M, NEW p \in Position, Covers(m, p), Covers(n, p)
      PROVE  FALSE
  <2>1. p \in Area(lo, hi) /\ p \in DOMAIN grid /\ ~grid[p].isSpanned /\ grid[p].span = <<1, 1>>
    BY <1>7, <1>8
  <2>2. CASE m.at = p
    <3>1. grid[p].span = m.span /\ m.span # <<1, 1>>
      BY <1>1, <2>1, <2>2 DEF Carries, Sound
    <3>. QED
      BY <2>1, <3>1
  <2>3. CASE m.at # p
    BY <1>1, <1>8, <2>1, <2>3 DEF Carries
  <2>. QED
    BY <2>2, <2>3
<1>9. Sound(N, rows, cols)
  <2>1. n.at[1] + n.span[1] <= rows /\ n.at[2] + n.span[2] <= cols
    BY <1>1, <1>3, <1>6
  <2>2. \A m \in N : /\ m \in MergeRec /\ m.span # <<1, 1>>
                     /\ m.at[1] + m.span[1] <= rows /\ m.at[2] + m.span[2] <= cols
    BY <1>1, <1>3, <2>1 DEF Sound
  <2>3. \A m, k \in N : \A p \in Position : Covers(m, p) /\ Covers(k, p) => m = k
    BY <1>1, <1>8 DEF Sound
  <2>. QED
    BY <2>2, <2>3 DEF Sound
<1>10. DOMAIN g = DOMAIN grid
  BY DEF mergeRange, g
<1>11. CellShape(g[lo]) /\ g[lo].span = n.span /\ ~g[lo].isSpanned
  <2>. DEFINE contents == [r \in 1 .. hi[1] - lo[1] + 1 |-> [c \in 1 .. hi[2] - lo[2] + 1 |->
                             grid[<<lo[1] + r - 1, lo[2] + c - 1>>].content]]
              joined == FlattenSeq([r \in DOMAIN contents |-> FlattenSeq(contents[r])])
              snap == [joined |-> joined, contents |-> contents]
              sp == <<hi[1] - lo[1] + 1, hi[2] - lo[2] + 1>>
  <2>1. g[lo] = [grid[lo] EXCEPT !.content = joined, !.span = sp, !.mergeSnapshot = snap]
    BY DEF mergeRange, g
  <2>. HIDE DEF snap, joined, sp
  <2>2. CellShape(grid[lo]) /\ ~grid[lo].isSpanned
    BY <1>1, <1>5
  <2>3. n.span = sp /\ sp \in SpanPair
    BY <1>3 DEF sp, MergeRec
  <2>. QED
    BY <2>1, <2>2, <2>3 DEF CellShape
<1>12. ASSUME NEW p \in Area(lo, hi), p # lo
       PROVE  /\ CellShape(g[p]) /\ g[p].span = <<1, 1>>
              /\ g[p].isSpanned /\ g[p].spanOrigin = lo
  <2>1. g[p] = [Single(<<>>, FALSE) EXCEPT !.isSpanned = TRUE, !.spanOrigin = lo]
    BY <1>12 DEF mergeRange, Area, g
  <2>2. lo \in Position
    BY <1>2
  <2>3. <<1, 1>> \in SpanPair
    BY DEF SpanPair
  <2>. QED
    BY <2>1, <2>2, <2>3 DEF Single, CellShape
<1>13. ASSUME NEW p \in DOMAIN grid, p \notin Area(lo, hi)
       PROVE  g[p] = grid[p] /\ CellShape(g[p])
  BY <1>1, <1>5, <1>13 DEF mergeRange, g
<1>14. ASSUME NEW m \in M
       PROVE  m.at \in DOMAIN grid /\ m.at \in Position /\ m.at \notin Area(lo, hi)
  <2>1. m.at \in DOMAIN grid /\ m.at \in Position /\ Covers(m, m.at)
    BY <1>1, CornerInside
  <2>. QED
    BY <1>4, <1>8, <2>1
<1>15. Carries(g, N)
  <2>1. ASSUME NEW m \in N
        PROVE  g[m.at].span = m.span
    BY <1>1, <1>3, <1>11, <1>13, <1>14 DEF Carries
  <2>2. ASSUME NEW p \in DOMAIN g, \A m \in N : m.at # p
        PROVE  g[p].span = <<1, 1>>
    <3>1. CASE p \in Area(lo, hi)
      BY <1>3, <1>12, <2>2, <3>1
    <3>2. CASE p \notin Area(lo, hi)
      BY <1>1, <1>10, <1>13, <2>2, <3>2 DEF Carries
    <3>. QED
      BY <3>1, <3>2
  <2>3. ASSUME NEW p \in DOMAIN g, g[p].isSpanned
        PROVE  \E m \in N : Covers(m, p) /\ m.at # p /\ g[p].spanOrigin = m.at
    <3>1. CASE p \in Area(lo, hi)
      <4>1. p # lo
        BY <1>11, <2>3
      <4>2. Covers(n, p) /\ g[p].spanOrigin = lo
        BY <1>4, <1>10, <1>12, <3>1, <4>1
      <4>. QED
        BY <1>3, <4>1, <4>2
    <3>2. CASE p \notin Area(lo, hi)
      BY <1>1, <1>10, <1>13, <2>3, <3>2 DEF Carries
    <3>. QED
      BY <3>1, <3>2
  <2>4. ASSUME NEW p \in DOMAIN g, NEW m \in N, Covers(m, p), m.at # p
        PROVE  g[p].isSpanned
    <3>1. CASE m = n
      <4>1. p \in Area(lo, hi) /\ p # lo
        BY <1>3, <1>4, <1>10, <2>4, <3>1
      <4>. QED
        BY <1>12, <4>1
    <3>2. CASE m \in M
      <4>1. p \notin Area(lo, hi)
        BY <1>2, <1>4, <1>8, <1>10, <2>4, <3>2
      <4>. QED
        BY <1>1, <1>10, <1>13, <2>4, <3>2, <4>1 DEF Carries
    <3>. QED
      BY <3>1, <3>2
  <2>. QED
    BY <2>1, <2>2, <2>3, <2>4 DEF Carries
<1>16. \A p \in DOMAIN g : CellShape(g[p])
  BY <1>10, <1>11, <1>12, <1>13
<1>17. GoodGrid(g, N, rows, cols)
  BY <1>1, <1>9, <1>10, <1>15, <1>16 DEF GoodGrid
<1>. QED
  BY <1>8, <1>17 DEF g, n, M

\* The merge a visible cell with a span shows.
LeadMerge(p) == [at |-> p, span |-> grid[p].span]

\* Separating a merge takes it from the list and nothing else.
LEMMA UnmergedGood ==
    ASSUME IInv, NEW at \in DOMAIN grid, ~grid[at].isSpanned, grid[at].span # <<1, 1>>
    PROVE  /\ LeadMerge(at) \in gridToMerges(grid)
           /\ GoodGrid(unmergeAt(at), gridToMerges(grid) \ {LeadMerge(at)}, rows, cols)
<1>. DEFINE M == gridToMerges(grid)
            n == LeadMerge(at)
            N == M \ {n}
            g == unmergeAt(at)
<1>1. /\ rows \in Nat \ {0} /\ cols \in Nat \ {0} /\ DOMAIN grid = Cells(rows, cols)
      /\ Sound(M, rows, cols) /\ Carries(grid, M)
      /\ \A p \in DOMAIN grid : CellShape(grid[p])
  BY LimitsAssumption DEF IInv, GoodGrid
<1>2. DOMAIN grid \subseteq Position
  BY <1>1, CellsArePositions
<1>3. n \in M /\ n.at = at
  BY DEF gridToMerges, LeadMerge
<1>4. DOMAIN g = DOMAIN grid
  BY DEF unmergeAt
<1>5. ASSUME NEW p \in DOMAIN grid, Covers(n, p)
      PROVE  \E text, h : g[p] = Single(text, h)
  <2>. DEFINE old == grid[at].mergeSnapshot.contents
              r == p[1] - at[1] + 1
              c == p[2] - at[2] + 1
              kept == IF r \in DOMAIN old THEN IF c \in DOMAIN old[r] THEN old[r][c] ELSE <<>>
                      ELSE <<>>
  <2>1. g[p] = IF canRestore(grid[at]) THEN Single(kept, grid[at].isHeader)
               ELSE Single(IF p = at THEN grid[at].content ELSE <<>>, grid[at].isHeader)
    BY <1>5 DEF unmergeAt, LeadMerge
  <2>. QED
    BY <2>1
<1>6. ASSUME NEW p \in DOMAIN grid, ~Covers(n, p)
      PROVE  g[p] = grid[p]
  BY <1>6 DEF unmergeAt, LeadMerge
<1>. HIDE DEF n, M, g
<1>7. ASSUME NEW p \in DOMAIN grid, Covers(n, p)
      PROVE  CellShape(g[p]) /\ g[p].span = <<1, 1>> /\ ~g[p].isSpanned
  BY <1>5, <1>7, SingleShape
<1>8. ASSUME NEW m \in N, NEW p \in Position, Covers(m, p)
      PROVE  ~Covers(n, p)
  BY <1>1, <1>3, <1>8 DEF Sound
<1>9. Covers(n, at)
  BY <1>1, <1>3, CornerInside
<1>10. Sound(N, rows, cols)
  BY <1>1 DEF Sound
<1>11. Carries(g, N)
  <2>1. ASSUME NEW m \in N
        PROVE  g[m.at].span = m.span
    <3>1. m.at \in DOMAIN grid /\ m.at \in Position /\ Covers(m, m.at)
      BY <1>1, CornerInside
    <3>2. g[m.at] = grid[m.at]
      BY <1>6, <1>8, <3>1
    <3>. QED
      BY <1>1, <3>1, <3>2 DEF Carries
  <2>2. ASSUME NEW p \in DOMAIN g, \A m \in N : m.at # p
        PROVE  g[p].span = <<1, 1>>
    <3>1. CASE Covers(n, p)
      BY <1>4, <1>7, <3>1
    <3>2. CASE ~Covers(n, p)
      <4>1. \A m \in M : m.at # p
        BY <1>3, <1>9, <2>2, <3>2
      <4>. QED
        BY <1>1, <1>4, <1>6, <3>2, <4>1 DEF Carries
    <3>. QED
      BY <3>1, <3>2
  <2>3. ASSUME NEW p \in DOMAIN g, g[p].isSpanned
        PROVE  \E m \in N : Covers(m, p) /\ m.at # p /\ g[p].spanOrigin = m.at
    <3>1. ~Covers(n, p)
      BY <1>4, <1>7, <2>3
    <3>2. g[p] = grid[p]
      BY <1>4, <1>6, <3>1
    <3>3. PICK m \in M : Covers(m, p) /\ m.at # p /\ g[p].spanOrigin = m.at
      BY <1>1, <1>4, <2>3, <3>2 DEF Carries
    <3>. QED
      BY <3>1, <3>3
  <2>4. ASSUME NEW p \in DOMAIN g, NEW m \in N, Covers(m, p), m.at # p
        PROVE  g[p].isSpanned
    <3>1. g[p] = grid[p]
      BY <1>2, <1>4, <1>6, <1>8, <2>4
    <3>. QED
      BY <1>1, <1>4, <2>4, <3>1 DEF Carries
  <2>. QED
    BY <2>1, <2>2, <2>3, <2>4 DEF Carries
<1>12. \A p \in DOMAIN g : CellShape(g[p])
  BY <1>1, <1>4, <1>6, <1>7
<1>13. GoodGrid(g, N, rows, cols)
  BY <1>1, <1>4, <1>10, <1>11, <1>12 DEF GoodGrid
<1>. QED
  BY <1>3, <1>13 DEF g, n, M

-----------------------------------------------------------------------------
(* The rectangles of the abstract list.                                    *)

RectOf(m) == [row |-> m.at[1], col |-> m.at[2], rowspan |-> m.span[1], colspan |-> m.span[2]]

LEMMA RectsOfGrid == MergeRects = {RectOf(m) : m \in gridToMerges(grid)}
BY DEF MergeRects, RectOf

LEMMA RectShape ==
    ASSUME NEW m \in MergeRec
    PROVE  /\ RectOf(m) \in Merges!Rect
           /\ RectOf(m).row = m.at[1] /\ RectOf(m).col = m.at[2]
           /\ RectOf(m).rowspan = m.span[1] /\ RectOf(m).colspan = m.span[2]
BY DEF RectOf, Merges!Rect, MergeRec, Position, SpanPair

LEMMA RectInjective ==
    ASSUME NEW m \in MergeRec, NEW n \in MergeRec, RectOf(m) = RectOf(n)
    PROVE  m = n
<1>1. m.at[1] = n.at[1] /\ m.at[2] = n.at[2] /\ m.span[1] = n.span[1] /\ m.span[2] = n.span[2]
  BY RectShape
<1>2. m.at = n.at /\ m.span = n.span
  BY <1>1 DEF MergeRec, Position, SpanPair
<1>. QED
  BY <1>2 DEF MergeRec

\* Two rectangles overlap only where a cell belongs to both.
LEMMA OverlapShared ==
    ASSUME NEW m \in MergeRec, NEW n \in MergeRec, Merges!Overlap(RectOf(m), RectOf(n))
    PROVE  \E p \in Position : Covers(m, p) /\ Covers(n, p)
<1>. DEFINE r == IF m.at[1] >= n.at[1] THEN m.at[1] ELSE n.at[1]
            c == IF m.at[2] >= n.at[2] THEN m.at[2] ELSE n.at[2]
            p == <<r, c>>
<1>1. /\ m.at[1] \in Nat /\ m.at[2] \in Nat /\ n.at[1] \in Nat /\ n.at[2] \in Nat
      /\ m.span[1] \in Nat \ {0} /\ m.span[2] \in Nat \ {0}
      /\ n.span[1] \in Nat \ {0} /\ n.span[2] \in Nat \ {0}
  BY DEF MergeRec, Position, SpanPair
<1>2. /\ m.at[1] < n.at[1] + n.span[1] /\ n.at[1] < m.at[1] + m.span[1]
      /\ m.at[2] < n.at[2] + n.span[2] /\ n.at[2] < m.at[2] + m.span[2]
  BY RectShape DEF Merges!Overlap
<1>3. r \in Nat /\ c \in Nat
  BY <1>1
<1>4. p \in Position /\ p[1] = r /\ p[2] = c
  BY <1>3 DEF Position
<1>5. m.at[1] <= r /\ n.at[1] <= r /\ r < m.at[1] + m.span[1] /\ r < n.at[1] + n.span[1]
  BY <1>1, <1>2
<1>6. m.at[2] <= c /\ n.at[2] <= c /\ c < m.at[2] + m.span[2] /\ c < n.at[2] + n.span[2]
  BY <1>1, <1>2
<1>. HIDE DEF p, r, c
<1>. QED
  BY <1>4, <1>5, <1>6, CoversAt

LEMMA RectOpens ==
    ASSUME NEW m \in MergeRec, NEW i \in Nat
    PROVE  /\ RectOf(OpenMerge(m, 1, i)) = Merges!OpenRow(RectOf(m), i)
           /\ RectOf(OpenMerge(m, 2, i)) = Merges!OpenCol(RectOf(m), i)
<1>1. m.at \in Position /\ m.span \in SpanPair
  BY DEF MergeRec
<1>2. /\ Moved(m.at, 1, 1)[1] = m.at[1] + 1 /\ Moved(m.at, 1, 1)[2] = m.at[2]
      /\ Moved(m.at, 2, 1)[2] = m.at[2] + 1 /\ Moved(m.at, 2, 1)[1] = m.at[1]
      /\ Moved(m.span, 1, 1)[1] = m.span[1] + 1 /\ Moved(m.span, 1, 1)[2] = m.span[2]
      /\ Moved(m.span, 2, 1)[2] = m.span[2] + 1 /\ Moved(m.span, 2, 1)[1] = m.span[1]
  BY <1>1 DEF Moved, Position, SpanPair
<1>3. RectOf(OpenMerge(m, 1, i)) = Merges!OpenRow(RectOf(m), i)
  BY <1>2 DEF RectOf, OpenMerge, Merges!OpenRow
<1>4. RectOf(OpenMerge(m, 2, i)) = Merges!OpenCol(RectOf(m), i)
  BY <1>2 DEF RectOf, OpenMerge, Merges!OpenCol
<1>. QED
  BY <1>3, <1>4

LEMMA RectCloses ==
    ASSUME NEW m \in MergeRec, NEW i \in Nat
    PROVE  /\ RectOf(CloseMerge(m, 1, i)) = Merges!CloseRow(RectOf(m), i)
           /\ RectOf(CloseMerge(m, 2, i)) = Merges!CloseCol(RectOf(m), i)
<1>1. m.at \in Position
  BY DEF MergeRec
<1>2. /\ Moved(m.at, 1, -1)[1] = m.at[1] - 1 /\ Moved(m.at, 1, -1)[2] = m.at[2]
      /\ Moved(m.at, 2, -1)[2] = m.at[2] - 1 /\ Moved(m.at, 2, -1)[1] = m.at[1]
  BY <1>1 DEF Moved, Position
<1>3. RectOf(CloseMerge(m, 1, i)) = Merges!CloseRow(RectOf(m), i)
  BY <1>2 DEF RectOf, CloseMerge, Merges!CloseRow
<1>4. RectOf(CloseMerge(m, 2, i)) = Merges!CloseCol(RectOf(m), i)
  BY <1>2 DEF RectOf, CloseMerge, Merges!CloseCol
<1>. QED
  BY <1>3, <1>4

-----------------------------------------------------------------------------
(* The steps.                                                              *)

\* What the next state of a good grid shows.
LEMMA NextShown ==
    ASSUME rows' \in 1 .. MaxRows, cols' \in 1 .. MaxCols, protected' \in BOOLEAN,
           NEW N, GoodGrid(grid', N, rows', cols')
    PROVE  IInv' /\ MergeRects' = {RectOf(m) : m \in N}
<1>1. rows' \in Nat /\ cols' \in Nat
  BY LimitsAssumption
<1>2. gridToMerges(grid') = N
  BY <1>1, ShownMerges
<1>3. IInv'
  BY <1>2 DEF IInv
<1>4. MergeRects' = {RectOf(m) : m \in gridToMerges(grid')}
  BY DEF MergeRects, RectOf
<1>. QED
  BY <1>2, <1>3, <1>4

LEMMA GridMerges ==
    ASSUME IInv
    PROVE  /\ \A m \in gridToMerges(grid) : m \in MergeRec
           /\ DOMAIN grid = Cells(rows, cols)
           /\ \A p \in DOMAIN grid : /\ p \in Position /\ p = <<p[1], p[2]>>
                                     /\ p[1] \in 0 .. rows - 1 /\ p[2] \in 0 .. cols - 1
           /\ rows \in Nat \ {0} /\ cols \in Nat \ {0}
           /\ rows \in 1 .. MaxRows /\ cols \in 1 .. MaxCols /\ protected \in BOOLEAN
           /\ \A p \in DOMAIN grid : CellShape(grid[p])
<1>1. rows \in Nat \ {0} /\ cols \in Nat \ {0} /\ DOMAIN grid = Cells(rows, cols)
  BY LimitsAssumption DEF IInv, GoodGrid
<1>2. \A p \in DOMAIN grid : p \in Position
  BY <1>1, CellsArePositions
<1>3. \A p \in DOMAIN grid : p = <<p[1], p[2]>> /\ p[1] \in 0 .. rows - 1 /\ p[2] \in 0 .. cols - 1
  BY <1>1, CellsType
<1>. QED
  BY <1>1, <1>2, <1>3 DEF IInv, GoodGrid, Sound

LEMMA InsertRowStep ==
    ASSUME IInv, NEW i \in 0 .. rows, InsertRow(i)
    PROVE  IInv' /\ Merges!InsertRow(i)
<1>. DEFINE N == OpenAll(gridToMerges(grid), 1, i)
<1>1. SizeWith(1, 1)[1] = rows' /\ SizeWith(1, 1)[2] = cols'
  BY DEF SizeWith, InsertRow
<1>2. GoodGrid(grid', N, rows', cols')
  <2>1. i \in 0 .. <<rows, cols>>[1] /\ 1 \in 1 .. 2
    OBVIOUS
  <2>2. GoodGrid(Inserted(1, i, {}), N, SizeWith(1, 1)[1], SizeWith(1, 1)[2])
    BY <2>1, InsertedGood
  <2>. QED
    BY <1>1, <2>2 DEF InsertRow
<1>3. rows' \in 1 .. MaxRows /\ cols' \in 1 .. MaxCols /\ protected' \in BOOLEAN
  BY LimitsAssumption DEF IInv, InsertRow
<1>4. IInv' /\ MergeRects' = {RectOf(m) : m \in N}
  BY <1>2, <1>3, NextShown
<1>5. {RectOf(m) : m \in N} = {Merges!OpenRow(r, i) : r \in MergeRects}
  <2>1. i \in Nat
    BY GridMerges
  <2>2. \A m \in gridToMerges(grid) : RectOf(OpenMerge(m, 1, i)) = Merges!OpenRow(RectOf(m), i)
    BY <2>1, GridMerges, RectOpens
  <2>. QED
    BY <2>2, RectsOfGrid DEF OpenAll
<1>. QED
  BY <1>4, <1>5 DEF Merges!InsertRow, InsertRow

LEMMA InsertColumnStep ==
    ASSUME IInv, NEW i \in 0 .. cols, InsertColumn(i)
    PROVE  IInv' /\ Merges!InsertCol(i)
<1>. DEFINE N == OpenAll(gridToMerges(grid), 2, i)
            headers == {r \in 0 .. rows - 1 : HeaderRow(r) /\ \A s \in 0 .. r - 1 : ~HeaderRow(s)}
<1>1. SizeWith(2, 1)[1] = rows' /\ SizeWith(2, 1)[2] = cols'
  BY DEF SizeWith, InsertColumn
<1>2. GoodGrid(grid', N, rows', cols')
  <2>1. i \in 0 .. <<rows, cols>>[2] /\ 2 \in 1 .. 2
    OBVIOUS
  <2>2. GoodGrid(Inserted(2, i, headers), N, SizeWith(2, 1)[1], SizeWith(2, 1)[2])
    BY <2>1, InsertedGood
  <2>. QED
    BY <1>1, <2>2 DEF InsertColumn
<1>3. rows' \in 1 .. MaxRows /\ cols' \in 1 .. MaxCols /\ protected' \in BOOLEAN
  BY LimitsAssumption DEF IInv, InsertColumn
<1>4. IInv' /\ MergeRects' = {RectOf(m) : m \in N}
  BY <1>2, <1>3, NextShown
<1>5. {RectOf(m) : m \in N} = {Merges!OpenCol(r, i) : r \in MergeRects}
  <2>1. i \in Nat
    BY GridMerges
  <2>2. \A m \in gridToMerges(grid) : RectOf(OpenMerge(m, 2, i)) = Merges!OpenCol(RectOf(m), i)
    BY <2>1, GridMerges, RectOpens
  <2>. QED
    BY <2>2, RectsOfGrid DEF OpenAll
<1>. QED
  BY <1>4, <1>5 DEF Merges!InsertCol, InsertColumn

\* Where the menu inserts: always between two lines or at an edge.
LEMMA InsertionPlace ==
    ASSUME IInv, NEW p \in DOMAIN grid
    PROVE  /\ _findRowStartOfSpan(p[1]) \in 0 .. rows
           /\ _findColumnStartOfSpan(p[2]) \in 0 .. cols
           /\ _findEndOfSpan(1, p[1]) \in 0 .. rows
           /\ _findEndOfSpan(2, p[2]) \in 0 .. cols
<1>1. /\ rows \in Nat /\ cols \in Nat
      /\ \A q \in DOMAIN grid : q[1] \in 0 .. rows - 1 /\ q[2] \in 0 .. cols - 1
  BY GridMerges
<1>2. \A q \in DOMAIN grid : ~grid[q].isSpanned =>
        /\ q[1] + grid[q].span[1] \in 0 .. rows
        /\ q[2] + grid[q].span[2] \in 0 .. cols
  <2>1. ASSUME NEW q \in DOMAIN grid, ~grid[q].isSpanned
        PROVE  /\ q[1] + grid[q].span[1] \in 0 .. rows
               /\ q[2] + grid[q].span[2] \in 0 .. cols
    <3>1. CASE grid[q].span = <<1, 1>>
      BY <1>1, <3>1
    <3>2. CASE grid[q].span # <<1, 1>>
      <4>. DEFINE m == [at |-> q, span |-> grid[q].span]
      <4>1. m \in gridToMerges(grid)
        BY <2>1, <3>2 DEF gridToMerges
      <4>2. m.at[1] + m.span[1] <= rows /\ m.at[2] + m.span[2] <= cols
        BY <4>1 DEF IInv, GoodGrid, Sound
      <4>3. grid[q].span[1] \in Nat /\ grid[q].span[2] \in Nat
        BY GridMerges DEF CellShape, SpanPair
      <4>. QED
        BY <1>1, <4>2, <4>3
    <3>. QED
      BY <3>1, <3>2
  <2>. QED
    BY <2>1
<1>3. _findRowStartOfSpan(p[1]) \in 0 .. rows
  <2>. DEFINE S == {p[1]} \cup {q[1] : q \in Reaching(1, p[1])}
  <2>1. S \subseteq 0 .. rows - 1
    BY <1>1 DEF Reaching
  <2>2. S \subseteq Nat /\ S # {}
    BY <1>1, <2>1
  <2>3. Min(S) \in S
    BY <2>2, MinIn
  <2>. QED
    BY <1>1, <2>1, <2>3 DEF _findRowStartOfSpan
<1>4. _findColumnStartOfSpan(p[2]) \in 0 .. cols
  <2>. DEFINE left == {q \in Reaching(2, p[2]) : q[2] < p[2]}
              S == {q[1] : q \in left}
              top == CHOOSE q \in left : \A u \in left : q[1] <= u[1]
  <2>1. CASE left = {}
    BY <1>1, <2>1 DEF _findColumnStartOfSpan
  <2>2. CASE left # {}
    <3>1. S \subseteq Nat /\ S # {}
      BY <1>1, <2>2 DEF Reaching
    <3>2. PICK r \in S : \A u \in S : r <= u
      BY <3>1, LeastExists
    <3>3. \E q \in left : \A u \in left : q[1] <= u[1]
      BY <3>2
    <3>4. top \in left
      BY <3>3
    <3>5. top \in DOMAIN grid
      BY <3>4 DEF Reaching
    <3>. QED
      BY <1>1, <2>2, <3>5 DEF _findColumnStartOfSpan
  <2>. QED
    BY <2>1, <2>2
<1>5. _findEndOfSpan(1, p[1]) \in 0 .. rows
  <2>. DEFINE S == {p[1] + 1} \cup {q[1] + grid[q].span[1] : q \in Reaching(1, p[1])}
  <2>1. S \subseteq 0 .. rows
    BY <1>1, <1>2 DEF Reaching
  <2>2. Max(S) \in S
    BY <1>1, <2>1, MaxIn
  <2>. QED
    BY <2>1, <2>2 DEF _findEndOfSpan
<1>6. _findEndOfSpan(2, p[2]) \in 0 .. cols
  <2>. DEFINE S == {p[2] + 1} \cup {q[2] + grid[q].span[2] : q \in Reaching(2, p[2])}
  <2>1. S \subseteq 0 .. cols
    BY <1>1, <1>2 DEF Reaching
  <2>2. Max(S) \in S
    BY <1>1, <2>1, MaxIn
  <2>. QED
    BY <2>1, <2>2 DEF _findEndOfSpan
<1>. QED
  BY <1>3, <1>4, <1>5, <1>6

LEMMA DeleteRowStep ==
    ASSUME IInv, NEW p \in DOMAIN grid, deleteRow(p)
    PROVE  IInv' /\ Merges!DeleteRow(p[1])
<1>. DEFINE i == p[1]
            N == CloseAll(gridToMerges(grid), 1, i)
<1>1. SizeWith(1, -1)[1] = rows' /\ SizeWith(1, -1)[2] = cols'
  <2>1. SizeWith(1, -1) = <<rows + -1, cols>> /\ rows \in Nat
    BY GridMerges DEF SizeWith
  <2>. QED
    BY <2>1 DEF deleteRow
<1>2. i \in 0 .. rows - 1 /\ i \in Nat /\ rows \in Nat
  BY GridMerges
<1>3. GoodGrid(grid', N, rows', cols')
  <2>1. i \in 0 .. <<rows, cols>>[1] - 1 /\ 1 \in 1 .. 2
    BY <1>2
  <2>2. GoodGrid(Removed(1, i), N, SizeWith(1, -1)[1], SizeWith(1, -1)[2])
    BY <2>1, RemovedGood DEF deleteRow
  <2>. QED
    BY <1>1, <2>2 DEF deleteRow
<1>4. rows > 1
  <2>. DEFINE H == {r \in 0 .. rows - 1 : HeaderRow(r)}
  <2>1. IsFiniteSet(0 .. rows - 1)
    BY <1>2, FS_Interval
  <2>2. IsFiniteSet(H)
    BY <2>1, FS_Subset
  <2>3. Cardinality(H) \in Nat
    BY <2>2, FS_CardinalityType
  <2>4. rows - Cardinality(H) > 1
    BY DEF deleteRow
  <2>. HIDE DEF H
  <2>. QED
    BY <1>2, <2>3, <2>4
<1>5. rows' \in 1 .. MaxRows /\ cols' \in 1 .. MaxCols /\ protected' \in BOOLEAN
  BY <1>4, LimitsAssumption DEF IInv, deleteRow
<1>6. IInv' /\ MergeRects' = {RectOf(m) : m \in N}
  BY <1>3, <1>5, NextShown
<1>7. {RectOf(m) : m \in N} = {Merges!CloseRow(r, i) : r \in MergeRects}
  <2>1. \A m \in gridToMerges(grid) : RectOf(CloseMerge(m, 1, i)) = Merges!CloseRow(RectOf(m), i)
    BY <1>2, GridMerges, RectCloses
  <2>. QED
    BY <2>1, RectsOfGrid DEF CloseAll
<1>8. \A r \in MergeRects : i < r.row \/ r.row + r.rowspan <= i
  <2>1. \A m \in gridToMerges(grid) : Clear(m, 1, i)
    BY <1>2, StrictClear DEF deleteRow
  <2>2. \A m \in gridToMerges(grid) : i < RectOf(m).row \/ RectOf(m).row + RectOf(m).rowspan <= i
    BY <2>1 DEF Clear, RectOf
  <2>. QED
    BY <2>2, RectsOfGrid
<1>. QED
  BY <1>4, <1>6, <1>7, <1>8 DEF Merges!DeleteRow, deleteRow

LEMMA DeleteColumnStep ==
    ASSUME IInv, NEW p \in DOMAIN grid, deleteColumn(p)
    PROVE  IInv' /\ Merges!DeleteCol(p[2])
<1>. DEFINE i == p[2]
            N == CloseAll(gridToMerges(grid), 2, i)
<1>1. SizeWith(2, -1)[1] = rows' /\ SizeWith(2, -1)[2] = cols'
  <2>1. SizeWith(2, -1) = <<rows, cols + -1>> /\ cols \in Nat
    BY GridMerges DEF SizeWith
  <2>. QED
    BY <2>1 DEF deleteColumn
<1>2. i \in 0 .. cols - 1 /\ i \in Nat /\ cols \in Nat
  BY GridMerges
<1>3. GoodGrid(grid', N, rows', cols')
  <2>1. i \in 0 .. <<rows, cols>>[2] - 1 /\ 2 \in 1 .. 2
    BY <1>2
  <2>2. GoodGrid(Removed(2, i), N, SizeWith(2, -1)[1], SizeWith(2, -1)[2])
    BY <2>1, RemovedGood DEF deleteColumn
  <2>. QED
    BY <1>1, <2>2 DEF deleteColumn
<1>4. cols > 1
  BY DEF deleteColumn
<1>5. rows' \in 1 .. MaxRows /\ cols' \in 1 .. MaxCols /\ protected' \in BOOLEAN
  BY <1>4, LimitsAssumption DEF IInv, deleteColumn
<1>6. IInv' /\ MergeRects' = {RectOf(m) : m \in N}
  BY <1>3, <1>5, NextShown
<1>7. {RectOf(m) : m \in N} = {Merges!CloseCol(r, i) : r \in MergeRects}
  <2>1. \A m \in gridToMerges(grid) : RectOf(CloseMerge(m, 2, i)) = Merges!CloseCol(RectOf(m), i)
    BY <1>2, GridMerges, RectCloses
  <2>. QED
    BY <2>1, RectsOfGrid DEF CloseAll
<1>8. \A r \in MergeRects : i < r.col \/ r.col + r.colspan <= i
  <2>1. \A m \in gridToMerges(grid) : Clear(m, 2, i)
    BY <1>2, StrictClear DEF deleteColumn
  <2>2. \A m \in gridToMerges(grid) : i < RectOf(m).col \/ RectOf(m).col + RectOf(m).colspan <= i
    BY <2>1 DEF Clear, RectOf
  <2>. QED
    BY <2>2, RectsOfGrid
<1>. QED
  BY <1>4, <1>6, <1>7, <1>8 DEF Merges!DeleteCol, deleteColumn

LEMMA MergeStep ==
    ASSUME IInv, NEW lo \in DOMAIN grid, NEW hi \in DOMAIN grid, mergeCells(lo, hi)
    PROVE  /\ IInv'
           /\ \E r \in 0 .. rows - 1, c \in 0 .. cols - 1, h \in 1 .. rows, w \in 1 .. cols :
                 Merges!Merge([row |-> r, col |-> c, rowspan |-> h, colspan |-> w])
<1>. DEFINE n == AreaMerge(lo, hi)
            N == gridToMerges(grid) \cup {n}
            h == hi[1] - lo[1] + 1
            w == hi[2] - lo[2] + 1
            t == [row |-> lo[1], col |-> lo[2], rowspan |-> h, colspan |-> w]
<1>1. /\ lo[1] <= hi[1] /\ lo[2] <= hi[2] /\ lo # hi
      /\ \A p \in Area(lo, hi) : ~grid[p].isSpanned /\ grid[p].span = <<1, 1>>
      /\ grid' = mergeRange(lo, hi) /\ rows' = rows /\ cols' = cols /\ protected' = protected
  BY DEF mergeCells
<1>2. /\ GoodGrid(grid', N, rows', cols')
      /\ \A m \in gridToMerges(grid) : \A p \in Position : ~(Covers(m, p) /\ Covers(n, p))
  BY <1>1, MergedGood
<1>3. rows' \in 1 .. MaxRows /\ cols' \in 1 .. MaxCols /\ protected' \in BOOLEAN
  BY <1>1 DEF IInv
<1>4. IInv' /\ MergeRects' = {RectOf(m) : m \in N}
  BY <1>2, <1>3, NextShown
<1>5. /\ lo \in Position /\ hi \in Position
      /\ lo[1] \in 0 .. rows - 1 /\ lo[2] \in 0 .. cols - 1
      /\ hi[1] \in 0 .. rows - 1 /\ hi[2] \in 0 .. cols - 1
      /\ rows \in Nat /\ cols \in Nat
  BY GridMerges
<1>6. /\ n \in MergeRec /\ n.at = lo /\ n.span = <<h, w>> /\ n.span # <<1, 1>>
  BY <1>1, <1>5, AreaMergeShape
<1>7. h \in 1 .. rows /\ w \in 1 .. cols /\ lo[1] + h <= rows /\ lo[2] + w <= cols
  BY <1>1, <1>5
<1>8. RectOf(n) = t
  BY <1>6 DEF RectOf
<1>. HIDE DEF n, h, w
<1>9. h > 1 \/ w > 1
  BY <1>5, <1>6, <1>7
<1>10. \A r \in MergeRects : ~Merges!Overlap(t, r)
  <2>1. ASSUME NEW m \in gridToMerges(grid), Merges!Overlap(RectOf(n), RectOf(m))
        PROVE  FALSE
    <3>1. m \in MergeRec
      BY GridMerges
    <3>2. \E p \in Position : Covers(n, p) /\ Covers(m, p)
      BY <1>6, <2>1, <3>1, OverlapShared
    <3>. QED
      BY <1>2, <3>2
  <2>. QED
    BY <1>8, <2>1, RectsOfGrid
<1>11. MergeRects' = MergeRects \cup {t}
  BY <1>4, <1>8, RectsOfGrid
<1>12. Merges!Merge(t)
  BY <1>1, <1>7, <1>9, <1>10, <1>11 DEF Merges!Merge, Merges!IsMerge
<1>. QED
  BY <1>4, <1>5, <1>7, <1>12

LEMMA UnmergeStep ==
    ASSUME IInv, NEW p \in DOMAIN grid, unmergeCells(p)
    PROVE  IInv' /\ \E r \in MergeRects : Merges!Unmerge(r)
<1>. DEFINE n == LeadMerge(p)
            N == gridToMerges(grid) \ {n}
<1>1. /\ ~grid[p].isSpanned /\ grid[p].span # <<1, 1>>
      /\ grid' = unmergeAt(p) /\ rows' = rows /\ cols' = cols /\ protected' = protected
  BY DEF unmergeCells, Visible
<1>2. n \in gridToMerges(grid) /\ GoodGrid(grid', N, rows', cols')
  BY <1>1, UnmergedGood
<1>3. rows' \in 1 .. MaxRows /\ cols' \in 1 .. MaxCols /\ protected' \in BOOLEAN
  BY <1>1 DEF IInv
<1>4. IInv' /\ MergeRects' = {RectOf(m) : m \in N}
  BY <1>2, <1>3, NextShown
<1>5. \A m \in gridToMerges(grid) : RectOf(m) = RectOf(n) => m = n
  BY <1>2, GridMerges, RectInjective
<1>. HIDE DEF n
<1>6. MergeRects' = MergeRects \ {RectOf(n)}
  BY <1>4, <1>5, RectsOfGrid
<1>7. RectOf(n) \in MergeRects
  BY <1>2, RectsOfGrid
<1>8. Merges!Unmerge(RectOf(n))
  BY <1>1, <1>6 DEF Merges!Unmerge
<1>. QED
  BY <1>4, <1>7, <1>8

\* A step that rewrites texts only: the list stays.
LEMMA TextStep ==
    ASSUME IInv, rows' = rows, cols' = cols, protected' = protected,
           DOMAIN grid' = DOMAIN grid,
           \A p \in DOMAIN grid : /\ CellShape(grid'[p])
                                  /\ grid'[p].span = grid[p].span
                                  /\ grid'[p].isSpanned = grid[p].isSpanned
                                  /\ grid'[p].spanOrigin = grid[p].spanOrigin
    PROVE  IInv' /\ UNCHANGED Merges!vars
<1>. DEFINE M == gridToMerges(grid)
<1>1. GoodGrid(grid, M, rows, cols)
  BY DEF IInv
<1>2. GoodGrid(grid', M, rows', cols')
  BY <1>1, SameMarks
<1>3. rows' \in 1 .. MaxRows /\ cols' \in 1 .. MaxCols /\ protected' \in BOOLEAN
  BY DEF IInv
<1>4. IInv' /\ MergeRects' = {RectOf(m) : m \in M}
  BY <1>2, <1>3, NextShown
<1>. QED
  BY <1>4, RectsOfGrid DEF Merges!vars

LEMMA EditStep ==
    ASSUME IInv, NEW p \in DOMAIN grid, NEW text, EditCell(p, text)
    PROVE  IInv' /\ UNCHANGED Merges!vars
<1>1. \A q \in DOMAIN grid : CellShape(grid[q])
  BY GridMerges
<1>2. /\ grid' = [grid EXCEPT ![p].content = text]
      /\ rows' = rows /\ cols' = cols /\ protected' = protected
  BY DEF EditCell
<1>3. DOMAIN grid' = DOMAIN grid
  BY <1>2
<1>4. /\ \A q \in DOMAIN grid : q # p => grid'[q] = grid[q]
      /\ grid'[p] = [grid[p] EXCEPT !.content = text]
  BY <1>2
<1>5. /\ CellShape(grid'[p]) /\ grid'[p].span = grid[p].span
      /\ grid'[p].isSpanned = grid[p].isSpanned /\ grid'[p].spanOrigin = grid[p].spanOrigin
  BY <1>1, <1>4 DEF CellShape
<1>6. \A q \in DOMAIN grid : /\ CellShape(grid'[q])
                             /\ grid'[q].span = grid[q].span
                             /\ grid'[q].isSpanned = grid[q].isSpanned
                             /\ grid'[q].spanOrigin = grid[q].spanOrigin
  BY <1>1, <1>4, <1>5
<1>. QED
  BY <1>2, <1>3, <1>6, TextStep

LEMMA ReloadStep ==
    ASSUME IInv, SaveAndReload
    PROVE  IInv' /\ UNCHANGED Merges!vars
<1>1. \A q \in DOMAIN grid : CellShape(grid[q])
  BY GridMerges
<1>2. /\ grid' = [p \in DOMAIN grid |-> [grid[p] EXCEPT !.mergeSnapshot = NoSnapshot]]
      /\ rows' = rows /\ cols' = cols /\ protected' = protected
  BY DEF SaveAndReload
<1>3. DOMAIN grid' = DOMAIN grid
  BY <1>2
<1>4. ASSUME NEW q \in DOMAIN grid
      PROVE  /\ CellShape(grid'[q])
             /\ grid'[q].span = grid[q].span
             /\ grid'[q].isSpanned = grid[q].isSpanned
             /\ grid'[q].spanOrigin = grid[q].spanOrigin
  <2>1. grid'[q] = [grid[q] EXCEPT !.mergeSnapshot = NoSnapshot]
    BY <1>2
  <2>. QED
    BY <1>1, <2>1 DEF CellShape
<1>. QED
  BY <1>2, <1>3, <1>4, TextStep

\* Every step keeps the invariant and is a step of the list, or none.
LEMMA GridStep ==
    ASSUME IInv, [Next]_vars
    PROVE  IInv' /\ [Merges!Next]_(Merges!vars)
<1>1. ASSUME NEW p \in DOMAIN grid, NEW text, EditCell(p, text)
      PROVE  IInv' /\ [Merges!Next]_(Merges!vars)
  BY <1>1, EditStep
<1>2. ASSUME NEW i \in 0 .. rows, InsertRow(i)
      PROVE  IInv' /\ [Merges!Next]_(Merges!vars)
  BY <1>2, InsertRowStep DEF Merges!Next
<1>3. ASSUME NEW i \in 0 .. cols, InsertColumn(i)
      PROVE  IInv' /\ [Merges!Next]_(Merges!vars)
  BY <1>3, InsertColumnStep DEF Merges!Next
<1>4. ASSUME NEW p \in DOMAIN grid, insertRowAbove(p) \/ insertRowBelow(p)
      PROVE  IInv' /\ [Merges!Next]_(Merges!vars)
  BY <1>2, <1>4, InsertionPlace DEF insertRowAbove, insertRowBelow
<1>5. ASSUME NEW p \in DOMAIN grid, insertColumnLeft(p) \/ insertColumnRight(p)
      PROVE  IInv' /\ [Merges!Next]_(Merges!vars)
  BY <1>3, <1>5, InsertionPlace DEF insertColumnLeft, insertColumnRight
<1>6. ASSUME NEW p \in DOMAIN grid, deleteRow(p)
      PROVE  IInv' /\ [Merges!Next]_(Merges!vars)
  BY <1>6, DeleteRowStep, GridMerges DEF Merges!Next
<1>7. ASSUME NEW p \in DOMAIN grid, deleteColumn(p)
      PROVE  IInv' /\ [Merges!Next]_(Merges!vars)
  BY <1>7, DeleteColumnStep, GridMerges DEF Merges!Next
<1>8. ASSUME NEW lo \in DOMAIN grid, NEW hi \in DOMAIN grid, mergeCells(lo, hi)
      PROVE  IInv' /\ [Merges!Next]_(Merges!vars)
  BY <1>8, MergeStep DEF Merges!Next
<1>9. ASSUME NEW p \in DOMAIN grid, unmergeCells(p)
      PROVE  IInv' /\ [Merges!Next]_(Merges!vars)
  BY <1>9, UnmergeStep DEF Merges!Next
<1>10. CASE SaveAndReload
  BY <1>10, ReloadStep
<1>11. CASE UNCHANGED vars
  <2>1. IInv'
    BY <1>11 DEF IInv, vars
  <2>2. UNCHANGED Merges!vars
    BY <1>11 DEF vars, Merges!vars, MergeRects
  <2>. QED
    BY <2>1, <2>2
<1>. QED
  BY <1>1, <1>4, <1>5, <1>6, <1>7, <1>8, <1>9, <1>10, <1>11 DEF Next

\* The tables the constructor creates.
LEMMA GridInit ==
    ASSUME Init
    PROVE  IInv
<1>1. PICK t \in Presets : /\ rows = t.rows /\ cols = t.cols
                           /\ protected = t.protected /\ grid = Preset(t)
  BY DEF Init
<1>2. rows \in 1 .. MaxRows /\ cols \in 1 .. MaxCols /\ protected \in BOOLEAN
  BY <1>1, PresetsAssumption
<1>3. rows \in Nat /\ cols \in Nat
  BY <1>2, LimitsAssumption
<1>4. \A m \in t.merges : /\ m \in MergeRec /\ m.span # <<1, 1>>
                          /\ m.at[1] + m.span[1] <= rows /\ m.at[2] + m.span[2] <= cols
  BY <1>1, PresetsAssumption DEF MergeRec, Position, SpanPair
<1>5. ASSUME NEW m \in t.merges, NEW n \in t.merges, NEW p \in Position,
             Covers(m, p), Covers(n, p), m # n
      PROVE  FALSE
  <2>1. PICK a \in 1 .. 2 : \/ m.at[a] + m.span[a] <= n.at[a]
                            \/ n.at[a] + n.span[a] <= m.at[a]
    BY <1>5, PresetsAssumption
  <2>2. m \in MergeRec /\ n \in MergeRec
    BY <1>4
  <2>3. /\ m.at[a] \in Nat /\ n.at[a] \in Nat /\ p[a] \in Nat
        /\ m.span[a] \in Nat /\ n.span[a] \in Nat
    BY <2>2 DEF MergeRec, Position, SpanPair
  <2>4. /\ m.at[a] <= p[a] /\ p[a] < m.at[a] + m.span[a]
        /\ n.at[a] <= p[a] /\ p[a] < n.at[a] + n.span[a]
    BY <1>5 DEF Covers
  <2>. QED
    BY <2>1, <2>3, <2>4
<1>6. Sound(t.merges, rows, cols)
  BY <1>4, <1>5 DEF Sound
<1>. DEFINE plain == [p \in Cells(rows, cols) |-> Single(<<>>, p[1] < t.headers)]
<1>7. grid = applyMergesToGrid(plain, t.merges)
  BY <1>1 DEF Preset
<1>8. \A p \in DOMAIN plain : CellShape(plain[p])
  BY SingleShape
<1>9. DOMAIN plain = Cells(rows, cols)
  OBVIOUS
<1>. HIDE DEF plain
<1>10. GoodGrid(grid, t.merges, rows, cols)
  BY <1>3, <1>6, <1>7, <1>8, <1>9, ApplyCarries
<1>11. gridToMerges(grid) = t.merges
  BY <1>3, <1>10, ShownMerges
<1>. QED
  BY <1>2, <1>10, <1>11 DEF IInv

-----------------------------------------------------------------------------

\* The invariant of the grid: the table fits the limits, its list of merges is
\* sound and its marks say what the list says.
THEOREM GridInvariant == Spec => []IInv
<1>1. Init => IInv
  BY GridInit
<1>2. IInv /\ [Next]_vars => IInv'
  BY GridStep
<1>. QED
  BY <1>1, <1>2, PTL DEF Spec

\* Whatever sequence of menu operations: the grid has the cells its size says,
\* and the table keeps at least one row and one column
\* (table-cells-operations.js refuses to delete the last of either).
THEOREM GridTypeCorrect == Spec => []TypeOK
<1>1. IInv => TypeOK
  BY DEF IInv, GoodGrid, TypeOK
<1>. QED
  BY <1>1, GridInvariant, PTL

\* Every absorbed cell lies in exactly one merge and is marked with its corner,
\* and no visible cell lies inside another's merge: the marks the operations
\* write, shift and rebuild never part from the spans.
THEOREM GridTiled == Spec => []Tiled
<1>1. ASSUME IInv
      PROVE  Tiled
  <2>. DEFINE M == gridToMerges(grid)
  <2>1. Sound(M, rows, cols) /\ Carries(grid, M)
    BY <1>1 DEF IInv, GoodGrid
  <2>. HIDE DEF M
  <2>2. ASSUME NEW p \in DOMAIN grid, grid[p].isSpanned
        PROVE  \E m \in {k \in M : Covers(k, p)} :
                  {k \in M : Covers(k, p)} = {m} /\ grid[p].spanOrigin = m.at /\ m.at # p
    <3>1. PICK m \in M : Covers(m, p) /\ m.at # p /\ grid[p].spanOrigin = m.at
      BY <2>1, <2>2 DEF Carries
    <3>2. p \in Position
      BY <1>1, GridMerges
    <3>3. \A k \in M : Covers(k, p) => k = m
      BY <2>1, <3>1, <3>2 DEF Sound
    <3>. QED
      BY <3>1, <3>3
  <2>3. ASSUME NEW p \in DOMAIN grid, ~grid[p].isSpanned, NEW m \in M, Covers(m, p)
        PROVE  m.at = p
    BY <2>1, <2>3 DEF Carries
  <2>. QED
    BY <2>2, <2>3 DEF Tiled, M
<1>. QED
  BY <1>1, GridInvariant, PTL

\* No sequence of menu operations builds a table the server refuses: limits,
\* bounds and overlaps of act_content.py hold of every table of the editor.
THEOREM GridSavable == Spec => []Savable
<1>1. ASSUME IInv
      PROVE  Savable
  <2>1. /\ \A m \in gridToMerges(grid) : m \in MergeRec
        /\ DOMAIN grid = Cells(rows, cols)
        /\ \A p \in DOMAIN grid : /\ p \in Position /\ p = <<p[1], p[2]>>
                                  /\ p[1] \in 0 .. rows - 1 /\ p[2] \in 0 .. cols - 1
        /\ rows \in Nat \ {0} /\ cols \in Nat \ {0}
        /\ rows \in 1 .. MaxRows /\ cols \in 1 .. MaxCols /\ protected \in BOOLEAN
        /\ \A p \in DOMAIN grid : CellShape(grid[p])
    BY <1>1, GridMerges
  <2>. DEFINE M == gridToMerges(grid)
  <2>2. Sound(M, rows, cols) /\ Carries(grid, M)
    BY <1>1 DEF IInv, GoodGrid
  <2>3. ASSUME NEW p \in DOMAIN grid, grid[p].span # <<1, 1>>
        PROVE  /\ p[1] + grid[p].span[1] <= rows /\ p[2] + grid[p].span[2] <= cols
               /\ grid[p].span[1] \in Nat /\ grid[p].span[2] \in Nat
    <3>1. PICK m \in M : m.at = p
      BY <2>2, <2>3 DEF Carries
    <3>2. m.at[1] + m.span[1] <= rows /\ m.at[2] + m.span[2] <= cols /\ grid[p].span = m.span
      BY <2>2, <3>1 DEF Sound, Carries
    <3>3. grid[p].span[1] \in Nat /\ grid[p].span[2] \in Nat
      BY <2>1 DEF CellShape, SpanPair
    <3>. QED
      BY <3>1, <3>2, <3>3
  <2>4. ASSUME NEW p \in DOMAIN grid
        PROVE  grid[p].span[1] <= MaxRows /\ grid[p].span[2] <= MaxCols
    <3>1. CASE grid[p].span = <<1, 1>>
      BY <3>1, LimitsAssumption
    <3>2. CASE grid[p].span # <<1, 1>>
      BY <2>1, <2>3, <3>2, LimitsAssumption
    <3>. QED
      BY <3>1, <3>2
  <2>5. validate_grid_dimensions
    BY <2>1, <2>4, LimitsAssumption DEF validate_grid_dimensions
  <2>. HIDE DEF M
  <2>6. \A m, n \in M : m # n => ~\E p \in DOMAIN grid : Covers(m, p) /\ Covers(n, p)
    BY <2>1, <2>2 DEF Sound
  <2>7. validate_structure
    BY <2>3, <2>6 DEF validate_structure, M
  <2>. QED
    BY <2>5, <2>7 DEF Savable
<1>. QED
  BY <1>1, GridInvariant, PTL

\* The dense grid implements the list of merged rectangles: each operation of
\* the menu is one operation on the list, or leaves it alone.
THEOREM GridImplementsMerges == Spec => MergesSpec
<1>1. ASSUME Init
      PROVE  Merges!Init
  <2>1. IInv
    BY <1>1, GridInit
  <2>2. /\ \A m \in gridToMerges(grid) : m \in MergeRec
        /\ rows \in 1 .. MaxRows /\ cols \in 1 .. MaxCols
        /\ Sound(gridToMerges(grid), rows, cols)
    BY <2>1, GridMerges DEF IInv, GoodGrid
  <2>3. Merges!TypeOK
    BY <2>2, RectShape, RectsOfGrid DEF Merges!TypeOK
  <2>4. Merges!InBounds
    BY <2>2, RectShape, RectsOfGrid DEF Merges!InBounds, Sound
  <2>5. ASSUME NEW m \in gridToMerges(grid), NEW n \in gridToMerges(grid),
               RectOf(m) # RectOf(n), Merges!Overlap(RectOf(m), RectOf(n))
        PROVE  FALSE
    <3>1. \E p \in Position : Covers(m, p) /\ Covers(n, p)
      BY <2>2, <2>5, OverlapShared
    <3>. QED
      BY <2>2, <2>5, <3>1 DEF Sound
  <2>6. Merges!Disjoint
    BY <2>5, RectsOfGrid DEF Merges!Disjoint
  <2>. QED
    BY <2>3, <2>4, <2>6 DEF Merges!Init, Merges!Inv
<1>2. IInv /\ [Next]_vars => [Merges!Next]_(Merges!vars)
  BY GridStep
<1>. QED
  BY <1>1, <1>2, GridInvariant, PTL DEF Spec, MergesSpec, Merges!Spec

-----------------------------------------------------------------------------
(* Texts: sequences of pieces, and what joining them keeps.                *)

\* Piece t stands in text s; it stands there once at most.
Has(s, t) == \E i \in DOMAIN s : s[i] = t
Once(s, t) == \A i, j \in DOMAIN s : s[i] = t /\ s[j] = t => i = j

\* What holds of 1 and goes from m to m + 1 holds up to n.
LEMMA UpTo ==
    ASSUME NEW n \in Nat, NEW S, 1 \in S, \A m \in 1 .. n - 1 : m \in S => m + 1 \in S
    PROVE  \A m \in 1 .. n : m \in S
<1>. SUFFICES ASSUME NEW k \in 1 .. n, k \notin S PROVE FALSE
  OBVIOUS
<1>. DEFINE out == {m \in 1 .. n : m \notin S}
<1>1. out \subseteq Nat /\ out # {}
  OBVIOUS
<1>2. PICK x \in out : \A y \in out : x <= y
  BY <1>1, LeastExists
<1>3. x \in 1 .. n /\ x \notin S /\ x # 1
  BY <1>2
<1>4. x - 1 \in 1 .. n - 1 /\ (x - 1) + 1 = x
  BY <1>3
<1>5. x - 1 \in S
  <2>1. x - 1 \in out => x <= x - 1
    BY <1>2
  <2>. QED BY <2>1, <1>3, <1>4
<1>. QED BY <1>3, <1>4, <1>5

LEMMA TextsJoin ==
    ASSUME NEW T, NEW a \in Seq(T), NEW b \in Seq(T), NEW t
    PROVE  /\ a \o b \in Seq(T)
           /\ Has(a \o b, t) <=> Has(a, t) \/ Has(b, t)
           /\ Once(a \o b, t) <=> Once(a, t) /\ Once(b, t) /\ ~(Has(a, t) /\ Has(b, t))
<1>. DEFINE c == a \o b
<1>1. /\ c \in Seq(T) /\ Len(a) \in Nat /\ Len(b) \in Nat /\ Len(c) = Len(a) + Len(b)
      /\ DOMAIN a = 1 .. Len(a) /\ DOMAIN b = 1 .. Len(b) /\ DOMAIN c = 1 .. Len(a) + Len(b)
      /\ \A i \in 1 .. Len(a) : c[i] = a[i]
      /\ \A i \in Len(a) + 1 .. Len(a) + Len(b) : c[i] = b[i - Len(a)]
  OBVIOUS
<1>. HIDE DEF c
<1>2. \A i \in 1 .. Len(b) : c[Len(a) + i] = b[i] /\ Len(a) + i \in DOMAIN c
  BY <1>1
<1>3. \A i \in DOMAIN c : i \in 1 .. Len(a) \/ (i - Len(a) \in 1 .. Len(b) /\ i = Len(a) + (i - Len(a)))
  BY <1>1
<1>3a. ASSUME NEW i \in DOMAIN c, i \notin 1 .. Len(a)
       PROVE  i - Len(a) \in DOMAIN b /\ b[i - Len(a)] = c[i]
  <2>1. i - Len(a) \in 1 .. Len(b)
    BY <1>3, <1>3a
  <2>2. i \in Len(a) + 1 .. Len(a) + Len(b)
    BY <1>1, <1>3a
  <2>. QED BY <1>1, <2>1, <2>2
<1>4. Has(c, t) <=> Has(a, t) \/ Has(b, t)
  <2>1. ASSUME Has(c, t) PROVE Has(a, t) \/ Has(b, t)
    BY <2>1, <1>1, <1>3 DEF Has
  <2>2. ASSUME Has(a, t) PROVE Has(c, t)
    BY <2>2, <1>1 DEF Has
  <2>3. ASSUME Has(b, t) PROVE Has(c, t)
    BY <2>3, <1>1, <1>2 DEF Has
  <2>. QED BY <2>1, <2>2, <2>3
<1>5. ASSUME Once(c, t) PROVE Once(a, t) /\ Once(b, t) /\ ~(Has(a, t) /\ Has(b, t))
  <2>1. Once(a, t)
    BY <1>5, <1>1 DEF Once
  <2>2. ASSUME NEW i \in DOMAIN b, NEW j \in DOMAIN b, b[i] = t, b[j] = t PROVE i = j
    <3>1. c[Len(a) + i] = t /\ c[Len(a) + j] = t /\ Len(a) + i \in DOMAIN c /\ Len(a) + j \in DOMAIN c
      BY <2>2, <1>1, <1>2
    <3>2. Len(a) + i = Len(a) + j
      BY <3>1, <1>5 DEF Once
    <3>. QED BY <3>2, <1>1
  <2>3. ASSUME NEW i \in DOMAIN a, NEW j \in DOMAIN b, a[i] = t, b[j] = t PROVE FALSE
    <3>1. c[i] = t /\ c[Len(a) + j] = t /\ i \in DOMAIN c /\ Len(a) + j \in DOMAIN c
      BY <2>3, <1>1, <1>2
    <3>2. i = Len(a) + j
      BY <3>1, <1>5 DEF Once
    <3>. QED BY <3>2, <1>1
  <2>. QED BY <2>1, <2>2, <2>3 DEF Once, Has
<1>6. ASSUME Once(a, t), Once(b, t), ~(Has(a, t) /\ Has(b, t)), NEW i \in DOMAIN c, NEW j \in DOMAIN c, c[i] = t, c[j] = t
      PROVE  i = j
  <2>1. CASE i \in 1 .. Len(a) /\ j \in 1 .. Len(a)
    BY <2>1, <1>1, <1>6 DEF Once
  <2>2. CASE i \notin 1 .. Len(a) /\ j \notin 1 .. Len(a)
    <3>1. i - Len(a) \in DOMAIN b /\ j - Len(a) \in DOMAIN b /\ b[i - Len(a)] = t /\ b[j - Len(a)] = t
      BY <2>2, <1>3a, <1>6
    <3>2. i - Len(a) = j - Len(a)
      BY <3>1, <1>6 DEF Once
    <3>. QED BY <3>2, <1>1
  <2>3. ASSUME NEW k \in DOMAIN c, NEW m \in DOMAIN c, c[k] = t, c[m] = t, k \in 1 .. Len(a), m \notin 1 .. Len(a) PROVE FALSE
    <3>1. m - Len(a) \in DOMAIN b /\ b[m - Len(a)] = t /\ k \in DOMAIN a /\ a[k] = t
      BY <2>3, <1>1, <1>3a
    <3>. QED BY <3>1, <1>6 DEF Has
  <2>. QED BY <2>1, <2>2, <2>3, <1>6
<1>7. c \in Seq(T) /\ (Once(c, t) <=> Once(a, t) /\ Once(b, t) /\ ~(Has(a, t) /\ Has(b, t)))
  BY <1>1, <1>5, <1>6 DEF Once
<1>. QED BY <1>4, <1>7 DEF c

\* f[i] are the first i texts of s, joined.
Joins(s, f) == \A i \in 1 .. Len(s) : f[i] = IF i = 1 THEN s[i] ELSE f[i - 1] \o s[i]

LEMMA FlattenIs ==
    ASSUME NEW T, NEW s \in Seq(Seq(T)), s # <<>>
    PROVE  \E f \in [1 .. Len(s) -> Seq(T)] : Joins(s, f) /\ FlattenSeq(s) = f[Len(s)]
<1>. DEFINE n == Len(s)
           Eq(f) == f = [i \in 1 .. n |-> IF i = 1 THEN s[i] ELSE f[i - 1] \o s[i]]
           S == {m \in 1 .. n : \E f \in [1 .. m -> Seq(T)] :
                    \A i \in 1 .. m : f[i] = IF i = 1 THEN s[i] ELSE f[i - 1] \o s[i]}
<1>1. n \in Nat /\ n >= 1 /\ \A i \in 1 .. n : s[i] \in Seq(T)
  OBVIOUS
<1>. HIDE DEF n
<1>2. 1 \in S
  <2>. DEFINE f == [i \in 1 .. 1 |-> s[1]]
  <2>1. 1 \in 1 .. n /\ s[1] \in Seq(T) /\ 1 .. 1 = {1}
    BY <1>1
  <2>2. f \in [1 .. 1 -> Seq(T)] /\ f[1] = s[1]
    BY <2>1
  <2>. HIDE DEF f
  <2>3. \A i \in 1 .. 1 : f[i] = IF i = 1 THEN s[i] ELSE f[i - 1] \o s[i]
    BY <2>1, <2>2
  <2>. QED BY <2>1, <2>2, <2>3
<1>3. ASSUME NEW m \in 1 .. n - 1, m \in S PROVE m + 1 \in S
  <2>1. PICK f \in [1 .. m -> Seq(T)] : \A i \in 1 .. m : f[i] = IF i = 1 THEN s[i] ELSE f[i - 1] \o s[i]
    BY <1>3
  <2>. DEFINE g == [i \in 1 .. m + 1 |-> IF i = m + 1 THEN f[m] \o s[m + 1] ELSE f[i]]
  <2>2. m \in 1 .. m /\ m + 1 \in 1 .. n /\ m \in Nat
    BY <1>1
  <2>3. f[m] \o s[m + 1] \in Seq(T)
    <3>1. f[m] \in Seq(T) /\ s[m + 1] \in Seq(T)
      BY <2>2, <1>1
    <3>. QED BY <3>1
  <2>4. g \in [1 .. m + 1 -> Seq(T)]
    BY <2>2, <2>3
  <2>5. ASSUME NEW i \in 1 .. m + 1 PROVE g[i] = IF i = 1 THEN s[i] ELSE g[i - 1] \o s[i]
    <3>1. CASE i = m + 1
      <4>1. g[i] = f[m] \o s[m + 1] /\ i # 1 /\ g[i - 1] = f[m]
        BY <3>1, <2>2
      <4>. QED BY <4>1, <3>1
    <3>2. CASE i # m + 1
      <4>1. i \in 1 .. m /\ g[i] = f[i] /\ (i # 1 => g[i - 1] = f[i - 1])
        BY <3>2, <2>2
      <4>. QED BY <4>1, <2>1
    <3>. QED BY <3>1, <3>2
  <2>. HIDE DEF g
  <2>. QED BY <2>2, <2>4, <2>5
<1>4. n \in S
  <2>. HIDE DEF S
  <2>1. \A m \in 1 .. n - 1 : m \in S => m + 1 \in S
    BY <1>3
  <2>2. \A m \in 1 .. n : m \in S
    BY <2>1, <1>1, <1>2, UpTo
  <2>. QED BY <2>2, <1>1
<1>5. PICK f \in [1 .. n -> Seq(T)] : \A i \in 1 .. n : f[i] = IF i = 1 THEN s[i] ELSE f[i - 1] \o s[i]
  BY <1>4
<1>6. Eq(f)
  BY <1>5
<1>. DEFINE h == CHOOSE k : Eq(k)
<1>7. FlattenSeq(s) = h[n]
  BY <1>1 DEF FlattenSeq, n
<1>8. Eq(h)
  <2>. HIDE DEF Eq
  <2>. QED BY <1>6
<1>. HIDE DEF h
<1>9. \A i \in 1 .. n : h[i] = IF i = 1 THEN s[i] ELSE h[i - 1] \o s[i]
  BY <1>8
<1>10. h \in [1 .. n -> Seq(T)]
  <2>. DEFINE K == {m \in 1 .. n : h[m] \in Seq(T)}
  <2>1. 1 \in K
    <3>1. 1 \in 1 .. n /\ s[1] \in Seq(T)
      BY <1>1
    <3>2. h[1] = s[1]
      BY <3>1, <1>9
    <3>. QED BY <3>1, <3>2
  <2>2. ASSUME NEW m \in 1 .. n - 1, m \in K PROVE m + 1 \in K
    <3>1. m + 1 \in 1 .. n /\ m + 1 # 1 /\ (m + 1) - 1 = m /\ h[m] \in Seq(T) /\ s[m + 1] \in Seq(T)
      BY <2>2, <1>1
    <3>2. h[m + 1] = h[m] \o s[m + 1]
      BY <3>1, <1>9
    <3>3. h[m] \o s[m + 1] \in Seq(T)
      <4>. HIDE DEF h
      <4>. QED BY <3>1
    <3>4. h[m + 1] \in Seq(T)
      BY <3>2, <3>3
    <3>. QED BY <3>1, <3>4
  <2>3. \A m \in 1 .. n : m \in K
    <3>. HIDE DEF K
    <3>. QED BY <2>1, <2>2, <1>1, UpTo
  <2>4. \A m \in 1 .. n : h[m] \in Seq(T)
    BY <2>3
  <2>5. h = [i \in 1 .. n |-> h[i]]
    BY <1>8
  <2>. QED BY <2>4, <2>5
<1>. QED BY <1>7, <1>9, <1>10 DEF Joins, n

\* Each piece of the texts of s stands in one of them, and once.
Apart(s, t) ==
    /\ \A i \in DOMAIN s : Once(s[i], t)
    /\ \A i, j \in DOMAIN s : Has(s[i], t) /\ Has(s[j], t) => i = j

\* The joined text has the pieces of the texts, no other, and as often.
LEMMA Flattened ==
    ASSUME NEW T, NEW s \in Seq(Seq(T)), s # <<>>, NEW t
    PROVE  /\ FlattenSeq(s) \in Seq(T)
           /\ Has(FlattenSeq(s), t) <=> \E i \in DOMAIN s : Has(s[i], t)
           /\ Once(FlattenSeq(s), t) <=> Apart(s, t)
<1>. DEFINE n == Len(s)
<1>1. PICK f \in [1 .. n -> Seq(T)] : Joins(s, f) /\ FlattenSeq(s) = f[n]
  BY FlattenIs
<1>2. n \in Nat /\ n >= 1 /\ DOMAIN s = 1 .. n /\ \A i \in 1 .. n : s[i] \in Seq(T)
  OBVIOUS
<1>. HIDE DEF n
<1>3. f[1] = s[1] /\ \A m \in 1 .. n - 1 : m + 1 \in 1 .. n /\ m \in 1 .. n /\ f[m + 1] = f[m] \o s[m + 1]
  <2>1. \A i \in 1 .. n : f[i] = IF i = 1 THEN s[i] ELSE f[i - 1] \o s[i]
    BY <1>1 DEF Joins, n
  <2>2. 1 \in 1 .. n /\ \A m \in 1 .. n - 1 : m + 1 \in 1 .. n /\ m \in 1 .. n /\ m + 1 # 1 /\ (m + 1) - 1 = m
    BY <1>2
  <2>3. f[1] = s[1]
    BY <2>1, <2>2
  <2>4. \A m \in 1 .. n - 1 : f[m + 1] = f[m] \o s[m + 1]
    BY <2>1, <2>2
  <2>. QED BY <2>2, <2>3, <2>4
<1>4. \A m \in 1 .. n - 1 :
         /\ Has(f[m + 1], t) <=> Has(f[m], t) \/ Has(s[m + 1], t)
         /\ Once(f[m + 1], t) <=> Once(f[m], t) /\ Once(s[m + 1], t) /\ ~(Has(f[m], t) /\ Has(s[m + 1], t))
  <2>. TAKE m \in 1 .. n - 1
  <2>1. f[m + 1] = f[m] \o s[m + 1] /\ f[m] \in Seq(T) /\ s[m + 1] \in Seq(T)
    BY <1>2, <1>3
  <2>. QED BY <2>1, TextsJoin
<1>. DEFINE H == {m \in 1 .. n : Has(f[m], t) <=> \E i \in 1 .. m : Has(s[i], t)}
           P(m) == /\ \A i \in 1 .. m : Once(s[i], t)
                   /\ \A i, j \in 1 .. m : Has(s[i], t) /\ Has(s[j], t) => i = j
           O == {m \in 1 .. n : Once(f[m], t) <=> P(m)}
<1>a. \A m \in 1 .. n - 1 : \A i : i \in 1 .. m + 1 <=> i \in 1 .. m \/ i = m + 1
  BY <1>2
<1>b. \A m \in 1 .. n - 1 : m + 1 \notin 1 .. m
  BY <1>2
<1>5. \A m \in 1 .. n : m \in H
  <2>1. 1 \in H
    <3>1. 1 \in 1 .. n /\ 1 .. 1 = {1}
      BY <1>2
    <3>. QED BY <3>1, <1>3
  <2>2. ASSUME NEW m \in 1 .. n - 1, m \in H PROVE m + 1 \in H
    BY <2>2, <1>a, <1>3, <1>4
  <2>. HIDE DEF H
  <2>3. \A m \in 1 .. n - 1 : m \in H => m + 1 \in H
    BY <2>2
  <2>. QED BY <2>1, <2>3, <1>2, UpTo
<1>6. \A m \in 1 .. n : Has(f[m], t) <=> \E i \in 1 .. m : Has(s[i], t)
  BY <1>5
<1>. HIDE DEF H
<1>7. \A m \in 1 .. n : m \in O
  <2>1. 1 \in O
    <3>1. 1 \in 1 .. n /\ 1 .. 1 = {1}
      BY <1>2
    <3>2. P(1) <=> Once(s[1], t)
      BY <3>1
    <3>. HIDE DEF P
    <3>. QED BY <3>1, <3>2, <1>3
  <2>2. ASSUME NEW m \in 1 .. n - 1, m \in O PROVE m + 1 \in O
    <3>1. Once(f[m], t) <=> P(m)
      BY <2>2
    <3>2. P(m + 1) <=> P(m) /\ Once(s[m + 1], t) /\ ~((\E i \in 1 .. m : Has(s[i], t)) /\ Has(s[m + 1], t))
      BY <1>a, <1>b
    <3>3. m \in 1 .. n /\ m + 1 \in 1 .. n
      BY <1>3
    <3>. HIDE DEF P
    <3>4. Once(f[m + 1], t) <=> P(m + 1)
      BY <3>1, <3>2, <3>3, <1>4, <1>6
    <3>. QED BY <3>3, <3>4
  <2>. HIDE DEF O
  <2>3. \A m \in 1 .. n - 1 : m \in O => m + 1 \in O
    BY <2>2
  <2>. QED BY <2>1, <2>3, <1>2, UpTo
<1>8. n \in 1 .. n /\ f[n] \in Seq(T)
  BY <1>1, <1>2
<1>9. Once(f[n], t) <=> P(n)
  BY <1>7, <1>8
<1>10. P(n) <=> Apart(s, t)
  BY <1>2 DEF Apart
<1>. HIDE DEF P, O
<1>. QED BY <1>1, <1>2, <1>6, <1>8, <1>9, <1>10

\* The texts of the cells of a merge, h rows of w, and what joining makes.
Block(T, h, w) == [1 .. h -> [1 .. w -> Seq(T)]]
Joined(old) == FlattenSeq([r \in DOMAIN old |-> FlattenSeq(old[r])])

\* Each piece stands in one cell of the block, and once.
Spread(old, h, w, t) ==
    /\ \A r \in 1 .. h, c \in 1 .. w : Once(old[r][c], t)
    /\ \A r, k \in 1 .. h : \A c, d \in 1 .. w : Has(old[r][c], t) /\ Has(old[k][d], t) => r = k /\ c = d

LEMMA JoinedBlock ==
    ASSUME NEW T, NEW h \in Nat \ {0}, NEW w \in Nat \ {0}, NEW old \in Block(T, h, w), NEW t
    PROVE  /\ Joined(old) \in Seq(T)
           /\ Has(Joined(old), t) <=> \E r \in 1 .. h, c \in 1 .. w : Has(old[r][c], t)
           /\ Once(Joined(old), t) <=> Spread(old, h, w, t)
<1>. DEFINE line == [r \in DOMAIN old |-> FlattenSeq(old[r])]
<1>1. DOMAIN old = 1 .. h /\ \A r \in 1 .. h : old[r] \in [1 .. w -> Seq(T)]
  BY DEF Block
<1>2. ASSUME NEW r \in 1 .. h
      PROVE  /\ FlattenSeq(old[r]) \in Seq(T)
             /\ Has(FlattenSeq(old[r]), t) <=> \E c \in 1 .. w : Has(old[r][c], t)
             /\ Once(FlattenSeq(old[r]), t) <=> Apart(old[r], t)
             /\ DOMAIN old[r] = 1 .. w
  <2>1. old[r] \in [1 .. w -> Seq(T)] /\ w \in Nat /\ w >= 1
    BY <1>1
  <2>2. old[r] \in Seq(Seq(T)) /\ DOMAIN old[r] = 1 .. w
    BY <2>1
  <2>3. old[r] # <<>>
    <3>1. 1 \in 1 .. w
      BY <2>1
    <3>. QED BY <3>1, <2>2
  <2>. QED BY <2>2, <2>3, Flattened
<1>3. line \in Seq(Seq(T)) /\ DOMAIN line = 1 .. h /\ line # <<>>
  <2>1. line \in [1 .. h -> Seq(T)]
    BY <1>1, <1>2
  <2>2. h \in Nat /\ 1 \in 1 .. h
    OBVIOUS
  <2>. HIDE DEF line
  <2>3. line \in Seq(Seq(T)) /\ DOMAIN line = 1 .. h
    BY <2>1, <2>2
  <2>. QED BY <2>2, <2>3
<1>4. \A r \in 1 .. h : line[r] = FlattenSeq(old[r])
  BY <1>1
<1>5. Joined(old) = FlattenSeq(line)
  BY DEF Joined
<1>. HIDE DEF line
<1>6. /\ FlattenSeq(line) \in Seq(T)
      /\ Has(FlattenSeq(line), t) <=> \E r \in 1 .. h : Has(line[r], t)
      /\ Once(FlattenSeq(line), t) <=> Apart(line, t)
  BY <1>3, Flattened
<1>7. Has(Joined(old), t) <=> \E r \in 1 .. h, c \in 1 .. w : Has(old[r][c], t)
  BY <1>2, <1>4, <1>5, <1>6
<1>8. \A r \in 1 .. h : /\ Has(line[r], t) <=> \E c \in 1 .. w : Has(old[r][c], t)
                        /\ Once(line[r], t) <=> Apart(old[r], t)
  BY <1>2, <1>4
<1>9. Apart(line, t) <=> Spread(old, h, w, t)
  <2>1. \A r \in 1 .. h : Apart(old[r], t) <=>
           /\ \A c \in 1 .. w : Once(old[r][c], t)
           /\ \A c, d \in 1 .. w : Has(old[r][c], t) /\ Has(old[r][d], t) => c = d
    BY <1>2 DEF Apart
  <2>2. Apart(line, t) <=>
           /\ \A r \in 1 .. h : Apart(old[r], t)
           /\ \A r, k \in 1 .. h : Has(line[r], t) /\ Has(line[k], t) => r = k
    BY <1>3, <1>8 DEF Apart
  <2>3. ASSUME Apart(line, t) PROVE Spread(old, h, w, t)
    <3>1. ASSUME NEW r \in 1 .. h, NEW k \in 1 .. h, NEW c \in 1 .. w, NEW d \in 1 .. w, Has(old[r][c], t), Has(old[k][d], t)
          PROVE  r = k /\ c = d
      <4>1. Has(line[r], t) /\ Has(line[k], t)
        BY <3>1, <1>8
      <4>2. r = k
        BY <4>1, <2>2, <2>3
      <4>. QED BY <4>2, <3>1, <2>1, <2>2, <2>3
    <3>2. \A r \in 1 .. h, c \in 1 .. w : Once(old[r][c], t)
      BY <2>1, <2>2, <2>3
    <3>. QED BY <3>1, <3>2 DEF Spread
  <2>4. ASSUME Spread(old, h, w, t) PROVE Apart(line, t)
    <3>1. \A r \in 1 .. h : Apart(old[r], t)
      BY <2>1, <2>4 DEF Spread
    <3>2. \A r, k \in 1 .. h : Has(line[r], t) /\ Has(line[k], t) => r = k
      BY <2>4, <1>8 DEF Spread
    <3>. QED BY <3>1, <3>2, <2>2
  <2>. QED BY <2>3, <2>4
<1>. QED BY <1>5, <1>6, <1>7, <1>9

-----------------------------------------------------------------------------
(* The texts of the grid.                                                  *)

Blank(c) == c.content = <<>> /\ c.mergeSnapshot = NoSnapshot

\* The texts a merged cell keeps fit into the rectangle it shows.
KeptFits(c) ==
    \E h, w \in Nat \ {0} : /\ h <= c.span[1] /\ w <= c.span[2]
                            /\ c.mergeSnapshot.contents \in Block(Texts, h, w)
                            /\ c.mergeSnapshot.joined = Joined(c.mergeSnapshot.contents)

\* An absorbed cell has no text of its own.
CellText(c) ==
    /\ c.content \in Seq(Texts)
    /\ c.isSpanned => Blank(c)
    /\ c.mergeSnapshot = NoSnapshot \/ KeptFits(c)

\* Each piece stands in one cell of the grid, and once.
Distinct(g) ==
    /\ \A t : \A p \in DOMAIN g : Once(g[p].content, t)
    /\ \A t : \A p, q \in DOMAIN g : Has(g[p].content, t) /\ Has(g[q].content, t) => p = q

TextsFit(g) == (\A p \in DOMAIN g : CellText(g[p])) /\ Distinct(g)

\* Each piece of g stands in h.
KeepsTexts(g, h) ==
    \A t : \A q \in DOMAIN g : Has(g[q].content, t) => \E p \in DOMAIN h : Has(h[p].content, t)

\* Cell d has the texts of cell c, and its kept texts or none.
Follows(c, d) ==
    /\ d.content = c.content
    /\ d.isSpanned => Blank(c)
    /\ \/ d.mergeSnapshot = NoSnapshot
       \/ d.mergeSnapshot = c.mergeSnapshot /\ c.span[1] <= d.span[1] /\ c.span[2] <= d.span[2]

LEMMA BlankText ==
    ASSUME NEW c, Blank(c)
    PROVE  CellText(c) /\ \A t : Once(c.content, t) /\ ~Has(c.content, t)
<1>1. c.content = <<>> /\ c.mergeSnapshot = NoSnapshot
  BY DEF Blank
<1>2. c.content \in Seq(Texts)
  BY <1>1
<1>3. \A i : i \notin DOMAIN c.content
  BY <1>1
<1>. QED
  BY <1>1, <1>2, <1>3 DEF CellText, Blank, Once, Has

LEMMA FollowsText ==
    ASSUME NEW c, NEW d, CellText(c), c.span \in SpanPair, d.span \in SpanPair, Follows(c, d)
    PROVE  CellText(d)
<1>1. d.content = c.content /\ c.content \in Seq(Texts)
  BY DEF Follows, CellText
<1>2. d.isSpanned => Blank(d)
  BY DEF Follows, Blank
<1>3. ASSUME d.mergeSnapshot # NoSnapshot
      PROVE  KeptFits(d)
  <2>1. d.mergeSnapshot = c.mergeSnapshot /\ c.span[1] <= d.span[1] /\ c.span[2] <= d.span[2]
    BY <1>3 DEF Follows
  <2>2. KeptFits(c)
    BY <1>3, <2>1 DEF CellText
  <2>3. PICK h \in Nat \ {0}, w \in Nat \ {0} :
           /\ h <= c.span[1] /\ w <= c.span[2]
           /\ c.mergeSnapshot.contents \in Block(Texts, h, w)
           /\ c.mergeSnapshot.joined = Joined(c.mergeSnapshot.contents)
    BY <2>2 DEF KeptFits
  <2>4. c.span[1] \in Nat /\ c.span[2] \in Nat /\ d.span[1] \in Nat /\ d.span[2] \in Nat
    BY DEF SpanPair
  <2>5. h <= d.span[1] /\ w <= d.span[2]
    BY <2>1, <2>3, <2>4
  <2>. QED
    BY <2>1, <2>3, <2>5 DEF KeptFits
<1>. QED
  BY <1>1, <1>2, <1>3 DEF CellText

\* A grid whose cells are blank or follow cells of a grid that fits, no two
\* the same one, fits.
LEMMA CarriedTexts ==
    ASSUME NEW g, TextsFit(g), NEW h, NEW from,
           \A p \in DOMAIN g : g[p].span \in SpanPair,
           \A p \in DOMAIN h : h[p].span \in SpanPair,
           \A p \in DOMAIN h : Blank(h[p]) \/ (from[p] \in DOMAIN g /\ Follows(g[from[p]], h[p])),
           \A p, q \in DOMAIN h : ~Blank(h[p]) /\ ~Blank(h[q]) /\ from[p] = from[q] => p = q
    PROVE  TextsFit(h)
<1>1. ASSUME NEW p \in DOMAIN h, ~Blank(h[p])
      PROVE  from[p] \in DOMAIN g /\ CellText(h[p]) /\ h[p].content = g[from[p]].content
  <2>1. from[p] \in DOMAIN g /\ Follows(g[from[p]], h[p])
    BY <1>1
  <2>2. CellText(g[from[p]])
    BY <2>1 DEF TextsFit
  <2>3. CellText(h[p])
    BY <2>1, <2>2, FollowsText
  <2>. QED
    BY <2>1, <2>3 DEF Follows
<1>2. \A p \in DOMAIN h : CellText(h[p])
  BY <1>1, BlankText
<1>3. ASSUME NEW t, NEW p \in DOMAIN h
      PROVE  Once(h[p].content, t)
  <2>1. CASE Blank(h[p])
    BY <2>1, BlankText
  <2>2. CASE ~Blank(h[p])
    BY <1>1, <2>2 DEF TextsFit, Distinct
  <2>. QED
    BY <2>1, <2>2
<1>4. ASSUME NEW t, NEW p \in DOMAIN h, NEW q \in DOMAIN h, Has(h[p].content, t), Has(h[q].content, t)
      PROVE  p = q
  <2>1. ~Blank(h[p]) /\ ~Blank(h[q])
    BY <1>4, BlankText
  <2>2. from[p] \in DOMAIN g /\ from[q] \in DOMAIN g /\ h[p].content = g[from[p]].content
        /\ h[q].content = g[from[q]].content
    BY <1>1, <2>1
  <2>3. from[p] = from[q]
    BY <1>4, <2>2 DEF TextsFit, Distinct
  <2>. QED
    BY <2>1, <2>3
<1>. QED
  BY <1>2, <1>3, <1>4 DEF TextsFit, Distinct

\* The pieces a reader sees are those the cells have.
LEMMA VisibleAre ==
    ASSUME NEW g, TextsFit(g)
    PROVE  VisibleTexts(g) = {t \in Texts : \E p \in DOMAIN g : Has(g[p].content, t)}
<1>1. ASSUME NEW t, NEW p \in DOMAIN g, Has(g[p].content, t)
      PROVE  ~g[p].isSpanned
  BY <1>1, BlankText DEF TextsFit, CellText
<1>. QED
  BY <1>1 DEF VisibleTexts, Holds, Has

LEMMA NothingGone ==
    ASSUME NEW g, NEW h, TextsFit(g), TextsFit(h), KeepsTexts(g, h)
    PROVE  VisibleTexts(g) \ VisibleTexts(h) = {}
BY VisibleAre DEF KeepsTexts

-----------------------------------------------------------------------------
(* Insertion.                                                              *)

LEMMA SameTexts ==
    ASSUME NEW c, CellShape(c), NEW axis \in 1 .. 2, NEW n, NEW o,
           NEW d, d = Rewritten(c, axis, n, o)
    PROVE  d.content = c.content /\ d.mergeSnapshot = c.mergeSnapshot
BY DEF CellShape, Rewritten

LEMMA ApplyTexts ==
    ASSUME NEW g, NEW M, NEW p \in DOMAIN g, CellShape(g[p])
    PROVE  /\ applyMergesToGrid(g, M)[p].content = g[p].content
           /\ applyMergesToGrid(g, M)[p].mergeSnapshot = g[p].mergeSnapshot
<1>. DEFINE absorbers == {m \in M : Covers(m, p) /\ m.at # p}
            leads == {m \in M : m.at = p}
            o == (CHOOSE m \in absorbers : TRUE).at
            s == IF leads = {} THEN <<1, 1>> ELSE (CHOOSE m \in leads : TRUE).span
            d == applyMergesToGrid(g, M)[p]
<1>1. d = IF absorbers # {}
          THEN [g[p] EXCEPT !.span = <<1, 1>>, !.isSpanned = TRUE, !.spanOrigin = o]
          ELSE [g[p] EXCEPT !.span = s, !.isSpanned = FALSE, !.spanOrigin = NoOrigin]
  BY DEF applyMergesToGrid
<1>. HIDE DEF absorbers, o, s, d
<1>2. d.content = g[p].content /\ d.mergeSnapshot = g[p].mergeSnapshot
  BY <1>1 DEF CellShape
<1>. QED
  BY <1>2 DEF d

\* Where a cell of the larger grid was before the line came.
Source(p, axis, i) == IF p[axis] > i THEN Moved(p, axis, -1) ELSE p

LEMMA OpenedTexts ==
    ASSUME IInv, NEW axis \in 1 .. 2, NEW i \in 0 .. <<rows, cols>>[axis], NEW headers,
           NEW p \in DOMAIN Opened(axis, i, headers), NEW c, c = Opened(axis, i, headers)[p],
           NEW q, q = Source(p, axis, i)
    PROVE  /\ p[axis] = i => Blank(c)
           /\ p[axis] # i => c.content = grid[q].content /\ c.mergeSnapshot = grid[q].mergeSnapshot
<1>1. CASE p[axis] = i
  <2>1. c = Single(<<>>, p[1] \in headers)
    BY <1>1 DEF Opened
  <2>. QED
    BY <1>1, <2>1 DEF Single, Blank
<1>2. CASE p[axis] # i
  <2>1. q \in DOMAIN grid
    BY <1>2, OpenedCells DEF Source
  <2>2. CellShape(grid[q])
    BY <2>1 DEF IInv, GoodGrid
  <2>. DEFINE old == grid[q]
              cut == ~old.isSpanned /\ p[axis] < i /\ p[axis] + old.span[axis] > i
              shifted == old.isSpanned /\ old.spanOrigin[axis] >= i
              n == IF cut THEN old.span[axis] + 1 ELSE old.span[axis]
              o == IF shifted THEN Moved(old.spanOrigin, axis, 1) ELSE old.spanOrigin
  <2>3. c = Rewritten(old, axis, n, o)
    BY <1>2 DEF Opened, Rewritten, Source
  <2>. HIDE DEF n, o
  <2>. QED
    BY <1>2, <2>2, <2>3, SameTexts
<1>. QED
  BY <1>1, <1>2

LEMMA SourceAt ==
    ASSUME NEW p \in Position, NEW axis \in 1 .. 2, NEW i \in Nat, NEW q, q = Source(p, axis, i), p[axis] # i
    PROVE  /\ q \in Position
           /\ q[axis] = IF p[axis] > i THEN p[axis] - 1 ELSE p[axis]
           /\ q[3 - axis] = p[3 - axis]
<1>1. p[axis] \in Nat /\ p \in Int \X Int /\ p[3 - axis] \in Nat
  BY PairType DEF Position
<1>. QED
  BY <1>1 DEF Source, Moved, Position

\* What a merge that moves or grows has at its corner.
LEMMA OpenCorner ==
    ASSUME NEW m \in MergeRec, NEW axis \in 1 .. 2, NEW i \in Nat, NEW p \in Position, p[axis] # i,
           m.at = Source(p, axis, i)
    PROVE  OpenMerge(m, axis, i).at = p
<1>. DEFINE o == OpenMerge(m, axis, i)
<1>1. /\ o \in MergeRec
      /\ o.at[3 - axis] = m.at[3 - axis]
      /\ m.at[axis] >= i => o.at[axis] = m.at[axis] + 1
      /\ m.at[axis] < i => o.at = m.at
      /\ o.at \in Int \X Int
  BY OpenMergeShape
<1>. HIDE DEF o
<1>2. /\ m.at[axis] = IF p[axis] > i THEN p[axis] - 1 ELSE p[axis]
      /\ m.at[3 - axis] = p[3 - axis]
  BY SourceAt
<1>3. p[axis] \in Nat /\ p \in Int \X Int
  BY PairType DEF Position
<1>4. o.at[axis] = p[axis] /\ o.at[3 - axis] = p[3 - axis]
  BY <1>1, <1>2, <1>3
<1>. QED
  BY <1>1, <1>3, <1>4, PairEqual DEF o

LEMMA OpenGrows ==
    ASSUME NEW m \in MergeRec, NEW axis \in 1 .. 2, NEW i \in Nat
    PROVE  /\ m.span[1] <= OpenMerge(m, axis, i).span[1]
           /\ m.span[2] <= OpenMerge(m, axis, i).span[2]
<1>. DEFINE o == OpenMerge(m, axis, i)
<1>1. /\ o \in MergeRec
      /\ o.span[3 - axis] = m.span[3 - axis]
      /\ m.at[axis] >= i => o.span = m.span
      /\ m.at[axis] < i /\ m.at[axis] + m.span[axis] > i => o.span[axis] = m.span[axis] + 1
      /\ m.at[axis] < i /\ m.at[axis] + m.span[axis] <= i => o.span = m.span
  BY OpenMergeShape
<1>. HIDE DEF o
<1>2. /\ m.at[axis] \in Nat /\ m.span[axis] \in Nat /\ m.span[1] \in Nat /\ m.span[2] \in Nat
  BY PairType DEF MergeRec, Position, SpanPair
<1>3. m.span[axis] <= o.span[axis] /\ m.span[3 - axis] <= o.span[3 - axis]
  BY <1>1, <1>2
<1>4. axis = 1 \/ axis = 2
  OBVIOUS
<1>. QED
  BY <1>3, <1>4 DEF o

\* Each cell of the larger grid is new and blank, or has what the cell had it
\* was before, with at least its spans.
LEMMA InsertedFollows ==
    ASSUME IInv, TextsFit(grid), NEW axis \in 1 .. 2, NEW i \in 0 .. <<rows, cols>>[axis], NEW headers,
           NEW p \in DOMAIN Inserted(axis, i, headers), NEW d, d = Inserted(axis, i, headers)[p],
           NEW q, q = Source(p, axis, i)
    PROVE  /\ p \in Position /\ d.span \in SpanPair
           /\ p[axis] = i => Blank(d)
           /\ p[axis] # i => q \in DOMAIN grid /\ Follows(grid[q], d)
<1>. DEFINE g == Opened(axis, i, headers)
            old == gridToMerges(grid)
            M == OpenAll(old, axis, i)
            h == Inserted(axis, i, headers)
<1>1. h = applyMergesToGrid(g, M)
  BY OpenedMerges DEF Inserted
<1>2. DOMAIN h = DOMAIN g
  BY <1>1 DEF applyMergesToGrid
<1>3. (\A x \in DOMAIN h : CellShape(h[x])) /\ Carries(h, M)
  BY InsertedGood DEF GoodGrid
<1>4. p \in DOMAIN g /\ p \in Position /\ CellShape(g[p])
  BY <1>2, OpenedCells
<1>5. d.content = g[p].content /\ d.mergeSnapshot = g[p].mergeSnapshot
  BY <1>1, <1>4, ApplyTexts
<1>6. d.span \in SpanPair
  BY <1>3 DEF CellShape
<1>7. p[axis] = i => Blank(d)
  BY <1>4, <1>5, OpenedTexts DEF Blank
<1>8. i \in Nat
  BY GridMerges
<1>9. ASSUME p[axis] # i
      PROVE  q \in DOMAIN grid /\ Follows(grid[q], d)
  <2>. DEFINE c == grid[q]
  <2>1. q \in DOMAIN grid /\ q \in Position
    BY <1>4, <1>9, OpenedCells DEF Source
  <2>2. CellShape(c) /\ CellText(c) /\ Carries(grid, old) /\ (\A m \in old : m \in MergeRec)
    BY <2>1, GridMerges DEF IInv, GoodGrid, TextsFit
  <2>3. d.content = c.content /\ d.mergeSnapshot = c.mergeSnapshot
    BY <1>4, <1>5, <1>9, OpenedTexts
  <2>. HIDE DEF old, M, h, g
  <2>4. ASSUME d.isSpanned
        PROVE  c.isSpanned
    <3>1. PICK o \in M : Covers(o, p) /\ o.at # p
      BY <1>3, <2>4 DEF Carries, h
    <3>2. PICK m \in old : o = OpenMerge(m, axis, i)
      BY <3>1 DEF M, OpenAll
    <3>3. m \in MergeRec
      BY <2>2, <3>2
    <3>4. Covers(m, q)
      BY <1>4, <1>8, <3>1, <3>2, <3>3, OpenCovers DEF Source
    <3>5. m.at # q
      BY <1>4, <1>8, <1>9, <3>1, <3>2, <3>3, OpenCorner
    <3>. QED
      BY <2>1, <2>2, <3>2, <3>4, <3>5 DEF Carries
  <2>5. d.isSpanned => Blank(c)
    BY <2>2, <2>4 DEF CellText
  <2>6. ASSUME d.mergeSnapshot # NoSnapshot
        PROVE  c.span[1] <= d.span[1] /\ c.span[2] <= d.span[2]
    <3>1. ~c.isSpanned
      BY <2>2, <2>3, <2>6 DEF CellText, Blank
    <3>2. d.span[1] \in Nat \ {0} /\ d.span[2] \in Nat \ {0}
      BY <1>6 DEF SpanPair
    <3>3. CASE c.span = <<1, 1>>
      BY <3>2, <3>3
    <3>4. CASE c.span # <<1, 1>>
      <4>. DEFINE m == [at |-> q, span |-> c.span]
                  o == OpenMerge(m, axis, i)
      <4>1. m \in old /\ m.at = q /\ m.span = c.span
        BY <2>1, <3>1, <3>4 DEF gridToMerges, old
      <4>2. o \in M /\ m \in MergeRec
        BY <2>2, <4>1 DEF M, OpenAll
      <4>. HIDE DEF m
      <4>3. o.at = p
        BY <1>4, <1>8, <1>9, <4>1, <4>2, OpenCorner
      <4>4. m.span[1] <= o.span[1] /\ m.span[2] <= o.span[2]
        BY <1>8, <4>2, OpenGrows
      <4>. HIDE DEF o
      <4>5. d.span = o.span
        BY <1>3, <4>2, <4>3 DEF Carries, h
      <4>. QED
        BY <4>1, <4>4, <4>5
    <3>. QED
      BY <3>3, <3>4
  <2>. QED
    BY <2>1, <2>3, <2>5, <2>6 DEF Follows
<1>. QED
  BY <1>4, <1>6, <1>7, <1>9

\* The line a cell is on after a line came before it, or went.
Target(q, axis, i) == IF q[axis] >= i THEN Moved(q, axis, 1) ELSE q

LEMMA SourceOnce ==
    ASSUME NEW axis \in 1 .. 2, NEW i \in Nat, NEW p \in Position, NEW q \in Position,
           p[axis] # i, q[axis] # i, Source(p, axis, i) = Source(q, axis, i)
    PROVE  p = q
<1>. DEFINE s == Source(p, axis, i)
            t == Source(q, axis, i)
<1>1. /\ s[axis] = IF p[axis] > i THEN p[axis] - 1 ELSE p[axis]
      /\ s[3 - axis] = p[3 - axis]
      /\ t[axis] = IF q[axis] > i THEN q[axis] - 1 ELSE q[axis]
      /\ t[3 - axis] = q[3 - axis]
  BY SourceAt
<1>2. s = t
  OBVIOUS
<1>. HIDE DEF s, t
<1>3. p[axis] \in Nat /\ q[axis] \in Nat /\ p \in Int \X Int /\ q \in Int \X Int
  BY PairType DEF Position
<1>4. p[axis] = q[axis] /\ p[3 - axis] = q[3 - axis]
  BY <1>1, <1>2, <1>3
<1>. QED
  BY <1>3, <1>4, PairEqual

\* An insertion keeps every text where it was, in the table.
LEMMA InsertedTexts ==
    ASSUME IInv, TextsFit(grid), NEW axis \in 1 .. 2, NEW i \in 0 .. <<rows, cols>>[axis], NEW headers
    PROVE  TextsFit(Inserted(axis, i, headers)) /\ KeepsTexts(grid, Inserted(axis, i, headers))
<1>. DEFINE h == Inserted(axis, i, headers)
            from == [p \in DOMAIN h |-> Source(p, axis, i)]
            size == SizeWith(axis, 1)
            now == <<rows, cols>>
<1>1. i \in Nat /\ rows \in Nat \ {0} /\ cols \in Nat \ {0} /\ DOMAIN grid = Cells(rows, cols)
  BY GridMerges
<1>2. /\ size \in Nat \X Nat /\ now \in Nat \X Nat
      /\ size[axis] = now[axis] + 1 /\ size[3 - axis] = now[3 - axis]
  BY <1>1, SizeWithAxis
<1>3. DOMAIN h = Cells(size[1], size[2])
  BY DEF Inserted, Opened, applyMergesToGrid
<1>4. \A p \in DOMAIN h : /\ p \in Position /\ h[p].span \in SpanPair
                          /\ p[axis] = i => Blank(h[p])
                          /\ p[axis] # i => Source(p, axis, i) \in DOMAIN grid /\ Follows(grid[Source(p, axis, i)], h[p])
  BY InsertedFollows
<1>5. DOMAIN grid = Cells(now[1], now[2])
  BY <1>1
<1>. HIDE DEF h, size, now
<1>6. \A p \in DOMAIN h : from[p] = Source(p, axis, i)
  OBVIOUS
<1>. HIDE DEF from
<1>7. \A p \in DOMAIN grid : grid[p].span \in SpanPair
  BY GridMerges DEF CellShape
<1>8. \A p \in DOMAIN h : Blank(h[p]) \/ (from[p] \in DOMAIN grid /\ Follows(grid[from[p]], h[p]))
  BY <1>4, <1>6
<1>9. \A p, q \in DOMAIN h : ~Blank(h[p]) /\ ~Blank(h[q]) /\ from[p] = from[q] => p = q
  BY <1>1, <1>4, <1>6, SourceOnce
<1>10. TextsFit(h)
  BY <1>4, <1>7, <1>8, <1>9, CarriedTexts
<1>11. ASSUME NEW q \in DOMAIN grid
       PROVE  \E p \in DOMAIN h : h[p].content = grid[q].content
  <2>. DEFINE p == Target(q, axis, i)
  <2>1. q \in Position
    BY GridMerges
  <2>2. q[axis] \in Nat /\ q[3 - axis] \in Nat /\ q \in Int \X Int
    BY <2>1, PairType DEF Position
  <2>3. p \in Position
    BY <2>1, MovedPosition DEF Target
  <2>4. /\ p[axis] = IF q[axis] >= i THEN q[axis] + 1 ELSE q[axis]
        /\ p[3 - axis] = q[3 - axis]
    BY <2>2 DEF Target, Moved
  <2>5. q[axis] < now[axis] /\ q[3 - axis] < now[3 - axis]
    BY <1>2, <1>5, <2>1, CellsAxis
  <2>. HIDE DEF p
  <2>6. p[axis] < size[axis] /\ p[3 - axis] < size[3 - axis]
    BY <1>1, <1>2, <2>2, <2>4, <2>5
  <2>7. p \in DOMAIN h
    BY <1>2, <1>3, <2>3, <2>6, CellsAxis
  <2>8. p[axis] # i
    BY <1>1, <2>2, <2>4
  <2>9. Source(p, axis, i) = q
    <3>. DEFINE s == Source(p, axis, i)
    <3>1. s \in Position /\ s[axis] = (IF p[axis] > i THEN p[axis] - 1 ELSE p[axis]) /\ s[3 - axis] = p[3 - axis]
      BY <1>1, <2>3, <2>8, SourceAt
    <3>. HIDE DEF s
    <3>2. s[axis] = q[axis] /\ s[3 - axis] = q[3 - axis] /\ s \in Int \X Int
      BY <1>1, <2>2, <2>4, <3>1 DEF Position
    <3>. QED
      BY <2>2, <3>2, PairEqual DEF s
  <2>. QED
    BY <1>4, <2>7, <2>8, <2>9 DEF Follows
<1>12. KeepsTexts(grid, h)
  BY <1>11 DEF KeepsTexts
<1>. QED
  BY <1>10, <1>12 DEF h

-----------------------------------------------------------------------------
(* Deletion.                                                               *)

LEMMA BeforeOnce ==
    ASSUME NEW axis \in 1 .. 2, NEW i \in Nat, NEW p \in Position, NEW q \in Position,
           Before(p, axis, i) = Before(q, axis, i)
    PROVE  p = q
<1>. DEFINE s == Before(p, axis, i)
            t == Before(q, axis, i)
<1>1. /\ s[axis] = IF p[axis] >= i THEN p[axis] + 1 ELSE p[axis]
      /\ s[3 - axis] = p[3 - axis]
      /\ t[axis] = IF q[axis] >= i THEN q[axis] + 1 ELSE q[axis]
      /\ t[3 - axis] = q[3 - axis]
  BY BeforeAt
<1>2. s = t
  OBVIOUS
<1>. HIDE DEF s, t
<1>3. p[axis] \in Nat /\ q[axis] \in Nat /\ p \in Int \X Int /\ q \in Int \X Int
  BY PairType DEF Position
<1>4. p[axis] = q[axis] /\ p[3 - axis] = q[3 - axis]
  BY <1>1, <1>2, <1>3
<1>. QED
  BY <1>3, <1>4, PairEqual

\* Each cell of the smaller grid has what the cell had it was before.
LEMMA RemovedFollows ==
    ASSUME IInv, TextsFit(grid), NEW axis \in 1 .. 2, NEW i \in 0 .. <<rows, cols>>[axis] - 1,
           ~_hasAnyMergedCellsStrict(axis, i),
           NEW p \in DOMAIN Removed(axis, i), NEW d, d = Removed(axis, i)[p],
           NEW q, q = Before(p, axis, i)
    PROVE  /\ p \in Position /\ q \in DOMAIN grid
           /\ d.span = grid[q].span /\ d.isSpanned = grid[q].isSpanned
           /\ d.content = grid[q].content /\ d.mergeSnapshot = grid[q].mergeSnapshot
           /\ d.span \in SpanPair /\ Follows(grid[q], d)
<1>. DEFINE old == grid[q]
            spans == ~old.isSpanned /\ p[axis] < i /\ p[axis] + old.span[axis] > i
            n == IF spans THEN Max({1, old.span[axis] - 1}) ELSE old.span[axis]
            o == IF old.isSpanned /\ old.spanOrigin[axis] > i
                 THEN Moved(old.spanOrigin, axis, -1) ELSE old.spanOrigin
<1>1. /\ p \in Position /\ q \in DOMAIN grid /\ CellShape(d)
      /\ d.span = old.span /\ d.isSpanned = old.isSpanned
  BY RemovedCells
<1>2. CellShape(old) /\ CellText(old)
  BY <1>1 DEF IInv, GoodGrid, TextsFit
<1>3. d = Rewritten(old, axis, n, o)
  BY DEF Removed, Rewritten, Before
<1>. HIDE DEF n, o
<1>4. d.content = old.content /\ d.mergeSnapshot = old.mergeSnapshot
  BY <1>2, <1>3, SameTexts
<1>5. d.span \in SpanPair /\ d.span[1] \in Nat /\ d.span[2] \in Nat
  BY <1>1 DEF CellShape, SpanPair
<1>6. old.span[1] <= d.span[1] /\ old.span[2] <= d.span[2]
  BY <1>1, <1>5
<1>7. Follows(old, d)
  BY <1>1, <1>2, <1>4, <1>6 DEF Follows, CellText
<1>. QED
  BY <1>1, <1>4, <1>5, <1>7

\* A deletion takes the texts of its line and no other.
LEMMA RemovedTexts ==
    ASSUME IInv, TextsFit(grid), NEW axis \in 1 .. 2, NEW i \in 0 .. <<rows, cols>>[axis] - 1,
           ~_hasAnyMergedCellsStrict(axis, i)
    PROVE  /\ TextsFit(Removed(axis, i))
           /\ \A t : \A q \in DOMAIN grid : Has(grid[q].content, t) /\ q[axis] # i =>
                 \E p \in DOMAIN Removed(axis, i) : Has(Removed(axis, i)[p].content, t)
<1>. DEFINE h == Removed(axis, i)
            from == [p \in DOMAIN h |-> Before(p, axis, i)]
            size == SizeWith(axis, -1)
            now == <<rows, cols>>
<1>1. i \in Nat /\ rows \in Nat \ {0} /\ cols \in Nat \ {0} /\ DOMAIN grid = Cells(rows, cols)
  BY GridMerges
<1>2. /\ now \in Nat \X Nat /\ now[axis] \in Nat \ {0} /\ now[3 - axis] \in Nat \ {0}
      /\ size[axis] = now[axis] - 1 /\ size[3 - axis] = now[3 - axis]
      /\ size \in Nat \X Nat
  BY <1>1 DEF SizeWith
<1>3. DOMAIN h = Cells(size[1], size[2])
  BY DEF Removed
<1>4. \A p \in DOMAIN h : /\ p \in Position /\ h[p].span \in SpanPair
                          /\ Before(p, axis, i) \in DOMAIN grid /\ Follows(grid[Before(p, axis, i)], h[p])
  BY RemovedFollows
<1>5. DOMAIN grid = Cells(now[1], now[2])
  BY <1>1
<1>5a. i < now[axis]
  BY <1>1, <1>2
<1>. HIDE DEF h, size, now
<1>6. \A p \in DOMAIN h : from[p] = Before(p, axis, i)
  OBVIOUS
<1>. HIDE DEF from
<1>7. \A p \in DOMAIN grid : grid[p].span \in SpanPair
  BY GridMerges DEF CellShape
<1>8. \A p \in DOMAIN h : from[p] \in DOMAIN grid /\ Follows(grid[from[p]], h[p])
  BY <1>4, <1>6
<1>9. \A p, q \in DOMAIN h : from[p] = from[q] => p = q
  BY <1>1, <1>4, <1>6, BeforeOnce
<1>10. TextsFit(h)
  BY <1>4, <1>7, <1>8, <1>9, CarriedTexts
<1>11. ASSUME NEW q \in DOMAIN grid, q[axis] # i
       PROVE  \E p \in DOMAIN h : h[p].content = grid[q].content
  <2>. DEFINE p == IF q[axis] > i THEN Moved(q, axis, -1) ELSE q
  <2>1. q \in Position
    BY GridMerges
  <2>2. q[axis] \in Nat /\ q[3 - axis] \in Nat /\ q \in Int \X Int
    BY <2>1, PairType DEF Position
  <2>3. p \in Position
    BY <1>1, <2>1, MovedBack
  <2>4. /\ p[axis] = IF q[axis] > i THEN q[axis] - 1 ELSE q[axis]
        /\ p[3 - axis] = q[3 - axis]
    BY <2>2 DEF Moved
  <2>5. q[axis] < now[axis] /\ q[3 - axis] < now[3 - axis]
    BY <1>2, <1>5, <2>1, CellsAxis
  <2>. HIDE DEF p
  <2>6. p[axis] < size[axis] /\ p[3 - axis] < size[3 - axis]
    BY <1>1, <1>2, <1>5a, <1>11, <2>2, <2>4, <2>5
  <2>7. p \in DOMAIN h
    BY <1>2, <1>3, <2>3, <2>6, CellsAxis
  <2>8. Before(p, axis, i) = q
    <3>. DEFINE s == Before(p, axis, i)
    <3>1. s \in Position /\ s[axis] = (IF p[axis] >= i THEN p[axis] + 1 ELSE p[axis]) /\ s[3 - axis] = p[3 - axis]
      BY <1>1, <2>3, BeforeAt
    <3>. HIDE DEF s
    <3>2. s[axis] = q[axis] /\ s[3 - axis] = q[3 - axis] /\ s \in Int \X Int
      BY <1>1, <1>11, <2>2, <2>4, <3>1 DEF Position
    <3>. QED
      BY <2>2, <3>2, PairEqual DEF s
  <2>. QED
    BY <1>4, <2>7, <2>8 DEF Follows
<1>12. \A t : \A q \in DOMAIN grid : Has(grid[q].content, t) /\ q[axis] # i =>
          \E p \in DOMAIN h : Has(h[p].content, t)
  BY <1>11
<1>. QED
  BY <1>10, <1>12 DEF h

-----------------------------------------------------------------------------
(* Typing, reloading, and the first table.                                 *)

LEMMA BlankGrid ==
    ASSUME NEW g, \A p \in DOMAIN g : Blank(g[p])
    PROVE  TextsFit(g)
BY BlankText DEF TextsFit, Distinct

LEMMA FollowsItself ==
    ASSUME NEW c, CellText(c), c.span \in SpanPair
    PROVE  Follows(c, c)
<1>1. c.span[1] <= c.span[1] /\ c.span[2] <= c.span[2]
  BY DEF SpanPair
<1>. QED
  BY <1>1 DEF Follows, CellText

LEMMA EditTexts ==
    ASSUME IInv, TextsFit(grid), NEW p \in DOMAIN grid,
           NEW text \in {<<>>} \cup {<<t>> : t \in Texts \ VisibleTexts(grid)}, EditCell(p, text)
    PROVE  TextsFit(grid')
<1>1. /\ grid' = [grid EXCEPT ![p].content = text] /\ ~grid[p].isSpanned
  BY DEF EditCell, Visible
<1>2. CellShape(grid[p]) /\ CellText(grid[p])
  BY GridMerges DEF TextsFit
<1>3. /\ DOMAIN grid' = DOMAIN grid
      /\ \A q \in DOMAIN grid : q # p => grid'[q] = grid[q]
      /\ grid'[p] = [grid[p] EXCEPT !.content = text]
  BY <1>1
<1>4. /\ grid'[p].content = text /\ grid'[p].isSpanned = grid[p].isSpanned
      /\ grid'[p].span = grid[p].span /\ grid'[p].mergeSnapshot = grid[p].mergeSnapshot
  BY <1>2, <1>3 DEF CellShape
<1>5. /\ text \in Seq(Texts)
      /\ \A t : Once(text, t)
      /\ \A t : Has(text, t) => t \in Texts \ VisibleTexts(grid)
  <2>1. CASE text = <<>>
    <3>1. \A i : i \notin DOMAIN text
      BY <2>1
    <3>2. text \in Seq(Texts)
      BY <2>1
    <3>. QED
      BY <3>1, <3>2 DEF Once, Has
  <2>2. CASE text # <<>>
    <3>1. PICK t \in Texts \ VisibleTexts(grid) : text = <<t>>
      BY <2>2
    <3>2. DOMAIN text = {1} /\ text[1] = t /\ text \in Seq(Texts)
      BY <3>1
    <3>. QED
      BY <3>2 DEF Once, Has
  <2>. QED
    BY <2>1, <2>2
<1>6. CellText(grid'[p])
  <2>1. grid'[p].mergeSnapshot = NoSnapshot \/ KeptFits(grid'[p])
    BY <1>2, <1>4 DEF CellText, KeptFits
  <2>. QED
    BY <1>1, <1>4, <1>5, <2>1 DEF CellText
<1>7. \A q \in DOMAIN grid' : CellText(grid'[q])
  BY <1>3, <1>6 DEF TextsFit
<1>8. \A t : Has(text, t) => \A q \in DOMAIN grid : ~Has(grid[q].content, t)
  BY <1>5, VisibleAre
<1>9. \A t : \A q \in DOMAIN grid' : Once(grid'[q].content, t)
  BY <1>3, <1>4, <1>5 DEF TextsFit, Distinct
<1>10. \A t : \A q, r \in DOMAIN grid' : Has(grid'[q].content, t) /\ Has(grid'[r].content, t) => q = r
  BY <1>3, <1>4, <1>8 DEF TextsFit, Distinct
<1>. QED
  BY <1>7, <1>9, <1>10 DEF TextsFit, Distinct

LEMMA ReloadTexts ==
    ASSUME IInv, TextsFit(grid), SaveAndReload
    PROVE  TextsFit(grid') /\ KeepsTexts(grid, grid')
<1>1. grid' = [p \in DOMAIN grid |-> [grid[p] EXCEPT !.mergeSnapshot = NoSnapshot]]
  BY DEF SaveAndReload
<1>2. DOMAIN grid' = DOMAIN grid
  BY <1>1
<1>3. ASSUME NEW p \in DOMAIN grid
      PROVE  /\ grid[p].span \in SpanPair /\ grid'[p].span \in SpanPair
             /\ grid'[p].content = grid[p].content /\ Follows(grid[p], grid'[p])
  <2>1. CellShape(grid[p]) /\ CellText(grid[p])
    BY GridMerges DEF TextsFit
  <2>2. grid'[p] = [grid[p] EXCEPT !.mergeSnapshot = NoSnapshot]
    BY <1>1
  <2>3. /\ grid'[p].content = grid[p].content /\ grid'[p].isSpanned = grid[p].isSpanned
        /\ grid'[p].span = grid[p].span /\ grid'[p].mergeSnapshot = NoSnapshot
    BY <2>1, <2>2 DEF CellShape
  <2>4. grid[p].span \in SpanPair
    BY <2>1 DEF CellShape
  <2>. QED
    BY <2>1, <2>3, <2>4 DEF Follows, CellText
<1>. DEFINE from == [p \in DOMAIN grid |-> p]
<1>4. \A p \in DOMAIN grid' : from[p] = p
  BY <1>2
<1>. HIDE DEF from
<1>5. TextsFit(grid')
  BY <1>2, <1>3, <1>4, CarriedTexts
<1>. QED
  BY <1>2, <1>3, <1>5 DEF KeepsTexts

LEMMA InitTexts ==
    ASSUME Init
    PROVE  TextsFit(grid)
<1>1. PICK t \in Presets : grid = Preset(t)
  BY DEF Init
<1>. DEFINE plain == [p \in Cells(t.rows, t.cols) |-> Single(<<>>, p[1] < t.headers)]
<1>2. grid = applyMergesToGrid(plain, t.merges)
  BY <1>1 DEF Preset
<1>3. \A p \in DOMAIN plain : CellShape(plain[p]) /\ Blank(plain[p])
  BY SingleShape DEF Blank, Single
<1>. HIDE DEF plain
<1>4. DOMAIN grid = DOMAIN plain
  BY <1>2 DEF applyMergesToGrid
<1>5. \A p \in DOMAIN grid : Blank(grid[p])
  BY <1>2, <1>3, <1>4, ApplyTexts DEF Blank
<1>. QED
  BY <1>5, BlankGrid

-----------------------------------------------------------------------------
(* Merging.                                                                *)

\* The texts of an area, row by row.
Contents(lo, hi) ==
    [r \in 1 .. hi[1] - lo[1] + 1 |-> [c \in 1 .. hi[2] - lo[2] + 1 |->
        grid[<<lo[1] + r - 1, lo[2] + c - 1>>].content]]

\* A cell of the area, by its place in it.
LEMMA AreaCells ==
    ASSUME IInv, NEW lo \in DOMAIN grid, NEW hi \in DOMAIN grid, lo[1] <= hi[1], lo[2] <= hi[2]
    PROVE  /\ \A r \in 1 .. hi[1] - lo[1] + 1, c \in 1 .. hi[2] - lo[2] + 1 :
                 <<lo[1] + r - 1, lo[2] + c - 1>> \in Area(lo, hi)
           /\ \A p \in Area(lo, hi) :
                 /\ p[1] - lo[1] + 1 \in 1 .. hi[1] - lo[1] + 1
                 /\ p[2] - lo[2] + 1 \in 1 .. hi[2] - lo[2] + 1
                 /\ p = <<lo[1] + (p[1] - lo[1] + 1) - 1, lo[2] + (p[2] - lo[2] + 1) - 1>>
           /\ lo \in Area(lo, hi)
           /\ hi[1] - lo[1] + 1 \in Nat \ {0} /\ hi[2] - lo[2] + 1 \in Nat \ {0}
<1>1. /\ \A p \in DOMAIN grid : /\ p \in Position /\ p = <<p[1], p[2]>>
                                /\ p[1] \in 0 .. rows - 1 /\ p[2] \in 0 .. cols - 1
      /\ DOMAIN grid = Cells(rows, cols) /\ rows \in Nat /\ cols \in Nat
  BY GridMerges
<1>2. /\ lo[1] \in 0 .. rows - 1 /\ lo[2] \in 0 .. cols - 1
      /\ hi[1] \in 0 .. rows - 1 /\ hi[2] \in 0 .. cols - 1
  BY <1>1
<1>3. ASSUME NEW r \in 1 .. hi[1] - lo[1] + 1, NEW c \in 1 .. hi[2] - lo[2] + 1
      PROVE  <<lo[1] + r - 1, lo[2] + c - 1>> \in Area(lo, hi)
  <2>1. lo[1] + r - 1 \in lo[1] .. hi[1] /\ lo[2] + c - 1 \in lo[2] .. hi[2]
    BY <1>1, <1>2
  <2>2. lo[1] + r - 1 \in 0 .. rows - 1 /\ lo[2] + c - 1 \in 0 .. cols - 1
    BY <1>1, <1>2, <2>1
  <2>3. <<lo[1] + r - 1, lo[2] + c - 1>> \in DOMAIN grid
    BY <1>1, <2>2 DEF Cells
  <2>. QED
    BY <1>1, <1>2, <2>1, <2>3 DEF Area
<1>4. ASSUME NEW p \in Area(lo, hi)
      PROVE  /\ p[1] - lo[1] + 1 \in 1 .. hi[1] - lo[1] + 1
             /\ p[2] - lo[2] + 1 \in 1 .. hi[2] - lo[2] + 1
             /\ p = <<lo[1] + (p[1] - lo[1] + 1) - 1, lo[2] + (p[2] - lo[2] + 1) - 1>>
  <2>1. /\ p \in DOMAIN grid /\ lo[1] <= p[1] /\ p[1] <= hi[1] /\ lo[2] <= p[2] /\ p[2] <= hi[2]
    BY DEF Area
  <2>2. p = <<p[1], p[2]>> /\ p[1] \in Nat /\ p[2] \in Nat
    BY <1>1, <2>1
  <2>3. lo[1] + (p[1] - lo[1] + 1) - 1 = p[1] /\ lo[2] + (p[2] - lo[2] + 1) - 1 = p[2]
    BY <1>1, <1>2, <2>2
  <2>4. /\ p[1] - lo[1] + 1 \in 1 .. hi[1] - lo[1] + 1
        /\ p[2] - lo[2] + 1 \in 1 .. hi[2] - lo[2] + 1
    BY <1>1, <1>2, <2>1, <2>2
  <2>. QED
    BY <2>2, <2>3, <2>4
<1>5. lo \in Area(lo, hi)
  BY <1>1, <1>2 DEF Area
<1>6. hi[1] - lo[1] + 1 \in Nat \ {0} /\ hi[2] - lo[2] + 1 \in Nat \ {0}
  BY <1>1, <1>2
<1>. QED
  BY <1>3, <1>4, <1>5, <1>6

\* The joined text has the pieces of the area, each once.
LEMMA ContentsJoin ==
    ASSUME IInv, TextsFit(grid), NEW lo \in DOMAIN grid, NEW hi \in DOMAIN grid,
           lo[1] <= hi[1], lo[2] <= hi[2]
    PROVE  /\ Contents(lo, hi) \in Block(Texts, hi[1] - lo[1] + 1, hi[2] - lo[2] + 1)
           /\ Joined(Contents(lo, hi)) \in Seq(Texts)
           /\ \A t : Once(Joined(Contents(lo, hi)), t)
           /\ \A t : Has(Joined(Contents(lo, hi)), t) <=> \E p \in Area(lo, hi) : Has(grid[p].content, t)
<1>. DEFINE h == hi[1] - lo[1] + 1
            w == hi[2] - lo[2] + 1
            old == Contents(lo, hi)
            at(r, c) == <<lo[1] + r - 1, lo[2] + c - 1>>
<1>1. /\ \A r \in 1 .. h, c \in 1 .. w : at(r, c) \in Area(lo, hi)
      /\ \A p \in Area(lo, hi) : /\ p[1] - lo[1] + 1 \in 1 .. h
                                 /\ p[2] - lo[2] + 1 \in 1 .. w
                                 /\ p = at(p[1] - lo[1] + 1, p[2] - lo[2] + 1)
      /\ h \in Nat \ {0} /\ w \in Nat \ {0}
  BY AreaCells
<1>2. \A p \in Area(lo, hi) : p \in DOMAIN grid /\ grid[p].content \in Seq(Texts)
  BY DEF Area, TextsFit, CellText
<1>3. lo[1] \in Nat /\ lo[2] \in Nat
  BY GridMerges
<1>4. /\ \A r \in 1 .. h, c \in 1 .. w : old[r][c] = grid[at(r, c)].content
      /\ old = [r \in 1 .. h |-> old[r]]
      /\ \A r \in 1 .. h : old[r] = [c \in 1 .. w |-> old[r][c]]
  BY DEF Contents
<1>5. \A r, k \in 1 .. h : \A c, d \in 1 .. w : at(r, c) = at(k, d) => r = k /\ c = d
  BY <1>1, <1>3
<1>. HIDE DEF h, w, old, at
<1>6. old \in Block(Texts, h, w)
  <2>1. \A r \in 1 .. h : old[r] \in [1 .. w -> Seq(Texts)]
    BY <1>1, <1>2, <1>4
  <2>. QED
    BY <1>4, <2>1 DEF Block
<1>7. /\ Joined(old) \in Seq(Texts)
      /\ \A t : Has(Joined(old), t) <=> \E r \in 1 .. h, c \in 1 .. w : Has(old[r][c], t)
      /\ \A t : Once(Joined(old), t) <=> Spread(old, h, w, t)
  BY <1>1, <1>6, JoinedBlock
<1>8. ASSUME NEW t
      PROVE  Spread(old, h, w, t)
  <2>1. ASSUME NEW r \in 1 .. h, NEW c \in 1 .. w
        PROVE  Once(old[r][c], t)
    <3>1. at(r, c) \in DOMAIN grid /\ old[r][c] = grid[at(r, c)].content
      BY <1>1, <1>2, <1>4
    <3>. QED
      BY <3>1 DEF TextsFit, Distinct
  <2>2. ASSUME NEW r \in 1 .. h, NEW k \in 1 .. h, NEW c \in 1 .. w, NEW d \in 1 .. w,
               Has(old[r][c], t), Has(old[k][d], t)
        PROVE  r = k /\ c = d
    <3>1. at(r, c) \in DOMAIN grid /\ at(k, d) \in DOMAIN grid
      BY <1>1, <1>2
    <3>2. Has(grid[at(r, c)].content, t) /\ Has(grid[at(k, d)].content, t)
      BY <1>4, <2>2
    <3>3. at(r, c) = at(k, d)
      BY <3>1, <3>2 DEF TextsFit, Distinct
    <3>. QED
      BY <1>5, <3>3
  <2>. QED
    BY <2>1, <2>2 DEF Spread
<1>9. ASSUME NEW t
      PROVE  (\E r \in 1 .. h, c \in 1 .. w : Has(old[r][c], t)) <=> \E p \in Area(lo, hi) : Has(grid[p].content, t)
  <2>1. ASSUME NEW r \in 1 .. h, NEW c \in 1 .. w, Has(old[r][c], t)
        PROVE  \E p \in Area(lo, hi) : Has(grid[p].content, t)
    BY <1>1, <1>4, <2>1
  <2>2. ASSUME NEW p \in Area(lo, hi), Has(grid[p].content, t)
        PROVE  \E r \in 1 .. h, c \in 1 .. w : Has(old[r][c], t)
    <3>1. PICK r \in 1 .. h, c \in 1 .. w : p = at(r, c)
      BY <1>1
    <3>2. Has(old[r][c], t)
      BY <1>4, <2>2, <3>1
    <3>. QED
      BY <3>2
  <2>. QED
    BY <2>1, <2>2
<1>. QED
  BY <1>6, <1>7, <1>8, <1>9 DEF h, w, old

\* What a merge makes of each cell.
LEMMA MergedCells ==
    ASSUME IInv, NEW lo \in DOMAIN grid, NEW hi \in DOMAIN grid,
           lo[1] <= hi[1], lo[2] <= hi[2],
           \A p \in Area(lo, hi) : ~grid[p].isSpanned
    PROVE  LET h == mergeRange(lo, hi)
           IN  /\ DOMAIN h = DOMAIN grid
               /\ h[lo].content = Joined(Contents(lo, hi))
               /\ h[lo].span = <<hi[1] - lo[1] + 1, hi[2] - lo[2] + 1>>
               /\ ~h[lo].isSpanned
               /\ h[lo].mergeSnapshot = [joined |-> Joined(Contents(lo, hi)), contents |-> Contents(lo, hi)]
               /\ \A p \in Area(lo, hi) : p # lo => Blank(h[p]) /\ h[p].isSpanned
               /\ \A p \in DOMAIN grid : p \notin Area(lo, hi) => h[p] = grid[p]
<1>. DEFINE h == mergeRange(lo, hi)
            joined == Joined(Contents(lo, hi))
            snap == [joined |-> joined, contents |-> Contents(lo, hi)]
            sp == <<hi[1] - lo[1] + 1, hi[2] - lo[2] + 1>>
<1>1. lo \in Area(lo, hi) /\ Area(lo, hi) \subseteq DOMAIN grid
  BY AreaCells DEF Area
<1>2. CellShape(grid[lo]) /\ ~grid[lo].isSpanned
  BY <1>1, GridMerges
<1>3. DOMAIN h = DOMAIN grid
  BY DEF mergeRange
<1>4. h[lo] = [grid[lo] EXCEPT !.content = joined, !.span = sp, !.mergeSnapshot = snap]
  BY DEF mergeRange, Joined, Contents
<1>5. \A p \in Area(lo, hi) : p # lo =>
         h[p] = [Single(<<>>, FALSE) EXCEPT !.isSpanned = TRUE, !.spanOrigin = lo]
  BY <1>1 DEF mergeRange
<1>6. \A p \in DOMAIN grid : p \notin Area(lo, hi) => h[p] = grid[p]
  BY <1>1 DEF mergeRange
<1>. HIDE DEF h, joined, snap, sp
<1>7. h[lo].content = joined /\ h[lo].span = sp /\ ~h[lo].isSpanned /\ h[lo].mergeSnapshot = snap
  BY <1>2, <1>4 DEF CellShape
<1>8. \A p \in Area(lo, hi) : p # lo => Blank(h[p]) /\ h[p].isSpanned
  BY <1>5 DEF Blank, Single
<1>. QED
  BY <1>3, <1>6, <1>7, <1>8 DEF h, joined, snap, sp

LEMMA MergeTexts ==
    ASSUME IInv, TextsFit(grid), NEW lo \in DOMAIN grid, NEW hi \in DOMAIN grid, mergeCells(lo, hi)
    PROVE  TextsFit(grid') /\ KeepsTexts(grid, grid')
<1>. DEFINE h == mergeRange(lo, hi)
            area == Area(lo, hi)
            old == Contents(lo, hi)
            joined == Joined(old)
            sp == <<hi[1] - lo[1] + 1, hi[2] - lo[2] + 1>>
<1>1. /\ lo[1] <= hi[1] /\ lo[2] <= hi[2] /\ grid' = h
      /\ \A p \in area : ~grid[p].isSpanned
  BY DEF mergeCells
<1>2. /\ DOMAIN h = DOMAIN grid
      /\ h[lo].content = joined /\ h[lo].span = sp /\ ~h[lo].isSpanned
      /\ h[lo].mergeSnapshot = [joined |-> joined, contents |-> old]
      /\ \A p \in area : p # lo => Blank(h[p]) /\ h[p].isSpanned
      /\ \A p \in DOMAIN grid : p \notin area => h[p] = grid[p]
  BY <1>1, MergedCells
<1>3. /\ old \in Block(Texts, sp[1], sp[2]) /\ joined \in Seq(Texts)
      /\ \A t : Once(joined, t)
      /\ \A t : Has(joined, t) <=> \E p \in area : Has(grid[p].content, t)
  BY <1>1, ContentsJoin
<1>4. sp[1] \in Nat \ {0} /\ sp[2] \in Nat \ {0} /\ lo \in area /\ area \subseteq DOMAIN grid
  BY <1>1, AreaCells DEF Area
<1>. HIDE DEF h, area, old, joined, sp
<1>5. CellText(h[lo])
  <2>1. KeptFits(h[lo])
    <3>1. sp[1] <= h[lo].span[1] /\ sp[2] <= h[lo].span[2]
      BY <1>2, <1>4
    <3>2. h[lo].mergeSnapshot.contents = old /\ h[lo].mergeSnapshot.joined = joined
      BY <1>2
    <3>. QED
      BY <1>3, <1>4, <3>1, <3>2 DEF KeptFits, joined
  <2>. QED
    BY <1>2, <1>3, <2>1 DEF CellText
<1>6. \A p \in DOMAIN h : CellText(h[p])
  BY <1>2, <1>5, BlankText DEF TextsFit
<1>7. \A p \in DOMAIN h : \A t : Has(h[p].content, t) =>
         \E q \in DOMAIN grid : Has(grid[q].content, t) /\ (IF p = lo THEN q \in area ELSE q = p /\ q \notin area)
  BY <1>2, <1>3, <1>4, BlankText
<1>8. \A t : \A p \in DOMAIN h : Once(h[p].content, t)
  BY <1>2, <1>3, BlankText DEF TextsFit, Distinct
<1>9. ASSUME NEW t, NEW p \in DOMAIN h, NEW q \in DOMAIN h, Has(h[p].content, t), Has(h[q].content, t)
      PROVE  p = q
  <2>1. PICK x \in DOMAIN grid : Has(grid[x].content, t) /\ (IF p = lo THEN x \in area ELSE x = p /\ x \notin area)
    BY <1>7, <1>9
  <2>2. PICK y \in DOMAIN grid : Has(grid[y].content, t) /\ (IF q = lo THEN y \in area ELSE y = q /\ y \notin area)
    BY <1>7, <1>9
  <2>3. x = y
    BY <2>1, <2>2 DEF TextsFit, Distinct
  <2>. QED
    BY <2>1, <2>2, <2>3
<1>10. TextsFit(h)
  BY <1>6, <1>8, <1>9 DEF TextsFit, Distinct
<1>11. ASSUME NEW t, NEW q \in DOMAIN grid, Has(grid[q].content, t)
       PROVE  \E p \in DOMAIN h : Has(h[p].content, t)
  <2>1. CASE q \in area
    BY <1>2, <1>3, <1>4, <1>11, <2>1
  <2>2. CASE q \notin area
    BY <1>2, <1>11, <2>2
  <2>. QED
    BY <2>1, <2>2
<1>. QED
  BY <1>1, <1>10, <1>11 DEF KeepsTexts

-----------------------------------------------------------------------------
(* Separating.                                                             *)

\* What the kept texts have for a place in the rectangle.
KeptAt(old, r, c) ==
    IF r \in DOMAIN old THEN IF c \in DOMAIN old[r] THEN old[r][c] ELSE <<>> ELSE <<>>

LEMMA UnmergedCells ==
    ASSUME IInv, NEW at \in DOMAIN grid
    PROVE  LET h == unmergeAt(at)
               old == grid[at].mergeSnapshot.contents
           IN  /\ DOMAIN h = DOMAIN grid
               /\ \A p \in DOMAIN grid : ~Covers(LeadMerge(at), p) => h[p] = grid[p]
               /\ \A p \in DOMAIN grid : Covers(LeadMerge(at), p) =>
                     /\ ~h[p].isSpanned /\ h[p].mergeSnapshot = NoSnapshot /\ h[p].span = <<1, 1>>
                     /\ h[p].content = IF canRestore(grid[at]) THEN KeptAt(old, p[1] - at[1] + 1, p[2] - at[2] + 1)
                                       ELSE IF p = at THEN grid[at].content ELSE <<>>
<1>. DEFINE h == unmergeAt(at)
            old == grid[at].mergeSnapshot.contents
<1>1. DOMAIN h = DOMAIN grid
  BY DEF unmergeAt
<1>2. \A p \in DOMAIN grid : ~Covers(LeadMerge(at), p) => h[p] = grid[p]
  BY DEF unmergeAt, LeadMerge
<1>3. ASSUME NEW p \in DOMAIN grid, Covers(LeadMerge(at), p)
      PROVE  /\ ~h[p].isSpanned /\ h[p].mergeSnapshot = NoSnapshot /\ h[p].span = <<1, 1>>
             /\ h[p].content = IF canRestore(grid[at]) THEN KeptAt(old, p[1] - at[1] + 1, p[2] - at[2] + 1)
                               ELSE IF p = at THEN grid[at].content ELSE <<>>
  <2>. DEFINE kept == KeptAt(old, p[1] - at[1] + 1, p[2] - at[2] + 1)
  <2>1. h[p] = IF canRestore(grid[at]) THEN Single(kept, grid[at].isHeader)
               ELSE Single(IF p = at THEN grid[at].content ELSE <<>>, grid[at].isHeader)
    BY <1>3 DEF unmergeAt, LeadMerge, KeptAt
  <2>. HIDE DEF kept, h
  <2>. QED
    BY <2>1 DEF Single, kept
<1>. HIDE DEF h
<1>. QED
  BY <1>1, <1>2, <1>3 DEF h

\* The cells of a merge: in the table, and absorbed but for its corner.
LEMMA MergeArea ==
    ASSUME IInv, TextsFit(grid), NEW at \in DOMAIN grid, ~grid[at].isSpanned, grid[at].span # <<1, 1>>
    PROVE  /\ Covers(LeadMerge(at), at)
           /\ \A p \in DOMAIN grid : Covers(LeadMerge(at), p) /\ p # at => Blank(grid[p])
           /\ \A p \in DOMAIN grid : Covers(LeadMerge(at), p) <=>
                 /\ p[1] - at[1] + 1 \in 1 .. grid[at].span[1]
                 /\ p[2] - at[2] + 1 \in 1 .. grid[at].span[2]
           /\ \A r \in 1 .. grid[at].span[1], c \in 1 .. grid[at].span[2] :
                 <<at[1] + r - 1, at[2] + c - 1>> \in DOMAIN grid
           /\ grid[at].span \in SpanPair
<1>. DEFINE m == LeadMerge(at)
            M == gridToMerges(grid)
            s == grid[at].span
<1>1. m \in M /\ m.at = at /\ m.span = s
  BY DEF gridToMerges, LeadMerge
<1>2. Sound(M, rows, cols) /\ Carries(grid, M)
  BY DEF IInv, GoodGrid
<1>3. m \in MergeRec /\ at[1] + s[1] <= rows /\ at[2] + s[2] <= cols
  BY <1>1, <1>2 DEF Sound
<1>4. /\ \A p \in DOMAIN grid : /\ p \in Position /\ p = <<p[1], p[2]>>
                                /\ p[1] \in 0 .. rows - 1 /\ p[2] \in 0 .. cols - 1
      /\ DOMAIN grid = Cells(rows, cols) /\ rows \in Nat /\ cols \in Nat
  BY GridMerges
<1>5. s \in SpanPair /\ s[1] \in Nat \ {0} /\ s[2] \in Nat \ {0}
  BY <1>1, <1>3 DEF MergeRec, SpanPair
<1>6. at[1] \in Nat /\ at[2] \in Nat
  BY <1>4
<1>7. ASSUME NEW p \in DOMAIN grid, Covers(m, p), p # at
      PROVE  Blank(grid[p])
  <2>1. grid[p].isSpanned
    BY <1>1, <1>2, <1>7 DEF Carries
  <2>. QED
    BY <2>1 DEF TextsFit, CellText
<1>. HIDE DEF m, s
<1>8. ASSUME NEW p \in DOMAIN grid
      PROVE  Covers(m, p) <=> p[1] - at[1] + 1 \in 1 .. s[1] /\ p[2] - at[2] + 1 \in 1 .. s[2]
  <2>1. Covers(m, p) <=> /\ at[1] <= p[1] /\ p[1] < at[1] + s[1]
                         /\ at[2] <= p[2] /\ p[2] < at[2] + s[2]
    BY <1>1, <1>3, <1>4, CoversAt
  <2>2. p[1] \in Nat /\ p[2] \in Nat
    BY <1>4
  <2>. QED
    BY <1>5, <1>6, <2>1, <2>2
<1>9. ASSUME NEW r \in 1 .. s[1], NEW c \in 1 .. s[2]
      PROVE  <<at[1] + r - 1, at[2] + c - 1>> \in DOMAIN grid
  <2>1. at[1] + r - 1 \in 0 .. rows - 1 /\ at[2] + c - 1 \in 0 .. cols - 1
    BY <1>3, <1>4, <1>5, <1>6
  <2>. QED
    BY <1>4, <2>1 DEF Cells
<1>10. Covers(m, at)
  <2>1. at[1] - at[1] + 1 = 1 /\ at[2] - at[2] + 1 = 1 /\ 1 \in 1 .. s[1] /\ 1 \in 1 .. s[2]
    BY <1>5, <1>6
  <2>. QED
    BY <1>8, <2>1
<1>. QED
  BY <1>5, <1>7, <1>8, <1>9, <1>10 DEF m, s

\* Without the kept texts: the corner keeps what stands there.
LEMMA SeparatedTexts ==
    ASSUME IInv, TextsFit(grid), NEW at \in DOMAIN grid, ~grid[at].isSpanned, grid[at].span # <<1, 1>>,
           ~canRestore(grid[at])
    PROVE  TextsFit(unmergeAt(at)) /\ KeepsTexts(grid, unmergeAt(at))
<1>. DEFINE h == unmergeAt(at)
            n == LeadMerge(at)
            from == [p \in DOMAIN grid |-> p]
<1>1. /\ DOMAIN h = DOMAIN grid
      /\ \A p \in DOMAIN grid : ~Covers(n, p) => h[p] = grid[p]
      /\ \A p \in DOMAIN grid : Covers(n, p) =>
            /\ ~h[p].isSpanned /\ h[p].mergeSnapshot = NoSnapshot /\ h[p].span = <<1, 1>>
            /\ h[p].content = IF p = at THEN grid[at].content ELSE <<>>
  BY UnmergedCells
<1>2. Covers(n, at) /\ \A p \in DOMAIN grid : Covers(n, p) /\ p # at => Blank(grid[p])
  BY MergeArea
<1>3. \A p \in DOMAIN grid : grid[p].span \in SpanPair /\ CellText(grid[p])
  BY GridMerges DEF CellShape, TextsFit
<1>4. \A p \in DOMAIN h : from[p] = p
  BY <1>1
<1>. HIDE DEF h, n, from
<1>5. <<1, 1>> \in SpanPair
  BY DEF SpanPair
<1>6. \A p \in DOMAIN h : h[p].span \in SpanPair
  BY <1>1, <1>3, <1>5
<1>7. ASSUME NEW p \in DOMAIN h
      PROVE  Blank(h[p]) \/ Follows(grid[p], h[p])
  <2>1. CASE ~Covers(n, p)
    BY <1>1, <1>3, <2>1, FollowsItself
  <2>2. CASE Covers(n, p) /\ p # at
    BY <1>1, <2>2 DEF Blank
  <2>3. CASE p = at
    BY <1>1, <1>2, <2>3 DEF Follows
  <2>. QED
    BY <2>1, <2>2, <2>3
<1>8. TextsFit(h)
  BY <1>1, <1>3, <1>4, <1>6, <1>7, CarriedTexts
<1>9. ASSUME NEW t, NEW q \in DOMAIN grid, Has(grid[q].content, t)
      PROVE  Has(h[q].content, t)
  <2>1. CASE Covers(n, q) /\ q # at
    BY <1>2, <1>9, <2>1, BlankText
  <2>2. CASE ~(Covers(n, q) /\ q # at)
    BY <1>1, <1>9, <2>2
  <2>. QED
    BY <2>1, <2>2
<1>. QED
  BY <1>1, <1>8, <1>9 DEF KeepsTexts, h

\* With the kept texts: their pieces are those of the joined text, which no
\* one has typed over, and the rectangle has room for all of them.
LEMMA RestoredTexts ==
    ASSUME IInv, TextsFit(grid), NEW at \in DOMAIN grid, ~grid[at].isSpanned, grid[at].span # <<1, 1>>,
           canRestore(grid[at])
    PROVE  TextsFit(unmergeAt(at)) /\ KeepsTexts(grid, unmergeAt(at))
<1>. DEFINE g == unmergeAt(at)
            n == LeadMerge(at)
            lead == grid[at]
            old == lead.mergeSnapshot.contents
            R(p) == p[1] - at[1] + 1
            C(p) == p[2] - at[2] + 1
<1>1. /\ DOMAIN g = DOMAIN grid
      /\ \A p \in DOMAIN grid : ~Covers(n, p) => g[p] = grid[p]
      /\ \A p \in DOMAIN grid : Covers(n, p) =>
            /\ ~g[p].isSpanned /\ g[p].mergeSnapshot = NoSnapshot
            /\ g[p].content = KeptAt(old, R(p), C(p))
  BY UnmergedCells
<1>2. /\ Covers(n, at)
      /\ \A p \in DOMAIN grid : Covers(n, p) /\ p # at => Blank(grid[p])
      /\ \A p \in DOMAIN grid : Covers(n, p) <=> R(p) \in 1 .. lead.span[1] /\ C(p) \in 1 .. lead.span[2]
      /\ \A r \in 1 .. lead.span[1], c \in 1 .. lead.span[2] : <<at[1] + r - 1, at[2] + c - 1>> \in DOMAIN grid
      /\ lead.span \in SpanPair
  BY MergeArea
<1>3. KeptFits(lead) /\ lead.content = lead.mergeSnapshot.joined
  BY DEF canRestore, TextsFit, CellText
<1>4. PICK h \in Nat \ {0}, w \in Nat \ {0} :
         /\ h <= lead.span[1] /\ w <= lead.span[2]
         /\ old \in Block(Texts, h, w) /\ lead.mergeSnapshot.joined = Joined(old)
  BY <1>3 DEF KeptFits
<1>5. /\ DOMAIN old = 1 .. h
      /\ \A r \in 1 .. h : DOMAIN old[r] = 1 .. w
      /\ \A r \in 1 .. h, c \in 1 .. w : old[r][c] \in Seq(Texts)
  BY <1>4 DEF Block
<1>6. /\ \A t : Has(lead.content, t) <=> \E r \in 1 .. h, c \in 1 .. w : Has(old[r][c], t)
      /\ \A t : Once(lead.content, t) <=> Spread(old, h, w, t)
  <2>. HIDE DEF lead, old
  <2>1. lead.content = Joined(old)
    BY <1>3, <1>4
  <2>2. \A t : /\ Has(Joined(old), t) <=> \E r \in 1 .. h, c \in 1 .. w : Has(old[r][c], t)
               /\ Once(Joined(old), t) <=> Spread(old, h, w, t)
    <3>. TAKE t
    <3>. QED
      BY <1>4, JoinedBlock
  <2>. QED
    BY <2>1, <2>2
<1>7. \A t : Spread(old, h, w, t)
  BY <1>6 DEF TextsFit, Distinct
<1>8. /\ \A p \in DOMAIN grid : p \in Position /\ p = <<p[1], p[2]>>
      /\ at[1] \in Nat /\ at[2] \in Nat
  BY GridMerges
<1>9. \A p, q \in DOMAIN grid : R(p) = R(q) /\ C(p) = C(q) => p = q
  <2>1. \A p \in DOMAIN grid : p[1] \in Nat /\ p[2] \in Nat
    BY <1>8 DEF Position
  <2>. QED
    BY <1>8, <2>1
<1>10. \A r \in 1 .. h, c \in 1 .. w : \E p \in DOMAIN grid : R(p) = r /\ C(p) = c /\ Covers(n, p)
  <2>. TAKE r \in 1 .. h, c \in 1 .. w
  <2>. DEFINE p == <<at[1] + r - 1, at[2] + c - 1>>
  <2>1. lead.span[1] \in Nat /\ lead.span[2] \in Nat
    BY <1>2 DEF SpanPair
  <2>2. r \in 1 .. lead.span[1] /\ c \in 1 .. lead.span[2]
    BY <1>4, <2>1
  <2>3. p \in DOMAIN grid
    BY <1>2, <2>2
  <2>4. R(p) = r /\ C(p) = c
    BY <1>8
  <2>. HIDE DEF p, R, C
  <2>. QED
    BY <1>2, <2>2, <2>3, <2>4
<1>. HIDE DEF g, n, lead, old, R, C
<1>11. ASSUME NEW p \in DOMAIN grid, Covers(n, p)
       PROVE  \/ g[p].content = <<>>
              \/ R(p) \in 1 .. h /\ C(p) \in 1 .. w /\ g[p].content = old[R(p)][C(p)]
  BY <1>1, <1>5, <1>11 DEF KeptAt
<1>12. \A t : ~Has(<<>>, t) /\ Once(<<>>, t)
  <2>1. \A i : i \notin DOMAIN <<>>
    OBVIOUS
  <2>. QED
    BY <2>1 DEF Has, Once
<1>13. \A p \in DOMAIN grid : \A t : Covers(n, p) /\ Has(g[p].content, t) =>
          R(p) \in 1 .. h /\ C(p) \in 1 .. w /\ Has(old[R(p)][C(p)], t)
  BY <1>11, <1>12
<1>14. ASSUME NEW p \in DOMAIN grid
       PROVE  CellText(g[p]) /\ \A t : Once(g[p].content, t)
  <2>1. CASE ~Covers(n, p)
    BY <1>1, <2>1 DEF TextsFit, Distinct
  <2>2. CASE Covers(n, p)
    <3>1. <<>> \in Seq(Texts)
      OBVIOUS
    <3>2. g[p].content \in Seq(Texts)
      BY <1>5, <1>11, <2>2, <3>1
    <3>3. CellText(g[p])
      BY <1>1, <2>2, <3>2 DEF CellText
    <3>4. \A r \in 1 .. h, c \in 1 .. w : \A t : Once(old[r][c], t)
      BY <1>7 DEF Spread
    <3>5. \A t : Once(g[p].content, t)
      BY <1>11, <1>12, <2>2, <3>4
    <3>. QED
      BY <3>3, <3>5
  <2>. QED
    BY <2>1, <2>2
<1>15. \A p, q \in DOMAIN grid : \A t : Has(grid[p].content, t) /\ Has(grid[q].content, t) => p = q
  BY DEF TextsFit, Distinct
<1>16. \A p \in DOMAIN grid : \A t : Covers(n, p) /\ Has(g[p].content, t) => Has(grid[at].content, t)
  BY <1>6, <1>13 DEF lead
<1>17. ASSUME NEW t, NEW p \in DOMAIN grid, NEW q \in DOMAIN grid, Has(g[p].content, t), Has(g[q].content, t)
       PROVE  p = q
  <2>1. CASE Covers(n, p) /\ Covers(n, q)
    <3>1. /\ R(p) \in 1 .. h /\ C(p) \in 1 .. w /\ Has(old[R(p)][C(p)], t)
          /\ R(q) \in 1 .. h /\ C(q) \in 1 .. w /\ Has(old[R(q)][C(q)], t)
      BY <1>13, <1>17, <2>1
    <3>2. R(p) = R(q) /\ C(p) = C(q)
      BY <1>7, <3>1 DEF Spread
    <3>. QED
      BY <1>9, <3>2
  <2>2. CASE ~Covers(n, p) /\ ~Covers(n, q)
    BY <1>1, <1>15, <1>17, <2>2
  <2>3. ASSUME NEW x \in DOMAIN grid, NEW y \in DOMAIN grid, Has(g[x].content, t), Has(g[y].content, t),
               Covers(n, x), ~Covers(n, y)
        PROVE  FALSE
    <3>1. Has(grid[at].content, t) /\ Has(grid[y].content, t)
      BY <1>1, <1>16, <2>3
    <3>2. at = y
      BY <1>15, <3>1
    <3>. QED
      BY <1>2, <2>3, <3>2
  <2>. QED
    BY <1>17, <2>1, <2>2, <2>3
<1>18. TextsFit(g)
  BY <1>1, <1>14, <1>17 DEF TextsFit, Distinct
<1>19. ASSUME NEW t, NEW q \in DOMAIN grid, Has(grid[q].content, t)
       PROVE  \E p \in DOMAIN g : Has(g[p].content, t)
  <2>1. CASE ~Covers(n, q)
    BY <1>1, <1>19, <2>1
  <2>2. CASE Covers(n, q) /\ q # at
    BY <1>2, <1>19, <2>2, BlankText
  <2>3. CASE q = at
    <3>1. PICK r \in 1 .. h, c \in 1 .. w : Has(old[r][c], t)
      BY <1>6, <1>19, <2>3 DEF lead
    <3>2. PICK p \in DOMAIN grid : R(p) = r /\ C(p) = c /\ Covers(n, p)
      BY <1>10
    <3>3. g[p].content = old[r][c]
      BY <1>1, <1>5, <3>2 DEF KeptAt
    <3>. QED
      BY <1>1, <3>1, <3>2, <3>3
  <2>. QED
    BY <2>1, <2>2, <2>3
<1>. QED
  BY <1>18, <1>19 DEF KeepsTexts, g

LEMMA UnmergeTexts ==
    ASSUME IInv, TextsFit(grid), NEW p \in DOMAIN grid, unmergeCells(p)
    PROVE  TextsFit(grid') /\ KeepsTexts(grid, grid')
<1>1. ~grid[p].isSpanned /\ grid[p].span # <<1, 1>> /\ grid' = unmergeAt(p)
  BY DEF unmergeCells, Visible
<1>. QED
  BY <1>1, SeparatedTexts, RestoredTexts

\* A deletion hides no text of another line.
LEMMA DeletedTexts ==
    ASSUME IInv, TextsFit(grid), NEW axis \in 1 .. 2, NEW i \in 0 .. <<rows, cols>>[axis] - 1,
           ~_hasAnyMergedCellsStrict(axis, i)
    PROVE  VisibleTexts(grid) \ VisibleTexts(Removed(axis, i)) \subseteq LineTexts(axis, i)
<1>. DEFINE h == Removed(axis, i)
<1>1. /\ TextsFit(h)
      /\ \A t : \A q \in DOMAIN grid : Has(grid[q].content, t) /\ q[axis] # i =>
            \E p \in DOMAIN h : Has(h[p].content, t)
  BY RemovedTexts
<1>. HIDE DEF h
<1>2. /\ VisibleTexts(grid) = {t \in Texts : \E p \in DOMAIN grid : Has(grid[p].content, t)}
      /\ VisibleTexts(h) = {t \in Texts : \E p \in DOMAIN h : Has(h[p].content, t)}
  BY <1>1, VisibleAre
<1>3. ASSUME NEW t \in VisibleTexts(grid), t \notin VisibleTexts(h)
      PROVE  t \in LineTexts(axis, i)
  <2>1. PICK q \in DOMAIN grid : t \in Texts /\ Has(grid[q].content, t)
    BY <1>2
  <2>2. q[axis] = i
    BY <1>1, <1>2, <1>3, <2>1
  <2>3. grid[q].content \in Seq(Texts)
    BY DEF TextsFit, CellText
  <2>4. Contains(grid[q].content, t)
    BY <2>1, <2>3 DEF Has, Contains
  <2>. QED
    BY <2>1, <2>2, <2>4 DEF LineTexts
<1>. QED
  BY <1>3 DEF h

\* What a step may do to the texts.
TextsStep ==
    LET gone == VisibleTexts(grid) \ VisibleTexts(grid')
    IN \/ gone = {}
       \/ \E p \in DOMAIN grid, text \in {<<>>} \cup {<<t>> : t \in Texts} : EditCell(p, text)
       \/ \E p \in DOMAIN grid : deleteRow(p) /\ gone \subseteq LineTexts(1, p[1])
       \/ \E p \in DOMAIN grid : deleteColumn(p) /\ gone \subseteq LineTexts(2, p[2])

LEMMA KeptStep ==
    ASSUME TextsFit(grid), TextsFit(grid'), KeepsTexts(grid, grid')
    PROVE  TextsFit(grid') /\ TextsStep
BY NothingGone DEF TextsStep

\* Every step keeps the texts apart, and loses none but those it may.
LEMMA NextTexts ==
    ASSUME IInv, TextsFit(grid), Next
    PROVE  TextsFit(grid') /\ TextsStep
<1>1. ASSUME NEW p \in DOMAIN grid, NEW text \in {<<>>} \cup {<<t>> : t \in Texts \ VisibleTexts(grid)},
             EditCell(p, text)
      PROVE  TextsFit(grid') /\ TextsStep
  <2>1. TextsFit(grid')
    BY <1>1, EditTexts
  <2>2. text \in {<<>>} \cup {<<t>> : t \in Texts}
    OBVIOUS
  <2>3. TextsStep
    BY <1>1, <2>2 DEF TextsStep
  <2>. QED
    BY <2>1, <2>3
<1>2. ASSUME NEW i \in 0 .. rows, InsertRow(i)
      PROVE  TextsFit(grid') /\ TextsStep
  <2>1. grid' = Inserted(1, i, {}) /\ i \in 0 .. <<rows, cols>>[1] /\ 1 \in 1 .. 2
    BY <1>2 DEF InsertRow
  <2>. QED
    BY <2>1, InsertedTexts, KeptStep
<1>3. ASSUME NEW i \in 0 .. cols, InsertColumn(i)
      PROVE  TextsFit(grid') /\ TextsStep
  <2>. DEFINE headers == {r \in 0 .. rows - 1 : HeaderRow(r) /\ \A s \in 0 .. r - 1 : ~HeaderRow(s)}
  <2>1. grid' = Inserted(2, i, headers) /\ i \in 0 .. <<rows, cols>>[2] /\ 2 \in 1 .. 2
    BY <1>3 DEF InsertColumn
  <2>. HIDE DEF headers
  <2>. QED
    BY <2>1, InsertedTexts, KeptStep
<1>4. ASSUME NEW p \in DOMAIN grid, insertRowAbove(p) \/ insertRowBelow(p)
      PROVE  TextsFit(grid') /\ TextsStep
  BY <1>2, <1>4, InsertionPlace DEF insertRowAbove, insertRowBelow
<1>5. ASSUME NEW p \in DOMAIN grid, insertColumnLeft(p) \/ insertColumnRight(p)
      PROVE  TextsFit(grid') /\ TextsStep
  BY <1>3, <1>5, InsertionPlace DEF insertColumnLeft, insertColumnRight
<1>6. ASSUME NEW p \in DOMAIN grid, deleteRow(p)
      PROVE  TextsFit(grid') /\ TextsStep
  <2>1. grid' = Removed(1, p[1]) /\ ~_hasAnyMergedCellsStrict(1, p[1])
    BY <1>6 DEF deleteRow
  <2>2. p[1] \in 0 .. <<rows, cols>>[1] - 1 /\ 1 \in 1 .. 2
    BY GridMerges
  <2>3. TextsFit(grid')
    BY <2>1, <2>2, RemovedTexts
  <2>4. VisibleTexts(grid) \ VisibleTexts(grid') \subseteq LineTexts(1, p[1])
    BY <2>1, <2>2, DeletedTexts
  <2>. QED
    BY <1>6, <2>3, <2>4 DEF TextsStep
<1>7. ASSUME NEW p \in DOMAIN grid, deleteColumn(p)
      PROVE  TextsFit(grid') /\ TextsStep
  <2>1. grid' = Removed(2, p[2]) /\ ~_hasAnyMergedCellsStrict(2, p[2])
    BY <1>7 DEF deleteColumn
  <2>2. p[2] \in 0 .. <<rows, cols>>[2] - 1 /\ 2 \in 1 .. 2
    BY GridMerges
  <2>3. TextsFit(grid')
    BY <2>1, <2>2, RemovedTexts
  <2>4. VisibleTexts(grid) \ VisibleTexts(grid') \subseteq LineTexts(2, p[2])
    BY <2>1, <2>2, DeletedTexts
  <2>. QED
    BY <1>7, <2>3, <2>4 DEF TextsStep
<1>8. ASSUME NEW lo \in DOMAIN grid, NEW hi \in DOMAIN grid, mergeCells(lo, hi)
      PROVE  TextsFit(grid') /\ TextsStep
  BY <1>8, MergeTexts, KeptStep
<1>9. ASSUME NEW p \in DOMAIN grid, unmergeCells(p)
      PROVE  TextsFit(grid') /\ TextsStep
  BY <1>9, UnmergeTexts, KeptStep
<1>10. CASE SaveAndReload
  BY <1>10, ReloadTexts, KeptStep
<1>. QED
  BY <1>1, <1>4, <1>5, <1>6, <1>7, <1>8, <1>9, <1>10 DEF Next

-----------------------------------------------------------------------------
(* The texts kept with a merge and its spans.                              *)

\* The kept texts of a cell have the shape of its merge.
ShapeKept(c) ==
    ~c.isSpanned /\ c.mergeSnapshot # NoSnapshot =>
        c.span = <<Len(c.mergeSnapshot.contents), Len(c.mergeSnapshot.contents[1])>>

LEMMA ShapesAre ==
    /\ SnapshotsFit <=> \A p \in DOMAIN grid : ShapeKept(grid[p])
    /\ SnapshotsFit' <=> \A p \in DOMAIN grid' : ShapeKept(grid'[p])
BY DEF SnapshotsFit, ShapeKept

\* A cell with the marks and the kept texts of one that fits, or without kept
\* texts, fits.
LEMMA ShapeFollows ==
    ASSUME NEW c, NEW d, ShapeKept(c), d.span = c.span, d.isSpanned = c.isSpanned,
           d.mergeSnapshot = c.mergeSnapshot
    PROVE  ShapeKept(d)
BY DEF ShapeKept

LEMMA RemovedShapes ==
    ASSUME IInv, SnapshotsFit, NEW axis \in 1 .. 2, NEW i \in 0 .. <<rows, cols>>[axis] - 1,
           ~_hasAnyMergedCellsStrict(axis, i), grid' = Removed(axis, i)
    PROVE  SnapshotsFit'
<1>. SUFFICES ASSUME NEW p \in DOMAIN grid'
              PROVE  ShapeKept(grid'[p])
  BY ShapesAre
<1>. DEFINE q == Before(p, axis, i)
            d == grid'[p]
            old == grid[q]
            spans == ~old.isSpanned /\ p[axis] < i /\ p[axis] + old.span[axis] > i
            n == IF spans THEN Max({1, old.span[axis] - 1}) ELSE old.span[axis]
            o == IF old.isSpanned /\ old.spanOrigin[axis] > i
                 THEN Moved(old.spanOrigin, axis, -1) ELSE old.spanOrigin
<1>1. q \in DOMAIN grid /\ d.span = old.span /\ d.isSpanned = old.isSpanned
  BY RemovedCells
<1>2. CellShape(old) /\ ShapeKept(old)
  BY <1>1, ShapesAre DEF IInv, GoodGrid
<1>3. d = Rewritten(old, axis, n, o)
  BY DEF Removed, Rewritten, Before
<1>. HIDE DEF n, o, d, old
<1>4. d.mergeSnapshot = old.mergeSnapshot
  BY <1>2, <1>3, SameTexts
<1>. QED
  BY <1>1, <1>2, <1>4, ShapeFollows DEF d

LEMMA MergeShapes ==
    ASSUME IInv, SnapshotsFit, NEW lo \in DOMAIN grid, NEW hi \in DOMAIN grid, mergeCells(lo, hi)
    PROVE  SnapshotsFit'
<1>. DEFINE h == mergeRange(lo, hi)
            area == Area(lo, hi)
            old == Contents(lo, hi)
            a == hi[1] - lo[1] + 1
            b == hi[2] - lo[2] + 1
<1>1. /\ lo[1] <= hi[1] /\ lo[2] <= hi[2] /\ grid' = h
      /\ \A p \in area : ~grid[p].isSpanned
  BY DEF mergeCells
<1>2. /\ DOMAIN h = DOMAIN grid
      /\ h[lo].span = <<a, b>>
      /\ h[lo].mergeSnapshot = [joined |-> Joined(old), contents |-> old]
      /\ \A p \in area : p # lo => h[p].isSpanned
      /\ \A p \in DOMAIN grid : p \notin area => h[p] = grid[p]
  BY <1>1, MergedCells
<1>3. a \in Nat \ {0} /\ b \in Nat \ {0}
  BY <1>1, AreaCells
<1>4. Len(old) = a /\ Len(old[1]) = b
  <2>1. DOMAIN old = 1 .. a /\ 1 \in 1 .. a /\ DOMAIN old[1] = 1 .. b
    BY <1>3 DEF Contents
  <2>. HIDE DEF old, a, b
  <2>. QED
    BY <1>3, <2>1
<1>. HIDE DEF h, area, old, a, b
<1>5. ShapeKept(h[lo])
  BY <1>2, <1>4 DEF ShapeKept
<1>6. \A p \in DOMAIN grid : ShapeKept(h[p])
  BY <1>2, <1>5, ShapesAre DEF ShapeKept
<1>. QED
  BY <1>1, <1>2, <1>6, ShapesAre

LEMMA OtherShapes ==
    ASSUME IInv, SnapshotsFit, DOMAIN grid' = DOMAIN grid,
           \A p \in DOMAIN grid :
              \/ grid'[p].mergeSnapshot = NoSnapshot
              \/ /\ grid'[p].span = grid[p].span /\ grid'[p].isSpanned = grid[p].isSpanned
                 /\ grid'[p].mergeSnapshot = grid[p].mergeSnapshot
    PROVE  SnapshotsFit'
<1>1. \A p \in DOMAIN grid : ShapeKept(grid[p])
  BY ShapesAre
<1>2. \A p \in DOMAIN grid : ShapeKept(grid'[p])
  BY <1>1, ShapeFollows DEF ShapeKept
<1>. QED
  BY <1>2, ShapesAre

\* A step spoils the kept texts only by adding a row or a column.
LEMMA NextShapes ==
    ASSUME IInv, SnapshotsFit, Next
    PROVE  SnapshotsFit' \/ rows' > rows \/ cols' > cols
<1>0. rows \in Nat /\ cols \in Nat /\ \A p \in DOMAIN grid : CellShape(grid[p])
  BY GridMerges
<1>1. ASSUME NEW p \in DOMAIN grid, NEW text, EditCell(p, text)
      PROVE  SnapshotsFit'
  <2>1. grid' = [grid EXCEPT ![p].content = text]
    BY <1>1 DEF EditCell
  <2>2. /\ DOMAIN grid' = DOMAIN grid
        /\ \A q \in DOMAIN grid : q # p => grid'[q] = grid[q]
        /\ grid'[p] = [grid[p] EXCEPT !.content = text]
    BY <2>1
  <2>3. /\ grid'[p].span = grid[p].span /\ grid'[p].isSpanned = grid[p].isSpanned
        /\ grid'[p].mergeSnapshot = grid[p].mergeSnapshot
    BY <1>0, <2>2 DEF CellShape
  <2>. QED
    BY <2>2, <2>3, OtherShapes
<1>2. ASSUME NEW i, InsertRow(i) \/ InsertColumn(i)
      PROVE  rows' > rows \/ cols' > cols
  BY <1>0, <1>2 DEF InsertRow, InsertColumn
<1>3. ASSUME NEW p \in DOMAIN grid,
             insertRowAbove(p) \/ insertRowBelow(p) \/ insertColumnLeft(p) \/ insertColumnRight(p)
      PROVE  rows' > rows \/ cols' > cols
  BY <1>2, <1>3 DEF insertRowAbove, insertRowBelow, insertColumnLeft, insertColumnRight
<1>4. ASSUME NEW p \in DOMAIN grid, deleteRow(p)
      PROVE  SnapshotsFit'
  <2>1. grid' = Removed(1, p[1]) /\ ~_hasAnyMergedCellsStrict(1, p[1])
    BY <1>4 DEF deleteRow
  <2>2. p[1] \in 0 .. <<rows, cols>>[1] - 1 /\ 1 \in 1 .. 2
    BY GridMerges
  <2>. QED
    BY <2>1, <2>2, RemovedShapes
<1>5. ASSUME NEW p \in DOMAIN grid, deleteColumn(p)
      PROVE  SnapshotsFit'
  <2>1. grid' = Removed(2, p[2]) /\ ~_hasAnyMergedCellsStrict(2, p[2])
    BY <1>5 DEF deleteColumn
  <2>2. p[2] \in 0 .. <<rows, cols>>[2] - 1 /\ 2 \in 1 .. 2
    BY GridMerges
  <2>. QED
    BY <2>1, <2>2, RemovedShapes
<1>6. ASSUME NEW lo \in DOMAIN grid, NEW hi \in DOMAIN grid, mergeCells(lo, hi)
      PROVE  SnapshotsFit'
  BY <1>6, MergeShapes
<1>7. ASSUME NEW p \in DOMAIN grid, unmergeCells(p)
      PROVE  SnapshotsFit'
  <2>1. grid' = unmergeAt(p)
    BY <1>7 DEF unmergeCells
  <2>2. /\ DOMAIN grid' = DOMAIN grid
        /\ \A q \in DOMAIN grid : ~Covers(LeadMerge(p), q) => grid'[q] = grid[q]
        /\ \A q \in DOMAIN grid : Covers(LeadMerge(p), q) => grid'[q].mergeSnapshot = NoSnapshot
    BY <2>1, UnmergedCells
  <2>3. \A q \in DOMAIN grid : grid'[q].mergeSnapshot = NoSnapshot \/ grid'[q] = grid[q]
    BY <2>2
  <2>. QED
    BY <2>2, <2>3, OtherShapes
<1>8. ASSUME SaveAndReload
      PROVE  SnapshotsFit'
  <2>1. grid' = [p \in DOMAIN grid |-> [grid[p] EXCEPT !.mergeSnapshot = NoSnapshot]]
    BY <1>8 DEF SaveAndReload
  <2>2. DOMAIN grid' = DOMAIN grid /\ \A p \in DOMAIN grid : grid'[p] = [grid[p] EXCEPT !.mergeSnapshot = NoSnapshot]
    BY <2>1
  <2>3. \A p \in DOMAIN grid : grid'[p].mergeSnapshot = NoSnapshot
    BY <1>0, <2>2 DEF CellShape
  <2>. QED
    BY <2>2, <2>3, OtherShapes
<1>. QED
  BY <1>1, <1>3, <1>4, <1>5, <1>6, <1>7, <1>8 DEF Next

-----------------------------------------------------------------------------
(* The theorems about texts.                                               *)

LEMMA TextsStay == Spec => [](IInv /\ TextsFit(grid))
<1>1. Init => IInv /\ TextsFit(grid)
  BY GridInit, InitTexts
<1>2. IInv /\ TextsFit(grid) /\ [Next]_vars => (IInv /\ TextsFit(grid))'
  <2>. SUFFICES ASSUME IInv, TextsFit(grid), [Next]_vars
                PROVE  IInv' /\ TextsFit(grid')
    OBVIOUS
  <2>1. IInv'
    BY GridStep
  <2>2. CASE Next
    BY <2>1, <2>2, NextTexts
  <2>3. CASE UNCHANGED vars
    BY <2>1, <2>3 DEF vars
  <2>. QED
    BY <2>2, <2>3
<1>. QED
  BY <1>1, <1>2, PTL DEF Spec

\* A piece of text never stands in two cells, nor twice in one: whatever is
\* merged, typed over, separated or reloaded, no kept copy comes back beside
\* the text it is a copy of (table-merge-core.js:90-95).
THEOREM GridTextsOnce == Spec => []NoTextTwice
<1>1. ASSUME IInv, TextsFit(grid)
      PROVE  NoTextTwice
  <2>. SUFFICES ASSUME NEW t \in Texts, NEW p \in DOMAIN grid, NEW q \in DOMAIN grid,
                       Holds(grid[p], t), Holds(grid[q], t)
                PROVE  p = q /\ Cardinality({i \in DOMAIN grid[p].content : grid[p].content[i] = t}) = 1
    BY DEF NoTextTwice
  <2>1. Has(grid[p].content, t) /\ Has(grid[q].content, t)
    BY DEF Holds, Has
  <2>2. p = q
    BY <1>1, <2>1 DEF TextsFit, Distinct
  <2>3. Once(grid[p].content, t)
    BY <1>1 DEF TextsFit, Distinct
  <2>4. PICK i \in DOMAIN grid[p].content : grid[p].content[i] = t
    BY <2>1 DEF Has
  <2>5. {k \in DOMAIN grid[p].content : grid[p].content[k] = t} = {i}
    BY <2>3, <2>4 DEF Once
  <2>6. Cardinality({i}) = 1
    BY FS_Singleton
  <2>. QED
    BY <2>2, <2>5, <2>6
<1>. QED
  BY <1>1, TextsStay, PTL

\* Text leaves a table only by typing over it or with the deleted row or
\* column that showed it: a separation lays out every kept text, none falls
\* outside the merge (table-merge-core.js:115-138).
THEOREM GridTextsKept == Spec => NoTextLost
<1>1. IInv /\ TextsFit(grid) /\ [Next]_vars => [TextsStep]_vars
  BY NextTexts
<1>. QED
  BY <1>1, TextsStay, PTL DEF Spec, NoTextLost, TextsStep

\* Only an inserted row or column can part the kept texts of a merge from its
\* shape: a deletion never shrinks a merge under them, and a separation or a
\* reload drops them (table-merge-core.js:90).
THEOREM GridSnapshotsStayFit == Spec => SnapshotsStayFit
<1>1. IInv /\ [Next]_vars =>
        [SnapshotsFit => SnapshotsFit' \/ (rows' > rows \/ cols' > cols)]_vars
  BY NextShapes
<1>. QED
  BY <1>1, GridInvariant, PTL DEF Spec, SnapshotsStayFit

-----------------------------------------------------------------------------
(* The list of merged rectangles by itself, whatever table shows it.       *)

VARIABLE rects

List == INSTANCE TableMerges

\* Inserting a row maps a merge to a merge at most one row longer or lower.
LEMMA OpenRowShape ==
    ASSUME NEW m \in List!Rect, NEW i \in Nat
    PROVE  /\ List!OpenRow(m, i) \in List!Rect
           /\ List!OpenRow(m, i).col = m.col /\ List!OpenRow(m, i).colspan = m.colspan
           /\ m.row >= i => /\ List!OpenRow(m, i).row = m.row + 1
                            /\ List!OpenRow(m, i).rowspan = m.rowspan
           /\ m.row < i => List!OpenRow(m, i).row = m.row
           /\ (m.row < i /\ m.row + m.rowspan > i) => List!OpenRow(m, i).rowspan = m.rowspan + 1
           /\ (m.row < i /\ m.row + m.rowspan <= i) => List!OpenRow(m, i).rowspan = m.rowspan
BY DEF List!OpenRow, List!Rect

\* The same for a column.
LEMMA OpenColShape ==
    ASSUME NEW m \in List!Rect, NEW i \in Nat
    PROVE  /\ List!OpenCol(m, i) \in List!Rect
           /\ List!OpenCol(m, i).row = m.row /\ List!OpenCol(m, i).rowspan = m.rowspan
           /\ m.col >= i => /\ List!OpenCol(m, i).col = m.col + 1
                            /\ List!OpenCol(m, i).colspan = m.colspan
           /\ m.col < i => List!OpenCol(m, i).col = m.col
           /\ (m.col < i /\ m.col + m.colspan > i) => List!OpenCol(m, i).colspan = m.colspan + 1
           /\ (m.col < i /\ m.col + m.colspan <= i) => List!OpenCol(m, i).colspan = m.colspan
BY DEF List!OpenCol, List!Rect

\* Deleting a row no merge reaches moves the merges below it up by one.
LEMMA CloseRowShape ==
    ASSUME NEW m \in List!Rect, NEW i \in Nat
    PROVE  /\ List!CloseRow(m, i) \in List!Rect
           /\ List!CloseRow(m, i).col = m.col /\ List!CloseRow(m, i).colspan = m.colspan
           /\ List!CloseRow(m, i).rowspan = m.rowspan
           /\ m.row > i => List!CloseRow(m, i).row = m.row - 1
           /\ m.row <= i => List!CloseRow(m, i).row = m.row
BY DEF List!CloseRow, List!Rect

LEMMA CloseColShape ==
    ASSUME NEW m \in List!Rect, NEW i \in Nat
    PROVE  /\ List!CloseCol(m, i) \in List!Rect
           /\ List!CloseCol(m, i).row = m.row /\ List!CloseCol(m, i).rowspan = m.rowspan
           /\ List!CloseCol(m, i).colspan = m.colspan
           /\ m.col > i => List!CloseCol(m, i).col = m.col - 1
           /\ m.col <= i => List!CloseCol(m, i).col = m.col
BY DEF List!CloseCol, List!Rect

\* Two merges that share no cell share none after a row is inserted: the new
\* row belongs to both only if both had rows on either side of it.
LEMMA OpenRowApart ==
    ASSUME NEW m \in List!Rect, NEW n \in List!Rect, NEW i \in Nat, ~List!Overlap(m, n)
    PROVE  ~List!Overlap(List!OpenRow(m, i), List!OpenRow(n, i))
<1>. DEFINE a == List!OpenRow(m, i)
            b == List!OpenRow(n, i)
<1>1. /\ m.row \in Nat /\ m.rowspan \in Nat \ {0} /\ m.col \in Nat /\ m.colspan \in Nat \ {0}
      /\ n.row \in Nat /\ n.rowspan \in Nat \ {0} /\ n.col \in Nat /\ n.colspan \in Nat \ {0}
  BY DEF List!Rect
<1>2. /\ a.col = m.col /\ a.colspan = m.colspan
      /\ m.row >= i => a.row = m.row + 1 /\ a.rowspan = m.rowspan
      /\ m.row < i => a.row = m.row
      /\ m.row < i /\ m.row + m.rowspan > i => a.rowspan = m.rowspan + 1
      /\ m.row < i /\ m.row + m.rowspan <= i => a.rowspan = m.rowspan
  BY OpenRowShape
<1>3. /\ b.col = n.col /\ b.colspan = n.colspan
      /\ n.row >= i => b.row = n.row + 1 /\ b.rowspan = n.rowspan
      /\ n.row < i => b.row = n.row
      /\ n.row < i /\ n.row + n.rowspan > i => b.rowspan = n.rowspan + 1
      /\ n.row < i /\ n.row + n.rowspan <= i => b.rowspan = n.rowspan
  BY OpenRowShape
<1>4. ~List!Overlap(a, b)
  <2>. HIDE DEF a, b
  <2>. SUFFICES ASSUME List!Overlap(a, b)
                PROVE  FALSE
    OBVIOUS
  <2>1. /\ a.row < b.row + b.rowspan /\ b.row < a.row + a.rowspan
        /\ a.col < b.col + b.colspan /\ b.col < a.col + a.colspan
    BY DEF List!Overlap
  <2>2. m.col < n.col + n.colspan /\ n.col < m.col + m.colspan
    BY <1>2, <1>3, <2>1
  <2>3. m.row < n.row + n.rowspan
    BY <1>1, <1>2, <1>3, <2>1
  <2>4. n.row < m.row + m.rowspan
    BY <1>1, <1>2, <1>3, <2>1
  <2>. QED
    BY <2>2, <2>3, <2>4 DEF List!Overlap
<1>. QED
  BY <1>4

\* The same for a column.
LEMMA OpenColApart ==
    ASSUME NEW m \in List!Rect, NEW n \in List!Rect, NEW i \in Nat, ~List!Overlap(m, n)
    PROVE  ~List!Overlap(List!OpenCol(m, i), List!OpenCol(n, i))
<1>. DEFINE a == List!OpenCol(m, i)
            b == List!OpenCol(n, i)
<1>1. /\ m.row \in Nat /\ m.rowspan \in Nat \ {0} /\ m.col \in Nat /\ m.colspan \in Nat \ {0}
      /\ n.row \in Nat /\ n.rowspan \in Nat \ {0} /\ n.col \in Nat /\ n.colspan \in Nat \ {0}
  BY DEF List!Rect
<1>2. /\ a.row = m.row /\ a.rowspan = m.rowspan
      /\ m.col >= i => a.col = m.col + 1 /\ a.colspan = m.colspan
      /\ m.col < i => a.col = m.col
      /\ m.col < i /\ m.col + m.colspan > i => a.colspan = m.colspan + 1
      /\ m.col < i /\ m.col + m.colspan <= i => a.colspan = m.colspan
  BY OpenColShape
<1>3. /\ b.row = n.row /\ b.rowspan = n.rowspan
      /\ n.col >= i => b.col = n.col + 1 /\ b.colspan = n.colspan
      /\ n.col < i => b.col = n.col
      /\ n.col < i /\ n.col + n.colspan > i => b.colspan = n.colspan + 1
      /\ n.col < i /\ n.col + n.colspan <= i => b.colspan = n.colspan
  BY OpenColShape
<1>4. ~List!Overlap(a, b)
  <2>. HIDE DEF a, b
  <2>. SUFFICES ASSUME List!Overlap(a, b)
                PROVE  FALSE
    OBVIOUS
  <2>1. /\ a.col < b.col + b.colspan /\ b.col < a.col + a.colspan
        /\ a.row < b.row + b.rowspan /\ b.row < a.row + a.rowspan
    BY DEF List!Overlap
  <2>2. m.row < n.row + n.rowspan /\ n.row < m.row + m.rowspan
    BY <1>2, <1>3, <2>1
  <2>3. m.col < n.col + n.colspan
    BY <1>1, <1>2, <1>3, <2>1
  <2>4. n.col < m.col + m.colspan
    BY <1>1, <1>2, <1>3, <2>1
  <2>. QED
    BY <2>2, <2>3, <2>4 DEF List!Overlap
<1>. QED
  BY <1>4

\* Two merges that share no cell and both leave row i alone share none after
\* it is deleted.
LEMMA CloseRowApart ==
    ASSUME NEW m \in List!Rect, NEW n \in List!Rect, NEW i \in Nat, ~List!Overlap(m, n),
           i < m.row \/ m.row + m.rowspan <= i,
           i < n.row \/ n.row + n.rowspan <= i
    PROVE  ~List!Overlap(List!CloseRow(m, i), List!CloseRow(n, i))
<1>. DEFINE a == List!CloseRow(m, i)
            b == List!CloseRow(n, i)
<1>1. /\ m.row \in Nat /\ m.rowspan \in Nat \ {0} /\ m.col \in Nat /\ m.colspan \in Nat \ {0}
      /\ n.row \in Nat /\ n.rowspan \in Nat \ {0} /\ n.col \in Nat /\ n.colspan \in Nat \ {0}
  BY DEF List!Rect
<1>2. /\ a.col = m.col /\ a.colspan = m.colspan
      /\ a.rowspan = m.rowspan
      /\ m.row > i => a.row = m.row - 1
      /\ m.row <= i => a.row = m.row
  BY CloseRowShape
<1>3. /\ b.col = n.col /\ b.colspan = n.colspan
      /\ b.rowspan = n.rowspan
      /\ n.row > i => b.row = n.row - 1
      /\ n.row <= i => b.row = n.row
  BY CloseRowShape
<1>4. ~List!Overlap(a, b)
  <2>. HIDE DEF a, b
  <2>. SUFFICES ASSUME List!Overlap(a, b)
                PROVE  FALSE
    OBVIOUS
  <2>1. /\ a.row < b.row + b.rowspan /\ b.row < a.row + a.rowspan
        /\ a.col < b.col + b.colspan /\ b.col < a.col + a.colspan
    BY DEF List!Overlap
  <2>2. m.col < n.col + n.colspan /\ n.col < m.col + m.colspan
    BY <1>2, <1>3, <2>1
  <2>3. m.row < n.row + n.rowspan
    BY <1>1, <1>2, <1>3, <2>1
  <2>4. n.row < m.row + m.rowspan
    BY <1>1, <1>2, <1>3, <2>1
  <2>. QED
    BY <2>2, <2>3, <2>4 DEF List!Overlap
<1>. QED
  BY <1>4

\* The same for a column.
LEMMA CloseColApart ==
    ASSUME NEW m \in List!Rect, NEW n \in List!Rect, NEW i \in Nat, ~List!Overlap(m, n),
           i < m.col \/ m.col + m.colspan <= i,
           i < n.col \/ n.col + n.colspan <= i
    PROVE  ~List!Overlap(List!CloseCol(m, i), List!CloseCol(n, i))
<1>. DEFINE a == List!CloseCol(m, i)
            b == List!CloseCol(n, i)
<1>1. /\ m.row \in Nat /\ m.rowspan \in Nat \ {0} /\ m.col \in Nat /\ m.colspan \in Nat \ {0}
      /\ n.row \in Nat /\ n.rowspan \in Nat \ {0} /\ n.col \in Nat /\ n.colspan \in Nat \ {0}
  BY DEF List!Rect
<1>2. /\ a.row = m.row /\ a.rowspan = m.rowspan
      /\ a.colspan = m.colspan
      /\ m.col > i => a.col = m.col - 1
      /\ m.col <= i => a.col = m.col
  BY CloseColShape
<1>3. /\ b.row = n.row /\ b.rowspan = n.rowspan
      /\ b.colspan = n.colspan
      /\ n.col > i => b.col = n.col - 1
      /\ n.col <= i => b.col = n.col
  BY CloseColShape
<1>4. ~List!Overlap(a, b)
  <2>. HIDE DEF a, b
  <2>. SUFFICES ASSUME List!Overlap(a, b)
                PROVE  FALSE
    OBVIOUS
  <2>1. /\ a.col < b.col + b.colspan /\ b.col < a.col + a.colspan
        /\ a.row < b.row + b.rowspan /\ b.row < a.row + a.rowspan
    BY DEF List!Overlap
  <2>2. m.row < n.row + n.rowspan /\ n.row < m.row + m.rowspan
    BY <1>2, <1>3, <2>1
  <2>3. m.col < n.col + n.colspan
    BY <1>1, <1>2, <1>3, <2>1
  <2>4. n.col < m.col + m.colspan
    BY <1>1, <1>2, <1>3, <2>1
  <2>. QED
    BY <2>2, <2>3, <2>4 DEF List!Overlap
<1>. QED
  BY <1>4

\* Every operation on a table keeps its merges inside it and apart.
LEMMA ListStep ==
    ASSUME List!Inv, [List!Next]_(List!vars)
    PROVE  List!Inv'
<1>. USE LimitsAssumption
<1>1. ASSUME NEW i \in 0 .. rows, List!InsertRow(i)
      PROVE  List!Inv'
  <2>. i \in Nat /\ rows \in Nat /\ rects \subseteq List!Rect
    BY DEF List!Inv, List!TypeOK
  <2>1. List!TypeOK'
    BY <1>1, OpenRowShape DEF List!Inv, List!TypeOK, List!InsertRow
  <2>2. ASSUME NEW o \in rects'
        PROVE  o.row + o.rowspan <= rows' /\ o.col + o.colspan <= cols'
    <3>1. PICK m \in rects : o = List!OpenRow(m, i)
      BY <1>1, <2>2 DEF List!InsertRow
    <3>2. m.row + m.rowspan <= rows /\ m.col + m.colspan <= cols
      BY DEF List!Inv, List!InBounds
    <3>3. m.row \in Nat /\ m.rowspan \in Nat /\ m.col \in Nat /\ m.colspan \in Nat
      BY DEF List!Rect
    <3>4. /\ o.col = m.col /\ o.colspan = m.colspan
          /\ m.row >= i => o.row = m.row + 1 /\ o.rowspan = m.rowspan
          /\ m.row < i => o.row = m.row
          /\ m.row < i /\ m.row + m.rowspan > i => o.rowspan = m.rowspan + 1
          /\ m.row < i /\ m.row + m.rowspan <= i => o.rowspan = m.rowspan
      BY <3>1, OpenRowShape
    <3>5. rows' = rows + 1 /\ cols' = cols
      BY <1>1 DEF List!InsertRow
    <3>. QED
      BY <3>2, <3>3, <3>4, <3>5
  <2>3. ASSUME NEW o \in rects', NEW q \in rects', o # q
        PROVE  ~List!Overlap(o, q)
    <3>1. PICK m \in rects : o = List!OpenRow(m, i)
      BY <1>1, <2>3 DEF List!InsertRow
    <3>2. PICK n \in rects : q = List!OpenRow(n, i)
      BY <1>1, <2>3 DEF List!InsertRow
    <3>3. ~List!Overlap(m, n)
      BY <2>3, <3>1, <3>2 DEF List!Inv, List!Disjoint
    <3>. QED
      BY <3>1, <3>2, <3>3, OpenRowApart
  <2>. QED
    BY <2>1, <2>2, <2>3 DEF List!Inv, List!InBounds, List!Disjoint
<1>2. ASSUME NEW i \in 0 .. cols, List!InsertCol(i)
      PROVE  List!Inv'
  <2>. i \in Nat /\ cols \in Nat /\ rects \subseteq List!Rect
    BY DEF List!Inv, List!TypeOK
  <2>1. List!TypeOK'
    BY <1>2, OpenColShape DEF List!Inv, List!TypeOK, List!InsertCol
  <2>2. ASSUME NEW o \in rects'
        PROVE  o.row + o.rowspan <= rows' /\ o.col + o.colspan <= cols'
    <3>1. PICK m \in rects : o = List!OpenCol(m, i)
      BY <1>2, <2>2 DEF List!InsertCol
    <3>2. m.row + m.rowspan <= rows /\ m.col + m.colspan <= cols
      BY DEF List!Inv, List!InBounds
    <3>3. m.row \in Nat /\ m.rowspan \in Nat /\ m.col \in Nat /\ m.colspan \in Nat
      BY DEF List!Rect
    <3>4. /\ o.row = m.row /\ o.rowspan = m.rowspan
          /\ m.col >= i => o.col = m.col + 1 /\ o.colspan = m.colspan
          /\ m.col < i => o.col = m.col
          /\ m.col < i /\ m.col + m.colspan > i => o.colspan = m.colspan + 1
          /\ m.col < i /\ m.col + m.colspan <= i => o.colspan = m.colspan
      BY <3>1, OpenColShape
    <3>5. cols' = cols + 1 /\ rows' = rows
      BY <1>2 DEF List!InsertCol
    <3>. QED
      BY <3>2, <3>3, <3>4, <3>5
  <2>3. ASSUME NEW o \in rects', NEW q \in rects', o # q
        PROVE  ~List!Overlap(o, q)
    <3>1. PICK m \in rects : o = List!OpenCol(m, i)
      BY <1>2, <2>3 DEF List!InsertCol
    <3>2. PICK n \in rects : q = List!OpenCol(n, i)
      BY <1>2, <2>3 DEF List!InsertCol
    <3>3. ~List!Overlap(m, n)
      BY <2>3, <3>1, <3>2 DEF List!Inv, List!Disjoint
    <3>. QED
      BY <3>1, <3>2, <3>3, OpenColApart
  <2>. QED
    BY <2>1, <2>2, <2>3 DEF List!Inv, List!InBounds, List!Disjoint
<1>3. ASSUME NEW i \in 0 .. rows - 1, List!DeleteRow(i)
      PROVE  List!Inv'
  <2>. i \in Nat /\ rows \in Nat /\ rects \subseteq List!Rect
    BY DEF List!Inv, List!TypeOK
  <2>1. List!TypeOK'
    BY <1>3, CloseRowShape DEF List!Inv, List!TypeOK, List!DeleteRow
  <2>2. ASSUME NEW o \in rects'
        PROVE  o.row + o.rowspan <= rows' /\ o.col + o.colspan <= cols'
    <3>1. PICK m \in rects : o = List!CloseRow(m, i)
      BY <1>3, <2>2 DEF List!DeleteRow
    <3>2. m.row + m.rowspan <= rows /\ m.col + m.colspan <= cols
      BY DEF List!Inv, List!InBounds
    <3>3. m.row \in Nat /\ m.rowspan \in Nat \ {0} /\ m.col \in Nat /\ m.colspan \in Nat
      BY DEF List!Rect
    <3>4. i < m.row \/ m.row + m.rowspan <= i
      BY <1>3 DEF List!DeleteRow
    <3>5. /\ o.col = m.col /\ o.colspan = m.colspan /\ o.rowspan = m.rowspan
          /\ m.row > i => o.row = m.row - 1
          /\ m.row <= i => o.row = m.row
      BY <3>1, CloseRowShape
    <3>6. rows' = rows - 1 /\ cols' = cols /\ i <= rows - 1
      BY <1>3 DEF List!DeleteRow
    <3>7. CASE m.row > i
      BY <3>2, <3>3, <3>5, <3>6, <3>7
    <3>8. CASE ~(m.row > i)
      <4>1. o.row = m.row /\ m.row + m.rowspan <= i
        BY <3>3, <3>4, <3>5, <3>8
      <4>. QED
        BY <3>2, <3>3, <3>5, <3>6, <4>1
    <3>. QED
      BY <3>7, <3>8
  <2>3. ASSUME NEW o \in rects', NEW q \in rects', o # q
        PROVE  ~List!Overlap(o, q)
    <3>1. PICK m \in rects : o = List!CloseRow(m, i)
      BY <1>3, <2>3 DEF List!DeleteRow
    <3>2. PICK n \in rects : q = List!CloseRow(n, i)
      BY <1>3, <2>3 DEF List!DeleteRow
    <3>3. ~List!Overlap(m, n)
      BY <2>3, <3>1, <3>2 DEF List!Inv, List!Disjoint
    <3>4. /\ i < m.row \/ m.row + m.rowspan <= i
          /\ i < n.row \/ n.row + n.rowspan <= i
      BY <1>3 DEF List!DeleteRow
    <3>. QED
      BY <3>1, <3>2, <3>3, <3>4, CloseRowApart
  <2>. QED
    BY <2>1, <2>2, <2>3 DEF List!Inv, List!InBounds, List!Disjoint
<1>4. ASSUME NEW i \in 0 .. cols - 1, List!DeleteCol(i)
      PROVE  List!Inv'
  <2>. i \in Nat /\ cols \in Nat /\ rects \subseteq List!Rect
    BY DEF List!Inv, List!TypeOK
  <2>1. List!TypeOK'
    BY <1>4, CloseColShape DEF List!Inv, List!TypeOK, List!DeleteCol
  <2>2. ASSUME NEW o \in rects'
        PROVE  o.row + o.rowspan <= rows' /\ o.col + o.colspan <= cols'
    <3>1. PICK m \in rects : o = List!CloseCol(m, i)
      BY <1>4, <2>2 DEF List!DeleteCol
    <3>2. m.row + m.rowspan <= rows /\ m.col + m.colspan <= cols
      BY DEF List!Inv, List!InBounds
    <3>3. m.row \in Nat /\ m.rowspan \in Nat /\ m.col \in Nat /\ m.colspan \in Nat \ {0}
      BY DEF List!Rect
    <3>4. i < m.col \/ m.col + m.colspan <= i
      BY <1>4 DEF List!DeleteCol
    <3>5. /\ o.row = m.row /\ o.rowspan = m.rowspan /\ o.colspan = m.colspan
          /\ m.col > i => o.col = m.col - 1
          /\ m.col <= i => o.col = m.col
      BY <3>1, CloseColShape
    <3>6. cols' = cols - 1 /\ rows' = rows /\ i <= cols - 1
      BY <1>4 DEF List!DeleteCol
    <3>7. CASE m.col > i
      BY <3>2, <3>3, <3>5, <3>6, <3>7
    <3>8. CASE ~(m.col > i)
      <4>1. o.col = m.col /\ m.col + m.colspan <= i
        BY <3>3, <3>4, <3>5, <3>8
      <4>. QED
        BY <3>2, <3>3, <3>5, <3>6, <4>1
    <3>. QED
      BY <3>7, <3>8
  <2>3. ASSUME NEW o \in rects', NEW q \in rects', o # q
        PROVE  ~List!Overlap(o, q)
    <3>1. PICK m \in rects : o = List!CloseCol(m, i)
      BY <1>4, <2>3 DEF List!DeleteCol
    <3>2. PICK n \in rects : q = List!CloseCol(n, i)
      BY <1>4, <2>3 DEF List!DeleteCol
    <3>3. ~List!Overlap(m, n)
      BY <2>3, <3>1, <3>2 DEF List!Inv, List!Disjoint
    <3>4. /\ i < m.col \/ m.col + m.colspan <= i
          /\ i < n.col \/ n.col + n.colspan <= i
      BY <1>4 DEF List!DeleteCol
    <3>. QED
      BY <3>1, <3>2, <3>3, <3>4, CloseColApart
  <2>. QED
    BY <2>1, <2>2, <2>3 DEF List!Inv, List!InBounds, List!Disjoint
<1>5. ASSUME NEW r \in 0 .. rows - 1, NEW c \in 0 .. cols - 1,
             NEW h \in 1 .. rows, NEW w \in 1 .. cols,
             List!Merge([row |-> r, col |-> c, rowspan |-> h, colspan |-> w])
      PROVE  List!Inv'
  <2>. DEFINE m == [row |-> r, col |-> c, rowspan |-> h, colspan |-> w]
  <2>1. m \in List!Rect
    BY DEF List!Rect, List!Inv, List!TypeOK
  <2>2. List!TypeOK' /\ List!InBounds'
    BY <1>5, <2>1 DEF List!Inv, List!TypeOK, List!InBounds, List!Merge
  <2>3. \A n \in rects : ~List!Overlap(m, n) /\ ~List!Overlap(n, m)
    BY <1>5 DEF List!Merge, List!Overlap
  <2>4. List!Disjoint'
    BY <1>5, <2>3 DEF List!Inv, List!Disjoint, List!Merge
  <2>. QED
    BY <2>2, <2>4 DEF List!Inv
<1>6. ASSUME NEW m \in rects, List!Unmerge(m)
      PROVE  List!Inv'
  BY <1>6 DEF List!Inv, List!TypeOK, List!InBounds, List!Disjoint, List!Unmerge
<1>7. CASE UNCHANGED List!vars
  BY <1>7 DEF List!Inv, List!TypeOK, List!InBounds, List!Disjoint, List!vars
<1>. QED
  BY <1>1, <1>2, <1>3, <1>4, <1>5, <1>6, <1>7 DEF List!Next

\* Whatever is done to a table of any size, its merges stay inside it and no
\* two share a cell: the Word builder never meets a merge it cannot lay out.
THEOREM MergesSound == List!Spec => []List!Inv
<1>1. List!Init => List!Inv
  BY DEF List!Init
<1>2. List!Inv /\ [List!Next]_(List!vars) => List!Inv'
  BY ListStep
<1>. QED
  BY <1>1, <1>2, PTL DEF List!Spec

=============================================================================
