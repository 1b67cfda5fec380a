------------------------------- MODULE Mosaic -------------------------------
(***************************************************************************)
(* The mosaic of a tab: where its tiles (tables and charts) are, and how   *)
(* they make room for each other (src/web/js/mosaic.js, and the callers of *)
(* agencer in app.js and chart.js).                                        *)
(*                                                                         *)
(* A tile occupies a rectangle of whole cells.  After every change the     *)
(* layout is normalised: rectangles are brought within the grid, overlaps  *)
(* are pushed downwards, every tile rises as far as it can.  The steps are *)
(* the gestures and commands of the operator, the removals that another    *)
(* window causes, and the reading back of a layout.                        *)
(***************************************************************************)
EXTENDS Naturals, Sequences, FiniteSets, TLC

CONSTANTS
    Tables,     \* tiles that may be open: tables
    Charts,     \* ... and charts
    Cols, MinW, MinH, MaxH,
    DefaultSize,    \* "table", "chart" -> size of a new tile
    Passes,     \* rounds of pushing at most
    Rows,       \* rows searched for a free place
    Aims,       \* bound: rows at which a tile is dropped
    None

Tiles == Tables \cup Charts
Kind(t) == IF t \in Tables THEN "table" ELSE "chart"
Sizes == [w : MinW..Cols, h : MinH..MaxH]

VARIABLES
    tables,     \* tab.tables, in the order of their creation
    charts,     \* tab.charts
    rect,       \* open tile -> its rectangle
    grip,       \* None, or the tile being resized
    ghost       \* None, or the tile being dragged and the cell of its ghost

vars == <<tables, charts, rect, grip, ghost>>
Idle == grip = None /\ ghost = None

Smallest(S) == CHOOSE x \in S : \A y \in S : x <= y
Within(v, a, b) == IF v > b /\ b >= a THEN b ELSE IF v < a \/ b < a THEN a ELSE v

Elements(s) == {s[i] : i \in DOMAIN s}
Position(s, e) == CHOOSE i \in DOMAIN s : s[i] = e
Without(s, e) == SelectSeq(s, LAMBDA x : x # e)
Put(f, k, v) == [x \in DOMAIN f \cup {k} |-> IF x = k THEN v ELSE f[x]]
Rect(x, y, s) == [x |-> x, y |-> y, w |-> s.w, h |-> s.h]

tilesOf(ts, cs) == ts \o cs

(***************************************************************************)
(* Geometry.  R is a layout (tile -> rectangle), seq its tiles in the      *)
(* order of tilesOf, which decides between tiles at the same cell.         *)
(***************************************************************************)

hit(a, b) == /\ a.x < b.x + b.w /\ b.x < a.x + a.w
             /\ a.y < b.y + b.h /\ b.y < a.y + a.h

borner(r) == LET w == Within(r.w, MinW, Cols) IN
    [x |-> Within(r.x, 0, Cols - w), y |-> r.y, w |-> w, h |-> Within(r.h, MinH, MaxH)]

\* The tiles by row, then by column.
ReadBefore(R, seq, s, t) ==
    \/ R[s].y < R[t].y
    \/ R[s].y = R[t].y /\ R[s].x < R[t].x
    \/ R[s].y = R[t].y /\ R[s].x = R[t].x /\ Position(seq, s) < Position(seq, t)
Reading(R, seq) == SortSeq(seq, LAMBDA s, t : ReadBefore(R, seq, s, t))

\* Of two tiles that overlap the second one moves, unless it is held.
Push(R, held, a, b) ==
    IF ~hit(R[a], R[b]) THEN R
    ELSE IF b = held THEN [R EXCEPT ![a].y = R[b].y + R[b].h]
                     ELSE [R EXCEPT ![b].y = R[a].y + R[a].h]

\* One round over the pairs, in the order of the beginning of the round.
PushRound(R, seq, held) ==
    LET order == Reading(R, seq)
        n == Len(seq)
        pass[k \in 0..(n * n)] ==
          IF k = 0 THEN R
          ELSE LET i == ((k - 1) \div n) + 1
                   j == ((k - 1) % n) + 1 IN
               IF i < j THEN Push(pass[k - 1], held, order[i], order[j]) ELSE pass[k - 1]
    IN pass[n * n]

Overlapping(R) == \E s \in DOMAIN R : \E t \in DOMAIN R \ {s} : hit(R[s], R[t])

ecarter(R, seq, held) ==
    LET round[k \in 0..Passes] ==
          IF k = 0 THEN R
          ELSE LET before == round[k - 1] IN
               IF Overlapping(before) THEN PushRound(before, seq, held) ELSE before
    IN round[Passes]

\* The highest row from which a tile can be reached through free cells.
Risen(R, t) ==
    LET free(y) == \A o \in DOMAIN R \ {t} : ~hit(R[o], [R[t] EXCEPT !.y = y]) IN
    Smallest({y \in 0..R[t].y : \A z \in y..(R[t].y - 1) : free(z)})

tasser(R, seq) ==
    LET order == Reading(R, seq)
        rise[k \in 0..Len(seq)] ==
          IF k = 0 THEN R
          ELSE LET before == rise[k - 1] IN
               [before EXCEPT ![order[k]].y = Risen(before, order[k])]
    IN rise[Len(seq)]

\* Variant: tiles stay where they were pushed.
NormalisedLoose(R, seq, held) == ecarter([t \in DOMAIN R |-> borner(R[t])], seq, held)
normaliser(R, seq, held) ==
    tasser(ecarter([t \in DOMAIN R |-> borner(R[t])], seq, held), seq)

\* The first free place, from top to bottom and left to right.
placeLibre(R, s) ==
    LET free == {p \in (0..(Cols - s.w)) \X (0..(Rows - 1)) :
                   \A o \in DOMAIN R : ~hit(R[o], Rect(p[1], p[2], s))}
    IN IF free = {} THEN <<0, 0>>
       ELSE CHOOSE p \in free : \A q \in free : p[2] < q[2] \/ (p[2] = q[2] /\ p[1] <= q[1])

\* A new tile: at the cell wanted, where the others make room for it, or at
\* the first free place.  seq has the tile.
placerNouvelle(R, seq, t, s, cell) ==
    IF cell = None
    THEN LET p == placeLibre(R, s) IN normaliser(Put(R, t, Rect(p[1], p[2], s)), seq, None)
    ELSE normaliser(Put(R, t, Rect(cell.x, cell.y, s)), seq, t)

(***************************************************************************)
(* Operations.                                                             *)
(***************************************************************************)

Shown == tilesOf(tables, charts)
Open  == DOMAIN rect
Cells == [x : 0..(Cols - 1), y : Aims]

Listed(t) == /\ tables' = IF t \in Tables THEN Append(tables, t) ELSE tables
             /\ charts' = IF t \in Charts THEN Append(charts, t) ELSE charts

\* createTable, createChart: a tile of its default size, or received from
\* elsewhere with its own size, dropped at a cell or not.
Create(t, s, cell) ==
    /\ t \notin Open /\ Idle
    /\ Listed(t)
    /\ rect' = placerNouvelle(rect, tilesOf(tables', charts'), t, s, cell)
    /\ UNCHANGED <<grip, ghost>>

\* The copy is aimed just below the original.
Duplicate(t, copy) ==
    /\ t \in Open
    /\ Kind(copy) = Kind(t)
    /\ Create(copy, [w |-> rect[t].w, h |-> rect[t].h],
              [x |-> rect[t].x, y |-> rect[t].y + rect[t].h])

\* fantome: the tile is dragged over a cell of its tab.
DragOver(t, cell) ==
    /\ t \in Open /\ Idle
    /\ ghost' = [tile |-> t, x |-> Within(cell.x, 0, Cols - rect[t].w), y |-> cell.y]
    /\ UNCHANGED <<tables, charts, rect, grip>>
DragAway ==
    /\ ghost # None
    /\ ghost' = None
    /\ UNCHANGED <<tables, charts, rect, grip>>

\* Variant: the tile goes where it is shown, but is not held there.
DropLoose ==
    /\ ghost # None
    /\ rect' = normaliser([rect EXCEPT ![ghost.tile].x = ghost.x, ![ghost.tile].y = ghost.y],
                          Shown, None)
    /\ ghost' = None
    /\ UNCHANGED <<tables, charts, grip>>
\* placeTile: it is dropped there, and the others make room for it.
Drop ==
    /\ ghost # None
    /\ rect' = normaliser([rect EXCEPT ![ghost.tile].x = ghost.x, ![ghost.tile].y = ghost.y],
                          Shown, ghost.tile)
    /\ ghost' = None
    /\ UNCHANGED <<tables, charts, grip>>

\* removeTable, removeChart.  Another window that takes a tile may cause it
\* at any time, during a resizing too.
Remove(t) ==
    /\ t \in Open
    /\ tables' = Without(tables, t) /\ charts' = Without(charts, t)
    /\ rect' = normaliser([o \in Open \ {t} |-> rect[o]], tilesOf(tables', charts'), None)
    /\ grip' = IF grip = t THEN None ELSE grip
    /\ ghost' = IF ghost # None /\ ghost.tile = t THEN None ELSE ghost

\* "Taille de départ" in the menu of a tile.
ResetSize(t) ==
    /\ t \in Open /\ Idle
    /\ LET d == DefaultSize[Kind(t)] IN
       rect' = normaliser([rect EXCEPT ![t].w = d.w, ![t].h = d.h], Shown, None)
    /\ UNCHANGED <<tables, charts, grip, ghost>>

(***************************************************************************)
(* The handle of a tile.  Every cell crossed rearranges the others.        *)
(***************************************************************************)

GripDown(t) ==
    /\ t \in Open /\ Idle
    /\ grip' = t
    /\ UNCHANGED <<tables, charts, rect, ghost>>

\* The pointer has crossed so many cells since GripDown.
GripMove(w, h) ==
    /\ grip # None
    /\ LET r == [rect[grip] EXCEPT !.w = Within(w, MinW, Cols - rect[grip].x),
                                   !.h = Within(h, MinH, MaxH)] IN
       /\ r # rect[grip]
       /\ rect' = normaliser([rect EXCEPT ![grip] = r], Shown, grip)
    /\ UNCHANGED <<tables, charts, grip, ghost>>

GripUp ==
    /\ grip # None
    /\ rect' = normaliser(rect, Shown, grip)
    /\ grip' = None
    /\ UNCHANGED <<tables, charts, ghost>>

GripDoubleClick(t) ==
    /\ t \in Open /\ Idle
    /\ LET d == DefaultSize[Kind(t)] IN
       rect' = normaliser([rect EXCEPT ![t].w = d.w, ![t].h = d.h], Shown, t)
    /\ UNCHANGED <<tables, charts, grip, ghost>>

(***************************************************************************)
(* Layouts read back (applyConfigToActive): each tile is created at its    *)
(* place among those created before it, tables first.                      *)
(***************************************************************************)

Restored(R, seq) ==
    LET made[k \in 0..Len(seq)] ==
          IF k = 0 THEN [t \in {} |-> R[t]]
          ELSE LET t == seq[k] IN
               placerNouvelle(made[k - 1], SubSeq(seq, 1, k), t,
                              [w |-> R[t].w, h |-> R[t].h], [x |-> R[t].x, y |-> R[t].y])
    IN normaliser(made[Len(seq)], seq, None)

\* The page is loaded again, or a layout of the same tiles is opened.
Reload ==
    /\ rect' = Restored(rect, Shown)
    /\ grip' = None /\ ghost' = None
    /\ UNCHANGED <<tables, charts>>

\* A layout of a former format: the tiles flow in the order of their rank.
Flowed(R, rank) ==
    LET laid[k \in 0..Len(rank)] ==
          IF k = 0 THEN [t \in {} |-> R[t]]
          ELSE LET s == [w |-> R[rank[k]].w, h |-> R[rank[k]].h]
                   p == placeLibre(laid[k - 1], s) IN
               Put(laid[k - 1], rank[k], Rect(p[1], p[2], s))
    IN laid[Len(rank)]
OpenFormer(rank) ==
    /\ Idle
    /\ rect' = normaliser(Flowed(rect, rank), Shown, None)
    /\ UNCHANGED <<tables, charts, grip, ghost>>

-----------------------------------------------------------------------------

Init ==
    /\ tables = <<>> /\ charts = <<>>
    /\ rect = [t \in {} |-> None]
    /\ grip = None /\ ghost = None

Orders(S) == {f \in [1..Cardinality(S) -> S] : Elements(f) = S}

Next ==
    \/ \E t \in Tiles :
         \/ Create(t, DefaultSize[Kind(t)], None)
         \/ \E s \in Sizes, cell \in Cells \cup {None} : Create(t, s, cell)
         \/ \E copy \in Tiles : Duplicate(t, copy)
         \/ \E cell \in Cells : DragOver(t, cell)
         \/ Remove(t) \/ ResetSize(t) \/ GripDown(t) \/ GripDoubleClick(t)
    \/ \E w \in MinW..Cols, h \in MinH..MaxH : GripMove(w, h)
    \/ DragAway \/ Drop \/ GripUp \/ Reload
    \/ \E rank \in Orders(Open) : OpenFormer(rank)

Spec == Init /\ [][Next]_vars

-----------------------------------------------------------------------------

TypeOK ==
    /\ Elements(tables) = Open \cap Tables /\ Elements(charts) = Open \cap Charts
    /\ Len(tables) + Len(charts) = Cardinality(Open)
    /\ \A t \in Open : /\ rect[t].x + rect[t].w <= Cols
                       /\ [w |-> rect[t].w, h |-> rect[t].h] \in Sizes
    /\ grip # None => grip \in Open

\* After every gesture, and at every cell crossed during one, no tile hides
\* another, and none leaves a hole above it: pushing and rising end in a layout
\* that neither would change (mosaic.js:103-109).
Settled == \A t \in Open :
    /\ \A o \in Open \ {t} : ~hit(rect[t], rect[o])
    /\ rect[t].y > 0 => \E o \in Open \ {t} : hit(rect[o], [rect[t] EXCEPT !.y = rect[t].y - 1])

\* One tile is in another's columns, and wholly above it.
Above(r, q) == r.x < q.x + q.w /\ q.x < r.x + r.w /\ r.y + r.h <= q.y

\* Pushing is downwards only: except by the opening of a former layout, no step
\* moves more than one tile sideways or changes the size of more than one.
\* Nothing pushes the tile under the hand, but gravity holds for it too: the
\* comments say that it never moves and lands where its ghost is (mosaic.js:
\* 68-72, 190-192), and it does not quite.  A tile that is resized keeps its
\* column, and its row unless it is made narrower or another one is taken away:
\* it may then rise.  A tile that is dropped lands in the column aimed at, at
\* the row aimed at or higher, and never passes a tile it was aimed under.
Steady ==
    [][ /\ \/ Cardinality({t \in Open \cap DOMAIN rect' :
                  [rect'[t] EXCEPT !.y = 0] # [rect[t] EXCEPT !.y = 0]}) <= 1
           \/ \E rank \in Orders(Open) : OpenFormer(rank)
        /\ grip # None /\ grip' = grip =>
             /\ rect'[grip].x = rect[grip].x
             /\ rect'[grip].y <= rect[grip].y
             /\ DOMAIN rect' = Open /\ rect'[grip].w >= rect[grip].w =>
                  rect'[grip].y = rect[grip].y
        /\ ghost # None /\ ghost' = None /\ rect' # rect /\ DOMAIN rect' = Open =>
             LET t == ghost.tile
                 aimed == Rect(ghost.x, ghost.y, rect[t]) IN
             \/ /\ rect'[t].x = ghost.x /\ rect'[t].y <= ghost.y
                /\ \A o \in Open \ {t} : Above(rect[o], aimed) => Above(rect'[o], rect'[t])
             \/ Reload ]_vars

InReadingOrder(s) == \A i, j \in DOMAIN s : i < j => ReadBefore(rect, s, s[i], s[j])

\* Reading a layout back may rearrange it, since a tile rises before those above
\* it are created, but not for ever: what it gives is read back as it is; and a
\* tab that has only charts, listed in the order in which they are read, comes
\* back as it was saved (app.js:1338-1419).
ReadBack == Idle =>
    LET once == Restored(rect, Shown) IN
    /\ Restored(once, Shown) = once
    /\ tables = <<>> /\ InReadingOrder(charts) => once = rect

=============================================================================
