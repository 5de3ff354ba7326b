------------------------------ MODULE Dragging ------------------------------
(***************************************************************************)
(* Rows that are dragged within a grid and from one grid to another:       *)
(* easyui-extend-datagrid-dnd.js over jquery.draggable.js and              *)
(* jquery.droppable.js.  The places where a row may be dropped are         *)
(* collected when the drag starts: other rows, and the view of a grid      *)
(* that has none.  One row is dragged at a time, and no release is missed. *)
(* A grid with an idField gives away its own list of selected rows, not a  *)
(* copy; a drop that deletes rows while it goes through that list fails    *)
(* half-way or loses the row, and a drag that fails never ends: what       *)
(* happens after that is not followed.                                     *)
(***************************************************************************)
EXTENDS Integers, Sequences, FiniteSets, SequencesExt

CONSTANTS
    Grids, Rows,
    Rows0,      \* the rows of each grid at first
    Refused,    \* rows on which the page lets nothing be dropped
    MaxDrags    \* bound: the number of drags

VARIABLES
    data,       \* rows of each grid; have the grids an idField; are the selected rows
                \* dragged together; rows selected, in the order of selection, and marked
                \* as such when dragged; rows that accept none; views that accept; rows
                \* and views that were entered; did a drop fail
    page        \* the drag: row, places, places that refused; drags so far; and
                \* history: the last drop, rows of drops that went through the live list

vars == <<data, page>>
None == "none"
GridOf(d, r) == CHOOSE g \in Grids : r \in ToSet(d.rows[g])
Pos(s, r) == CHOOSE i \in DOMAIN s : s[i] = r

-----------------------------------------------------------------------------
\* getDraggingRow: all that are selected in the grid, if any are and that is
\* asked for, else the row itself; they come as the list of selected rows has them
\* where there is an idField, else as the rows do.  A mark once set is seldom taken
\* away.
SelectedIn(d, g) ==
    IF d.byId THEN SelectSeq(d.selected, LAMBDA x : x \in ToSet(d.rows[g]))
    ELSE SelectSeq(d.rows[g], LAMBDA x : x \in ToSet(d.selected))
Together(d, r) == d.many /\ SelectedIn(d, GridOf(d, r)) # <<>>
Moving(d, r) == IF Together(d, r) THEN SelectedIn(d, GridOf(d, r)) ELSE <<r>>
Marked(d, r) ==
    LET s == ToSet(Moving(d, r))
    IN  [d EXCEPT !.marked = IF ~d.many /\ r \notin ToSet(d.selected) THEN @
                             ELSE IF s \subseteq ToSet(d.selected) THEN @ \cup s ELSE @ \ s]
Live(d, r) == d.byId /\ Together(d, r)

\* A row that is deleted is no longer selected; one that is inserted is if it
\* carries the mark, and accepts others again.
Deleted(d, g, list) ==
    [d EXCEPT !.rows[g] = SelectSeq(@, LAMBDA x : x \notin ToSet(list)),
              !.selected = SelectSeq(@, LAMBDA x : x \notin ToSet(list))]
Inserted(d, g, list, i) ==
    [d EXCEPT !.rows[g] = SubSeq(@, 1, i) \o list \o SubSeq(@, i + 1, Len(@)),
              !.selected = @ \o SelectSeq(list, LAMBDA x : x \in d.marked \ ToSet(d.selected)),
              !.deaf = @ \ ToSet(list), !.views = @ \ {g}, !.entered = @ \ ToSet(list)]
\* setDroppable: the view of a grid accepts rows while it has none.
Views(d, g) == [d EXCEPT !.views = IF d.rows[g] = <<>> THEN @ \cup {g} ELSE @ \ {g}]

\* Rows are deleted as the list of selected rows is gone through, and each leaves it
\* at once: every other row is passed over, and with two or more the end is a row that
\* is not there, which fails.  On a row nothing is left to insert; on a view the rows
\* were appended before.
Spliced(d, r, to) ==
    LET list == Moving(d, r)
        from == GridOf(d, r)
        out  == Deleted(d, from, SelectSeq(list, LAMBDA x : Pos(list, x) % 2 = 1))
        new  == IF to \in Grids THEN Inserted(out, to, list, 0) ELSE out
    IN  IF Len(list) > 1 THEN [new EXCEPT !.broken = TRUE]
        ELSE IF to \in Grids THEN Views(new, from) ELSE new

\* onDrop: before or after the row; in its own grid the place is looked up again
\* when the rows were taken out.
Dropped(d, r, to, half) ==
    LET list == Moving(d, r)
        from == GridOf(d, r)
        out  == Deleted(d, from, list)
        g    == GridOf(d, to)
        at(x) == Pos(x.rows[g], to) - (IF half = "top" THEN 1 ELSE 0)
    IN  IF Live(d, r) THEN Spliced(d, r, to)
        ELSE IF to \in Grids THEN Views(Inserted(out, to, list, 0), from)
        ELSE IF g = from THEN Inserted(out, g, list, at(out))
        ELSE Inserted(out, g, list, at(d))

-----------------------------------------------------------------------------
Init ==
    /\ \E byId, many \in BOOLEAN :
          data = [rows |-> Rows0, byId |-> byId, many |-> many, selected |-> <<>>, marked |-> {},
                  deaf |-> {}, views |-> {g \in Grids : Rows0[g] = <<>>}, entered |-> {}, broken |-> FALSE]
    /\ page = [row |-> None, places |-> {}, barred |-> {}, drags |-> 0, last |-> <<>>, harmed |-> {}]

Becomes(d, p) == data' = d /\ page' = p
Present(d) == UNION {ToSet(d.rows[g]) : g \in Grids}
\* What may be entered: a place that is not disabled.
Enabled(d, p) == {t \in p.places : t \notin p.barred /\ (t \in Grids => t \in d.views)}

-----------------------------------------------------------------------------
Select(r) ==
    /\ page.row = None /\ page.last = <<>> /\ r \in Present(data)
    /\ Becomes([data EXCEPT !.selected = IF r \in ToSet(@) THEN SelectSeq(@, LAMBDA x : x # r)
                                         ELSE Append(@, r)], page)
\* onBeforeDrag: the rows that are to move accept none from now on.
Grabbed(d, r) == [Marked(d, r) EXCEPT !.deaf = @ \cup ToSet(Moving(d, r))]
\* The places that accept the row are collected when the drag starts.
Places(d, r) == (Present(d) \ (d.deaf \cup {r})) \cup Grids
Press(r) ==
    /\ page.row = None /\ page.drags < MaxDrags /\ r \in Present(data) /\ ~data.broken
    /\ Becomes(Grabbed(data, r),
               [page EXCEPT !.row = r, !.drags = @ + 1, !.last = <<>>, !.places = Places(data', r)])

\* The mouse is at a place or elsewhere.  A row that refuses when it is entered is
\* disabled until the drag ends, and counts as entered after that.
MovedTo(d, p, at) ==
    LET here == Enabled(d, p) \cap {at}
        new  == (here \ d.entered) \cap Refused
    IN  <<[d EXCEPT !.entered = (@ \ (Enabled(d, p) \ {at})) \cup here], [p EXCEPT !.barred = @ \cup new]>>
Move(at) ==
    /\ page.row # None
    /\ LET m == MovedTo(data, page, at) IN Becomes(m[1], m[2])

\* The release moves a last time, drops where it is, and makes all that was dragged
\* and the view a place again: of a live list nothing is left after the drop.
Ended(d, list, g) == IF list = <<>> THEN d ELSE Views([d EXCEPT !.deaf = @ \ ToSet(list)], g)
Release(at, half) ==
    /\ page.row # None
    /\ LET m    == MovedTo(data, page, at)
           r    == page.row
           list == Moving(data, r)
           ok   == at \in Enabled(m[1], m[2])
           live == ok /\ Live(data, r)
           d    == IF ok THEN [Dropped(Marked(m[1], r), r, at, half) EXCEPT !.entered = @ \ {at}] ELSE m[1]
       IN  Becomes(Ended(d, IF live THEN <<>> ELSE list, GridOf(data, r)),
                   [page EXCEPT !.row = None, !.places = {}, !.barred = {},
                                !.harmed = IF live THEN @ \cup ToSet(list) ELSE @,
                                !.last = IF ok THEN <<data.rows, ToSet(list), at, half>> ELSE <<>>])

Next ==
    \/ \E r \in Rows : Select(r) \/ Press(r)
    \/ \E at \in Rows \cup Grids \cup {"away"} : Move(at) \/ \E h \in {"top", "bottom"} : Release(at, h)

Spec == Init /\ [][Next]_vars

-----------------------------------------------------------------------------
TypeOK ==
    /\ \A g \in Grids : ToSet(data.rows[g]) \subseteq Rows
    /\ IsInjective(data.selected) /\ ToSet(data.selected) \subseteq Present(data)
    /\ data.marked \subseteq Rows /\ data.deaf \subseteq Rows
    /\ data.views \subseteq Grids /\ data.entered \subseteq Rows \cup Grids
    /\ page.row \in Rows \cup {None} /\ page.barred \subseteq Refused /\ page.harmed \subseteq Rows
    /\ data.broken => page.harmed # {}

\* Dragging moves the rows that were shown to move, and no others.  What was dropped
\* is, in its old order, next to the row it was dropped on, on the side that was
\* shown; no row is lost or doubled; and without a drag every row and every empty
\* grid is a place to drop at, and no grid with rows is.  That holds but for rows
\* dropped as the selection of a grid with an idField, of which every other one is
\* lost, or on a view all the rest doubled; other rows are where they were even then.
DropsWhereShown ==
    /\ \A r \in Rows \ page.harmed :
          Cardinality({<<g, i>> \in Grids \X (1 .. Cardinality(Rows)) :
                          i \in DOMAIN data.rows[g] /\ data.rows[g][i] = r}) = 1
    /\ page.row = None /\ page.harmed = {} =>
         /\ data.deaf = {}
         /\ data.views = {g \in Grids : data.rows[g] = <<>>}
    /\ page.last # <<>> =>
         LET old == page.last[1]  S == page.last[2]  at == page.last[3]
             Others(s) == SelectSeq(s, LAMBDA x : x \notin S)
             new == data.rows[IF at \in Grids THEN at ELSE GridOf(data, at)]
         IN  /\ \A g \in Grids : Others(data.rows[g]) = Others(old[g])
             /\ S \cap page.harmed = {} =>
                \E i \in 0 .. Len(new) - Cardinality(S) :
                   LET part == SubSeq(new, i + 1, i + Cardinality(S)) IN
                   /\ \E g \in Grids : part = SelectSeq(old[g], LAMBDA x : x \in S)
                   /\ at \in Rows => IF page.last[4] = "top" THEN i + Cardinality(S) + 1 = Pos(new, at) ELSE i = Pos(new, at)

=============================================================================
