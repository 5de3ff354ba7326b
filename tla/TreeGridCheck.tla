---------------------------- MODULE TreeGridCheck ----------------------------
(***************************************************************************)
(* The boxes of a tree grid: easyui-extend-treegrid.js.  A click on the    *)
(* box of a row selects or unselects the rows below it and, if need be,    *)
(* those above.  The click goes no further, so that the grid itself does   *)
(* not learn of it: the row that was clicked has its box changed, but it   *)
(* is selected only if a later click on another row makes it so.           *)
(* The rows name their parents, and some are loaded when a row is opened.  *)
(***************************************************************************)
EXTENDS Integers, Sequences, FiniteSets, SequencesExt

CONSTANTS
    Ids, Root,
    ParentOf,   \* ParentOf[r]: a row or the root
    Lazy,       \* the rows whose rows below come when they are opened
    Marked,     \* the rows the server sends as checked
    MaxClicks   \* bound: the number of clicks

VARIABLES
    data,       \* the rows that are there, their boxes, and what is selected
    page        \* the rows that are being opened, whether rows are opened when they
                \* are ticked; and history: rows clicked, the last click

vars == <<data, page>>

\* The rows are a tree: some numbers rise from the root down.
TreeGridCheckAssumption ==
    /\ IsFiniteSet(Ids) /\ Root \notin Ids /\ Lazy \subseteq Ids /\ Marked \subseteq Ids /\ MaxClicks \in Nat
    /\ ParentOf \in [Ids -> Ids \cup {Root}]
    /\ \E n \in [Ids -> 1 .. Cardinality(Ids)] : \A r \in Ids : ParentOf[r] # Root => n[ParentOf[r]] < n[r]

Kids(R, r) == {k \in R : ParentOf[k] = r}
\* The rows above, from the parent up.
Above[r \in Ids \cup {Root}] ==
    IF r = Root \/ ParentOf[r] = Root THEN <<>> ELSE <<ParentOf[r]>> \o Above[ParentOf[r]]

\* getChildren: all the rows below that are there.
RowsBelow(R, r) == {k \in R : r \in ToSet(Above[k])}

\* select and unselect of the grid, which tick and untick.
Select(d, R) == [d EXCEPT !.box = @ \cup R, !.sel = @ \cup R]
Unselect(d, R) == [d EXCEPT !.box = @ \ R, !.sel = @ \ R]

-----------------------------------------------------------------------------
\* IsParentHasSelectedChildren: one is taken off, for the row that was clicked.
IsParentHasSelectedChildren(d, r) == Cardinality(Kids(d.rows, r) \cap d.sel) - 1 > 0

SelectParent(d, r, on) ==
    FoldLeft(LAMBDA e, a : IF on \/ IsParentHasSelectedChildren(e, a) THEN Select(e, {a}) ELSE Unselect(e, {a}),
             d, Above[r])

\* Faulty: the rows next below only.
SelectNext(d, r, on) ==
    IF on THEN Select(d, Kids(d.rows, r)) ELSE Unselect(d, Kids(d.rows, r))
SelectChildren(d, r, on) ==
    IF on THEN Select(d, RowsBelow(d.rows, r)) ELSE Unselect(d, RowsBelow(d.rows, r))

\* onLoadSuccess selects whatever is marked, of all the rows that are there.
Loaded(d, R) == Select([d EXCEPT !.rows = @ \cup R], Marked \cap (d.rows \cup R))

-----------------------------------------------------------------------------
AtFirst == {r \in Ids : \A i \in 1 .. Len(Above[r]) : Above[r][i] \notin Lazy}
Unopened(d) == {r \in Lazy \cap d.rows : Kids(d.rows, r) = {} /\ Kids(Ids, r) # {}}

Init ==
    \E deep \in BOOLEAN :
        /\ data = Loaded([rows |-> {}, box |-> {}, sel |-> {}], AtFirst)
        /\ page = [net |-> {}, deep |-> deep, clicked |-> {}, last |-> <<>>, clicks |-> 0]

\* A box is clicked: deep cascading opens the row first, and takes the rows that
\* are there.
Click(r) ==
    LET on == r \notin data.box
        d  == [data EXCEPT !.box = IF on THEN @ \cup {r} ELSE @ \ {r}]
        opened == IF on /\ page.deep THEN Unopened(data) \cap ({r} \cup RowsBelow(data.rows, r)) ELSE {} IN
    /\ page.clicks < MaxClicks
    /\ data' = SelectChildren(SelectParent(d, r, on), r, on)
    /\ page' = [page EXCEPT !.clicks = @ + 1, !.net = @ \cup opened, !.clicked = @ \cup {r},
                            !.last = <<[row |-> r, on |-> on, rows |-> data.rows]>>]

Expand(r) ==
    /\ r \in Unopened(data) \ page.net
    /\ page' = [page EXCEPT !.net = @ \cup {r}]
    /\ UNCHANGED data

\* The rows below come; a click does not reach them anew.
Answer(r) ==
    /\ data' = Loaded(data, Kids(Ids, r))
    /\ page' = [page EXCEPT !.net = @ \ {r}, !.last = IF Marked = {} THEN @ ELSE <<>>]

Next ==
    \/ \E r \in data.rows : Click(r) \/ Expand(r)
    \/ \E r \in page.net : Answer(r)

Spec == Init /\ [][Next]_vars

-----------------------------------------------------------------------------
TypeOK ==
    /\ data.rows \subseteq Ids /\ data.box \subseteq data.rows /\ data.sel \subseteq data.rows
    /\ page.net \subseteq Lazy /\ page.clicks \in 0 .. MaxClicks

\* After a click the rows below that were there are ticked and selected as it
\* says, and those above too if it ticked the row; a box that was never clicked is
\* ticked just when its row is selected.
Cascades ==
    /\ \A i \in 1 .. Len(page.last) :
          LET c == page.last[i]
              below == RowsBelow(c.rows, c.row) IN
          /\ c.on => ToSet(Above[c.row]) \cup below \subseteq data.box \cap data.sel
          /\ ~c.on => below \cap (data.box \cup data.sel) = {}
          /\ (c.row \in data.box) = c.on
    /\ \A r \in data.rows \ page.clicked : r \in data.box <=> r \in data.sel

=============================================================================
