----------------------------- MODULE GridColumns -----------------------------
(***************************************************************************)
(* The columns of a grid, in jquery.datagrid.js: their order, which comes  *)
(* from the rows of the header, and their widths, which are fitted to the  *)
(* grid when it or a column of it changes, as on every list page.  What is *)
(* fitted is the width a column has in the options, by what is left of the *)
(* width that the header shows; a page cannot show a width below 0, and    *)
(* then keeps the one it had.  Paddings and frozen columns are left out.   *)
(***************************************************************************)
EXTENDS Integers, Sequences, FiniteSets, SequencesExt, FiniteSetsExt

CONSTANTS
    Headers,    \* the rows of the header: cells [field, colspan], no field for a group
    Width0,     \* Width0[f]: the width a column asks for, 0 if it asks for none
    Content,    \* Content[f]: how wide what it has is
    Sizes,      \* widths of the grid
    Bar,        \* the width of the scroll bar
    Dragged,    \* widths that a column may be dragged to
    MaxMoves    \* bound: the number of changes

VARIABLES
    data,       \* the width of the grid; of columns the widths kept and shown, which
                \* are hidden, automatic, not a number
    page        \* whether the grid is still to be laid out; and history: changes, whether
                \* some width was below 0, and whether the last one fitted left out a
                \* column that had nothing beside it to fit

vars == <<data, page>>

-----------------------------------------------------------------------------
(* getColumnFields: a cell of a row goes to the place, of those that are    *)
(* free, that it has in its row; fields of the first rows take theirs from  *)
(* those below.                                                             *)
Starts(row) == [i \in 1 .. Len(row) |-> 1 + FoldLeft(LAMBDA n, c : n + c.colspan, 0, SubSeq(row, 1, i - 1))]

\* The k-th place of those that are not taken.
FreePlace(taken, k) == CHOOSE p \in 1 .. k + Cardinality(taken) :
                           p \notin taken /\ Cardinality((1 .. p) \ taken) = k

Put(places, row) ==
    LET own == {i \in 1 .. Len(row) : row[i].field # ""}
        at  == [i \in own |-> FreePlace(DOMAIN places, Starts(row)[i])]
        new == {at[i] : i \in own} IN
    [p \in DOMAIN places \cup new |->
        IF p \in new THEN row[CHOOSE i \in own : at[i] = p].field ELSE places[p]]

ColumnFields ==
    LET places == FoldLeft(Put, [p \in {} |-> ""], Headers)
    IN [p \in 1 .. Cardinality(DOMAIN places) |-> places[p]]

Fields == ToSet(ColumnFields)

-----------------------------------------------------------------------------
SumOf(w, F) == FoldSet(LAMBDA f, n : n + w[f], 0, F)
FloorOf(a, b) == IF b > 0 THEN a \div b ELSE (-a) \div (-b)

Shown(d) == Fields \ d.hidden
Adjustable(d) == Shown(d) \ d.auto
LastOf(F) == ColumnFields[Max({i \in 1 .. Len(ColumnFields) : ColumnFields[i] \in F})]

\* A width is kept whatever it is; below 0 it cannot be shown.
Sized(d, w) ==
    [d EXCEPT !.width = [f \in Fields |-> IF f \in DOMAIN w THEN w[f] ELSE @[f]],
              !.drawn = [f \in Fields |-> IF f \in DOMAIN w /\ w[f] >= 0 THEN w[f] ELSE @[f]]]

\* Faulty: the last column does not get the rest.
FitRoughly(d) ==
    LET F == Adjustable(d)
        total == SumOf(d.width, F)
        left  == d.size - SumOf(d.drawn, Shown(d)) - Bar IN
    CASE F = {} -> d
      [] F # {} /\ (F \cap d.nan # {} \/ total = 0) -> [d EXCEPT !.nan = @ \cup F]
      [] OTHER -> Sized(d, [f \in F |-> d.width[f] + FloorOf(d.width[f] * left, total)])

\* fitColumns: what is left is shared in proportion, and what is left of that goes
\* to the last.  If the widths have no sum, they are no numbers from then on.
FitColumns(d) ==
    LET F     == Adjustable(d)
        total == SumOf(d.width, F)
        left  == d.size - SumOf(d.drawn, Shown(d)) - Bar
        share == [f \in F |-> FloorOf(d.width[f] * left, total)]
        rest  == left - SumOf(share, F) IN
    CASE F = {} -> d
      [] F # {} /\ (F \cap d.nan # {} \/ total = 0) -> [d EXCEPT !.nan = @ \cup F]
      [] OTHER -> Sized(d, [f \in F |-> d.width[f] + share[f] + (IF f = LastOf(F) THEN rest ELSE 0)])

\* autoSizeColumn, of one column: as wide as what it has, and automatic.
AutoSized(d, f) == [Sized(d, [g \in {f} |-> Content[f]]) EXCEPT !.auto = @ \cup {f}, !.nan = @ \ {f}]

-----------------------------------------------------------------------------
Init ==
    \E size \in Sizes :
        /\ data = FitColumns([size |-> size, width |-> Width0, drawn |-> Width0, hidden |-> {},
                          auto |-> {f \in Fields : Width0[f] = 0}, nan |-> {}])
        /\ page = [pending |-> FALSE, moves |-> 0, narrow |-> FALSE, alone |-> FALSE]

Negative(d) == \E f \in Fields : d.width[f] < 0
Laid(d, pending, alone) ==
    /\ data' = d
    /\ page' = [page EXCEPT !.moves = @ + 1, !.pending = pending, !.alone = alone,
                            !.narrow = @ \/ Negative(d) \/ d.nan # {}]
Becomes(d, pending) == page.moves < MaxMoves /\ Laid(d, pending, FALSE)

\* The panel has a new size; the columns follow after a timeout.
Resize(size) == size # data.size /\ Becomes([data EXCEPT !.size = size], TRUE)
LaidOut ==
    /\ page.pending
    /\ data' = FitColumns(data)
    /\ page' = [page EXCEPT !.pending = FALSE, !.alone = FALSE,
                            !.narrow = @ \/ Negative(data') \/ data'.nan # {}]

HideColumn(f) == f \notin data.hidden /\ Becomes(FitColumns([data EXCEPT !.hidden = @ \cup {f}]), page.pending)
ShowColumn(f) == f \in data.hidden /\ Becomes(FitColumns([data EXCEPT !.hidden = @ \ {f}]), page.pending)

\* The edge of a column is dragged: it counts as adjustable from now on.
StopResize(f, w) ==
    /\ f \in Shown(data)
    /\ Becomes(FitColumns([Sized(data, [g \in {f} |-> w]) EXCEPT !.auto = @ \ {f}, !.nan = @ \ {f}]), page.pending)

\* A double click on the edge: automatic while the others are fitted.
DblClick(f) ==
    /\ f \in Shown(data)
    /\ page.moves < MaxMoves
    /\ LET sized == AutoSized(data, f)
       IN Laid([FitColumns(sized) EXCEPT !.auto = @ \ {f}], page.pending, Adjustable(sized) = {})

\* Rows are loaded: columns that are automatic take their width anew.
AutoSizeColumns ==
    /\ data.auto # {}
    /\ Becomes(FitColumns(FoldSet(LAMBDA f, d : AutoSized(d, f), data, data.auto)), page.pending)

Next ==
    \/ \E size \in Sizes : Resize(size)
    \/ LaidOut \/ AutoSizeColumns
    \/ \E f \in Fields : HideColumn(f) \/ ShowColumn(f) \/ DblClick(f) \/ \E w \in Dragged : StopResize(f, w)

Spec == Init /\ [][Next]_vars

-----------------------------------------------------------------------------
TypeOK ==
    /\ data.size \in Sizes /\ data.hidden \cup data.auto \cup data.nan \subseteq Fields
    /\ \A f \in Fields : data.width[f] \in Int /\ data.drawn[f] \in Nat
    /\ page.moves \in 0 .. MaxMoves

\* The leaves of the header are the columns, each once.  Once it is laid out, the
\* columns of a grid fill it but for the scroll bar, if one of them is shown that
\* is not automatic and the grid was never so narrow that some width fell below 0;
\* and what is shown is what is kept.
ColumnsFit ==
    /\ Cardinality(Fields) = Len(ColumnFields)
    /\ Fields = UNION {{row[i].field : i \in 1 .. Len(row)} : row \in ToSet(Headers)} \ {""}
    /\ ~page.narrow =>
          /\ data.width = data.drawn
          /\ ~page.pending /\ ~page.alone /\ Adjustable(data) # {} => SumOf(data.drawn, Shown(data)) = data.size - Bar

=============================================================================
