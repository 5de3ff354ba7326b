------------------------------ MODULE GridSums ------------------------------
(***************************************************************************)
(* The footer of a grid: statistics of easyui-extend-datagrid.js, which a  *)
(* page calls to have the sum, the mean, the largest and the least of the  *)
(* columns that ask for it, of the rows of this page, in rows of the       *)
(* footer.  The first column that is shown carries what the row is, before *)
(* its own number if it has one.  A value is a number, nothing (which      *)
(* counts as 0) or some text (which makes NaN of what is counted with it). *)
(***************************************************************************)
EXTENDS Integers, Sequences, FiniteSets, SequencesExt, FiniteSetsExt

CONSTANTS
    Columns,    \* the columns: records [field, shown, wants]
    Rows,       \* the rows that there may be
    MaxRows     \* bound: the number of rows

VARIABLES
    data,       \* rows, each with a value for the fields, and the footer
    page        \* history: whether rows were changed since the footer was made

vars == <<data, page>>

Blank == <<>>           \* a number n is <<n>>
Text  == <<0, 0>>
NaN   == <<>>
Kinds == {"sum", "avg", "max", "min"}
Fields == {Columns[i].field : i \in 1 .. Len(Columns)}

Number(v) == IF v = Blank THEN <<0>> ELSE IF v = Text THEN NaN ELSE v
Numbers(rows, f) == [i \in 1 .. Len(rows) |-> Number(rows[i][f])]
Counted(s) == \A i \in 1 .. Len(s) : s[i] # NaN
Total(s) == FoldLeft(LAMBDA x, v : x + v[1], 0, s)
Largest(S) == 100 * Max({v[1] : v \in S})
Least(S) == 100 * Min({v[1] : v \in S})

\* toFixed(2), of a / b, in hundredths: away from zero when in the middle.
Fixed(a, b) == IF a >= 0 THEN (200 * a + b) \div (2 * b) ELSE -((b - 200 * a) \div (2 * b))

\* Faulty: starts from 0.
StatisticFromZero(kind, s) ==
    IF ~Counted(s) \/ (kind = "avg" /\ s = <<>>) THEN NaN
    ELSE CASE kind = "sum" -> <<Fixed(Total(s), 1)>>
           [] kind = "avg" -> <<Fixed(Total(s), Len(s))>>
           [] kind = "max" -> <<Largest(ToSet(s) \cup {<<0>>})>>
           [] kind = "min" -> <<Least(ToSet(s) \cup {<<0>>})>>

\* One kind of one column; of no rows, there is no mean, and the others are 0.
Statistic(kind, s) ==
    IF ~Counted(s) \/ (kind = "avg" /\ s = <<>>) THEN NaN
    ELSE CASE kind = "sum" -> <<Fixed(Total(s), 1)>>
           [] kind = "avg" -> <<Fixed(Total(s), Len(s))>>
           [] s = <<>>     -> <<0>>
           [] kind = "max" /\ s # <<>> -> <<Largest(ToSet(s))>>
           [] kind = "min" /\ s # <<>> -> <<Least(ToSet(s))>>

\* The column that carries the label.
TextColIndex ==
    IF \E i \in 1 .. Len(Columns) : Columns[i].shown
    THEN CHOOSE i \in 1 .. Len(Columns) : Columns[i].shown /\ \A j \in 1 .. i - 1 : ~Columns[j].shown
    ELSE 1

Wanting(kind) == {f \in Fields : \E i \in 1 .. Len(Columns) : Columns[i].field = f /\ kind \in Columns[i].wants}

\* A row of the footer for each kind that a column wants, with the label in it.
FooterRow(kind, rows) ==
    LET label == Columns[TextColIndex].field IN
    [f \in Wanting(kind) \cup {label} |->
        [is    |-> IF f = label THEN kind ELSE "",
         value |-> IF f \in Wanting(kind) THEN Statistic(kind, Numbers(rows, f)) ELSE <<>>]]
Statistics(rows) ==
    LET kinds == SelectSeq(<<"sum", "avg", "max", "min">>, LAMBDA k : Wanting(k) # {})
    IN [i \in 1 .. Len(kinds) |-> FooterRow(kinds[i], rows)]

-----------------------------------------------------------------------------
Init ==
    /\ data = [rows |-> <<>>, footer |-> <<>>]
    /\ page = [stale |-> TRUE]

\* The page changes rows, which leaves the footer as it is.
Changed(rows) ==
    /\ data' = [data EXCEPT !.rows = rows]
    /\ page' = [page EXCEPT !.stale = TRUE]
AppendRow(r) == Len(data.rows) < MaxRows /\ Changed(Append(data.rows, r))
DeleteRow(i) == Changed(RemoveAt(data.rows, i))
UpdateRow(i, r) == Changed([data.rows EXCEPT ![i] = r])

ShowStatistics ==
    /\ data' = [data EXCEPT !.footer = IF Statistics(data.rows) = <<>> THEN @ ELSE Statistics(data.rows)]
    /\ page' = [page EXCEPT !.stale = FALSE]

Next ==
    \/ \E r \in Rows : AppendRow(r)
    \/ \E i \in 1 .. Len(data.rows) :
          DeleteRow(i) \/ \E r \in Rows : UpdateRow(i, r)
    \/ ShowStatistics

Spec == Init /\ [][Next]_vars

-----------------------------------------------------------------------------
TypeOK ==
    /\ Len(data.rows) <= MaxRows /\ page.stale \in BOOLEAN
    /\ \A i \in 1 .. Len(data.rows) : data.rows[i] \in Rows

FooterOf(kind) == {i \in 1 .. Len(data.footer) : \E f \in DOMAIN data.footer[i] : data.footer[i][f].is = kind}

\* A footer that was made of the rows shown has, for rows of numbers, the right
\* numbers: the mean is the sum among the rows, to the half of a hundredth; the
\* largest and the least are values of rows, and the others are between; and one
\* label for each kind that is wanted.
SumsTold ==
    ~page.stale =>
        \A kind \in Kinds :
            /\ Cardinality(FooterOf(kind)) = IF Wanting(kind) = {} THEN 0 ELSE 1
            /\ \A f \in Wanting(kind), row \in FooterOf(kind) :
                  LET s == Numbers(data.rows, f)
                      v == data.footer[row][f].value[1] IN
                  s # <<>> /\ Counted(s) =>
                     CASE kind = "sum" -> v = 100 * Total(s)
                       [] kind = "avg" -> 2 * (v * Len(s) - 100 * Total(s)) \in -Len(s) .. Len(s)
                       [] kind = "max" -> (\E i \in 1 .. Len(s) : v = 100 * s[i][1]) /\ \A i \in 1 .. Len(s) : 100 * s[i][1] <= v
                       [] kind = "min" -> (\E i \in 1 .. Len(s) : v = 100 * s[i][1]) /\ \A i \in 1 .. Len(s) : 100 * s[i][1] >= v

=============================================================================
