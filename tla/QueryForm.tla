----------------------------- MODULE QueryForm ------------------------------
(***************************************************************************)
(* How a form is laid out and what it asks for: initForms, setFormContent, *)
(* reDraw, getQueryData and getDataPure of easyui-extend-form.js, and the  *)
(* reset of jquery.form.js.  The inputs of a form are put in a table of so *)
(* many columns; the lists of the inputs come from the dictionaries that   *)
(* the front page holds, or else from the server; and what is filled in    *)
(* becomes conditions, one for each input and each hidden input of it.     *)
(***************************************************************************)
EXTENDS Integers, Sequences, FiniteSets, SequencesExt

CONSTANTS
    Forms,      \* forms a page may have: [inputs, columns, vertical]
    InputOf,    \* InputOf[n]: [kind, span, dic, rootflag] of the input n
    More,       \* inputs that a page appends before it draws a form anew
    Off,        \* the inputs that the page has disabled itself
    Held,       \* Held[c]: a dictionary that the front page holds
    Served,     \* Served[c]: the items the server has of a dictionary
    Picks       \* values of inputs

VARIABLES
    data,       \* what is in the form, the rows of its table, lists, disabled inputs
    page        \* requests for lists; and history: disabled when it was drawn anew

vars == <<data, page>>

Gap   == "gap"      \* a place of a vertical form that has no input
Table == "table"    \* the table of the form as it was, when it is drawn anew

Inputs(d) == d.order \cup (IF d.again THEN {More} ELSE {})
Kind(n) == InputOf[n].kind
\* A table counts as its first input.
Span(form, n) == InputOf[IF n = Table THEN form.inputs[1] ELSE n].span

-----------------------------------------------------------------------------
(* setFormContent.                                                          *)

\* The inputs of a vertical form by rows; places are left over at the ends of
\* its last columns.
ByColumns(inputs, columns) ==
    LET rows == (Len(inputs) + columns - 1) \div columns IN
    [k \in 1 .. rows * columns |->
        LET at == ((k - 1) \div columns) + 1 + ((k - 1) % columns) * rows
        IN IF at <= Len(inputs) THEN inputs[at] ELSE Gap]

\* Faulty: a span is not counted.
PlacedNarrow(acc, n, form) ==
    LET full == acc.at = 0 \/ acc.at >= form.columns
        rows == IF full THEN Append(acc.rows, <<>>) ELSE acc.rows IN
    [rows |-> IF n = Gap THEN rows ELSE [rows EXCEPT ![Len(rows)] = Append(@, n)],
     at   |-> (IF full THEN 0 ELSE acc.at) + (IF n = Gap THEN 0 ELSE 1)]

\* An input is put in the row that is open; a row ends when it is full.  Spans
\* count in horizontal forms only.
Placed(acc, n, form) ==
    LET full == acc.at = 0 \/ acc.at >= form.columns
        rows == IF full THEN Append(acc.rows, <<>>) ELSE acc.rows
        at   == IF full THEN 0 ELSE acc.at IN
    IF n = Gap THEN [rows |-> rows, at |-> at]
    ELSE [rows |-> [rows EXCEPT ![Len(rows)] = Append(@, n)],
          at   |-> at + (IF form.vertical THEN 1 ELSE Span(form, n))]

SetFormContent(form, inputs) ==
    FoldLeft(LAMBDA acc, n : Placed(acc, n, form), [rows |-> <<>>, at |-> 0],
             IF form.vertical THEN ByColumns(inputs, form.columns) ELSE inputs).rows

-----------------------------------------------------------------------------
\* The items for a list: none unless the front page holds the dictionary, and
\* one more for the flag.
Flagged(items, flag) == IF flag = "" THEN items ELSE <<flag>> \o items
DicValuesWithAll(n) ==
    IF InputOf[n].dic \in DOMAIN Held THEN Flagged(Held[InputOf[n].dic], InputOf[n].rootflag) ELSE <<>>
QueryDicItemByCode(n) ==
    LET items == IF InputOf[n].dic \in DOMAIN Served THEN Served[InputOf[n].dic] ELSE <<>>
    IN IF items = <<>> THEN <<>> ELSE Flagged(items, InputOf[n].rootflag)

\* The lists of the inputs are filled at once, or asked for.
Listed(names) == {n \in names : InputOf[n].dic # ""}
Filled(lists, names) ==
    [n \in DOMAIN lists |->
        IF n \in Listed(names) /\ DicValuesWithAll(n) # <<>> THEN DicValuesWithAll(n) ELSE lists[n]]
AskedFor(names) == {n \in Listed(names) : DicValuesWithAll(n) = <<>>}

\* Several values for a list of many, a set for boxes that are checked.
Nothing(n) == IF Kind(n) \in {"many", "box"} THEN <<>> ELSE ""
Blank(n) == IF Kind(n) = "box" THEN FALSE ELSE data.shown[n] = Nothing(n)

-----------------------------------------------------------------------------
(* getQueryData.  A list of many values has one hidden input for each, and  *)
(* each makes a condition with all; a box makes one, checked or not; a      *)
(* number box makes one of its own, without a name, beside its hidden input *)
(* whose value is taken as a string.                                        *)
Condition(n, value, type) == [name |-> n, value |-> value, type |-> type]

ConditionsOf(d, n) ==
    CASE Blank(n)          -> <<>>
      [] Kind(n) = "many"  -> [k \in 1 .. Len(d.shown[n]) |-> Condition(n, d.shown[n], "collection")]
      [] Kind(n) = "box"   -> <<Condition(n, <<"on">>, "string")>>
      [] Kind(n) = "number" -> <<Condition("undefined", d.shown[n], "number"), Condition(n, d.shown[n], "string")>>
      [] Kind(n) \in {"date", "datetime"} -> <<Condition(n, d.shown[n], Kind(n))>>
      [] OTHER             -> <<Condition(n, d.shown[n], "string")>>

\* The inputs in the order of the page: those of a table that was drawn before
\* come where the table is.
InOrder(d) == FlattenSeq(d.rows)
GetQueryData(d) ==
    FlattenSeq([k \in 1 .. Len(InOrder(d)) |->
        IF InOrder(d)[k] = Table THEN FlattenSeq([j \in 1 .. Len(FlattenSeq(d.inner)) |->
                                        ConditionsOf(d, FlattenSeq(d.inner)[j])])
        ELSE ConditionsOf(d, InOrder(d)[k])])

\* getDataPure stops at the first box: it uses a variable it does not have.
Broken == <<"broken">>
GetDataPure(d) ==
    IF \E n \in Inputs(d) : Kind(n) = "box" THEN Broken
    ELSE [n \in {m \in Inputs(d) : Kind(m) = "many" => ~Blank(m)} |-> d.shown[n]]

-----------------------------------------------------------------------------
Names == DOMAIN InputOf

\* initForms, when the page is complete.
Init ==
    \E form \in Forms :
        LET names == ToSet(form.inputs) IN
        /\ data = [form |-> form, order |-> names, rows |-> SetFormContent(form, form.inputs),
                   inner |-> <<>>, again |-> FALSE, disabled |-> Off, fixed |-> Off,
                   shown |-> [n \in Names |-> Nothing(n)],
                   lists |-> Filled([n \in Names |-> <<>>], names)]
        /\ page = [net |-> AskedFor(names), lost |-> {}, off |-> {}]

\* A list comes from the server, or does not.
Answer(n) ==
    /\ n \in page.net
    /\ \/ data' = [data EXCEPT !.lists[n] = QueryDicItemByCode(n)] /\ page' = [page EXCEPT !.net = @ \ {n}]
       \/ UNCHANGED data /\ page' = [page EXCEPT !.net = @ \ {n}, !.lost = @ \cup {n}]

\* reDraw, of a form that has a table already and a new input: whatever is
\* disabled now counts as disabled by the page.
ReDraw ==
    /\ ~data.again
    /\ data' = [data EXCEPT !.again = TRUE, !.inner = data.rows, !.fixed = @ \cup data.disabled,
                            !.rows = SetFormContent(data.form, <<Table, More>>),
                            !.lists = Filled(@, {More})]
    /\ page' = [page EXCEPT !.off = data.disabled \ Off, !.net = @ \cup AskedFor({More})]

Change(n, value) ==
    /\ n \in Inputs(data) \ data.disabled
    /\ data' = [data EXCEPT !.shown[n] = value]
    /\ UNCHANGED page

\* reset: the inputs have what they had at first, which is nothing.
Reset ==
    /\ data' = [data EXCEPT !.shown = [n \in Names |-> Nothing(n)]]
    /\ UNCHANGED page

Disable == data' = [data EXCEPT !.disabled = @ \cup Inputs(data)] /\ UNCHANGED page
Enable == data' = [data EXCEPT !.disabled = @ \cap data.fixed] /\ UNCHANGED page

Next ==
    \/ \E n \in Names : Answer(n)
    \/ ReDraw \/ Reset \/ Disable \/ Enable
    \/ \E n \in Names :
          \/ Kind(n) = "many" /\ \E v \in SUBSET Picks : Change(n, SetToSeq(v))
          \/ Kind(n) = "box" /\ \E v \in {<<>>, <<"on">>} : Change(n, v)
          \/ Kind(n) \notin {"many", "box"} /\ \E v \in Picks \cup {""} : Change(n, v)

Spec == Init /\ [][Next]_vars

-----------------------------------------------------------------------------
TypeOK ==
    /\ data.form \in Forms /\ data.again \in BOOLEAN
    /\ data.disabled \subseteq Names /\ Off \subseteq data.fixed
    /\ page.net \subseteq Names

Width(row) == FoldLeft(LAMBDA w, n : w + Span(data.form, n), 0, row)

\* Every input is in the table once, in the order of the page; a row of a
\* horizontal form is filled before the next one is begun, and not longer than
\* its last input makes it; a vertical form has its inputs in columns if these
\* are of one length.
Laid ==
    LET form == data.form
        inputs == form.inputs
        rows == IF data.again THEN data.inner ELSE data.rows
        long == Len(inputs) \div form.columns IN
    /\ ToSet(FlattenSeq(rows)) = ToSet(inputs) /\ Len(FlattenSeq(rows)) = Len(inputs)
    /\ ~form.vertical =>
          /\ FlattenSeq(rows) = inputs
          /\ \A i \in 1 .. Len(rows) :
                /\ i < Len(rows) => Width(rows[i]) >= form.columns
                /\ Width(Front(rows[i])) < form.columns
    /\ form.vertical /\ Len(inputs) % form.columns = 0 =>
          \A i \in 1 .. Len(rows), j \in 1 .. form.columns : rows[i][j] = inputs[i + (j - 1) * long]

\* The form asks for what is filled in, once for each input that is not a list of
\* many, and for nothing that is empty, boxes and number boxes excepted; getDataPure
\* has the values; a list that was not lost has the items of its dictionary, from
\* wherever they came, if the front page and the server agree; and what the page
\* did not disable can be enabled, unless it was disabled when the form was drawn anew.
AsksForWhatIsFilled ==
    LET asked == GetQueryData(data) IN
    /\ \A n \in Inputs(data) :
          LET own == SelectSeq(asked, LAMBDA c : c.name = n) IN
          /\ Kind(n) = "many" => Len(own) = Len(data.shown[n])
          /\ Kind(n) \notin {"many", "box"} => Len(own) = IF Blank(n) THEN 0 ELSE 1
          /\ Kind(n) # "box" => \A i \in 1 .. Len(own) : own[i].value = data.shown[n]
          /\ GetDataPure(data) # Broken /\ ~Blank(n) => GetDataPure(data)[n] = data.shown[n]
    /\ \A n \in Listed(Inputs(data)) \ (page.net \cup page.lost) :
          InputOf[n].dic \in DOMAIN Served =>
             (Served[InputOf[n].dic] # <<>> => data.lists[n] = Flagged(Served[InputOf[n].dic], InputOf[n].rootflag))
    /\ data.fixed \subseteq Off \cup page.off
    /\ Off \subseteq data.disabled

=============================================================================
