----------------------------- MODULE GridTools ------------------------------
(***************************************************************************)
(* Tools that static/js/control.js gives to the pages: moving a row of a   *)
(* grid up or down, a map, and the text of a value of a dictionary, from   *)
(* the dictionaries that the front page was drawn with or, for one that is *)
(* not among them, from the server.                                        *)
(***************************************************************************)
EXTENDS Integers, Sequences, FiniteSets, Functions

CONSTANTS
    Rows0,          \* the rows of the grid
    Keys, OwnNames, \* keys of the map; those that every object has anyway
    Held, Asked,    \* dictionaries that the page holds, and others
    Values, Texts,  \* values and their texts
    Hole,           \* undefined
    MaxSteps        \* bound: how often anything is done

VARIABLES
    data,       \* rows, rows selected; keys of the map and its size; texts that the page
                \* holds, and texts on the server; what was shown last
    page        \* steps; and history: what explains a surprise, and the row that was moved
                \* with the rows as they were

vars == <<data, page>>

\* Rows are objects, of which no two are the same.
ToolsAssumption ==
    Rows0 \in Seq(Range(Rows0)) /\ IsInjective(Rows0) /\ Hole \notin Range(Rows0) /\ MaxSteps \in Nat

-----------------------------------------------------------------------------
\* The first row that is selected, 0 if there is none.
FirstSelected(d) ==
    LET places == {i \in DOMAIN d.rows : d.rows[i] \in d.selected}
    IN  IF places = {} THEN 0 ELSE CHOOSE i \in places : \A j \in places : i <= j
\* Faulty: the rows are exchanged, but the selection stays where it was.
SwappedOnly(d, i, j) == [d EXCEPT !.rows = [d.rows EXCEPT ![i] = d.rows[j], ![j] = d.rows[i]], !.selected = {d.rows[j]}]
Swapped(d, i, j) ==
    [d EXCEPT !.rows = [d.rows EXCEPT ![i] = d.rows[j], ![j] = d.rows[i]], !.selected = {d.rows[i]}]

\* dgmoveup: for no row or the first, the row that is selected.  (With none
\* selected nothing is to be seen of it.)
MovedUp(d, given) ==
    LET i == IF given <= 1 THEN FirstSelected(d) ELSE given IN IF i <= 1 THEN d ELSE Swapped(d, i, i - 1)
\* dgmovedown looks up the row that is selected, but goes on with the one that
\* was given: for none, the second row is overwritten with nothing, on the drawing
\* of which it ends.
MovedDown(d, given) ==
    IF given = Len(d.rows) THEN d
    ELSE IF given = 0 THEN [d EXCEPT !.rows[2] = Hole]
    ELSE Swapped(d, given, given + 1)

\* The map: put counts a key that is new, names of every object never being new;
\* remove counts every key.
Put(d, k) ==
    [d EXCEPT !.size = IF k \in d.keys \cup OwnNames THEN @ ELSE @ + 1, !.keys = @ \cup {k}]
KeysOf(d) == d.keys
Taken(d, k) == [d EXCEPT !.size = @ - 1, !.keys = @ \ {k}]

\* The text of a value: a value without one is shown itself.
TextOf(d, code, v) ==
    LET t == IF code \in Held THEN d.held[code] ELSE d.server[code] IN IF v \in DOMAIN t THEN t[v] ELSE v

Init ==
    /\ \E t \in [Held \cup Asked -> {f \in UNION {[S -> Texts] : S \in SUBSET Values} : TRUE}], s \in SUBSET Range(Rows0) :
          data = [rows |-> Rows0, selected |-> s, keys |-> {}, size |-> 0, server |-> t,
                  held |-> [c \in Held |-> t[c]], shown |-> <<>>]
    /\ page = [steps |-> 0, mixed |-> {}, moved |-> <<>>]

Moves(d, what, row) ==
    /\ page.steps < MaxSteps
    /\ data' = d
    /\ page' = [steps |-> page.steps + 1, mixed |-> page.mixed \cup what,
                moved |-> IF d.rows = data.rows THEN <<>> ELSE <<row, data.rows>>]
Becomes(d, what) == Moves(d, what, Hole)

-----------------------------------------------------------------------------
Whole == Hole \notin Range(data.rows)
MoveUp(i) ==
    LET at == IF i <= 1 THEN FirstSelected(data) ELSE i
    IN Whole /\ Moves(MovedUp(data, i), {}, IF at = 0 THEN Hole ELSE data.rows[at])
MoveDown(i) ==
    Whole /\ Moves(MovedDown(data, i), IF i = 0 THEN {"hole"} ELSE {}, IF i = 0 THEN Hole ELSE data.rows[i])
Select(r) == Becomes([data EXCEPT !.selected = {r}], {})
PutKey(k) == Becomes(Put(data, k), IF k \in OwnNames THEN {"count"} ELSE {})
RemoveKey(k) == Becomes(Taken(data, k), IF k \in data.keys THEN {} ELSE {"count"})
\* dicValuesWithAll and hitooDicConvert
Show(code, v) == Becomes([data EXCEPT !.shown = <<code, v, TextOf(data, code, v)>>], {})
Edit(code, t) ==
    /\ t # data.server[code]
    /\ Becomes([data EXCEPT !.server[code] = t, !.shown = <<>>], IF code \in Held THEN {"edited"} ELSE {})

Next ==
    \/ \E i \in 0 .. Len(Rows0) : MoveUp(i) \/ MoveDown(i)
    \/ \E r \in Range(Rows0) : Select(r)
    \/ \E k \in Keys : PutKey(k) \/ RemoveKey(k)
    \/ \E c \in Held \cup Asked, v \in Values : Show(c, v) \/ \E t \in Texts : Edit(c, [u \in {v} |-> t])

Spec == Init /\ [][Next]_vars

-----------------------------------------------------------------------------
TypeOK ==
    /\ Range(data.rows) \subseteq Range(Rows0) \cup {Hole} /\ data.selected \subseteq Range(Rows0)
    /\ data.keys \subseteq Keys /\ data.size \in Int

Before(rows, r, q) == \E i, j \in 1 .. Len(rows) : i < j /\ rows[i] = r /\ rows[j] = q

\* Moving rows loses none, leaves the others in their order and selects the row
\* that was moved; the size of a map is the number of its keys; and a text is the
\* one that the server has: unless a row was moved down that was not named, a key
\* was removed that was not there or is a name of every object, or the dictionary
\* was edited since the login.
ToolsKeep ==
    /\ "hole" \notin page.mixed =>
          /\ Range(data.rows) = Range(Rows0)
          /\ page.moved # <<>> =>
                /\ data.selected = {page.moved[1]}
                /\ \A r, q \in Range(Rows0) \ {page.moved[1]} :
                      Before(data.rows, r, q) <=> Before(page.moved[2], r, q)
    /\ "count" \notin page.mixed => data.size = Cardinality(KeysOf(data))
    /\ data.shown # <<>> /\ "edited" \notin page.mixed =>
          LET t == data.server[data.shown[1]] v == data.shown[2] IN
          data.shown[3] = IF v \in DOMAIN t THEN t[v] ELSE v

=============================================================================
