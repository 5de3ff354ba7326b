------------------------------ MODULE DataGrid ------------------------------
(***************************************************************************)
(* A datagrid of the pages: easyui/plugins/jquery.datagrid.js with its     *)
(* pager (jquery.pagination.js) and easyui-extend-datagrid.js.             *)
(*                                                                         *)
(* The grid shows the rows of one page of a query.  It remembers rows that *)
(* are selected and rows that are checked by the value of its idField, on  *)
(* other pages too, highlights rows and ticks their boxes on the page that *)
(* is shown, keeps a log of what was edited, and loads pages with requests *)
(* whose answers come in any order.  A row is the value of its idField and *)
(* one more column; identity of row objects is identity of id, since rows  *)
(* of the server and rows a page adds have ids of their own.               *)
(***************************************************************************)
EXTENDS Integers, Sequences, SequencesExt

CONSTANTS
    Data,       \* what the server answers: for each query, the rows of each page
    NewRows,    \* the rows a page adds
    Vals,       \* values of the other column
    Invalid,    \* what an editor holds that does not pass its validation
    Uses,       \* what pages do with their grid: "list", "query" (a list that
                \* is loaded by commonQuery), "edit"
    Opts,       \* options of their grids: singleSelect, checkOnSelect, selectOnCheck
    PageSize,   \* pageSize of the pager
    MaxAsked    \* bound on that number, for each use

VARIABLES
    use,        \* what the page does with the grid
    opts,       \* the grid's options
    rows,       \* data.rows
    total,      \* data.total
    pick,       \* selectedRows, checkedRows (ids) and the look of the page
    editing,    \* rows with class datagrid-row-editing
    original,   \* originalRows
    log,        \* insertedRows, updatedRows, deletedRows (ids); and by how many
                \* more deleted than inserted rows it counts from before a load
    query,      \* queryParams of the grid
    pageNumber, \* pageNumber of the grid and its pager
    net,        \* requests not answered yet
    timers,     \* tasks put off with setTimeout(..., 0), in their order
    mask,       \* the panel is covered by "loading"
    broken,     \* a handler ended with an exception, the grid is unusable
    base,       \* history: the rows as last loaded or accepted
    asked,      \* history: number of requests (and of acceptChanges) so far
    shown,      \* history: the request whose answer is shown
    mixed       \* history: what happened that explains a surprise

vars == <<use, opts, rows, total, pick, editing, original, log, query,
          pageNumber, net, timers, mask, broken, base, asked, shown, mixed>>

-----------------------------------------------------------------------------
Queries == DOMAIN Data
Pages   == UNION {DOMAIN Data[q] : q \in Queries}
Rows    == UNION {UNION {ToSet(Data[q][p]) : p \in DOMAIN Data[q]} : q \in Queries}
Ids     == {r.id : r \in Rows \cup NewRows}
Row     == [id : Ids, val : Vals]

\* A page that is answered has rows with ids of their own.
ASSUME DataGridAssumption ==
    /\ \A q \in Queries :
        /\ Data[q] \in Seq(Seq(Row)) /\ Data[q] # <<>>
        /\ \A p \in DOMAIN Data[q] : \A i, j \in DOMAIN Data[q][p] :
                Data[q][p][i].id = Data[q][p][j].id => i = j
    /\ NewRows \subseteq Row
    /\ Opts \subseteq [single : BOOLEAN, checkOnSelect : BOOLEAN, selectOnCheck : BOOLEAN]
    /\ PageSize \in Nat \ {0}

IdSet(s)     == {s[i].id : i \in DOMAIN s}
IndexOf(s, i) == CHOOSE k \in DOMAIN s : s[k].id = i

EmptyLog == [ins |-> {}, upd |-> {}, del |-> {}, aged |-> 0]

-----------------------------------------------------------------------------
\* Selecting and checking: operators on pick.  "Bare" is a call with the
\* second argument true, which does not go on to the other list.  P is the
\* set of ids on the page.
BareUnselectAll(p, P) == [p EXCEPT !.sel = @ \ P, !.lit = {}]
BareUncheckAll(p, P)  == [p EXCEPT !.chk = @ \ P, !.tick = {}, !.head = FALSE]

UnselectAll(p, P) ==
    BareUnselectAll(IF opts.checkOnSelect THEN BareUncheckAll(p, P) ELSE p, P)
UncheckAll(p, P) ==
    BareUncheckAll(IF opts.selectOnCheck THEN BareUnselectAll(p, P) ELSE p, P)

BareCheck(p, P, i) ==
    [p EXCEPT !.tick = @ \cup {i}, !.chk = @ \cup {i},
              !.head = @ \/ P \subseteq p.tick \cup {i}]

\* With singleSelect, everything else is unselected first.
Alone(p, P) == IF opts.single THEN [UnselectAll(p, P) EXCEPT !.sel = {}] ELSE p

Selecting(p, P, i, bare) ==
    LET q == IF ~bare /\ opts.checkOnSelect THEN BareCheck(Alone(p, P), P, i)
                                            ELSE Alone(p, P)
    IN  [q EXCEPT !.sel = @ \cup {i}, !.lit = @ \cup {i}]

Checking(p, P, i) ==
    BareCheck(IF opts.selectOnCheck THEN Selecting(p, P, i, TRUE) ELSE p, P, i)

BareUncheck(p, i)  == [p EXCEPT !.tick = @ \ {i}, !.head = FALSE, !.chk = @ \ {i}]
BareUnselect(p, i) == [p EXCEPT !.lit = @ \ {i}, !.sel = @ \ {i}]

\* Faulty: the box stays ticked.
UnselectingOnly(p, i) == BareUnselect(p, i)
Unselecting(p, i) == BareUnselect(IF opts.checkOnSelect THEN BareUncheck(p, i) ELSE p, i)
Unchecking(p, i)  == BareUncheck(IF opts.selectOnCheck THEN BareUnselect(p, i) ELSE p, i)

BareSelectAll(p, P) == [p EXCEPT !.lit = P, !.sel = @ \cup P]
BareCheckAll(p, P)  == [p EXCEPT !.tick = P, !.head = TRUE, !.chk = @ \cup P]
CheckAll(p, P) == BareCheckAll(IF opts.selectOnCheck THEN BareSelectAll(p, P) ELSE p, P)

\* Rows on the page that were selected or checked before are so again.
\* Faulty: they are not.
ReselectedNever(p, s) == [p EXCEPT !.lit = {}, !.tick = {}]
Reselected(p, s) ==
    LET P == IdSet(s)
        Again(q, r) ==
            LET q1 == IF r.id \in q.sel THEN Selecting(q, P, r.id, TRUE) ELSE q
            IN  IF r.id \in q1.chk THEN BareCheck(q1, P, r.id) ELSE q1
    IN  FoldLeft(Again, [p EXCEPT !.lit = {}, !.tick = {}], s)

\* After loadData the log's entries are no rows of the grid any more; only
\* their number still counts.
More(l) == l.aged + Cardinality(l.del) - Cardinality(l.ins)
Aged(l) == [EmptyLog EXCEPT !.aged = More(l)]

-----------------------------------------------------------------------------
\* The server has no rows on a page after the last one.
PageOf(q, p) == IF p \in DOMAIN Data[q] THEN Data[q][p] ELSE <<>>
Total(q) == FoldFunction(LAMBDA s, n : Len(s) + n, 0, Data[q])

Init ==
    /\ use \in Uses
    /\ opts \in Opts
    /\ use = "edit" => opts.single /\ opts.checkOnSelect /\ opts.selectOnCheck
    /\ rows = <<>> /\ total = 0
    /\ pick = [sel |-> {}, chk |-> {}, lit |-> {}, tick |-> {}, head |-> FALSE]
    /\ editing = {} /\ original = <<>> /\ log = EmptyLog
    /\ query \in Queries /\ pageNumber = 1
    /\ net = {} /\ timers = <<>> /\ mask = FALSE /\ broken = FALSE
    /\ base = <<>> /\ asked = 0 /\ shown = 0 /\ mixed = {}

OnPage  == IdSet(rows)
loading == <<query, pageNumber, net, timers, mask, asked, shown>>

-----------------------------------------------------------------------------
(* Clicks in the list of rows, which the mask keeps away.                   *)
Picked(p) ==
    /\ ~mask /\ ~broken
    /\ pick' = p
    /\ UNCHANGED <<use, opts, rows, total, editing, original, log, broken, base, mixed, loading>>

ClickRow(i) ==
    /\ i \in OnPage
    /\ Picked(IF opts.single \/ i \notin pick.lit THEN Selecting(pick, OnPage, i, FALSE)
                                                 ELSE Unselecting(pick, i))

ClickBox(i) ==
    /\ i \in OnPage
    /\ IF opts.single /\ opts.selectOnCheck
       THEN Picked(Checking(IF opts.checkOnSelect THEN pick ELSE BareUncheckAll(pick, OnPage),
                            OnPage, i))
       ELSE Picked(IF i \in pick.tick THEN Unchecking(pick, i) ELSE Checking(pick, OnPage, i))

ClickHead ==
    /\ ~(opts.single /\ opts.selectOnCheck)
    /\ Picked(IF pick.head THEN UncheckAll(pick, OnPage) ELSE CheckAll(pick, OnPage))

-----------------------------------------------------------------------------
(* Requests and answers.  The grid's own requests cover the panel, those of *)
(* commonQuery do not.                                                      *)
\* Faulty: the parameters are sent, but not kept for the pager.
KeepPage(q, p) == pageNumber' = p /\ UNCHANGED query
Keep(q, p) == query' = q /\ pageNumber' = p

Request(q, p, why) ==
    /\ ~broken
    /\ asked < MaxAsked[use]
    /\ asked' = asked + 1
    /\ net' = net \cup {[nr |-> asked + 1, query |-> q, page |-> p]}
    /\ Keep(q, p)
    /\ mask' = (mask \/ use # "query")
    /\ mixed' = mixed \cup why
          \cup (IF net # {} \/ "loaded" \in ToSet(timers) THEN {"overlap"} ELSE {})
    /\ UNCHANGED <<use, opts, rows, total, editing, original, log, timers, broken, base, shown>>

\* clearSelections forgets the selected rows of every page, the checked ones
\* of this page only.
\* Faulty: only what is seen is cleared.
ClearedLook(p) == [p EXCEPT !.lit = {}, !.tick = {}, !.head = FALSE]
Cleared(p) == UnselectAll([p EXCEPT !.sel = {}], OnPage)
Boxes == IF pick.chk \subseteq OnPage THEN {} ELSE {"boxes"}

\* A page's query, "load" or "commonQuery", called from outside of the panel;
\* usrindex.jsp then clears the selection.  "load" goes back to the first page;
\* commonQuery asks for the page the pager is on, which the new query may not have.
Load(q, clear) ==
    /\ Request(q, IF use = "query" THEN pageNumber ELSE 1, IF clear THEN Boxes ELSE {"kept"})
    /\ pick' = IF clear THEN Cleared(pick) ELSE pick

\* The pager keeps the number between 1 and the last page it knows.
PageCount == IF total = 0 THEN 1 ELSE (total + PageSize - 1) \div PageSize
GoPage(p) ==
    /\ ~mask
    /\ Request(query, IF p > PageCount THEN PageCount ELSE p, {"paged"})
    /\ UNCHANGED pick

\* loadData keeps the log, whose entries are no rows of the grid any more; a
\* timer that runs after "loaded" will reset it.  setGridData resets it at once.
Answer(r) ==
    /\ ~broken
    /\ net' = net \ {r}
    /\ rows' = PageOf(r.query, r.page) /\ total' = Total(r.query)
    /\ pick' = Reselected(pick, rows')
    /\ editing' = {}
    /\ base' = rows'
    /\ shown' = r.nr
    /\ IF use = "query"
       THEN original' = rows' /\ log' = EmptyLog /\ UNCHANGED timers
       ELSE log' = Aged(log) /\ timers' = timers \o <<"loaded", "reset">> /\ UNCHANGED original
    /\ UNCHANGED <<use, opts, query, pageNumber, mask, broken, asked, mixed>>

\* The grid's loader uncovers the panel, later; commonQuery did not cover it.
\* Faulty: only a good answer uncovers it.
UncoverNot == timers
Uncover == IF use = "query" THEN timers ELSE Append(timers, "loaded")
Fail(r) ==
    /\ ~broken
    /\ net' = net \ {r}
    /\ timers' = Uncover
    /\ mixed' = mixed \cup {"failed"}
    /\ UNCHANGED <<use, opts, rows, total, pick, editing, original, log, query, pageNumber,
                   mask, broken, base, asked, shown>>

\* Faulty: the log is reset, the rows to go back to are not.
ForgetLog == UNCHANGED original /\ log' = EmptyLog
Reset == original' = rows /\ log' = EmptyLog

\* "loaded" takes away every mask of the panel.
Timer ==
    /\ timers # <<>> /\ ~broken
    /\ timers' = Tail(timers)
    /\ IF Head(timers) = "loaded"
       THEN mask' = FALSE /\ UNCHANGED <<original, log>>
       ELSE Reset /\ UNCHANGED mask
    /\ UNCHANGED <<use, opts, rows, total, pick, editing, query, pageNumber, net, broken, base,
                   asked, shown, mixed>>

-----------------------------------------------------------------------------
(* Editing.  g is the grid as one record, for handlers that make several     *)
(* calls.  What is changed before the log is reset will be missing in it     *)
(* ("late"); editing is not followed further then.                           *)
Grid == [rows |-> rows, total |-> total, pick |-> pick, editing |-> editing, log |-> log]
Edited(g, why) ==
    /\ ~mask /\ ~broken /\ "late" \notin mixed
    /\ rows' = g.rows /\ total' = g.total /\ pick' = g.pick
    /\ editing' = g.editing /\ log' = g.log
    /\ mixed' = mixed \cup why \cup (IF "reset" \in ToSet(timers) THEN {"late"} ELSE {})
    /\ UNCHANGED <<use, opts, original, broken, base, loading>>

BeginEdit(i) ==
    /\ i \in OnPage \ editing
    /\ Edited([Grid EXCEPT !.editing = @ \cup {i}], {})

\* The value of row i becomes v, by its editor: it is logged if it changes.
Written(g, i, v) ==
    LET k == IndexOf(g.rows, i) IN
    IF g.rows[k].val = v THEN [g EXCEPT !.editing = @ \ {i}]
    ELSE [g EXCEPT !.editing = @ \ {i},
                   !.rows[k].val = v,
                   !.log.upd = IF i \in g.log.ins THEN @ ELSE @ \cup {i}]

EndEdit(i, v) == i \in editing /\ v \in Vals /\ Edited(Written(Grid, i, v), {})
CancelEdit(i) == i \in editing /\ Edited([Grid EXCEPT !.editing = @ \ {i}], {})

\* updateRow changes a row behind the log's back.
UpdateRow(i, v) ==
    /\ i \in OnPage /\ rows[IndexOf(rows, i)].val # v /\ "silent" \notin mixed
    /\ Edited([Grid EXCEPT !.rows[IndexOf(rows, i)].val = v], {"silent"})

\* insertRow and, at the end, appendRow: a row with an id of its own.
InsertRow(k, r) ==
    /\ r.id \notin OnPage \cup IdSet(base) \cup pick.sel \cup pick.chk
    /\ k \in 1 .. Len(rows) + 1
    /\ Edited([Grid EXCEPT !.rows = InsertAt(@, k, r), !.total = @ + 1,
                           !.log.ins = @ \cup {r.id}], {})

\* Faulty: it leaves the data and stays in its other lists.
DeletedRow(g, i) == [g EXCEPT !.rows = RemoveAt(@, IndexOf(@, i)), !.total = @ - 1]
\* Faulty: a new row is logged as deleted, too.
DeletedLogged(g, i) ==
    [DeletedRow(g, i) EXCEPT !.editing = @ \ {i}, !.log.del = @ \cup {i},
              !.pick.sel = @ \ {i}, !.pick.chk = @ \ {i},
              !.pick.lit = @ \ {i}, !.pick.tick = @ \ {i}]
Deleted(g, i) ==
    LET l == g.log
        p == g.pick
    IN  [rows    |-> RemoveAt(g.rows, IndexOf(g.rows, i)),
         total   |-> g.total - 1,
         editing |-> g.editing \ {i},
         log     |-> [l EXCEPT !.ins = l.ins \ {i},
                               !.del = IF i \in l.ins THEN l.del ELSE l.del \cup {i}],
         pick    |-> [p EXCEPT !.sel = p.sel \ {i}, !.chk = p.chk \ {i},
                               !.lit = p.lit \ {i}, !.tick = p.tick \ {i}]]
DeleteRow(i) == i \in OnPage /\ Edited(Deleted(Grid, i), {})

\* The selection is cleared, and each row that was selected is selected,
\* alone, and deleted if it is on the page (in any order).
DeleteSelectedRows ==
    LET One(g, r) ==
            IF r.id \notin pick.sel THEN g
            ELSE Deleted([g EXCEPT !.pick = Selecting(@, IdSet(g.rows), r.id, FALSE)], r.id)
    IN  /\ pick.sel # {}
        /\ Edited(FoldLeft(One, [Grid EXCEPT !.pick = Cleared(@)], rows), Boxes)

\* Rows being edited are ended if what is in their editors is valid; only if
\* all are, the log is reset.
AcceptChanges(ed) ==
    LET End(g0, r) == IF r.id \in editing /\ ed[r.id] # Invalid
                      THEN Written(g0, r.id, ed[r.id]) ELSE g0
        g  == FoldLeft(End, Grid, rows)
        ok == \A i \in editing : ed[i] # Invalid
    IN  /\ ~mask /\ ~broken /\ "late" \notin mixed
        /\ rows' = g.rows /\ editing' = {i \in editing : ed[i] = Invalid}
        /\ IF ok THEN /\ original' = g.rows /\ log' = EmptyLog
                      /\ base' = g.rows /\ mixed' = mixed \ {"silent"}
                      /\ asked < MaxAsked[use] /\ asked' = asked + 1
                 ELSE log' = g.log /\ UNCHANGED <<original, base, mixed, asked>>
        /\ UNCHANGED <<use, opts, total, pick, broken, query, pageNumber, net, timers, mask,
                       shown>>

\* The rows are put back, and what was selected and checked is selected again
\* by its id.  A row that is not found is undefined: searching a list for it
\* throws, and pushed on an empty list it makes the next search throw.  What
\* such a grid does afterwards is not followed ("broken").
RejectChanges ==
    LET P    == IdSet(original)
        lost == ~(pick.sel \cup pick.chk \subseteq P)
        none == Reselected([pick EXCEPT !.sel = {}, !.chk = {}], original)
        sels == FoldSet(LAMBDA i, p : Selecting(p, P, i, TRUE), none, pick.sel)
    IN  /\ ~mask /\ ~broken /\ "late" \notin mixed
        /\ rows' = original
        /\ total' = total + More(log)
        /\ editing' = {}
        /\ broken' = lost
        /\ IF lost THEN pick' = none /\ log' = Aged(log)
                   ELSE /\ pick' = FoldSet(LAMBDA i, p : BareCheck(p, P, i), sels, pick.chk)
                        /\ log' = EmptyLog
        /\ mixed' = (mixed \ {"silent"})
                       \cup (IF "reset" \in ToSet(timers) THEN {"late"} ELSE {})
        /\ UNCHANGED <<use, opts, original, base, loading>>

-----------------------------------------------------------------------------
Listing ==
    \/ \E i \in OnPage : ClickRow(i) \/ ClickBox(i)
    \/ ClickHead
    \/ \E q \in Queries, clear \in BOOLEAN : Load(q, clear)
    \/ \E p \in Pages : GoPage(p)
    \/ DeleteSelectedRows

Editing ==
    \/ \E i \in OnPage : ClickRow(i) \/ BeginEdit(i) \/ CancelEdit(i) \/ DeleteRow(i)
    \/ \E i \in OnPage, v \in Vals : EndEdit(i, v) \/ UpdateRow(i, v)
    \/ \E r \in NewRows, k \in 1 .. Len(rows) + 1 : InsertRow(k, r)
    \/ \E v \in Vals, bad \in SUBSET editing :
            AcceptChanges([i \in editing |-> IF i \in bad THEN Invalid ELSE v])
    \/ RejectChanges
    \/ Load(query, FALSE)

Next ==
    \/ use # "edit" /\ Listing
    \/ use = "edit" /\ Editing
    \/ \E r \in net : Answer(r) \/ Fail(r)
    \/ Timer

Spec == Init /\ [][Next]_vars

-----------------------------------------------------------------------------
TypeOK ==
    /\ use \in Uses /\ opts \in Opts
    /\ rows \in Seq(Row) /\ original \in Seq(Row) /\ base \in Seq(Row)
    /\ total \in Int
    /\ pick.sel \subseteq Ids /\ pick.chk \subseteq Ids
    /\ pick.lit \subseteq OnPage /\ pick.tick \subseteq OnPage /\ pick.head \in BOOLEAN
    /\ editing \subseteq OnPage
    /\ log.ins \cup log.upd \cup log.del \subseteq Ids /\ log.aged \in Int
    /\ query \in Queries /\ pageNumber \in Pages
    /\ net \subseteq [nr : 1 .. asked, query : Queries, page : Pages]
    /\ timers \in Seq({"loaded", "reset"})
    /\ mask \in BOOLEAN /\ broken \in BOOLEAN
    /\ shown \in 0 .. asked
    /\ mixed \subseteq {"kept", "paged", "boxes", "overlap", "failed", "late", "silent"}

\* What is highlighted and ticked on the page is what getSelections and
\* getChecked will return of it, whatever was clicked, loaded or edited.
LooksAsRemembered ==
    ~broken => pick.lit = pick.sel \cap OnPage /\ pick.tick = pick.chk \cap OnPage

\* Where selecting and checking go together, a ticked row is a selected one,
\* so that usrindex.jsp acts on the users that are ticked; unless the selection
\* was cleared while rows of other pages were checked.
BoxesAgree ==
    opts.checkOnSelect /\ opts.selectOnCheck /\ ~opts.single /\ "boxes" \notin mixed
        => pick.tick = pick.lit

\* Where each query clears the selection, nothing is selected that is not
\* shown; unless it was selected on another page of the pager, or there were
\* two requests at once, the first of which uncovers the panel.
NoHiddenSelection ==
    use = "list" /\ mixed \cap {"kept", "paged", "overlap"} = {}
        => pick.sel \subseteq OnPage

\* When all requests are answered, the grid shows the page its pager says, unless
\* one failed or two were under way at once.  After commonQuery that may be a page
\* past the last, which has no rows.
ShowsPageOfPager ==
    net = {} /\ shown > 0 /\ mixed \cap {"failed", "overlap"} = {}
        => use = "edit" \/ base = PageOf(query, pageNumber)

\* The panel is not covered for ever: when nothing is under way it is free.
MaskGoes == net = {} /\ timers = <<>> => ~mask

\* The log tells what to do with the rows last loaded or accepted to get the
\* rows that are shown, and the pager counts them; unless a row was changed by
\* updateRow, or before the log was reset after a load.
LogTellsChanges ==
    use = "edit" /\ ~broken /\ mixed \cap {"late", "silent"} = {} /\ "reset" \notin ToSet(timers)
        => /\ ToSet(rows) = {r \in ToSet(base) : r.id \notin log.del \cup log.upd}
                               \cup {r \in ToSet(rows) : r.id \in log.ins \cup log.upd}
           /\ log.ins = OnPage \ IdSet(base)
           /\ log.del = IdSet(base) \ OnPage
           /\ total - Len(rows) = (IF shown = 0 THEN 0 ELSE Total(query) - Len(PageOf(query, 1)))

\* rejectChanges puts back the rows as they were loaded or accepted, in their
\* order, and starts a new log; unless a row was selected or checked that is
\* not among them.
RejectRestores ==
    [][/\ mixed \cap {"late"} = {} /\ "reset" \notin ToSet(timers)
       /\ RejectChanges
       => rows' = base /\ (broken' \/ log' = EmptyLog)]_vars

=============================================================================
