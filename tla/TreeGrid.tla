------------------------------ MODULE TreeGrid ------------------------------
(***************************************************************************)
(* A grid whose rows are a tree: easyui/plugins/jquery.treegrid.js.  It    *)
(* keeps the rows with their children, and apart from them what is         *)
(* displayed: rows, a triangle before those with rows below, and a box     *)
(* below a row, which is shown or hidden and is filled when it is needed.  *)
(* Columns, footer, editing and row heights are left out.                  *)
(***************************************************************************)
EXTENDS Integers, Sequences, FiniteSets, SequencesExt

CONSTANTS
    Ids, Root, None,
    Sent,       \* the rows the server may send, in an order of its own
    ParentOf,   \* what it says of their parents
    Lazy,       \* rows it sends as closed, without those below
    Added,      \* rows that are appended or inserted
    MaxAsked,   \* bound: the number of requests
    MaxEdits    \* bound: the number of rows added, removed or loaded again

VARIABLES
    data,       \* children in the data and displayed; triangle, state and box of
                \* a row (an element, 0 if there is none); boxes shown; selected
    page        \* requests; and history: what explains a surprise

vars == <<data, page>>
None0 == [n \in Ids \cup {Root} |-> <<>>]

-----------------------------------------------------------------------------
\* find looks from the root down; getParent by the parent that the row names.
RECURSIVE Down(_, _)
Down(kids, n) == {n} \cup UNION {Down(kids, k) : k \in ToSet(kids[n])}
Rows(d) == Down(d.kids, Root) \ {Root}
Parent(d, n) == CHOOSE m \in Ids \cup {Root} : n \in ToSet(d.kids[m])
RECURSIVE Above(_, _)
Above(d, n) == IF n = Root THEN <<>> ELSE Append(Above(d, Parent(d, n)), n)
RECURSIVE Flat(_, _)
Flat(kids, n) == FlattenSeq([i \in DOMAIN kids[n] |-> <<kids[n][i]>> \o Flat(kids, kids[n][i])])

\* transfer: rows below n, of a list in which each names its parent; a row whose
\* parent is not there is dropped.  Rows below a lazy row are not in the list.
Forest(n) ==
    LET listed == SelectSeq(Sent, LAMBDA r : r \notin Added /\ (ParentOf[r] = n \/ ParentOf[r] \notin Lazy))
        kids   == [m \in Ids \cup {Root} |->
                      IF m # n /\ m \in Lazy THEN <<>> ELSE SelectSeq(listed, LAMBDA r : ParentOf[r] = m)]
        C      == Down(kids, n)
    IN  [m \in Ids \cup {Root} |-> IF m \in C THEN kids[m] ELSE <<>>]

\* render: triangle, state and box of the rows k below n that are new; where
\* the server says closed, a row looks so.
Drawn(d, k, R) ==
    [d EXCEPT !.state = [m \in Ids |-> IF m \in R THEN IF m \in Lazy THEN "closed" ELSE "open" ELSE @[m]],
              !.hit   = [m \in Ids |-> IF m \notin R THEN @[m] ELSE IF m \in Lazy THEN "closed"
                                       ELSE IF k[m] # <<>> THEN "open" ELSE "none"],
              !.box   = [m \in Ids |-> IF m \notin R THEN @[m] ELSE IF k[m] # <<>> THEN d.made + 1 ELSE 0],
              !.shown = (@ \ R) \cup {m \in R : k[m] # <<>> /\ m \notin Lazy},
              !.made  = @ + 1]

\* loadData with the rows that are there kept: they are added to the data of n,
\* and to its box if it has one.
AddTo(d, n, list, k) ==
    LET R == ToSet(list) \cup UNION {Down(k, m) : m \in ToSet(list)}
        e == Drawn(d, k, R)
    IN  [e EXCEPT !.kids = [m \in Ids \cup {Root} |-> IF m = n THEN @[m] \o list ELSE IF m \in R THEN k[m] ELSE @[m]],
                  !.dom  = [m \in Ids \cup {Root} |->
                              IF m = n THEN IF n = Root \/ d.box[n] # 0 THEN @[m] \o list ELSE @[m]
                              ELSE IF m \in R THEN k[m] ELSE @[m]]]
Fresh == [kids |-> None0, dom |-> None0, hit |-> [n \in Ids |-> "none"], state |-> [n \in Ids |-> "open"],
          box |-> [n \in Ids |-> 0], shown |-> {}, sel |-> None, made |-> 0]

Init ==
    /\ data = Fresh
    /\ page = [nr |-> 1, net |-> {[nr |-> 1, at |-> Root, cc |-> 0]}, edits |-> 0, mixed |-> {}]

Mixed(p, what) == [p EXCEPT !.mixed = @ \cup what]

-----------------------------------------------------------------------------
Show(d, n) == [d EXCEPT !.shown = @ \cup {n}, !.state[n] = "open"]
Asked(p, n, cc) == [p EXCEPT !.nr = @ + 1, !.net = @ \cup {[nr |-> p.nr + 1, at |-> n, cc |-> cc]}]

Collapsed(d, n) ==
    IF d.hit[n] # "open" THEN d
    ELSE [d EXCEPT !.hit[n] = "closed", !.state[n] = "closed", !.shown = @ \ {n}]

\* expand: a row without a box gets one, hidden until the rows are there.
Expanded(w, n) ==
    LET d == w.d
        e == [d EXCEPT !.hit[n] = "open"]
    IN  CASE d.hit[n] # "closed" -> w
          [] d.hit[n] = "closed" /\ d.box[n] # 0 -> [w EXCEPT !.d = Show(e, n)]
          [] d.hit[n] = "closed" /\ d.box[n] = 0 ->
               [d |-> [e EXCEPT !.box[n] = d.made + 1, !.made = @ + 1, !.shown = @ \ {n}, !.dom[n] = <<>>],
                p |-> Asked(w.p, n, d.made + 1)]
Do(w) == w.p.nr <= MaxAsked /\ data' = w.d /\ page' = w.p
W == [d |-> data, p |-> page]

Toggle(n) == IF data.hit[n] = "open" THEN Do([W EXCEPT !.d = Collapsed(data, n)]) ELSE Do(Expanded(W, n))
CollapseAll == Do([W EXCEPT !.d = FoldLeft(Collapsed, data, Flat(data.kids, Root))])
ExpandAll == Do(FoldLeft(Expanded, W, Flat(data.kids, Root)))
ExpandTo(n) == Do(FoldLeft(Expanded, W, Front(Above(data, n))))

\* A row that is gone is not found, and what was loaded for it goes to the root.
\* Rows that were loaded for it already are there twice.
Answer(r) ==
    LET p == [page EXCEPT !.net = @ \ {r}]
        k == Forest(r.at)
    IN  CASE r.at = Root ->
               data' = [AddTo([Fresh EXCEPT !.made = data.made], Root, k[Root], k) EXCEPT !.made = data.made + 1] /\ page' = p
          [] r.at # Root /\ r.at \notin Rows(data) ->
               data' = data /\ page' = Mixed(p, IF k[r.at] = <<>> THEN {} ELSE {"astray"})
          [] r.at \in Rows(data) /\ ToSet(data.kids[r.at]) \cap ToSet(k[r.at]) # {} ->
               data' = data /\ page' = Mixed(p, {"twice"})
          [] OTHER ->
               LET e == AddTo(data, r.at, k[r.at], k) IN
               /\ data' = IF data.box[r.at] = r.cc THEN Show(e, r.at) ELSE e
               /\ page' = Mixed(p, (IF data.hit[r.at] # "open" THEN {"late"} ELSE {})
                                   \cup (IF data.box[r.at] # r.cc THEN {"replaced"} ELSE {}))
\* No answer: the box is removed.
Fail(r) ==
    /\ data' = IF r.at \in Rows(data) /\ data.box[r.at] = r.cc /\ data.dom[r.at] = <<>>
               THEN [data EXCEPT !.box[r.at] = 0, !.shown = @ \ {r.at}] ELSE
               IF r.at \in Rows(data) /\ data.box[r.at] = r.cc THEN Show(data, r.at) ELSE data
    /\ page' = Mixed([page EXCEPT !.net = @ \ {r}], {"failed"})

-----------------------------------------------------------------------------
\* append: the row below which it is put becomes a folder, and gets a box.
Appended(d, n, row) ==
    LET e == IF n = Root \/ d.box[n] # 0 THEN d
             ELSE [d EXCEPT !.box[n] = d.made + 1, !.made = @ + 1, !.shown = @ \cup {n}, !.dom[n] = <<>>]
        f == IF n # Root /\ e.hit[n] = "none" THEN [e EXCEPT !.hit[n] = "open"] ELSE e
    IN  AddTo(f, n, <<row>>, None0)

\* insert: what is displayed is moved, the data stays at the end.
Moved(s, row, ref, after) ==
    LET t == SelectSeq(s, LAMBDA m : m # row)
        i == CHOOSE j \in DOMAIN t : t[j] = ref
    IN  InsertAt(t, IF after THEN i + 1 ELSE i, row)
Inserted(d, ref, row, after) ==
    LET n == Parent(d, ref)
        e == Appended(d, n, row)
    IN  IF n = Root \/ d.box[n] # 0 THEN [e EXCEPT !.dom[n] = Moved(@, row, ref, after)] ELSE e

\* Faulty: the row above keeps its triangle.
RemovedOnly(d, n) ==
    LET m == Parent(d, n)
        R == Down(d.kids, n)
        Gone(s) == SelectSeq(s, LAMBDA x : x \notin R)
    IN  [d EXCEPT !.kids = [x \in Ids \cup {Root} |-> IF x \in R THEN <<>> ELSE Gone(@[x])],
                  !.dom  = [x \in Ids \cup {Root} |-> IF x \in R THEN <<>> ELSE Gone(@[x])],
                  !.hit  = [x \in Ids |-> IF x \in R THEN "none" ELSE @[x]],
                  !.state = [x \in Ids |-> IF x \in R THEN "open" ELSE @[x]],
                  !.box  = [x \in Ids |-> IF x \in R THEN 0 ELSE @[x]],
                  !.shown = @ \ R,
                  !.sel  = IF @ \in R THEN None ELSE @]
Removed(d, n) ==
    LET m == Parent(d, n)
        e == RemovedOnly(d, n)
    IN  IF m = Root \/ e.kids[m] # <<>> THEN e
        ELSE [e EXCEPT !.hit[m] = "none", !.box[m] = 0, !.shown = @ \ {m}]

\* update draws the row again, by its state and its children.
Redrawn(d, n) ==
    [d EXCEPT !.hit[n] = IF d.state[n] = "closed" THEN "closed" ELSE IF d.kids[n] # <<>> THEN "open" ELSE "none"]

Edits(d, what) ==
    /\ page.edits < MaxEdits
    /\ data' = d
    /\ page' = Mixed([page EXCEPT !.edits = @ + 1], what)
AppendRow(n, row) ==
    /\ row \notin Rows(data)
    /\ Edits(Appended(data, n, row), IF n \in Ids /\ data.box[n] = 0 /\ (data.hit[n] # "none" \/ data.state[n] = "closed")
                                        THEN {"added"} ELSE {})
InsertRow(ref, row, after) == row \notin Rows(data) /\ Edits(Inserted(data, ref, row, after), {"inserted"})
RemoveRow(n) == Edits(Removed(data, n), {})
UpdateRow(n) ==
    Edits(Redrawn(data, n), IF \E r \in page.net : r.at = n THEN {"redrawn"} ELSE {})

\* reload of a row: what is below is gone, and it is expanded again.
Reload(n) ==
    LET R == Down(data.kids, n) \ {n}
        e == [(IF R = {} THEN data
               ELSE FoldLeft(RemovedOnly, data, data.kids[n])) EXCEPT
                 !.box[n] = 0, !.shown = @ \ {n}, !.hit[n] = IF @ = "none" THEN @ ELSE "closed"]
        w == Expanded([d |-> e, p |-> [page EXCEPT !.edits = @ + 1]], n)
    IN  page.edits < MaxEdits /\ Do(w)
ReloadAll == page.edits < MaxEdits /\ page.nr < MaxAsked /\ data' = data
             /\ page' = Asked([page EXCEPT !.edits = @ + 1], Root, 0)
Select(n) == n # data.sel /\ data' = [data EXCEPT !.sel = n] /\ UNCHANGED page

\* Once rows are where they do not belong, or twice, the model ends.
Next ==
    /\ page.mixed \cap {"astray", "twice"} = {}
    /\ \/ \E n \in Rows(data) : Toggle(n) \/ ExpandTo(n) \/ RemoveRow(n) \/ UpdateRow(n) \/ Reload(n) \/ Select(n)
       \/ \E n \in Rows(data) \cup {Root}, row \in Added : AppendRow(n, row)
       \/ \E n \in Rows(data), row \in Added, after \in BOOLEAN : InsertRow(n, row, after)
       \/ CollapseAll \/ ExpandAll \/ ReloadAll
       \/ \E r \in page.net : Answer(r) \/ Fail(r)

Spec == Init /\ [][Next]_vars

-----------------------------------------------------------------------------
TypeOK ==
    /\ data.kids \in [Ids \cup {Root} -> Seq(Ids)] /\ data.dom \in [Ids \cup {Root} -> Seq(Ids)]
    /\ data.hit \in [Ids -> {"none", "open", "closed"}] /\ data.state \in [Ids -> {"open", "closed"}]
    /\ data.shown \subseteq Ids /\ data.sel \in Ids \cup {None}
    /\ page.nr \in 1 .. MaxAsked /\ page.edits \in 0 .. MaxEdits

\* What is displayed below a row are the children it has, in their order unless
\* one was inserted; a row that has some can be folded; an open triangle shows
\* them, a closed one hides them, which is what the state of the row says.  Not
\* so when an answer came after the row was folded, found another box, or did
\* not come; when a row was put below one that had not been loaded; and when
\* one was drawn again while it was loaded.
ShowsItsData ==
    \A n \in Rows(data) \cup {Root} :
       /\ "replaced" \notin page.mixed =>
             /\ ToSet(data.dom[n]) = ToSet(data.kids[n])
             /\ "inserted" \notin page.mixed => data.dom[n] = data.kids[n]
       /\ n # Root =>
             /\ data.kids[n] # <<>> /\ page.mixed \cap {"redrawn", "replaced"} = {} => data.hit[n] # "none"
             /\ page.mixed \cap {"late", "replaced", "failed", "added", "redrawn"} = {}
                  /\ n \notin {r.at : r \in page.net}
                => /\ data.hit[n] = "open" <=> n \in data.shown
                   /\ data.hit[n] = "open" => data.state[n] = "open"
                   /\ data.hit[n] = "closed" => data.state[n] = "closed"
       /\ data.sel \in Rows(data) \cup {None}

=============================================================================
