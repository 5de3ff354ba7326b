---------------------------- MODULE DataGridProofs ----------------------------
(***************************************************************************)
(* Proofs about DataGrid: for any queries, pages, rows, options and number *)
(* of requests, the mask goes, the pager tells what is shown,              *)
(* rejectChanges puts back what was loaded or accepted, what is shown of   *)
(* the page is what is remembered of it, and the log tells the changes.    *)
(* What a fold of the model makes of its rows is shown with an invariant   *)
(* of its steps (module Folding).                                          *)
(***************************************************************************)
EXTENDS DataGrid, FiniteSetTheorems, SequenceTheorems, TLAPS

-----------------------------------------------------------------------------
(* Timers.                                                                   *)

Tasks == {"loaded", "reset"}

LEMMA InToSet ==
    ASSUME NEW s \in Seq(Tasks)
    PROVE  \A x : x \in ToSet(s) <=> \E i \in 1 .. Len(s) : s[i] = x
BY DEF ToSet

LEMMA TailKeeps ==
    ASSUME NEW s \in Seq(Tasks), s # <<>>
    PROVE  /\ Tail(s) \in Seq(Tasks) /\ Head(s) \in Tasks
           /\ ToSet(s) = {Head(s)} \cup ToSet(Tail(s))
<1>1. Len(s) \in Nat /\ Len(s) > 0 /\ Len(Tail(s)) = Len(s) - 1 /\ Tail(s) \in Seq(Tasks)
    OBVIOUS
<1>2. Head(s) = s[1] /\ \A i \in 1 .. Len(s) - 1 : Tail(s)[i] = s[i + 1]
    OBVIOUS
<1>3. ASSUME NEW x \in ToSet(s) PROVE x = Head(s) \/ x \in ToSet(Tail(s))
    <2>1. PICK i \in 1 .. Len(s) : s[i] = x
        BY InToSet
    <2>2. CASE i = 1
        BY <1>2, <2>1, <2>2
    <2>3. CASE i # 1
        <3>1. i - 1 \in 1 .. Len(Tail(s)) /\ Tail(s)[i - 1] = x
            BY <1>1, <1>2, <2>1, <2>3
        <3> QED BY <1>1, <3>1, InToSet
    <2> QED BY <2>2, <2>3
<1>4. Head(s) \in ToSet(s)
    BY <1>1, <1>2, InToSet
<1>5. ASSUME NEW x \in ToSet(Tail(s)) PROVE x \in ToSet(s)
    <2>1. PICK i \in 1 .. Len(Tail(s)) : Tail(s)[i] = x
        BY <1>1, InToSet
    <2>2. i + 1 \in 1 .. Len(s) /\ s[i + 1] = x
        BY <1>1, <1>2, <2>1
    <2> QED BY <2>2, InToSet
<1>6. Head(s) \in Tasks
    BY <1>1, <1>2
<1> QED BY <1>1, <1>3, <1>4, <1>5, <1>6

LEMMA AppendAdds ==
    ASSUME NEW s \in Seq(Tasks), NEW t \in Seq(Tasks)
    PROVE  s \o t \in Seq(Tasks) /\ ToSet(s \o t) = ToSet(s) \cup ToSet(t)
<1>1. /\ Len(s \o t) = Len(s) + Len(t) /\ s \o t \in Seq(Tasks)
      /\ Len(s) \in Nat /\ Len(t) \in Nat
    OBVIOUS
<1>2. \A i \in 1 .. Len(s) + Len(t) : (s \o t)[i] = IF i <= Len(s) THEN s[i] ELSE t[i - Len(s)]
    OBVIOUS
<1>3. ASSUME NEW x \in ToSet(s) PROVE x \in ToSet(s \o t)
    <2>1. PICK i \in 1 .. Len(s) : s[i] = x
        BY InToSet
    <2>2. i \in 1 .. Len(s \o t) /\ (s \o t)[i] = x
        BY <1>1, <1>2, <2>1
    <2> QED BY <1>1, <2>2, InToSet
<1>4. ASSUME NEW x \in ToSet(t) PROVE x \in ToSet(s \o t)
    <2>1. PICK i \in 1 .. Len(t) : t[i] = x
        BY InToSet
    <2>2. Len(s) + i \in 1 .. Len(s \o t) /\ (s \o t)[Len(s) + i] = x
        BY <1>1, <1>2, <2>1
    <2> QED BY <1>1, <2>2, InToSet
<1>5. ASSUME NEW x \in ToSet(s \o t) PROVE x \in ToSet(s) \/ x \in ToSet(t)
    <2>1. PICK i \in 1 .. Len(s) + Len(t) : (s \o t)[i] = x
        BY <1>1, InToSet
    <2>2. CASE i <= Len(s)
        BY <1>1, <1>2, <2>1, <2>2, InToSet
    <2>3. CASE ~(i <= Len(s))
        <3>1. i - Len(s) \in 1 .. Len(t) /\ t[i - Len(s)] = x
            BY <1>1, <1>2, <2>1, <2>3
        <3> QED BY <3>1, InToSet
    <2> QED BY <2>2, <2>3
<1> QED BY <1>1, <1>3, <1>4, <1>5

\* The tasks that are put off.
LEMMA NewTasks ==
    /\ <<"loaded", "reset">> \in Seq(Tasks) /\ ToSet(<<"loaded", "reset">>) = Tasks
    /\ <<"loaded">> \in Seq(Tasks) /\ ToSet(<<"loaded">>) = {"loaded"}
    /\ <<>> \in Seq(Tasks) /\ ToSet(<<>>) = {}
BY DEF Tasks, ToSet

-----------------------------------------------------------------------------
(* The invariant.                                                            *)

\* What covers the panel will uncover it: a request, or the task its answer
\* puts off.  The requests of commonQuery do not cover it.
MaskInv ==
    /\ use = "query" => ~mask
    /\ mask => net # {} \/ "loaded" \in ToSet(timers)

\* A request that is alone is the one for the page the pager says.
OneRequest ==
    "overlap" \notin mixed =>
        /\ \A r \in net : r.query = query /\ r.page = pageNumber
        /\ \A r, o \in net : r = o

\* Until a load has reset the log nothing is edited; afterwards the rows to go
\* back to are those that were loaded or accepted.
OriginalInv ==
    "late" \notin mixed =>
        IF "reset" \in ToSet(timers) THEN rows = base /\ editing = {} ELSE original = base

Inv == timers \in Seq(Tasks) /\ MaskInv /\ OneRequest /\ ShowsPageOfPager /\ OriginalInv

LEMMA InitHolds == Init => Inv
BY NewTasks DEF Init, Inv, MaskInv, OneRequest, ShowsPageOfPager, OriginalInv

LEMMA PickedKeeps ==
    ASSUME Inv, NEW p, Picked(p)
    PROVE  Inv'
BY DEF Inv, MaskInv, OneRequest, ShowsPageOfPager, OriginalInv, Picked, loading, PageOf

LEMMA RequestKeeps ==
    ASSUME Inv, NEW q, NEW p, NEW why \in SUBSET {"boxes", "kept", "paged"}, Request(q, p, why)
    PROVE  Inv'
<1> USE DEF Inv
<1>1. PICK n : n.query = q /\ n.page = p /\ net' = net \cup {n}
    <2>1. net' = net \cup {[nr |-> asked + 1, query |-> q, page |-> p]}
        BY DEF Request
    <2> QED BY <2>1
<1>2. /\ query' = q /\ pageNumber' = p /\ timers' = timers /\ use' = use
      /\ rows' = rows /\ base' = base /\ editing' = editing /\ original' = original
      /\ mask' = (mask \/ use # "query")
    BY DEF Request, Keep
<1>3. /\ "late" \in mixed' <=> "late" \in mixed
      /\ "overlap" \in mixed \/ net # {} => "overlap" \in mixed'
    BY DEF Request
<1>4. MaskInv'
    BY <1>1, <1>2 DEF MaskInv
<1>5. OneRequest'
    BY <1>1, <1>2, <1>3 DEF OneRequest
<1>6. ShowsPageOfPager'
    BY <1>1 DEF ShowsPageOfPager
<1>7. OriginalInv'
    BY <1>2, <1>3 DEF OriginalInv
<1> QED BY <1>2, <1>4, <1>5, <1>6, <1>7

LEMMA AnswerKeeps ==
    ASSUME Inv, NEW r \in net, Answer(r)
    PROVE  Inv'
<1> USE DEF Inv
<1>1. /\ net' = net \ {r} /\ rows' = PageOf(r.query, r.page) /\ base' = rows' /\ editing' = {}
      /\ use' = use /\ query' = query /\ pageNumber' = pageNumber /\ mask' = mask /\ mixed' = mixed
    BY DEF Answer
<1>2. CASE use = "query"
    <2>1. timers' = timers /\ original' = rows'
        BY <1>2 DEF Answer
    <2>2. OneRequest' /\ ShowsPageOfPager'
        BY <1>1 DEF OneRequest, ShowsPageOfPager, PageOf
    <2> QED BY <1>1, <1>2, <2>1, <2>2 DEF MaskInv, OriginalInv
<1>3. CASE use # "query"
    <2>1. timers' = timers \o <<"loaded", "reset">>
        BY <1>3 DEF Answer
    <2>2. /\ timers' \in Seq(Tasks)
          /\ "loaded" \in ToSet(timers') /\ "reset" \in ToSet(timers')
        BY <2>1, AppendAdds, NewTasks DEF Tasks
    <2>3. OneRequest' /\ ShowsPageOfPager'
        BY <1>1 DEF OneRequest, ShowsPageOfPager, PageOf
    <2> QED BY <1>1, <1>3, <2>2, <2>3 DEF MaskInv, OriginalInv
<1> QED BY <1>2, <1>3

LEMMA FailKeeps ==
    ASSUME Inv, NEW r \in net, Fail(r)
    PROVE  Inv'
<1> USE DEF Inv
<1>1. /\ net' = net \ {r} /\ timers' = Uncover /\ mixed' = mixed \cup {"failed"}
      /\ use' = use /\ query' = query /\ pageNumber' = pageNumber /\ mask' = mask
      /\ rows' = rows /\ base' = base /\ editing' = editing /\ original' = original
    BY DEF Fail
<1>2. /\ timers' \in Seq(Tasks)
      /\ use # "query" => "loaded" \in ToSet(timers')
      /\ "reset" \in ToSet(timers') <=> "reset" \in ToSet(timers)
    <2>1. CASE use = "query"
        BY <1>1, <2>1 DEF Uncover
    <2>2. CASE use # "query"
        <3>1. timers' = timers \o <<"loaded">>
            BY <1>1, <2>2 DEF Uncover
        <3>2. timers' \in Seq(Tasks) /\ ToSet(timers') = ToSet(timers) \cup {"loaded"}
            BY <3>1, AppendAdds, NewTasks
        <3> QED BY <3>2
    <2> QED BY <2>1, <2>2
<1> QED BY <1>1, <1>2 DEF MaskInv, OneRequest, ShowsPageOfPager, OriginalInv

LEMMA TimerKeeps ==
    ASSUME Inv, Timer
    PROVE  Inv'
<1> USE DEF Inv
<1>1. /\ timers # <<>> /\ timers' = Tail(timers)
      /\ use' = use /\ query' = query /\ pageNumber' = pageNumber /\ net' = net /\ shown' = shown
      /\ rows' = rows /\ base' = base /\ editing' = editing /\ mixed' = mixed
    BY DEF Timer
<1>2. /\ timers' \in Seq(Tasks) /\ Head(timers) \in Tasks
      /\ ToSet(timers) = {Head(timers)} \cup ToSet(timers')
    BY <1>1, TailKeeps
<1>3. OneRequest' /\ ShowsPageOfPager'
    BY <1>1 DEF OneRequest, ShowsPageOfPager, PageOf
<1>4. CASE Head(timers) = "loaded"
    BY <1>1, <1>2, <1>3, <1>4 DEF Timer, MaskInv, OriginalInv
<1>5. CASE Head(timers) = "reset"
    BY <1>1, <1>2, <1>3, <1>5 DEF Timer, Reset, MaskInv, OriginalInv
<1> QED BY <1>2, <1>4, <1>5 DEF Tasks

LEMMA EditedKeeps ==
    ASSUME Inv, NEW g, NEW why \in SUBSET {"boxes", "silent"}, Edited(g, why)
    PROVE  Inv'
<1> USE DEF Inv
<1>1. /\ use' = use /\ query' = query /\ pageNumber' = pageNumber /\ net' = net /\ shown' = shown
      /\ timers' = timers /\ mask' = mask /\ base' = base /\ original' = original
    BY DEF Edited, loading
<1>2. /\ mixed \subseteq mixed'
      /\ "reset" \in ToSet(timers) => "late" \in mixed'
    BY DEF Edited
<1>3. OneRequest' /\ ShowsPageOfPager' /\ MaskInv'
    BY <1>1, <1>2 DEF OneRequest, ShowsPageOfPager, PageOf, MaskInv
<1>4. OriginalInv'
    BY <1>1, <1>2 DEF OriginalInv
<1> QED BY <1>1, <1>3, <1>4

\* Before the log is reset no row is being edited, so that all are valid.
LEMMA AcceptKeeps ==
    ASSUME Inv, use = "edit", NEW ed, AcceptChanges(ed)
    PROVE  Inv'
<1> USE DEF Inv
<1>1. /\ use' = use /\ query' = query /\ pageNumber' = pageNumber /\ net' = net /\ shown' = shown
      /\ timers' = timers /\ mask' = mask
      /\ "late" \notin mixed /\ editing' = {i \in editing : ed[i] = Invalid}
    BY DEF AcceptChanges
<1>2. \/ (\A i \in editing : ed[i] # Invalid)
            /\ original' = rows' /\ base' = rows' /\ mixed' = mixed \ {"silent"}
      \/ ~(\A i \in editing : ed[i] # Invalid)
            /\ original' = original /\ base' = base /\ mixed' = mixed
    BY DEF AcceptChanges
<1>3. OneRequest' /\ ShowsPageOfPager' /\ MaskInv'
    BY <1>1, <1>2 DEF OneRequest, ShowsPageOfPager, MaskInv
<1>4. OriginalInv'
    BY <1>1, <1>2 DEF OriginalInv
<1> QED BY <1>1, <1>3, <1>4

LEMMA RejectKeeps ==
    ASSUME Inv, RejectChanges
    PROVE  Inv'
<1> USE DEF Inv
<1>1. /\ use' = use /\ query' = query /\ pageNumber' = pageNumber /\ net' = net /\ shown' = shown
      /\ timers' = timers /\ mask' = mask /\ base' = base /\ original' = original
      /\ rows' = original /\ editing' = {}
    BY DEF RejectChanges, loading
<1>2. /\ mixed \ {"silent"} \subseteq mixed'
      /\ "reset" \in ToSet(timers) => "late" \in mixed'
    BY DEF RejectChanges
<1>3. OneRequest' /\ ShowsPageOfPager' /\ MaskInv'
    BY <1>1, <1>2 DEF OneRequest, ShowsPageOfPager, PageOf, MaskInv
<1>4. OriginalInv'
    BY <1>1, <1>2 DEF OriginalInv
<1> QED BY <1>1, <1>3, <1>4

LEMMA StepKeeps ==
    ASSUME Inv, [Next]_vars
    PROVE  Inv'
<1>1. ASSUME NEW q, NEW clear \in BOOLEAN, Load(q, clear)
      PROVE  Inv'
    <2>1. (IF clear THEN Boxes ELSE {"kept"}) \in SUBSET {"boxes", "kept", "paged"}
        BY DEF Boxes
    <2>2. Request(q, IF use = "query" THEN pageNumber ELSE 1, IF clear THEN Boxes ELSE {"kept"})
        BY <1>1 DEF Load
    <2> QED BY <2>1, <2>2, RequestKeeps
<1>2. ASSUME NEW p, GoPage(p)
      PROVE  Inv'
    BY <1>2, RequestKeeps DEF GoPage
<1>3. ASSUME NEW i, ClickRow(i) \/ ClickBox(i) \/ ClickHead
      PROVE  Inv'
    BY <1>3, PickedKeeps DEF ClickRow, ClickBox, ClickHead
<1>4. CASE DeleteSelectedRows
    <2>1. PICK g : Edited(g, Boxes)
        BY <1>4, Zenon DEF DeleteSelectedRows
    <2>2. Boxes \in SUBSET {"boxes", "silent"}
        BY DEF Boxes
    <2> QED BY <2>1, <2>2, EditedKeeps
<1>5. ASSUME NEW g, Edited(g, {}) \/ Edited(g, {"silent"})
      PROVE  Inv'
    BY <1>5, EditedKeeps
<1>6. ASSUME NEW i, NEW v, BeginEdit(i) \/ CancelEdit(i) \/ DeleteRow(i) \/ EndEdit(i, v) \/ UpdateRow(i, v)
      PROVE  Inv'
    <2>1. \E g : Edited(g, {}) \/ Edited(g, {"silent"})
        BY <1>6, Zenon DEF BeginEdit, CancelEdit, DeleteRow, EndEdit, UpdateRow
    <2> QED BY <1>5, <2>1
<1>7. ASSUME NEW r, NEW k, InsertRow(k, r)
      PROVE  Inv'
    <2>1. \E g : Edited(g, {})
        BY <1>7, Zenon DEF InsertRow
    <2> QED BY <1>5, <2>1
<1>8. CASE use # "edit" /\ Listing
    BY <1>1, <1>2, <1>3, <1>4, <1>8 DEF Listing
<1>9. CASE use = "edit" /\ Editing
    <2>1. ASSUME NEW ed, AcceptChanges(ed) PROVE Inv'
        BY <1>9, <2>1, AcceptKeeps
    <2> QED BY <1>1, <1>3, <1>6, <1>7, <1>9, <2>1, RejectKeeps DEF Editing
<1>10. CASE UNCHANGED vars
    BY <1>10 DEF vars, Inv, MaskInv, OneRequest, ShowsPageOfPager, OriginalInv, PageOf
<1> QED BY <1>8, <1>9, <1>10, AnswerKeeps, FailKeeps, TimerKeeps DEF Next

LEMMA InvHolds == Spec => []Inv
BY InitHolds, StepKeeps, PTL DEF Spec

\* The panel is not covered for ever: what loads puts off the task that takes
\* the mask away, whether it succeeds or fails (loader of jquery.datagrid.js).
THEOREM MaskAlwaysGoes == Spec => []MaskGoes
<1>1. Inv => MaskGoes
    BY NewTasks DEF Inv, MaskInv, MaskGoes
<1> QED BY <1>1, InvHolds, PTL

\* When all is answered the grid shows the page its pager says, unless a request
\* failed or two were under way at once: load and commonQuery keep query and page
\* when they ask, not when they are answered.
THEOREM PagerTells == Spec => []ShowsPageOfPager
<1>1. Inv => ShowsPageOfPager
    BY DEF Inv
<1> QED BY <1>1, InvHolds, PTL

\* rejectChanges puts back the rows last loaded or accepted: originalRows is set
\* with both, by a task put off after a load, and nothing may be edited before it.
THEOREM RejectPutsBack == Spec => RejectRestores
<1>1. Inv /\ [Next]_vars =>
        [/\ mixed \cap {"late"} = {} /\ "reset" \notin ToSet(timers)
         /\ RejectChanges
         => rows' = base /\ (broken' \/ log' = EmptyLog)]_vars
    BY DEF Inv, OriginalInv, RejectChanges
<1> QED BY <1>1, InvHolds, PTL DEF Spec, RejectRestores

-----------------------------------------------------------------------------
(* The rows, what is remembered of them, and the log.                        *)

\* Rows with ids of their own.
Distinct == {s \in Seq(Row) : \A i, j \in DOMAIN s : s[i].id = s[j].id => i = j}
Picks == [sel : SUBSET Ids, chk : SUBSET Ids, lit : SUBSET Ids, tick : SUBSET Ids, head : BOOLEAN]
Some == {S \in SUBSET Ids : IsFiniteSet(S)}
Logs == [ins : Some, upd : SUBSET Ids, del : Some, aged : Int]
Options == [single : BOOLEAN, checkOnSelect : BOOLEAN, selectOnCheck : BOOLEAN]
\* What is shown of the rows D is what is remembered of them.
Fits(p, D) == p.lit = p.sel \cap D /\ p.tick = p.chk \cap D
\* Selecting and checking go together.
Together == opts.checkOnSelect /\ opts.selectOnCheck /\ ~opts.single
\* The grid as one record.
Grids == [rows : Distinct, total : Int, pick : Picks, editing : SUBSET Ids, log : Logs]
\* The log counts what came and went since the rows were b; x rows are elsewhere.
Counts(g, b, x) ==
    /\ g.log.aged = 0
    /\ g.log.ins = IdSet(g.rows) \ IdSet(b)
    /\ g.log.del = IdSet(b) \ IdSet(g.rows)
    /\ g.total - Len(g.rows) = x
\* Rows that are not in the log are the ones of b.
Tells(g, b) ==
    /\ \A r \in ToSet(g.rows) : r.id \in g.log.ins \cup g.log.upd \/ r \in ToSet(b)
    /\ \A r \in ToSet(b) : r.id \in g.log.del \cup g.log.upd \/ r \in ToSet(g.rows)

-----------------------------------------------------------------------------
(* Rows are put in, taken out and changed.                                   *)

LEMMA RowsOf ==
    ASSUME NEW s \in Distinct
    PROVE  /\ s \in Seq(Row) /\ Len(s) \in Nat /\ DOMAIN s = 1 .. Len(s)
           /\ \A k \in 1 .. Len(s) : s[k] \in Row /\ s[k].id \in Ids /\ s[k].id \in IdSet(s)
           /\ \A j, k \in 1 .. Len(s) : s[j].id = s[k].id => j = k
           /\ IdSet(s) \subseteq Ids
<1>1. s \in Seq(Row) /\ Len(s) \in Nat /\ DOMAIN s = 1 .. Len(s)
    BY LenProperties DEF Distinct
<1>2. \A k \in 1 .. Len(s) : s[k] \in Row
    BY <1>1, ElementOfSeq
<1>3. \A k \in 1 .. Len(s) : s[k].id \in Ids
    BY <1>2 DEF Row
<1> QED BY <1>1, <1>2, <1>3 DEF IdSet, Distinct

LEMMA FoundRow ==
    ASSUME NEW s \in Distinct, NEW i \in IdSet(s)
    PROVE  IndexOf(s, i) \in 1 .. Len(s) /\ s[IndexOf(s, i)].id = i
<1>1. \E k \in DOMAIN s : s[k].id = i
    BY DEF IdSet
<1>2. IndexOf(s, i) \in DOMAIN s /\ s[IndexOf(s, i)].id = i
    BY <1>1 DEF IndexOf
<1> QED BY <1>2, RowsOf

LEMMA RemovedRow ==
    ASSUME NEW s \in Distinct, NEW k \in 1 .. Len(s)
    PROVE  /\ RemoveAt(s, k) \in Distinct /\ Len(RemoveAt(s, k)) = Len(s) - 1
           /\ IdSet(RemoveAt(s, k)) = IdSet(s) \ {s[k].id}
           /\ ToSet(RemoveAt(s, k)) = ToSet(s) \ {s[k]}
<1> DEFINE a == SubSeq(s, 1, k - 1)
           b == SubSeq(s, k + 1, Len(s))
           t == RemoveAt(s, k)
           n == Len(s)
<1>0. /\ n \in Nat /\ k \in Int /\ 1 <= k /\ k <= n /\ s \in Seq(Row) /\ DOMAIN s = 1 .. n
      /\ \A j \in 1 .. n : s[j] \in Row
      /\ \A i, j \in 1 .. n : s[i].id = s[j].id => i = j
    BY RowsOf
<1>1. a \in Seq(Row) /\ Len(a) = k - 1 /\ \A j \in 1 .. k - 1 : a[j] = s[j]
    <2>1. \A j \in 1 .. k - 1 : s[j] \in Row
        BY <1>0
    <2> HIDE DEF n
    <2> QED BY <1>0, <2>1, SubSeqProperties
<1>2. b \in Seq(Row) /\ Len(b) = n - k /\ \A j \in 1 .. n - k : b[j] = s[k + j]
    <2>1. \A j \in k + 1 .. n : s[j] \in Row
        BY <1>0
    <2>2. /\ b \in Seq(Row) /\ Len(b) = (IF k + 1 <= n THEN n - (k + 1) + 1 ELSE 0)
          /\ \A j \in 1 .. n - (k + 1) + 1 : b[j] = s[(k + 1) + j - 1]
        BY <1>0, <2>1, SubSeqProperties
    <2> HIDE DEF n, b, a, t
    <2>3. n \in Nat /\ k \in Int /\ 1 <= k /\ k <= n
        BY <1>0
    <2>4. Len(b) = n - k
        BY <2>2, <2>3
    <2>5. ASSUME NEW j \in 1 .. n - k PROVE b[j] = s[k + j]
        <3>1. j \in 1 .. n - (k + 1) + 1 /\ (k + 1) + j - 1 = k + j
            BY <2>3
        <3> QED BY <2>2, <3>1
    <2> QED BY <2>2, <2>4, <2>5
<1>3. t = a \o b
    BY DEF RemoveAt
<1> HIDE DEF a, b, t, n
<1>4. t \in Seq(Row) /\ Len(t) = n - 1 /\ DOMAIN t = 1 .. n - 1
    <2>1. t \in Seq(Row) /\ Len(t) = Len(a) + Len(b)
        BY <1>1, <1>2, <1>3, ConcatProperties
    <2>2. Len(t) = n - 1
        BY <1>0, <1>1, <1>2, <2>1
    <2> QED BY <2>1, <2>2, LenProperties
<1>5. \A j \in 1 .. n - 1 : t[j] = IF j < k THEN s[j] ELSE s[j + 1]
    <2>1. \A j \in 1 .. Len(a) + Len(b) : t[j] = IF j <= Len(a) THEN a[j] ELSE b[j - Len(a)]
        BY <1>1, <1>2, <1>3, ConcatProperties
    <2>2. ASSUME NEW j \in 1 .. n - 1 PROVE t[j] = IF j < k THEN s[j] ELSE s[j + 1]
        <3>1. j \in 1 .. Len(a) + Len(b)
            BY <1>0, <1>1, <1>2
        <3>2. CASE j < k
            BY <1>0, <1>1, <2>1, <3>1, <3>2
        <3>3. CASE ~(j < k)
            <4>1. t[j] = b[j - (k - 1)] /\ j - (k - 1) \in 1 .. n - k /\ k + (j - (k - 1)) = j + 1
                BY <1>0, <1>1, <2>1, <3>1, <3>3
            <4>2. b[j - (k - 1)] = s[k + (j - (k - 1))]
                BY <1>2, <4>1
            <4> QED BY <3>3, <4>1, <4>2
        <3> QED BY <3>2, <3>3
    <2> QED BY <2>2
<1>6. \A j \in 1 .. n - 1 : \E m \in 1 .. n : m # k /\ t[j] = s[m]
    <2> SUFFICES ASSUME NEW j \in 1 .. n - 1 PROVE \E m \in 1 .. n : m # k /\ t[j] = s[m]
        OBVIOUS
    <2>1. CASE j < k
        BY <1>0, <1>5, <2>1
    <2>2. CASE ~(j < k)
        <3>1. t[j] = s[j + 1] /\ j + 1 \in 1 .. n /\ j + 1 # k
            BY <1>0, <1>5, <2>2
        <3> QED BY <3>1
    <2> QED BY <2>1, <2>2
<1>7. \A m \in 1 .. n : m # k => \E j \in 1 .. n - 1 : t[j] = s[m]
    <2> SUFFICES ASSUME NEW m \in 1 .. n, m # k PROVE \E j \in 1 .. n - 1 : t[j] = s[m]
        OBVIOUS
    <2>1. CASE m < k
        <3>1. m \in 1 .. n - 1
            BY <1>0, <2>1
        <3> QED BY <1>5, <2>1, <3>1
    <2>2. CASE ~(m < k)
        <3>1. m - 1 \in 1 .. n - 1 /\ ~(m - 1 < k) /\ (m - 1) + 1 = m
            BY <1>0, <2>2
        <3> QED BY <1>5, <3>1
    <2> QED BY <2>1, <2>2
<1>8. t \in Distinct
    <2> SUFFICES ASSUME NEW i \in 1 .. n - 1, NEW j \in 1 .. n - 1, t[i].id = t[j].id PROVE i = j
        BY <1>4 DEF Distinct
    <2> DEFINE At(l) == IF l < k THEN l ELSE l + 1
    <2>1. At(i) \in 1 .. n /\ At(j) \in 1 .. n /\ t[i] = s[At(i)] /\ t[j] = s[At(j)]
        BY <1>0, <1>5
    <2>2. At(i) = At(j)
        <3> HIDE DEF At
        <3> QED BY <1>0, <2>1
    <2> QED BY <1>0, <2>2
<1>9. \A m \in 1 .. n : m # k => s[m].id # s[k].id /\ s[m] # s[k]
    BY <1>0
<1>10. IdSet(t) = IdSet(s) \ {s[k].id}
    <2>1. IdSet(t) = {t[j].id : j \in 1 .. n - 1} /\ IdSet(s) = {s[j].id : j \in 1 .. n}
        BY <1>0, <1>4 DEF IdSet
    <2>2. \A j \in 1 .. n - 1 : t[j].id \in {s[m].id : m \in 1 .. n} \ {s[k].id}
        BY <1>6, <1>9
    <2>3. \A m \in 1 .. n : s[m].id # s[k].id => s[m].id \in {t[j].id : j \in 1 .. n - 1}
        BY <1>7
    <2> QED BY <2>1, <2>2, <2>3
<1>11. ToSet(t) = ToSet(s) \ {s[k]}
    <2>1. ToSet(t) = {t[j] : j \in 1 .. n - 1} /\ ToSet(s) = {s[j] : j \in 1 .. n}
        BY <1>0, <1>4 DEF ToSet
    <2>2. \A j \in 1 .. n - 1 : t[j] \in {s[m] : m \in 1 .. n} \ {s[k]}
        BY <1>6, <1>9
    <2>3. \A m \in 1 .. n : s[m] # s[k] => s[m] \in {t[j] : j \in 1 .. n - 1}
        BY <1>7
    <2> QED BY <2>1, <2>2, <2>3
<1> QED BY <1>4, <1>8, <1>10, <1>11 DEF t, n

LEMMA InsertedRow ==
    ASSUME NEW s \in Distinct, NEW k \in 1 .. Len(s) + 1, NEW r \in Row, r.id \notin IdSet(s)
    PROVE  /\ InsertAt(s, k, r) \in Distinct /\ Len(InsertAt(s, k, r)) = Len(s) + 1
           /\ IdSet(InsertAt(s, k, r)) = IdSet(s) \cup {r.id}
           /\ ToSet(InsertAt(s, k, r)) = ToSet(s) \cup {r}
<1> DEFINE a == SubSeq(s, 1, k - 1)
           b == SubSeq(s, k, Len(s))
           t == InsertAt(s, k, r)
           n == Len(s)
<1>0. /\ n \in Nat /\ k \in Int /\ 1 <= k /\ k <= n + 1 /\ s \in Seq(Row) /\ DOMAIN s = 1 .. n
      /\ \A j \in 1 .. n : s[j] \in Row /\ s[j].id \in IdSet(s)
      /\ \A i, j \in 1 .. n : s[i].id = s[j].id => i = j
    BY RowsOf
<1>1. a \in Seq(Row) /\ Len(a) = k - 1 /\ \A j \in 1 .. k - 1 : a[j] = s[j]
    <2>1. \A j \in 1 .. k - 1 : s[j] \in Row
        BY <1>0
    <2>2. /\ a \in Seq(Row) /\ Len(a) = (IF 1 <= k - 1 THEN (k - 1) - 1 + 1 ELSE 0)
          /\ \A j \in 1 .. (k - 1) - 1 + 1 : a[j] = s[1 + j - 1]
        BY <1>0, <2>1, SubSeqProperties
    <2> HIDE DEF n, a
    <2> QED BY <1>0, <2>2
<1>2. b \in Seq(Row) /\ Len(b) = n - k + 1 /\ \A j \in 1 .. n - k + 1 : b[j] = s[k + j - 1]
    <2>1. \A j \in k .. n : s[j] \in Row
        BY <1>0
    <2>2. /\ b \in Seq(Row) /\ Len(b) = (IF k <= n THEN n - k + 1 ELSE 0)
          /\ \A j \in 1 .. n - k + 1 : b[j] = s[k + j - 1]
        BY <1>0, <2>1, SubSeqProperties
    <2> HIDE DEF n, b
    <2> QED BY <1>0, <2>2
<1>3. t = (a \o <<r>>) \o b /\ <<r>> \in Seq(Row) /\ Len(<<r>>) = 1 /\ <<r>>[1] = r
    BY DEF InsertAt
<1> DEFINE c == a \o <<r>>
<1> HIDE DEF a, b, t, n
<1>4. c \in Seq(Row) /\ Len(c) = k /\ \A j \in 1 .. k : c[j] = IF j < k THEN s[j] ELSE r
    <2>1. /\ c \in Seq(Row) /\ Len(c) = (k - 1) + 1
          /\ \A j \in 1 .. Len(a) + Len(<<r>>) : c[j] = IF j <= Len(a) THEN a[j] ELSE <<r>>[j - Len(a)]
        BY <1>1, <1>3, ConcatProperties
    <2> HIDE DEF c
    <2>2. ASSUME NEW j \in 1 .. k PROVE c[j] = IF j < k THEN s[j] ELSE r
        <3>1. j \in 1 .. Len(a) + Len(<<r>>)
            BY <1>0, <1>1, <1>3
        <3>2. CASE j < k
            BY <1>0, <1>1, <2>1, <3>1, <3>2
        <3>3. CASE ~(j < k)
            <4>1. j = k /\ j - Len(a) = 1 /\ ~(j <= Len(a))
                BY <1>0, <1>1, <3>3
            <4> QED BY <1>3, <2>1, <3>1, <4>1
        <3> QED BY <3>2, <3>3
    <2> QED BY <1>0, <2>1, <2>2
<1>5. t \in Seq(Row) /\ Len(t) = n + 1 /\ DOMAIN t = 1 .. n + 1
    <2> HIDE DEF c
    <2>1. t \in Seq(Row) /\ Len(t) = k + (n - k + 1)
        BY <1>2, <1>3, <1>4, ConcatProperties DEF c
    <2>2. Len(t) = n + 1
        BY <1>0, <2>1
    <2> QED BY <2>1, <2>2, LenProperties
<1>6. \A j \in 1 .. n + 1 : t[j] = IF j < k THEN s[j] ELSE IF j = k THEN r ELSE s[j - 1]
    <2>0. t = c \o b
        BY <1>3
    <2> HIDE DEF c
    <2>1. \A j \in 1 .. Len(c) + Len(b) : t[j] = IF j <= Len(c) THEN c[j] ELSE b[j - Len(c)]
        BY <1>2, <1>4, <2>0, ConcatProperties
    <2>2. ASSUME NEW j \in 1 .. n + 1 PROVE t[j] = IF j < k THEN s[j] ELSE IF j = k THEN r ELSE s[j - 1]
        <3>1. j \in 1 .. Len(c) + Len(b)
            BY <1>0, <1>2, <1>4
        <3>2. CASE j <= k
            <4>1. t[j] = c[j] /\ j \in 1 .. k
                BY <1>0, <1>4, <2>1, <3>1, <3>2
            <4> QED BY <1>0, <1>4, <3>2, <4>1
        <3>3. CASE ~(j <= k)
            <4>1. t[j] = b[j - k] /\ j - k \in 1 .. n - k + 1 /\ k + (j - k) - 1 = j - 1
                BY <1>0, <1>4, <2>1, <3>1, <3>3
            <4>2. b[j - k] = s[k + (j - k) - 1]
                BY <1>2, <4>1
            <4> QED BY <1>0, <3>3, <4>1, <4>2
        <3> QED BY <3>2, <3>3
    <2> QED BY <2>2
<1>7. \A j \in 1 .. n + 1 : t[j] = r \/ \E m \in 1 .. n : t[j] = s[m]
    <2> SUFFICES ASSUME NEW j \in 1 .. n + 1, j # k PROVE \E m \in 1 .. n : t[j] = s[m]
        BY <1>0, <1>6
    <2>1. CASE j < k
        <3>1. j \in 1 .. n
            BY <1>0, <2>1
        <3> QED BY <1>6, <2>1, <3>1
    <2>2. CASE ~(j < k)
        <3>1. j - 1 \in 1 .. n /\ t[j] = s[j - 1]
            BY <1>0, <1>6, <2>2
        <3> QED BY <3>1
    <2> QED BY <2>1, <2>2
<1>8. \A m \in 1 .. n : \E j \in 1 .. n + 1 : t[j] = s[m]
    <2> SUFFICES ASSUME NEW m \in 1 .. n PROVE \E j \in 1 .. n + 1 : t[j] = s[m]
        OBVIOUS
    <2>1. CASE m < k
        <3>1. m \in 1 .. n + 1
            BY <1>0
        <3> QED BY <1>6, <2>1, <3>1
    <2>2. CASE ~(m < k)
        <3>1. m + 1 \in 1 .. n + 1 /\ ~(m + 1 < k) /\ m + 1 # k /\ (m + 1) - 1 = m
            BY <1>0, <2>2
        <3> QED BY <1>6, <3>1
    <2> QED BY <2>1, <2>2
<1>9. k \in 1 .. n + 1 /\ t[k] = r
    BY <1>0, <1>6
<1>10. t \in Distinct
    <2> SUFFICES ASSUME NEW i \in 1 .. n + 1, NEW j \in 1 .. n + 1, t[i].id = t[j].id PROVE i = j
        BY <1>5 DEF Distinct
    <2> DEFINE At(l) == IF l < k THEN l ELSE l - 1
    <2>1. \A l \in 1 .. n + 1 : l # k => At(l) \in 1 .. n /\ t[l] = s[At(l)] /\ t[l].id # r.id
        <3>1. \A l \in 1 .. n + 1 : l # k => At(l) \in 1 .. n /\ t[l] = s[At(l)]
            BY <1>0, <1>6
        <3> HIDE DEF At
        <3> QED BY <1>0, <3>1
    <2>2. CASE i = k \/ j = k
        <3> HIDE DEF At
        <3> QED BY <1>9, <2>1, <2>2
    <2>3. CASE i # k /\ j # k
        <3>1. At(i) = At(j)
            <4> HIDE DEF At
            <4> QED BY <1>0, <2>1, <2>3
        <3> QED BY <1>0, <2>3, <3>1
    <2> QED BY <2>2, <2>3
<1>11. IdSet(t) = IdSet(s) \cup {r.id}
    <2>1. IdSet(t) = {t[j].id : j \in 1 .. n + 1} /\ IdSet(s) = {s[j].id : j \in 1 .. n}
        BY <1>0, <1>5 DEF IdSet
    <2>2. \A j \in 1 .. n + 1 : t[j].id \in {s[m].id : m \in 1 .. n} \cup {r.id}
        BY <1>7
    <2>3. \A m \in 1 .. n : s[m].id \in {t[j].id : j \in 1 .. n + 1}
        BY <1>8
    <2>4. r.id \in {t[j].id : j \in 1 .. n + 1}
        BY <1>9
    <2> QED BY <2>1, <2>2, <2>3, <2>4
<1>12. ToSet(t) = ToSet(s) \cup {r}
    <2>1. ToSet(t) = {t[j] : j \in 1 .. n + 1} /\ ToSet(s) = {s[j] : j \in 1 .. n}
        BY <1>0, <1>5 DEF ToSet
    <2>2. \A j \in 1 .. n + 1 : t[j] \in {s[m] : m \in 1 .. n} \cup {r}
        BY <1>7
    <2>3. \A m \in 1 .. n : s[m] \in {t[j] : j \in 1 .. n + 1}
        BY <1>8
    <2>4. r \in {t[j] : j \in 1 .. n + 1}
        BY <1>9
    <2> QED BY <2>1, <2>2, <2>3, <2>4
<1> QED BY <1>5, <1>10, <1>11, <1>12 DEF t, n

-----------------------------------------------------------------------------
(* Selecting and checking.                                                   *)

\* Everything on the page is unselected or unchecked.
LEMMA UnselectingAll ==
    ASSUME opts \in Options, NEW p \in Picks, NEW P
    PROVE  /\ UnselectAll(p, P) \in Picks
           /\ UnselectAll(p, P).sel = p.sel \ P /\ UnselectAll(p, P).lit = {}
           /\ UnselectAll(p, P).chk = IF opts.checkOnSelect THEN p.chk \ P ELSE p.chk
           /\ UnselectAll(p, P).tick = IF opts.checkOnSelect THEN {} ELSE p.tick
BY DEF UnselectAll, BareUnselectAll, BareUncheckAll, Picks, Options

LEMMA UncheckingAll ==
    ASSUME opts \in Options, NEW p \in Picks, NEW P
    PROVE  /\ UncheckAll(p, P) \in Picks
           /\ UncheckAll(p, P).chk = p.chk \ P /\ UncheckAll(p, P).tick = {}
           /\ UncheckAll(p, P).sel = IF opts.selectOnCheck THEN p.sel \ P ELSE p.sel
           /\ UncheckAll(p, P).lit = IF opts.selectOnCheck THEN {} ELSE p.lit
BY DEF UncheckAll, BareUnselectAll, BareUncheckAll, Picks, Options

\* With singleSelect nothing else stays selected.
LEMMA SelectingAlone ==
    ASSUME opts \in Options, NEW p \in Picks, NEW P
    PROVE  /\ Alone(p, P) \in Picks
           /\ ~opts.single => Alone(p, P) = p
           /\ opts.single => /\ Alone(p, P).sel = {} /\ Alone(p, P).lit = {}
                             /\ Alone(p, P).chk = IF opts.checkOnSelect THEN p.chk \ P ELSE p.chk
                             /\ Alone(p, P).tick = IF opts.checkOnSelect THEN {} ELSE p.tick
<1> DEFINE u == UnselectAll(p, P)
<1>1. /\ u \in Picks /\ u.lit = {}
      /\ u.chk = IF opts.checkOnSelect THEN p.chk \ P ELSE p.chk
      /\ u.tick = IF opts.checkOnSelect THEN {} ELSE p.tick
    BY UnselectingAll
<1>2. CASE opts.single
    <2>1. Alone(p, P) = [u EXCEPT !.sel = {}]
        BY <1>2 DEF Alone
    <2> HIDE DEF u
    <2> QED BY <1>1, <1>2, <2>1 DEF Picks
<1>3. CASE ~opts.single
    BY <1>3 DEF Alone
<1> QED BY <1>2, <1>3

\* What selecting, checking and both make of p.
SelectedOn(q, p, i) ==
    /\ q \in Picks /\ q.sel = p.sel \cup {i} /\ q.lit = p.lit \cup {i}
    /\ q.chk = p.chk /\ q.tick = p.tick
CheckedOn(q, p, i) ==
    /\ q \in Picks /\ q.chk = p.chk \cup {i} /\ q.tick = p.tick \cup {i}
    /\ q.sel = p.sel /\ q.lit = p.lit
BothOn(q, p, i) ==
    /\ q \in Picks /\ q.sel = p.sel \cup {i} /\ q.lit = p.lit \cup {i}
    /\ q.chk = p.chk \cup {i} /\ q.tick = p.tick \cup {i}

LEMMA CheckingOne ==
    ASSUME NEW p \in Picks, NEW P, NEW i \in Ids
    PROVE  CheckedOn(BareCheck(p, P, i), p, i)
BY DEF CheckedOn, BareCheck, Picks

LEMMA SelectingBare ==
    ASSUME NEW p \in Picks, NEW i \in Ids
    PROVE  SelectedOn([p EXCEPT !.sel = @ \cup {i}, !.lit = @ \cup {i}], p, i)
BY DEF SelectedOn, Picks

\* selectRow, which goes on to the checked rows or does not.
LEMMA SelectingOne ==
    ASSUME opts \in Options, NEW p \in Picks, NEW P, NEW i \in Ids
    PROVE  /\ SelectedOn(Selecting(p, P, i, TRUE), Alone(p, P), i)
           /\ ~opts.checkOnSelect => SelectedOn(Selecting(p, P, i, FALSE), Alone(p, P), i)
           /\ opts.checkOnSelect => BothOn(Selecting(p, P, i, FALSE), Alone(p, P), i)
<1> DEFINE a == Alone(p, P)
           b == BareCheck(a, P, i)
           Add(o) == [o EXCEPT !.sel = @ \cup {i}, !.lit = @ \cup {i}]
<1>1. a \in Picks
    BY SelectingAlone
<1>2. CheckedOn(b, a, i)
    <2> HIDE DEF a
    <2> QED BY <1>1, CheckingOne
<1>3. SelectedOn(Add(a), a, i)
    <2> HIDE DEF a
    <2> QED BY <1>1, SelectingBare
<1>4. SelectedOn(Add(b), b, i)
    <2>1. b \in Picks
        BY <1>2 DEF CheckedOn
    <2> HIDE DEF b
    <2> QED BY <2>1, SelectingBare
<1>5. BothOn(Add(b), a, i)
    <2> HIDE DEF a, b, Add
    <2> QED BY <1>2, <1>4 DEF SelectedOn, CheckedOn, BothOn
<1>6. Selecting(p, P, i, TRUE) = Add(a)
    BY DEF Selecting
<1>7. opts.checkOnSelect => Selecting(p, P, i, FALSE) = Add(b)
    BY DEF Selecting
<1>8. ~opts.checkOnSelect => Selecting(p, P, i, FALSE) = Add(a)
    BY DEF Selecting
<1> HIDE DEF Add, b
<1> QED BY <1>3, <1>5, <1>6, <1>7, <1>8

\* What every click makes of a page that fits fits it, and adds no row of
\* another page; where both go together they stay together.
Kept(p, q, P) ==
    /\ q \in Picks /\ Fits(q, P)
    /\ q.sel \subseteq p.sel \cup P /\ q.chk \subseteq p.chk \cup P
    /\ Together /\ p.sel = p.chk => q.sel = q.chk

LEMMA AloneKeeps ==
    ASSUME opts \in Options, NEW P \in SUBSET Ids, NEW p \in Picks, Fits(p, P)
    PROVE  Kept(p, Alone(p, P), P)
<1> DEFINE a == Alone(p, P)
<1>1. /\ a \in Picks
      /\ ~opts.single => a = p
      /\ opts.single => /\ a.sel = {} /\ a.lit = {}
                        /\ a.chk = IF opts.checkOnSelect THEN p.chk \ P ELSE p.chk
                        /\ a.tick = IF opts.checkOnSelect THEN {} ELSE p.tick
    BY SelectingAlone
<1> SUFFICES Kept(p, a, P)
    OBVIOUS
<1> HIDE DEF a
<1>2. CASE ~opts.single
    BY <1>1, <1>2 DEF Kept, Fits, Together
<1>3. CASE opts.single /\ opts.checkOnSelect
    <2>1. a.sel = {} /\ a.lit = {} /\ a.chk = p.chk \ P /\ a.tick = {}
        BY <1>1, <1>3
    <2> QED BY <1>1, <1>3, <2>1 DEF Kept, Fits, Together
<1>4. CASE opts.single /\ ~opts.checkOnSelect
    <2>1. a.sel = {} /\ a.lit = {} /\ a.chk = p.chk /\ a.tick = p.tick
        BY <1>1, <1>4
    <2> QED BY <1>1, <1>4, <2>1 DEF Kept, Fits, Together
<1> QED BY <1>2, <1>3, <1>4

\* One row more.
LEMMA OneMore ==
    ASSUME NEW P \in SUBSET Ids, NEW p \in Picks, NEW a, Kept(p, a, P), NEW i \in P, NEW q
    PROVE  /\ BothOn(q, a, i) => Kept(p, q, P)
           /\ ~Together /\ (SelectedOn(q, a, i) \/ CheckedOn(q, a, i)) => Kept(p, q, P)
<1>1. ASSUME BothOn(q, a, i) PROVE Kept(p, q, P)
    BY <1>1 DEF BothOn, Kept, Fits
<1>2. ASSUME ~Together, SelectedOn(q, a, i) PROVE Kept(p, q, P)
    BY <1>2 DEF SelectedOn, Kept, Fits
<1>3. ASSUME ~Together, CheckedOn(q, a, i) PROVE Kept(p, q, P)
    BY <1>3 DEF CheckedOn, Kept, Fits
<1> QED BY <1>1, <1>2, <1>3

LEMMA SelectKeeps ==
    ASSUME opts \in Options, NEW P \in SUBSET Ids, NEW p \in Picks, Fits(p, P), NEW i \in P
    PROVE  Kept(p, Selecting(p, P, i, FALSE), P)
<1>1. i \in Ids /\ Kept(p, Alone(p, P), P)
    BY AloneKeeps
<1>2. CASE opts.checkOnSelect
    <2>1. BothOn(Selecting(p, P, i, FALSE), Alone(p, P), i)
        BY <1>1, <1>2, SelectingOne
    <2> QED BY <1>1, <2>1, OneMore
<1>3. CASE ~opts.checkOnSelect
    <2>1. SelectedOn(Selecting(p, P, i, FALSE), Alone(p, P), i)
        BY <1>1, <1>3, SelectingOne
    <2> QED BY <1>1, <1>3, <2>1, OneMore DEF Together
<1> QED BY <1>2, <1>3

LEMMA CheckKeeps ==
    ASSUME opts \in Options, NEW P \in SUBSET Ids, NEW p \in Picks, Fits(p, P), NEW i \in P
    PROVE  Kept(p, Checking(p, P, i), P)
<1>1. i \in Ids /\ Kept(p, Alone(p, P), P)
    BY AloneKeeps
<1>2. CASE opts.selectOnCheck
    <2> DEFINE b == Selecting(p, P, i, TRUE)
               q == BareCheck(b, P, i)
    <2>1. SelectedOn(b, Alone(p, P), i)
        BY <1>1, SelectingOne
    <2>2. q = Checking(p, P, i)
        BY <1>2 DEF Checking
    <2>3. b \in Picks
        BY <2>1 DEF SelectedOn
    <2> HIDE DEF b
    <2>4. CheckedOn(q, b, i)
        BY <1>1, <2>3, CheckingOne
    <2> HIDE DEF q
    <2>5. BothOn(q, Alone(p, P), i)
        BY <2>1, <2>4 DEF SelectedOn, CheckedOn, BothOn
    <2> QED BY <1>1, <2>2, <2>5, OneMore
<1>3. CASE ~opts.selectOnCheck
    <2>1. Checking(p, P, i) = BareCheck(p, P, i)
        BY <1>3 DEF Checking
    <2>2. CheckedOn(BareCheck(p, P, i), p, i)
        BY <1>1, CheckingOne
    <2>3. Kept(p, p, P)
        BY DEF Kept
    <2> QED BY <1>3, <2>1, <2>2, <2>3, OneMore DEF Together
<1> QED BY <1>2, <1>3

LEMMA UncheckFirstKeeps ==
    ASSUME opts \in Options, NEW P \in SUBSET Ids, NEW p \in Picks, Fits(p, P), NEW i \in P, opts.single
    PROVE  Kept(p, Checking(BareUncheckAll(p, P), P, i), P)
<1> DEFINE o == BareUncheckAll(p, P)
<1>1. o \in Picks /\ o.lit = p.lit /\ o.sel = p.sel /\ o.tick = {} /\ o.chk = p.chk \ P
    BY DEF BareUncheckAll, Picks
<1> HIDE DEF o
<1>2. Fits(o, P)
    BY <1>1 DEF Fits
<1>3. Kept(o, Checking(o, P, i), P)
    BY <1>1, <1>2, CheckKeeps
<1>4. Kept(p, Checking(o, P, i), P)
    BY <1>1, <1>3 DEF Kept, Together
<1> QED BY <1>4 DEF o

LEMMA UnselectKeeps ==
    ASSUME opts \in Options, NEW P \in SUBSET Ids, NEW p \in Picks, Fits(p, P), NEW i
    PROVE  Kept(p, Unselecting(p, i), P) /\ Kept(p, Unchecking(p, i), P)
BY DEF Kept, Unselecting, Unchecking, BareUnselect, BareUncheck, Picks, Options, Fits, Together

LEMMA AllKeep ==
    ASSUME opts \in Options, NEW P \in SUBSET Ids, NEW p \in Picks, Fits(p, P)
    PROVE  Kept(p, CheckAll(p, P), P) /\ Kept(p, UncheckAll(p, P), P)
<1>1. Kept(p, CheckAll(p, P), P)
    BY DEF Kept, CheckAll, BareCheckAll, BareSelectAll, Picks, Options, Fits, Together
<1> DEFINE q == UncheckAll(p, P)
<1>2. /\ q \in Picks /\ q.chk = p.chk \ P /\ q.tick = {}
      /\ q.sel = IF opts.selectOnCheck THEN p.sel \ P ELSE p.sel
      /\ q.lit = IF opts.selectOnCheck THEN {} ELSE p.lit
    BY UncheckingAll
<1> HIDE DEF q
<1>3. Kept(p, q, P)
    BY <1>2 DEF Kept, Fits, Together
<1> QED BY <1>1, <1>3 DEF q

-----------------------------------------------------------------------------
(* Pages and lists of rows, one by one.                                      *)

LEMMA PageIsFinite ==
    ASSUME NEW S, NEW s \in Seq(S)
    PROVE  IsFiniteSet(DOMAIN s)
BY FS_Interval, LenProperties

\* Reselected.  Of the rows T that were looked at, those that are remembered are
\* shown; the selection shrinks with singleSelect only.
AgainOp(c, r, q) ==
    LET P == IdSet(c.s)
        q1 == IF r.id \in q.sel THEN Selecting(q, P, r.id, TRUE) ELSE q
    IN  IF r.id \in q1.chk THEN BareCheck(q1, P, r.id) ELSE q1
RowOf(c, i) == c.s[i]
Latest(T)   == Max(T)
AgainBase(c) == [c.p EXCEPT !.lit = {}, !.tick = {}]
Part(q, p, D, E) ==
    /\ q \in Picks /\ q.lit = q.sel \cap D /\ q.tick = q.chk \cap E
    /\ q.sel \subseteq p.sel /\ q.chk \subseteq p.chk
    /\ ~opts.single => q.sel = p.sel /\ q.chk = p.chk
AgainInv(c, T, q) == Part(q, c.p, {c.s[i].id : i \in T}, {c.s[i].id : i \in T})

Again == INSTANCE Folding WITH
            Op <- AgainOp, F <- RowOf, Pick <- Latest, Base <- AgainBase, Inv <- AgainInv

\* The last of some rows is one of them.
LEMMA LastOfSome ==
    ASSUME NEW n \in Nat, NEW T \in SUBSET (1 .. n), T # {}
    PROVE  Latest(T) \in T
<1>1. \E m \in T : \A k \in T : m >= k
    BY Again!LargestNumber
<1> QED BY <1>1 DEF Latest, Max

LEMMA SelectAgain ==
    ASSUME opts \in Options, NEW p, NEW P, NEW D \in SUBSET P, NEW q, Part(q, p, D, D), NEW i \in P \cap Ids
    PROVE  Part(IF i \in q.sel THEN Selecting(q, P, i, TRUE) ELSE q, p, D \cup {i}, D)
<1> DEFINE a == Alone(q, P)
           b == Selecting(q, P, i, TRUE)
<1>1. /\ a \in Picks
      /\ ~opts.single => a = q
      /\ opts.single => /\ a.sel = {} /\ a.lit = {}
                        /\ a.chk = IF opts.checkOnSelect THEN q.chk \ P ELSE q.chk
                        /\ a.tick = IF opts.checkOnSelect THEN {} ELSE q.tick
    BY SelectingAlone DEF Part
<1>2. SelectedOn(b, a, i)
    BY SelectingOne DEF Part
<1>3. i \notin q.sel => Part(q, p, D \cup {i}, D)
    BY DEF Part
<1>4. i \in q.sel => Part(b, p, D \cup {i}, D)
    <2> HIDE DEF a, b
    <2>1. CASE ~opts.single
        BY <1>1, <1>2, <2>1 DEF Part, SelectedOn
    <2>2. CASE opts.single /\ opts.checkOnSelect
        <3>1. a.sel = {} /\ a.lit = {} /\ a.chk = q.chk \ P /\ a.tick = {}
            BY <1>1, <2>2
        <3> QED BY <1>1, <1>2, <2>2, <3>1 DEF Part, SelectedOn
    <2>3. CASE opts.single /\ ~opts.checkOnSelect
        <3>1. a.sel = {} /\ a.lit = {} /\ a.chk = q.chk /\ a.tick = q.tick
            BY <1>1, <2>3
        <3> QED BY <1>1, <1>2, <2>3, <3>1 DEF Part, SelectedOn
    <2> QED BY <2>1, <2>2, <2>3
<1> HIDE DEF b
<1> QED BY <1>3, <1>4 DEF b

LEMMA CheckAgain ==
    ASSUME NEW p, NEW P, NEW D, NEW q, NEW i \in Ids, Part(q, p, D \cup {i}, D)
    PROVE  Part(IF i \in q.chk THEN BareCheck(q, P, i) ELSE q, p, D \cup {i}, D \cup {i})
<1>1. CheckedOn(BareCheck(q, P, i), q, i)
    BY CheckingOne DEF Part
<1>2. i \notin q.chk => Part(q, p, D \cup {i}, D \cup {i})
    BY DEF Part
<1>3. i \in q.chk => Part(BareCheck(q, P, i), p, D \cup {i}, D \cup {i})
    BY <1>1 DEF CheckedOn, Part
<1> QED BY <1>2, <1>3

LEMMA ReselectedFits ==
    ASSUME opts \in Options, NEW p \in Picks, NEW s \in Distinct
    PROVE  Part(Reselected(p, s), p, IdSet(s), IdSet(s))
<1> DEFINE c == [p |-> p, s |-> s]
           P == IdSet(s)
           Op(r, q) == AgainOp(c, r, q)
<1>0. s \in Seq(Row) /\ DOMAIN s = 1 .. Len(s) /\ Len(s) \in Nat
    BY LenProperties DEF Distinct
<1>1. AgainInv(c, {}, AgainBase(c))
    BY DEF AgainInv, AgainBase, Part, Picks
<1>2. \A T \in SUBSET DOMAIN s : T # {} => Latest(T) \in T
    BY <1>0, LastOfSome
<1>3. ASSUME NEW T \in SUBSET DOMAIN s, NEW q, T # {}, AgainInv(c, T \ {Latest(T)}, q)
      PROVE  AgainInv(c, T, AgainOp(c, RowOf(c, Latest(T)), q))
    <2> DEFINE i == s[Latest(T)].id
               D == {s[k].id : k \in T \ {Latest(T)}}
               q1 == IF i \in q.sel THEN Selecting(q, P, i, TRUE) ELSE q
               q2 == IF i \in q1.chk THEN BareCheck(q1, P, i) ELSE q1
    <2>1. Latest(T) \in DOMAIN s /\ Latest(T) \in T
        BY <1>2, <1>3
    <2>2. s[Latest(T)] \in Row
        BY <1>0, <2>1, ElementOfSeq
    <2>3. i \in P /\ i \in Ids /\ D \in SUBSET P
        BY <2>1, <2>2 DEF IdSet, Row
    <2>4. {s[k].id : k \in T} = D \cup {i}
        BY <2>1
    <2>5. Part(q, p, D, D)
        BY <1>3 DEF AgainInv
    <2>6. q2 = AgainOp(c, RowOf(c, Latest(T)), q)
        BY DEF AgainOp, RowOf
    <2> HIDE DEF D, i, P
    <2>7. Part(q1, p, D \cup {i}, D)
        BY <2>3, <2>5, SelectAgain
    <2> HIDE DEF q1
    <2>8. Part(q2, p, D \cup {i}, D \cup {i})
        BY <2>3, <2>7, CheckAgain
    <2> QED BY <2>4, <2>6, <2>8 DEF AgainInv
<1>4. Again!IsFiniteSet(DOMAIN s)
    BY <1>0, PageIsFinite DEF IsFiniteSet, Again!IsFiniteSet
<1>5. AgainInv(c, DOMAIN s, Again!Fold(c, DOMAIN s))
    <2> HIDE DEF c
    <2> QED BY <1>1, <1>2, <1>3, <1>4, Again!FoldKeeps
<1>6. Reselected(p, s) = Again!Fold(c, DOMAIN s)
    BY DEF Reselected, FoldLeft, MapThenFoldSet, Again!Fold, Again!MapThenFoldSet,
           AgainOp, RowOf, AgainBase, Latest
<1> QED BY <1>5, <1>6 DEF AgainInv, IdSet

\* The server counts the rows of each page.
AnyOf(T) == CHOOSE x \in T : TRUE
PageAt(q, p) == Data[q][p]
Nought(q) == 0
CountOp(q, s, n) == Len(s) + n
CountInv(q, T, n) == n \in Nat /\ \A p \in T : Len(Data[q][p]) <= n

Adding == INSTANCE Folding WITH
            Op <- CountOp, F <- PageAt, Pick <- AnyOf, Base <- Nought, Inv <- CountInv

LEMMA PagesAnswered ==
    ASSUME NEW q \in Queries
    PROVE  /\ Total(q) \in Nat
           /\ 1 \in DOMAIN Data[q]
           /\ \A p \in DOMAIN Data[q] : p \in Nat /\ \A k \in 1 .. p : k \in DOMAIN Data[q]
           /\ \A p : PageOf(q, p) \in Distinct /\ Len(PageOf(q, p)) <= Total(q)
<1> DEFINE S == DOMAIN Data[q]
<1>1. /\ Data[q] \in Seq(Seq(Row)) /\ Data[q] # <<>>
      /\ \A p \in S : \A i, j \in DOMAIN Data[q][p] : Data[q][p][i].id = Data[q][p][j].id => i = j
    BY DataGridAssumption
<1>2. Len(Data[q]) \in Nat /\ Len(Data[q]) # 0 /\ S = 1 .. Len(Data[q])
    BY <1>1, LenProperties, EmptySeq
<1>3. \A p \in S : Data[q][p] \in Seq(Row) /\ Len(Data[q][p]) \in Nat /\ Data[q][p] \in Distinct
    <2> SUFFICES ASSUME NEW p \in S PROVE Data[q][p] \in Seq(Row) /\ Len(Data[q][p]) \in Nat /\ Data[q][p] \in Distinct
        OBVIOUS
    <2>1. Data[q][p] \in Seq(Row)
        BY <1>1, <1>2, ElementOfSeq
    <2> QED BY <1>1, <2>1, LenProperties DEF Distinct
<1>4. CountInv(q, {}, Nought(q))
    BY DEF CountInv, Nought
<1>5. \A T \in SUBSET S : T # {} => AnyOf(T) \in T
    BY DEF AnyOf
<1>6. ASSUME NEW T \in SUBSET S, NEW n, T # {}, CountInv(q, T \ {AnyOf(T)}, n)
      PROVE  CountInv(q, T, CountOp(q, PageAt(q, AnyOf(T)), n))
    <2>1. AnyOf(T) \in S
        BY <1>5, <1>6
    <2>2. n \in Nat /\ Len(Data[q][AnyOf(T)]) \in Nat
        BY <1>3, <1>6, <2>1 DEF CountInv
    <2>3. ASSUME NEW p \in T PROVE Len(Data[q][p]) <= Len(Data[q][AnyOf(T)]) + n
        <3>1. Len(Data[q][p]) \in Nat
            BY <1>3
        <3>2. p = AnyOf(T) \/ Len(Data[q][p]) <= n
            BY <1>6 DEF CountInv
        <3> QED BY <2>2, <3>1, <3>2
    <2> QED BY <2>2, <2>3 DEF CountInv, CountOp, PageAt
<1>7. Adding!IsFiniteSet(S)
    BY <1>1, PageIsFinite DEF IsFiniteSet, Adding!IsFiniteSet
<1>8. CountInv(q, S, Adding!Fold(q, S))
    <2> HIDE DEF S
    <2> QED BY <1>4, <1>5, <1>6, <1>7, Adding!FoldKeeps
<1>9. Total(q) = Adding!Fold(q, S)
    BY DEF Total, FoldFunction, FoldFunctionOnSet, MapThenFoldSet, Adding!Fold, Adding!MapThenFoldSet,
           CountOp, PageAt, Nought, AnyOf
<1>10. Total(q) \in Nat /\ \A p \in S : Len(Data[q][p]) <= Total(q)
    BY <1>8, <1>9 DEF CountInv
<1>11. ASSUME NEW p PROVE PageOf(q, p) \in Distinct /\ Len(PageOf(q, p)) <= Total(q)
    <2>1. <<>> \in Distinct /\ Len(<<>>) = 0
        BY EmptySeq DEF Distinct
    <2> QED BY <1>3, <1>10, <2>1 DEF PageOf
<1> QED BY <1>2, <1>10, <1>11

\* Rows that are selected again from a set of ids, in any order.
Itself(c, i) == i
BackBase(c)  == c.p
SelectOp(c, i, q) == Selecting(q, c.P, i, TRUE)
CheckOp(c, i, q)  == BareCheck(q, c.P, i)
BackInv(c, T, q)  == q \in Picks /\ Fits(q, c.P)

SelectBack == INSTANCE Folding WITH
            Op <- SelectOp, F <- Itself, Pick <- AnyOf, Base <- BackBase, Inv <- BackInv
CheckBack == INSTANCE Folding WITH
            Op <- CheckOp, F <- Itself, Pick <- AnyOf, Base <- BackBase, Inv <- BackInv

SelectEach(p, P, S) == FoldSet(LAMBDA i, x : Selecting(x, P, i, TRUE), p, S)
CheckEach(p, P, S)  == FoldSet(LAMBDA i, x : BareCheck(x, P, i), p, S)

LEMMA SelectedBack ==
    ASSUME opts \in Options, NEW P \in SUBSET Ids, IsFiniteSet(P), NEW S \in SUBSET P, NEW p \in Picks, Fits(p, P)
    PROVE  SelectEach(p, P, S) \in Picks /\ Fits(SelectEach(p, P, S), P)
<1> DEFINE c == [p |-> p, P |-> P]
<1>1. BackInv(c, {}, BackBase(c))
    BY DEF BackInv, BackBase
<1>2. \A T \in SUBSET S : T # {} => AnyOf(T) \in T
    BY DEF AnyOf
<1>3. ASSUME NEW T \in SUBSET S, NEW q, T # {}, BackInv(c, T \ {AnyOf(T)}, q)
      PROVE  BackInv(c, T, SelectOp(c, Itself(c, AnyOf(T)), q))
    <2>1. AnyOf(T) \in P /\ AnyOf(T) \in Ids /\ q \in Picks /\ Fits(q, P)
        BY <1>2, <1>3 DEF BackInv
    <2>2. SelectedOn(Selecting(q, P, AnyOf(T), TRUE), Alone(q, P), AnyOf(T))
        BY <2>1, SelectingOne
    <2>3. Kept(q, Alone(q, P), P)
        BY <2>1, AloneKeeps
    <2>4. Selecting(q, P, AnyOf(T), TRUE) \in Picks /\ Fits(Selecting(q, P, AnyOf(T), TRUE), P)
        BY <2>1, <2>2, <2>3 DEF SelectedOn, Kept, Fits
    <2> QED BY <2>4 DEF BackInv, SelectOp, Itself
<1>4. SelectBack!IsFiniteSet(S)
    <2>1. IsFiniteSet(S)
        BY FS_Subset
    <2> QED BY <2>1 DEF IsFiniteSet, SelectBack!IsFiniteSet
<1>5. BackInv(c, S, SelectBack!Fold(c, S))
    <2> HIDE DEF c
    <2> QED BY <1>1, <1>2, <1>3, <1>4, SelectBack!FoldKeeps
<1>6. SelectEach(p, P, S) = SelectBack!Fold(c, S)
    BY DEF SelectEach, FoldSet, MapThenFoldSet, SelectBack!Fold, SelectBack!MapThenFoldSet, SelectOp, Itself, BackBase, AnyOf
<1> QED BY <1>5, <1>6 DEF BackInv

LEMMA CheckedBack ==
    ASSUME NEW P \in SUBSET Ids, IsFiniteSet(P), NEW S \in SUBSET P, NEW p \in Picks, Fits(p, P)
    PROVE  CheckEach(p, P, S) \in Picks /\ Fits(CheckEach(p, P, S), P)
<1> DEFINE c == [p |-> p, P |-> P]
<1>1. BackInv(c, {}, BackBase(c))
    BY DEF BackInv, BackBase
<1>2. \A T \in SUBSET S : T # {} => AnyOf(T) \in T
    BY DEF AnyOf
<1>3. ASSUME NEW T \in SUBSET S, NEW q, T # {}, BackInv(c, T \ {AnyOf(T)}, q)
      PROVE  BackInv(c, T, CheckOp(c, Itself(c, AnyOf(T)), q))
    <2>1. AnyOf(T) \in P /\ AnyOf(T) \in Ids /\ q \in Picks /\ Fits(q, P)
        BY <1>2, <1>3 DEF BackInv
    <2>2. CheckedOn(BareCheck(q, P, AnyOf(T)), q, AnyOf(T))
        BY <2>1, CheckingOne
    <2>3. BareCheck(q, P, AnyOf(T)) \in Picks /\ Fits(BareCheck(q, P, AnyOf(T)), P)
        BY <2>1, <2>2 DEF CheckedOn, Fits
    <2> QED BY <2>3 DEF BackInv, CheckOp, Itself
<1>4. CheckBack!IsFiniteSet(S)
    <2>1. IsFiniteSet(S)
        BY FS_Subset
    <2> QED BY <2>1 DEF IsFiniteSet, CheckBack!IsFiniteSet
<1>5. BackInv(c, S, CheckBack!Fold(c, S))
    <2> HIDE DEF c
    <2> QED BY <1>1, <1>2, <1>3, <1>4, CheckBack!FoldKeeps
<1>6. CheckEach(p, P, S) = CheckBack!Fold(c, S)
    BY DEF CheckEach, FoldSet, MapThenFoldSet, CheckBack!Fold, CheckBack!MapThenFoldSet, CheckOp, Itself, BackBase, AnyOf
<1> QED BY <1>5, <1>6 DEF BackInv

-----------------------------------------------------------------------------
(* Rows are changed and deleted.                                             *)

LEMMA ChangedRow ==
    ASSUME NEW s \in Distinct, NEW k \in 1 .. Len(s), NEW v \in Vals
    PROVE  LET t == [s EXCEPT ![k].val = v] IN
           /\ t \in Distinct /\ Len(t) = Len(s) /\ IdSet(t) = IdSet(s)
           /\ \A r \in ToSet(t) : r.id = s[k].id \/ r \in ToSet(s)
           /\ \A r \in ToSet(s) : r.id = s[k].id \/ r \in ToSet(t)
<1> DEFINE e == [s[k] EXCEPT !.val = v]
           t == [s EXCEPT ![k].val = v]
           n == Len(s)
<1>0. /\ n \in Nat /\ s \in Seq(Row) /\ DOMAIN s = 1 .. n
      /\ \A j \in 1 .. n : s[j] \in Row /\ s[j].id \in IdSet(s)
      /\ \A i, j \in 1 .. n : s[i].id = s[j].id => i = j
    BY RowsOf
<1>1. e \in Row /\ e.id = s[k].id
    BY <1>0 DEF Row
<1>2. t = [s EXCEPT ![k] = e]
    OBVIOUS
<1> HIDE DEF e, t, n
<1>3. t \in Seq(Row) /\ Len(t) = n /\ \A j \in 1 .. n : t[j] = IF j = k THEN e ELSE s[j]
    BY <1>0, <1>1, <1>2, ExceptSeq DEF n
<1>4. DOMAIN t = 1 .. n
    BY <1>3, LenProperties
<1>5. k \in 1 .. n /\ \A j \in 1 .. n : t[j].id = s[j].id
    BY <1>1, <1>3 DEF n
<1>6. t \in Distinct
    BY <1>0, <1>3, <1>4, <1>5 DEF Distinct
<1>7. IdSet(t) = IdSet(s)
    BY <1>0, <1>4, <1>5 DEF IdSet
<1>8. \A r \in ToSet(t) : r.id = s[k].id \/ r \in ToSet(s)
    <2> SUFFICES ASSUME NEW j \in 1 .. n PROVE t[j].id = s[k].id \/ t[j] \in ToSet(s)
        BY <1>4 DEF ToSet
    <2> QED BY <1>0, <1>1, <1>3 DEF ToSet
<1>9. \A r \in ToSet(s) : r.id = s[k].id \/ r \in ToSet(t)
    <2> SUFFICES ASSUME NEW j \in 1 .. n PROVE s[j].id = s[k].id \/ s[j] \in ToSet(t)
        BY <1>0 DEF ToSet
    <2> QED BY <1>3, <1>4 DEF ToSet
<1> QED BY <1>3, <1>6, <1>7, <1>8, <1>9 DEF t, n

\* The editor of a row that is edited is closed: the log tells what it changed.
Ended(h, g, i) ==
    /\ h \in Grids /\ h.total = g.total /\ h.pick = g.pick /\ h.editing = g.editing \ {i}
    /\ Len(h.rows) = Len(g.rows) /\ IdSet(h.rows) = IdSet(g.rows)
    /\ h.log.ins = g.log.ins /\ h.log.del = g.log.del /\ h.log.aged = g.log.aged

LEMMA WrittenEnds ==
    ASSUME NEW g \in Grids, NEW i \in IdSet(g.rows), NEW v \in Vals, NEW b, NEW x
    PROVE  /\ Ended(Written(g, i, v), g, i)
           /\ Counts(g, b, x) => Counts(Written(g, i, v), b, x)
           /\ Counts(g, b, x) /\ Tells(g, b) => Tells(Written(g, i, v), b)
<1> DEFINE k == IndexOf(g.rows, i)
           t == [g.rows EXCEPT ![k].val = v]
           u == IF i \in g.log.ins THEN g.log.upd ELSE g.log.upd \cup {i}
           l == [g.log EXCEPT !.upd = u]
           h == Written(g, i, v)
<1>1. g.rows \in Distinct /\ g.log \in Logs /\ g.editing \subseteq Ids
    BY DEF Grids
<1>2. k \in 1 .. Len(g.rows) /\ g.rows[k].id = i /\ i \in Ids
    BY <1>1, FoundRow, RowsOf
<1>3. /\ t \in Distinct /\ Len(t) = Len(g.rows) /\ IdSet(t) = IdSet(g.rows)
      /\ \A r \in ToSet(t) : r.id = i \/ r \in ToSet(g.rows)
      /\ \A r \in ToSet(g.rows) : r.id = i \/ r \in ToSet(t)
    <2> HIDE DEF k
    <2> QED BY <1>1, <1>2, ChangedRow
<1>4. l \in Logs /\ l.ins = g.log.ins /\ l.del = g.log.del /\ l.aged = g.log.aged /\ l.upd = u
    BY <1>1, <1>2 DEF Logs
<1>5. CASE g.rows[k].val = v
    <2>1. h = [g EXCEPT !.editing = g.editing \ {i}]
        BY <1>5 DEF Written
    <2>2. /\ h \in Grids /\ h.total = g.total /\ h.pick = g.pick /\ h.editing = g.editing \ {i}
          /\ h.rows = g.rows /\ h.log = g.log
        BY <2>1 DEF Grids
    <2> HIDE DEF h
    <2>3. Ended(h, g, i) /\ (Counts(g, b, x) => Counts(h, b, x)) /\ (Tells(g, b) => Tells(h, b))
        BY <2>2 DEF Ended, Counts, Tells
    <2> QED BY <2>3 DEF h
<1>6. CASE g.rows[k].val # v
    <2>1. h = [g EXCEPT !.editing = g.editing \ {i}, !.rows = t, !.log = l]
        BY <1>6 DEF Written
    <2> HIDE DEF t, l, h, u, k
    <2>2. /\ h \in Grids /\ h.total = g.total /\ h.pick = g.pick /\ h.editing = g.editing \ {i}
          /\ h.rows = t /\ h.log = l
        BY <1>1, <1>3, <1>4, <2>1 DEF Grids
    <2>3. Ended(h, g, i)
        BY <1>3, <1>4, <2>2 DEF Ended
    <2>4. Counts(g, b, x) => Counts(h, b, x)
        BY <2>2, <2>3 DEF Counts, Ended
    <2>5. ASSUME Counts(g, b, x), Tells(g, b) PROVE Tells(h, b)
        <3>1. i \in l.ins \cup l.upd /\ g.log.upd \subseteq l.upd
            BY <1>4 DEF u
        <3>2. ASSUME NEW r \in ToSet(t) PROVE r.id \in l.ins \cup l.upd \/ r \in ToSet(b)
            BY <1>3, <1>4, <2>5, <3>1 DEF Tells
        <3>3. ASSUME NEW r \in ToSet(b) PROVE r.id \in l.del \cup l.upd \/ r \in ToSet(t)
            <4>1. r.id \in IdSet(b)
                BY DEF ToSet, IdSet
            <4>2. r.id \notin g.log.ins
                BY <2>5, <4>1 DEF Counts
            <4> QED BY <1>3, <1>4, <2>5, <3>1, <4>2 DEF Tells
        <3> QED BY <2>2, <3>2, <3>3 DEF Tells
    <2> QED BY <2>3, <2>4, <2>5 DEF h
<1> QED BY <1>5, <1>6

\* deleteRow takes a row out of the data and of all that is remembered.
Gone(h, g, i) ==
    /\ h \in Grids /\ Len(h.rows) = Len(g.rows) - 1 /\ h.total = g.total - 1
    /\ IdSet(h.rows) = IdSet(g.rows) \ {i} /\ h.editing = g.editing \ {i}
    /\ h.pick.sel = g.pick.sel \ {i} /\ h.pick.chk = g.pick.chk \ {i}
    /\ h.pick.lit = g.pick.lit \ {i} /\ h.pick.tick = g.pick.tick \ {i}

LEMMA DeletedIsGone ==
    ASSUME NEW g \in Grids, NEW i \in IdSet(g.rows), NEW b, NEW x
    PROVE  /\ Gone(Deleted(g, i), g, i)
           /\ Counts(g, b, x) => Counts(Deleted(g, i), b, x)
           /\ Counts(g, b, x) /\ Tells(g, b) => Tells(Deleted(g, i), b)
<1> DEFINE k == IndexOf(g.rows, i)
           t == RemoveAt(g.rows, k)
           d == IF i \in g.log.ins THEN g.log.del ELSE g.log.del \cup {i}
           l == [g.log EXCEPT !.ins = g.log.ins \ {i}, !.del = d]
           p == [g.pick EXCEPT !.sel = g.pick.sel \ {i}, !.chk = g.pick.chk \ {i},
                               !.lit = g.pick.lit \ {i}, !.tick = g.pick.tick \ {i}]
           h == Deleted(g, i)
<1>1. /\ g.rows \in Distinct /\ g.log \in Logs /\ g.editing \subseteq Ids /\ g.pick \in Picks
      /\ g.total \in Int /\ Len(g.rows) \in Nat
    BY RowsOf DEF Grids
<1>2. k \in 1 .. Len(g.rows) /\ g.rows[k].id = i /\ i \in Ids
    BY <1>1, FoundRow, RowsOf
<1>3. /\ t \in Distinct /\ Len(t) = Len(g.rows) - 1 /\ IdSet(t) = IdSet(g.rows) \ {i}
      /\ ToSet(t) = ToSet(g.rows) \ {g.rows[k]}
    <2> HIDE DEF k
    <2> QED BY <1>1, <1>2, RemovedRow
<1>4. l \in Logs /\ l.ins = g.log.ins \ {i} /\ l.del = d /\ l.aged = g.log.aged /\ l.upd = g.log.upd
    <2>1. /\ g.log.ins \in Some /\ g.log.del \in Some /\ g.log.upd \subseteq Ids /\ g.log.aged \in Int
          /\ g.log = [ins |-> g.log.ins, upd |-> g.log.upd, del |-> g.log.del, aged |-> g.log.aged]
        BY <1>1 DEF Logs
    <2>2. g.log.ins \ {i} \in Some
        BY <2>1, FS_RemoveElement DEF Some
    <2>3. d \in Some
        BY <1>2, <2>1, FS_AddElement DEF Some
    <2> DEFINE z == g.log.ins \ {i}
    <2>4. g.log \in Logs /\ l = [g.log EXCEPT !.ins = z, !.del = d]
        BY <1>1
    <2> HIDE DEF d, l, z
    <2>5. l \in Logs /\ l.ins = z /\ l.del = d /\ l.aged = g.log.aged /\ l.upd = g.log.upd
        BY <2>2, <2>3, <2>4 DEF Logs, z
    <2> QED BY <2>5 DEF z
<1>5. /\ p \in Picks
      /\ p.sel = g.pick.sel \ {i} /\ p.chk = g.pick.chk \ {i}
      /\ p.lit = g.pick.lit \ {i} /\ p.tick = g.pick.tick \ {i}
    BY <1>1 DEF Picks
<1>6. /\ h \in Grids /\ h.rows = t /\ h.total = g.total - 1 /\ h.editing = g.editing \ {i}
      /\ h.log = l /\ h.pick = p
    <2> DEFINE m == g.total - 1
               e == g.editing \ {i}
    <2>1. h = [rows |-> t, total |-> m, editing |-> e, log |-> l, pick |-> p]
        BY DEF Deleted
    <2>2. m \in Int /\ e \in SUBSET Ids
        BY <1>1
    <2> HIDE DEF t, l, p, h, m, e
    <2>3. /\ h \in Grids /\ h.rows = t /\ h.total = m /\ h.editing = e
          /\ h.log = l /\ h.pick = p
        BY <1>3, <1>4, <1>5, <2>1, <2>2 DEF Grids
    <2> QED BY <2>3 DEF m, e
<1> HIDE DEF t, l, p, h, k
<1>7. Gone(h, g, i)
    BY <1>3, <1>5, <1>6 DEF Gone
<1>8. ASSUME Counts(g, b, x) PROVE Counts(h, b, x)
    <2>1. l.aged = 0 /\ h.total - Len(t) = x
        BY <1>1, <1>3, <1>4, <1>6, <1>8 DEF Counts
    <2>2. l.ins = IdSet(t) \ IdSet(b)
        BY <1>3, <1>4, <1>8 DEF Counts
    <2>3. l.del = IdSet(b) \ IdSet(t)
        BY <1>3, <1>4, <1>8 DEF Counts
    <2> QED BY <1>6, <2>1, <2>2, <2>3 DEF Counts
<1>9. ASSUME Counts(g, b, x), Tells(g, b) PROVE Tells(h, b)
    <2>1. \A r \in ToSet(t) : r.id \in IdSet(t) /\ r \in ToSet(g.rows)
        BY <1>3 DEF ToSet, IdSet
    <2>2. ASSUME NEW r \in ToSet(t) PROVE r.id \in l.ins \cup l.upd \/ r \in ToSet(b)
        BY <1>3, <1>4, <1>9, <2>1 DEF Tells
    <2>3. ASSUME NEW r \in ToSet(b) PROVE r.id \in l.del \cup l.upd \/ r \in ToSet(t)
        <3>1. r.id \in IdSet(b)
            BY DEF ToSet, IdSet
        <3>2. r.id = i => i \in l.del
            BY <1>4, <1>9, <3>1 DEF Counts
        <3>3. r.id # i => r # g.rows[k]
            BY <1>2
        <3> QED BY <1>3, <1>4, <1>9, <3>2, <3>3 DEF Tells
    <2> QED BY <1>6, <2>2, <2>3 DEF Tells
<1> QED BY <1>7, <1>8, <1>9 DEF h

\* clearSelections.
LEMMA ClearedFits ==
    ASSUME opts \in Options, NEW p \in Picks, Fits(p, OnPage)
    PROVE  /\ Cleared(p) \in Picks /\ Fits(Cleared(p), OnPage) /\ Cleared(p).sel = {}
           /\ Together /\ p.chk \subseteq OnPage => Cleared(p).chk = {}
<1> DEFINE o == [p EXCEPT !.sel = {}]
           q == Cleared(p)
<1>1. o \in Picks /\ o.sel = {} /\ o.chk = p.chk /\ o.tick = p.tick
    BY DEF Picks
<1>2. q = UnselectAll(o, OnPage)
    BY DEF Cleared
<1> HIDE DEF o, q
<1>3. /\ q \in Picks /\ q.sel = o.sel \ OnPage /\ q.lit = {}
      /\ q.chk = IF opts.checkOnSelect THEN o.chk \ OnPage ELSE o.chk
      /\ q.tick = IF opts.checkOnSelect THEN {} ELSE o.tick
    BY <1>1, <1>2, UnselectingAll
<1>4. CASE opts.checkOnSelect
    <2>1. q.chk = p.chk \ OnPage /\ q.tick = {} /\ q.sel = {}
        BY <1>1, <1>3, <1>4
    <2> QED BY <1>3, <2>1 DEF Fits, q
<1>5. CASE ~opts.checkOnSelect
    <2>1. q.chk = p.chk /\ q.tick = p.tick /\ q.sel = {}
        BY <1>1, <1>3, <1>5
    <2> QED BY <1>3, <1>5, <2>1 DEF Fits, Together, q
<1> QED BY <1>4, <1>5

LEMMA GoneFits ==
    ASSUME NEW g, NEW h, NEW i, Gone(h, g, i), Fits(g.pick, IdSet(g.rows))
    PROVE  Fits(h.pick, IdSet(h.rows))
BY DEF Gone, Fits

\* The selected rows are deleted: each that was taken is gone from everything.
LoseOp(c, r, g) ==
    IF r.id \notin c.sel THEN g
    ELSE Deleted([g EXCEPT !.pick = Selecting(@, IdSet(g.rows), r.id, FALSE)], r.id)
LoseBase(c) == c.g
LoseInv(c, T, g) ==
    /\ g \in Grids
    /\ IdSet(g.rows) = IdSet(c.s) \ ({c.s[j].id : j \in T} \cap c.sel)
    /\ Fits(g.pick, IdSet(g.rows)) /\ g.pick.sel \subseteq IdSet(g.rows)
    /\ g.editing \subseteq IdSet(g.rows)
    /\ g.total - Len(g.rows) = c.g.total - Len(c.g.rows)
    /\ Together /\ c.g.pick.sel = c.g.pick.chk => g.pick.sel = g.pick.chk

Lost(c) == FoldLeft(LAMBDA x, r : LoseOp(c, r, x), c.g, c.s)

Lose == INSTANCE Folding WITH
            Op <- LoseOp, F <- RowOf, Pick <- Latest, Base <- LoseBase, Inv <- LoseInv

LEMMA LoseOne ==
    ASSUME opts \in Options, NEW g \in Grids, Fits(g.pick, IdSet(g.rows)), g.pick.sel \subseteq IdSet(g.rows),
           g.editing \subseteq IdSet(g.rows), NEW i \in IdSet(g.rows)
    PROVE  LET h == Deleted([g EXCEPT !.pick = Selecting(@, IdSet(g.rows), i, FALSE)], i) IN
           /\ h \in Grids /\ IdSet(h.rows) = IdSet(g.rows) \ {i}
           /\ Fits(h.pick, IdSet(h.rows)) /\ h.pick.sel \subseteq IdSet(h.rows)
           /\ h.editing \subseteq IdSet(h.rows)
           /\ h.total - Len(h.rows) = g.total - Len(g.rows)
           /\ Together /\ g.pick.sel = g.pick.chk => h.pick.sel = h.pick.chk
<1> DEFINE q == Selecting(g.pick, IdSet(g.rows), i, FALSE)
           o == [g EXCEPT !.pick = q]
           h == Deleted(o, i)
<1>0. g.pick \in Picks /\ g.rows \in Distinct /\ IdSet(g.rows) \in SUBSET Ids /\ g.total \in Int /\ Len(g.rows) \in Nat
    BY RowsOf DEF Grids
<1>1. Kept(g.pick, q, IdSet(g.rows))
    BY <1>0, SelectKeeps
<1> HIDE DEF q
<1>2. o \in Grids /\ o.rows = g.rows /\ o.pick = q /\ o.editing = g.editing /\ o.total = g.total
    BY <1>1 DEF Grids, Kept
<1>3. Fits(o.pick, IdSet(o.rows))
    BY <1>1, <1>2 DEF Kept
<1> HIDE DEF o
<1>4. Gone(h, o, i)
    BY <1>2, DeletedIsGone
<1> HIDE DEF h
<1>5. Fits(h.pick, IdSet(h.rows))
    BY <1>3, <1>4, GoneFits
<1>6. /\ h \in Grids /\ IdSet(h.rows) = IdSet(g.rows) \ {i}
      /\ h.pick.sel \subseteq IdSet(h.rows) /\ h.editing \subseteq IdSet(h.rows)
      /\ h.total - Len(h.rows) = g.total - Len(g.rows)
    BY <1>0, <1>1, <1>2, <1>4 DEF Gone, Kept
<1>7. Together /\ g.pick.sel = g.pick.chk => h.pick.sel = h.pick.chk
    BY <1>1, <1>2, <1>4 DEF Gone, Kept
<1> QED BY <1>5, <1>6, <1>7 DEF h, o, q

LEMMA SelectedAreLost ==
    ASSUME opts \in Options, NEW g \in Grids, Fits(g.pick, IdSet(g.rows)), g.pick.sel \subseteq IdSet(g.rows),
           g.editing \subseteq IdSet(g.rows), NEW sel
    PROVE  LET c == [s |-> g.rows, sel |-> sel, g |-> g]
           IN  LoseInv(c, DOMAIN g.rows, Lost(c))
<1> DEFINE c == [s |-> g.rows, sel |-> sel, g |-> g]
           s == g.rows
<1>0. /\ s \in Distinct /\ s \in Seq(Row) /\ DOMAIN s = 1 .. Len(s) /\ Len(s) \in Nat
      /\ \A j, k \in 1 .. Len(s) : s[j].id = s[k].id => j = k
    BY RowsOf DEF Grids
<1>1. LoseInv(c, {}, LoseBase(c))
    BY DEF LoseInv, LoseBase
<1>2. \A T \in SUBSET DOMAIN s : T # {} => Latest(T) \in T
    BY <1>0, LastOfSome
<1>3. ASSUME NEW T \in SUBSET DOMAIN s, NEW x, T # {}, LoseInv(c, T \ {Latest(T)}, x)
      PROVE  LoseInv(c, T, LoseOp(c, RowOf(c, Latest(T)), x))
    <2> DEFINE i == s[Latest(T)].id
               D == {s[k].id : k \in T \ {Latest(T)}}
               h == Deleted([x EXCEPT !.pick = Selecting(@, IdSet(x.rows), i, FALSE)], i)
    <2>1. Latest(T) \in DOMAIN s /\ Latest(T) \in T
        BY <1>2, <1>3
    <2>2. i \in IdSet(s) /\ i \notin D
        BY <1>0, <2>1 DEF IdSet
    <2>3. {s[k].id : k \in T} = D \cup {i}
        BY <2>1
    <2>4. /\ x \in Grids /\ IdSet(x.rows) = IdSet(s) \ (D \cap sel)
          /\ Fits(x.pick, IdSet(x.rows)) /\ x.pick.sel \subseteq IdSet(x.rows)
          /\ x.editing \subseteq IdSet(x.rows)
          /\ x.total - Len(x.rows) = g.total - Len(g.rows)
          /\ Together /\ g.pick.sel = g.pick.chk => x.pick.sel = x.pick.chk
        BY <1>3 DEF LoseInv
    <2>5. LoseOp(c, RowOf(c, Latest(T)), x) = IF i \notin sel THEN x ELSE h
        BY DEF LoseOp, RowOf
    <2>6. CASE i \notin sel
        <3>1. LoseOp(c, RowOf(c, Latest(T)), x) = x
            BY <2>5, <2>6
        <3>2. (D \cup {i}) \cap sel = D \cap sel
            BY <2>6
        <3> HIDE DEF D, i
        <3>3. LoseInv(c, T, x)
            BY <2>3, <2>4, <3>2 DEF LoseInv
        <3> QED BY <3>1, <3>3
    <2>7. CASE i \in sel
        <3>1. LoseOp(c, RowOf(c, Latest(T)), x) = h
            BY <2>5, <2>7
        <3>2. i \in IdSet(x.rows)
            BY <2>2, <2>4
        <3> HIDE DEF i, D
        <3>3. /\ h \in Grids /\ IdSet(h.rows) = IdSet(x.rows) \ {i}
              /\ Fits(h.pick, IdSet(h.rows)) /\ h.pick.sel \subseteq IdSet(h.rows)
              /\ h.editing \subseteq IdSet(h.rows)
              /\ h.total - Len(h.rows) = x.total - Len(x.rows)
              /\ Together /\ x.pick.sel = x.pick.chk => h.pick.sel = h.pick.chk
            BY <2>4, <3>2, LoseOne
        <3> HIDE DEF h
        <3>4. IdSet(h.rows) = IdSet(s) \ ((D \cup {i}) \cap sel)
            BY <2>4, <2>7, <3>3
        <3>5. LoseInv(c, T, h)
            BY <2>3, <2>4, <3>3, <3>4 DEF LoseInv
        <3> QED BY <3>1, <3>5
    <2> QED BY <2>6, <2>7
<1>4. Lose!IsFiniteSet(DOMAIN s)
    <2>1. IsFiniteSet(DOMAIN s)
        BY <1>0, PageIsFinite
    <2> QED BY <2>1 DEF IsFiniteSet, Lose!IsFiniteSet
<1>5. LoseInv(c, DOMAIN s, Lose!Fold(c, DOMAIN s))
    <2> HIDE DEF c
    <2> QED BY <1>1, <1>2, <1>3, <1>4, Lose!FoldKeeps
<1>6. Lost(c) = Lose!Fold(c, DOMAIN s)
    BY DEF Lost, FoldLeft, MapThenFoldSet, Lose!Fold, Lose!MapThenFoldSet, RowOf, LoseBase, Latest
<1> QED BY <1>5, <1>6

\* The rows with valid editors are ended.
EndOp(c, r, g) ==
    IF r.id \in c.editing /\ c.ed[r.id] # Invalid THEN Written(g, r.id, c.ed[r.id]) ELSE g
EndInv(c, T, g) ==
    /\ g \in Grids /\ g.total = c.g.total /\ g.pick = c.g.pick
    /\ Len(g.rows) = Len(c.s) /\ IdSet(g.rows) = IdSet(c.s)
    /\ Counts(c.g, c.b, c.x) => Counts(g, c.b, c.x)
    /\ Counts(c.g, c.b, c.x) /\ Tells(c.g, c.b) => Tells(g, c.b)
    /\ c.editing = {} => g = c.g

Ends(c) == FoldLeft(LAMBDA y, r : EndOp(c, r, y), c.g, c.s)

End == INSTANCE Folding WITH
            Op <- EndOp, F <- RowOf, Pick <- Latest, Base <- LoseBase, Inv <- EndInv

LEMMA ValidAreEnded ==
    ASSUME NEW g \in Grids, NEW e, NEW ed, \A i \in e : ed[i] \in Vals \cup {Invalid}, NEW b, NEW x
    PROVE  LET c == [s |-> g.rows, editing |-> e, ed |-> ed, g |-> g, b |-> b, x |-> x]
           IN  EndInv(c, DOMAIN g.rows, Ends(c))
<1> DEFINE c == [s |-> g.rows, editing |-> e, ed |-> ed, g |-> g, b |-> b, x |-> x]
           s == g.rows
<1>0. /\ s \in Distinct /\ s \in Seq(Row) /\ DOMAIN s = 1 .. Len(s) /\ Len(s) \in Nat
    BY RowsOf DEF Grids
<1>1. EndInv(c, {}, LoseBase(c))
    BY DEF EndInv, LoseBase
<1>2. \A T \in SUBSET DOMAIN s : T # {} => Latest(T) \in T
    BY <1>0, LastOfSome
<1>3. ASSUME NEW T \in SUBSET DOMAIN s, NEW y, T # {}, EndInv(c, T \ {Latest(T)}, y)
      PROVE  EndInv(c, T, EndOp(c, RowOf(c, Latest(T)), y))
    <2> DEFINE i == s[Latest(T)].id
               v == ed[i]
               h == Written(y, i, v)
    <2>1. Latest(T) \in DOMAIN s
        BY <1>2, <1>3
    <2>2. i \in IdSet(s)
        BY <2>1 DEF IdSet
    <2>3. /\ y \in Grids /\ y.total = g.total /\ y.pick = g.pick
          /\ Len(y.rows) = Len(s) /\ IdSet(y.rows) = IdSet(s)
          /\ Counts(g, b, x) => Counts(y, b, x)
          /\ Counts(g, b, x) /\ Tells(g, b) => Tells(y, b)
          /\ e = {} => y = g
        BY <1>3 DEF EndInv
    <2>4. EndOp(c, RowOf(c, Latest(T)), y) = IF i \in e /\ v # Invalid THEN h ELSE y
        BY DEF EndOp, RowOf
    <2>5. CASE i \in e /\ v # Invalid
        <3>1. v \in Vals
            BY <2>5
        <3> HIDE DEF i, v
        <3>2. /\ Ended(h, y, i) /\ (Counts(y, b, x) => Counts(h, b, x))
              /\ Counts(y, b, x) /\ Tells(y, b) => Tells(h, b)
            BY <2>2, <2>3, <3>1, WrittenEnds
        <3> HIDE DEF h
        <3>3. EndInv(c, T, h)
            BY <2>3, <2>5, <3>2 DEF EndInv, Ended
        <3> QED BY <2>4, <2>5, <3>3
    <2>6. CASE ~(i \in e /\ v # Invalid)
        <3>1. EndInv(c, T, y)
            BY <2>3 DEF EndInv
        <3> QED BY <2>4, <2>6, <3>1
    <2> QED BY <2>5, <2>6
<1>4. End!IsFiniteSet(DOMAIN s)
    BY <1>0, PageIsFinite DEF IsFiniteSet, End!IsFiniteSet
<1>5. EndInv(c, DOMAIN s, End!Fold(c, DOMAIN s))
    <2> HIDE DEF c
    <2> QED BY <1>1, <1>2, <1>3, <1>4, End!FoldKeeps
<1>6. Ends(c) = End!Fold(c, DOMAIN s)
    BY DEF Ends, FoldLeft, MapThenFoldSet, End!Fold, End!MapThenFoldSet, RowOf, LoseBase, Latest
<1> QED BY <1>5, <1>6

-----------------------------------------------------------------------------
(* The invariant of what is shown, remembered and logged.                    *)

Surprises == {"kept", "paged", "boxes", "overlap", "failed", "late", "silent"}

Types ==
    /\ use \in Uses /\ opts \in Opts
    /\ use = "edit" => opts.single
    /\ rows \in Distinct /\ original \in Distinct /\ base \in Distinct
    /\ total \in Int
    /\ pick \in Picks /\ pick.lit \subseteq OnPage /\ pick.tick \subseteq OnPage
    /\ editing \subseteq OnPage
    /\ log \in Logs
    /\ query \in Queries /\ pageNumber \in Pages
    /\ asked \in Nat /\ shown \in 0 .. asked
    /\ net \subseteq [nr : 1 .. asked, query : Queries, page : Pages]
    /\ mask \in BOOLEAN /\ broken \in BOOLEAN
    /\ mixed \subseteq Surprises

\* What is shown of the page is what is remembered of it; where selecting and
\* checking go together, the same rows are remembered for both.
PickInv ==
    /\ ~broken => Fits(pick, OnPage)
    /\ Together /\ "boxes" \notin mixed => pick.sel = pick.chk

\* Nothing is selected while a query is under way that cleared the selection.
HiddenInv ==
    use = "list" /\ mixed \cap {"kept", "paged", "overlap"} = {} =>
        /\ pick.sel \subseteq OnPage
        /\ net # {} => pick.sel = {} /\ mask /\ "loaded" \notin ToSet(timers)

\* A list is never broken and counts the rows it shows; a grid that is edited
\* has one query and one page.
UseInv ==
    /\ use # "edit" => ~broken /\ Len(rows) <= total
    /\ use = "edit" => pageNumber = 1 /\ \A r \in net : r.query = query /\ r.page = 1

\* How many rows the server has besides those it answered.
Excess == IF shown = 0 THEN 0 ELSE Total(query) - Len(PageOf(query, 1))

LogInv ==
    use = "edit" /\ ~broken /\ "late" \notin mixed =>
        IF "reset" \in ToSet(timers)
        THEN rows = base /\ rows = PageOf(query, 1) /\ total = Total(query) /\ shown # 0
        ELSE Counts(Grid, base, Excess) /\ ("silent" \notin mixed => Tells(Grid, base))

GridInv == Types /\ PickInv /\ HiddenInv /\ UseInv /\ LogInv

LEMMA LogsStart ==
    /\ EmptyLog \in Logs
    /\ \A l \in Logs : More(l) \in Int /\ Aged(l) \in Logs
<1>1. {} \in Some
    BY FS_EmptySet DEF Some
<1>2. EmptyLog \in Logs
    BY <1>1 DEF EmptyLog, Logs
<1>3. ASSUME NEW l \in Logs PROVE More(l) \in Int
    <2>1. Cardinality(l.ins) \in Nat /\ Cardinality(l.del) \in Nat /\ l.aged \in Int
        BY FS_CardinalityType DEF Logs, Some
    <2> QED BY <2>1 DEF More
<1>4. ASSUME NEW l \in Logs PROVE Aged(l) \in Logs
    <2>1. More(l) \in Int
        BY <1>3
    <2> QED BY <1>1, <2>1 DEF Aged, EmptyLog, Logs
<1> QED BY <1>2, <1>3, <1>4

LEMMA OptsAreOptions == Opts \subseteq Options
BY DataGridAssumption DEF Options

LEMMA GridStarts == Init => GridInv
<1> SUFFICES ASSUME Init PROVE GridInv
    OBVIOUS
<1>1. <<>> \in Distinct /\ IdSet(<<>>) = {} /\ Len(<<>>) = 0 /\ ToSet(<<>>) = {}
    BY EmptySeq DEF Distinct, IdSet, ToSet
<1>2. 1 \in Pages
    BY PagesAnswered DEF Init, Pages
<1>3. pick \in Picks /\ pick.sel = {} /\ pick.chk = {} /\ pick.lit = {} /\ pick.tick = {}
    BY DEF Init, Picks
<1>4. Types
    <2>1. /\ rows = <<>> /\ original = <<>> /\ base = <<>> /\ log = EmptyLog /\ net = {} /\ asked = 0
          /\ total = 0 /\ shown = 0 /\ mixed = {} /\ editing = {} /\ pageNumber = 1
          /\ use \in Uses /\ opts \in Opts /\ query \in Queries /\ mask = FALSE /\ broken = FALSE
          /\ use = "edit" => opts.single
        BY DEF Init
    <2>2. pick.lit \subseteq OnPage /\ pick.tick \subseteq OnPage /\ editing \subseteq OnPage
        BY <1>3, <2>1
    <2>3. rows \in Distinct /\ original \in Distinct /\ base \in Distinct /\ log \in Logs
        BY <1>1, <2>1, LogsStart
    <2>4. 0 \in Int /\ 0 \in Nat /\ 0 \in 0 .. 0
        OBVIOUS
    <2> QED BY <1>2, <1>3, <2>1, <2>2, <2>3, <2>4 DEF Types
<1>5. PickInv /\ HiddenInv /\ UseInv
    BY <1>1, <1>3 DEF Init, PickInv, HiddenInv, UseInv, Fits
<1>6. Grid.rows = <<>> /\ Grid.log = EmptyLog /\ Grid.total = 0 /\ base = <<>> /\ Excess = 0 /\ timers = <<>>
    BY DEF Init, Grid, Excess
<1>7. LogInv
    <2>1. EmptyLog.ins = {} /\ EmptyLog.del = {} /\ EmptyLog.aged = 0
        BY DEF EmptyLog
    <2>2. IdSet(Grid.rows) = {} /\ IdSet(base) = {} /\ Len(Grid.rows) = 0
        BY <1>1, <1>6
    <2>3. Counts(Grid, base, Excess)
        <3>1. Grid.log.ins = {} /\ Grid.log.del = {} /\ Grid.log.aged = 0
            BY <1>6, <2>1
        <3>2. Grid.total - Len(Grid.rows) = Excess
            <4>1. 0 - 0 = 0
                OBVIOUS
            <4> QED BY <1>6, <2>2, <4>1, Zenon
        <3>3. {} = {} \ {}
            OBVIOUS
        <3>4. /\ Grid.log.aged = 0
              /\ Grid.log.ins = IdSet(Grid.rows) \ IdSet(base)
              /\ Grid.log.del = IdSet(base) \ IdSet(Grid.rows)
            BY <2>2, <3>1, <3>3, Zenon
        <3> QED BY <3>2, <3>4, Zenon DEF Counts
    <2>4. Tells(Grid, base)
        BY <1>1, <1>6 DEF Tells
    <2> QED BY <1>1, <1>6, <2>3, <2>4 DEF LogInv
<1> QED BY <1>4, <1>5, <1>7 DEF GridInv

\* Clicks.
LEMMA PickedGrid ==
    ASSUME GridInv, NEW q, Picked(q), Kept(pick, q, OnPage)
    PROVE  GridInv'
<1>1. /\ pick' = q /\ ~mask /\ ~broken
      /\ use' = use /\ opts' = opts /\ rows' = rows /\ total' = total /\ editing' = editing
      /\ original' = original /\ log' = log /\ broken' = broken /\ base' = base /\ mixed' = mixed
      /\ query' = query /\ pageNumber' = pageNumber /\ net' = net /\ timers' = timers /\ mask' = mask
      /\ asked' = asked /\ shown' = shown /\ OnPage' = OnPage
    BY DEF Picked, loading, OnPage
<1>2. q \in Picks /\ q.lit \subseteq OnPage /\ q.tick \subseteq OnPage /\ Fits(q, OnPage)
    BY DEF Kept, Fits
<1>3. Types'
    BY <1>1, <1>2 DEF GridInv, Types
<1>4. PickInv'
    BY <1>1, <1>2 DEF GridInv, PickInv, Kept, Together
<1>5. HiddenInv'
    BY <1>1 DEF GridInv, HiddenInv, Kept
<1>6. UseInv'
    BY <1>1 DEF GridInv, UseInv
<1>7. Excess' = Excess /\ Grid'.rows = Grid.rows /\ Grid'.log = Grid.log /\ Grid'.total = Grid.total
    BY <1>1 DEF Excess, Grid
<1>8. LogInv'
    BY <1>1, <1>7 DEF GridInv, LogInv, Counts, Tells
<1> QED BY <1>3, <1>4, <1>5, <1>6, <1>8 DEF GridInv

LEMMA ClicksGrid ==
    ASSUME GridInv, NEW i, ClickRow(i) \/ ClickBox(i) \/ ClickHead
    PROVE  GridInv'
<1>1. opts \in Options /\ OnPage \in SUBSET Ids /\ pick \in Picks
    BY OptsAreOptions, RowsOf DEF GridInv, Types, OnPage
<1>2. ~broken => Fits(pick, OnPage)
    BY DEF GridInv, PickInv
<1>3. CASE ClickRow(i)
    <2>1. PICK q : Picked(q) /\ i \in OnPage /\ (q = Selecting(pick, OnPage, i, FALSE) \/ q = Unselecting(pick, i))
        BY <1>3, Zenon DEF ClickRow
    <2>2. Fits(pick, OnPage)
        BY <1>2, <2>1 DEF Picked
    <2>3. Kept(pick, q, OnPage)
        BY <1>1, <2>1, <2>2, SelectKeeps, UnselectKeeps
    <2> QED BY <2>1, <2>3, PickedGrid
<1>4. CASE ClickBox(i)
    <2>1. PICK q : /\ Picked(q) /\ i \in OnPage
                   /\ \/ q = Checking(pick, OnPage, i) \/ q = Unchecking(pick, i)
                      \/ opts.single /\ q = Checking(BareUncheckAll(pick, OnPage), OnPage, i)
        BY <1>4, Zenon DEF ClickBox
    <2>2. Fits(pick, OnPage)
        BY <1>2, <2>1 DEF Picked
    <2>3. Kept(pick, q, OnPage)
        BY <1>1, <2>1, <2>2, CheckKeeps, UncheckFirstKeeps, UnselectKeeps
    <2> QED BY <2>1, <2>3, PickedGrid
<1>5. CASE ClickHead
    <2>1. PICK q : Picked(q) /\ (q = CheckAll(pick, OnPage) \/ q = UncheckAll(pick, OnPage))
        BY <1>5, Zenon DEF ClickHead
    <2>2. Fits(pick, OnPage)
        BY <1>2, <2>1 DEF Picked
    <2>3. Kept(pick, q, OnPage)
        BY <1>1, <2>1, <2>2, AllKeep
    <2> QED BY <2>1, <2>3, PickedGrid
<1> QED BY <1>3, <1>4, <1>5

\* Requests.
LEMMA PagesToGo ==
    ASSUME GridInv, use # "edit", NEW p \in Pages
    PROVE  (IF p > PageCount THEN PageCount ELSE p) \in Pages
<1>1. total \in Nat /\ PageSize \in Nat /\ PageSize # 0
    <2>1. total \in Int /\ rows \in Distinct /\ Len(rows) <= total
        BY DEF GridInv, Types, UseInv
    <2>2. Len(rows) \in Nat
        BY <2>1, RowsOf
    <2> QED BY <2>1, <2>2, DataGridAssumption
<1>2. PageCount \in Nat /\ PageCount >= 1
    <2>1. CASE total = 0
        BY <2>1 DEF PageCount
    <2>2. CASE total # 0
        <3> DEFINE a == total + PageSize - 1
                   d == a \div PageSize
        <3>1. a \in Nat /\ a >= PageSize
            BY <1>1, <2>2
        <3> HIDE DEF a
        <3>2. d \in Int /\ PageSize * d <= a /\ a < PageSize * (d + 1)
            BY <1>1, <3>1
        <3> HIDE DEF d
        <3>3. ~(d <= 0)
            <4>1. SUFFICES ASSUME d <= 0 PROVE FALSE
                OBVIOUS
            <4>2. PageSize * (d + 1) <= PageSize * 1
                BY <1>1, <3>2, <4>1
            <4> QED BY <1>1, <3>1, <3>2, <4>2
        <3>4. PageCount = d
            BY <2>2 DEF PageCount, d, a
        <3> QED BY <3>2, <3>3, <3>4
    <2> QED BY <2>1, <2>2
<1>3. PICK q \in Queries : p \in DOMAIN Data[q]
    BY DEF Pages
<1>4. p \in Nat /\ \A k \in 1 .. p : k \in DOMAIN Data[q]
    BY <1>3, PagesAnswered
<1>5. CASE p > PageCount
    <2>1. PageCount \in DOMAIN Data[q]
        BY <1>2, <1>4, <1>5
    <2> QED BY <1>5, <2>1 DEF Pages
<1>6. CASE ~(p > PageCount)
    BY <1>6
<1> QED BY <1>5, <1>6

LEMMA RequestGrid ==
    ASSUME GridInv, NEW q \in Queries, NEW n \in Pages, NEW why \in SUBSET {"boxes", "kept", "paged"},
           Request(q, n, why),
           \/ pick' = pick /\ why \cap {"kept", "paged"} # {}
           \/ pick' = Cleared(pick) /\ why = Boxes,
           use = "edit" => q = query /\ n = 1
    PROVE  GridInv'
<1>1. /\ ~broken /\ asked' = asked + 1 /\ query' = q /\ pageNumber' = n /\ mask' = (mask \/ use # "query")
      /\ net' = net \cup {[nr |-> asked + 1, query |-> q, page |-> n]}
      /\ use' = use /\ opts' = opts /\ rows' = rows /\ total' = total /\ editing' = editing
      /\ original' = original /\ log' = log /\ timers' = timers /\ broken' = broken /\ base' = base
      /\ shown' = shown /\ OnPage' = OnPage
    BY DEF Request, Keep, OnPage
<1>2. /\ mixed' \subseteq Surprises /\ mixed \cup why \subseteq mixed'
      /\ "overlap" \notin mixed' => net = {} /\ "loaded" \notin ToSet(timers)
      /\ "late" \in mixed' <=> "late" \in mixed
      /\ "silent" \in mixed' <=> "silent" \in mixed
    <2>1. mixed' = mixed \cup why
              \cup (IF net # {} \/ "loaded" \in ToSet(timers) THEN {"overlap"} ELSE {})
        BY DEF Request
    <2>2. mixed \subseteq Surprises
        BY DEF GridInv, Types
    <2> QED BY <2>1, <2>2 DEF Surprises
<1>3. pick \in Picks /\ Fits(pick, OnPage) /\ opts \in Options
    BY <1>1, OptsAreOptions DEF GridInv, Types, PickInv
<1>4. /\ Cleared(pick) \in Picks /\ Fits(Cleared(pick), OnPage) /\ Cleared(pick).sel = {}
      /\ Together /\ pick.chk \subseteq OnPage => Cleared(pick).chk = {}
    BY <1>3, ClearedFits
<1>5. pick' \in Picks /\ Fits(pick', OnPage)
    BY <1>3, <1>4
<1>6. Types'
    <2>1. pick'.lit \subseteq OnPage /\ pick'.tick \subseteq OnPage
        BY <1>5 DEF Fits
    <2>2. asked' \in Nat /\ shown' \in 0 .. asked' /\ net' \subseteq [nr : 1 .. asked', query : Queries, page : Pages]
        <3>1. asked \in Nat /\ shown \in 0 .. asked /\ net \subseteq [nr : 1 .. asked, query : Queries, page : Pages]
            BY DEF GridInv, Types
        <3>2. 1 .. asked \subseteq 1 .. asked + 1 /\ asked + 1 \in 1 .. asked + 1 /\ asked + 1 \in Nat
            BY <3>1
        <3>3. [nr |-> asked + 1, query |-> q, page |-> n] \in [nr : 1 .. asked + 1, query : Queries, page : Pages]
            BY <3>2
        <3>4. \A r \in net : r \in [nr : 1 .. asked + 1, query : Queries, page : Pages]
            BY <3>1, <3>2
        <3> QED BY <1>1, <3>1, <3>2, <3>3, <3>4
    <2>3. mask' \in BOOLEAN
        BY <1>1 DEF GridInv, Types
    <2> QED BY <1>1, <1>2, <1>5, <2>1, <2>2, <2>3 DEF GridInv, Types
<1>7. PickInv'
    <2>1. Together' = Together
        BY <1>1 DEF Together
    <2>2. ASSUME Together, "boxes" \notin mixed' PROVE pick'.sel = pick'.chk
        <3>1. "boxes" \notin mixed /\ "boxes" \notin why
            BY <1>2, <2>2
        <3>2. CASE pick' = pick
            BY <2>2, <3>1, <3>2 DEF GridInv, PickInv
        <3>3. CASE pick' = Cleared(pick) /\ why = Boxes
            <4>1. pick.chk \subseteq OnPage
                BY <3>1, <3>3 DEF Boxes
            <4> QED BY <1>4, <2>2, <3>3, <4>1
        <3> QED BY <3>2, <3>3
    <2> QED BY <1>1, <1>5, <2>1, <2>2 DEF PickInv
<1>8. HiddenInv'
    <2> SUFFICES ASSUME use = "list", mixed' \cap {"kept", "paged", "overlap"} = {}
                 PROVE  pick'.sel = {} /\ mask' /\ "loaded" \notin ToSet(timers')
        BY <1>1 DEF HiddenInv
    <2>1. why \cap {"kept", "paged"} = {}
        BY <1>2
    <2> QED BY <1>1, <1>2, <1>4, <2>1
<1>9. UseInv'
    <2>1. use = "edit" => \A r \in net' : r.query = query' /\ r.page = 1
        <3> DEFINE o == [nr |-> asked + 1, query |-> q, page |-> n]
        <3>1. o.query = q /\ o.page = n /\ net' = net \cup {o}
            BY <1>1
        <3> HIDE DEF o
        <3> QED BY <1>1, <3>1 DEF GridInv, UseInv
    <2> QED BY <1>1, <2>1 DEF GridInv, UseInv
<1>10. LogInv'
    <2>1. use = "edit" => Excess' = Excess /\ query' = query
        BY <1>1 DEF Excess
    <2>2. Grid'.rows = Grid.rows /\ Grid'.log = Grid.log /\ Grid'.total = Grid.total
        BY <1>1 DEF Grid
    <2> QED BY <1>1, <1>2, <2>1, <2>2 DEF GridInv, LogInv, Counts, Tells
<1> QED BY <1>6, <1>7, <1>8, <1>9, <1>10 DEF GridInv

LEMMA LoadGrid ==
    ASSUME GridInv, NEW q \in Queries, NEW clear \in BOOLEAN, Load(q, clear), use = "edit" => q = query
    PROVE  GridInv'
<1> DEFINE n == IF use = "query" THEN pageNumber ELSE 1
<1>1. n \in Pages /\ (use = "edit" => n = 1)
    BY PagesAnswered DEF Pages, GridInv, Types
<1>2. CASE clear
    <2>1. Request(q, n, Boxes) /\ pick' = Cleared(pick) /\ Boxes \in SUBSET {"boxes", "kept", "paged"}
        BY <1>2 DEF Load, Boxes
    <2> QED BY <1>1, <2>1, RequestGrid
<1>3. CASE ~clear
    <2>1. Request(q, n, {"kept"}) /\ pick' = pick
        BY <1>3 DEF Load
    <2>2. {"kept"} \in SUBSET {"boxes", "kept", "paged"} /\ {"kept"} \cap {"kept", "paged"} # {}
        OBVIOUS
    <2> QED BY <1>1, <2>1, <2>2, RequestGrid
<1> QED BY <1>2, <1>3

LEMMA GoPageGrid ==
    ASSUME GridInv, use # "edit", NEW p \in Pages, GoPage(p)
    PROVE  GridInv'
<1> DEFINE n == IF p > PageCount THEN PageCount ELSE p
<1>1. n \in Pages
    BY PagesToGo
<1>2. Request(query, n, {"paged"}) /\ pick' = pick
    BY DEF GoPage
<1>3. {"paged"} \in SUBSET {"boxes", "kept", "paged"} /\ {"paged"} \cap {"kept", "paged"} # {}
    OBVIOUS
<1>4. query \in Queries
    BY DEF GridInv, Types
<1> HIDE DEF n
<1> QED BY <1>1, <1>2, <1>3, <1>4, RequestGrid

\* Answers.
LEMMA AnswerGrid ==
    ASSUME GridInv, Inv, NEW r \in net, Answer(r)
    PROVE  GridInv'
<1>1. /\ ~broken /\ net' = net \ {r} /\ rows' = PageOf(r.query, r.page) /\ total' = Total(r.query)
      /\ pick' = Reselected(pick, rows') /\ editing' = {} /\ base' = rows' /\ shown' = r.nr
      /\ use' = use /\ opts' = opts /\ query' = query /\ pageNumber' = pageNumber /\ mask' = mask
      /\ broken' = broken /\ asked' = asked /\ mixed' = mixed
    BY DEF Answer
<1>2. /\ r \in [nr : 1 .. asked, query : Queries, page : Pages] /\ asked \in Nat
      /\ pick \in Picks /\ opts \in Options
    BY OptsAreOptions DEF GridInv, Types
<1>3. r.query \in Queries /\ r.nr \in 1 .. asked
    BY <1>2
<1>4. rows' \in Distinct /\ total' \in Nat /\ Len(rows') <= total'
    BY <1>1, <1>3, PagesAnswered
<1>5. Part(pick', pick, OnPage', OnPage')
    BY <1>1, <1>2, <1>4, ReselectedFits DEF OnPage
<1>6. /\ original' \in Distinct /\ log' \in Logs
      /\ use # "query" => timers' = timers \o <<"loaded", "reset">>
    <2>1. original \in Distinct /\ log \in Logs
        BY DEF GridInv, Types
    <2>2. CASE use = "query"
        BY <1>4, <2>1, <2>2, LogsStart DEF Answer
    <2>3. CASE use # "query"
        BY <2>1, <2>3, LogsStart DEF Answer
    <2> QED BY <2>2, <2>3
<1>7. Types'
    <2>1. shown' \in 0 .. asked' /\ total' \in Int /\ asked' \in Nat
        BY <1>1, <1>2, <1>3, <1>4
    <2>2. net' \subseteq [nr : 1 .. asked', query : Queries, page : Pages]
        BY <1>1 DEF GridInv, Types
    <2>3. pick' \in Picks /\ pick'.lit \subseteq OnPage' /\ pick'.tick \subseteq OnPage' /\ editing' \subseteq OnPage'
        BY <1>1, <1>5 DEF Part
    <2> QED BY <1>1, <1>4, <1>6, <2>1, <2>2, <2>3 DEF GridInv, Types
<1>8. PickInv'
    <2>1. Fits(pick', OnPage')
        BY <1>5 DEF Part, Fits
    <2>2. Together' = Together
        BY <1>1 DEF Together
    <2>3. Together => pick'.sel = pick.sel /\ pick'.chk = pick.chk
        BY <1>5 DEF Part, Together
    <2> QED BY <1>1, <2>1, <2>2, <2>3 DEF GridInv, PickInv
<1>9. HiddenInv'
    <2> SUFFICES ASSUME use = "list", mixed \cap {"kept", "paged", "overlap"} = {}
                 PROVE  pick'.sel = {} /\ net' = {}
        BY <1>1 DEF HiddenInv
    <2>1. pick.sel = {}
        BY DEF GridInv, HiddenInv
    <2>2. net' = {}
        BY <1>1 DEF Inv, OneRequest
    <2> QED BY <1>5, <2>1, <2>2 DEF Part
<1>10. UseInv'
    BY <1>1, <1>4 DEF GridInv, UseInv
<1>11. LogInv'
    <2> SUFFICES ASSUME use = "edit"
                 PROVE  /\ "reset" \in ToSet(timers') /\ rows' = PageOf(query, 1)
                        /\ total' = Total(query) /\ shown' # 0
        BY <1>1 DEF LogInv
    <2>1. r.query = query /\ r.page = 1
        BY DEF GridInv, UseInv
    <2>2. "reset" \in ToSet(timers')
        BY <1>6, AppendAdds, NewTasks DEF Inv, Tasks
    <2> QED BY <1>1, <1>3, <2>1, <2>2
<1> QED BY <1>7, <1>8, <1>9, <1>10, <1>11 DEF GridInv

LEMMA FailGrid ==
    ASSUME GridInv, Inv, NEW r \in net, Fail(r)
    PROVE  GridInv'
<1>1. /\ ~broken /\ net' = net \ {r} /\ timers' = Uncover /\ mixed' = mixed \cup {"failed"}
      /\ use' = use /\ opts' = opts /\ rows' = rows /\ total' = total /\ pick' = pick
      /\ editing' = editing /\ original' = original /\ log' = log /\ query' = query
      /\ pageNumber' = pageNumber /\ mask' = mask /\ broken' = broken /\ base' = base
      /\ asked' = asked /\ shown' = shown /\ OnPage' = OnPage
    BY DEF Fail, OnPage
<1>2. "reset" \in ToSet(timers') <=> "reset" \in ToSet(timers)
    <2>1. CASE use = "query"
        BY <1>1, <2>1 DEF Uncover
    <2>2. CASE use # "query"
        <3>1. timers' = timers \o <<"loaded">>
            BY <1>1, <2>2 DEF Uncover
        <3>2. ToSet(timers') = ToSet(timers) \cup {"loaded"}
            BY <3>1, AppendAdds, NewTasks DEF Inv
        <3> QED BY <3>2
    <2> QED BY <2>1, <2>2
<1>3. Types'
    <2>1. mixed' \subseteq Surprises
        BY <1>1 DEF GridInv, Types, Surprises
    <2> QED BY <1>1, <2>1 DEF GridInv, Types
<1>4. PickInv' /\ UseInv'
    BY <1>1 DEF GridInv, PickInv, UseInv, Together
<1>5. HiddenInv'
    <2>1. "overlap" \notin mixed => net' = {}
        BY <1>1 DEF Inv, OneRequest
    <2> QED BY <1>1, <2>1 DEF GridInv, HiddenInv
<1>6. Excess' = Excess /\ Grid'.rows = Grid.rows /\ Grid'.log = Grid.log /\ Grid'.total = Grid.total
    BY <1>1 DEF Excess, Grid
<1>7. LogInv'
    BY <1>1, <1>2, <1>6 DEF GridInv, LogInv, Counts, Tells
<1> QED BY <1>3, <1>4, <1>5, <1>7 DEF GridInv

\* The log starts with the rows that were loaded.
LEMMA TimerGrid ==
    ASSUME GridInv, Inv, Timer
    PROVE  GridInv'
<1>1. /\ ~broken /\ timers # <<>> /\ timers' = Tail(timers)
      /\ use' = use /\ opts' = opts /\ rows' = rows /\ total' = total /\ pick' = pick
      /\ editing' = editing /\ query' = query /\ pageNumber' = pageNumber /\ net' = net
      /\ broken' = broken /\ base' = base /\ asked' = asked /\ shown' = shown /\ mixed' = mixed
      /\ OnPage' = OnPage
    BY DEF Timer, OnPage
<1>2. timers \in Seq(Tasks)
    BY DEF Inv
<1>3. Head(timers) \in Tasks /\ ToSet(timers) = {Head(timers)} \cup ToSet(timers')
    BY <1>1, <1>2, TailKeeps
<1>4. PickInv' /\ UseInv'
    BY <1>1 DEF GridInv, PickInv, UseInv, Together
<1>5. CASE Head(timers) = "loaded"
    <2>1. mask' = FALSE /\ original' = original /\ log' = log
        BY <1>5 DEF Timer
    <2>2. Types'
        BY <1>1, <2>1 DEF GridInv, Types
    <2>3. HiddenInv'
        BY <1>1, <1>3, <1>5 DEF GridInv, HiddenInv
    <2>4. "reset" \in ToSet(timers') <=> "reset" \in ToSet(timers)
        BY <1>3, <1>5
    <2>5. Excess' = Excess /\ Grid'.rows = Grid.rows /\ Grid'.log = Grid.log /\ Grid'.total = Grid.total
        BY <1>1, <2>1 DEF Excess, Grid
    <2>6. LogInv'
        BY <1>1, <2>1, <2>4, <2>5 DEF GridInv, LogInv, Counts, Tells
    <2> QED BY <1>4, <2>2, <2>3, <2>6 DEF GridInv
<1>6. CASE Head(timers) = "reset"
    <2>1. mask' = mask /\ original' = rows /\ log' = EmptyLog
        BY <1>6 DEF Timer, Reset
    <2>2. Types'
        BY <1>1, <2>1, LogsStart DEF GridInv, Types
    <2>3. HiddenInv'
        BY <1>1, <1>3, <2>1 DEF GridInv, HiddenInv
    <2>4. LogInv'
        <3> SUFFICES ASSUME use = "edit", "late" \notin mixed, "reset" \notin ToSet(timers')
                     PROVE  Counts(Grid', base', Excess') /\ Tells(Grid', base')
            BY <1>1, <1>3, <1>6 DEF GridInv, LogInv
        <3>1. rows = base /\ rows = PageOf(query, 1) /\ total = Total(query) /\ shown # 0
            BY <1>1, <1>3, <1>6 DEF GridInv, LogInv
        <3>2. /\ Grid'.rows = rows /\ Grid'.log = EmptyLog /\ Grid'.total = Total(query) /\ base' = rows
              /\ Excess' = Total(query) - Len(rows)
            BY <1>1, <2>1, <3>1 DEF Grid, Excess
        <3>3. EmptyLog.ins = {} /\ EmptyLog.del = {} /\ EmptyLog.aged = 0
            BY DEF EmptyLog
        <3>4. \A S : S \ S = {}
            OBVIOUS
        <3>5. Counts(Grid', base', Excess')
            BY <3>2, <3>3, <3>4, Zenon DEF Counts
        <3>6. Tells(Grid', base')
            BY <3>2 DEF Tells
        <3> QED BY <3>5, <3>6
    <2> QED BY <1>4, <2>2, <2>3, <2>4 DEF GridInv
<1> QED BY <1>3, <1>5, <1>6 DEF Tasks

-----------------------------------------------------------------------------
(* Editing keeps it.                                                         *)

LEMMA GridIsGrid ==
    ASSUME GridInv
    PROVE  /\ Grid \in Grids /\ Grid.rows = rows /\ Grid.total = total /\ Grid.pick = pick
           /\ Grid.editing = editing /\ Grid.log = log
<1>1. rows \in Distinct /\ total \in Int /\ pick \in Picks /\ editing \subseteq Ids /\ log \in Logs
    BY RowsOf DEF GridInv, Types, OnPage
<1> QED BY <1>1 DEF Grid, Grids

\* What an edit makes of the grid: its log still tells, unless the edit was silent.
Sound(g, why) ==
    /\ g \in Grids /\ g.editing \subseteq IdSet(g.rows) /\ Fits(g.pick, IdSet(g.rows))
    /\ Counts(Grid, base, Excess) => Counts(g, base, Excess)
    /\ Counts(Grid, base, Excess) /\ Tells(Grid, base) /\ "silent" \notin why => Tells(g, base)

LEMMA EditedGrid ==
    ASSUME GridInv, use = "edit", NEW g, NEW why \in SUBSET {"silent"}, Edited(g, why), Sound(g, why)
    PROVE  GridInv'
<1>1. /\ ~broken /\ "late" \notin mixed
      /\ rows' = g.rows /\ total' = g.total /\ pick' = g.pick /\ editing' = g.editing /\ log' = g.log
      /\ use' = use /\ opts' = opts /\ original' = original /\ broken' = broken /\ base' = base
      /\ query' = query /\ pageNumber' = pageNumber /\ net' = net /\ timers' = timers /\ mask' = mask
      /\ asked' = asked /\ shown' = shown /\ OnPage' = IdSet(g.rows)
    BY DEF Edited, loading, OnPage
<1>2. /\ mixed' \subseteq Surprises /\ mixed \cup why \subseteq mixed'
      /\ "reset" \in ToSet(timers) => "late" \in mixed'
    <2>1. mixed' = mixed \cup why \cup (IF "reset" \in ToSet(timers) THEN {"late"} ELSE {})
        BY DEF Edited
    <2>2. mixed \subseteq Surprises
        BY DEF GridInv, Types
    <2> QED BY <2>1, <2>2 DEF Surprises
<1>3. /\ g.rows \in Distinct /\ g.total \in Int /\ g.pick \in Picks /\ g.log \in Logs
      /\ g.pick.lit \subseteq IdSet(g.rows) /\ g.pick.tick \subseteq IdSet(g.rows)
      /\ g.editing \subseteq IdSet(g.rows)
    BY DEF Sound, Grids, Fits
<1>4. Types'
    BY <1>1, <1>2, <1>3 DEF GridInv, Types
<1>5. PickInv' /\ HiddenInv' /\ UseInv'
    BY <1>1 DEF GridInv, Types, PickInv, HiddenInv, UseInv, Together, Sound
<1>6. LogInv'
    <2> SUFFICES ASSUME "late" \notin mixed'
                 PROVE  /\ "reset" \notin ToSet(timers) /\ Counts(Grid', base', Excess')
                        /\ "silent" \notin mixed' => Tells(Grid', base')
        BY <1>1 DEF LogInv
    <2>1. "reset" \notin ToSet(timers)
        BY <1>2
    <2>2. Counts(Grid, base, Excess) /\ ("silent" \notin mixed => Tells(Grid, base))
        BY <1>1, <2>1 DEF GridInv, LogInv
    <2>3. Counts(g, base, Excess) /\ ("silent" \notin mixed' => Tells(g, base))
        BY <1>2, <2>2 DEF Sound
    <2>4. Grid'.rows = g.rows /\ Grid'.log = g.log /\ Grid'.total = g.total /\ base' = base /\ Excess' = Excess
        BY <1>1 DEF Grid, Excess
    <2> QED BY <2>1, <2>3, <2>4 DEF Counts, Tells
<1> QED BY <1>4, <1>5, <1>6 DEF GridInv

LEMMA MarkedSound ==
    ASSUME GridInv, ~broken, NEW e \in SUBSET OnPage
    PROVE  Sound([Grid EXCEPT !.editing = e], {})
<1> DEFINE g == [Grid EXCEPT !.editing = e]
<1>1. Grid \in Grids /\ Grid.rows = rows /\ Grid.pick = pick
    BY GridIsGrid
<1>2. e \subseteq Ids
    BY RowsOf DEF GridInv, Types, OnPage
<1>3. g \in Grids /\ g.rows = rows /\ g.pick = pick /\ g.editing = e /\ g.log = Grid.log /\ g.total = Grid.total
    BY <1>1, <1>2 DEF Grids
<1> HIDE DEF g
<1>4. Fits(g.pick, IdSet(g.rows))
    BY <1>3 DEF GridInv, PickInv, OnPage
<1>5. /\ Counts(Grid, base, Excess) => Counts(g, base, Excess)
      /\ Tells(Grid, base) => Tells(g, base)
    BY <1>1, <1>3 DEF Counts, Tells
<1>6. Sound(g, {})
    BY <1>3, <1>4, <1>5 DEF Sound, OnPage
<1> QED BY <1>6 DEF g

LEMMA EndedSound ==
    ASSUME GridInv, ~broken, NEW i \in OnPage, NEW v \in Vals
    PROVE  Sound(Written(Grid, i, v), {})
<1> DEFINE h == Written(Grid, i, v)
<1>1. Grid \in Grids /\ Grid.rows = rows /\ Grid.pick = pick /\ Grid.editing = editing
    BY GridIsGrid
<1>2. i \in IdSet(Grid.rows)
    BY <1>1 DEF OnPage
<1>3. /\ Ended(h, Grid, i) /\ (Counts(Grid, base, Excess) => Counts(h, base, Excess))
      /\ Counts(Grid, base, Excess) /\ Tells(Grid, base) => Tells(h, base)
    BY <1>1, <1>2, WrittenEnds
<1> HIDE DEF h
<1>4. h \in Grids /\ h.pick = pick /\ h.editing \subseteq editing /\ IdSet(h.rows) = OnPage
    BY <1>1, <1>3 DEF Ended, OnPage
<1>5. Fits(pick, OnPage) /\ editing \subseteq OnPage
    BY DEF GridInv, PickInv, Types
<1>6. Sound(h, {})
    BY <1>3, <1>4, <1>5 DEF Sound
<1> QED BY <1>6 DEF h

LEMMA DeletedSound ==
    ASSUME GridInv, ~broken, NEW i \in OnPage
    PROVE  Sound(Deleted(Grid, i), {})
<1> DEFINE h == Deleted(Grid, i)
<1>1. Grid \in Grids /\ Grid.rows = rows /\ Grid.pick = pick /\ Grid.editing = editing
    BY GridIsGrid
<1>2. i \in IdSet(Grid.rows)
    BY <1>1 DEF OnPage
<1>3. /\ Gone(h, Grid, i) /\ (Counts(Grid, base, Excess) => Counts(h, base, Excess))
      /\ Counts(Grid, base, Excess) /\ Tells(Grid, base) => Tells(h, base)
    BY <1>1, <1>2, DeletedIsGone
<1> HIDE DEF h
<1>4. Fits(Grid.pick, IdSet(Grid.rows))
    BY <1>1 DEF GridInv, PickInv, OnPage
<1>5. Fits(h.pick, IdSet(h.rows))
    BY <1>3, <1>4, GoneFits
<1>6. h \in Grids /\ h.editing \subseteq IdSet(h.rows)
    BY <1>1, <1>3 DEF Gone, GridInv, Types, OnPage
<1>7. Sound(h, {})
    BY <1>3, <1>5, <1>6 DEF Sound
<1> QED BY <1>7 DEF h

LEMMA UpdatedSound ==
    ASSUME GridInv, ~broken, NEW i \in OnPage, NEW v \in Vals
    PROVE  Sound([Grid EXCEPT !.rows[IndexOf(rows, i)].val = v], {"silent"})
<1> DEFINE k == IndexOf(rows, i)
           t == [rows EXCEPT ![k].val = v]
           h == [Grid EXCEPT !.rows[k].val = v]
<1>1. Grid \in Grids /\ Grid.rows = rows /\ Grid.pick = pick /\ Grid.editing = editing
    BY GridIsGrid
<1>2. rows \in Distinct /\ i \in IdSet(rows)
    BY DEF GridInv, Types, OnPage
<1>3. k \in 1 .. Len(rows)
    BY <1>2, FoundRow
<1>4. t \in Distinct /\ Len(t) = Len(rows) /\ IdSet(t) = IdSet(rows)
    <2> HIDE DEF k
    <2> QED BY <1>2, <1>3, ChangedRow
<1>5. h = [Grid EXCEPT !.rows = t]
    BY <1>1
<1> HIDE DEF t, h
<1>6. /\ h \in Grids /\ h.rows = t /\ h.pick = pick /\ h.editing = editing /\ h.log = Grid.log
      /\ h.total = Grid.total
    BY <1>1, <1>4, <1>5 DEF Grids
<1>7. Fits(h.pick, IdSet(h.rows)) /\ h.editing \subseteq IdSet(h.rows)
    BY <1>4, <1>6 DEF GridInv, PickInv, Types, OnPage
<1>8. Counts(Grid, base, Excess) => Counts(h, base, Excess)
    BY <1>1, <1>4, <1>6 DEF Counts
<1>9. Sound(h, {"silent"})
    BY <1>6, <1>7, <1>8 DEF Sound
<1> QED BY <1>9 DEF h

LEMMA InsertedSound ==
    ASSUME GridInv, ~broken, NEW r \in NewRows, NEW k \in 1 .. Len(rows) + 1,
           r.id \notin OnPage \cup IdSet(base) \cup pick.sel \cup pick.chk
    PROVE  Sound([Grid EXCEPT !.rows = InsertAt(@, k, r), !.total = @ + 1,
                              !.log.ins = @ \cup {r.id}], {})
<1> DEFINE t == InsertAt(rows, k, r)
           n == log.ins \cup {r.id}
           l == [log EXCEPT !.ins = n]
           h == [Grid EXCEPT !.rows = InsertAt(@, k, r), !.total = @ + 1, !.log.ins = @ \cup {r.id}]
<1>1. /\ Grid \in Grids /\ Grid.rows = rows /\ Grid.pick = pick /\ Grid.editing = editing
      /\ Grid.log = log /\ Grid.total = total
    BY GridIsGrid
<1>2. rows \in Distinct /\ r \in Row /\ r.id \in Ids /\ r.id \notin IdSet(rows) /\ Len(rows) \in Nat
    <2>1. rows \in Distinct
        BY DEF GridInv, Types
    <2>2. Len(rows) \in Nat
        BY <2>1, RowsOf
    <2> QED BY <2>1, <2>2, DataGridAssumption DEF OnPage, Row
<1>3. /\ t \in Distinct /\ Len(t) = Len(rows) + 1
      /\ IdSet(t) = IdSet(rows) \cup {r.id} /\ ToSet(t) = ToSet(rows) \cup {r}
    BY <1>2, InsertedRow
<1>4. l \in Logs /\ l.ins = n /\ l.upd = log.upd /\ l.del = log.del /\ l.aged = log.aged
    <2>1. log \in Logs
        BY DEF GridInv, Types
    <2>2. n \in Some
        BY <1>2, <2>1, FS_AddElement DEF Some, Logs
    <2> QED BY <2>1, <2>2 DEF Logs
<1>5. h = [Grid EXCEPT !.rows = t, !.total = total + 1, !.log = l]
    BY <1>1
<1> HIDE DEF t, l, h
<1>6. total \in Int /\ total + 1 \in Int
    BY DEF GridInv, Types
<1>7. /\ h \in Grids /\ h.rows = t /\ h.pick = pick /\ h.editing = editing /\ h.log = l
      /\ h.total = total + 1
    BY <1>1, <1>3, <1>4, <1>5, <1>6 DEF Grids
<1>8. Fits(h.pick, IdSet(h.rows)) /\ h.editing \subseteq IdSet(h.rows)
    <2>1. Fits(pick, IdSet(rows)) /\ editing \subseteq IdSet(rows)
        BY DEF GridInv, PickInv, Types, OnPage
    <2> QED BY <1>3, <1>7, <2>1 DEF Fits
<1>9. ASSUME Counts(Grid, base, Excess) PROVE Counts(h, base, Excess)
    <2>1. /\ log.aged = 0 /\ log.ins = IdSet(rows) \ IdSet(base) /\ log.del = IdSet(base) \ IdSet(rows)
          /\ total - Len(rows) = Excess
        BY <1>1, <1>9 DEF Counts
    <2>2. /\ n = IdSet(t) \ IdSet(base) /\ log.del = IdSet(base) \ IdSet(t)
        BY <1>3, <2>1
    <2>3. total + 1 - Len(t) = Excess
        BY <1>2, <1>3, <1>6, <2>1
    <2> HIDE DEF n
    <2>4. h.log.aged = 0 /\ h.log.ins = n /\ h.log.del = log.del /\ h.rows = t /\ h.total = total + 1
        BY <1>4, <1>7, <2>1
    <2>5. h.log.ins = IdSet(h.rows) \ IdSet(base)
        BY <2>2, <2>4, Zenon
    <2>6. h.log.del = IdSet(base) \ IdSet(h.rows)
        BY <2>2, <2>4, Zenon
    <2>7. h.total - Len(h.rows) = Excess
        <3>1. Len(h.rows) = Len(t) /\ h.total = total + 1
            BY <2>4
        <3>2. h.total - Len(h.rows) = total + 1 - Len(t)
            BY <1>2, <1>3, <1>6, <3>1
        <3> QED BY <2>3, <3>2
    <2> QED BY <2>4, <2>5, <2>6, <2>7, Zenon DEF Counts
<1>10. Tells(Grid, base) => Tells(h, base)
    BY <1>1, <1>3, <1>4, <1>7 DEF Tells
<1>11. Sound(h, {})
    BY <1>7, <1>8, <1>9, <1>10 DEF Sound
<1> QED BY <1>11 DEF h

LEMMA EditsGrid ==
    ASSUME GridInv, use = "edit", NEW i,
           \/ BeginEdit(i) \/ CancelEdit(i) \/ DeleteRow(i)
           \/ \E v \in Vals : EndEdit(i, v) \/ UpdateRow(i, v)
           \/ \E r \in NewRows, k \in 1 .. Len(rows) + 1 : InsertRow(k, r)
    PROVE  GridInv'
<1>1. Grid.editing = editing /\ editing \subseteq OnPage
    BY GridIsGrid DEF GridInv, Types
<1>2. {} \in SUBSET {"silent"} /\ {"silent"} \in SUBSET {"silent"}
    OBVIOUS
<1>3. \A g, why : Edited(g, why) => ~broken
    BY DEF Edited
<1>4. CASE BeginEdit(i)
    <2>1. i \in OnPage /\ Edited([Grid EXCEPT !.editing = editing \cup {i}], {})
        BY <1>1, <1>4 DEF BeginEdit
    <2>2. Sound([Grid EXCEPT !.editing = editing \cup {i}], {})
        BY <1>1, <1>3, <2>1, MarkedSound
    <2> QED BY <1>2, <2>1, <2>2, EditedGrid
<1>5. CASE CancelEdit(i)
    <2>1. Edited([Grid EXCEPT !.editing = editing \ {i}], {})
        BY <1>1, <1>5 DEF CancelEdit
    <2>2. editing \ {i} \subseteq OnPage
        BY <1>1
    <2>3. Sound([Grid EXCEPT !.editing = editing \ {i}], {})
        BY <1>3, <2>1, <2>2, MarkedSound
    <2> QED BY <1>2, <2>1, <2>3, EditedGrid
<1>6. CASE DeleteRow(i)
    <2>1. i \in OnPage /\ Edited(Deleted(Grid, i), {})
        BY <1>6 DEF DeleteRow
    <2>2. Sound(Deleted(Grid, i), {})
        BY <1>3, <2>1, DeletedSound
    <2> QED BY <1>2, <2>1, <2>2, EditedGrid
<1>7. ASSUME NEW v \in Vals, EndEdit(i, v) PROVE GridInv'
    <2>1. i \in OnPage /\ Edited(Written(Grid, i, v), {})
        BY <1>1, <1>7 DEF EndEdit
    <2>2. Sound(Written(Grid, i, v), {})
        BY <1>3, <1>7, <2>1, EndedSound
    <2> QED BY <1>2, <2>1, <2>2, EditedGrid
<1>8. ASSUME NEW v \in Vals, UpdateRow(i, v) PROVE GridInv'
    <2>1. i \in OnPage /\ Edited([Grid EXCEPT !.rows[IndexOf(rows, i)].val = v], {"silent"})
        BY <1>8 DEF UpdateRow
    <2>2. Sound([Grid EXCEPT !.rows[IndexOf(rows, i)].val = v], {"silent"})
        BY <1>3, <1>8, <2>1, UpdatedSound
    <2> QED BY <1>2, <2>1, <2>2, EditedGrid
<1>9. ASSUME NEW r \in NewRows, NEW k \in 1 .. Len(rows) + 1, InsertRow(k, r) PROVE GridInv'
    <2>1. /\ r.id \notin OnPage \cup IdSet(base) \cup pick.sel \cup pick.chk
          /\ Edited([Grid EXCEPT !.rows = InsertAt(@, k, r), !.total = @ + 1,
                                 !.log.ins = @ \cup {r.id}], {})
        BY <1>9 DEF InsertRow
    <2>2. Sound([Grid EXCEPT !.rows = InsertAt(@, k, r), !.total = @ + 1,
                             !.log.ins = @ \cup {r.id}], {})
        BY <1>3, <1>9, <2>1, InsertedSound
    <2> QED BY <1>2, <2>1, <2>2, EditedGrid
<1> QED BY <1>4, <1>5, <1>6, <1>7, <1>8, <1>9

\* The selected rows of a list are deleted.
LEMMA DeleteSelectedGrid ==
    ASSUME GridInv, use # "edit", DeleteSelectedRows
    PROVE  GridInv'
<1> DEFINE g0 == [Grid EXCEPT !.pick = Cleared(@)]
           c  == [s |-> rows, sel |-> pick.sel, g |-> g0]
           g  == Lost(c)
<1>0. Edited(g, Boxes)
    <2> DEFINE One(x, r) ==
                   IF r.id \notin pick.sel THEN x
                   ELSE Deleted([x EXCEPT !.pick = Selecting(@, IdSet(x.rows), r.id, FALSE)], r.id)
    <2>1. Edited(FoldLeft(One, g0, rows), Boxes)
        BY Zenon DEF DeleteSelectedRows
    <2>2. FoldLeft(One, g0, rows) = Lost(c)
        BY DEF Lost, LoseOp, FoldLeft, MapThenFoldSet
    <2>3. \A x, y : Edited(x, Boxes) /\ x = y => Edited(y, Boxes)
        OBVIOUS
    <2> QED BY <2>1, <2>2, <2>3, Zenon
<1>1. /\ Grid \in Grids /\ Grid.rows = rows /\ Grid.total = total /\ Grid.pick = pick
      /\ Grid.editing = editing
    BY GridIsGrid
<1>2. /\ ~mask /\ ~broken
      /\ rows' = g.rows /\ total' = g.total /\ pick' = g.pick /\ editing' = g.editing /\ log' = g.log
      /\ use' = use /\ opts' = opts /\ original' = original /\ broken' = broken /\ base' = base
      /\ query' = query /\ pageNumber' = pageNumber /\ net' = net /\ timers' = timers /\ mask' = mask
      /\ asked' = asked /\ shown' = shown /\ OnPage' = IdSet(g.rows)
    BY <1>0 DEF Edited, loading, OnPage
<1>3. mixed' \subseteq Surprises /\ mixed \cup Boxes \subseteq mixed'
    <2>1. mixed' = mixed \cup Boxes \cup (IF "reset" \in ToSet(timers) THEN {"late"} ELSE {})
        BY <1>0 DEF Edited
    <2>2. mixed \subseteq Surprises /\ Boxes \subseteq Surprises
        BY DEF GridInv, Types, Boxes, Surprises
    <2> QED BY <2>1, <2>2 DEF Surprises
<1>4. pick \in Picks /\ Fits(pick, OnPage) /\ opts \in Options /\ editing \subseteq OnPage
    BY <1>2, OptsAreOptions DEF GridInv, Types, PickInv
<1>5. /\ Cleared(pick) \in Picks /\ Fits(Cleared(pick), OnPage) /\ Cleared(pick).sel = {}
      /\ Together /\ pick.chk \subseteq OnPage => Cleared(pick).chk = {}
    BY <1>4, ClearedFits
<1>6. /\ g0 \in Grids /\ g0.rows = rows /\ g0.pick = Cleared(pick) /\ g0.editing = editing
      /\ g0.total = total
    BY <1>1, <1>5 DEF Grids
<1>7. LoseInv(c, DOMAIN rows, g)
    <2>1. Fits(g0.pick, IdSet(g0.rows)) /\ g0.pick.sel \subseteq IdSet(g0.rows) /\ g0.editing \subseteq IdSet(g0.rows)
        BY <1>4, <1>5, <1>6 DEF OnPage
    <2> HIDE DEF g0
    <2> QED BY <1>4, <1>6, <2>1, SelectedAreLost
<1> HIDE DEF g
<1>8. /\ g \in Grids /\ Fits(g.pick, IdSet(g.rows)) /\ g.pick.sel \subseteq IdSet(g.rows)
      /\ g.editing \subseteq IdSet(g.rows) /\ g.total - Len(g.rows) = g0.total - Len(g0.rows)
      /\ Together /\ g0.pick.sel = g0.pick.chk => g.pick.sel = g.pick.chk
    BY <1>7 DEF LoseInv
<1> HIDE DEF g0
<1>9. /\ g.rows \in Distinct /\ g.total \in Int /\ g.pick \in Picks /\ g.log \in Logs
      /\ g.pick.lit \subseteq IdSet(g.rows) /\ g.pick.tick \subseteq IdSet(g.rows)
    BY <1>8 DEF Grids, Fits
<1>10. Types'
    BY <1>2, <1>3, <1>8, <1>9 DEF GridInv, Types
<1>11. PickInv'
    <2>1. Together' = Together
        BY <1>2 DEF Together
    <2>2. ASSUME Together, "boxes" \notin mixed' PROVE pick'.sel = pick'.chk
        <3>1. pick.chk \subseteq OnPage
            BY <1>3, <2>2 DEF Boxes
        <3> QED BY <1>2, <1>5, <1>6, <1>8, <2>2, <3>1
    <2> QED BY <1>2, <1>8, <2>1, <2>2 DEF PickInv
<1>12. HiddenInv'
    <2> SUFFICES ASSUME use = "list", mixed' \cap {"kept", "paged", "overlap"} = {}
                 PROVE  net = {}
        BY <1>2, <1>8 DEF HiddenInv
    <2>1. mixed \cap {"kept", "paged", "overlap"} = {}
        BY <1>3
    <2> QED BY <1>2, <2>1 DEF GridInv, HiddenInv
<1>13. UseInv'
    <2>1. Len(rows) <= total /\ total \in Int /\ Len(rows) \in Nat /\ Len(g.rows) \in Nat
        BY <1>9, RowsOf DEF GridInv, UseInv, Types
    <2>2. Len(g.rows) <= g.total
        BY <1>6, <1>8, <1>9, <2>1
    <2> QED BY <1>2, <2>2 DEF GridInv, UseInv
<1>14. LogInv'
    BY <1>2 DEF LogInv
<1> QED BY <1>10, <1>11, <1>12, <1>13, <1>14 DEF GridInv

\* The changes are accepted: the rows shown are the ones to go back to, unless a
\* row is still edited.
LEMMA AcceptGrid ==
    ASSUME GridInv, Inv, use = "edit", NEW ed, \A i \in editing : ed[i] \in Vals \cup {Invalid},
           AcceptChanges(ed)
    PROVE  GridInv'
<1> DEFINE c == [s |-> rows, editing |-> editing, ed |-> ed, g |-> Grid, b |-> base, x |-> Excess]
           g == Ends(c)
           ok == \A i \in editing : ed[i] # Invalid
<1>0. /\ rows' = g.rows /\ editing' = {i \in editing : ed[i] = Invalid}
      /\ ~mask /\ ~broken /\ "late" \notin mixed
      /\ IF ok THEN /\ original' = g.rows /\ log' = EmptyLog
                    /\ base' = g.rows /\ mixed' = mixed \ {"silent"} /\ asked' = asked + 1
               ELSE log' = g.log /\ UNCHANGED <<original, base, mixed, asked>>
      /\ use' = use /\ opts' = opts /\ total' = total /\ pick' = pick /\ broken' = broken
      /\ query' = query /\ pageNumber' = pageNumber /\ net' = net /\ timers' = timers /\ mask' = mask
      /\ shown' = shown
    <2> DEFINE One(x, r) == IF r.id \in editing /\ ed[r.id] # Invalid THEN Written(x, r.id, ed[r.id]) ELSE x
               h == FoldLeft(One, Grid, rows)
    <2>1. h = g
        BY DEF Ends, EndOp, FoldLeft, MapThenFoldSet
    <2>2. /\ rows' = h.rows /\ editing' = {i \in editing : ed[i] = Invalid}
          /\ ~mask /\ ~broken /\ "late" \notin mixed
          /\ IF ok THEN /\ original' = h.rows /\ log' = EmptyLog
                        /\ base' = h.rows /\ mixed' = mixed \ {"silent"}
                        /\ asked < MaxAsked[use] /\ asked' = asked + 1
                   ELSE log' = h.log /\ UNCHANGED <<original, base, mixed, asked>>
          /\ UNCHANGED <<use, opts, total, pick, broken, query, pageNumber, net, timers, mask, shown>>
        BY Zenon DEF AcceptChanges
    <2> HIDE DEF h, g, ok
    <2> QED BY <2>1, <2>2
<1>1. /\ Grid \in Grids /\ Grid.rows = rows /\ Grid.total = total /\ Grid.pick = pick
      /\ Grid.editing = editing /\ Grid.log = log
    BY GridIsGrid
<1>2. EndInv(c, DOMAIN rows, g)
    BY <1>1, ValidAreEnded
<1> HIDE DEF g
<1>3. /\ g \in Grids /\ g.total = total /\ Len(g.rows) = Len(rows) /\ IdSet(g.rows) = OnPage
      /\ Counts(Grid, base, Excess) => Counts(g, base, Excess)
      /\ Counts(Grid, base, Excess) /\ Tells(Grid, base) => Tells(g, base)
      /\ editing = {} => g.rows = rows
    BY <1>1, <1>2 DEF EndInv, OnPage
<1>4. g.rows \in Distinct /\ g.log \in Logs
    BY <1>3 DEF Grids
<1>5. OnPage' = OnPage
    BY <1>0, <1>3 DEF OnPage
<1>6. Types'
    <2>1. original' \in Distinct /\ log' \in Logs /\ base' \in Distinct /\ mixed' \subseteq Surprises
        BY <1>0, <1>4, LogsStart DEF GridInv, Types
    <2>2. asked \in Nat /\ asked' \in Nat /\ asked <= asked' /\ shown \in 0 .. asked
        BY <1>0 DEF GridInv, Types
    <2>3. shown' \in 0 .. asked' /\ 1 .. asked \subseteq 1 .. asked'
        BY <1>0, <2>2
    <2>4. net' \subseteq [nr : 1 .. asked', query : Queries, page : Pages]
        <3> HIDE DEF c
        <3>1. net \subseteq [nr : 1 .. asked, query : Queries, page : Pages]
            BY DEF GridInv, Types
        <3>2. \A r \in [nr : 1 .. asked, query : Queries, page : Pages] :
                    r \in [nr : 1 .. asked', query : Queries, page : Pages]
            BY <2>3
        <3> QED BY <1>0, <3>1, <3>2
    <2> QED BY <1>0, <1>4, <1>5, <2>1, <2>2, <2>3, <2>4 DEF GridInv, Types
<1>7. PickInv' /\ HiddenInv' /\ UseInv'
    BY <1>0, <1>5 DEF GridInv, Types, PickInv, HiddenInv, UseInv, Together
<1>8. Excess' = Excess /\ Grid'.rows = g.rows /\ Grid'.total = g.total /\ Grid'.log = log'
    BY <1>0, <1>3 DEF Excess, Grid
<1>9. CASE ok
    <2>1. log' = EmptyLog /\ base' = g.rows
        BY <1>0, <1>9
    <2>2. CASE "reset" \in ToSet(timers)
        <3>1. rows = base /\ editing = {}
            BY <1>0, <2>2 DEF Inv, OriginalInv
        <3>2. rows = PageOf(query, 1) /\ total = Total(query) /\ shown # 0
            BY <1>0, <2>2 DEF GridInv, LogInv
        <3>3. rows' = base' /\ rows' = rows
            BY <1>0, <1>3, <2>1, <3>1
        <3>4. LogInv'
            BY <1>0, <2>2, <3>2, <3>3 DEF LogInv
        <3> QED BY <1>6, <1>7, <3>4 DEF GridInv
    <2>3. CASE "reset" \notin ToSet(timers)
        <3>1. Counts(Grid, base, Excess)
            BY <1>0, <2>3 DEF GridInv, LogInv
        <3>2. g.total - Len(g.rows) = Excess
            BY <1>3, <3>1 DEF Counts
        <3>3. /\ EmptyLog.ins = {} /\ EmptyLog.del = {} /\ EmptyLog.aged = 0
              /\ \A S : S \ S = {}
            BY DEF EmptyLog
        <3>4. Grid'.log = EmptyLog
            BY <1>8, <2>1
        <3>5. Counts(Grid', base', Excess')
            <4>1. Grid'.log.aged = 0 /\ Grid'.log.ins = {} /\ Grid'.log.del = {}
                BY <3>3, <3>4
            <4>2. Grid'.total - Len(Grid'.rows) = Excess'
                BY <1>8, <3>2
            <4>3. IdSet(Grid'.rows) \ IdSet(base') = {} /\ IdSet(base') \ IdSet(Grid'.rows) = {}
                BY <1>8, <2>1
            <4> QED BY <4>1, <4>2, <4>3 DEF Counts
        <3>6. Tells(Grid', base')
            BY <1>8, <2>1 DEF Tells
        <3>7. LogInv'
            BY <1>0, <2>3, <3>5, <3>6 DEF LogInv
        <3> QED BY <1>6, <1>7, <3>7 DEF GridInv
    <2> QED BY <2>2, <2>3
<1>10. CASE ~ok
    <2>1. log' = g.log /\ base' = base /\ mixed' = mixed
        BY <1>0, <1>10
    <2>2. "reset" \notin ToSet(timers)
        BY <1>0, <1>10 DEF Inv, OriginalInv
    <2>3. Counts(g, base, Excess) /\ ("silent" \notin mixed => Tells(g, base))
        BY <1>0, <1>3, <2>2 DEF GridInv, LogInv
    <2>4. Counts(Grid', base', Excess') /\ ("silent" \notin mixed' => Tells(Grid', base'))
        BY <1>8, <2>1, <2>3 DEF Counts, Tells
    <2>5. LogInv'
        BY <1>0, <2>1, <2>2, <2>4 DEF LogInv
    <2> QED BY <1>6, <1>7, <2>5 DEF GridInv
<1> QED BY <1>9, <1>10

\* Rows are counted by their ids.
LEMMA RowsCounted ==
    ASSUME NEW s \in Distinct
    PROVE  IsFiniteSet(IdSet(s)) /\ Cardinality(IdSet(s)) = Len(s)
<1> DEFINE n == Len(s)
           f == [k \in 1 .. n |-> s[k].id]
<1>1. /\ n \in Nat /\ DOMAIN s = 1 .. n /\ \A k \in 1 .. n : s[k].id \in IdSet(s)
      /\ \A j, k \in 1 .. n : s[j].id = s[k].id => j = k
    BY RowsOf
<1>2. IsFiniteSet(1 .. n) /\ Cardinality(1 .. n) = n
    <2>1. IsFiniteSet(1 .. n) /\ Cardinality(1 .. n) = IF 1 > n THEN 0 ELSE n - 1 + 1
        BY <1>1, FS_Interval
    <2> HIDE DEF n
    <2> QED BY <1>1, <2>1
<1> HIDE DEF n
<1>3. f \in Surjection(1 .. n, IdSet(s))
    BY <1>1 DEF Surjection, IdSet
<1>4. f \in Injection(1 .. n, IdSet(s))
    BY <1>1 DEF Injection, IsInjective
<1> HIDE DEF f
<1>5. IsFiniteSet(IdSet(s)) /\ Cardinality(IdSet(s)) = Cardinality(1 .. n)
    BY <1>2, <1>3, <1>4, FS_Surjection
<1> QED BY <1>2, <1>5 DEF n

LEMMA RowsBalance ==
    ASSUME NEW s \in Distinct, NEW b \in Distinct
    PROVE  Len(s) + Cardinality(IdSet(b) \ IdSet(s)) - Cardinality(IdSet(s) \ IdSet(b)) = Len(b)
<1> DEFINE S == IdSet(s)
           B == IdSet(b)
           m == Cardinality(S \cap B)
<1>1. /\ IsFiniteSet(S) /\ IsFiniteSet(B) /\ Cardinality(S) = Len(s) /\ Cardinality(B) = Len(b)
      /\ Len(s) \in Nat /\ Len(b) \in Nat
    BY RowsCounted, RowsOf
<1> HIDE DEF S, B
<1>2. /\ Cardinality(S \ B) = Cardinality(S) - Cardinality(S \cap B)
      /\ Cardinality(B \ S) = Cardinality(B) - Cardinality(B \cap S)
    BY <1>1, FS_Difference
<1>3. B \cap S = S \cap B /\ IsFiniteSet(S \cap B)
    BY <1>1, FS_Intersection
<1>4. m \in Nat
    BY <1>3, FS_CardinalityType
<1>5. Cardinality(S \ B) = Len(s) - m /\ Cardinality(B \ S) = Len(b) - m
    BY <1>1, <1>2, <1>3
<1> HIDE DEF m
<1> QED BY <1>1, <1>4, <1>5 DEF S, B

\* The rows are put back, and with them what was remembered of them.
LEMMA RejectGrid ==
    ASSUME GridInv, Inv, use = "edit", RejectChanges
    PROVE  GridInv'
<1> DEFINE P    == IdSet(original)
           lost == ~(pick.sel \cup pick.chk \subseteq P)
           o    == [pick EXCEPT !.sel = {}, !.chk = {}]
           none == Reselected(o, original)
           sels == SelectEach(none, P, pick.sel)
           q    == CheckEach(sels, P, pick.chk)
<1>1. /\ ~mask /\ ~broken /\ "late" \notin mixed
      /\ rows' = original /\ total' = total + More(log) /\ editing' = {} /\ broken' = lost
      /\ mixed' = (mixed \ {"silent"}) \cup (IF "reset" \in ToSet(timers) THEN {"late"} ELSE {})
      /\ use' = use /\ opts' = opts /\ original' = original /\ base' = base
      /\ query' = query /\ pageNumber' = pageNumber /\ net' = net /\ timers' = timers /\ mask' = mask
      /\ asked' = asked /\ shown' = shown
    BY DEF RejectChanges, loading
<1>2. IF lost THEN pick' = none /\ log' = Aged(log) ELSE pick' = q /\ log' = EmptyLog
    BY Zenon DEF RejectChanges, SelectEach, CheckEach
<1>3. /\ original \in Distinct /\ pick \in Picks /\ opts \in Options /\ log \in Logs /\ total \in Int
      /\ rows \in Distinct /\ base \in Distinct
    BY OptsAreOptions DEF GridInv, Types
<1>4. o \in Picks /\ o.sel = {} /\ o.chk = {}
    BY <1>3 DEF Picks
<1> HIDE DEF o
<1>5. Part(none, o, P, P)
    BY <1>3, <1>4, ReselectedFits
<1> HIDE DEF none
<1>6. none \in Picks /\ Fits(none, P)
    BY <1>5 DEF Part, Fits
<1>7. IsFiniteSet(P) /\ P \in SUBSET Ids
    BY <1>3, RowsCounted, RowsOf
<1> HIDE DEF P
<1>8. ~lost => q \in Picks /\ Fits(q, P)
    <2> SUFFICES ASSUME ~lost PROVE q \in Picks /\ Fits(q, P)
        OBVIOUS
    <2>1. pick.sel \in SUBSET P /\ pick.chk \in SUBSET P
        OBVIOUS
    <2>2. sels \in Picks /\ Fits(sels, P)
        BY <1>3, <1>6, <1>7, <2>1, SelectedBack
    <2> HIDE DEF sels
    <2> QED BY <1>7, <2>1, <2>2, CheckedBack
<1> HIDE DEF q
<1>9. pick' \in Picks /\ Fits(pick', P) /\ log' \in Logs /\ OnPage' = P
    BY <1>1, <1>2, <1>3, <1>6, <1>8, LogsStart DEF OnPage, P
<1>10. Types'
    <2>1. total' \in Int
        BY <1>1, <1>3, LogsStart
    <2>2. mixed' \subseteq Surprises
        BY <1>1 DEF GridInv, Types, Surprises
    <2>3. pick'.lit \subseteq OnPage' /\ pick'.tick \subseteq OnPage' /\ editing' \subseteq OnPage'
        BY <1>1, <1>9 DEF Fits
    <2>4. broken' \in BOOLEAN
        BY <1>1
    <2> QED BY <1>1, <1>9, <2>1, <2>2, <2>3, <2>4 DEF GridInv, Types
<1>11. PickInv' /\ HiddenInv' /\ UseInv'
    BY <1>1, <1>9 DEF GridInv, Types, PickInv, HiddenInv, UseInv, Together
<1>12. LogInv'
    <2> SUFFICES ASSUME ~lost, "late" \notin mixed'
                 PROVE  "reset" \notin ToSet(timers) /\ Counts(Grid', base', Excess') /\ Tells(Grid', base')
        BY <1>1 DEF LogInv
    <2>1. "reset" \notin ToSet(timers)
        BY <1>1
    <2>2. original = base /\ log' = EmptyLog
        BY <1>1, <1>2, <2>1 DEF Inv, OriginalInv
    <2>3. /\ log.aged = 0 /\ log.ins = IdSet(rows) \ IdSet(base) /\ log.del = IdSet(base) \ IdSet(rows)
          /\ total - Len(rows) = Excess
        BY <1>1, <2>1, GridIsGrid DEF GridInv, LogInv, Counts
    <2>4. total' - Len(base) = Excess
        <3> DEFINE d == Cardinality(log.del)
                   n == Cardinality(log.ins)
        <3>1. Len(rows) + d - n = Len(base)
            BY <1>3, <2>3, RowsBalance
        <3>2. d \in Nat /\ n \in Nat /\ Len(rows) \in Nat /\ Len(base) \in Nat
            BY <1>3, RowsOf, FS_CardinalityType DEF Logs, Some
        <3>3. total' = total + (0 + d - n)
            BY <1>1, <2>3 DEF More
        <3> HIDE DEF d, n
        <3> QED BY <1>3, <2>3, <3>1, <3>2, <3>3
    <2>5. Grid'.rows = base /\ Grid'.total = total' /\ Grid'.log = EmptyLog /\ base' = base /\ Excess' = Excess
        BY <1>1, <2>2 DEF Grid, Excess
    <2>6. Counts(Grid', base', Excess')
        <3>1. Grid'.log.aged = 0 /\ Grid'.log.ins = {} /\ Grid'.log.del = {}
            BY <2>5 DEF EmptyLog
        <3>2. Grid'.total - Len(Grid'.rows) = Excess'
            BY <2>4, <2>5
        <3>3. IdSet(Grid'.rows) \ IdSet(base') = {} /\ IdSet(base') \ IdSet(Grid'.rows) = {}
            BY <2>5
        <3> QED BY <3>1, <3>2, <3>3 DEF Counts
    <2>7. Tells(Grid', base')
        BY <2>5 DEF Tells
    <2> QED BY <2>1, <2>6, <2>7
<1> QED BY <1>10, <1>11, <1>12 DEF GridInv

LEMMA StepKeepsGrid ==
    ASSUME GridInv, Inv, [Next]_vars
    PROVE  GridInv'
<1>1. ASSUME NEW i, ClickRow(i) \/ ClickBox(i) \/ ClickHead PROVE GridInv'
    BY <1>1, ClicksGrid
<1>2. CASE use # "edit" /\ Listing
    <2>1. CASE \E q \in Queries, clear \in BOOLEAN : Load(q, clear)
        BY <1>2, <2>1, LoadGrid
    <2>2. CASE \E p \in Pages : GoPage(p)
        BY <1>2, <2>2, GoPageGrid
    <2>3. CASE DeleteSelectedRows
        BY <1>2, <2>3, DeleteSelectedGrid
    <2> QED BY <1>1, <1>2, <2>1, <2>2, <2>3, Zenon DEF Listing
<1>3. CASE use = "edit" /\ Editing
    <2>1. ASSUME NEW i, \/ BeginEdit(i) \/ CancelEdit(i) \/ DeleteRow(i)
                        \/ \E v \in Vals : EndEdit(i, v) \/ UpdateRow(i, v)
                        \/ \E r \in NewRows, k \in 1 .. Len(rows) + 1 : InsertRow(k, r)
          PROVE  GridInv'
        BY <1>3, <2>1, EditsGrid
    <2>2. ASSUME NEW v \in Vals, NEW bad \in SUBSET editing,
                 AcceptChanges([i \in editing |-> IF i \in bad THEN Invalid ELSE v])
          PROVE  GridInv'
        <3> DEFINE ed == [i \in editing |-> IF i \in bad THEN Invalid ELSE v]
        <3>1. \A i \in editing : ed[i] \in Vals \cup {Invalid}
            OBVIOUS
        <3>2. AcceptChanges(ed)
            BY <2>2
        <3> HIDE DEF ed
        <3> QED BY <1>3, <3>1, <3>2, AcceptGrid
    <2>3. ASSUME RejectChanges PROVE GridInv'
        BY <1>3, <2>3, RejectGrid
    <2>4. ASSUME Load(query, FALSE) PROVE GridInv'
        <3>1. query \in Queries
            BY DEF GridInv, Types
        <3> QED BY <2>4, <3>1, LoadGrid
    <2> QED BY <1>1, <1>3, <2>1, <2>2, <2>3, <2>4, Zenon DEF Editing
<1>4. CASE UNCHANGED vars
    <2>1. /\ use' = use /\ opts' = opts /\ rows' = rows /\ total' = total /\ pick' = pick
          /\ editing' = editing /\ original' = original /\ log' = log /\ query' = query
          /\ pageNumber' = pageNumber /\ net' = net /\ timers' = timers /\ mask' = mask
          /\ broken' = broken /\ base' = base /\ asked' = asked /\ shown' = shown /\ mixed' = mixed
          /\ OnPage' = OnPage
        BY <1>4 DEF vars, OnPage
    <2>2. Types'
        BY <2>1 DEF GridInv, Types
    <2>3. PickInv' /\ HiddenInv' /\ UseInv'
        BY <2>1 DEF GridInv, PickInv, HiddenInv, UseInv, Together
    <2>4. Excess' = Excess /\ Grid'.rows = Grid.rows /\ Grid'.log = Grid.log /\ Grid'.total = Grid.total
        BY <2>1 DEF Excess, Grid
    <2>5. LogInv'
        BY <2>1, <2>4 DEF GridInv, LogInv, Counts, Tells
    <2> QED BY <2>2, <2>3, <2>5 DEF GridInv
<1> QED BY <1>2, <1>3, <1>4, AnswerGrid, FailGrid, TimerGrid DEF Next

LEMMA GridInvHolds == Spec => [](Inv /\ GridInv)
BY InitHolds, GridStarts, StepKeeps, StepKeepsGrid, PTL DEF Spec

\* The log tells the difference of the rows shown to those last loaded or accepted.
LEMMA TellsDifference ==
    ASSUME GridInv, use = "edit", ~broken, mixed \cap {"late", "silent"} = {}, "reset" \notin ToSet(timers)
    PROVE  /\ Counts(Grid, base, Excess)
           /\ ToSet(rows) = {r \in ToSet(base) : r.id \notin log.del \cup log.upd}
                                \cup {r \in ToSet(rows) : r.id \in log.ins \cup log.upd}
<1>1. Counts(Grid, base, Excess) /\ Tells(Grid, base) /\ Grid.rows = rows /\ Grid.log = log
    BY GridIsGrid DEF GridInv, LogInv
<1>2. log.del = IdSet(base) \ IdSet(rows)
    BY <1>1 DEF Counts
<1>3. ASSUME NEW r \in ToSet(rows) PROVE r.id \in IdSet(rows)
    BY DEF ToSet, IdSet
<1>4. ASSUME NEW r \in ToSet(rows), r.id \notin log.ins \cup log.upd
      PROVE  r \in ToSet(base) /\ r.id \notin log.del \cup log.upd
    BY <1>1, <1>2, <1>3, <1>4 DEF Tells
<1>5. ASSUME NEW r \in ToSet(base), r.id \notin log.del \cup log.upd
      PROVE  r \in ToSet(rows)
    BY <1>1, <1>5 DEF Tells
<1> QED BY <1>1, <1>4, <1>5

-----------------------------------------------------------------------------
(* What the grid shows, remembers and logs.                                  *)

\* Rows, numbers and ids stay what they are: the page of a pager is one the
\* server has, what is highlighted, ticked or edited is on the page.
THEOREM GridTypes == Spec => []TypeOK
<1>1. Inv /\ GridInv => TypeOK
    <2> SUFFICES ASSUME Inv, GridInv PROVE TypeOK
        OBVIOUS
    <2>1. rows \in Seq(Row) /\ original \in Seq(Row) /\ base \in Seq(Row)
        BY DEF GridInv, Types, Distinct
    <2>2. pick.sel \subseteq Ids /\ pick.chk \subseteq Ids /\ pick.head \in BOOLEAN
        BY DEF GridInv, Types, Picks
    <2>3. log.ins \cup log.upd \cup log.del \subseteq Ids /\ log.aged \in Int
        BY DEF GridInv, Types, Logs, Some
    <2>4. timers \in Seq({"loaded", "reset"})
        BY DEF Inv, Tasks
    <2> QED BY <2>1, <2>2, <2>3, <2>4 DEF GridInv, Types, TypeOK, Surprises
<1> QED BY <1>1, GridInvHolds, PTL

\* What is highlighted and ticked on the page is what getSelections and getChecked
\* return of it: after a load the rows are found again by their ids, and every
\* click, edit and deletion keeps list and look together.
THEOREM LooksRemember == Spec => []LooksAsRemembered
<1>1. GridInv => LooksAsRemembered
    BY DEF GridInv, PickInv, Fits, LooksAsRemembered
<1> QED BY <1>1, GridInvHolds, PTL

\* Where selecting and checking go together a ticked row is a selected one, unless
\* the selection was cleared while rows of other pages were checked: only then do
\* the two lists differ.
THEOREM BoxesAlwaysAgree == Spec => []BoxesAgree
<1>1. GridInv => BoxesAgree
    <2> SUFFICES ASSUME GridInv, Together, "boxes" \notin mixed PROVE pick.tick = pick.lit
        BY DEF BoxesAgree, Together
    <2>1. use # "edit"
        BY DEF GridInv, Types, Together
    <2> QED BY <2>1 DEF GridInv, PickInv, UseInv, Fits
<1> QED BY <1>1, GridInvHolds, PTL

\* Where each query clears the selection nothing is selected that is not shown: from
\* the query to its answer the mask keeps clicks away.
THEOREM NothingHidden == Spec => []NoHiddenSelection
<1>1. GridInv => NoHiddenSelection
    BY DEF GridInv, HiddenInv, NoHiddenSelection
<1> QED BY <1>1, GridInvHolds, PTL

\* insertedRows, updatedRows and deletedRows tell the difference of the rows shown to
\* those last loaded or accepted, and the pager counts it.
THEOREM LogTells == Spec => []LogTellsChanges
<1>1. GridInv => LogTellsChanges
    <2> SUFFICES ASSUME GridInv, use = "edit", ~broken, mixed \cap {"late", "silent"} = {},
                        "reset" \notin ToSet(timers)
                 PROVE  /\ ToSet(rows) = {r \in ToSet(base) : r.id \notin log.del \cup log.upd}
                               \cup {r \in ToSet(rows) : r.id \in log.ins \cup log.upd}
                        /\ log.ins = OnPage \ IdSet(base)
                        /\ log.del = IdSet(base) \ OnPage
                        /\ total - Len(rows) = Excess
        BY Zenon DEF LogTellsChanges, Excess
    <2>1. Grid.rows = rows /\ Grid.log = log /\ Grid.total = total
        BY GridIsGrid
    <2>2. /\ Counts(Grid, base, Excess)
          /\ ToSet(rows) = {r \in ToSet(base) : r.id \notin log.del \cup log.upd}
                               \cup {r \in ToSet(rows) : r.id \in log.ins \cup log.upd}
        BY TellsDifference
    <2>3. /\ log.ins = IdSet(rows) \ IdSet(base) /\ log.del = IdSet(base) \ IdSet(rows)
          /\ total - Len(rows) = Excess
        BY <2>1, <2>2 DEF Counts
    <2> QED BY <2>2, <2>3, Zenon DEF OnPage
<1> QED BY <1>1, GridInvHolds, PTL

=============================================================================
