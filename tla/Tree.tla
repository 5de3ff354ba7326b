-------------------------------- MODULE Tree --------------------------------
(***************************************************************************)
(* A tree with check boxes: easyui/plugins/jquery.tree.js with             *)
(* easyui-extend-tree.js.  Folders are opened and closed, their children   *)
(* are loaded when they are opened first, boxes are ticked with the boxes  *)
(* above and below them, and nodes are added, removed and moved.  A node   *)
(* is its id.  Editing of titles, the selected node, the lines of the tree *)
(* and the option onlyLeafCheck are left out.                              *)
(***************************************************************************)
EXTENDS Integers, Sequences, SequencesExt

CONSTANTS
    Nodes, Root, NoNode,
    Below,      \* the server's tree: the children of Root and of each node
    Lazy,       \* folders the server sends without their children
    Folded,     \* folders it sends closed, with their children
    Ticked,     \* nodes it sends checked
    Added,      \* nodes a page adds
    Cascades,   \* what the option cascadeCheck may be
    MaxAsked,   \* bound: the number of requests
    MaxEdits    \* bound: the number of nodes added, removed or moved

VARIABLES
    data,       \* the tree, as the elements of its list have it
    page        \* the option cascadeCheck, requests that are not answered, and
                \* history: what happened that explains a surprise

\* fold: the triangle of a node; ul: nodes with a list below them; shown: lists
\* that are displayed; box: 0 is empty, 1 ticked, 2 filled in part; wait: the
\* request that will fill a list; meant: requests after which a node is to be moved,
\* each with the two nodes, while these are the elements they were; torn: those of
\* them whose list was taken from its node.
EmptyTree ==
    [kids |-> [n \in Nodes \cup {Root} |-> <<>>], fold |-> [n \in Nodes |-> "leaf"],
     ul |-> {}, shown |-> {}, box |-> [n \in Nodes |-> 0],
     wait |-> [n \in Nodes |-> 0], meant |-> {}, torn |-> {}]

RECURSIVE Flat(_, _)
\* The nodes of a list and below, in the order they are displayed.
Flat(kids, s) ==
    IF s = <<>> THEN <<>>
    ELSE <<Head(s)>> \o Flat(kids, kids[Head(s)]) \o Flat(kids, Tail(s))

Children(t, n) == Flat(t.kids, t.kids[n])
In(t) == ToSet(Children(t, Root))
Parent(t, n) == CHOOSE p \in Nodes \cup {Root} : n \in ToSet(t.kids[p])

RECURSIVE Above(_, _)
\* The nodes above n, the nearest first.
Above(t, n) == LET p == Parent(t, n) IN IF p = Root THEN <<>> ELSE <<p>> \o Above(t, p)

-----------------------------------------------------------------------------
\* The box of a node above follows from the boxes of its children.
BoxOf(t, p) ==
    LET boxes == {t.box[c] : c \in ToSet(t.kids[p])}
    IN  IF boxes = {1} THEN 1 ELSE IF boxes = {0} THEN 0 ELSE 2

Upward(t, n) == FoldLeft(LAMBDA u, p : [u EXCEPT !.box[p] = BoxOf(u, p)], t, Above(t, n))
Downward(t, n, b) ==
    [t EXCEPT !.box = [c \in Nodes |-> IF c \in ToSet(Children(t, n)) THEN b ELSE @[c]]]

\* Faulty: the boxes above are left as they are.
CheckBelow(t, n, b, cascade) ==
    IF cascade THEN Downward([t EXCEPT !.box[n] = b], n, b) ELSE [t EXCEPT !.box[n] = b]
Check(t, n, b, cascade) ==
    LET own == [t EXCEPT !.box[n] = b]
    IN  IF cascade THEN Downward(Upward(own, n), n, b) ELSE own

\* After its children have changed, the box of p is made to agree with them.
Adjust(t, p, cascade) ==
    LET below == {t.box[c] = 1 : c \in ToSet(Children(t, p))}
    IN  CASE t.fold[p] = "leaf" -> Check(t, p, IF t.box[p] = 1 THEN 1 ELSE 0, cascade)
          [] t.fold[p] # "leaf" /\ t.box[p] = 1 -> Check(t, p, 1, cascade)
          [] t.fold[p] # "leaf" /\ t.box[p] = 2 /\ below = {TRUE} -> Check(t, p, 1, cascade)
          [] t.fold[p] # "leaf" /\ t.box[p] = 2 /\ below = {FALSE} -> Check(t, p, 0, cascade)
          [] OTHER -> t

-----------------------------------------------------------------------------
\* A forest, as data to load.
Forest(top, ticked) ==
    [top |-> top, kids |-> [n \in Nodes |-> IF n \in Lazy THEN <<>> ELSE Below[n]],
     closed |-> Lazy \cup Folded, ticked |-> ticked]

\* The nodes in gone leave the tree, with all that was known of them.
Without(t, gone) ==
    [kids |-> [n \in Nodes \cup {Root} |->
                  IF n \in gone THEN <<>> ELSE SelectSeq(t.kids[n], LAMBDA c : c \notin gone)],
     fold |-> [n \in Nodes |-> IF n \in gone THEN "leaf" ELSE t.fold[n]],
     ul |-> t.ul \ gone, shown |-> t.shown \ gone,
     box |-> [n \in Nodes |-> IF n \in gone THEN 0 ELSE t.box[n]],
     wait |-> [n \in Nodes |-> IF n \in gone THEN 0 ELSE t.wait[n]],
     meant |-> {m \in t.meant : m[2] \notin gone}, torn |-> t.torn]

\* The list below n is removed, n stays.
Torn(t, n) ==
    [t EXCEPT !.torn = @ \cup ({t.wait[n]} \cap {m[1] : m \in t.meant}), !.wait[n] = 0]

\* Forest f is put at the end of the list below p, whose nodes are removed
\* first unless it is appended; then the nodes sent checked are checked.
Load(t, p, f, append, cascade) ==
    LET u   == IF append THEN t ELSE Without(t, ToSet(Children(t, p)))
        new == Flat(f.kids, f.top)
        N   == ToSet(new)
        full == {n \in N : f.kids[n] # <<>>}
        put == [u EXCEPT
                  !.kids = [n \in Nodes \cup {Root} |->
                              IF n = p THEN @[p] \o f.top ELSE IF n \in N THEN f.kids[n] ELSE @[n]],
                  !.fold = [n \in Nodes |->
                              IF n \notin N THEN @[n]
                              ELSE IF n \in f.closed THEN "closed"
                              ELSE IF n \in full THEN "open" ELSE "leaf"],
                  !.ul = @ \cup full, !.shown = @ \cup (full \ f.closed),
                  !.box = [n \in Nodes |-> IF n \in N THEN 0 ELSE @[n]]]
    IN  FoldLeft(LAMBDA v, n : IF n \in f.ticked THEN Check(v, n, 1, cascade) ELSE v, put, new)

\* append: a node without a triangle becomes an open folder.
Appended(t, p, f, cascade) ==
    LET u == IF p = Root THEN t
             ELSE [t EXCEPT !.ul = @ \cup {p},
                            !.shown = IF p \in t.ul THEN @ ELSE @ \cup {p},
                            !.fold[p] = IF @ = "leaf" THEN "open" ELSE @]
        v == Load(u, p, f, TRUE, cascade)
    IN  IF p = Root THEN v ELSE Adjust(v, p, cascade)

\* insert appends to the parent of ref and moves what it appended.
Inserted(t, ref, f, side, cascade) ==
    LET p == Parent(t, ref)
        v == Appended(t, p, f, cascade)
        old == Front(v.kids[p])
        i == CHOOSE j \in DOMAIN old : old[j] = ref
        k == IF side = "top" THEN i ELSE i + 1
    IN  [v EXCEPT !.kids[p] = InsertAt(old, k, Last(v.kids[p]))]

\* remove: a folder that has no child left is a leaf.
\* Faulty: the parent is not looked at again.
RemoveOnly(t, n, cascade) ==
    LET p == Parent(t, n)
        u == Without(t, {n} \cup ToSet(Children(t, n)))
    IN  IF p = Root \/ u.kids[p] # <<>> THEN u
        ELSE [Torn(u, p) EXCEPT !.fold[p] = "leaf", !.ul = @ \ {p}, !.shown = @ \ {p}]
Removed(t, n, cascade) ==
    LET u == RemoveOnly(t, n, cascade)
    IN  IF Parent(t, n) = Root THEN u ELSE Adjust(u, Parent(t, n), cascade)

\* getData: a node with what is below it, to be loaded elsewhere.
DataOf(t, n) ==
    [top |-> <<n>>, kids |-> [c \in Nodes |-> t.kids[c]],
     closed |-> {c \in Nodes : t.fold[c] = "closed"}, ticked |-> {c \in Nodes : t.box[c] = 1}]

\* A node is popped and put below another one, before it or behind it; if that
\* one was below it, by now, both are gone.  A node that comes back is an element
\* of its own.
Moved(t, n, to, how, cascade) ==
    LET u == Removed(t, n, cascade)
    IN  IF to \notin In(u) THEN u
        ELSE IF how = "append" THEN Appended(u, to, DataOf(t, n), cascade)
        ELSE Inserted(u, to, DataOf(t, n), how, cascade)

\* getChecked and getCheckedExt.
Checked(t)    == {n \in In(t) : t.box[n] = 1}
CheckedExt(t) == {n \in In(t) : t.box[n] # 0}

-----------------------------------------------------------------------------
\* The getters of easyui-extend-tree.js.  A level is counted from 1.
SunNodes(t, n) == t.kids[n]
Level(t, n) == Len(Above(t, n)) + 1
NodeRoot(t, n) == LET up[m \in Nat] == IF m = 0 THEN n ELSE Parent(t, up[m - 1])
                  IN  up[Level(t, n) - 1]
Brothers(t, n) == t.kids[Parent(t, n)]
BrothersExclSelf(t, n) == SelectSeq(Brothers(t, n), LAMBDA c : c # n)

\* The loops over the nodes of a level, each with its children, end at the
\* first one that there is.
FirstNodeOfSomeLev(t, l) ==
    LET lev[k \in 1 .. 3] == IF k = 1 THEN t.kids[Root]
                             ELSE FlattenSeq([i \in DOMAIN lev[k - 1] |-> SunNodes(t, lev[k - 1][i])])
    IN  IF lev[l] = <<>> THEN NoNode ELSE Head(lev[l])

IndexIn(s, n) == CHOOSE i \in DOMAIN s : s[i] = n
UpNode(t, n) == LET s == Brothers(t, n) IN
                IF IndexIn(s, n) = 1 THEN NoNode ELSE s[IndexIn(s, n) - 1]
DownNode(t, n) == LET s == Brothers(t, n) IN
                IF IndexIn(s, n) = Len(s) THEN NoNode ELSE s[IndexIn(s, n) + 1]

-----------------------------------------------------------------------------
\* A request for the nodes below n; then is what to do when it is answered: a
\* node to be moved below n, or nothing.
Asked(p, n, then) ==
    [p EXCEPT !.nr = @ + 1, !.net = @ \cup {[nr |-> p.nr + 1, at |-> n, then |-> then]}]

\* The tree loads when it is made.
Init ==
    /\ data = EmptyTree
    /\ \E c \in Cascades :
          page = Asked([cascade |-> c, nr |-> 0, net |-> {}, edits |-> 0, mixed |-> {}],
                       Root, NoNode)

Only(t) == data' = t /\ UNCHANGED page

\* Opening: a folder without a list gets an empty one that is not displayed
\* until the answer is there.
\* Faulty: the triangle turns, the list is not displayed.
Turned(t, n) == [t EXCEPT !.fold[n] = "open"]
Opened(t, n) == [t EXCEPT !.fold[n] = "open", !.shown = @ \cup {n}]
Opening(n, then) ==
    /\ page.nr < MaxAsked
    /\ data' = [data EXCEPT !.fold[n] = "open", !.ul = @ \cup {n}, !.wait[n] = page.nr + 1,
                            !.meant = @ \cup (IF then = NoNode THEN {} ELSE {page.nr + 1} \X {n, then})]
    /\ page' = Asked(page, n, then)

Expand(n) ==
    /\ data.fold[n] = "closed"
    /\ IF n \in data.ul THEN Only(Opened(data, n)) ELSE Opening(n, NoNode)

Collapse(n) ==
    /\ data.fold[n] = "open"
    /\ Only([data EXCEPT !.fold[n] = "closed", !.shown = @ \ {n}])

\* expandTo and collapseAll.
ExpandTo(n) ==
    Only(FoldLeft(LAMBDA t, p : IF t.fold[p] = "closed" THEN Opened(t, p) ELSE t, data, Above(data, n)))
CollapseAll ==
    LET open == {n \in In(data) : data.fold[n] = "open"}
    IN  Only([data EXCEPT !.fold = [n \in Nodes |-> IF n \in open THEN "closed" ELSE @[n]],
                          !.shown = @ \ open])

ClickBox(n) ==
    Only(Check(data, n, IF data.box[n] = 1 THEN 0 ELSE 1, page.cascade))

\* reload removes what is below a node and opens it again, or loads the tree.
Reload(n) ==
    /\ data.fold[n] # "leaf" /\ page.nr < MaxAsked
    /\ LET t == Torn(Without(data, ToSet(Children(data, n))), n)
       IN  data' = [t EXCEPT !.fold[n] = "open", !.shown = @ \ {n}, !.ul = @ \cup {n},
                             !.wait[n] = page.nr + 1]
    /\ page' = Asked(page, n, NoNode)
ReloadAll ==
    /\ page.nr < MaxAsked
    /\ data' = EmptyTree
    /\ page' = Asked(page, Root, NoNode)

\* An answer is put in the list that was made for it; if this is gone, nothing
\* is seen of it.  The list is displayed, and removed if it is empty.
Filled(t, n) ==
    IF t.kids[n] = <<>> THEN [t EXCEPT !.ul = @ \ {n}, !.shown = @ \ {n}, !.wait[n] = 0]
                        ELSE [t EXCEPT !.shown = @ \cup {n}, !.wait[n] = 0]

\* append to a folder whose children were never loaded makes a list for it, so
\* that they never will be; while they are being loaded, what is added is not
\* displayed, and lost with the answer.
Early(p) == IF data.fold[p] # "leaf" /\ (p \notin data.ul \/ data.wait[p] # 0)
            THEN {"early"} ELSE {}

\* The node that was dropped is moved below the folder it was dropped on; if that
\* is no longer in the tree, the node is gone.  Of a node that has left the tree
\* itself an empty node would be appended, which is left out.
Then(r, t) ==
    CASE <<r.nr, r.then>> \notin t.meant -> t
      [] <<r.nr, r.then>> \in t.meant /\ <<r.nr, r.at>> \in t.meant -> Moved(t, r.then, r.at, "append", page.cascade)
      [] OTHER -> Removed(t, r.then, page.cascade)

Waiting(r) == r.at \in In(data) /\ data.wait[r.at] = r.nr
Late(r) == IF Waiting(r) /\ data.fold[r.at] = "closed" THEN {"late"} ELSE {}
Lazily(r) == IF Waiting(r) /\ data.box[r.at] # 0 THEN {"lazy"} ELSE {}
Again(r) == IF ~Waiting(r) /\ <<r.nr, r.at>> \in data.meant THEN Early(r.at) ELSE {}
Done(r, t, why) ==
    /\ data' = [t EXCEPT !.meant = {m \in @ : m[1] # r.nr}, !.torn = @ \ {r.nr}]
    /\ page' = [page EXCEPT !.net = @ \ {r}, !.mixed = @ \cup why]

\* To fill a list that was taken from its node ends with an exception, and what
\* was to be done then is not; nothing is seen of a list that has left with it.
Answer(r) ==
    LET mine == r.at = Root \/ Waiting(r)
        t    == Load(data, r.at, Forest(Below[r.at], Ticked), FALSE, page.cascade)
    IN  /\ mine => ToSet(Flat(Forest(<<>>, {}).kids, Below[r.at]))
                       \cap In(Without(data, ToSet(Children(data, r.at)))) = {}
        /\ CASE r.at = Root -> Done(r, t, {})
             [] Waiting(r) -> Done(r, Then(r, Filled(t, r.at)), Late(r) \cup Lazily(r))
             [] ~mine /\ r.nr \in data.torn -> Done(r, data, {})
             [] OTHER -> Done(r, Then(r, data), {})

Fail(r) == Done(r, Then(r, IF Waiting(r) THEN Filled(data, r.at) ELSE data), Late(r) \cup Again(r))

-----------------------------------------------------------------------------
Edit(t, why) ==
    /\ page.edits < MaxEdits
    /\ data' = t
    /\ page' = [page EXCEPT !.edits = @ + 1, !.mixed = @ \cup why]

New(n) == [Forest(<<n>>, {}) EXCEPT !.kids[n] = <<>>]

AppendNode(p, n) ==
    /\ n \notin In(data)
    /\ Edit(Appended(data, p, New(n), page.cascade), IF p = Root THEN {} ELSE Early(p))

InsertNode(ref, n, side) ==
    /\ n \notin In(data)
    /\ Edit(Inserted(data, ref, New(n), side, page.cascade), {})

RemoveNode(n) == Edit(Removed(data, n, page.cascade), {})

\* A node is dragged on another one that is not below it.  A folder that is
\* closed is opened first, which may need an answer.
Drop(n, to, how) ==
    LET opened == IF how = "append" /\ data.fold[to] = "closed" THEN Opened(data, to) ELSE data
    IN  /\ to \notin {n} \cup ToSet(Children(data, n))
        /\ IF how = "append" /\ data.fold[to] = "closed" /\ to \notin data.ul
           THEN Opening(to, n)
           ELSE Edit(Moved(opened, n, to, how, page.cascade),
                     IF how = "append" THEN Early(to) ELSE {})

Next ==
    \/ \E n \in In(data) : Expand(n) \/ Collapse(n) \/ ExpandTo(n) \/ ClickBox(n)
                           \/ Reload(n) \/ RemoveNode(n)
    \/ CollapseAll \/ ReloadAll
    \/ \E r \in page.net : Answer(r) \/ Fail(r)
    \/ \E n \in Added : \E p \in In(data) \cup {Root} : AppendNode(p, n)
    \/ \E n \in Added, ref \in In(data), side \in {"top", "bottom"} : InsertNode(ref, n, side)
    \/ \E n, to \in In(data), how \in {"append", "top", "bottom"} : Drop(n, to, how)

Spec == Init /\ [][Next]_<<data, page>>

-----------------------------------------------------------------------------
TypeOK ==
    /\ data.kids \in [Nodes \cup {Root} -> Seq(Nodes)]
    /\ Len(Children(data, Root)) = Cardinality(In(data))
    /\ \A n \in Nodes : data.kids[n] # <<>> => data.fold[n] # "leaf" /\ n \in data.ul
    /\ data.fold \in [Nodes -> {"leaf", "closed", "open"}]
    /\ data.ul \subseteq In(data) /\ data.shown \subseteq data.ul
    /\ data.box \in [Nodes -> 0 .. 2]
    /\ data.wait \in [Nodes -> 0 .. page.nr]
    /\ data.meant \subseteq {r.nr : r \in page.net} \X In(data)
    /\ data.torn \subseteq {r.nr : r \in page.net}
    /\ page.nr \in 0 .. MaxAsked
    /\ page.net \subseteq [nr : 1 .. page.nr, at : Nodes \cup {Root}, then : Nodes \cup {NoNode}]

\* A box is ticked, empty or filled in part as the boxes below it are, whatever
\* was checked, loaded, added, removed or moved; unless nodes were loaded below
\* a box that was not empty, which are not checked with it.
BoxesCascade ==
    page.cascade /\ "lazy" \notin page.mixed
        => \A n \in In(data) : data.kids[n] # <<>> => data.box[n] = BoxOf(data, n)

\* The triangle of a folder tells whether its nodes are displayed; unless it
\* was closed before its nodes came, or nodes were added to a closed folder
\* before its own were loaded.
LooksOpen ==
    page.mixed \cap {"late", "early"} = {}
        => \A n \in In(data) : data.kids[n] # <<>> => (data.fold[n] = "open" <=> n \in data.shown)

\* The nodes that the getters find are the ones that are displayed there: each
\* node but the first and the last has its place between two brothers, and the
\* first node of a level is the topmost one.
Kinship ==
    /\ \A n \in In(data) :
          LET s == Brothers(data, n) IN
          /\ DownNode(data, n) # NoNode => UpNode(data, DownNode(data, n)) = n
          /\ UpNode(data, n) = NoNode <=> n = Head(s)
          /\ DownNode(data, n) = NoNode <=> n = Last(s)
          /\ NodeRoot(data, n) \in ToSet(SunNodes(data, Root))
          /\ n \in {NodeRoot(data, n)} \cup ToSet(Children(data, NodeRoot(data, n)))
    /\ \A l \in 1 .. 3 :
          LET s == SelectSeq(Children(data, Root), LAMBDA n : Level(data, n) = l)
          IN  FirstNodeOfSomeLev(data, l) = IF s = <<>> THEN NoNode ELSE Head(s)

=============================================================================
