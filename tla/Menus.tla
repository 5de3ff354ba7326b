------------------------------- MODULE Menus --------------------------------
(***************************************************************************)
(* Menus and the buttons that open them: jquery.menu.js,                   *)
(* jquery.menubutton.js and jquery.splitbutton.js of easyui/plugins.  A    *)
(* menu is opened by a click, or when the mouse rests on its button; a row *)
(* that has a menu of its own opens it when the mouse is there; all close  *)
(* a moment after the mouse has left them, and at once when the page is    *)
(* clicked elsewhere.                                                      *)
(***************************************************************************)
EXTENDS Integers, Sequences, FiniteSets, SequencesExt

CONSTANTS
    Tops, Subs,     \* menus of buttons, menus of rows
    Rows0,          \* the rows of each menu at first
    SubOf,          \* rows with a menu of their own, to that menu
    Added,          \* a row that may be added, below a row: <<row, parent>>
    Search,         \* the menu of a search box, whose button is made anew by a choice
    MaxEdits        \* bound: how often rows and buttons are added, removed, disabled

VARIABLES
    data,       \* rows of each menu; menus of rows; menus shown; rows and buttons
                \* that are marked, and those that are disabled
    page        \* where the mouse is; timers that hide and that show a menu

vars == <<data, page>>
Menus == Tops \cup Subs
Away == "away"
RowsOf(d, m) == ToSet(d.rows[m])
MenuOf(d, r) == CHOOSE m \in Menus : r \in RowsOf(d, m)
AllRows(d) == UNION {RowsOf(d, m) : m \in Menus}
Sub(d, r) == IF r \in DOMAIN d.sub THEN {d.sub[r]} ELSE {}
\* The menus that open from m, itself included: two levels.
Chain(d, m) == {m} \cup UNION {Sub(d, r) : r \in RowsOf(d, m)}
TopOf(d, m) == CHOOSE t \in Tops : m \in Chain(d, t)

-----------------------------------------------------------------------------
(* menus *)
\* hideMenu: with the menus of its rows; no row of them is marked any more.
Hidden(d, m) ==
    [d EXCEPT !.shown = @ \ Chain(d, m), !.active = @ \ UNION {RowsOf(d, x) : x \in Chain(d, m)}]
HideAll(d, T) ==
    LET C == UNION {Chain(d, t) : t \in T \cap d.shown}
    IN  [d EXCEPT !.shown = @ \ C, !.active = @ \ UNION {RowsOf(d, x) : x \in C}, !.lit = @ \ T]
\* A button hides whatever is open and shows its menu.
ShowTop(d, t) == LET e == HideAll(d, Tops) IN [e EXCEPT !.shown = @ \cup {t}, !.lit = @ \cup {t}]

\* Faulty: the menus of the neighbours are left as they are.
EnterOnly(d, r) == [d EXCEPT !.active = @ \cup {r}, !.shown = IF r \in d.off THEN @ ELSE @ \cup Sub(d, r)]

\* The mouse comes to a row: the menus of its neighbours close, its own opens.
Enter(d, r) ==
    LET N == RowsOf(d, MenuOf(d, r)) \ {r}
        e == FoldSet(LAMBDA m, f : Hidden(f, m), d, UNION {Sub(d, x) : x \in N})
    IN  [e EXCEPT !.active = (@ \ N) \cup {r}, !.shown = IF r \in d.off THEN @ ELSE @ \cup Sub(d, r)]
\* It leaves: a menu that is where the mouse goes stays, and the row is marked.
Leave(d, r, stays) ==
    LET e == [d EXCEPT !.active = @ \ {r}]
    IN  IF Sub(d, r) = {} THEN e
        ELSE IF stays THEN [e EXCEPT !.active = @ \cup {r}] ELSE Hidden(e, d.sub[r])

-----------------------------------------------------------------------------
Init ==
    /\ data = [rows |-> Rows0, sub |-> SubOf, shown |-> {}, active |-> {}, lit |-> {}, off |-> {}, dead |-> {}]
    /\ page = [at |-> Away, hide |-> {}, hover |-> {}, edits |-> 0]

\* The mouse is nowhere when what it was on is no longer shown.
Edited(p) == [p EXCEPT !.edits = @ + 1]
Becomes(d, p) ==
    /\ p.edits <= MaxEdits
    /\ data' = d
    /\ page' = [p EXCEPT !.at = IF @ \in Tops \/ (@ \in AllRows(d) /\ MenuOf(d, @) \in d.shown) THEN @ ELSE Away]

\* The mouse goes from a row (or from elsewhere) to a row, a button or away.
Gone(d, to, stays) ==
    IF page.at \in AllRows(d)
    THEN Leave(d, page.at, stays \/ (to \in AllRows(d) /\ Sub(d, page.at) = {MenuOf(d, to)}))
    ELSE d
\* Leaving a menu starts the timer of its top menu, and coming to one clears it.
LeftMenu(p, d, to) ==
    LET m == IF p.at \in AllRows(d) THEN MenuOf(d, p.at) ELSE Away
        n == IF to \in AllRows(d) THEN MenuOf(d, to) ELSE Away
        q == IF m # Away /\ m # n THEN [p EXCEPT !.hide = @ \cup {TopOf(d, m)}] ELSE p
    IN  [q EXCEPT !.hide = IF n # Away /\ m # n THEN @ \ {TopOf(d, n)} ELSE @, !.hover = @ \ {p.at}, !.at = to]

MouseToRow(r, stays) ==
    /\ r # page.at /\ r \in AllRows(data) /\ MenuOf(data, r) \in data.shown
    /\ LET d == Gone(data, r, stays)
       IN  /\ MenuOf(d, r) \in d.shown
           /\ Becomes(Enter(d, r), LeftMenu(page, data, r))
\* On a button that is not disabled a timer is started; on any other the timer of
\* before is forgotten with its handlers.
MouseToButton(t, stays) ==
    /\ t # page.at
    /\ LET p == LeftMenu(page, data, t)
       IN  Becomes(Gone(data, t, stays), IF t \in data.dead THEN p ELSE [p EXCEPT !.hover = @ \cup {t}])
MouseAway(stays) ==
    /\ page.at # Away
    /\ Becomes(Gone(data, Away, stays), LeftMenu(page, data, Away))

HideTimer(t) ==
    /\ t \in page.hide
    /\ Becomes(HideAll(data, {t}), [page EXCEPT !.hide = @ \ {t}])
HoverTimer(t) ==
    /\ t \in page.hover
    /\ Becomes(ShowTop(data, t), [page EXCEPT !.hover = @ \ {t}])
ClickButton(t) ==
    /\ page.at = t /\ t \notin data.dead
    /\ Becomes(ShowTop(data, t), page)
\* The mouse is pressed elsewhere: all menus close; a right click then opens one.
Press == page.at \notin AllRows(data) /\ Becomes(HideAll(data, Tops), page)
RightClick(t) ==
    page.at \notin AllRows(data) /\ Becomes(ShowTop(data, t), page)

\* A row of the search box makes a new button, whose mark is not set.
ClickRow(r) ==
    /\ page.at = r /\ r \in AllRows(data) /\ r \notin data.off
    /\ LET m == MenuOf(data, r)
           d == IF Sub(data, r) = {} THEN HideAll(data, {TopOf(data, m)}) ELSE data
       IN  IF m = Search THEN Becomes([d EXCEPT !.lit = @ \ {m}, !.dead = @ \ {m}], [page EXCEPT !.hover = @ \ {m}])
           ELSE Becomes(d, page)

TurnRow(r) ==
    /\ r \in AllRows(data)
    /\ Becomes([data EXCEPT !.off = IF r \in @ THEN @ \ {r} ELSE @ \cup {r}], Edited(page))
\* disable and enable: a timer that runs is no longer stopped by the mouse.
TurnButton(t) ==
    Becomes([data EXCEPT !.dead = IF t \in @ THEN @ \ {t} ELSE @ \cup {t}], Edited(page))
AddRow ==
    /\ Added[1] \notin AllRows(data) /\ Added[2] \in AllRows(data)
    /\ LET m == CHOOSE s \in Subs : s \notin {SubOf[r] : r \in DOMAIN SubOf}
           k == IF Sub(data, Added[2]) = {} THEN m ELSE data.sub[Added[2]]
       IN  Becomes([data EXCEPT !.rows[k] = Append(@, Added[1]), !.sub = (Added[2] :> k) @@ @], Edited(page))
\* A row goes with the menu below it.
RemoveRow(r) ==
    /\ r \in AllRows(data) /\ Search # MenuOf(data, r)
    /\ LET G == {r} \cup UNION {RowsOf(data, m) : m \in Sub(data, r)}
       IN  Becomes([data EXCEPT !.rows = [m \in Menus |-> SelectSeq(@[m], LAMBDA x : x \notin G)],
                                !.sub = [x \in DOMAIN @ \ G |-> @[x]], !.shown = @ \ Sub(data, r),
                                !.active = @ \ G, !.off = @ \ G],
                   [Edited(page) EXCEPT !.hide = IF page.at \in G THEN @ \cup {TopOf(data, MenuOf(data, r))} ELSE @])

Next ==
    \/ \E r \in AllRows(data), stays \in BOOLEAN : MouseToRow(r, stays)
    \/ \E t \in Tops, stays \in BOOLEAN : MouseToButton(t, stays)
    \/ \E stays \in BOOLEAN : MouseAway(stays)
    \/ \E t \in Tops : HideTimer(t) \/ HoverTimer(t) \/ ClickButton(t) \/ RightClick(t) \/ TurnButton(t)
    \/ \E r \in AllRows(data) : ClickRow(r) \/ TurnRow(r) \/ RemoveRow(r)
    \/ Press \/ AddRow

Spec == Init /\ [][Next]_vars

-----------------------------------------------------------------------------
TypeOK ==
    /\ data.shown \subseteq Menus /\ data.active \subseteq AllRows(data) /\ data.off \subseteq AllRows(data)
    /\ data.lit \subseteq Tops /\ data.dead \subseteq Tops
    /\ page.hide \subseteq Tops /\ page.hover \subseteq Tops /\ page.at \in AllRows(data) \cup Tops \cup {Away}

\* One menu is open at a time, with the menu of one of its rows at most, and that
\* row is marked; a button is marked while its menu is open; and no timer runs
\* that would close a menu under the mouse.
MenusOpen ==
    /\ Cardinality(data.shown \cap Tops) <= 1
    /\ \A m \in data.shown \cap Subs :
          \E r \in DOMAIN data.sub : data.sub[r] = m /\ r \in data.active /\ MenuOf(data, r) \in data.shown
    /\ \A m \in data.shown : Cardinality({r \in RowsOf(data, m) : Sub(data, r) \cap data.shown # {}}) <= 1
    /\ data.lit = data.shown \cap Tops
    /\ page.at \in AllRows(data) => TopOf(data, MenuOf(data, page.at)) \notin page.hide

=============================================================================
