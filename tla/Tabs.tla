-------------------------------- MODULE Tabs --------------------------------
(***************************************************************************)
(* The tabs of the index page: easyui/plugins/jquery.tabs.js, the menu     *)
(* entries and the tab menu of index.jsp, and addIndexTab and              *)
(* loadPageBtnAuthority of control.js.  A menu entry opens its page in a   *)
(* tab of its title, after the server has said that the session lives; the *)
(* page, once loaded, asks for the buttons of the menu that is current.    *)
(* A panel is sized when it comes to the front or the container changes.   *)
(* Scrolling, tools and icons are left out.                                *)
(***************************************************************************)
EXTENDS Integers, Sequences, SequencesExt

CONSTANTS
    Menus, NoMenu,
    TitleOf,    \* the title of each menu entry
    Home,       \* the menu of the first tab, which cannot be closed
    Sizes,      \* of the container
    MaxTabs,    \* bound: the number of tabs that are asked for
    MaxHis      \* bound: the length of the history

TabsAssumption == Home \in Menus /\ Sizes # {} /\ MaxTabs \in Nat \ {0}

VARIABLES
    data,       \* the tabs, the titles selected so far (selectHis), the li that
                \* is marked, tabMap and curMenuID
    page        \* checks of the session not answered, pages that are not loaded,
                \* for which menu each page asked, the title of the tab menu,
                \* and history: what explains a surprise

vars == <<data, page>>
Titles == {TitleOf[m] : m \in Menus}

TitlesOf(d) == {d.tabs[i].title : i \in DOMAIN d.tabs}
Exists(d, title) == title \in TitlesOf(d)
\* getTab: the first one with a title.
IndexOf(d, title) ==
    CHOOSE i \in DOMAIN d.tabs : /\ d.tabs[i].title = title
                                 /\ \A j \in 1 .. i - 1 : d.tabs[j].title # title
\* getSelected: the first one whose panel is open.
Opened(d) == {i \in DOMAIN d.tabs : /\ d.tabs[i].open
                                    /\ \A j \in 1 .. i - 1 : ~d.tabs[j].open}

\* onSelect of index.jsp sets curMenuID.
Select(d, i) ==
    LET was  == Opened(d)
        tabs == [j \in DOMAIN d.tabs |->
                   [d.tabs[j] EXCEPT !.open = (j = i) \/ (@ /\ j \notin was),
                                     !.size = IF j = i THEN d.size ELSE @]]
    IN  [d EXCEPT !.tabs = tabs, !.mark = (@ \ {d.tabs[j].id : j \in was}) \cup {d.tabs[i].id},
                  !.his = Append(@, d.tabs[i].title), !.cur = d.map[d.tabs[i].title]]

\* Faulty: a title that is closed stays in the history.
Kept(his, title) == his
Purged(his, title) == FoldLeft(LAMBDA h, t : IF t = title THEN h ELSE Append(h, t), <<>>, his)
Close(d, i) ==
    LET his  == Purged(d.his, d.tabs[i].title)
        rest == [d EXCEPT !.tabs = RemoveAt(@, i), !.mark = @ \ {d.tabs[i].id},
                          !.his = IF his = <<>> THEN his ELSE Front(his)]
    IN  IF his # <<>> THEN IF Exists(rest, Last(his)) THEN Select(rest, IndexOf(rest, Last(his)))
                                                      ELSE rest
        ELSE IF rest.tabs # <<>> THEN Select(rest, 1) ELSE rest

CloseFirst(d, title) == IF Exists(d, title) THEN Close(d, IndexOf(d, title)) ELSE d

Added(d, nr, m) ==
    LET n == [d EXCEPT !.map[TitleOf[m]] = m,
                       !.tabs = Append(@, [id |-> nr, title |-> TitleOf[m], menu |-> m, open |-> FALSE,
                                        size |-> d.size])]
    IN  Select(n, Len(n.tabs))

-----------------------------------------------------------------------------
\* checkLoginOverTime.
Check(d, p, m) ==
    [p EXCEPT !.nr = @ + 1, !.net = @ \cup {[nr |-> p.nr + 1, menu |-> m]},
              !.again = @ \cup (IF \E r \in p.net : TitleOf[r.menu] = TitleOf[m]
                                THEN {TitleOf[m]} ELSE {})]

Empty == [tabs |-> <<>>, his |-> <<>>, mark |-> {}, map |-> [t \in Titles |-> NoMenu], cur |-> NoMenu,
          size |-> CHOOSE s \in Sizes : TRUE]
Init ==
    /\ data = Empty
    /\ page = Check(Empty, [nr |-> 0, net |-> {}, loading |-> {}, asked |-> {}, menu |-> "none",
                            again |-> {}, away |-> {}], Home)

\* Pages that are loading while another tab comes to the front.
Away(d, p) == p.loading \ {d.tabs[i].id : i \in Opened(d)}
Still(d, S) == S \cap {d.tabs[i].id : i \in DOMAIN d.tabs}
Becomes(d, p) ==
    /\ Len(d.his) <= MaxHis
    /\ data' = d
    /\ page' = [p EXCEPT !.loading = Still(d, @), !.asked = {a \in @ : a.id \in Still(d, {a.id})},
                         !.away = Still(d, @ \cup Away(d, p))]

AddIndexTab(m) ==
    IF Exists(data, TitleOf[m])
    THEN Becomes([Select(data, IndexOf(data, TitleOf[m])) EXCEPT !.cur = data.map[TitleOf[m]]], page)
    ELSE page.nr < MaxTabs /\ data' = data /\ page' = Check(data, page, m)

Answered(r) ==
    Becomes([Added(data, r.nr, r.menu) EXCEPT !.cur = r.menu],
            [page EXCEPT !.net = @ \ {r}, !.loading = @ \cup {r.nr}])
\* The session is over: the login window is opened instead; or no answer comes.
Refused(r) == data' = data /\ page' = [page EXCEPT !.net = @ \ {r}]

\* The window was resized: of the panels, the one in front is sized.
Resized(d, s) ==
    [d EXCEPT !.size = s,
              !.tabs = [j \in DOMAIN @ |-> IF j \in Opened(d) THEN [@[j] EXCEPT !.size = s] ELSE @[j]]]
Resize(s) == s # data.size /\ Becomes(Resized(data, s), page)

ClickTab(i)   == i \in DOMAIN data.tabs /\ Becomes(Select(data, i), page)
ClickClose(i) == i \in DOMAIN data.tabs /\ data.tabs[i].menu # Home /\ Becomes(Close(data, i), page)

\* The menu of the tabs keeps the title it was opened for.
ShowMenu(i) == i \in DOMAIN data.tabs /\ data' = data /\ page' = [page EXCEPT !.menu = data.tabs[i].title]
Closable(b, type, t) == b.menu # Home /\ (type = "all" \/ b.title # t)
CloseEach(d, type, t) ==
    FoldLeft(LAMBDA e, b : IF Closable(b, type, t) THEN CloseFirst(e, b.title) ELSE e, d, d.tabs)
CloseTab(type) ==
    LET t == page.menu IN
    /\ t # "none"
    /\ Becomes(IF type # "close" THEN CloseEach(data, type, t)
               ELSE IF t = TitleOf[Home] THEN data ELSE CloseFirst(data, t),
               [page EXCEPT !.menu = "none"])

\* loadPageBtnAuthority runs in the page, when its frame is loaded.
FrameLoads(id) ==
    /\ id \in page.loading
    /\ page' = [page EXCEPT !.loading = @ \ {id}, !.asked = @ \cup {[id |-> id, menu |-> data.cur]}]
    /\ UNCHANGED data

Next ==
    \/ \E m \in Menus : m # Home /\ AddIndexTab(m)
    \/ \E r \in page.net : Answered(r) \/ Refused(r)
    \/ \E i \in 1 .. MaxTabs : ClickTab(i) \/ ClickClose(i) \/ ShowMenu(i) \/ FrameLoads(i)
    \/ \E s \in Sizes : Resize(s)
    \/ \E type \in {"close", "other", "all"} : CloseTab(type)

Spec == Init /\ [][Next]_vars

-----------------------------------------------------------------------------
TypeOK ==
    /\ data.tabs \in Seq([id : 1 .. MaxTabs, title : Titles, menu : Menus, open : BOOLEAN, size : Sizes])
    /\ data.size \in Sizes
    /\ data.his \in Seq(Titles) /\ data.mark \subseteq 1 .. MaxTabs
    /\ data.map \in [Titles -> Menus \cup {NoMenu}] /\ data.cur \in Menus \cup {NoMenu}
    /\ page.nr \in 1 .. MaxTabs /\ page.net \subseteq [nr : 1 .. MaxTabs, menu : Menus]

\* Of the tabs, if there are any, one is in front, and it is the one that is
\* marked and the last in the history, and its panel fits; every title there
\* names a tab.
OneInFront ==
    LET front == {i \in DOMAIN data.tabs : data.tabs[i].open} IN
    /\ data.mark = {data.tabs[i].id : i \in front}
    /\ IF data.tabs = <<>> THEN data.his = <<>>
       ELSE /\ Cardinality(front) = 1
            /\ \A i \in front : Last(data.his) = data.tabs[i].title /\ data.tabs[i].size = data.size
    /\ ToSet(data.his) \subseteq TitlesOf(data)

\* A page asks for the buttons of its own menu, unless another tab was brought
\* to the front while it was loading, or two entries of one title were clicked;
\* and no title has two tabs, unless it was asked for twice at once.
ButtonsOfOwnMenu ==
    /\ \A a \in page.asked, i \in DOMAIN data.tabs :
          data.tabs[i].id = a.id =>
              a.menu = data.tabs[i].menu \/ a.id \in page.away \/ data.tabs[i].title \in page.again
    /\ \A i, j \in DOMAIN data.tabs :
          i # j /\ data.tabs[i].title = data.tabs[j].title => data.tabs[i].title \in page.again

=============================================================================
