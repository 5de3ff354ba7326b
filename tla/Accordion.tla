----------------------------- MODULE Accordion ------------------------------
(***************************************************************************)
(* A stack of panels of which one is open: easyui/plugins/                 *)
(* jquery.accordion.js.  Opening a panel closes the one that is open; both *)
(* slide, and count as closed and open as before until the slide ends.     *)
(* Every click first brings all slides to their end.                       *)
(***************************************************************************)
EXTENDS Integers, Sequences, FiniteSets, SequencesExt

CONSTANTS
    Panels,     \* panels that may be added
    TitleOf,    \* the title of a panel
    Tall, HeadSize,    \* heights of the whole and of a header
    MaxMoves    \* bound: how often panels are clicked, selected, added or removed

VARIABLES
    data,       \* panels in their order; those expanded; those whose header is
                \* marked; slides, in the order they end; heights of the panels
    page        \* moves so far; and history: was the first select answered as it should

vars == <<data, page>>

-----------------------------------------------------------------------------
Index(d, t) == SelectInSeq(d.panels, LAMBDA p : TitleOf[p] = t)
\* getSelected: the first that counts as expanded.
Selected(d) == SelectInSeq(d.panels, LAMBDA p : p \in d.expanded)

Ended(d, x) == [d EXCEPT !.expanded = IF x.opens THEN @ \cup {x.at} ELSE @ \ {x.at}]
\* stop: all slides end at once.
Stopped(d) ==
    [FoldSeq(LAMBDA x, e : Ended(e, x), d, d.slides) EXCEPT !.slides = <<>>]
Slid(d, p, opens, slow) ==
    IF slow THEN [d EXCEPT !.slides = Append(@, [at |-> p, opens |-> opens])]
    ELSE Ended(d, [at |-> p, opens |-> opens])

\* Faulty: the panel that was open stays open.
OpenOnly(d, p, slow) == [Slid(d, p, TRUE, slow) EXCEPT !.marked = @ \cup {p}]
Close(d, p, slow) == [Slid(d, p, FALSE, slow) EXCEPT !.marked = @ \ {p}]
Open(d, p, slow) ==
    LET s == Selected(d)
        e == IF s = 0 THEN d ELSE Close(d, d.panels[s], slow)
    IN  [Slid(e, p, TRUE, slow) EXCEPT !.marked = @ \cup {p}]

\* A click on a header turns the panel, as it is when its slide has ended.
Clicked(d, p, slow) ==
    LET e == Stopped(d) IN IF p \in e.expanded THEN Close(e, p, slow) ELSE Open(e, p, slow)
\* select asks before the slides are stopped.
Select(d, i, slow) ==
    IF i = 0 \/ i = Selected(d) THEN d ELSE Clicked(d, d.panels[i], slow)
\* setSize: every panel gets what the headers leave.
SetSize(d) == [d EXCEPT !.tall = [p \in DOMAIN @ |-> IF p \in ToSet(d.panels) THEN Tall - (Len(d.panels) - 1) * HeadSize ELSE @[p]]]

RECURSIVE Orders(_)
Orders(S) == IF S = {} THEN {<<>>} ELSE {<<>>} \cup UNION {{<<p>> \o o : o \in Orders(S \ {p})} : p \in S}
\* Of the panels in the page the first that is marked as selected is opened, else the first.
Init ==
    /\ \E o \in Orders(Panels) : \E i \in (IF o = <<>> THEN {0} ELSE 1 .. Len(o)) :
          data = Select(SetSize([panels |-> o, expanded |-> {}, marked |-> {}, slides |-> <<>>,
                                 tall |-> [p \in Panels |-> 0]]), i, FALSE)
    /\ page = [moves |-> 0]

Becomes(d) == page.moves < MaxMoves /\ data' = d /\ page' = [page EXCEPT !.moves = @ + 1]
-----------------------------------------------------------------------------
Click(i) == Becomes(Clicked(data, data.panels[i], TRUE))
SelectTitle(t) == Becomes(Select(data, Index(data, t), TRUE))
SlideEnds ==
    /\ data.slides # <<>>
    /\ data' = [Ended(data, data.slides[1]) EXCEPT !.slides = Tail(@)]
    /\ UNCHANGED page
Add(p, selected) ==
    /\ p \notin ToSet(data.panels)
    /\ LET e == Stopped(data)
           d == SetSize([e EXCEPT !.panels = Append(@, p), !.expanded = @ \ {p}, !.marked = @ \ {p}])
       IN  Becomes(IF selected THEN Select(d, Len(d.panels), TRUE) ELSE d)
\* The first panel of that title goes; if no panel is open then, the first is opened.
Removed(t) ==
    /\ Index(data, t) # 0
    /\ LET e == Stopped(data)
           i == Index(data, t)
           d == [e EXCEPT !.panels = RemoveAt(@, i), !.expanded = @ \ {e.panels[i]}, !.marked = @ \ {e.panels[i]}]
           f == SetSize(d)
       IN  Becomes(IF d.panels = <<>> THEN d ELSE IF Selected(f) = 0 THEN Select(f, 1, TRUE) ELSE f)

Next ==
    \/ \E i \in DOMAIN data.panels : Click(i)
    \/ \E t \in {TitleOf[p] : p \in Panels} : SelectTitle(t) \/ Removed(t)
    \/ \E p \in Panels, s \in BOOLEAN : Add(p, s)
    \/ SlideEnds

Spec == Init /\ [][Next]_vars

-----------------------------------------------------------------------------
TypeOK ==
    /\ ToSet(data.panels) \subseteq Panels /\ IsInjective(data.panels)
    /\ data.expanded \subseteq ToSet(data.panels) /\ data.marked \subseteq ToSet(data.panels)
    /\ Len(data.slides) <= 2

\* When nothing slides, at most one panel is open, its header and no other is
\* marked, and it has the room that the headers leave; while panels slide, the
\* marked one is the one that will be open.
OneOpen ==
    LET d == Stopped(data) IN
    /\ Cardinality(d.expanded) <= 1
    /\ data.marked = d.expanded
    /\ \A p \in d.expanded : Tall - (Len(data.panels) - 1) * HeadSize = d.tall[p]

=============================================================================
