------------------------------- MODULE Window -------------------------------
(***************************************************************************)
(* A window with all its tools: easyui/plugins/jquery.panel.js and         *)
(* jquery.window.js.  It is opened and closed, folded with an animation,   *)
(* minimized, maximized, dragged and resized, and loads what it shows.     *)
(* Sizes are values that only are kept, replaced or put back.              *)
(***************************************************************************)
EXTENDS Integers, Sequences, FiniteSets

CONSTANTS
    Hrefs,      \* where its content may come from
    Sizes,      \* sizes and places a user may give it
    Fit,        \* the size of a maximized window
    None,
    MaxAsked    \* bound: the number of requests

WindowAssumption == None \notin Sizes /\ MaxAsked \in Nat

VARIABLES
    data,       \* the options of the panel and what is displayed of it
    page        \* requests that are not answered; and history: the size before
                \* it was maximized, and what explains a surprise

vars == <<data, page>>

\* slide: the animation of the body that runs; tool: the tool restores; astray:
\* a maximized window was dragged.
Init ==
    /\ \E s \in Sizes, h \in Hrefs :
          /\ data = [closed |-> TRUE, minimized |-> FALSE, maximized |-> FALSE, collapsed |-> FALSE,
                     tool |-> FALSE, size |-> s, original |-> None, astray |-> FALSE, visible |-> FALSE, body |-> TRUE,
                     slide |-> "none", shadow |-> FALSE, mask |-> FALSE,
                     href |-> h, loaded |-> FALSE, content |-> None]
          /\ page = [nr |-> 0, net |-> {}, before |-> s, mixed |-> {}]

\* d and p are data and page, for handlers that make several calls.
W(d, p) == [d |-> d, p |-> p]
Becomes(w) == w.p.nr <= MaxAsked /\ data' = w.d /\ page' = w.p

-----------------------------------------------------------------------------
\* Content is loaded unless it is there.
LoadHref(w) ==
    IF w.d.loaded THEN w
    ELSE W([w.d EXCEPT !.content = None],
           [w.p EXCEPT !.nr = @ + 1, !.net = @ \cup {[nr |-> w.p.nr + 1, href |-> w.d.href]},
                       !.mixed = @ \cup (IF w.p.net # {} THEN {"overlap"} ELSE {})])

\* Faulty: the size to be restored is taken again.
MaximizedAgain(w) ==
    IF w.d.maximized THEN w
    ELSE W([w.d EXCEPT !.tool = TRUE, !.original = w.d.size,
                       !.size = Fit, !.astray = FALSE, !.minimized = FALSE, !.maximized = TRUE], w.p)
Maximized(w) ==
    IF w.d.maximized THEN w
    ELSE W([w.d EXCEPT !.tool = TRUE, !.original = IF @ = None THEN w.d.size ELSE @,
                       !.size = Fit, !.astray = FALSE, !.minimized = FALSE, !.maximized = TRUE], w.p)

\* An animation that is stopped is at its end: onCollapse, or onExpand, which
\* shows the shadow, and the content is loaded.
SlideEnd(w) ==
    CASE w.d.slide = "none" -> w
      [] w.d.slide = "up"   -> W([w.d EXCEPT !.slide = "none", !.collapsed = TRUE, !.body = FALSE], w.p)
      [] w.d.slide = "down" ->
           LoadHref(W([w.d EXCEPT !.slide = "none", !.collapsed = FALSE, !.body = TRUE, !.shadow = TRUE], w.p))

Collapsed(w) ==
    IF w.d.collapsed THEN w
    ELSE LET v == SlideEnd(w)
         IN  W([v.d EXCEPT !.shadow = FALSE, !.body = FALSE, !.collapsed = TRUE], v.p)

\* A window whose tool restores is maximized again.
Opened(w) ==
    LET d == [w.d EXCEPT !.visible = TRUE, !.closed = FALSE, !.minimized = FALSE,
                         !.maximized = @ \/ w.d.tool, !.mask = TRUE, !.shadow = TRUE]
        v == IF d.maximized THEN Maximized(W([d EXCEPT !.maximized = FALSE], w.p)) ELSE W(d, w.p)
    IN  IF v.d.collapsed THEN Collapsed(W([v.d EXCEPT !.collapsed = FALSE], v.p)) ELSE LoadHref(v)

Hidden(d) == [d EXCEPT !.visible = FALSE, !.shadow = FALSE, !.mask = FALSE]
Slid(w) == IF w.d.slide # "none" THEN W(w.d, [w.p EXCEPT !.mixed = @ \cup {"slid"}]) ELSE w

-----------------------------------------------------------------------------
Open == Becomes(Opened(Slid(W(data, page))))

\* close, by the page or with the tool.
Close == ~data.closed /\ Becomes(Slid(W([Hidden(data) EXCEPT !.closed = TRUE], page)))

ToolMin ==
    /\ data.visible
    /\ Becomes(Slid(W([Hidden(data) EXCEPT !.minimized = TRUE, !.maximized = FALSE], page)))

\* Faulty: restore forgets to forget the size it puts back.
RestoredKept(d) ==
    [d EXCEPT !.tool = FALSE, !.size = d.original, !.minimized = FALSE, !.maximized = FALSE]
Restored(d) ==
    [d EXCEPT !.tool = FALSE, !.size = d.original, !.minimized = FALSE, !.maximized = FALSE,
              !.original = None, !.astray = FALSE]
ToolMax ==
    /\ data.visible
    /\ IF data.maximized THEN Becomes(W(Restored(data), page))
       ELSE Becomes(Maximized(W(data, [page EXCEPT !.before = IF data.tool THEN @ ELSE data.size])))

\* The tool folds or unfolds, by what has been at the end of the last animation.
ToolCollapse ==
    /\ data.visible
    /\ LET w == SlideEnd(W(data, page)) IN
       IF ~data.collapsed
       THEN Becomes(W([w.d EXCEPT !.shadow = FALSE,
                                  !.slide = IF w.d.body THEN "up" ELSE "none",
                                  !.collapsed = ~w.d.body], w.p))
       ELSE IF w.d.body \* it had been unfolding: expanded twice
            THEN Becomes(LoadHref(w))
            ELSE Becomes(W([w.d EXCEPT !.slide = "down", !.body = TRUE], w.p))

Slides == data.slide # "none" /\ Becomes(SlideEnd(W(data, page)))

\* The title is dragged or an edge is; a maximized window keeps its size, but
\* may be dragged away.
Drag(s) ==
    /\ data.visible
    /\ IF data.maximized THEN Becomes(W([data EXCEPT !.astray = TRUE], page))
       ELSE Becomes(W([data EXCEPT !.size = s], [page EXCEPT !.before = s]))

\* refresh, with another place to load from or the same.
From(d, h) == [d EXCEPT !.loaded = FALSE, !.href = h]
Refresh(h) == Becomes(LoadHref(W(From(data, h), page)))

Answer(r) ==
    Becomes(W([data EXCEPT !.content = r.href, !.loaded = TRUE], [page EXCEPT !.net = @ \ {r}]))
Fail(r) == Becomes(W(data, [page EXCEPT !.net = @ \ {r}, !.mixed = @ \cup {"failed"}]))

Next ==
    \/ Open \/ Close \/ ToolMin \/ ToolMax \/ ToolCollapse \/ Slides
    \/ \E s \in Sizes : Drag(s)
    \/ \E h \in Hrefs : Refresh(h)
    \/ \E r \in page.net : Answer(r) \/ Fail(r)

Spec == Init /\ [][Next]_vars

-----------------------------------------------------------------------------
TypeOK ==
    /\ \A f \in {"closed", "minimized", "maximized", "collapsed", "tool", "visible", "body",
                 "shadow", "mask", "loaded", "astray"} : data[f] \in BOOLEAN
    /\ data.size \in Sizes \cup {Fit} /\ data.original \in Sizes \cup {None}
    /\ data.slide \in {"none", "up", "down"} /\ data.content \in Hrefs \cup {None}
    /\ page.net \subseteq [nr : 1 .. MaxAsked, href : Hrefs]

\* The mask is there while the window is, the shadow while it is and is not
\* folded; unless it was closed, minimized or opened while it was sliding, whose
\* end shows a shadow and folds the body without looking.  A window that is
\* not maximized has the size it was given last.
LooksOfWindow ==
    /\ data.mask = data.visible
    /\ "slid" \notin page.mixed => (data.shadow <=> data.visible /\ ~data.collapsed /\ data.slide = "none")
    /\ data.visible => data.tool = data.maximized /\ data.size = (IF data.tool THEN Fit ELSE page.before)
    /\ data.tool => data.original = page.before

\* What is shown was loaded from where the window loads, when every request was
\* answered; unless one failed or another had not been answered.
ContentOfHref ==
    page.net = {} /\ page.mixed \cap {"failed", "overlap"} = {} /\ page.nr > 0
        => data.content = data.href /\ data.loaded

=============================================================================
