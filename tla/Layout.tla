------------------------------- MODULE Layout -------------------------------
(***************************************************************************)
(* The regions of a page: easyui/plugins/jquery.layout.js.  Sides around a *)
(* center; a side that is collapsed slides out and leaves a strip, and a   *)
(* click on the strip lets it look in over the center until the mouse is   *)
(* elsewhere.  Expanding lays everything out anew; collapsing only moves   *)
(* what it knows to be concerned.  Slides of one panel wait for each other.*)
(***************************************************************************)
EXTENDS Integers, Sequences, FiniteSets, SequencesExt

CONSTANTS
    Sides,      \* of "north", "south", "east", "west"
    Bodies,     \* sizes of the page, <<width, height>>
    Sizes,      \* sizes of a side
    Strip,      \* the size of a strip: 28 pixels
    MaxMoves    \* bound: how often a side is collapsed, expanded, added, dragged ...

VARIABLES
    data,       \* body; rectangles of panels and strips; panels there, shown and
                \* collapsed; strips made and shown; slides of each side
    page        \* moves so far; and history: does a slide explain a wrong place

vars == <<data, page>>
All4 == {"north", "south", "east", "west"}
Flat == {"north", "south"}
Rect(l, t, w, h) == [l |-> l, t |-> t, w |-> w, h |-> h]
Size(r, s) == IF s \in Flat THEN r.h ELSE r.w
Other(s) == IF s = "north" THEN "south" ELSE "north"

-----------------------------------------------------------------------------
\* setSize: a side takes the place of its strip while that is shown, and its own
\* otherwise, hidden or not.
Takes(d, s) == IF s \in d.strips THEN Size(d.strip[s], s) ELSE IF s \in d.there THEN Size(d.box[s], s) ELSE 0
Place(d, x) ==
    LET n == Takes(d, "north")  so == Takes(d, "south")
        e == Takes(d, "east")   w == Takes(d, "west")
        W == d.body[1]          h == d.body[2] - n - so
    IN  CASE x = "north" -> Rect(0, 0, W, n)
          [] x = "south" -> Rect(0, d.body[2] - so, W, so)
          [] x = "east" -> Rect(W - e, n, e, h)
          [] x = "west" -> Rect(0, n, w, h)
          [] OTHER -> Rect(w, n, W - e - w, h)
SetSize(d) ==
    [d EXCEPT !.box   = [x \in DOMAIN @ |-> IF x = "center" \/ (x \in d.there /\ x \notin d.strips) THEN Place(d, x) ELSE @[x]],
              !.strip = [x \in DOMAIN @ |-> IF x \in d.strips THEN Place(d, x) ELSE @[x]]]

\* The height between a strip at side s and the opposite side.
Between(d, s) ==
    LET o == Other(s)
    IN  d.body[2] - Strip - (IF o \in d.strips THEN d.strip[o].h ELSE IF o \in d.shown THEN d.box[o].h ELSE 0)
Tall(r, s, hh) == [r EXCEPT !.t = IF s = "north" THEN Strip ELSE @, !.h = hh]
\* What is computed before a slide: north and south also fit east and west.
Fitted(d, s) ==
    IF s \notin Flat THEN d
    ELSE [d EXCEPT !.box   = [x \in DOMAIN @ |-> IF x \in d.there \ Flat THEN Tall(@[x], s, Between(d, s)) ELSE @[x]],
                   !.strip = [x \in DOMAIN @ |-> IF x \in d.strips \ Flat THEN Tall(@[x], s, Between(d, s)) ELSE @[x]]]
CenterFor(d, s) ==
    LET c == d.box["center"]
        w == c.w + d.box[s].w - Strip
    IN  CASE s = "east" -> [c EXCEPT !.w = w]
          [] s = "west" -> [c EXCEPT !.w = w, !.l = Strip]
          [] OTHER -> Tall(c, s, Between(d, s))
StripFor(d, s) ==
    CASE s = "east" -> Rect(d.body[1] - Strip, d.box[s].t, Strip, d.box["center"].h)
      [] s = "west" -> Rect(0, d.box[s].t, Strip, d.box["center"].h)
      [] s = "north" -> Rect(0, 0, d.body[1], Strip)
      [] s = "south" -> Rect(0, d.body[2] - Strip, d.body[1], Strip)

Slide(d, s, kind) == [d EXCEPT !.slides[s] = Append(@, [kind |-> kind, to |-> StripFor(d, s)])]
\* Faulty: the center is also moved when the strip is shown and the side looked in.
SlideOutAlways(d, s) ==
    LET f == [Slide(Fitted(d, s), s, "out") EXCEPT !.made = @ \cup {s}]
    IN  [f EXCEPT !.box["center"] = CenterFor(d, s)]
SlideOut(d, s) ==
    LET f == [Slide(Fitted(d, s), s, "out") EXCEPT !.made = @ \cup {s}]
    IN  IF s \in d.strips THEN f ELSE [f EXCEPT !.box["center"] = CenterFor(d, s)]

\* The end of a slide: out, the panel is closed and its strip shown; in, the page
\* is laid out; a panel that looks in stays as it is.
Ended(d, s) ==
    LET x == Head(d.slides[s])
        e == [d EXCEPT !.slides[s] = Tail(@)]
    IN  CASE x.kind = "out" -> [e EXCEPT !.collapsed = @ \cup {s}, !.shown = @ \ {s}, !.strips = @ \cup {s}, !.strip[s] = x.to]
          [] x.kind = "in" -> SetSize(e)
          [] OTHER -> e
OutAtOnce(d, s) == Ended(SlideOut(d, s), s)

\* expand hides the strip and then brings the slide that runs to its end, which
\* may show the strip again; the slides that wait are dropped.
SlideIn(d, s) ==
    LET a == [d EXCEPT !.strips = @ \ {s}, !.slides[s] = SubSeq(@, 1, IF @ = <<>> THEN 0 ELSE 1)]
        b == IF a.slides[s] = <<>> THEN a ELSE Ended(a, s)
    IN  Slide([b EXCEPT !.collapsed = @ \ {s}, !.shown = @ \cup {s}], s, "in")
LookIn(d, s) == Slide([Fitted(d, s) EXCEPT !.collapsed = @ \ {s}, !.shown = @ \cup {s}], s, "look")

-----------------------------------------------------------------------------
Rest(d) == \A s \in Sides : d.slides[s] = <<>>
Busy(d) == {d.slides[s][i].kind : <<s, i>> \in {<<t, j>> \in Sides \X (1 .. 3) : j \in DOMAIN d.slides[t]}}
\* A side that was hidden when the page was laid out keeps the height it had.
Stale(d, s) == s \in d.strips /\ (d.box[s].t # d.strip[s].t \/ d.box[s].h # d.strip[s].h)
\* Whatever is laid out while nothing is closing is right again.
Laid(p, d) == IF "out" \in Busy(d) THEN [p EXCEPT !.mixed = TRUE] ELSE [p EXCEPT !.mixed = FALSE]
Moved(p) == [p EXCEPT !.moves = @ + 1]
MayMove == page.moves < MaxMoves
Becomes(d, p) == data' = d /\ page' = p

Sized(s, z) == IF s \in Flat THEN Rect(0, 0, 0, z) ELSE Rect(0, 0, z, 0)
Placed(d, s, z) == [d EXCEPT !.there = @ \cup {s}, !.shown = @ \cup {s}, !.box[s] = Sized(s, z)]

Bare(b) ==
    [body |-> b, box |-> [x \in All4 \cup {"center"} |-> Rect(0, 0, 0, 0)], strip |-> [x \in All4 |-> Rect(0, 0, 0, 0)],
     there |-> {}, shown |-> {"center"}, collapsed |-> {}, made |-> {}, strips |-> {}, slides |-> [x \in All4 |-> <<>>]]
RECURSIVE With(_, _), Folded(_, _)
With(d, sides) ==
    IF sides = {} THEN d
    ELSE LET s == CHOOSE x \in sides : TRUE IN With(Placed(d, s, CHOOSE z \in Sizes : TRUE), sides \ {s})
\* east, west, north, south, in that order
Order(sides) == SelectSeq(<<"east", "west", "north", "south">>, LAMBDA s : s \in sides)
Folded(d, list) == IF list = <<>> THEN d ELSE Folded(OutAtOnce(d, Head(list)), Tail(list))
RECURSIVE SlideOuts(_, _)
SlideOuts(d, list) == IF list = <<>> THEN d ELSE SlideOuts(SlideOut(d, Head(list)), Tail(list))

Init ==
    /\ \E b \in Bodies, folded \in SUBSET Sides : data = Folded(SetSize(With(Bare(b), Sides)), Order(folded))
    /\ page = [moves |-> 0, mixed |-> FALSE]

-----------------------------------------------------------------------------
\* The buttons of the page ask for a side to be collapsed whatever it does now.
Collapse(s) ==
    /\ MayMove /\ s \in data.there /\ Len(data.slides[s]) < 2
    /\ Becomes(SlideOut(data, s),
               [Moved(page) EXCEPT !.mixed = @ \/ Busy(data) \ {"look"} # {} \/ Stale(data, s)])
\* Without a strip there is nothing to expand.
Expand(s) ==
    /\ MayMove /\ s \in data.made /\ s \in data.there
    /\ Becomes(SlideIn(data, s), Moved(page))
\* A click on the strip.
Look(s) ==
    /\ MayMove /\ s \in data.strips /\ Len(data.slides[s]) < 2
    /\ Becomes(LookIn(data, s), [Moved(page) EXCEPT !.mixed = @ \/ "out" \in Busy(data)])
\* The mouse over a panel: sides that look in elsewhere are collapsed.
MouseOver(x) ==
    /\ x \in data.shown
    /\ LET off == {s \in (data.shown \cap data.strips) \ {x} : Len(data.slides[s]) < 2}
       IN  /\ off # {}
           /\ Becomes(SlideOuts(data, Order(off)),
                      [page EXCEPT !.mixed = @ \/ Busy(data) \ {"look"} # {} \/ \E s \in off : Stale(data, s)])
SlideEnds(s) ==
    /\ data.slides[s] # <<>>
    /\ LET e == Ended(data, s)
       IN  Becomes(e, IF Head(data.slides[s]).kind = "in" THEN Laid(page, e) ELSE page)
\* The edge of a side is dragged: nothing else moves meanwhile.
Drag(s, z) ==
    /\ MayMove /\ s \in data.shown \cap data.there /\ data.slides[s] = <<>>
    /\ LET d == SetSize([data EXCEPT !.box[s] = IF s \in Flat THEN [@ EXCEPT !.h = z] ELSE [@ EXCEPT !.w = z]])
       IN  Becomes(d, Laid(Moved(page), d))
Resize(b) ==
    /\ MayMove /\ b # data.body
    /\ LET d == SetSize([data EXCEPT !.body = b]) IN Becomes(d, Laid(Moved(page), d))
\* A side that slides is not taken away (bound).
TakeAway(s) ==
    /\ MayMove /\ s \in data.there /\ data.slides[s] = <<>>
    /\ LET d == SetSize([data EXCEPT !.there = @ \ {s}, !.shown = @ \ {s}, !.collapsed = @ \ {s}, !.made = @ \ {s}, !.strips = @ \ {s}])
       IN  Becomes(d, Laid(Moved(page), d))
Add(s, z, folded) ==
    /\ MayMove /\ s \notin data.there
    /\ LET d == SetSize(Placed(data, s, z))
       IN  Becomes(IF folded THEN OutAtOnce(d, s) ELSE d, Laid(Moved(page), d))

Next ==
    \/ \E s \in Sides : Collapse(s) \/ Expand(s) \/ Look(s) \/ SlideEnds(s) \/ TakeAway(s)
    \/ \E x \in Sides \cup {"center"} : MouseOver(x)
    \/ \E s \in Sides, z \in Sizes : Drag(s, z) \/ \E f \in BOOLEAN : Add(s, z, f)
    \/ \E b \in Bodies : Resize(b)

Spec == Init /\ [][Next]_vars

-----------------------------------------------------------------------------
TypeOK ==
    /\ data.body \in Bodies /\ page.mixed \in BOOLEAN
    /\ data.there \subseteq Sides /\ data.made \subseteq data.there /\ data.strips \subseteq data.made
    /\ data.collapsed \subseteq data.there /\ data.shown \subseteq data.there \cup {"center"}
    /\ \A s \in Sides : Len(data.slides[s]) <= 2

\* When nothing slides, each side is shown or has its strip, and panels and strips
\* are where laying out the whole page would put them, so that they cover it and
\* do not overlap; unless the sides were moved while others were sliding, or a
\* side looked in that was hidden while the page was laid out.
PanelsFillBody ==
    Rest(data) =>
      /\ data.collapsed = data.there \ data.shown
      /\ data.there \subseteq data.shown \cup data.strips
      /\ ~ page.mixed =>
           /\ data.box["center"] = Place(data, "center")
           /\ \A s \in data.strips : data.strip[s] = Place(data, s)
           /\ \A s \in data.there \ data.strips : data.box[s] = Place(data, s)

=============================================================================
