------------------------------ MODULE Resizing ------------------------------
(***************************************************************************)
(* A box whose edges are dragged with the mouse, as windows, sides of a    *)
(* page and columns are: easyui/plugins/jquery.resizable.js, which every   *)
(* widget asks in onResize whether the box follows, and one that is        *)
(* dragged as a whole, jquery.draggable.js without a stand-in.             *)
(***************************************************************************)
EXTENDS Integers, Sequences, FiniteSets

CONSTANTS
    Boxes,      \* boxes at first: [l, t, w, h]
    Marks,      \* places of the mouse, the same for both axes
    Edge,       \* how near to an edge it is dragged
    Least, Most,    \* the sizes a box may be given
    Handles,    \* sets of edges that may be dragged together
    Axes        \* does dragging move the box along "h", "v", or "both"

VARIABLES
    data,       \* the box, as it is and as it would be; disabled
    page        \* what is dragged, from where; and history: has the mouse been out of bounds

vars == <<data, page>>
Nothing == [by |-> {}, x |-> 0, y |-> 0, box |-> CHOOSE b \in Boxes : TRUE]

Within(n) == IF n < Least THEN Least ELSE IF n > Most THEN Most ELSE n
InRange(n) == n >= Least /\ n <= Most
ResizingAssumption ==
    /\ Least \in Int /\ Most \in Int /\ Least <= Most /\ Edge \in Int /\ Marks \subseteq Int
    /\ Boxes # {} /\ Boxes \subseteq [l : Int, t : Int, w : Least .. Most, h : Least .. Most]

-----------------------------------------------------------------------------
\* The edges below the mouse, if they may be dragged together.
EdgesAt(b, x, y) ==
    LET v == IF y > b.t /\ y < b.t + Edge THEN {"n"}
             ELSE IF y < b.t + b.h /\ y > b.t + b.h - Edge THEN {"s"} ELSE {}
        h == IF x > b.l /\ x < b.l + Edge THEN {"w"}
             ELSE IF x < b.l + b.w /\ x > b.l + b.w - Edge THEN {"e"} ELSE {}
    IN  IF v \cup h \in Handles THEN v \cup h ELSE {}
\* Inside the box by more than the edge.
Inside(b, x, y) ==
    /\ y - b.t > Edge /\ b.t + b.h - y > Edge
    /\ x - b.l > Edge /\ b.l + b.w - x > Edge

\* Faulty: the box moves by the step that was made, though its width counts from the start.
PulledStep(b, g, x, y) ==
    LET dx == x - g.x IN
    [w |-> IF "e" \in g.by THEN Within(g.box.w + dx) ELSE IF "w" \in g.by THEN g.box.w - dx ELSE b.w,
     h |-> b.h, l |-> IF "w" \in g.by /\ InRange(g.box.w - dx) THEN b.l + dx ELSE b.l, t |-> b.t]
\* East and south keep within bounds; west and north only stop the box from moving.
Pulled(b, g, x, y) ==
    LET s  == g.box
        dx == x - g.x
        dy == y - g.y
    IN  [w |-> IF "e" \in g.by THEN Within(s.w + dx) ELSE IF "w" \in g.by THEN s.w - dx ELSE b.w,
         h |-> IF "s" \in g.by THEN Within(s.h + dy) ELSE IF "n" \in g.by THEN s.h - dy ELSE b.h,
         l |-> IF "w" \in g.by /\ InRange(s.w - dx) THEN s.l + dx ELSE b.l,
         t |-> IF "n" \in g.by /\ InRange(s.h - dy) THEN s.t + dy ELSE b.t]
Carried(b, g, x, y) ==
    [b EXCEPT !.l = IF data.axis = "v" THEN @ ELSE g.box.l + x - g.x,
              !.t = IF data.axis = "h" THEN @ ELSE g.box.t + y - g.y]
Followed(b, g, x, y) == IF g.by = {"all"} THEN Carried(b, g, x, y) ELSE Pulled(b, g, x, y)
Outside(g, x, y) ==
    \/ "w" \in g.by /\ ~ InRange(g.box.w - (x - g.x))
    \/ "n" \in g.by /\ ~ InRange(g.box.h - (y - g.y))

Init ==
    /\ \E b \in Boxes, a \in Axes : data = [box |-> b, next |-> b, axis |-> a, still |-> {}]
    /\ page = [drag |-> Nothing, out |-> FALSE, drags |-> 0]

-----------------------------------------------------------------------------
Press(x, y) ==
    /\ page.drag.by = {} /\ page.drags = 0
    /\ LET e == IF "size" \in data.still THEN {} ELSE EdgesAt(data.box, x, y)
           by == IF e # {} THEN e ELSE IF "place" \notin data.still /\ Inside(data.box, x, y) THEN {"all"} ELSE {}
       IN  /\ by # {}
           /\ data' = [data EXCEPT !.next = data.box]
           /\ page' = [drag |-> [by |-> by, x |-> x, y |-> y, box |-> data.box], out |-> FALSE, drags |-> 1]
\* The widget lets the box follow at once or not before the end.
Move(x, y, follows) ==
    /\ page.drag.by # {}
    /\ LET n == Followed(data.next, page.drag, x, y)
       IN  data' = [data EXCEPT !.next = n, !.box = IF follows THEN n ELSE @]
    /\ page' = [page EXCEPT !.out = @ \/ Outside(page.drag, x, y)]
Release(x, y) ==
    /\ page.drag.by # {}
    /\ LET n == Followed(data.next, page.drag, x, y)
       IN  data' = [data EXCEPT !.next = n, !.box = n]
    /\ page' = [page EXCEPT !.out = @ \/ Outside(page.drag, x, y), !.drag = Nothing]
Turn(what) ==
    /\ page.drag.by = {} /\ page.drags = 0
    /\ data' = [data EXCEPT !.still = IF what \in @ THEN @ \ {what} ELSE @ \cup {what}]
    /\ UNCHANGED page

Next ==
    \/ \E x \in Marks, y \in Marks : Press(x, y) \/ Release(x, y) \/ \E f \in BOOLEAN : Move(x, y, f)
    \/ \E what \in {"size", "place"} : Turn(what)

Spec == Init /\ [][Next]_vars

-----------------------------------------------------------------------------
TypeOK ==
    /\ \A b \in {data.box, data.next} : b.l \in Int /\ b.t \in Int /\ b.w \in Int /\ b.h \in Int
    /\ data.axis \in Axes /\ page.out \in BOOLEAN /\ page.drag.by \subseteq {"n", "s", "e", "w", "all"}

\* An edge is dragged while the opposite one stays where it was, and the size
\* within its bounds, however the mouse came there; unless it went so far at the
\* west or north that the size would be out of bounds, which it then is.
OppositeEdgeStays ==
    LET s == page.drag.box  b == data.next  by == page.drag.by IN
    by # {} /\ ~ page.out =>
      /\ "w" \in by => b.l + b.w = s.l + s.w
      /\ "e" \in by => b.l = s.l
      /\ "n" \in by => b.t + b.h = s.t + s.h
      /\ "s" \in by => b.t = s.t
      /\ by \cap {"w", "e"} # {} => InRange(b.w)
      /\ by \cap {"n", "s"} # {} => InRange(b.h)
      /\ "all" \in by => b.w = s.w /\ b.h = s.h

=============================================================================
