-------------------------------- MODULE Combo --------------------------------
(***************************************************************************)
(* A text field with a list below it: easyui/plugins/jquery.combo.js with  *)
(* its kinds, jquery.combobox.js ("box"), jquery.combogrid.js ("grid") and *)
(* jquery.combotree.js ("tree").  It keeps values in hidden inputs, shows  *)
(* their names, and has a list in which they are picked.  Text that is     *)
(* typed becomes the value after a delay.  A text is a sequence of names.  *)
(***************************************************************************)
EXTENDS Integers, Sequences, FiniteSets, SequencesExt

CONSTANTS
    All,        \* what the server lists: a sequence of values
    NameOf,
    Begins,     \* which values have a name that begins with a typed text
    Below,      \* in a tree, the nodes below a node
    Kinds,
    MaxAsked,   \* bound: the number of requests
    MaxValues   \* bound: the number of values

VARIABLES
    data,       \* what the field is (kind, multiple, remote), the list (items,
                \* hidden, picked, open), values and text, previousValue, and
                \* what onChange was told last
    page        \* the timer of typing, requests; and history: the text asked
                \* for last, and what explains a surprise

vars == <<data, page>>
Values == ToSet(All)
Typed  == DOMAIN Begins

Init ==
    /\ \E k \in Kinds, multiple, remote \in BOOLEAN :
          /\ k = "tree" => ~remote
          /\ data = [kind |-> k, multiple |-> multiple, remote |-> remote,
                     items |-> <<>>, hidden |-> {}, picked |-> <<>>, open |-> FALSE,
                     values |-> IF multiple THEN <<>> ELSE <<"">>, text |-> <<"">>,
                     previous |-> <<"">>, remain |-> FALSE,
                     told |-> IF multiple THEN <<>> ELSE <<"">>]
    /\ page = [timer |-> FALSE, nr |-> 1, net |-> {[nr |-> 1, text |-> "", remain |-> FALSE]},
               asked |-> "", mixed |-> {}]

-----------------------------------------------------------------------------
Listed(d, v) == v \in ToSet(d.items)
Shown(d, v) == IF Listed(d, v) THEN NameOf[v] ELSE v
InOrder(d, S) == SelectSeq(d.items, LAMBDA v : v \in S)
Joined(names) == IF names = <<>> THEN <<"">> ELSE names
SameValues(s, t) == /\ Len(s) = Len(t)
                    /\ \A v \in ToSet(s) : Len(SelectSeq(s, LAMBDA w : w = v)) = Len(SelectSeq(t, LAMBDA w : w = v))

\* combo: setValues tells when values were exchanged, setText remembers the text.
SetValues(d, vv) ==
    [d EXCEPT !.values = vv, !.told = IF SameValues(vv, d.values) THEN @ ELSE vv]
SetText(d, names) == [d EXCEPT !.text = Joined(names), !.previous = Joined(names)]
Named(d, vv) == [i \in DOMAIN vv |-> Shown(d, vv[i])]
Cleared(d) == [d EXCEPT !.values = IF d.multiple THEN <<>> ELSE <<"">>, !.text = <<"">>]
HidePanel(d) == [d EXCEPT !.open = FALSE]
ShowPanel(d) == IF d.open THEN d ELSE [d EXCEPT !.open = TRUE, !.hidden = IF d.kind = "box" THEN {} ELSE @]

-----------------------------------------------------------------------------
(* combobox *)
BoxSet(d, vv, remain) ==
    LET e == SetValues([d EXCEPT !.picked = InOrder(d, ToSet(vv))], vv)
    IN  IF remain THEN e ELSE SetText(e, Named(d, vv))
BoxSelect(d, v) ==
    IF ~d.multiple THEN BoxSet(d, <<v>>, FALSE)
    ELSE IF v # "" /\ v \in ToSet(d.values) THEN d ELSE BoxSet(d, Append(d.values, v), FALSE)
BoxUnselect(d, v) == BoxSet(d, SelectSeq(d.values, LAMBDA w : w # v), FALSE)

\* Faulty: the list is replaced, and nothing else.
BoxLoadOnly(d, items, remain) == [d EXCEPT !.items = items, !.hidden = {}, !.picked = <<>>]
BoxLoad(d, items, remain) ==
    LET e == [d EXCEPT !.items = items, !.hidden = {}]
    IN  BoxSet(e, IF d.multiple \/ d.values = <<>> THEN d.values ELSE <<Last(d.values)>>, remain)

BoxQuery(d, q) ==
    LET e     == BoxSet(d, IF d.multiple /\ q = "" THEN <<>> ELSE <<q>>, TRUE)
        exact == SelectSeq(d.items, LAMBDA v : NameOf[v] = q)
        f     == [e EXCEPT !.hidden = Values \ Begins[q]]
    IN  IF d.remote THEN e
        ELSE IF exact = <<>> THEN f ELSE BoxSet(f, <<Last(exact)>>, TRUE)

\* up and down: the neighbour of the value if it is visible, else the value; if
\* there is none the last or first visible item; and if there is none, nothing.
BoxMove(d, step) ==
    LET v    == IF d.values = <<>> THEN "" ELSE Last(d.values)
        seen == IF d.open THEN SelectSeq(d.items, LAMBDA w : w \notin d.hidden) ELSE <<>>
        i    == IF Listed(d, v) THEN CHOOSE k \in DOMAIN d.items : d.items[k] = v ELSE 0
    IN  CASE i # 0 /\ i + step \in DOMAIN d.items /\ d.items[i + step] \in ToSet(seen)
                          -> BoxSelect(d, d.items[i + step])
          [] i # 0 /\ ~(i + step \in DOMAIN d.items /\ d.items[i + step] \in ToSet(seen))
                          -> BoxSelect(d, v)
          [] i = 0 /\ seen # <<>> -> BoxSelect(d, IF step < 0 THEN Last(seen) ELSE Head(seen))
          [] i = 0 /\ seen = <<>> -> BoxSelect(d, "")

-----------------------------------------------------------------------------
(* combogrid: the selections of its grid become the values *)
GridTold(d) ==
    LET e == SetValues(d, IF ~d.multiple /\ d.picked = <<>> THEN <<"">> ELSE d.picked)
    IN  IF d.remain THEN e ELSE SetText(e, [i \in DOMAIN d.picked |-> NameOf[d.picked[i]]])
GridPick(d, v) ==
    GridTold([d EXCEPT !.picked = IF ~d.multiple THEN <<v>>
                                  ELSE IF v \in ToSet(@) THEN @ ELSE Append(@, v)])
GridPickAll(d, vv) == FoldLeft(LAMBDA e, v : IF Listed(e, v) THEN GridPick(e, v) ELSE e, d, vv)
GridUnpickAll(d) ==
    LET e == [d EXCEPT !.picked = <<>>] IN IF d.multiple THEN GridTold(e) ELSE e

\* What is selected besides stays selected.
GridSet(d, vv, remain) ==
    LET e == GridPickAll(d, vv)
        f == SetValues(e, vv)
    IN  IF Joined(e.values) = Joined(vv) THEN e
        ELSE IF remain THEN f ELSE SetText(f, Named(d, vv))

\* The grid selects its selected rows again when it is loaded.
GridLoad(d, items) ==
    LET e == GridSet([d EXCEPT !.items = items], d.values, d.remain)
    IN  GridPickAll(e, InOrder(e, ToSet(e.picked)))

GridQuery(d, q) ==
    LET e     == GridSet([d EXCEPT !.remain = TRUE], IF d.multiple /\ q = "" THEN <<>> ELSE <<q>>, TRUE)
        found == SelectSeq(d.items, LAMBDA v : v \in Begins[q])
    IN  IF d.remote THEN GridUnpickAll(e)
        ELSE IF q = "" \/ found = <<>> THEN e ELSE GridPick(GridUnpickAll(e), Head(found))

\* up, down and enter: from the last selection, which may not be listed.
GridMove(d, step) ==
    LET n == Len(d.items)
        e == [d EXCEPT !.remain = FALSE]
        l == Last(d.picked)
        i == (IF Listed(d, l) THEN CHOOSE k \in 1 .. n : d.items[k] = l ELSE 0) + step
        j == IF d.picked # <<>> THEN IF i < 1 THEN 1 ELSE IF i > n THEN n ELSE i
             ELSE IF step > 0 THEN 1 ELSE n
    IN  IF n = 0 THEN d
        ELSE IF d.picked = <<>> /\ step = 0 THEN e
        ELSE GridPick(GridUnpickAll(e), d.items[j])
GridClick(d, v) ==
    LET e == [d EXCEPT !.remain = FALSE] IN
    IF d.multiple /\ v \in ToSet(d.picked)
    THEN GridTold([e EXCEPT !.picked = SelectSeq(@, LAMBDA w : w # v)])
    ELSE IF d.multiple THEN GridPick(e, v) ELSE HidePanel(GridPick(e, v))

-----------------------------------------------------------------------------
(* combotree: the box of a node takes those below along *)
Checked(S, v) ==
    LET C == S \cup {v} \cup Below[v] IN C \cup {u \in Values : Below[u] # {} /\ Below[u] \subseteq C}
Unchecked(S, v) == S \ ({v} \cup Below[v] \cup {u \in Values : v \in Below[u]})
TreeTold(d) == SetText(SetValues(d, d.picked), [i \in DOMAIN d.picked |-> NameOf[d.picked[i]]])

TreeSet(d, vv) ==
    LET found == SelectSeq(vv, LAMBDA v : Listed(d, v))
        boxes == FoldLeft(Checked, {}, found)
    IN  SetText(SetValues(
            [d EXCEPT !.picked = IF d.multiple THEN InOrder(d, boxes)
                                 ELSE IF found = <<>> THEN @ ELSE <<Last(found)>>], vv), Named(d, vv))
TreeLoad(d, items) == TreeSet([d EXCEPT !.items = items, !.picked = <<>>], d.values)
TreeClick(d, v) ==
    HidePanel(TreeTold(IF d.multiple THEN d ELSE [d EXCEPT !.picked = <<v>>]))
TreeClickBox(d, v) ==
    TreeTold([d EXCEPT !.picked = InOrder(d, IF v \in ToSet(@) THEN Unchecked(ToSet(@), v)
                                                               ELSE Checked(ToSet(@), v))])

-----------------------------------------------------------------------------
(* the actions *)
Becomes(d, p) == Len(d.values) <= MaxValues /\ data' = d /\ page' = p
Mixed(p, what) == [p EXCEPT !.mixed = @ \cup what]
Request(p, q, remain) ==
    Mixed([p EXCEPT !.nr = @ + 1, !.asked = q,
                    !.net = @ \cup {[nr |-> p.nr + 1, text |-> q, remain |-> remain]}],
          IF p.net # {} THEN {"overlap"} ELSE {})

Type(q) ==
    /\ data.kind # "tree"
    /\ Becomes([data EXCEPT !.text = <<q>>], [page EXCEPT !.timer = TRUE])

TimerFires ==
    /\ page.timer
    /\ LET q == data.text[1]
           d == ShowPanel([data EXCEPT !.previous = data.text])
           p == [page EXCEPT !.timer = FALSE]
       IN  IF data.text = data.previous THEN Becomes(data, p)
           ELSE /\ data.remote => page.nr < MaxAsked
                /\ Becomes(IF data.kind = "box" THEN BoxQuery(d, q) ELSE GridQuery(d, q),
                           IF data.remote THEN Request(Mixed(p, {"set", "typed"}), q, TRUE)
                           ELSE Mixed(p, {"set", "typed"}))

ClickArrow == Becomes(IF data.open THEN HidePanel(data) ELSE ShowPanel(data), page)
HidesPanel == data.open /\ Becomes(HidePanel(data), page)

ClickItem(v) ==
    /\ data.open /\ Listed(data, v) /\ v \notin data.hidden
    /\ Becomes(CASE data.kind = "box" ->
                      IF ~data.multiple THEN HidePanel(BoxSelect(data, v))
                      ELSE IF v \in ToSet(data.picked) THEN BoxUnselect(data, v) ELSE BoxSelect(data, v)
                 [] data.kind = "grid" -> GridClick(data, v)
                 [] data.kind = "tree" -> TreeClick(data, v), page)
ClickBox(v) ==
    /\ data.kind = "tree" /\ data.multiple /\ data.open /\ Listed(data, v)
    /\ Becomes(TreeClickBox(data, v), page)

Key(step) ==
    \/ data.kind = "box" /\ step # 0 /\ Becomes(BoxMove(data, step), page)
    \/ data.kind = "box" /\ step = 0 /\ Becomes(HidePanel(BoxSet(data, data.values, FALSE)), page)
    \/ data.kind = "grid" /\ Becomes(IF step = 0 THEN HidePanel(GridMove(data, step))
                                                 ELSE GridMove(data, step), page)

\* The page sets values, as setData of a form does.
SetTo(d, vv) ==
    CASE d.kind = "box" -> BoxSet(d, vv, FALSE)
      [] d.kind = "grid" -> GridSet(d, vv, FALSE)
      [] d.kind = "tree" -> TreeSet(d, vv)
SetValue(v) == Becomes(SetTo(data, <<v>>), Mixed(page, {"set"}))
Reset == Becomes(SetTo(data, IF data.multiple THEN <<>> ELSE <<"">>), Mixed(page, {"set"}))
Clear ==
    Becomes(Cleared([(CASE data.kind = "box" -> data
                        [] data.kind = "grid" -> GridUnpickAll(data)
                        [] data.kind = "tree" ->
                             IF data.multiple THEN TreeTold([data EXCEPT !.picked = <<>>]) ELSE data)
                     EXCEPT !.picked = <<>>]),
            Mixed(page, {"cleared"}))

Reload == page.nr < MaxAsked /\ Becomes(data, Request(page, "", FALSE))

Answer(r) ==
    LET items == IF data.remote THEN SelectSeq(All, LAMBDA v : v \in Begins[r.text]) ELSE All
        p     == [page EXCEPT !.net = @ \ {r}]
    IN  Becomes(CASE data.kind = "box" -> BoxLoad(data, items, r.remain)
                  [] data.kind = "grid" -> GridLoad(data, items)
                  [] data.kind = "tree" -> TreeLoad(data, items), p)
Fail(r) == Becomes(data, Mixed([page EXCEPT !.net = @ \ {r}], {"failed"}))

Next ==
    \/ \E q \in Typed : Type(q)
    \/ TimerFires \/ ClickArrow \/ HidesPanel \/ Reset \/ Clear \/ Reload
    \/ \E v \in Values : ClickItem(v) \/ ClickBox(v) \/ SetValue(v)
    \/ \E step \in {-1, 0, 1} : Key(step)
    \/ \E r \in page.net : Answer(r) \/ Fail(r)

Spec == Init /\ [][Next]_vars

-----------------------------------------------------------------------------
TypeOK ==
    /\ data.values \in Seq(Values \cup Typed) /\ data.told \in Seq(Values \cup Typed)
    /\ data.text \in Seq(Values \cup Typed \cup {NameOf[v] : v \in Values}) /\ data.text # <<>>
    /\ data.items \in Seq(Values) /\ data.picked \in Seq(Values) /\ data.hidden \subseteq Values
    /\ page.nr \in 1 .. MaxAsked /\ page.net \subseteq [nr : 1 .. MaxAsked, text : Typed, remain : BOOLEAN]

\* What a form sends for the field is what the user sees.  A field for one value
\* has one; the text names the values, once what was typed was looked at, where
\* a grid may keep it; what the list has picked is what the values say, in a grid
\* or a tree unless text or the page set them; and onChange was told of them.
\* After clear neither onChange nor the delay of typing know of it.
ShowsValues ==
    /\ ~data.multiple => Len(data.values) = 1
    /\ ~page.timer /\ (data.kind = "grid" => "typed" \notin page.mixed) /\ "cleared" \notin page.mixed
         => LET vv == Joined(data.values) IN
            /\ Len(data.text) = Len(vv)
            /\ \A i \in DOMAIN vv :
                  data.text[i] \in {vv[i]} \cup {NameOf[v] : v \in Values \cap {vv[i]}}
            /\ ~data.remote => data.text = Named(data, vv)
    /\ data.kind = "box" \/ "set" \notin page.mixed
         => SameValues(data.picked, SelectSeq(data.values,
                LAMBDA v : IF data.kind = "grid" THEN v \in Values ELSE Listed(data, v)))
    /\ "cleared" \notin page.mixed => SameValues(data.told, data.values)
    /\ page.net = {} /\ page.mixed \cap {"overlap", "failed"} = {}
         => data.items = IF data.remote THEN SelectSeq(All, LAMBDA v : v \in Begins[page.asked]) ELSE All

=============================================================================
