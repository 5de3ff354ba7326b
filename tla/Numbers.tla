------------------------------ MODULE Numbers -------------------------------
(***************************************************************************)
(* Inputs of numbers: numberbox, numberspinner, timespinner and slider of  *)
(* easyui/plugins.  A number box has a text and a hidden field; a spinner  *)
(* is a box with arrows; a time is a text of which the arrows change the   *)
(* part that is marked; a slider has a handle on a line.  A text is <<n>>, *)
(* or <<>> if it is empty or no number; numbers are tenths, times minutes. *)
(* Prefix, suffix and separators are put around a number and taken away    *)
(* again, and are left out, as are arrows that light up, rules and tips.   *)
(***************************************************************************)
EXTENDS Integers, Sequences

CONSTANTS
    Fields,     \* the inputs: kind, first value, min and max (<<>>: none), step,
                \* length of the line and whether it runs backwards
    Typed,      \* texts a user types or a script sets
    Places      \* how far from its start a handle is dragged

VARIABLES
    data,       \* the input, its text, value, first value, the value its options
                \* were read with, and whether it is enabled
    page        \* focused; what was last done to the value

vars == <<data, page>>
Day == 1440

-----------------------------------------------------------------------------
Clamp(f, n) ==
    CASE f.min # <<>> /\ n < f.min[1] -> f.min[1]
      [] f.max # <<>> /\ n > f.max[1] -> f.max[1]
      [] OTHER -> n
Whole(n) == ((n + 5) \div 10) * 10
Parsed(f, t) == IF t = <<>> THEN <<>> ELSE <<Clamp(f, Whole(t[1]))>>

\* The fix of a time: a text that is none gives way to the last value; hours and
\* minutes beyond their ends run over, but only after they were compared with min
\* and max.
Fixed(d) ==
    LET t == IF d.text = <<>> THEN d.val ELSE d.text
        v == IF t = <<>> THEN <<>> ELSE <<Clamp(d.f, t[1]) % Day>>
    IN  [d EXCEPT !.text = v, !.val = v]

\* Faulty: what was typed is left in the field.
SetUnseen(d, t) ==
    IF d.f.kind = "time" THEN Fixed([d EXCEPT !.text = t]) ELSE [d EXCEPT !.val = Parsed(d.f, t)]
Set(d, t) ==
    IF d.f.kind = "time" THEN Fixed([d EXCEPT !.text = t])
    ELSE [d EXCEPT !.val = Parsed(d.f, t), !.text = Parsed(d.f, t)]

Idle == [does |-> "none", was |-> <<>>, by |-> 0]
Init ==
    \E f \in Fields :
       /\ data = [f |-> f, orig |-> IF f.kind \in {"box", "spinner"} THEN Parsed(f, f.first) ELSE f.first,
                  text |-> IF f.kind \in {"box", "spinner"} THEN Parsed(f, f.first) ELSE f.first,
                  val |-> CASE f.kind = "time" -> f.first [] f.kind = "slider" -> <<Clamp(f, f.first[1])>>
                            [] OTHER -> Parsed(f, f.first),
                  opt |-> f.first, on |-> TRUE]
       /\ page = [focus |-> FALSE, did |-> Idle]

-----------------------------------------------------------------------------
Kind == data.f.kind
Did(what, by) == page' = [page EXCEPT !.did = [does |-> what, was |-> data.val, by |-> by]]

\* The user types; the field hears of it when the focus leaves.
Focus ==
    /\ Kind # "slider" /\ data.on /\ ~ page.focus
    /\ data' = IF Kind = "time" THEN data ELSE [data EXCEPT !.text = data.val]
    /\ page' = [focus |-> TRUE, did |-> Idle]
Type(t) == page.focus /\ data' = [data EXCEPT !.text = t] /\ UNCHANGED page
Blur ==
    /\ page.focus
    /\ data' = Set(data, data.text)
    /\ page' = [focus |-> FALSE, did |-> [does |-> "set", was |-> data.val, by |-> 0]]

SetValue(t) ==
    /\ ~ page.focus /\ Kind # "slider"
    /\ data' = Set(data, t)
    /\ Did("set", 0)

\* A spinner starts from the value of its options when the field is empty.
SpinNumber(by) ==
    /\ Kind = "spinner" /\ data.on /\ ~ page.focus
    /\ LET from == IF data.val # <<>> THEN data.val[1] ELSE IF data.opt # <<>> THEN data.opt[1] ELSE 0
       IN  data' = Set(data, <<from + by * data.f.step>>)
    /\ Did("spin", by * data.f.step)
\* part: minutes in the marked part, 0 if it is the seconds that are not shown.
SpinTime(by, part) ==
    /\ Kind = "time" /\ data.on /\ ~ page.focus
    /\ LET from == IF data.text # <<>> THEN data.text[1] ELSE 0
       IN  data' = Set(data, IF part = 0 THEN <<>> ELSE <<from + by * part>>)
    /\ Did("spin", by * part)

\* clear of a time forgets the text only.
Clear ==
    /\ ~ page.focus /\ Kind # "slider"
    /\ data' = IF Kind = "time" THEN [data EXCEPT !.text = <<>>] ELSE [data EXCEPT !.text = <<>>, !.val = <<>>]
    /\ Did("clear", 0)
Reset ==
    /\ ~ page.focus /\ Kind # "slider"
    /\ data' = CASE Kind = "time" -> [data EXCEPT !.text = data.orig]
                 [] Kind = "spinner" -> [Set(data, data.orig) EXCEPT !.opt = data.val]
                 [] Kind = "box" -> Set(data, data.orig)
    /\ Did("reset", 0)
Able == ~ page.focus /\ data' = [data EXCEPT !.on = ~ @] /\ UNCHANGED page

\* The handle is dragged along the line or let go beyond its ends.  What is
\* left of a step is cut off or filled up.
ValueAt(f, p) ==
    LET v == f.min[1] + ((f.max[1] - f.min[1]) * p * 2 + f.length) \div (2 * f.length)
    IN  IF f.back THEN f.max[1] - v ELSE v
PosOf(f, v) ==
    LET p == ((v - f.min[1]) * f.length) \div (f.max[1] - f.min[1])
    IN  IF f.back THEN f.length - p ELSE p
ToStep(f, v) ==
    LET s == IF v < 0 THEN (-v) % f.step ELSE v % f.step
    IN  IF 2 * s < f.step THEN v - s ELSE v - s + f.step
Drag(p) ==
    /\ Kind = "slider" /\ data.on
    /\ LET v == Clamp(data.f, ToStep(data.f, ValueAt(data.f, p)))
       IN  data' = [data EXCEPT !.val = <<v>>, !.text = <<v>>]
    /\ Did("drag", p)
Slide(n) ==
    /\ Kind = "slider"
    /\ data' = [data EXCEPT !.val = <<Clamp(data.f, n)>>, !.text = <<Clamp(data.f, n)>>]
    /\ Did("set", 0)

Next ==
    \/ Focus \/ Blur \/ Clear \/ Reset \/ Able
    \/ \E t \in Typed : Type(t) \/ SetValue(t)
    \/ \E t \in Typed : t # <<>> /\ Slide(t[1])
    \/ \E by \in {-1, 1} : SpinNumber(by) \/ \E part \in {0, 1, 60} : SpinTime(by, part)
    \/ \E p \in Places : Drag(p)

Spec == Init /\ [][Next]_vars

-----------------------------------------------------------------------------
TypeOK ==
    /\ data.f \in Fields /\ data.text \in Seq(Int) /\ data.val \in Seq(Int) /\ data.orig \in Seq(Int)
    /\ data.opt \in Seq(Int) /\ data.on \in BOOLEAN /\ page.focus \in BOOLEAN

InRange(f, v) == v = <<>> \/ Clamp(f, v[1]) = v[1]
Bounded(f) == f.min # <<>> /\ f.max # <<>>

\* Whatever is typed, set, cleared, reset or spun, a number box shows what it
\* will send, a whole number within its ends; a time is one of the day, and
\* within its ends if it has both: with one of them it runs over midnight to the
\* wrong side.  A step up or down is a step, or stops at an end.  A handle stays
\* within half a step of where it was let go.
HoldsItsRange ==
    LET f == data.f  did == page.did IN
    /\ Kind \in {"box", "spinner"} /\ ~ page.focus =>
         /\ data.text = data.val /\ InRange(f, data.val)
         /\ data.val # <<>> => data.val[1] % 10 = 0
         /\ did.does = "spin" /\ did.was # <<>> =>
               data.val[1] \in {did.was[1] + did.by, Clamp(f, did.was[1] + did.by)}
    /\ Kind = "time" /\ did.does \in {"set", "spin"} =>
         /\ data.text = data.val
         /\ data.val # <<>> => data.val[1] \in 0 .. Day - 1 /\ (Bounded(f) => InRange(f, data.val))
    /\ Kind = "slider" =>
         /\ InRange(f, data.val)
         /\ did.does = "drag" /\ did.by \in 0 .. f.length /\ f.min[1] >= 0 /\ (f.back => f.min[1] = 0) =>
               LET off == PosOf(f, data.val[1]) - did.by
               IN  2 * (IF off < 0 THEN -off ELSE off) * (f.max[1] - f.min[1])
                       <= (f.step + 2) * f.length

=============================================================================
