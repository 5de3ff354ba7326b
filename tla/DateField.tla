----------------------------- MODULE DateField ------------------------------
(***************************************************************************)
(* A field for a date or a time: jquery.calendar.js, jquery.datebox.js and *)
(* jquery.datetimebox.js of easyui/plugins, with the Chinese parser that   *)
(* the pages load.  The field is a text with a calendar below it.  A text  *)
(* is typed and becomes the value after a delay; the calendar moves there. *)
(* A day that is clicked becomes the value; in a field for a time only     *)
(* when ok is pressed, with the time of a spinner.                         *)
(***************************************************************************)
EXTENDS Integers, Sequences, FiniteSets, SequencesExt

CONSTANTS
    Kinds,      \* "date" and "datetime"
    Today,      \* <<year, month, day, time>>
    Times,      \* times of a day; 0 is midnight
    Typed,      \* texts that are typed or set: [form, at]
    Years,      \* bound: the years the calendar may show
    MaxMoves    \* bound: how often buttons and days of the calendar are used

VARIABLES
    data,       \* kind, text, value, previous text, list open, first value;
                \* the calendar: year, month, day; its menu: year and month (<<>>: closed);
                \* the time of the spinner
    page        \* the timer of typing; and history: what explains a surprise

vars == <<data, page>>

-----------------------------------------------------------------------------
(* days of the browser *)
DaysIn(y, m) ==
    CASE m \in {4, 6, 9, 11} -> 30
      [] m = 2 -> IF (y % 4 = 0 /\ y % 100 # 0) \/ y % 400 = 0 THEN 29 ELSE 28
      [] OTHER -> 31
\* Faulty: the year has no end.
NextMonthOn(y, m) == <<y, m + 1>>
NextMonth(y, m) == IF m = 12 THEN <<y + 1, 1>> ELSE <<y, m + 1>>
PrevMonth(y, m) == IF m = 1 THEN <<y - 1, 12>> ELSE <<y, m - 1>>
\* Days since 1 March 0000, and the day of the week, 0 for Sunday.
DayNumber(y, m, d) ==
    LET a == IF m < 3 THEN y - 1 ELSE y
        b == IF m < 3 THEN m + 9 ELSE m - 3
    IN  365 * a + a \div 4 - a \div 100 + a \div 400 + (153 * b + 2) \div 5 + d - 1
Weekday(y, m, d) == (DayNumber(y, m, d) + 3) % 7
\* new Date(y, m - 1, d) with a day that the month has not.
Norm(y, m, d) ==
    IF d <= DaysIn(y, m) THEN <<y, m, d>>
    ELSE LET n == NextMonth(y, m) IN <<n[1], n[2], d - DaysIn(y, m)>>
Day(t) == <<t[1], t[2], t[3]>>

-----------------------------------------------------------------------------
(* calendar *)
\* getWeeks: the days of a month, with days before and after it in the weeks that
\* are not full; a whole week of the month before if the first is full, and one
\* of the month after if there are five then.
Weeks(y, m) ==
    LET first  == Weekday(y, m, 1)
        before == IF first = 0 THEN 7 ELSE first
        prev   == PrevMonth(y, m)
        next   == NextMonth(y, m)
        days   == [i \in 1 .. before |-> <<prev[1], prev[2], DaysIn(prev[1], prev[2]) - before + i>>]
                  \o [i \in 1 .. DaysIn(y, m) |-> <<y, m, i>>]
        rest   == (7 - (Len(days) % 7)) % 7
        after  == IF Len(days) + rest < 42 THEN rest + 7 ELSE rest
    IN  days \o [i \in 1 .. after |-> <<next[1], next[2], i>>]

\* moveTo shows the month of a day, marks it and closes the menu.
MoveTo(d, day) == [d EXCEPT !.year = day[1], !.month = day[2], !.cur = day, !.menu = <<>>]
ShownMonth(d, ym) ==
    [d EXCEPT !.year = ym[1], !.month = ym[2], !.menu = IF @ = <<>> THEN @ ELSE <<@[1], ym[2]>>]

-----------------------------------------------------------------------------
(* the field *)
Empty == [form |-> "empty", at |-> <<0, 0, 0, 0>>]
Text(day, time) == [form |-> "dash", at |-> Append(day, time)]
ParsedDay(t) == IF t.form = "dash" THEN Norm(t.at[1], t.at[2], t.at[3]) ELSE Day(Today)
\* A time after a day that cannot be read is kept.
ParsedTime(t) == IF t.form \in {"dash", "slash"} THEN t.at[4] ELSE Today[4]
Formatted(d, t) == Text(ParsedDay(t), IF d.kind = "date" THEN 0 ELSE ParsedTime(t))

SetText(d, t) == [d EXCEPT !.text = t, !.previous = t]
\* setValue; remain: the text is left alone.
Set(d, t, remain) ==
    IF d.kind = "date" THEN MoveTo(SetText([d EXCEPT !.val = t], t), ParsedDay(t))
    ELSE LET e == IF remain THEN [d EXCEPT !.val = t]
                  ELSE IF t = Empty THEN SetText([d EXCEPT !.val = t], t)
                  ELSE SetText([d EXCEPT !.val = Formatted(d, t)], Formatted(d, t))
         IN  [MoveTo(e, ParsedDay(t)) EXCEPT !.time = ParsedTime(t)]

ShowPanel(d) ==
    IF d.open THEN d
    ELSE IF d.kind = "date" THEN [d EXCEPT !.open = TRUE] ELSE Set([d EXCEPT !.open = TRUE], d.val, TRUE)
HidePanel(d) == [d EXCEPT !.open = FALSE]

Init ==
    /\ \E k \in Kinds, t \in {u \in Typed : u.form \in {"dash", "empty"}} :
          data = Set([kind |-> k, text |-> t, val |-> t, previous |-> t, orig |-> t, open |-> FALSE,
                      year |-> Today[1], month |-> Today[2], cur |-> Day(Today), menu |-> <<>>,
                      time |-> 0], t, FALSE)
    /\ page = [timer |-> FALSE, moves |-> 0, mixed |-> {}]

Becomes(d, p) == d.year \in Years \cup {0} /\ p.moves <= MaxMoves /\ data' = d /\ page' = p
Mixed(what) == [page EXCEPT !.mixed = @ \cup what]
Moved(what) == [page EXCEPT !.mixed = @ \cup what, !.moves = @ + 1]
Broken == data.year = 0

-----------------------------------------------------------------------------
MonthButton(by) ==
    /\ data.open
    /\ LET to == IF by > 0 THEN NextMonth(data.year, data.month) ELSE PrevMonth(data.year, data.month)
       IN  IF Broken THEN Becomes([data EXCEPT !.month = to[2]], Moved({}))
           ELSE Becomes(ShownMonth(data, to), Moved({}))
YearButton(by) ==
    /\ data.open /\ ~ Broken
    /\ Becomes([data EXCEPT !.year = @ + by, !.menu = IF @ = <<>> THEN @ ELSE <<data.year + by, @[2]>>], Moved({}))
Title ==
    /\ data.open
    /\ Becomes([data EXCEPT !.menu = IF @ = <<>> THEN <<data.year, data.month>> ELSE <<>>], page)
\* The year of the menu may be left empty (0).
MenuYear(y) == data.open /\ data.menu # <<>> /\ Becomes([data EXCEPT !.menu[1] = y], page)
\* The month that is picked or marked, of the year of the menu; an empty one is
\* no number, on which the drawing of the days ends before the menu is closed.
MenuPick(m) ==
    /\ data.open /\ data.menu # <<>>
    /\ LET y == data.menu[1]
       IN  Becomes([data EXCEPT !.year = y, !.month = m, !.menu = IF y = 0 THEN <<0, m>> ELSE <<>>], page)

\* Faulty: the value is set, but the list stays open with the month it showed.
PickDayOnly(day) ==
    IF data.kind = "date" THEN SetText([data EXCEPT !.cur = day, !.val = Text(day, 0)], Text(day, 0))
    ELSE [data EXCEPT !.cur = day]
DayPicked(day) ==
    IF data.kind = "date" THEN HidePanel(Set([data EXCEPT !.cur = day], Text(day, 0), FALSE))
    ELSE [data EXCEPT !.cur = day]
PickDay(day) ==
    /\ data.open /\ data.menu = <<>> /\ ~ Broken /\ day \in ToSet(Weeks(data.year, data.month))
    /\ Becomes(DayPicked(day), Moved(IF data.kind = "datetime" THEN {"moved"} ELSE {}))
TodayButton == data.open /\ Becomes(MoveTo(data, Day(Today)), Mixed({"moved"}))
SpinTime(t) == data.open /\ data.kind = "datetime" /\ Becomes([data EXCEPT !.time = t], Mixed({"moved"}))

\* ok and Enter: the day of the calendar with the time of the spinner, whatever
\* is in the text.
Done(d) == HidePanel(Set(d, Text(d.cur, IF d.kind = "date" THEN 0 ELSE d.time), FALSE))
Ok == data.open /\ data.kind = "datetime" /\ Becomes(Done(data), [page EXCEPT !.mixed = @ \ {"moved"}])
Enter == Becomes(Done(data), [page EXCEPT !.mixed = @ \ {"moved", "cleared"}])

Arrow ==
    IF data.open THEN Becomes(HidePanel(data), page)
    ELSE Becomes(ShowPanel(data), [page EXCEPT !.mixed = IF data.kind = "date" THEN @ ELSE @ \ {"moved"}])
Close == data.open /\ Becomes(HidePanel(data), page)

Type(t) == Becomes([data EXCEPT !.text = t], [page EXCEPT !.timer = TRUE])
TimerFires ==
    /\ page.timer
    /\ LET q == data.text
           p == [page EXCEPT !.timer = FALSE]
       IN  IF q = data.previous THEN Becomes(data, p)
           ELSE Becomes(Set(ShowPanel([data EXCEPT !.previous = q]), q, TRUE),
                        [p EXCEPT !.mixed = @ \ {"moved", "cleared"}])

SetValue(t) == Becomes(Set(data, t, FALSE), [page EXCEPT !.mixed = @ \ {"moved", "cleared"}])
SetDefault == SetValue(Text(Day(Today), IF data.kind = "date" THEN 0 ELSE Today[4]))
Reset == SetValue(data.orig)
\* clear of the text field below: nothing else hears of it.
Clear == Becomes([data EXCEPT !.text = Empty, !.val = Empty], Mixed({"cleared"}))

Next ==
    \/ Title \/ TodayButton \/ Ok \/ Enter \/ Arrow \/ Close
    \/ \E by \in {-1, 1} : MonthButton(by) \/ YearButton(by)
    \/ \E y \in Years \cup {0} : MenuYear(y)
    \/ \E m \in {data.month, 2} : MenuPick(m)
    \/ \E w \in {1, 42} : PickDay(Weeks(data.year, data.month)[w])
    \/ \E t \in Times : SpinTime(t)
    \/ \E t \in Typed : Type(t) \/ SetValue(t)
    \/ TimerFires \/ SetDefault \/ Reset \/ Clear

Spec == Init /\ [][Next]_vars

-----------------------------------------------------------------------------
TypeOK ==
    /\ data.kind \in Kinds /\ data.open \in BOOLEAN
    /\ data.year \in Years \cup {0} /\ data.month \in 1 .. 12 /\ data.menu \in {<<>>} \cup ((Years \cup {0}) \X (1 .. 12))
    /\ data.time \in Times \cup {Today[4]} /\ page.timer \in BOOLEAN

\* The calendar shows six weeks of days that follow each other, Sundays first,
\* with every day of the month; once typing was looked at, the text is the value,
\* and the calendar is at its day (at today if it cannot read the text), unless a
\* day or today was picked without ok, or the field was cleared; and the menu is
\* at the month of the calendar.
ShowsItsDay ==
    /\ ~ Broken =>
         LET w     == Weeks(data.year, data.month)
             shown == ToSet(w)
         IN
         /\ Len(w) = 42
         /\ Weekday(w[1][1], w[1][2], w[1][3]) = 0
         /\ \A i \in 1 .. 41 :
               DayNumber(w[i + 1][1], w[i + 1][2], w[i + 1][3]) = DayNumber(w[i][1], w[i][2], w[i][3]) + 1
         /\ \A i \in 1 .. DaysIn(data.year, data.month) : <<data.year, data.month, i>> \in shown
    /\ ~ page.timer /\ "cleared" \notin page.mixed => data.text = data.val
    /\ page.mixed \cap {"moved", "cleared"} = {} =>
         /\ data.cur = ParsedDay(data.val)
         /\ data.kind = "datetime" => data.time = ParsedTime(data.val)
    /\ data.menu # <<>> /\ ~ Broken => data.month = data.menu[2]

=============================================================================
