------------------------------ MODULE DateText ------------------------------
(***************************************************************************)
(* Texts of dates and the numbers of identity cards: the functions on      *)
(* dates of js/control.js, and js/SfzhmUtil.js, which takes the sex and    *)
(* the birthday out of a number when a user is entered.  A text of a date  *)
(* is what its parts are and how they are written; a number is a sequence  *)
(* of digits, in which 10 stands for the X that may be the last.           *)
(***************************************************************************)
EXTENDS Integers, Sequences

CONSTANTS
    Years,      \* years that are tried
    Numbers,    \* identity numbers, as far as the check digit
    Olds        \* identity numbers of 15 digits

VARIABLES
    data,       \* the kind of text, and the text
    page        \* what was done to a right number: "right", "slip" or "swap"

vars == <<data, page>>

-----------------------------------------------------------------------------
(* the days of the browser's dates *)
LeapYear(y) == (y % 4 = 0 /\ y % 100 # 0) \/ y % 400 = 0
RealLeap(y) == \/ y % 400 = 0
               \/ y % 4 = 0 /\ y % 100 # 0
DaysIn(y, m) ==
    CASE m \in {4, 6, 9, 11} -> 30 [] m = 2 -> IF RealLeap(y) THEN 29 ELSE 28 [] OTHER -> 31
Real(y, m, d) == m \in 1 .. 12 /\ d \in 1 .. DaysIn(y, m)

-----------------------------------------------------------------------------
(* control.js *)
\* Month and day have two digits each, written with a zero or without.
Padded(t) == t.wide \/ (t.m > 9 /\ t.d > 9)
\* Only the first dot becomes a dash; what is eight characters long is taken for
\* yyyyMMdd, and yyyy-M-d is too.
Dashed(t) ==
    CASE t.form \in {"dash", "slash", "plain"} /\ Padded(t) -> [t EXCEPT !.form = "dash"]
      [] t.form \in {"dash", "slash"} /\ ~ Padded(t) ->
           IF t.m < 10 /\ t.d < 10 THEN [t EXCEPT !.form = "torn"] ELSE [t EXCEPT !.form = "dash"]
      [] OTHER -> t
LongMonth(t) == t.m \in {4, 6, 9, 11} => t.d <= 30
February(t) == t.m = 2 => t.d <= IF LeapYear(t.y) THEN 29 ELSE 28
InFormat(t) == t.form = "dash" /\ t.m \in 1 .. 12 /\ t.d \in 1 .. 31 /\ LongMonth(t) /\ February(t)
isDate(t) == ~ t.time /\ LET u == Dashed(t) IN Padded(u) /\ InFormat(u)
isDateTime(t) == t.time /\ InFormat(IF t.form = "slash" THEN [t EXCEPT !.form = "dash"] ELSE t)

\* A text that is neither is left to the browser, which may make anything of it.
Anything == [form |-> "anything"]
hitooDateStringFormat(t) ==
    IF isDate(t) \/ isDateTime(t) THEN Dashed([t EXCEPT !.time = FALSE]) ELSE Anything
hitooDateTimeStringFormat(t) ==
    CASE isDateTime(t) -> t
      [] isDate(t) -> [t EXCEPT !.time = TRUE]
      [] OTHER -> Anything

-----------------------------------------------------------------------------
(* SfzhmUtil.js *)
Weights == <<7, 9, 10, 5, 8, 4, 2, 1, 6, 3, 7, 9, 10, 5, 8, 4, 2>>
Sums[s \in Seq(0 .. 10), n \in 0 .. 17] == IF n = 0 THEN 0 ELSE Sums[s, n - 1] + s[n] * Weights[n]
calcCheckSum(s) ==
    LET i == Sums[s, 17] % 11
    IN  CASE i > 2 -> 12 - i [] i = 2 -> 10 [] OTHER -> 1 - i
validateCheckSum(s) == s[18] = calcCheckSum(s)
Pair(s, i) == 10 * s[i] + s[i + 1]
BirthYear(s) == IF Len(s) = 18 THEN 100 * Pair(s, 7) + Pair(s, 9) ELSE Pair(s, 7)
BirthMonth(s) == IF Len(s) = 18 THEN Pair(s, 11) ELSE Pair(s, 9)
BirthDate(s) == IF Len(s) = 18 THEN Pair(s, 13) ELSE Pair(s, 11)
NoIllegalChar(s) == \A i \in DOMAIN s : s[i] = 10 => Len(s) = 18 /\ i = 18
\* Faulty: the day is not looked at.
checkMonthOnly(s) ==
    /\ Len(s) = 18 => BirthYear(s) \in 1900 .. 2100
    /\ BirthMonth(s) \in 1 .. 12
\* The year of a number with 15 digits has two: 00 passes for a leap year.
checkSfzhmDate(s) ==
    LET y == BirthYear(s)  m == BirthMonth(s)  d == BirthDate(s) IN
    /\ checkMonthOnly(s)
    /\ d # 0 /\ d <= 31
    /\ d \in 29 .. 30 /\ m = 2 => d = 29 /\ y % 4 = 0 /\ (y % 100 # 0 \/ y % 400 = 0)
    /\ d = 31 => m \notin {2, 4, 6, 9, 11}
checkSfzhm(s) ==
    /\ NoIllegalChar(s) /\ Len(s) \in {15, 18}
    /\ checkSfzhmDate(s)
    /\ Len(s) = 18 => validateCheckSum(s)
\* <<>> if there is no birthday; of 15 digits nothing is looked at.
getBirthDayFromSfzhm(s) ==
    IF Len(s) = 15
    THEN <<1900 + BirthYear(s), BirthMonth(s), BirthDate(s)>>
    ELSE IF Len(s) = 18 /\ checkSfzhmDate(s) THEN <<BirthYear(s), BirthMonth(s), BirthDate(s)>> ELSE <<>>
getSexFromSfzhm(s) ==
    LET i == IF Len(s) = 18 THEN 17 ELSE 15
    IN  IF Len(s) \notin {15, 18} THEN "" ELSE IF s[i] % 2 = 0 THEN "2" ELSE "1"

-----------------------------------------------------------------------------
Dates == [form : {"dash", "slash", "dot", "plain"}, wide : BOOLEAN, time : BOOLEAN,
          y : Years, m : 0 .. 13, d : 0 .. 32]
Init ==
    /\ page = "right"
    /\ \/ \E t \in Dates : (t.form = "plain" => t.wide) /\ data = [kind |-> "date", text |-> t]
       \/ \E s \in Numbers : data = [kind |-> "card", text |-> Append(s, calcCheckSum(s))]
       \/ \E s \in Olds : data = [kind |-> "card", text |-> s]

\* Somebody mistypes a number: one digit is another, or two change places.
Slip(i, n) ==
    /\ i = 18 \/ n # 10
    /\ data' = [data EXCEPT !.text[i] = n]
    /\ page' = "slip"
Swap(i) ==
    /\ data' = [data EXCEPT !.text[i] = data.text[i + 1], !.text[i + 1] = data.text[i]]
    /\ page' = "swap"
Next ==
    /\ data.kind = "card" /\ Len(data.text) = 18 /\ page = "right"
    /\ \/ \E i \in 1 .. 18, n \in 0 .. 10 : n # data.text[i] /\ Slip(i, n)
       \/ \E i \in 1 .. 17 : data.text[i] # data.text[i + 1] /\ Swap(i)

Spec == Init /\ [][Next]_vars

-----------------------------------------------------------------------------
TypeOK == data.kind \in {"date", "card"} /\ page \in {"right", "slip", "swap"}

\* A date that is accepted is a real day, however it is written (with dots it
\* never is), and what is shown of it is that day again, unless it is a time
\* whose day and month have one digit each; as a time it is accepted again, but
\* for yyyyMMdd.
AcceptsRealDays ==
    data.kind = "date" =>
    LET t == data.text  shown == hitooDateStringFormat(t)  long == hitooDateTimeStringFormat(t) IN
    /\ isDate(t) \/ isDateTime(t) => Real(t.y, t.m, t.d)
    /\ Real(t.y, t.m, t.d) /\ t.form # "dot" /\ t.wide /\ (t.time => t.form # "plain")
         => isDate(t) \/ isDateTime(t)
    /\ (isDate(t) \/ isDateTime(t)) /\ (t.wide \/ t.m > 9 \/ t.d > 9)
         => shown.form = "dash" /\ <<shown.y, shown.m, shown.d>> = <<t.y, t.m, t.d>>
    /\ (isDate(t) \/ isDateTime(t)) /\ t.form # "plain" => isDateTime(long)

\* A number that is accepted was born on a real day, of 15 digits unless it says
\* 29 February 00; and no number with one wrong digit, or two that changed
\* places, is accepted.
NumbersAreChecked ==
    data.kind = "card" =>
    LET s == data.text  b == getBirthDayFromSfzhm(s) IN
    /\ checkSfzhm(s) => b # <<>> /\ (Real(b[1], b[2], b[3]) \/ (Len(s) = 15 /\ b = <<1900, 2, 29>>))
    /\ page # "right" => ~ checkSfzhm(s)
    /\ Len(s) = 18 /\ page = "right" => (checkSfzhm(s) <=> checkSfzhmDate(s))

=============================================================================
