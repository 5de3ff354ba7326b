------------------------------ MODULE EditForm ------------------------------
(***************************************************************************)
(* The form of an edit page: easyui/plugins/jquery.form.js with            *)
(* easyui/extends/easyui-extend-form.js, as modifyusr.jsp and orgindex.jsp *)
(* use them.  It shows a record the server sends, and collects what to     *)
(* save.  It has a text, fields with a list for one value and for many, a  *)
(* date, check boxes and radio buttons of one name; a record has an id,    *)
(* which the form does not show.                                           *)
(***************************************************************************)
EXTENDS Integers, Sequences, FiniteSets

CONSTANTS
    Records,    \* what the server may send: some fields, with their values
    Words,      \* values of the fields for one value; of the fields for many
    Picks,      \* a subset of this
    Trimmed,    \* a value without the blanks around it
    Days,       \* dates the user may enter
    Fixed,      \* the fields that the page has disabled itself
    None,
    MaxAsked    \* bound: the number of records that are asked for

VARIABLES
    data,       \* the values shown, the record the form keeps, what is disabled
                \* and readonly
    page        \* requests; and history: the record set last, whether the user
                \* changed something since, and what explains a surprise

vars == <<data, page>>

Single == {"text", "one", "date"}       \* inputs with one value
Groups == {"many", "ways"}              \* with several: a list, check boxes
Wordy == {"text", "one", "radio"}       \* with a word
Fields == Single \cup Groups \cup {"radio"}
NotCombos == {"text", "ways", "radio"}

\* A date is a text of DateText, or empty; as it is sent and entered, and as it is
\* shown, where it may be torn or anything the browser makes of it.
DT == INSTANCE DateText WITH Years <- {}, Numbers <- {}, Olds <- {}
NoDate == [form |-> "empty"]
Forms == {"dash", "slash", "dot", "plain"}
DatesOf(forms) == [form : forms, wide : BOOLEAN, time : BOOLEAN, y : Nat, m : Nat, d : Nat]
Written == DatesOf(Forms) \cup {NoDate}
DateTexts == DatesOf(Forms \cup {"torn"}) \cup {NoDate, DT!Anything}

Nothing(f) == IF f \in Groups THEN {} ELSE IF f = "date" THEN NoDate ELSE ""
Value(r, f) == IF f \in DOMAIN r THEN r[f] ELSE Nothing(f)
Blank == [f \in Fields |-> Nothing(f)]
TypeOf(f) == IF f \in Groups THEN SUBSET Picks ELSE IF f = "date" THEN DateTexts ELSE Words \cup {""}

EditAssumption ==
    /\ MaxAsked \in Nat /\ Fixed \subseteq Fields /\ None \notin Records
    /\ Trimmed \in [Words \cup {""} -> Words \cup {""}] /\ Trimmed[""] = ""
    /\ Days \subseteq Written
    /\ \A r \in Records : \A f \in Fields \cap DOMAIN r :
          r[f] \in IF f = "date" THEN Written ELSE TypeOf(f)

Init ==
    /\ data = [shown |-> Blank, kept |-> <<>>, disabled |-> Fixed, readonly |-> {}, broken |-> FALSE]
    /\ page = [nr |-> 0, net |-> {}, last |-> None, touched |-> FALSE, mixed |-> {}]

-----------------------------------------------------------------------------
(* setData: a list for many values is found by its hidden inputs, of which  *)
(* it has one for each value, thus none when it is empty; boxes and buttons *)
(* are checked and never unchecked.  A date is shown as a day with dashes,  *)
(* without its time, however it was written.                                *)
AsDay(v) == IF v = NoDate THEN NoDate ELSE DT!hitooDateStringFormat(v)
Put(shown, r, fields) ==
    [f \in Fields |->
        CASE f \notin fields -> shown[f]
          [] f \in fields /\ f = "date" -> AsDay(Value(r, f))
          [] f \in fields /\ f \in {"text", "one"} -> Value(r, f)
          [] f \in fields /\ f = "many"   -> IF shown[f] = {} \/ Value(r, f) = {} THEN shown[f] ELSE Value(r, f)
          [] f \in fields /\ f = "ways"   -> shown[f] \cup Value(r, f)
          [] f \in fields /\ f = "radio"  -> IF Value(r, f) = "" THEN shown[f] ELSE Value(r, f)]

\* Faulty: fields the record does not have keep what they show.
PutPartly(d, r) == [d EXCEPT !.kept = r, !.shown = Put(@, r, Fields \cap DOMAIN r)]
SetData(d, r) == [d EXCEPT !.kept = r, !.shown = Put(@, r, Fields)]
SetDataWithNotAllDataMap(d, r) == [d EXCEPT !.kept = r, !.shown = Put(@, r, Fields \cap DOMAIN r)]

\* load of easyui unchecks first, checks what equals the value, asks for an array
\* for many, and shows a date as it is.
Load(d, r) ==
    [d EXCEPT !.shown = [f \in Fields |-> IF f \notin DOMAIN r THEN @[f]
                                          ELSE IF f = "ways" /\ Cardinality(r[f]) > 1 THEN {} ELSE r[f]]]

\* getData: the record that is kept, with what the inputs have, trimmed.
GetData(d) ==
    [f \in Fields \cup DOMAIN d.kept |->
        IF f \in Wordy THEN Trimmed[d.shown[f]]
        ELSE IF f \in Fields /\ (f = "many" => d.shown[f] # {}) THEN d.shown[f]
        ELSE IF f \in DOMAIN d.kept THEN d.kept[f] ELSE {}]

Clear(d) == [d EXCEPT !.shown = Blank]

\* disable, enable and readonly leave alone what the page has fixed; readonly
\* calls a method that combos do not have.
Disable(d) == [d EXCEPT !.disabled = Fields]
Enable(d) == [d EXCEPT !.disabled = Fixed]
Readonly(d, on) ==
    [d EXCEPT !.readonly = IF on THEN @ \cup (NotCombos \ Fixed) ELSE @ \ (NotCombos \ Fixed), !.broken = TRUE]

-----------------------------------------------------------------------------
Becomes(d, p) == data' = d /\ page' = p
Set(r) == [page EXCEPT !.last = r, !.touched = FALSE,
                       !.mixed = @ \cup (IF page.last = None /\ ~page.touched THEN {} ELSE {"again"})]

Ask(r) ==
    /\ page.nr < MaxAsked
    /\ Becomes(data, [page EXCEPT !.nr = @ + 1, !.net = @ \cup {[nr |-> page.nr + 1, record |-> r]}])
Answer(q) ==
    Becomes(SetData(data, q.record), [Set(q.record) EXCEPT !.net = @ \ {q}])
Fail(q) == Becomes(data, [page EXCEPT !.net = @ \ {q}])
SetPartly(r) ==
    Becomes(SetDataWithNotAllDataMap(data, r), [page EXCEPT !.last = r, !.touched = TRUE])
LoadIt(r) == Becomes(Load(data, r), [page EXCEPT !.touched = TRUE])
ClearIt == Becomes(Clear(data), [page EXCEPT !.touched = TRUE])

\* The user changes a field that is neither disabled nor readonly.
Change(f, v) ==
    /\ f \notin data.disabled \cup data.readonly
    /\ Becomes([data EXCEPT !.shown[f] = v], [page EXCEPT !.touched = TRUE])

Lock ==
    \/ Becomes(Disable(data), page)
    \/ Becomes(Enable(data), page)
    \/ \E on \in BOOLEAN : Becomes(Readonly(data, on), page)

Next ==
    \/ \E r \in Records : Ask(r) \/ SetPartly(r) \/ LoadIt(r)
    \/ \E q \in page.net : Answer(q) \/ Fail(q)
    \/ \E f \in Wordy, v \in Words : Change(f, v)
    \/ \E v \in Days : Change("date", v)
    \/ \E f \in Groups, v \in SUBSET Picks : Change(f, v)
    \/ ClearIt \/ Lock

Spec == Init /\ [][Next]_vars

-----------------------------------------------------------------------------
TypeOK ==
    /\ \A f \in Fields : data.shown[f] \in TypeOf(f)
    /\ data.disabled \subseteq Fields /\ data.readonly \subseteq NotCombos /\ data.broken \in BOOLEAN
    /\ page.nr \in 0 .. MaxAsked /\ page.touched \in BOOLEAN

\* Dates that setData can read; of others the browser makes what it likes.
Legible(v) == (DT!isDate(v) \/ DT!isDateTime(v)) /\ (v.wide \/ v.m > 9 \/ v.d > 9)

\* A record that is shown and saved untouched goes to the record it came from, and
\* comes back as it was but for blanks around its words, and for its date: that is
\* the same day, in dashes and without the time, if it was legible.  Where boxes and
\* buttons are concerned, it does only if nothing was shown before, and a list of
\* many values because an empty one keeps the record's.
\* What the page has disabled stays so.
ComesBack ==
    LET got == GetData(data) IN
    /\ page.last # None /\ ~page.touched =>
          /\ \A f \in DOMAIN page.last \ Fields : got[f] = page.last[f]
          /\ \A f \in {"text", "one"} : got[f] = Trimmed[Value(page.last, f)]
          /\ LET day == Value(page.last, "date") IN
             IF day = NoDate THEN got["date"] = NoDate
             ELSE Legible(day) => got["date"] = [day EXCEPT !.form = "dash", !.time = FALSE]
          /\ "again" \notin page.mixed =>
                /\ got["radio"] = Trimmed[Value(page.last, "radio")]
                /\ got["ways"] = Value(page.last, "ways")
          /\ Value(page.last, "ways") \subseteq got["ways"]
          /\ data.shown["many"] = {} => got["many"] = Value(page.last, "many")
    /\ Fixed \subseteq data.disabled

=============================================================================
