------------------------------ MODULE Checked -------------------------------
(***************************************************************************)
(* The boxes of a form that check what is typed: jquery.validatebox.js,    *)
(* the rules of easyui-extend-validatebox.js, and what jquery.form.js does *)
(* with them when a form is submitted, as every edit page does it.  A box  *)
(* that has the focus is looked at every 200 ms and checked 200 ms after   *)
(* its text was seen to change.  A text is a sequence of kinds of          *)
(* characters: letters (none of them a d), digits, underscores, other      *)
(* signs, blanks, Chinese characters, and marks of their width.            *)
(***************************************************************************)
EXTENDS Integers, Sequences, FiniteSets, Functions

CONSTANTS
    Boxes,      \* the boxes of the form
    Required,   \* those that must not be empty
    RulesOf,    \* RulesOf[b]: the rules of a box, records [name, n, m]
    Texts,      \* what may be typed
    Switched,   \* the boxes that the page disables and enables
    None,
    Tries,      \* how often an answer is looked for (10 in the code)
    MaxEdits,   \* bound: the number of edits, programmed or by the user
    MaxPosts    \* bound: the number of posts

VARIABLES
    data,       \* per box its text, mark, message, tip, and what watches it
    page        \* the forms that were posted; and history: edits so far, the boxes
                \* whose text was changed twice between two looks

vars == <<data, page>>

Unseen == <<"unseen">>
Fresh == [text |-> <<>>, invalid |-> FALSE, message |-> None, tip |-> None, validating |-> FALSE,
          seen |-> Unseen, timer |-> FALSE, loops |-> 0, disabled |-> FALSE]

CheckedAssumption ==
    Unseen \notin Texts /\ Tries \in Nat /\ MaxEdits \in Nat

Init ==
    /\ data = [b \in Boxes |-> Fresh]
    /\ page = [edits |-> 0, posts |-> {}, changed |-> {}, twice |-> {}]

-----------------------------------------------------------------------------
Only(text, kinds) == text # <<>> /\ Range(text) \subseteq kinds

\* A Chinese character, or a blank, is counted as three bytes.
Utf(text) == Len(text) + 2 * Len(SelectSeq(text, LAMBDA c : c \in {"cjk", "blank"}))

LengthAccepts(rule, text) ==
    CASE rule.name = "length"       -> Len(text) \in rule.n .. rule.m
      [] rule.name = "minLength"    -> Len(text) >= rule.n
      [] rule.name = "maxLength"    -> Len(text) <= rule.n
      [] rule.name = "maxUTFLength" -> Len(text) * 3 <= rule.n \/ Utf(text) <= rule.n

Classes == {"chinese", "english", "englishAndNum", "englishAndNumAndSymbol",
            "stringCheckOnlyEngAndNum", "zipCode", "loginName"}

ClassAccepts(rule, text) ==
    CASE rule.name = "chinese"       -> Only(text, {"cjk", "mark"})
      [] rule.name = "english"       -> Only(text, {"letter"})
      [] rule.name = "englishAndNum" -> Only(text, {"letter", "digit"})
      [] rule.name = "englishAndNumAndSymbol" -> Only(text, {"letter", "digit", "under", "sign"})
      [] rule.name = "stringCheckOnlyEngAndNum" ->
            Only(text, {"letter", "digit"}) /\ text[1] = "letter" /\ Len(text) <= 20
      [] rule.name = "zipCode"       -> Only(text, {"digit"}) /\ Len(text) = 6
      [] rule.name = "loginName"     -> Only(text, {"cjk", "mark", "letter", "digit", "under"})

Accepts(rule, text) ==
    text = <<>> \/ IF rule.name \in Classes THEN ClassAccepts(rule, text) ELSE LengthAccepts(rule, text)

\* The message of a box: that something is missing, or the first rule not kept.
Failing(b, text) ==
    IF b \in Required /\ text = <<>> THEN "missing"
    ELSE LET not == SelectSeq(RulesOf[b], LAMBDA r : ~Accepts(r, text))
         IN IF not = <<>> THEN None ELSE not[1].name
Valid(b, text) == Failing(b, text) = None

ShowTip(d, b) == [d EXCEPT ![b].tip = d[b].message]
HideTip(d, b) == [d EXCEPT ![b].tip = None]

\* A message is shown at once in the box that has the focus.
Validate(d, b) ==
    LET why == Failing(b, d[b].text) IN
    IF why = None THEN HideTip([d EXCEPT ![b].invalid = FALSE], b)
    ELSE LET marked == [d EXCEPT ![b].invalid = TRUE, ![b].message = why]
         IN IF d[b].validating THEN ShowTip(marked, b) ELSE marked

\* The look at a box: a new text is checked after the delay.
Look(d, b) ==
    IF d[b].seen # d[b].text THEN [d EXCEPT ![b].seen = d[b].text, ![b].timer = TRUE] ELSE d

\* Faulty: does not forget the text that was seen before.
FocusedAgain(d, b) == Look([d EXCEPT ![b].validating = TRUE, ![b].loops = @ + 1], b)
Focused(d, b) == Look([d EXCEPT ![b].validating = TRUE, ![b].loops = @ + 1, ![b].seen = Unseen], b)
Blurred(d, b) == HideTip([d EXCEPT ![b].validating = FALSE, ![b].timer = FALSE], b)

\* The form: every box that is not disabled is checked, and the first marked one
\* gets the focus; a disabled one with a mark still counts.
ValidateAll(d) ==
    [b \in Boxes |-> IF d[b].disabled THEN d[b] ELSE Validate(d, b)[b]]
FormValid(d) == \A b \in Boxes : ~ValidateAll(d)[b].invalid

-----------------------------------------------------------------------------
Enabled == {b \in Boxes : ~data[b].disabled}
FocusIn(d) == {b \in Boxes : d[b].validating}

\* The focus leaves the box that has it.
Refocus(d, b) ==
    IF d[b].validating THEN d
    ELSE Focused([c \in Boxes |-> IF d[c].validating THEN Blurred(d, c)[c] ELSE d[c]], b)

Focus(b) ==
    /\ b \in Enabled /\ ~data[b].validating /\ data[b].loops < 2
    /\ data' = Refocus(data, b)
    /\ UNCHANGED page

Blur(b) ==
    /\ data[b].validating
    /\ data' = Blurred(data, b)
    /\ UNCHANGED page

\* The user types in the box with the focus; setData fills a box and checks nothing.
Put(b, text) ==
    /\ page.edits < MaxEdits /\ text # data[b].text
    /\ data' = [data EXCEPT ![b].text = text]
    /\ page' = [page EXCEPT !.edits = @ + 1, !.changed = @ \cup {b},
                            !.twice = @ \cup ({b} \cap page.changed)]
Type(b, text) == data[b].validating /\ Put(b, text)
SetData(b, text) == ~data[b].validating /\ Put(b, text)

\* A watcher of a box comes back: it ends once the focus is gone.
Tick(b) ==
    /\ data[b].loops > 0
    /\ IF data[b].validating
       THEN data' = Look(data, b) /\ page' = [page EXCEPT !.changed = @ \ {b}]
       ELSE data' = [data EXCEPT ![b].loops = @ - 1] /\ UNCHANGED page

Timeout(b) ==
    /\ data[b].timer
    /\ data' = Validate([data EXCEPT ![b].timer = FALSE], b)
    /\ page' = [page EXCEPT !.twice = IF data[b].text = data[b].seen THEN @ \ {b} ELSE @ \cup {b}]

Enter(b) ==
    /\ data[b].invalid /\ data[b].tip = None
    /\ data' = ShowTip(data, b)
    /\ UNCHANGED page
Leave(b) ==
    /\ ~data[b].validating /\ data[b].tip # None
    /\ data' = HideTip(data, b)
    /\ UNCHANGED page

Disable(b) ==
    /\ b \in Switched /\ ~data[b].validating
    /\ data' = [data EXCEPT ![b].disabled = ~@]
    /\ UNCHANGED page

-----------------------------------------------------------------------------
\* submit: a frame of its own takes the answer.
Submit ==
    /\ Cardinality(page.posts) < MaxPosts
    /\ LET d == ValidateAll(data)
           marked == {b \in Enabled : d[b].invalid} IN
       IF FormValid(data)
       THEN /\ data' = d
            /\ page' = [page EXCEPT !.posts = @ \cup
                  {[nr |-> Cardinality(page.posts) + 1, texts |-> [b \in Boxes |-> data[b].text],
                    sent |-> Enabled, left |-> Tries, got |-> None]}]
       ELSE /\ \/ marked = {} /\ data' = d
               \/ \E b \in marked : data[b].loops < 2 /\ data' = Refocus(d, b)
            /\ UNCHANGED page

\* The frame is loaded, or looked at again: an empty body is looked at again a
\* number of times, and the page never hears of a post after the last.
Body(p, empty) ==
    /\ p.got = None /\ p.left > 0
    /\ page' = [page EXCEPT !.posts = (@ \ {p}) \cup
                  {IF empty THEN [p EXCEPT !.left = @ - 1] ELSE [p EXCEPT !.got = "answer"]}]
    /\ UNCHANGED data

Next ==
    \/ \E b \in Boxes :
          \/ Focus(b) \/ Blur(b) \/ Tick(b) \/ Timeout(b) \/ Enter(b) \/ Leave(b) \/ Disable(b)
          \/ \E text \in Texts : Type(b, text) \/ SetData(b, text)
    \/ Submit
    \/ \E p \in page.posts, empty \in BOOLEAN : Body(p, empty)

Spec == Init /\ [][Next]_vars

-----------------------------------------------------------------------------
TypeOK ==
    /\ \A b \in Boxes : data[b].text \in Texts \cup {<<>>} /\ data[b].loops \in 0 .. 2
    /\ page.edits \in 0 .. MaxEdits /\ page.twice \subseteq Boxes
    /\ \A p \in page.posts : p.left \in 0 .. Tries /\ p.got \in {None, "answer"}

\* One box has the focus.  A tip is shown at marked boxes only.  A box with the
\* focus whose text was seen and whose delay is over is marked just when its text
\* is not valid, and then says why; unless the text was changed to another and back
\* before anyone looked.
MarksTold ==
    /\ Cardinality(FocusIn(data)) <= 1
    /\ \A b \in Boxes :
          /\ data[b].tip # None => data[b].invalid
          /\ data[b].validating => data[b].loops > 0
          /\ data[b].validating /\ data[b].seen = data[b].text /\ ~data[b].timer /\ b \notin page.twice =>
                /\ data[b].invalid = ~Valid(b, data[b].text)
                /\ data[b].invalid => data[b].message = Failing(b, data[b].text)

\* What is posted was checked: every box that was not disabled had a valid text.
PostsAreChecked ==
    \A p \in page.posts : \A b \in p.sent : Valid(b, p.texts[b])

=============================================================================
