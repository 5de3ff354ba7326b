----------------------------- MODULE SearchBox ------------------------------
(***************************************************************************)
(* The search box, easyui/plugins/jquery.searchbox.js: a text, a button,   *)
(* and a menu of what may be searched.  While it has no focus an empty box *)
(* shows a prompt, which is never searched for.                            *)
(***************************************************************************)
EXTENDS Sequences, FiniteSets

CONSTANTS
    Words, Prompt,  \* texts that are typed or set; the text of the prompt
    Names           \* what may be searched

VARIABLES
    data,       \* value, text, is it gray, name, disabled menu rows
    page        \* focus; what was searched last, and what was to be seen then

vars == <<data, page>>
Typed == Words \cup {""}

-----------------------------------------------------------------------------
\* initValue
Shown(d) == [d EXCEPT !.text = IF d.val = "" THEN Prompt ELSE d.val, !.gray = d.val = ""]
\* Faulty: the prompt is shown, but the value is left.
BlurredText(d) == [d EXCEPT !.text = IF @ = "" THEN Prompt ELSE @, !.gray = d.text = ""]
\* Blur takes the text for the value.
Blurred(d) == Shown([d EXCEPT !.val = d.text])
\* Focus takes the value for the text.
Focused(d) == [d EXCEPT !.text = d.val, !.gray = FALSE]
Seen(d) == IF d.gray THEN "" ELSE d.text
Searched(d, word) == [page EXCEPT !.asked = <<<<word, d.name>>, <<Seen(d), d.shows>>>>]

Init ==
    /\ \E v \in Typed, n \in Names :
          data = Shown([val |-> v, text |-> v, gray |-> FALSE, name |-> n, shows |-> n, off |-> {}])
    /\ page = [focus |-> FALSE, asked |-> <<>>]

Becomes(d, p) == data' = d /\ page' = p

-----------------------------------------------------------------------------
Focus == ~ page.focus /\ Becomes(Focused(data), [page EXCEPT !.focus = TRUE])
Type(w) == page.focus /\ Becomes([data EXCEPT !.text = w], page)
Blur == page.focus /\ Becomes(Blurred(data), [page EXCEPT !.focus = FALSE])
Enter ==
    /\ page.focus
    /\ LET d == [data EXCEPT !.val = data.text] IN Becomes(d, Searched(d, d.val))
\* A click on the button, which first takes the focus away.
Click ==
    LET d == IF page.focus THEN Blurred(data) ELSE data
    IN  Becomes(d, [Searched(d, d.val) EXCEPT !.focus = FALSE])
\* A choice in the menu: the button is made again with the text of the row.
\* A row that is disabled is not chosen, by name either.
Select(n) ==
    /\ n \notin data.off
    /\ Becomes([data EXCEPT !.name = n, !.shows = n], page)
TurnRow(n) == Becomes([data EXCEPT !.off = IF n \in @ THEN @ \ {n} ELSE @ \cup {n}], page)
SetValue(w) ==
    Becomes(Blurred([data EXCEPT !.val = w, !.text = w]), [page EXCEPT !.focus = FALSE])

Next ==
    \/ Focus \/ Blur \/ Enter \/ Click
    \/ \E w \in Typed : Type(w) \/ SetValue(w)
    \/ \E n \in Names : Select(n) \/ TurnRow(n)

Spec == Init /\ [][Next]_vars

-----------------------------------------------------------------------------
TypeOK ==
    /\ data.val \in Typed /\ data.text \in Typed \cup {Prompt} /\ data.gray \in BOOLEAN
    /\ data.name \in Names /\ data.off \subseteq Names /\ page.focus \in BOOLEAN

\* What is searched is what is to be seen in the box, the prompt being nothing;
\* and without the focus the box shows its value, or the prompt.
SearchesShown ==
    /\ page.asked # <<>> => page.asked[1] = page.asked[2]
    /\ ~ page.focus => Seen(data) = data.val /\ (data.gray => data.text = Prompt)

=============================================================================
