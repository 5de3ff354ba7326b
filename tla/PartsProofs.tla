----------------------------- MODULE PartsProofs -----------------------------
(***************************************************************************)
(* Proofs about the parts, for any values of the constants: what fields    *)
(* and forms send, what is checked before it is posted, that lists show    *)
(* what they keep, what a window or a box that is pulled looks like, that  *)
(* posts come back to their page, the tab in front and the menu a page     *)
(* asks for, what is left of organisations and what their tree shows, and, *)
(* of the dictionary, what DictionaryProofs has shown of it.               *)
(***************************************************************************)
EXTENDS Parts, FiniteSetTheorems, SequenceTheorems, TLAPS

-----------------------------------------------------------------------------
(* Sequences.                                                                *)

LEMMA SeqElements ==
    ASSUME NEW S, NEW s \in Seq(S)
    PROVE  /\ Len(s) \in Nat /\ DOMAIN s = 1 .. Len(s) /\ (s = <<>> <=> Len(s) = 0)
           /\ \A i \in DOMAIN s : s[i] \in S
BY LenProperties, EmptySeq, ElementOfSeq

-----------------------------------------------------------------------------
(* SearchBox.                                                                *)

SearchData ==
    [val : SB!Typed, text : SB!Typed \cup {Prompt}, gray : BOOLEAN, name : SearchNames, shows : SearchNames,
     off : SUBSET SearchNames]

\* The button shows the name that is searched by; with the focus the box has a
\* text of the user's, and without it the value, or the prompt.
SearchInv(d, p) ==
    /\ d \in SearchData /\ d.name = d.shows
    /\ p \in [focus : BOOLEAN, asked : {p.asked}]
    /\ p.asked # <<>> => p.asked[1] = p.asked[2]
    /\ p.focus => ~d.gray /\ d.text \in SB!Typed
    /\ ~p.focus => SB!Seen(d) = d.val /\ (d.gray => d.text = Prompt)

LEMMA SearchStart ==
    ASSUME SB!Init
    PROVE  SearchInv(data, page)
<1>1. PICK v \in SB!Typed, n \in SearchNames :
        data = SB!Shown([val |-> v, text |-> v, gray |-> FALSE, name |-> n, shows |-> n, off |-> {}])
    BY DEF SB!Init
<1>2. data = [val |-> v, text |-> IF v = "" THEN Prompt ELSE v, gray |-> v = "", name |-> n, shows |-> n, off |-> {}]
    BY <1>1 DEF SB!Shown
<1>3. page = [focus |-> FALSE, asked |-> <<>>]
    BY DEF SB!Init
<1> QED BY <1>2, <1>3 DEF SearchInv, SearchData, SB!Seen, SB!Typed

\* A value that is set or left is shown, and a search asks for what is seen.
LEMMA SearchShown ==
    ASSUME NEW d \in SearchData
    PROVE  /\ SB!Shown(d) \in SearchData /\ SB!Shown(d).name = d.name /\ SB!Shown(d).shows = d.shows
           /\ SB!Shown(d).val = d.val
           /\ SB!Seen(SB!Shown(d)) = d.val /\ (SB!Shown(d).gray => SB!Shown(d).text = Prompt)
BY DEF SearchData, SB!Shown, SB!Seen, SB!Typed

LEMMA SearchBlurred ==
    ASSUME NEW d \in SearchData, d.text \in SB!Typed
    PROVE  /\ SB!Blurred(d) \in SearchData /\ SB!Blurred(d).name = d.name /\ SB!Blurred(d).shows = d.shows
           /\ SB!Seen(SB!Blurred(d)) = SB!Blurred(d).val
           /\ (SB!Blurred(d).gray => SB!Blurred(d).text = Prompt)
<1>1. [d EXCEPT !.val = d.text] \in SearchData
    BY DEF SearchData
<1>2. [d EXCEPT !.val = d.text].name = d.name /\ [d EXCEPT !.val = d.text].shows = d.shows
    BY DEF SearchData
<1> QED BY <1>1, <1>2, SearchShown DEF SB!Blurred

LEMMA SearchStep ==
    ASSUME SearchInv(data, page), [SB!Next]_(<<data, page>>)
    PROVE  SearchInv(data', page')
<1> USE DEF SB!Becomes
<1>0. data \in SearchData /\ data.name = data.shows /\ page \in [focus : BOOLEAN, asked : {page.asked}]
    BY DEF SearchInv
<1>1. CASE SB!Focus
    <2>1. /\ data' = [data EXCEPT !.text = data.val, !.gray = FALSE]
          /\ page' = [page EXCEPT !.focus = TRUE]
        BY <1>1 DEF SB!Focus, SB!Focused
    <2> QED BY <1>0, <2>1 DEF SearchInv, SearchData
<1>2. CASE SB!Blur
    <2>1. /\ page.focus /\ data' = SB!Blurred(data) /\ page' = [page EXCEPT !.focus = FALSE]
        BY <1>2 DEF SB!Blur
    <2>2. data.text \in SB!Typed
        BY <2>1 DEF SearchInv
    <2>3. /\ data' \in SearchData /\ data'.name = data.name /\ data'.shows = data.shows
          /\ SB!Seen(data') = data'.val /\ (data'.gray => data'.text = Prompt)
        BY <1>0, <2>1, <2>2, SearchBlurred
    <2> QED BY <1>0, <2>1, <2>3 DEF SearchInv
<1>3. CASE SB!Enter
    <2> DEFINE d == [data EXCEPT !.val = data.text]
    <2>1. page.focus /\ data' = d /\ page' = SB!Searched(d, d.val)
        BY <1>3 DEF SB!Enter
    <2>2. d \in SearchData /\ d.name = d.shows /\ ~d.gray /\ d.val = data.text /\ d.text = data.text /\ d.text \in SB!Typed
        BY <1>0, <2>1 DEF SearchInv, SearchData
    <2>3. page' = [page EXCEPT !.asked = <<<<d.val, d.name>>, <<d.val, d.name>>>>]
        BY <2>1, <2>2 DEF SB!Searched, SB!Seen
    <2>4. page' = [focus |-> TRUE, asked |-> <<<<d.val, d.name>>, <<d.val, d.name>>>>]
        BY <1>0, <2>1, <2>3
    <2> HIDE DEF d
    <2> QED BY <2>4, <1>0, <2>1, <2>2, <2>3 DEF SearchInv
<1>4. CASE SB!Click
    <2> DEFINE d == IF page.focus THEN SB!Blurred(data) ELSE data
    <2>1. data' = d /\ page' = [SB!Searched(d, d.val) EXCEPT !.focus = FALSE]
        BY <1>4 DEF SB!Click
    <2>2. page.focus => data.text \in SB!Typed
        BY DEF SearchInv
    <2>3. d \in SearchData /\ d.name = d.shows /\ SB!Seen(d) = d.val /\ (d.gray => d.text = Prompt)
        BY <1>0, <2>2, SearchBlurred DEF SearchInv
    <2> HIDE DEF d
    <2>4. page' = [focus |-> FALSE, asked |-> <<<<d.val, d.name>>, <<d.val, d.name>>>>]
        BY <1>0, <2>1, <2>3 DEF SB!Searched
    <2>5. /\ data' \in SearchData /\ data'.name = data'.shows
          /\ SB!Seen(data') = data'.val /\ (data'.gray => data'.text = Prompt)
        BY <2>1, <2>3
    <2>6. page' \in [focus : BOOLEAN, asked : {page'.asked}] /\ page'.asked[1] = page'.asked[2] /\ ~page'.focus
        BY <2>4
    <2> QED BY <2>5, <2>6 DEF SearchInv
<1>5. ASSUME NEW w \in SB!Typed, SB!Type(w) PROVE SearchInv(data', page')
    <2>1. page.focus /\ data' = [data EXCEPT !.text = w] /\ page' = page
        BY <1>5 DEF SB!Type
    <2> QED BY <1>0, <2>1 DEF SearchInv, SearchData
<1>6. ASSUME NEW w \in SB!Typed, SB!SetValue(w) PROVE SearchInv(data', page')
    <2> DEFINE d == [data EXCEPT !.val = w, !.text = w]
    <2>1. data' = SB!Blurred(d) /\ page' = [page EXCEPT !.focus = FALSE]
        BY <1>6 DEF SB!SetValue
    <2>2. d \in SearchData /\ d.text \in SB!Typed /\ d.name = d.shows
        BY <1>0 DEF SearchData
    <2> HIDE DEF d
    <2>3. /\ data' \in SearchData /\ data'.name = data'.shows
          /\ SB!Seen(data') = data'.val /\ (data'.gray => data'.text = Prompt)
        BY <2>1, <2>2, SearchBlurred
    <2> QED BY <1>0, <2>1, <2>3 DEF SearchInv
<1>7. ASSUME NEW n \in SearchNames, SB!Select(n) \/ SB!TurnRow(n) PROVE SearchInv(data', page')
    <2>1. page' = page /\ \/ data' = [data EXCEPT !.name = n, !.shows = n]
                          \/ \E T \in SUBSET SearchNames : data' = [data EXCEPT !.off = T]
        <3>1. data.off \subseteq SearchNames
            BY <1>0 DEF SearchData
        <3> QED BY <1>7, <3>1 DEF SB!Select, SB!TurnRow
    <2> QED BY <1>0, <2>1 DEF SearchInv, SearchData, SB!Seen
<1>8. CASE UNCHANGED <<data, page>>
    BY <1>8
<1> QED BY <1>1, <1>2, <1>3, <1>4, <1>5, <1>6, <1>7, <1>8 DEF SB!Next

LEMMA SearchShows ==
    ASSUME SearchInv(data, page)
    PROVE  SB!TypeOK /\ SB!SearchesShown
BY DEF SearchInv, SearchData, SB!TypeOK, SB!SearchesShown

-----------------------------------------------------------------------------
(* EditForm.                                                                 *)

EditWord == EditWords \cup {""}
EditShown(s) ==
    /\ s = [f \in EF!Fields |-> s[f]]
    /\ \A f \in EF!Wordy : s[f] \in EditWord
    /\ \A f \in EF!Groups : s[f] \in SUBSET Picks
    /\ s["date"] \in EF!DateTexts

\* A form keeps the record that was set last; before one was and while nothing was
\* changed it shows nothing; after that, untouched, what inputs with one value have
\* is the record's, of a date its day, and boxes and buttons are checked that it has, no others if
\* nothing was shown before.
EditInv(d, p) ==
    /\ d = [shown |-> d.shown, kept |-> d.kept, disabled |-> d.disabled, readonly |-> d.readonly,
            broken |-> d.broken]
    /\ p = [nr |-> p.nr, net |-> p.net, last |-> p.last, touched |-> p.touched, mixed |-> p.mixed]
    /\ EditShown(d.shown)
    /\ d.disabled \in SUBSET EF!Fields /\ d.readonly \in SUBSET EF!NotCombos /\ d.broken \in BOOLEAN
    /\ Fixed \subseteq d.disabled
    /\ p.nr \in 0 .. MaxAsked /\ p.touched \in BOOLEAN
    /\ \A q \in p.net : q.record \in Records
    /\ p.last \in Records \cup {NoRecord}
    /\ p.last # NoRecord => d.kept = p.last
    /\ p.last = NoRecord /\ ~p.touched => d.shown = EF!Blank
    /\ p.last # NoRecord /\ ~p.touched =>
         /\ \A f \in {"text", "one"} : d.shown[f] = EF!Value(p.last, f)
         /\ d.shown["date"] = EF!AsDay(EF!Value(p.last, "date"))
         /\ EF!Value(p.last, "ways") \subseteq d.shown["ways"]
         /\ "again" \notin p.mixed => \A f \in {"ways", "radio"} : d.shown[f] = EF!Value(p.last, f)

LEMMA EditFields ==
    /\ EF!Wordy = {"text", "one", "radio"} /\ EF!Groups = {"many", "ways"}
    /\ EF!Fields = {"text", "one", "date", "many", "ways", "radio"}
BY DEF EF!Single, EF!Groups, EF!Wordy, EF!Fields

LEMMA EditNothing ==
    /\ \A f \in EF!Wordy : EF!Nothing(f) = ""
    /\ \A f \in EF!Groups : EF!Nothing(f) = {}
    /\ EF!Nothing("date") = EF!NoDate
BY EditFields DEF EF!Nothing

\* A date that is written is shown as a date or as what the browser makes of it;
\* one that is legible as the same day, in dashes and without its time.
LEMMA EditDay ==
    ASSUME NEW v \in EF!Written
    PROVE  /\ EF!AsDay(v) \in EF!DateTexts
           /\ v = EF!NoDate => EF!AsDay(v) = EF!NoDate
           /\ v # EF!NoDate /\ EF!Legible(v) => EF!AsDay(v) = [v EXCEPT !.form = "dash", !.time = FALSE]
<1>1. CASE v = EF!NoDate
    BY <1>1 DEF EF!AsDay, EF!DateTexts
<1>2. CASE v # EF!NoDate
    <2>1. v \in EF!DatesOf(EF!Forms)
        BY <1>2 DEF EF!Written
    <2> DEFINE u == [v EXCEPT !.time = FALSE]
    <2>2. u \in EF!DatesOf(EF!Forms) /\ u.form = v.form /\ u.wide = v.wide /\ u.m = v.m /\ u.d = v.d
        BY <2>1 DEF EF!DatesOf
    <2>3. EF!AsDay(v) \in {EF!DT!Dashed(u), EF!DT!Anything}
        BY <1>2 DEF EF!AsDay, EF!DT!hitooDateStringFormat
    <2>4. EF!DT!Dashed(u) \in {u, [u EXCEPT !.form = "dash"], [u EXCEPT !.form = "torn"]}
        BY DEF EF!DT!Dashed
    <2>5. EF!DT!Dashed(u) \in EF!DatesOf(EF!Forms \cup {"torn"})
        BY <2>2, <2>4 DEF EF!DatesOf, EF!Forms
    <2>6. ASSUME EF!Legible(v) PROVE EF!AsDay(v) = [v EXCEPT !.form = "dash", !.time = FALSE]
        <3>1. EF!AsDay(v) = EF!DT!Dashed(u)
            BY <1>2, <2>6 DEF EF!AsDay, EF!DT!hitooDateStringFormat, EF!Legible
        <3>2. v.form \in {"dash", "slash", "plain"} /\ (v.form = "plain" => EF!DT!Padded(v))
            BY <2>1, <2>6 DEF EF!Legible, EF!DT!isDate, EF!DT!isDateTime, EF!DT!InFormat, EF!DT!Dashed,
                EF!DT!Padded, EF!DatesOf, EF!Forms
        <3>3. EF!DT!Padded(v) \/ ~(v.m < 10 /\ v.d < 10)
            BY <2>1, <2>6 DEF EF!Legible, EF!DT!Padded, EF!DatesOf
        <3>4. EF!DT!Dashed(u) = [u EXCEPT !.form = "dash"]
            BY <2>2, <3>2, <3>3 DEF EF!DT!Dashed, EF!DT!Padded
        <3>5. [u EXCEPT !.form = "dash"] = [v EXCEPT !.form = "dash", !.time = FALSE]
            BY <2>1 DEF EF!DatesOf
        <3> QED BY <3>1, <3>4, <3>5
    <2> QED BY <1>2, <2>3, <2>5, <2>6 DEF EF!DateTexts
<1> QED BY <1>1, <1>2

LEMMA EditValue ==
    ASSUME EF!EditAssumption, NEW r \in Records
    PROVE  /\ \A f \in EF!Wordy : EF!Value(r, f) \in EditWord
           /\ \A f \in EF!Groups : EF!Value(r, f) \in SUBSET Picks
           /\ EF!Value(r, "date") \in EF!Written
<1>1. \A f \in EF!Wordy : EF!TypeOf(f) = EditWord
    BY EditFields DEF EF!TypeOf, EditWord
<1>2. \A f \in EF!Groups : EF!TypeOf(f) = SUBSET Picks
    BY EditFields DEF EF!TypeOf
<1>3. \A f \in EF!Fields \cap DOMAIN r : r[f] \in IF f = "date" THEN EF!Written ELSE EF!TypeOf(f)
    BY DEF EF!EditAssumption
<1>4. \A f \in EF!Wordy : EF!Value(r, f) \in EditWord
    BY <1>1, <1>3, EditFields, EditNothing DEF EF!Value, EditWord
<1>5. \A f \in EF!Groups : EF!Value(r, f) \in SUBSET Picks
    BY <1>2, <1>3, EditFields, EditNothing DEF EF!Value
<1>6. EF!Value(r, "date") \in EF!Written
    BY <1>3, EditFields, EditNothing DEF EF!Value, EF!Written
<1> QED BY <1>4, <1>5, <1>6

LEMMA EditBlank == EF!Blank = [f \in EF!Fields |-> EF!Blank[f]] /\ EditShown(EF!Blank)
<1>1. \A f \in EF!Fields : EF!Blank[f] = EF!Nothing(f)
    BY DEF EF!Blank
<1>2. EF!Blank = [f \in EF!Fields |-> EF!Blank[f]]
    BY DEF EF!Blank
<1>3. EF!Blank["date"] \in EF!DateTexts
    BY <1>1, EditFields, EditNothing DEF EF!DateTexts
<1>4. \A f \in EF!Wordy : EF!Blank[f] \in EditWord
    BY <1>1, EditFields, EditNothing DEF EditWord
<1>5. \A f \in EF!Groups : EF!Blank[f] \in SUBSET Picks
    BY <1>1, EditFields, EditNothing
<1> QED BY <1>2, <1>3, <1>4, <1>5 DEF EditShown

LEMMA EditStart ==
    ASSUME EF!EditAssumption, EF!Init
    PROVE  EditInv(data, page)
<1>1. EF!Blank = [f \in EF!Fields |-> EF!Blank[f]] /\ EditShown(EF!Blank)
    BY EditBlank
<1>2. /\ data = [shown |-> EF!Blank, kept |-> <<>>, disabled |-> Fixed, readonly |-> {}, broken |-> FALSE]
      /\ page = [nr |-> 0, net |-> {}, last |-> NoRecord, touched |-> FALSE, mixed |-> {}]
    BY DEF EF!Init
<1> HIDE DEF EditShown
<1>3. Fixed \subseteq EF!Fields /\ MaxAsked \in Nat
    BY DEF EF!EditAssumption
<1> QED BY <1>1, <1>2, <1>3 DEF EditInv

\* What setData shows of some of the fields.
LEMMA EditPut ==
    ASSUME EF!EditAssumption, NEW r \in Records, NEW s, EditShown(s), NEW F \in SUBSET EF!Fields
    PROVE  EditShown(EF!Put(s, r, F))
<1> DEFINE t == EF!Put(s, r, F)
<1> DEFINE e(f) ==
        CASE f \notin F -> s[f]
          [] f \in F /\ f = "date" -> EF!AsDay(EF!Value(r, f))
          [] f \in F /\ f \in {"text", "one"} -> EF!Value(r, f)
          [] f \in F /\ f = "many"   -> IF s[f] = {} \/ EF!Value(r, f) = {} THEN s[f] ELSE EF!Value(r, f)
          [] f \in F /\ f = "ways"   -> s[f] \cup EF!Value(r, f)
          [] f \in F /\ f = "radio"  -> IF EF!Value(r, f) = "" THEN s[f] ELSE EF!Value(r, f)
<1>1. t = [f \in EF!Fields |-> e(f)]
    BY DEF EF!Put
<1>6. t = [f \in EF!Fields |-> t[f]]
    <2> HIDE DEF e, t
    <2> QED BY <1>1
<1> HIDE DEF t
<1>2. \A f \in {"text", "one"} : t[f] \in {s[f], EF!Value(r, f)}
    BY <1>1, EditFields
<1>9. t["date"] \in {s["date"], EF!AsDay(EF!Value(r, "date"))}
    BY <1>1, EditFields
<1>3. t["radio"] \in {s["radio"], EF!Value(r, "radio")}
    BY <1>1, EditFields
<1>4. t["many"] \in {s["many"], EF!Value(r, "many")}
    BY <1>1, EditFields
<1>5. t["ways"] \in {s["ways"], s["ways"] \cup EF!Value(r, "ways")}
    BY <1>1, EditFields
<1>7. \A f \in EF!Wordy : t[f] \in EditWord
    BY <1>2, <1>3, EditValue, EditFields DEF EditShown
<1>8. \A f \in EF!Groups : t[f] \in SUBSET Picks
    BY <1>4, <1>5, EditValue, EditFields DEF EditShown
<1>10. t["date"] \in EF!DateTexts
    BY <1>9, EditValue, EditDay DEF EditShown
<1> QED BY <1>6, <1>7, <1>8, <1>10 DEF EditShown, t

LEMMA EditPutAll ==
    ASSUME NEW r, NEW s
    PROVE  /\ \A f \in {"text", "one"} : EF!Put(s, r, EF!Fields)[f] = EF!Value(r, f)
           /\ EF!Put(s, r, EF!Fields)["date"] = EF!AsDay(EF!Value(r, "date"))
           /\ EF!Put(s, r, EF!Fields)["ways"] = s["ways"] \cup EF!Value(r, "ways")
           /\ EF!Put(s, r, EF!Fields)["radio"] = IF EF!Value(r, "radio") = "" THEN s["radio"] ELSE EF!Value(r, "radio")
BY EditFields DEF EF!Put

LEMMA EditStep ==
    ASSUME EF!EditAssumption, EditInv(data, page), [EF!Next]_(<<data, page>>)
    PROVE  EditInv(data', page')
<1> USE DEF EF!Becomes
<1> HIDE DEF EditShown
<1>0. /\ data = [shown |-> data.shown, kept |-> data.kept, disabled |-> data.disabled,
                 readonly |-> data.readonly, broken |-> data.broken]
      /\ page = [nr |-> page.nr, net |-> page.net, last |-> page.last, touched |-> page.touched,
                 mixed |-> page.mixed]
      /\ EditShown(data.shown) /\ MaxAsked \in Nat /\ NoRecord \notin Records
    BY DEF EditInv, EF!EditAssumption
<1>1. ASSUME NEW r \in Records, EF!Ask(r) PROVE EditInv(data', page')
    <2>1. /\ page.nr < MaxAsked /\ data' = data
          /\ page' = [page EXCEPT !.nr = page.nr + 1, !.net = page.net \cup {[nr |-> page.nr + 1, record |-> r]}]
        BY <1>1 DEF EF!Ask
    <2>2. page' = [nr |-> page.nr + 1, net |-> page.net \cup {[nr |-> page.nr + 1, record |-> r]},
                   last |-> page.last, touched |-> page.touched, mixed |-> page.mixed]
        BY <1>0, <2>1
    <2>3. page.nr \in 0 .. MaxAsked
        BY DEF EditInv
    <2>4. page.nr + 1 \in 0 .. MaxAsked
        BY <1>0, <2>1, <2>3
    <2>5. \A q \in page.net \cup {[nr |-> page.nr + 1, record |-> r]} : q.record \in Records
        BY DEF EditInv
    <2> QED BY <2>1, <2>2, <2>4, <2>5 DEF EditInv
<1>2. ASSUME NEW r \in Records, EF!SetPartly(r) PROVE EditInv(data', page')
    <2> DEFINE s == EF!Put(data.shown, r, EF!Fields \cap DOMAIN r)
    <2>1. /\ data' = [data EXCEPT !.kept = r, !.shown = s]
          /\ page' = [page EXCEPT !.last = r, !.touched = TRUE]
        BY <1>2 DEF EF!SetPartly, EF!SetDataWithNotAllDataMap
    <2>2. EditShown(s)
        BY <1>0, EditPut
    <2> HIDE DEF s
    <2>3. /\ data' = [shown |-> s, kept |-> r, disabled |-> data.disabled,
                      readonly |-> data.readonly, broken |-> data.broken]
          /\ page' = [nr |-> page.nr, net |-> page.net, last |-> r, touched |-> TRUE, mixed |-> page.mixed]
        BY <1>0, <2>1
    <2> QED BY <1>0, <2>2, <2>3 DEF EditInv
<1>3. ASSUME NEW r \in Records, EF!LoadIt(r) PROVE EditInv(data', page')
    <2> DEFINE s == [f \in EF!Fields |-> IF f \notin DOMAIN r THEN data.shown[f]
                                        ELSE IF f = "ways" /\ EF!Cardinality(r[f]) > 1 THEN {} ELSE r[f]]
    <2>1. /\ data' = [data EXCEPT !.shown = s]
          /\ page' = [page EXCEPT !.touched = TRUE]
        BY <1>3 DEF EF!LoadIt, EF!Load
    <2>2. \A f \in EF!Fields : s[f] \in {data.shown[f]} \cup (IF f \in DOMAIN r THEN {r[f]} ELSE {})
                                     \cup (IF f = "ways" THEN {{}} ELSE {})
        OBVIOUS
    <2>3. s = [f \in EF!Fields |-> s[f]]
        OBVIOUS
    <2> HIDE DEF s
    <2>8. \A f \in EF!Fields \cap DOMAIN r : r[f] = EF!Value(r, f)
        BY DEF EF!Value
    <2>4. \A f \in EF!Wordy : s[f] \in EditWord
        BY <1>0, <2>2, <2>8, EditValue, EditFields DEF EditShown
    <2>5. \A f \in EF!Groups : s[f] \in SUBSET Picks
        BY <1>0, <2>2, <2>8, EditValue, EditFields DEF EditShown
    <2>9. EF!Written \subseteq EF!DateTexts
        BY DEF EF!Written, EF!DateTexts, EF!DatesOf, EF!Forms
    <2>10. s["date"] \in EF!DateTexts
        BY <1>0, <2>2, <2>8, <2>9, EditValue, EditFields DEF EditShown
    <2>6. EditShown(s)
        BY <2>3, <2>4, <2>5, <2>10 DEF EditShown
    <2>7. /\ data' = [shown |-> s, kept |-> data.kept, disabled |-> data.disabled,
                      readonly |-> data.readonly, broken |-> data.broken]
          /\ page' = [nr |-> page.nr, net |-> page.net, last |-> page.last, touched |-> TRUE, mixed |-> page.mixed]
        BY <1>0, <2>1
    <2> QED BY <1>0, <2>6, <2>7 DEF EditInv
<1>4. ASSUME NEW q \in page.net, EF!Answer(q) PROVE EditInv(data', page')
    <2> DEFINE r == q.record
               s == EF!Put(data.shown, r, EF!Fields)
               m == page.mixed \cup (IF page.last = NoRecord /\ ~page.touched THEN {} ELSE {"again"})
    <2>1. r \in Records
        BY DEF EditInv
    <2>2. /\ data' = [data EXCEPT !.kept = r, !.shown = s]
          /\ page' = [[page EXCEPT !.last = r, !.touched = FALSE, !.mixed = m] EXCEPT !.net = @ \ {q}]
        BY <1>4 DEF EF!Answer, EF!Set, EF!SetData
    <2>3. EditShown(s)
        BY <1>0, <2>1, EditPut
    <2>4. /\ \A f \in {"text", "one"} : s[f] = EF!Value(r, f)
          /\ s["date"] = EF!AsDay(EF!Value(r, "date"))
          /\ s["ways"] = data.shown["ways"] \cup EF!Value(r, "ways")
          /\ s["radio"] = IF EF!Value(r, "radio") = "" THEN data.shown["radio"] ELSE EF!Value(r, "radio")
        BY EditPutAll
    <2>5. "again" \notin m => \A f \in {"ways", "radio"} : s[f] = EF!Value(r, f)
        <3> SUFFICES ASSUME "again" \notin m PROVE \A f \in {"ways", "radio"} : s[f] = EF!Value(r, f)
            OBVIOUS
        <3>1. data.shown = EF!Blank
            BY DEF EditInv
        <3>2. data.shown["ways"] = {} /\ data.shown["radio"] = ""
            BY <3>1, EditFields, EditNothing DEF EF!Blank
        <3> QED BY <2>4, <3>2
    <2> HIDE DEF r, s, m
    <2>6. /\ data' = [shown |-> s, kept |-> r, disabled |-> data.disabled,
                      readonly |-> data.readonly, broken |-> data.broken]
          /\ page' = [nr |-> page.nr, net |-> page.net \ {q}, last |-> r, touched |-> FALSE, mixed |-> m]
        BY <1>0, <2>2
    <2> QED BY <1>0, <2>1, <2>3, <2>4, <2>5, <2>6 DEF EditInv
<1>5. ASSUME NEW q \in page.net, EF!Fail(q) PROVE EditInv(data', page')
    <2>1. data' = data /\ page' = [page EXCEPT !.net = page.net \ {q}]
        BY <1>5 DEF EF!Fail
    <2>2. page' = [nr |-> page.nr, net |-> page.net \ {q}, last |-> page.last, touched |-> page.touched,
                   mixed |-> page.mixed]
        BY <1>0, <2>1
    <2> QED BY <1>0, <2>1, <2>2 DEF EditInv
\* Whatever changes what is shown is said to have touched it.
<1>6. ASSUME NEW s, EditShown(s), data' = [data EXCEPT !.shown = s], page' = [page EXCEPT !.touched = TRUE]
      PROVE  EditInv(data', page')
    <2>1. /\ data' = [shown |-> s, kept |-> data.kept, disabled |-> data.disabled,
                      readonly |-> data.readonly, broken |-> data.broken]
          /\ page' = [nr |-> page.nr, net |-> page.net, last |-> page.last, touched |-> TRUE, mixed |-> page.mixed]
        BY <1>0, <1>6
    <2> QED BY <1>0, <1>6, <2>1 DEF EditInv
<1>7. ASSUME NEW f \in EF!Wordy, NEW v \in EditWords, EF!Change(f, v) PROVE EditInv(data', page')
    <2> DEFINE s == [data.shown EXCEPT ![f] = v]
    <2>1. data' = [data EXCEPT !.shown = s] /\ page' = [page EXCEPT !.touched = TRUE]
        BY <1>0, <1>7 DEF EF!Change
    <2>2. EditShown(s)
        BY <1>0, EditFields DEF EditShown, EditWord
    <2> QED BY <1>6, <2>1, <2>2
<1>8. ASSUME NEW f \in EF!Groups, NEW v \in SUBSET Picks, EF!Change(f, v) PROVE EditInv(data', page')
    <2> DEFINE s == [data.shown EXCEPT ![f] = v]
    <2>1. data' = [data EXCEPT !.shown = s] /\ page' = [page EXCEPT !.touched = TRUE]
        BY <1>0, <1>8 DEF EF!Change
    <2>2. EditShown(s)
        BY <1>0, EditFields DEF EditShown, EditWord
    <2> QED BY <1>6, <2>1, <2>2
<1>12. ASSUME NEW v \in Days, EF!Change("date", v) PROVE EditInv(data', page')
    <2> DEFINE s == [data.shown EXCEPT !["date"] = v]
    <2>1. data' = [data EXCEPT !.shown = s] /\ page' = [page EXCEPT !.touched = TRUE]
        BY <1>0, <1>12 DEF EF!Change
    <2>2. v \in EF!DateTexts
        BY DEF EF!EditAssumption, EF!Written, EF!DateTexts, EF!DatesOf, EF!Forms
    <2>3. EditShown(s)
        BY <1>0, <2>2, EditFields DEF EditShown
    <2> QED BY <1>6, <2>1, <2>3
<1>9. CASE EF!ClearIt
    <2>1. EF!Blank = [f \in EF!Fields |-> EF!Blank[f]] /\ EditShown(EF!Blank)
        BY EditBlank
    <2> QED BY <1>6, <1>9, <2>1 DEF EF!ClearIt, EF!Clear
<1>10. CASE EF!Lock
    <2>1. page' = page /\ \E F \in SUBSET EF!Fields, R \in SUBSET EF!NotCombos, b \in BOOLEAN :
              Fixed \subseteq F /\ data' = [data EXCEPT !.disabled = F, !.readonly = R, !.broken = b]
        <3>1. /\ Fixed \subseteq EF!Fields /\ data.disabled \in SUBSET EF!Fields /\ data.readonly \in SUBSET EF!NotCombos
              /\ data.broken \in BOOLEAN /\ Fixed \subseteq data.disabled
            BY DEF EditInv, EF!EditAssumption
        <3>2. CASE EF!Becomes(EF!Disable(data), page)
            <4>1. data' = [data EXCEPT !.disabled = EF!Fields, !.readonly = data.readonly, !.broken = data.broken]
                BY <1>0, <3>2 DEF EF!Disable
            <4> QED BY <3>1, <3>2, <4>1
        <3>3. CASE EF!Becomes(EF!Enable(data), page)
            <4>1. data' = [data EXCEPT !.disabled = Fixed, !.readonly = data.readonly, !.broken = data.broken]
                BY <1>0, <3>3 DEF EF!Enable
            <4> QED BY <3>1, <3>3, <4>1
        <3>4. ASSUME NEW on \in BOOLEAN, EF!Becomes(EF!Readonly(data, on), page)
              PROVE  page' = page /\ \E F \in SUBSET EF!Fields, R \in SUBSET EF!NotCombos, b \in BOOLEAN :
                        Fixed \subseteq F /\ data' = [data EXCEPT !.disabled = F, !.readonly = R, !.broken = b]
            <4> DEFINE R == IF on THEN data.readonly \cup (EF!NotCombos \ Fixed) ELSE data.readonly \ (EF!NotCombos \ Fixed)
            <4>1. data' = [data EXCEPT !.disabled = data.disabled, !.readonly = R, !.broken = TRUE]
                BY <1>0, <3>4 DEF EF!Readonly
            <4>2. R \in SUBSET EF!NotCombos
                BY <3>1
            <4> QED BY <3>1, <3>4, <4>1, <4>2
        <3> QED BY <1>10, <3>2, <3>3, <3>4 DEF EF!Lock
    <2>2. PICK F \in SUBSET EF!Fields, R \in SUBSET EF!NotCombos, b \in BOOLEAN :
              Fixed \subseteq F /\ data' = [data EXCEPT !.disabled = F, !.readonly = R, !.broken = b]
        BY <2>1
    <2>3. data' = [shown |-> data.shown, kept |-> data.kept, disabled |-> F, readonly |-> R, broken |-> b]
        BY <1>0, <2>2
    <2> QED BY <1>0, <2>1, <2>2, <2>3 DEF EditInv
<1>11. CASE UNCHANGED <<data, page>>
    BY <1>11
<1> QED BY <1>1, <1>2, <1>3, <1>4, <1>5, <1>7, <1>8, <1>9, <1>10, <1>11, <1>12 DEF EF!Next

LEMMA EditShows ==
    ASSUME EF!EditAssumption, EditInv(data, page)
    PROVE  EF!TypeOK /\ EF!ComesBack
<1> DEFINE got == EF!GetData(data)
           l == page.last
           day == EF!Value(l, "date")
<1>1. EF!TypeOK
    <2>1. \A f \in EF!Fields : data.shown[f] \in EF!TypeOf(f)
        BY EditFields DEF EditInv, EditShown, EditWord, EF!TypeOf
    <2> QED BY <2>1 DEF EditInv, EF!TypeOK
<1>2. ASSUME l # NoRecord, ~page.touched
      PROVE  /\ \A f \in DOMAIN l \ EF!Fields : got[f] = l[f]
             /\ \A f \in {"text", "one"} : got[f] = Trimmed[EF!Value(l, f)]
             /\ IF day = EF!NoDate THEN got["date"] = EF!NoDate
                ELSE EF!Legible(day) => got["date"] = [day EXCEPT !.form = "dash", !.time = FALSE]
             /\ "again" \notin page.mixed =>
                   /\ got["radio"] = Trimmed[EF!Value(l, "radio")]
                   /\ got["ways"] = EF!Value(l, "ways")
             /\ EF!Value(l, "ways") \subseteq got["ways"]
             /\ data.shown["many"] = {} => got["many"] = EF!Value(l, "many")
    <2>1. data.kept = l /\ l \in Records
        BY <1>2 DEF EditInv
    <2>2. /\ \A f \in EF!Wordy : got[f] = Trimmed[data.shown[f]]
          /\ got["date"] = data.shown["date"] /\ got["ways"] = data.shown["ways"]
        BY EditFields DEF EF!GetData
    <2>3. \A f \in DOMAIN l \ EF!Fields : got[f] = l[f]
        BY <2>1, EditFields DEF EF!GetData
    <2>4. data.shown["many"] = {} => got["many"] = EF!Value(l, "many")
        BY <2>1, EditFields, EditNothing DEF EF!GetData, EF!Value
    <2> HIDE DEF got, l, day
    <2>5. /\ \A f \in {"text", "one"} : data.shown[f] = EF!Value(l, f)
          /\ data.shown["date"] = EF!AsDay(day)
          /\ EF!Value(l, "ways") \subseteq data.shown["ways"]
          /\ "again" \notin page.mixed => \A f \in {"ways", "radio"} : data.shown[f] = EF!Value(l, f)
        BY <1>2 DEF EditInv, l, day
    <2>6. day \in EF!Written
        BY <2>1, EditValue DEF day
    <2>7. IF day = EF!NoDate THEN got["date"] = EF!NoDate
          ELSE EF!Legible(day) => got["date"] = [day EXCEPT !.form = "dash", !.time = FALSE]
        BY <2>2, <2>5, <2>6, EditDay
    <2> QED BY <2>2, <2>3, <2>4, <2>5, <2>7, EditFields
<1>3. Fixed \subseteq data.disabled
    BY DEF EditInv
<1> HIDE DEF got
<1>4. EF!ComesBack
    BY <1>2, <1>3 DEF EF!ComesBack, got
<1> QED BY <1>1, <1>4

-----------------------------------------------------------------------------
(* Checked.                                                                  *)

CheckText == CheckTexts \cup {<<>>}
\* A box, its text seen and not to be checked again: its mark and message are those
\* of its text.
CheckMarked(b, x) ==
    x.invalid = ~CK!Valid(b, x.text) /\ (x.invalid => x.message = CK!Failing(b, x.text))
CheckWhy(b) == {None} \cup {CK!Failing(b, t) : t \in CheckText}
CheckRec(b) ==
    [text : CheckText, invalid : BOOLEAN, message : CheckWhy(b), tip : CheckWhy(b), validating : BOOLEAN,
     seen : CheckText \cup {CK!Unseen}, timer : BOOLEAN, loops : 0 .. 2, disabled : BOOLEAN]
CheckBox(b, x) ==
    /\ x \in CheckRec(b)
    /\ x.tip # None => x.invalid
    /\ x.validating => x.loops > 0
CheckData(d) == d = [b \in CheckBoxes |-> d[b]] /\ \A b \in CheckBoxes : CheckBox(b, d[b])

\* One box has the focus; of that box the text was seen that has not changed since,
\* and a text that was seen is marked or will be, unless it was changed twice.
CheckOne(d) == \A b, c \in CheckBoxes : d[b].validating /\ d[c].validating => b = c
CheckSeen(d, p) ==
    \A b \in CheckBoxes : d[b].validating =>
        /\ b \notin p.changed => d[b].seen = d[b].text
        /\ d[b].seen = d[b].text /\ ~d[b].timer /\ b \notin p.twice => CheckMarked(b, d[b])
CheckPosts(p) ==
    \A q \in p.posts :
        /\ q = [nr |-> q.nr, texts |-> q.texts, sent |-> q.sent, left |-> q.left, got |-> q.got]
        /\ q.left \in 0 .. Tries /\ q.got \in {None, "answer"}
        /\ \A b \in q.sent : CK!Valid(b, q.texts[b])
CheckInv(d, p) ==
    /\ CheckData(d) /\ CheckOne(d) /\ CheckSeen(d, p) /\ CheckPosts(p)
    /\ p = [edits |-> p.edits, posts |-> p.posts, changed |-> p.changed, twice |-> p.twice]
    /\ p.edits \in 0 .. MaxEdits /\ p.twice \subseteq CheckBoxes

LEMMA CheckStart ==
    ASSUME CK!CheckedAssumption, CK!Init
    PROVE  CheckInv(data, page)
<1>1. /\ data = [b \in CheckBoxes |-> CK!Fresh]
      /\ page = [edits |-> 0, posts |-> {}, changed |-> {}, twice |-> {}]
    BY DEF CK!Init
<1>2. \A b \in CheckBoxes : CheckBox(b, CK!Fresh) /\ ~CK!Fresh.validating
    <2>1. \A b \in CheckBoxes : None \in CheckWhy(b)
        BY DEF CheckWhy
    <2>2. CK!Unseen \in CheckText \cup {CK!Unseen} /\ <<>> \in CheckText
        BY DEF CheckText
    <2> QED BY <2>1, <2>2 DEF CheckBox, CheckRec, CK!Fresh
<1>3. MaxEdits \in Nat
    BY DEF CK!CheckedAssumption
<1>4. \A b \in CheckBoxes : data[b] = CK!Fresh
    BY <1>1
<1>5. data = [b \in CheckBoxes |-> data[b]]
    BY <1>1
<1>6. CheckData(data) /\ CheckOne(data) /\ CheckSeen(data, page)
    BY <1>2, <1>4, <1>5 DEF CheckData, CheckOne, CheckSeen
<1> QED BY <1>1, <1>3, <1>6 DEF CheckInv, CheckPosts

\* validate, for one box, and what it leaves of it.
CheckedBox(b, x) ==
    IF CK!Failing(b, x.text) = None THEN [x EXCEPT !.invalid = FALSE, !.tip = None]
    ELSE [x EXCEPT !.invalid = TRUE, !.message = CK!Failing(b, x.text),
                   !.tip = IF x.validating THEN CK!Failing(b, x.text) ELSE x.tip]
SeenBox(x) == IF x.seen # x.text THEN [x EXCEPT !.seen = x.text, !.timer = TRUE] ELSE x
LeftBox(x) == [x EXCEPT !.validating = FALSE, !.timer = FALSE, !.tip = None]
EnteredBox(x) == [x EXCEPT !.validating = TRUE, !.loops = x.loops + 1, !.seen = x.text, !.timer = TRUE]

LEMMA CheckValidate ==
    ASSUME NEW d, CheckData(d), NEW b \in CheckBoxes
    PROVE  CK!Validate(d, b) = [d EXCEPT ![b] = CheckedBox(b, d[b])]
<1> DEFINE why == CK!Failing(b, d[b].text)
           m == [d EXCEPT ![b].invalid = TRUE, ![b].message = why]
           x == d[b]
<1>0. d = [c \in CheckBoxes |-> d[c]]
    BY DEF CheckData
<1>1. CheckBox(b, x)
    BY DEF CheckData
<1>2. CASE why = None
    <2>1. CK!Validate(d, b) = CK!HideTip([d EXCEPT ![b].invalid = FALSE], b)
        BY <1>2 DEF CK!Validate
    <2>2. CK!HideTip([d EXCEPT ![b].invalid = FALSE], b) = [d EXCEPT ![b] = [x EXCEPT !.invalid = FALSE, !.tip = None]]
        BY <1>0, <1>1 DEF CK!HideTip, CheckBox, CheckRec
    <2> QED BY <1>2, <2>1, <2>2 DEF CheckedBox
<1>3. CASE why # None
    <2>1. CK!Validate(d, b) = IF d[b].validating THEN CK!ShowTip(m, b) ELSE m
        BY <1>3 DEF CK!Validate
    <2>2. m = [d EXCEPT ![b] = [x EXCEPT !.invalid = TRUE, !.message = why]]
        BY <1>0
    <2>3. m[b].message = why
        BY <1>0, <1>1, <2>2 DEF CheckBox, CheckRec
    <2>4. CK!ShowTip(m, b) = [d EXCEPT ![b] = [x EXCEPT !.invalid = TRUE, !.message = why, !.tip = why]]
        BY <1>0, <1>1, <2>2, <2>3 DEF CK!ShowTip, CheckBox, CheckRec
    <2>5. [x EXCEPT !.invalid = TRUE, !.message = why, !.tip = x.tip] = [x EXCEPT !.invalid = TRUE, !.message = why]
        BY <1>1 DEF CheckBox, CheckRec
    <2> QED BY <1>3, <2>1, <2>2, <2>4, <2>5 DEF CheckedBox
<1> QED BY <1>2, <1>3

LEMMA CheckedBoxIs ==
    ASSUME NEW b \in CheckBoxes, NEW x, CheckBox(b, x)
    PROVE  /\ CheckBox(b, CheckedBox(b, x)) /\ CheckMarked(b, CheckedBox(b, x))
           /\ CheckedBox(b, x).text = x.text /\ CheckedBox(b, x).validating = x.validating
           /\ CheckedBox(b, x).seen = x.seen /\ CheckedBox(b, x).timer = x.timer
           /\ CheckedBox(b, x).loops = x.loops /\ CheckedBox(b, x).disabled = x.disabled
           /\ CheckedBox(b, x).invalid = (CK!Failing(b, x.text) # None)
<1>1. CK!Failing(b, x.text) \in CheckWhy(b) /\ None \in CheckWhy(b)
    BY DEF CheckBox, CheckRec, CheckWhy
<1> QED BY <1>1 DEF CheckBox, CheckRec, CheckedBox, CheckMarked, CK!Valid

LEMMA CheckLook ==
    ASSUME NEW d, CheckData(d), NEW b \in CheckBoxes
    PROVE  CK!Look(d, b) = [d EXCEPT ![b] = SeenBox(d[b])]
<1>0. d = [c \in CheckBoxes |-> d[c]]
    BY DEF CheckData
<1>1. CheckBox(b, d[b])
    BY DEF CheckData
<1> QED BY <1>0, <1>1 DEF CK!Look, SeenBox, CheckBox, CheckRec

\* The focus comes to box b: what is left of the boxes.
LEMMA CheckRefocus ==
    ASSUME CK!CheckedAssumption, NEW d, CheckData(d), NEW b \in CheckBoxes, ~d[b].validating
    PROVE  CK!Refocus(d, b) = [c \in CheckBoxes |-> IF c = b THEN EnteredBox(d[b])
                                                 ELSE IF d[c].validating THEN LeftBox(d[c]) ELSE d[c]]
<1>0. d = [c \in CheckBoxes |-> d[c]] /\ \A c \in CheckBoxes : CheckBox(c, d[c])
    BY DEF CheckData
<1> DEFINE e == [c \in CheckBoxes |-> IF d[c].validating THEN LeftBox(d[c]) ELSE d[c]]
           x == [d[b] EXCEPT !.validating = TRUE, !.loops = d[b].loops + 1, !.seen = CK!Unseen]
<1>1. ASSUME NEW c \in CheckBoxes
      PROVE  CK!Blurred(d, c)[c] = LeftBox(d[c])
    BY <1>0 DEF CK!Blurred, CK!HideTip, LeftBox, CheckBox, CheckRec
<1>2. [c \in CheckBoxes |-> IF d[c].validating THEN CK!Blurred(d, c)[c] ELSE d[c]] = e
    BY <1>1
<1>3. CK!Refocus(d, b) = CK!Focused(e, b)
    BY <1>2 DEF CK!Refocus
<1>4. e[b] = d[b]
    OBVIOUS
<1>5. e = [c \in CheckBoxes |-> e[c]]
    OBVIOUS
<1>9. \A c \in CheckBoxes : c # b => e[c] = IF d[c].validating THEN LeftBox(d[c]) ELSE d[c]
    OBVIOUS
<1> HIDE DEF e
<1>6. [e EXCEPT ![b].validating = TRUE, ![b].loops = @ + 1, ![b].seen = CK!Unseen] = [e EXCEPT ![b] = x]
    BY <1>4, <1>5
<1>7. /\ x.seen = CK!Unseen /\ x.text = d[b].text /\ x.text # CK!Unseen
      /\ [x EXCEPT !.seen = x.text, !.timer = TRUE] = EnteredBox(d[b])
    <2>1. d[b].text # CK!Unseen
        <3>1. d[b].text \in CheckTexts \cup {<<>>}
            BY <1>0 DEF CheckBox, CheckRec, CheckText
        <3>2. CK!Unseen \notin CheckTexts /\ CK!Unseen # <<>>
            BY DEF CK!CheckedAssumption, CK!Unseen
        <3> QED BY <3>1, <3>2
    <2>2. CheckBox(b, d[b])
        BY <1>0
    <2> QED BY <2>1, <2>2 DEF CheckBox, CheckRec, EnteredBox
<1>8. CK!Focused(e, b) = [e EXCEPT ![b] = EnteredBox(d[b])]
    <2> DEFINE g == [e EXCEPT ![b] = x]
    <2>1. CK!Focused(e, b) = CK!Look(g, b)
        BY <1>6 DEF CK!Focused
    <2>2. g[b] = x /\ g = [c \in CheckBoxes |-> g[c]]
        BY <1>5
    <2>3. [g EXCEPT ![b] = EnteredBox(d[b])] = [e EXCEPT ![b] = EnteredBox(d[b])]
        BY <1>5
    <2> HIDE DEF g, x
    <2>4. CK!Look(g, b) = [g EXCEPT ![b].seen = g[b].text, ![b].timer = TRUE]
        BY <1>7, <2>2 DEF CK!Look
    <2>5. [g EXCEPT ![b].seen = g[b].text, ![b].timer = TRUE] = [g EXCEPT ![b] = [x EXCEPT !.seen = x.text, !.timer = TRUE]]
        BY <2>2
    <2> QED BY <1>7, <2>1, <2>3, <2>4, <2>5
<1> QED BY <1>3, <1>5, <1>8, <1>9

LEMMA SeenBoxIs ==
    ASSUME NEW b \in CheckBoxes, NEW x, CheckBox(b, x)
    PROVE  /\ CheckBox(b, SeenBox(x)) /\ SeenBox(x).seen = x.text /\ SeenBox(x).text = x.text
           /\ SeenBox(x).validating = x.validating
           /\ SeenBox(x) # x => SeenBox(x).timer
BY DEF SeenBox, CheckBox, CheckRec

LEMMA LeftBoxIs ==
    ASSUME NEW b \in CheckBoxes, NEW x, CheckBox(b, x)
    PROVE  CheckBox(b, LeftBox(x)) /\ ~LeftBox(x).validating
<1>1. None \in CheckWhy(b)
    BY DEF CheckWhy
<1> QED BY <1>1 DEF LeftBox, CheckBox, CheckRec

LEMMA EnteredBoxIs ==
    ASSUME NEW b \in CheckBoxes, NEW x, CheckBox(b, x), x.loops < 2
    PROVE  /\ CheckBox(b, EnteredBox(x)) /\ EnteredBox(x).validating /\ EnteredBox(x).timer
           /\ EnteredBox(x).seen = EnteredBox(x).text
<1>1. x.loops + 1 \in 0 .. 2 /\ x.loops + 1 > 0
    BY DEF CheckBox, CheckRec
<1> QED BY <1>1 DEF EnteredBox, CheckBox, CheckRec

\* A box is changed, in a way that keeps what is known of it.
LEMMA CheckBecomes ==
    ASSUME NEW d, NEW p, CheckInv(d, p), NEW b \in CheckBoxes, NEW x, CheckBox(b, x),
           x.validating => d[b].validating,
           x.validating /\ b \notin p.changed => x.seen = x.text,
           x.validating /\ x.seen = x.text /\ ~x.timer /\ b \notin p.twice => CheckMarked(b, x)
    PROVE  CheckInv([d EXCEPT ![b] = x], p)
<1> DEFINE e == [d EXCEPT ![b] = x]
<1>0. d = [c \in CheckBoxes |-> d[c]]
    BY DEF CheckInv, CheckData
<1>1. e[b] = x /\ (\A c \in CheckBoxes : c # b => e[c] = d[c]) /\ e = [c \in CheckBoxes |-> e[c]]
    BY <1>0
<1> HIDE DEF e
<1>2. CheckData(e)
    BY <1>1 DEF CheckInv, CheckData
<1>3. CheckOne(e)
    BY <1>1 DEF CheckInv, CheckOne
<1>4. CheckSeen(e, p)
    BY <1>1 DEF CheckInv, CheckSeen
<1>5. CheckInv(e, p)
    BY <1>2, <1>3, <1>4 DEF CheckInv
<1> QED BY <1>5 DEF e

\* The focus comes to a box.
LEMMA CheckRefocused ==
    ASSUME CK!CheckedAssumption, NEW d, NEW p, CheckInv(d, p), NEW b \in CheckBoxes, ~d[b].validating, d[b].loops < 2
    PROVE  CheckInv(CK!Refocus(d, b), p)
<1> DEFINE e == CK!Refocus(d, b)
<1>0. CheckData(d) /\ \A c \in CheckBoxes : CheckBox(c, d[c])
    BY DEF CheckInv, CheckData
<1>1. e = [c \in CheckBoxes |-> IF c = b THEN EnteredBox(d[b])
                                ELSE IF d[c].validating THEN LeftBox(d[c]) ELSE d[c]]
    BY <1>0, CheckRefocus
<1>2. e = [c \in CheckBoxes |-> e[c]] /\ e[b] = EnteredBox(d[b])
    BY <1>1
<1>3. \A c \in CheckBoxes : c # b => CheckBox(c, e[c]) /\ ~e[c].validating
    <2> TAKE c \in CheckBoxes
    <2>1. CheckBox(c, LeftBox(d[c])) /\ ~LeftBox(d[c]).validating
        BY <1>0, LeftBoxIs
    <2>2. d[c].validating \in BOOLEAN /\ CheckBox(c, d[c])
        BY <1>0 DEF CheckBox, CheckRec
    <2> HIDE DEF e
    <2> QED BY <1>1, <2>1, <2>2
<1> HIDE DEF e
<1>4. CheckBox(b, e[b]) /\ e[b].seen = e[b].text /\ e[b].timer
    BY <1>0, <1>2, EnteredBoxIs
<1>5. CheckData(e) /\ CheckOne(e) /\ CheckSeen(e, p)
    BY <1>2, <1>3, <1>4 DEF CheckData, CheckOne, CheckSeen
<1>6. CheckInv(e, p)
    BY <1>5 DEF CheckInv
<1> QED BY <1>6 DEF e

\* The form is checked.
LEMMA CheckAll ==
    ASSUME NEW d, NEW p, CheckInv(d, p)
    PROVE  /\ CheckInv(CK!ValidateAll(d), p)
           /\ \A b \in CheckBoxes : CK!ValidateAll(d)[b] = IF d[b].disabled THEN d[b] ELSE CheckedBox(b, d[b])
<1> DEFINE e == CK!ValidateAll(d)
<1>0. CheckData(d) /\ (\A c \in CheckBoxes : CheckBox(c, d[c])) /\ d = [c \in CheckBoxes |-> d[c]]
    BY DEF CheckInv, CheckData
<1>1. ASSUME NEW b \in CheckBoxes PROVE CK!Validate(d, b)[b] = CheckedBox(b, d[b])
    BY <1>0, CheckValidate
<1>2. e = [b \in CheckBoxes |-> IF d[b].disabled THEN d[b] ELSE CheckedBox(b, d[b])]
    BY <1>1 DEF CK!ValidateAll
<1>3. e = [b \in CheckBoxes |-> e[b]] /\ \A b \in CheckBoxes : e[b] = IF d[b].disabled THEN d[b] ELSE CheckedBox(b, d[b])
    BY <1>2
<1> HIDE DEF e
<1>4. \A b \in CheckBoxes : /\ CheckBox(b, e[b]) /\ e[b].validating = d[b].validating
                            /\ e[b] = d[b] \/ (CheckMarked(b, e[b]) /\ e[b].seen = d[b].seen /\ e[b].text = d[b].text)
    BY <1>0, <1>3, CheckedBoxIs
<1>5. CheckData(e) /\ CheckOne(e)
    BY <1>3, <1>4 DEF CheckInv, CheckData, CheckOne
<1>6. CheckSeen(e, p)
    BY <1>4 DEF CheckInv, CheckSeen
<1>7. CheckInv(e, p)
    BY <1>5, <1>6 DEF CheckInv
<1> QED BY <1>3, <1>7 DEF e

LEMMA CheckStep ==
    ASSUME CK!CheckedAssumption, CheckInv(data, page), [CK!Next]_(<<data, page>>)
    PROVE  CheckInv(data', page')
<1>0. /\ CheckData(data) /\ data = [c \in CheckBoxes |-> data[c]]
      /\ \A c \in CheckBoxes : CheckBox(c, data[c])
      /\ page = [edits |-> page.edits, posts |-> page.posts, changed |-> page.changed, twice |-> page.twice]
      /\ MaxEdits \in Nat /\ Tries \in Nat
    BY DEF CheckInv, CheckData, CK!CheckedAssumption
<1>1. ASSUME NEW b \in CheckBoxes, CK!Focus(b) PROVE CheckInv(data', page')
    BY <1>1, CheckRefocused DEF CK!Focus
<1>2. ASSUME NEW b \in CheckBoxes, CK!Blur(b) PROVE CheckInv(data', page')
    <2>1. page' = page /\ data' = [data EXCEPT ![b] = LeftBox(data[b])]
        BY <1>0, <1>2 DEF CK!Blur, CK!Blurred, CK!HideTip, LeftBox, CheckBox, CheckRec
    <2>2. CheckBox(b, LeftBox(data[b])) /\ ~LeftBox(data[b]).validating
        BY <1>0, LeftBoxIs
    <2> QED BY <2>1, <2>2, CheckBecomes
<1>3. ASSUME NEW b \in CheckBoxes, NEW t \in CheckTexts, CK!Put(b, t) PROVE CheckInv(data', page')
    <2> DEFINE x == [data[b] EXCEPT !.text = t]
               p == [page EXCEPT !.edits = page.edits + 1, !.changed = page.changed \cup {b},
                                 !.twice = page.twice \cup ({b} \cap page.changed)]
    <2>1. page.edits < MaxEdits /\ t # data[b].text /\ data' = [data EXCEPT ![b] = x] /\ page' = p
        BY <1>0, <1>3 DEF CK!Put
    <2>2. p = [edits |-> page.edits + 1, posts |-> page.posts, changed |-> page.changed \cup {b},
               twice |-> page.twice \cup ({b} \cap page.changed)]
        <3> PICK n, c, w, q : /\ n = page.edits + 1 /\ c = page.changed \cup {b}
                              /\ w = page.twice \cup ({b} \cap page.changed)
                              /\ q = [page EXCEPT !.edits = n, !.changed = c, !.twice = w]
            OBVIOUS
        <3>1. q = [edits |-> n, posts |-> page.posts, changed |-> c, twice |-> w]
            BY <1>0
        <3> QED BY <3>1
    <2>3. page.edits \in 0 .. MaxEdits /\ page.twice \subseteq CheckBoxes
        BY DEF CheckInv
    <2>4. /\ data'[b] = x /\ (\A c \in CheckBoxes : c # b => data'[c] = data[c])
          /\ data' = [c \in CheckBoxes |-> data'[c]]
        BY <1>0, <2>1
    <2>5. /\ CheckBox(b, x) /\ x.text = t /\ x.seen = data[b].seen /\ x.validating = data[b].validating
          /\ x.timer = data[b].timer
        BY <1>0 DEF CheckBox, CheckRec, CheckText
    <2> HIDE DEF x, p
    <2>6. page.edits + 1 \in 0 .. MaxEdits
        BY <1>0, <2>1, <2>3
    <2>7. CheckData(data') /\ CheckOne(data')
        BY <2>4, <2>5 DEF CheckInv, CheckData, CheckOne
    <2>8. CheckSeen(data', page')
        <3> SUFFICES ASSUME NEW c \in CheckBoxes, data'[c].validating
                     PROVE  /\ c \notin page'.changed => data'[c].seen = data'[c].text
                            /\ data'[c].seen = data'[c].text /\ ~data'[c].timer /\ c \notin page'.twice
                                  => CheckMarked(c, data'[c])
            BY DEF CheckSeen
        <3>1. CASE c # b
            BY <2>1, <2>2, <2>4, <3>1 DEF CheckInv, CheckSeen
        <3>2. CASE c = b
            BY <2>1, <2>2, <2>4, <2>5, <3>2 DEF CheckInv, CheckSeen
        <3> QED BY <3>1, <3>2
    <2>9. CheckPosts(page')
        BY <2>1, <2>2 DEF CheckInv, CheckPosts
    <2> QED BY <2>1, <2>2, <2>3, <2>6, <2>7, <2>8, <2>9 DEF CheckInv
<1>4. ASSUME NEW b \in CheckBoxes, CK!Tick(b) PROVE CheckInv(data', page')
    <2>1. CASE data[b].validating
        <3> DEFINE x == SeenBox(data[b])
                   p == [page EXCEPT !.changed = page.changed \ {b}]
        <3>1. data' = [data EXCEPT ![b] = x] /\ page' = p
            BY <1>0, <1>4, <2>1, CheckLook DEF CK!Tick
        <3>2. /\ CheckBox(b, x) /\ x.seen = data[b].text /\ x.text = data[b].text
              /\ x.validating = data[b].validating /\ (x # data[b] => x.timer)
            BY <1>0, SeenBoxIs
        <3>3. p = [edits |-> page.edits, posts |-> page.posts, changed |-> page.changed \ {b}, twice |-> page.twice]
            BY <1>0
        <3> HIDE DEF x, p
        <3>4. x.seen = x.text /\ ~x.timer /\ b \notin page.twice => CheckMarked(b, x)
            <4>1. x.seen = x.text /\ ~x.timer /\ b \notin page.twice => x = data[b]
                BY <3>2
            <4> QED BY <2>1, <4>1 DEF CheckInv, CheckSeen
        <3>5. CheckInv(data', page)
            BY <3>1, <3>2, <3>4, CheckBecomes
        <3>6. data'[b] = x
            BY <1>0, <3>1
        <3>7. CheckSeen(data', page')
            BY <3>1, <3>2, <3>3, <3>5, <3>6 DEF CheckInv, CheckSeen
        <3> QED BY <3>1, <3>3, <3>5, <3>7 DEF CheckInv, CheckPosts
    <2>2. CASE ~data[b].validating
        <3> DEFINE x == [data[b] EXCEPT !.loops = data[b].loops - 1]
        <3>1. data' = [data EXCEPT ![b] = x] /\ page' = page /\ data[b].loops > 0
            BY <1>0, <1>4, <2>2 DEF CK!Tick
        <3>2. CheckBox(b, x) /\ ~x.validating
            BY <1>0, <2>2, <3>1 DEF CheckBox, CheckRec
        <3> HIDE DEF x
        <3> QED BY <3>1, <3>2, CheckBecomes
    <2> QED BY <2>1, <2>2
<1>5. ASSUME NEW b \in CheckBoxes, CK!Timeout(b) PROVE CheckInv(data', page')
    <2> DEFINE y == [data[b] EXCEPT !.timer = FALSE]
               d == [data EXCEPT ![b] = y]
               x == CheckedBox(b, y)
               w == IF data[b].text = data[b].seen THEN page.twice \ {b} ELSE page.twice \cup {b}
    <2>1. data' = CK!Validate(d, b) /\ page' = [page EXCEPT !.twice = w]
        BY <1>0, <1>5 DEF CK!Timeout
    <2>2. d = [c \in CheckBoxes |-> d[c]] /\ d[b] = y /\ \A c \in CheckBoxes : c # b => d[c] = data[c]
        BY <1>0
    <2>3. CheckBox(b, y) /\ y.text = data[b].text /\ y.seen = data[b].seen /\ y.validating = data[b].validating
        BY <1>0 DEF CheckBox, CheckRec
    <2> HIDE DEF y
    <2>4. CheckData(d)
        BY <1>0, <2>2, <2>3 DEF CheckData
    <2>5. /\ CheckBox(b, x) /\ CheckMarked(b, x) /\ x.text = data[b].text /\ x.seen = data[b].seen
          /\ x.validating = data[b].validating
        BY <2>3, CheckedBoxIs
    <2>6. data' = [data EXCEPT ![b] = x]
        <3>1. data' = [d EXCEPT ![b] = x]
            BY <2>1, <2>2, <2>4, CheckValidate
        <3> HIDE DEF x
        <3> QED BY <1>0, <3>1
    <2> HIDE DEF d, x, w
    <2>7. CheckInv(data', page)
        <3>1. data[b].validating /\ b \notin page.changed => data[b].seen = data[b].text
            BY DEF CheckInv, CheckSeen
        <3>2. CheckInv([data EXCEPT ![b] = x], page)
            BY <2>5, <3>1, CheckBecomes
        <3> QED BY <2>6, <3>2
    <2>8. page' = [edits |-> page.edits, posts |-> page.posts, changed |-> page.changed, twice |-> w]
        BY <1>0, <2>1
    <2>9. w \subseteq CheckBoxes /\ \A c \in CheckBoxes : c # b => (c \in w <=> c \in page.twice)
        BY DEF CheckInv, w
    <2>10. data'[b] = x
        BY <1>0, <2>6
    <2>11. CheckSeen(data', page')
        BY <2>5, <2>7, <2>8, <2>9, <2>10 DEF CheckInv, CheckSeen
    <2> QED BY <2>7, <2>8, <2>9, <2>11 DEF CheckInv, CheckPosts
<1>6. ASSUME NEW b \in CheckBoxes, CK!Enter(b) \/ CK!Leave(b) \/ CK!Disable(b) PROVE CheckInv(data', page')
    <2>1. page' = page /\ \E x : /\ data' = [data EXCEPT ![b] = x]
                                 /\ CheckBox(b, x) /\ x.text = data[b].text /\ x.seen = data[b].seen
                                 /\ x.timer = data[b].timer /\ x.validating = data[b].validating
                                 /\ x.invalid = data[b].invalid /\ x.message = data[b].message
        <3>0. CheckBox(b, data[b])
            BY <1>0
        <3>1. CASE CK!Enter(b)
            <4> DEFINE x == [data[b] EXCEPT !.tip = data[b].message]
            <4>1. page' = page /\ data' = [data EXCEPT ![b] = x] /\ data[b].invalid
                BY <1>0, <3>1 DEF CK!Enter, CK!ShowTip
            <4>2. /\ CheckBox(b, x) /\ x.text = data[b].text /\ x.seen = data[b].seen
                  /\ x.timer = data[b].timer /\ x.validating = data[b].validating
                  /\ x.invalid = data[b].invalid /\ x.message = data[b].message
                BY <3>0, <4>1 DEF CheckBox, CheckRec
            <4> HIDE DEF x
            <4> QED BY <4>1, <4>2
        <3>2. CASE CK!Leave(b)
            <4> DEFINE x == [data[b] EXCEPT !.tip = None]
            <4>1. page' = page /\ data' = [data EXCEPT ![b] = x]
                BY <1>0, <3>2 DEF CK!Leave, CK!HideTip
            <4>2. /\ CheckBox(b, x) /\ x.text = data[b].text /\ x.seen = data[b].seen
                  /\ x.timer = data[b].timer /\ x.validating = data[b].validating
                  /\ x.invalid = data[b].invalid /\ x.message = data[b].message
                <5>1. None \in CheckWhy(b)
                    BY DEF CheckWhy
                <5> QED BY <3>0, <5>1 DEF CheckBox, CheckRec
            <4> HIDE DEF x
            <4> QED BY <4>1, <4>2
        <3>3. CASE CK!Disable(b)
            <4> DEFINE x == [data[b] EXCEPT !.disabled = ~data[b].disabled]
            <4>1. page' = page /\ data' = [data EXCEPT ![b] = x]
                BY <1>0, <3>3 DEF CK!Disable
            <4>2. /\ CheckBox(b, x) /\ x.text = data[b].text /\ x.seen = data[b].seen
                  /\ x.timer = data[b].timer /\ x.validating = data[b].validating
                  /\ x.invalid = data[b].invalid /\ x.message = data[b].message
                BY <3>0, <4>1 DEF CheckBox, CheckRec
            <4> HIDE DEF x
            <4> QED BY <4>1, <4>2
        <3> QED BY <1>6, <3>1, <3>2, <3>3
    <2>2. PICK x : /\ data' = [data EXCEPT ![b] = x]
                   /\ CheckBox(b, x) /\ x.text = data[b].text /\ x.seen = data[b].seen
                   /\ x.timer = data[b].timer /\ x.validating = data[b].validating
                   /\ x.invalid = data[b].invalid /\ x.message = data[b].message
        BY <2>1
    <2>3. CheckMarked(b, data[b]) => CheckMarked(b, x)
        BY <2>2 DEF CheckMarked
    <2>4. data[b].validating =>
            /\ b \notin page.changed => data[b].seen = data[b].text
            /\ data[b].seen = data[b].text /\ ~data[b].timer /\ b \notin page.twice => CheckMarked(b, data[b])
        BY DEF CheckInv, CheckSeen
    <2>5. CheckInv([data EXCEPT ![b] = x], page)
        BY <2>2, <2>3, <2>4, CheckBecomes
    <2> QED BY <2>1, <2>2, <2>5
<1>7. CASE CK!Submit
    <2> DEFINE d == CK!ValidateAll(data)
               q == [nr |-> CK!Cardinality(page.posts) + 1, texts |-> [b \in CheckBoxes |-> data[b].text],
                     sent |-> CK!Enabled, left |-> Tries, got |-> None]
    <2>1. /\ CheckInv(d, page)
          /\ \A b \in CheckBoxes : d[b] = IF data[b].disabled THEN data[b] ELSE CheckedBox(b, data[b])
        BY CheckAll
    <2>2. CASE CK!FormValid(data)
        <3>1. data' = d /\ page' = [page EXCEPT !.posts = page.posts \cup {q}]
            BY <1>7, <2>2 DEF CK!Submit
        <3>2. page' = [edits |-> page.edits, posts |-> page.posts \cup {q}, changed |-> page.changed, twice |-> page.twice]
            BY <1>0, <3>1
        <3>3. ASSUME NEW b \in q.sent PROVE CK!Valid(b, q.texts[b])
            <4>1. b \in CheckBoxes /\ ~data[b].disabled
                BY DEF CK!Enabled
            <4>2. ~d[b].invalid
                BY <2>2, <4>1 DEF CK!FormValid
            <4>3. d[b] = CheckedBox(b, data[b])
                BY <2>1, <4>1
            <4>4. CK!Failing(b, data[b].text) = None
                <5>1. CheckedBox(b, data[b]).invalid = (CK!Failing(b, data[b].text) # None)
                    BY <1>0, <4>1, CheckedBoxIs
                <5> HIDE DEF d
                <5> QED BY <4>2, <4>3, <5>1
            <4> QED BY <4>1, <4>4 DEF CK!Valid
        <3>4. /\ q = [nr |-> q.nr, texts |-> q.texts, sent |-> q.sent, left |-> q.left, got |-> q.got]
              /\ q.left \in 0 .. Tries /\ q.got \in {None, "answer"}
            BY <1>0
        <3> HIDE DEF q, d
        <3>5. CheckPosts(page')
            BY <3>2, <3>3, <3>4 DEF CheckInv, CheckPosts
        <3> QED BY <2>1, <3>1, <3>2, <3>5 DEF CheckInv, CheckSeen
    <2>3. CASE ~CK!FormValid(data)
        <3>1. page' = page /\ (data' = d \/ \E b \in CheckBoxes : data[b].loops < 2 /\ data' = CK!Refocus(d, b))
            BY <1>7, <2>3 DEF CK!Submit, CK!Enabled
        <3> HIDE DEF d
        <3>2. ASSUME NEW b \in CheckBoxes, data[b].loops < 2, data' = CK!Refocus(d, b) PROVE CheckInv(data', page')
            <4>1. d[b].loops = data[b].loops
                BY <1>0, <2>1, CheckedBoxIs
            <4>2. CASE d[b].validating
                BY <2>1, <3>1, <3>2, <4>2 DEF CK!Refocus
            <4>3. CASE ~d[b].validating
                BY <2>1, <3>1, <3>2, <4>1, <4>3, CheckRefocused
            <4> QED BY <4>2, <4>3
        <3> QED BY <2>1, <3>1, <3>2
    <2> QED BY <2>2, <2>3
<1>8. ASSUME NEW q \in page.posts, NEW empty \in BOOLEAN, CK!Body(q, empty) PROVE CheckInv(data', page')
    <2> DEFINE r == IF empty THEN [q EXCEPT !.left = q.left - 1] ELSE [q EXCEPT !.got = "answer"]
    <2>1. data' = data /\ q.left > 0 /\ page' = [page EXCEPT !.posts = (page.posts \ {q}) \cup {r}]
        BY <1>8 DEF CK!Body
    <2>2. page' = [edits |-> page.edits, posts |-> (page.posts \ {q}) \cup {r}, changed |-> page.changed, twice |-> page.twice]
        BY <1>0, <2>1
    <2>3. /\ q = [nr |-> q.nr, texts |-> q.texts, sent |-> q.sent, left |-> q.left, got |-> q.got]
          /\ q.left \in 0 .. Tries /\ q.got \in {None, "answer"}
          /\ \A b \in q.sent : CK!Valid(b, q.texts[b])
        BY DEF CheckInv, CheckPosts
    <2>4. r = [nr |-> q.nr, texts |-> q.texts, sent |-> q.sent, left |-> IF empty THEN q.left - 1 ELSE q.left,
               got |-> IF empty THEN q.got ELSE "answer"]
        BY <2>3
    <2>5. /\ r = [nr |-> r.nr, texts |-> r.texts, sent |-> r.sent, left |-> r.left, got |-> r.got]
          /\ r.left \in 0 .. Tries /\ r.got \in {None, "answer"}
          /\ r.sent = q.sent /\ r.texts = q.texts
        BY <1>0, <2>1, <2>3, <2>4
    <2> HIDE DEF r
    <2>6. CheckPosts(page')
        BY <2>2, <2>3, <2>5 DEF CheckInv, CheckPosts
    <2> QED BY <2>1, <2>2, <2>6 DEF CheckInv, CheckSeen
<1>9. CASE UNCHANGED <<data, page>>
    BY <1>9
<1>10. ASSUME NEW b \in CheckBoxes, NEW t \in CheckTexts, CK!Type(b, t) \/ CK!SetData(b, t) PROVE CK!Put(b, t)
    BY <1>10 DEF CK!Type, CK!SetData
<1> QED BY <1>1, <1>2, <1>3, <1>4, <1>5, <1>6, <1>7, <1>8, <1>9, <1>10 DEF CK!Next

LEMMA CheckShows ==
    ASSUME CheckInv(data, page)
    PROVE  CK!TypeOK /\ CK!MarksTold /\ CK!PostsAreChecked
<1>1. CK!TypeOK /\ CK!PostsAreChecked
    BY DEF CheckInv, CheckData, CheckBox, CheckRec, CheckText, CheckPosts, CK!TypeOK, CK!PostsAreChecked
<1>2. CK!Cardinality(CK!FocusIn(data)) <= 1
    <2>1. CK!FocusIn(data) = {} \/ \E b \in CheckBoxes : CK!FocusIn(data) = {b}
        BY DEF CheckInv, CheckOne, CK!FocusIn
    <2>2. \A X : CK!Cardinality(X) = Cardinality(X)
        BY Zenon DEF CK!Cardinality, Cardinality
    <2>3. Cardinality(CK!FocusIn(data)) \in {0, 1}
        BY <2>1, FS_EmptySet, FS_Singleton
    <2>4. CK!Cardinality(CK!FocusIn(data)) = Cardinality(CK!FocusIn(data))
        BY <2>2
    <2> HIDE DEF CK!Cardinality
    <2> QED BY <2>3, <2>4
<1>3. ASSUME NEW b \in CheckBoxes
      PROVE  /\ data[b].tip # None => data[b].invalid
             /\ data[b].validating => data[b].loops > 0
             /\ data[b].validating /\ data[b].seen = data[b].text /\ ~data[b].timer /\ b \notin page.twice =>
                   /\ data[b].invalid = ~CK!Valid(b, data[b].text)
                   /\ data[b].invalid => data[b].message = CK!Failing(b, data[b].text)
    BY DEF CheckInv, CheckData, CheckBox, CheckRec, CheckSeen, CheckMarked
<1> QED BY <1>1, <1>2, <1>3 DEF CK!MarksTold

-----------------------------------------------------------------------------
(* Resizing.                                                                 *)

ResizeBox == [l : Int, t : Int, w : Int, h : Int]
\* What may be dragged: one edge of each axis, or the box.
ResizeGrips ==
    {v \cup h : v \in {{}, {"n"}, {"s"}}, h \in {{}, {"w"}, {"e"}}} \cup {{"all"}}
ResizeData == [box : ResizeBox, next : ResizeBox, axis : Axes, still : SUBSET {"size", "place"}]
ResizePage == [drag : [by : ResizeGrips, x : Int, y : Int, box : ResizeBox], out : BOOLEAN, drags : {0, 1}]

\* While the mouse is within bounds: where the edges are, from where they were.
ResizeKept(by, s, b) ==
    /\ "w" \in by => b.l + b.w = s.l + s.w
    /\ "e" \in by => b.l = s.l
    /\ "n" \in by => b.t + b.h = s.t + s.h
    /\ "s" \in by => b.t = s.t
    /\ by \cap {"w", "e"} # {} => RZ!InRange(b.w)
    /\ by \cap {"n", "s"} # {} => RZ!InRange(b.h)
    /\ "all" \in by => b.w = s.w /\ b.h = s.h

\* A box that was not dragged yet is one of the first; one that is dragged was one.
ResizeInv(d, p) ==
    /\ d \in ResizeData /\ p \in ResizePage
    /\ p.drags = 0 => d.box \in Boxes /\ p.drag.by = {}
    /\ p.drag.by # {} => p.drag.box \in Boxes
    /\ p.drag.by # {} /\ ~p.out => ResizeKept(p.drag.by, p.drag.box, d.next)

LEMMA ResizeBoxes ==
    ASSUME RZ!ResizingAssumption
    PROVE  /\ Boxes \subseteq ResizeBox
           /\ \A b \in Boxes : RZ!InRange(b.w) /\ RZ!InRange(b.h)
           /\ RZ!Nothing \in [by : {{}}, x : {0}, y : {0}, box : Boxes]
           /\ {} \in ResizeGrips
<1>1. Boxes \subseteq [l : Int, t : Int, w : Least .. Most, h : Least .. Most] /\ Least \in Int /\ Most \in Int
    BY DEF RZ!ResizingAssumption
<1>2. \A b \in Boxes : RZ!InRange(b.w) /\ RZ!InRange(b.h)
    BY <1>1 DEF RZ!InRange
<1>3. (CHOOSE b \in Boxes : TRUE) \in Boxes
    BY DEF RZ!ResizingAssumption
<1>4. RZ!Nothing \in [by : {{}}, x : {0}, y : {0}, box : Boxes]
    BY <1>3 DEF RZ!Nothing
<1>5. {} \cup {} \in ResizeGrips
    BY DEF ResizeGrips
<1> QED BY <1>1, <1>2, <1>4, <1>5 DEF ResizeBox

LEMMA ResizeStart ==
    ASSUME RZ!ResizingAssumption, RZ!Init
    PROVE  ResizeInv(data, page)
<1>1. PICK b \in Boxes, a \in Axes : data = [box |-> b, next |-> b, axis |-> a, still |-> {}]
    BY DEF RZ!Init
<1>2. page = [drag |-> RZ!Nothing, out |-> FALSE, drags |-> 0]
    BY DEF RZ!Init
<1>3. b \in ResizeBox /\ RZ!Nothing \in [by : ResizeGrips, x : Int, y : Int, box : ResizeBox] /\ RZ!Nothing.by = {}
    <2>1. RZ!Nothing \in [by : {{}}, x : {0}, y : {0}, box : Boxes] /\ {} \in ResizeGrips /\ Boxes \subseteq ResizeBox
        BY ResizeBoxes
    <2> QED BY <2>1
<1>4. data \in ResizeData /\ page \in ResizePage
    BY <1>1, <1>2, <1>3 DEF ResizeData, ResizePage
<1> QED BY <1>1, <1>2, <1>3, <1>4 DEF ResizeInv

\* The edges below the mouse can be dragged together.
LEMMA ResizeEdges ==
    ASSUME NEW b, NEW x, NEW y
    PROVE  RZ!EdgesAt(b, x, y) \in ResizeGrips
<1> DEFINE v == IF y > b.t /\ y < b.t + Edge THEN {"n"}
                ELSE IF y < b.t + b.h /\ y > b.t + b.h - Edge THEN {"s"} ELSE {}
           h == IF x > b.l /\ x < b.l + Edge THEN {"w"}
                ELSE IF x < b.l + b.w /\ x > b.l + b.w - Edge THEN {"e"} ELSE {}
<1>1. v \in {{}, {"n"}, {"s"}} /\ h \in {{}, {"w"}, {"e"}}
    OBVIOUS
<1>2. RZ!EdgesAt(b, x, y) = IF v \cup h \in Handles THEN v \cup h ELSE {}
    BY DEF RZ!EdgesAt
<1> HIDE DEF v, h
<1>3. {} \cup {} \in ResizeGrips /\ v \cup h \in ResizeGrips
    BY <1>1 DEF ResizeGrips
<1> QED BY <1>2, <1>3

\* What follows the mouse: within its bounds the other edges stay.
LEMMA ResizeFollows ==
    ASSUME RZ!ResizingAssumption, ResizeInv(data, page), page.drag.by # {}, NEW x \in Marks, NEW y \in Marks
    PROVE  LET n == RZ!Followed(data.next, page.drag, x, y) IN
           /\ n \in ResizeBox
           /\ ~(page.out \/ RZ!Outside(page.drag, x, y)) => ResizeKept(page.drag.by, page.drag.box, n)
<1> DEFINE g == page.drag
           b == data.next
           n == RZ!Followed(b, g, x, y)
           s == g.box
<1>1. /\ g \in [by : ResizeGrips, x : Int, y : Int, box : ResizeBox] /\ b \in ResizeBox /\ s \in Boxes
      /\ ~page.out => ResizeKept(g.by, s, b)
    BY DEF ResizeInv, ResizeData, ResizePage
<1>2. x \in Int /\ y \in Int /\ Least \in Int /\ Most \in Int /\ Least <= Most
    BY DEF RZ!ResizingAssumption
<1>3. /\ s.l \in Int /\ s.t \in Int /\ s.w \in Int /\ s.h \in Int /\ g.x \in Int /\ g.y \in Int
      /\ b.l \in Int /\ b.t \in Int /\ b.w \in Int /\ b.h \in Int
    BY <1>1 DEF ResizeBox
<1>4. CASE g.by = {"all"}
    <2>1. n = RZ!Carried(b, g, x, y)
        BY <1>4 DEF RZ!Followed
    <2>2. /\ n \in ResizeBox /\ n.w = b.w /\ n.h = b.h
        <3> DEFINE l == IF data.axis = "v" THEN b.l ELSE s.l + x - g.x
                   t == IF data.axis = "h" THEN b.t ELSE s.t + y - g.y
        <3>1. n = [b EXCEPT !.l = l, !.t = t]
            BY <2>1 DEF RZ!Carried
        <3>2. l \in Int /\ t \in Int
            BY <1>2, <1>3
        <3> HIDE DEF l, t, n, b
        <3> QED BY <1>1, <3>1, <3>2 DEF ResizeBox
    <2>3. ResizeKept(g.by, s, b) => ResizeKept(g.by, s, n)
        BY <1>4, <2>2 DEF ResizeKept
    <2> QED BY <1>1, <2>2, <2>3
<1>5. CASE g.by # {"all"}
    <2> DEFINE dx == x - g.x
               dy == y - g.y
    <2>1. n = RZ!Pulled(b, g, x, y)
        BY <1>5 DEF RZ!Followed
    <2>2. n = [w |-> IF "e" \in g.by THEN RZ!Within(s.w + dx) ELSE IF "w" \in g.by THEN s.w - dx ELSE b.w,
               h |-> IF "s" \in g.by THEN RZ!Within(s.h + dy) ELSE IF "n" \in g.by THEN s.h - dy ELSE b.h,
               l |-> IF "w" \in g.by /\ RZ!InRange(s.w - dx) THEN s.l + dx ELSE b.l,
               t |-> IF "n" \in g.by /\ RZ!InRange(s.h - dy) THEN s.t + dy ELSE b.t]
        BY <2>1 DEF RZ!Pulled
    <2>3. dx \in Int /\ dy \in Int
        BY <1>2, <1>3
    <2>4. ("e" \in g.by => "w" \notin g.by) /\ ("s" \in g.by => "n" \notin g.by) /\ "all" \notin g.by
        BY <1>1, <1>5 DEF ResizeGrips
    <2>5. \A k \in Int : RZ!Within(k) \in Int /\ RZ!InRange(RZ!Within(k))
        BY <1>2 DEF RZ!Within, RZ!InRange
    <2>6. RZ!Outside(g, x, y) <=> \/ "w" \in g.by /\ ~RZ!InRange(s.w - dx)
                                  \/ "n" \in g.by /\ ~RZ!InRange(s.h - dy)
        BY DEF RZ!Outside
    <2> HIDE DEF n, s, b, g, dx, dy
    <2>7. n.l \in Int /\ n.t \in Int /\ n.w \in Int /\ n.h \in Int
        BY <1>3, <2>2, <2>3, <2>5
    <2>8. n \in ResizeBox
        BY <2>2, <2>7 DEF ResizeBox
    <2>9. ASSUME ~page.out, ~RZ!Outside(g, x, y) PROVE ResizeKept(g.by, s, n)
        <3>1. ResizeKept(g.by, s, b)
            BY <1>1, <2>9
        <3>2. ("w" \in g.by => RZ!InRange(s.w - dx)) /\ ("n" \in g.by => RZ!InRange(s.h - dy))
            BY <2>6, <2>9
        <3>3. ("w" \in g.by => n.l + n.w = s.l + s.w) /\ ("n" \in g.by => n.t + n.h = s.t + s.h)
            BY <1>3, <2>2, <2>3, <2>4, <3>2
        <3>4. ("e" \in g.by => n.l = s.l) /\ ("s" \in g.by => n.t = s.t)
            BY <2>2, <2>4, <3>1 DEF ResizeKept
        <3>5. (g.by \cap {"w", "e"} # {} => RZ!InRange(n.w)) /\ (g.by \cap {"n", "s"} # {} => RZ!InRange(n.h))
            BY <1>3, <2>2, <2>3, <2>4, <2>5, <3>2
        <3> QED BY <2>4, <3>3, <3>4, <3>5 DEF ResizeKept
    <2> QED BY <2>8, <2>9 DEF n, s, b, g
<1> QED BY <1>4, <1>5

LEMMA ResizeStep ==
    ASSUME RZ!ResizingAssumption, ResizeInv(data, page), [RZ!Next]_(<<data, page>>)
    PROVE  ResizeInv(data', page')
<1>0. data \in ResizeData /\ page \in ResizePage /\ Marks \subseteq Int
    BY DEF ResizeInv, RZ!ResizingAssumption
<1>1. ASSUME NEW x \in Marks, NEW y \in Marks, RZ!Press(x, y) PROVE ResizeInv(data', page')
    <2> DEFINE e == IF "size" \in data.still THEN {} ELSE RZ!EdgesAt(data.box, x, y)
               by == IF e # {} THEN e ELSE IF "place" \notin data.still /\ RZ!Inside(data.box, x, y) THEN {"all"} ELSE {}
    <2>1. /\ page.drags = 0 /\ by # {} /\ data' = [data EXCEPT !.next = data.box]
          /\ page' = [drag |-> [by |-> by, x |-> x, y |-> y, box |-> data.box], out |-> FALSE, drags |-> 1]
        BY <1>1 DEF RZ!Press
    <2>2. by \in ResizeGrips
        <3>1. e \in ResizeGrips /\ {} \in ResizeGrips /\ {"all"} \in ResizeGrips
            BY ResizeEdges, ResizeBoxes DEF ResizeGrips
        <3> QED BY <3>1
    <2> HIDE DEF by, e
    <2>3. data.box \in Boxes /\ data.box \in ResizeBox /\ RZ!InRange(data.box.w) /\ RZ!InRange(data.box.h)
        BY <2>1, ResizeBoxes DEF ResizeInv
    <2>4. data' \in ResizeData /\ data'.next = data.box
        BY <1>0, <2>1, <2>3 DEF ResizeData
    <2>5. page' \in ResizePage
        BY <1>0, <2>1, <2>2, <2>3 DEF ResizePage
    <2>6. page'.drag.by = by /\ page'.drag.box = data.box /\ page'.drags = 1
        BY <2>1
    <2>7. ResizeKept(by, data.box, data.box)
        BY <2>3 DEF ResizeKept
    <2> QED BY <2>1, <2>3, <2>4, <2>5, <2>6, <2>7 DEF ResizeInv
<1>2. ASSUME NEW x \in Marks, NEW y \in Marks, NEW f \in BOOLEAN, RZ!Move(x, y, f) PROVE ResizeInv(data', page')
    <2> DEFINE n == RZ!Followed(data.next, page.drag, x, y)
               out == page.out \/ RZ!Outside(page.drag, x, y)
    <2>1. /\ page.drag.by # {}
          /\ data' = [data EXCEPT !.next = n, !.box = IF f THEN n ELSE data.box]
          /\ page' = [page EXCEPT !.out = out]
        BY <1>2 DEF RZ!Move
    <2>2. n \in ResizeBox /\ (~out => ResizeKept(page.drag.by, page.drag.box, n)) /\ out \in BOOLEAN
        BY <2>1, ResizeFollows
    <2> HIDE DEF n, out
    <2>3. data' \in ResizeData /\ data'.next = n
        BY <1>0, <2>1, <2>2 DEF ResizeData
    <2>4. page' \in ResizePage /\ page'.drag = page.drag /\ page'.out = out /\ page'.drags = page.drags
        BY <1>0, <2>1, <2>2 DEF ResizePage
    <2> QED BY <2>1, <2>2, <2>3, <2>4 DEF ResizeInv
<1>3. ASSUME NEW x \in Marks, NEW y \in Marks, RZ!Release(x, y) PROVE ResizeInv(data', page')
    <2> DEFINE n == RZ!Followed(data.next, page.drag, x, y)
               out == page.out \/ RZ!Outside(page.drag, x, y)
    <2>1. /\ page.drag.by # {} /\ data' = [data EXCEPT !.next = n, !.box = n]
          /\ page' = [page EXCEPT !.out = out, !.drag = RZ!Nothing]
        BY <1>3 DEF RZ!Release
    <2>2. n \in ResizeBox /\ out \in BOOLEAN
        BY <2>1, ResizeFollows
    <2>3. /\ RZ!Nothing \in [by : ResizeGrips, x : Int, y : Int, box : ResizeBox] /\ RZ!Nothing.by = {}
        BY ResizeBoxes
    <2> HIDE DEF n, out
    <2>4. data' \in ResizeData
        BY <1>0, <2>1, <2>2 DEF ResizeData
    <2>5. page' \in ResizePage /\ page'.drag = RZ!Nothing /\ page'.drags = page.drags
        BY <1>0, <2>1, <2>2, <2>3 DEF ResizePage
    <2>6. page.drags # 0
        BY <2>1 DEF ResizeInv
    <2> QED BY <2>3, <2>4, <2>5, <2>6 DEF ResizeInv
<1>4. ASSUME NEW what \in {"size", "place"}, RZ!Turn(what) PROVE ResizeInv(data', page')
    <2> DEFINE s == IF what \in data.still THEN data.still \ {what} ELSE data.still \cup {what}
    <2>1. page' = page /\ data' = [data EXCEPT !.still = s]
        BY <1>4 DEF RZ!Turn
    <2>2. s \in SUBSET {"size", "place"}
        BY <1>0 DEF ResizeData
    <2> HIDE DEF s
    <2>3. data' \in ResizeData /\ data'.box = data.box /\ data'.next = data.next
        BY <1>0, <2>1, <2>2 DEF ResizeData
    <2> QED BY <2>1, <2>3 DEF ResizeInv
<1>5. CASE UNCHANGED <<data, page>>
    BY <1>5
<1> QED BY <1>1, <1>2, <1>3, <1>4, <1>5 DEF RZ!Next

LEMMA ResizeShows ==
    ASSUME ResizeInv(data, page)
    PROVE  RZ!TypeOK /\ RZ!OppositeEdgeStays
<1>1. data \in ResizeData /\ page \in ResizePage
    BY DEF ResizeInv
<1>2. \A by \in ResizeGrips : by \subseteq {"n", "s", "e", "w", "all"}
    BY DEF ResizeGrips
<1>3. RZ!TypeOK
    BY <1>1, <1>2 DEF RZ!TypeOK, ResizeData, ResizePage, ResizeBox
<1>4. RZ!OppositeEdgeStays
    BY DEF ResizeInv, ResizeKept, RZ!OppositeEdgeStays
<1> QED BY <1>3, <1>4

-----------------------------------------------------------------------------
(* Window.                                                                   *)

\* A handler makes several calls: w is what has become of the window so far.
WinData ==
    [closed : BOOLEAN, minimized : BOOLEAN, maximized : BOOLEAN, collapsed : BOOLEAN,
     tool : BOOLEAN, size : WindowSizes \cup {Fit}, original : WindowSizes \cup {None},
     astray : BOOLEAN, visible : BOOLEAN, body : BOOLEAN, slide : {"none", "up", "down"},
     shadow : BOOLEAN, mask : BOOLEAN, href : Hrefs, loaded : BOOLEAN, content : Hrefs \cup {None}]
WinPage ==
    [nr : Nat, net : SUBSET [nr : Nat, href : Hrefs], before : WindowSizes, mixed : SUBSET {"failed", "overlap", "slid"}]

\* Requests that do not overlap are one at a time, and for what the window loads.
WinLoads(d, p) ==
    p.mixed \cap {"failed", "overlap"} = {} =>
        /\ \A r, s \in p.net : r = s /\ r.href = d.href
        /\ p.net = {} /\ p.nr > 0 => d.content = d.href /\ d.loaded

\* A window has the size it was given, or keeps it to be restored.
WinSize(d, p) ==
    /\ d.tool => d.original = p.before
    /\ ~d.tool => d.size = p.before /\ d.original = None /\ ~d.maximized
    /\ d.visible => d.tool = d.maximized
    /\ d.visible /\ d.tool => d.size = Fit

WinShadow(d, p) ==
    /\ d.mask = d.visible
    /\ "slid" \notin p.mixed =>
        /\ d.shadow <=> d.visible /\ ~d.collapsed /\ d.slide = "none"
        /\ d.slide # "none" => d.visible

WinTypes(d, p) ==
    /\ d \in WinData /\ p \in WinPage
    /\ \A r \in p.net : 1 <= r.nr /\ r.nr <= p.nr

Is(w) == w = [d |-> w.d, p |-> w.p]
\* What a call leaves alone.
SameLooks(w, v) ==
    /\ \A f \in {"closed", "minimized", "maximized", "collapsed", "tool", "size", "original",
                 "astray", "visible", "body", "slide", "shadow", "mask"} : v.d[f] = w.d[f]
    /\ v.p.before = w.p.before
    /\ "slid" \in v.p.mixed <=> "slid" \in w.p.mixed
SameLoads(w, v) ==
    /\ v.d.href = w.d.href /\ v.d.loaded = w.d.loaded /\ v.d.content = w.d.content
    /\ v.p = w.p

LEMMA LoadHrefKeeps ==
    ASSUME NEW w, Is(w), WinTypes(w.d, w.p), w.d.loaded => WinLoads(w.d, w.p), NEW v, v = W!LoadHref(w)
    PROVE  /\ Is(v) /\ WinTypes(v.d, v.p) /\ WinLoads(v.d, v.p)
           /\ SameLooks(w, v)
<1>1. CASE w.d.loaded
    BY <1>1 DEF W!LoadHref, SameLooks
<1>2. CASE ~w.d.loaded
    <2> DEFINE d == w.d
               p == w.p
    <2>1. v = [d |-> [d EXCEPT !.content = None],
               p |-> [p EXCEPT !.nr = @ + 1, !.net = @ \cup {[nr |-> p.nr + 1, href |-> d.href]},
                               !.mixed = @ \cup (IF p.net # {} THEN {"overlap"} ELSE {})]]
        BY <1>2, Zenon DEF W!LoadHref, W!W
    <2>2. d \in WinData /\ p \in WinPage /\ ~d.loaded /\ \A r \in p.net : 1 <= r.nr /\ r.nr <= p.nr
        BY <1>2 DEF WinTypes
    <2> HIDE DEF d, p
    <2>3. v.d = [d EXCEPT !.content = None] /\ Is(v)
        BY <2>1 DEF Is
    <2>4. /\ v.p \in WinPage /\ v.p.nr = p.nr + 1 /\ v.p.before = p.before
          /\ v.p.net = p.net \cup {[nr |-> p.nr + 1, href |-> d.href]}
          /\ v.p.mixed = p.mixed \cup (IF p.net # {} THEN {"overlap"} ELSE {})
        <3> DEFINE n == p.net \cup {[nr |-> p.nr + 1, href |-> d.href]}
                   m == p.mixed \cup (IF p.net # {} THEN {"overlap"} ELSE {})
                   k == p.nr + 1
        <3>1. v.p = [p EXCEPT !.nr = k, !.net = n, !.mixed = m]
            BY <2>1
        <3>2. n \in SUBSET [nr : Nat, href : Hrefs]
            BY <2>2 DEF WinPage, WinData
        <3>3. k \in Nat /\ m \in SUBSET {"failed", "overlap", "slid"}
            BY <2>2 DEF WinPage
        <3> HIDE DEF n, m, k
        <3>4. v.p \in WinPage /\ v.p.nr = k /\ v.p.before = p.before /\ v.p.net = n /\ v.p.mixed = m
            BY <2>2, <3>1, <3>2, <3>3 DEF WinPage
        <3> QED BY <3>4 DEF n, m, k
    <2>5. v.d \in WinData /\ v.d.href = d.href /\ v.d.loaded = d.loaded
        BY <2>2, <2>3 DEF WinData
    <2>6. WinTypes(v.d, v.p)
        BY <2>2, <2>4, <2>5 DEF WinTypes, WinPage
    <2>7. WinLoads(v.d, v.p)
        <3>1. CASE p.net = {}
            <4>1. v.p.net = {[nr |-> p.nr + 1, href |-> d.href]}
                BY <2>4, <3>1
            <4>2. v.p.net # {}
                BY <4>1
            <4>3. \A r, t \in v.p.net : r = t /\ r.href = d.href
                BY <4>1
            <4> QED BY <2>5, <4>2, <4>3, Zenon DEF WinLoads
        <3>2. CASE p.net # {}
            <4>1. "overlap" \in v.p.mixed
                BY <2>4, <3>2
            <4> QED BY <4>1 DEF WinLoads
        <3> QED BY <3>1, <3>2
    <2>8. SameLooks(w, v)
        BY <2>2, <2>3, <2>4 DEF SameLooks, d, p, WinData
    <2> QED BY <2>3, <2>6, <2>7, <2>8
<1> QED BY <1>1, <1>2

\* A window that is not maximized, or will be again, is maximized.
LEMMA MaximizedDoes ==
    ASSUME NEW w, Is(w), WinTypes(w.d, w.p), None \notin WindowSizes,
           ~w.d.maximized, w.d.tool => w.d.original = w.p.before,
           ~w.d.tool => w.d.size = w.p.before /\ w.d.original = None,
           NEW v, v = W!Maximized(w)
    PROVE  /\ Is(v) /\ WinTypes(v.d, v.p)
           /\ SameLoads(w, v)
           /\ \A f \in {"visible", "mask", "shadow", "collapsed", "slide"} : v.d[f] = w.d[f]
           /\ v.d.maximized /\ v.d.tool /\ v.d.size = Fit /\ v.d.original = v.p.before
<1> DEFINE d == w.d
           o == IF d.original = None THEN d.size ELSE d.original
<1>1. v = [d |-> [d EXCEPT !.tool = TRUE, !.original = o, !.size = Fit, !.astray = FALSE,
                           !.minimized = FALSE, !.maximized = TRUE],
           p |-> w.p]
    BY Zenon DEF W!Maximized, W!W
<1>2. d \in WinData /\ o = w.p.before /\ w.p.before \in WindowSizes
    BY DEF WinTypes, WinPage
<1> HIDE DEF d, o
<1>3. /\ v.d \in WinData
      /\ v.d.maximized /\ v.d.tool /\ v.d.size = Fit /\ v.d.original = w.p.before
      /\ v.d.href = d.href /\ v.d.loaded = d.loaded /\ v.d.content = d.content
      /\ \A f \in {"visible", "mask", "shadow", "collapsed", "slide"} : v.d[f] = d[f]
    <2>1. v.d = [d EXCEPT !.tool = TRUE, !.original = o, !.size = Fit, !.astray = FALSE,
                          !.minimized = FALSE, !.maximized = TRUE]
        BY <1>1
    <2> QED BY <1>2, <2>1 DEF WinData
<1>4. Is(v) /\ v.p = w.p
    BY <1>1 DEF Is
<1> QED BY <1>3, <1>4 DEF SameLoads, WinTypes, d

\* An animation ends; without one nothing happens.
LEMMA SlideEndDoes ==
    ASSUME NEW w, Is(w), WinTypes(w.d, w.p), w.d.loaded => WinLoads(w.d, w.p),
           NEW v, v = W!SlideEnd(w)
    PROVE  /\ Is(v) /\ WinTypes(v.d, v.p) /\ (w.d.slide = "none" => v = w)
           /\ WinLoads(w.d, w.p) => WinLoads(v.d, v.p)
           /\ \A f \in {"visible", "mask", "maximized", "tool", "size", "original"} : v.d[f] = w.d[f]
           /\ v.p.before = w.p.before /\ ("slid" \in v.p.mixed <=> "slid" \in w.p.mixed)
           /\ v.d.slide = "none"
           /\ w.d.slide = "up" => v.d.shadow = w.d.shadow /\ v.d.collapsed
           /\ w.d.slide = "down" => v.d.shadow /\ ~v.d.collapsed /\ v.d.body
<1>1. CASE w.d.slide = "none"
    BY <1>1 DEF W!SlideEnd
<1>2. CASE w.d.slide = "up"
    <2> DEFINE d == w.d
    <2>1. v = [d |-> [d EXCEPT !.slide = "none", !.collapsed = TRUE, !.body = FALSE], p |-> w.p]
        BY <1>2 DEF W!SlideEnd, W!W
    <2>2. d \in WinData
        BY DEF WinTypes
    <2> HIDE DEF d
    <2>3. /\ v.d \in WinData /\ v.d.slide = "none" /\ v.d.collapsed /\ v.d.shadow = d.shadow
          /\ v.d.href = d.href /\ v.d.loaded = d.loaded /\ v.d.content = d.content
          /\ \A f \in {"visible", "mask", "maximized", "tool", "size", "original"} : v.d[f] = d[f]
        <3>1. v.d = [d EXCEPT !.slide = "none", !.collapsed = TRUE, !.body = FALSE]
            BY <2>1
        <3> QED BY <2>2, <3>1 DEF WinData
    <2>4. Is(v) /\ v.p = w.p
        BY <2>1 DEF Is
    <2> QED BY <1>2, <2>3, <2>4 DEF WinTypes, WinLoads, d
<1>3. CASE w.d.slide = "down"
    <2> DEFINE d == w.d
               e == [d EXCEPT !.slide = "none", !.collapsed = FALSE, !.body = TRUE, !.shadow = TRUE]
               u == W!W(e, w.p)
    <2>1. v = W!LoadHref(u)
        BY <1>3 DEF W!SlideEnd
    <2>2. d \in WinData
        BY DEF WinTypes
    <2>3. u = [d |-> e, p |-> w.p]
        BY DEF W!W
    <2>4. u.d = e /\ u.p = w.p /\ Is(u)
        <3> HIDE DEF e, u
        <3> QED BY <2>3 DEF Is
    <2> HIDE DEF d, u
    <2>5. /\ e \in WinData /\ e.slide = "none" /\ ~e.collapsed /\ e.shadow /\ e.body
          /\ e.href = d.href /\ e.loaded = d.loaded /\ e.content = d.content
          /\ \A f \in {"visible", "mask", "maximized", "tool", "size", "original"} : e[f] = d[f]
        BY <2>2 DEF WinData
    <2> HIDE DEF e
    <2>6. WinTypes(u.d, u.p) /\ (u.d.loaded => WinLoads(u.d, u.p))
        BY <2>4, <2>5 DEF WinTypes, WinLoads, d
    <2>7. Is(v) /\ WinTypes(v.d, v.p) /\ WinLoads(v.d, v.p) /\ SameLooks(u, v)
        BY <2>1, <2>4, <2>6, LoadHrefKeeps
    <2> QED BY <1>3, <2>4, <2>5, <2>7 DEF SameLooks, d
<1> QED BY <1>1, <1>2, <1>3 DEF WinTypes, WinData

WinInv(d, p) == WinTypes(d, p) /\ WinLoads(d, p) /\ WinSize(d, p) /\ WinShadow(d, p)

\* open, of a window that does not slide or is known to.
LEMMA OpenedKeeps ==
    ASSUME NEW w, Is(w), WinInv(w.d, w.p), None \notin WindowSizes,
           w.d.slide # "none" => "slid" \in w.p.mixed,
           NEW v, v = W!Opened(w)
    PROVE  WinInv(v.d, v.p)
<1> DEFINE d == [w.d EXCEPT !.visible = TRUE, !.closed = FALSE, !.minimized = FALSE,
                            !.maximized = @ \/ w.d.tool, !.mask = TRUE, !.shadow = TRUE]
           m == [d EXCEPT !.maximized = FALSE]
           u == IF d.maximized THEN W!Maximized(W!W(m, w.p)) ELSE W!W(d, w.p)
           c == [u.d EXCEPT !.collapsed = FALSE]
<1>1. v = IF u.d.collapsed THEN W!Collapsed(W!W(c, u.p)) ELSE W!LoadHref(u)
    BY Zenon DEF W!Opened
<1>2. /\ d \in WinData /\ m \in WinData
      /\ d.visible /\ d.mask /\ d.shadow /\ d.maximized = (w.d.maximized \/ w.d.tool)
      /\ \A f \in {"collapsed", "slide", "href", "loaded", "content", "tool", "size", "original"} : d[f] = w.d[f]
      /\ ~m.maximized
      /\ \A f \in {"visible", "mask", "shadow", "collapsed", "slide", "href", "loaded", "content",
                   "tool", "size", "original"} : m[f] = d[f]
    <2> DEFINE e == w.d
    <2>1. e \in WinData
        BY DEF WinInv, WinTypes
    <2>2. d = [e EXCEPT !.visible = TRUE, !.closed = FALSE, !.minimized = FALSE,
                        !.maximized = e.maximized \/ e.tool, !.mask = TRUE, !.shadow = TRUE]
        OBVIOUS
    <2> HIDE DEF e, d
    <2>3. /\ d \in WinData
          /\ d.visible /\ d.mask /\ d.shadow /\ d.maximized = (e.maximized \/ e.tool)
          /\ \A f \in {"collapsed", "slide", "href", "loaded", "content", "tool", "size", "original"} : d[f] = e[f]
        BY <2>1, <2>2 DEF WinData
    <2>4. /\ m \in WinData /\ ~m.maximized
          /\ \A f \in {"visible", "mask", "shadow", "collapsed", "slide", "href", "loaded", "content",
                       "tool", "size", "original"} : m[f] = d[f]
        BY <2>3 DEF WinData
    <2> QED BY <2>3, <2>4 DEF e
<1> HIDE DEF d, m
<1>3. /\ Is(u) /\ WinTypes(u.d, u.p) /\ u.p = w.p
      /\ WinLoads(u.d, u.p) /\ WinSize(u.d, u.p)
      /\ \A f \in {"collapsed", "slide"} : u.d[f] = w.d[f]
      /\ u.d.visible /\ u.d.mask /\ u.d.shadow
    <2>1. CASE d.maximized
        <3> DEFINE k == W!W(m, w.p)
        <3>1. k = [d |-> m, p |-> w.p] /\ u = W!Maximized(k)
            BY <2>1 DEF W!W
        <3>2. Is(k) /\ k.d = m /\ k.p = w.p
            <4> HIDE DEF k
            <4> QED BY <3>1 DEF Is
        <3> HIDE DEF k
        <3>3. /\ WinTypes(k.d, k.p) /\ ~k.d.maximized
              /\ k.d.tool => k.d.original = k.p.before
              /\ ~k.d.tool => k.d.size = k.p.before /\ k.d.original = None
            BY <1>2, <3>2 DEF WinInv, WinTypes, WinSize
        <3> HIDE DEF u
        <3>4. /\ Is(u) /\ WinTypes(u.d, u.p)
              /\ SameLoads(k, u)
              /\ \A f \in {"visible", "mask", "shadow", "collapsed", "slide"} : u.d[f] = k.d[f]
              /\ u.d.maximized /\ u.d.tool /\ u.d.size = Fit /\ u.d.original = u.p.before
            BY <3>1, <3>2, <3>3, MaximizedDoes
        <3>5. WinLoads(u.d, u.p)
            BY <1>2, <3>2, <3>4 DEF SameLoads, WinLoads, WinInv
        <3> QED BY <1>2, <3>2, <3>4, <3>5 DEF SameLoads, WinSize
    <2>2. CASE ~d.maximized
        <3>1. u = [d |-> d, p |-> w.p]
            BY <2>2 DEF W!W
        <3> HIDE DEF u
        <3>2. Is(u) /\ u.d = d /\ u.p = w.p
            BY <3>1 DEF Is
        <3>3. w.d.tool = FALSE /\ d.tool = FALSE /\ d.maximized = FALSE
            BY <1>2, <2>2 DEF WinInv, WinTypes, WinData
        <3>4. WinTypes(d, w.p) /\ WinLoads(d, w.p)
            BY <1>2 DEF WinInv, WinTypes, WinLoads
        <3>5. WinSize(d, w.p)
            BY <1>2, <3>3 DEF WinInv, WinSize
        <3> QED BY <1>2, <3>2, <3>4, <3>5
    <2> QED BY <2>1, <2>2
<1> HIDE DEF u
<1>4. CASE ~u.d.collapsed
    <2>1. v = W!LoadHref(u)
        BY <1>1, <1>4
    <2>2. Is(v) /\ WinTypes(v.d, v.p) /\ WinLoads(v.d, v.p) /\ SameLooks(u, v)
        BY <1>3, <2>1, LoadHrefKeeps
    <2> QED BY <1>3, <1>4, <2>2 DEF SameLooks, WinInv, WinSize, WinShadow
<1>5. CASE u.d.collapsed
    <2> DEFINE k == W!W(c, u.p)
               e == W!SlideEnd(k)
    <2>1. c \in WinData /\ ~c.collapsed
          /\ \A f \in {"visible", "mask", "slide", "href", "loaded", "content", "tool", "size",
                        "original", "maximized"} : c[f] = u.d[f]
        <3> DEFINE x == u.d
        <3>1. x \in WinData
            BY <1>3 DEF WinTypes
        <3> HIDE DEF x
        <3>2. [x EXCEPT !.collapsed = FALSE] \in WinData /\ ~[x EXCEPT !.collapsed = FALSE].collapsed
              /\ \A f \in {"visible", "mask", "slide", "href", "loaded", "content", "tool", "size",
                        "original", "maximized"} : [x EXCEPT !.collapsed = FALSE][f] = x[f]
            BY <3>1 DEF WinData
        <3> QED BY <3>2 DEF x
    <2> HIDE DEF c
    <2>2. k = [d |-> c, p |-> u.p]
        BY DEF W!W
    <2>3. v = W!Collapsed(k)
        BY <1>1, <1>5
    <2> HIDE DEF k
    <2>4. Is(k) /\ k.d = c /\ k.p = u.p
        BY <2>2 DEF Is
    <2>5. WinTypes(k.d, k.p) /\ WinLoads(k.d, k.p)
        BY <1>3, <2>1, <2>4 DEF WinTypes, WinLoads
    <2>6. v = W!W([e.d EXCEPT !.shadow = FALSE, !.body = FALSE, !.collapsed = TRUE], e.p)
        <3>1. ~k.d.collapsed
            BY <2>1, <2>4
        <3> QED BY <2>3, <3>1, Zenon DEF W!Collapsed
    <2> HIDE DEF e
    <2>7. /\ Is(e) /\ WinTypes(e.d, e.p) /\ WinLoads(e.d, e.p)
          /\ \A f \in {"visible", "mask", "maximized", "tool", "size", "original"} : e.d[f] = k.d[f]
          /\ e.p.before = k.p.before /\ ("slid" \in e.p.mixed <=> "slid" \in k.p.mixed)
          /\ e.d.slide = "none"
        BY <2>4, <2>5, SlideEndDoes DEF e
    <2> DEFINE x == e.d
    <2>8. v = [d |-> [x EXCEPT !.shadow = FALSE, !.body = FALSE, !.collapsed = TRUE], p |-> e.p]
        BY <2>6 DEF W!W
    <2>9. x \in WinData
        BY <2>7 DEF WinTypes
    <2> HIDE DEF x
    <2>10. /\ v.d \in WinData /\ ~v.d.shadow /\ v.d.collapsed
           /\ \A f \in {"visible", "mask", "slide", "href", "loaded", "content", "tool", "size",
                        "original", "maximized"} : v.d[f] = x[f]
        <3>1. v.d = [x EXCEPT !.shadow = FALSE, !.body = FALSE, !.collapsed = TRUE]
            BY <2>8
        <3> QED BY <2>9, <3>1 DEF WinData
    <2>11. v.p = e.p
        BY <2>8
    <2>12. WinTypes(v.d, v.p) /\ WinLoads(v.d, v.p)
        BY <2>7, <2>10, <2>11 DEF WinTypes, WinLoads, x
    <2>13. WinSize(v.d, v.p) /\ WinShadow(v.d, v.p)
        BY <1>3, <2>1, <2>4, <2>7, <2>10, <2>11 DEF WinSize, WinShadow, x
    <2> QED BY <2>12, <2>13 DEF WinInv
<1> QED BY <1>4, <1>5

-----------------------------------------------------------------------------
\* What each action makes of the window.
LEMMA WinBecomes ==
    ASSUME NEW w, W!Becomes(w), WinInv(w.d, w.p)
    PROVE  WinInv(data, page)'
BY Zenon DEF W!Becomes

LEMMA WinStart ==
    ASSUME W!Init
    PROVE  WinInv(data, page)
<1>1. PICK s \in WindowSizes, h \in Hrefs :
        /\ data = [closed |-> TRUE, minimized |-> FALSE, maximized |-> FALSE, collapsed |-> FALSE,
                   tool |-> FALSE, size |-> s, original |-> None, astray |-> FALSE, visible |-> FALSE,
                   body |-> TRUE, slide |-> "none", shadow |-> FALSE, mask |-> FALSE,
                   href |-> h, loaded |-> FALSE, content |-> None]
        /\ page = [nr |-> 0, net |-> {}, before |-> s, mixed |-> {}]
    BY DEF W!Init
<1>2. WinTypes(data, page)
    BY <1>1 DEF WinTypes, WinData, WinPage
<1>3. WinLoads(data, page) /\ WinSize(data, page) /\ WinShadow(data, page)
    BY <1>1 DEF WinLoads, WinSize, WinShadow
<1> QED BY <1>2, <1>3 DEF WinInv

\* Opening, closing and minimizing a window that slides: what comes of it.
LEMMA SlidKeeps ==
    ASSUME NEW w, Is(w), WinInv(w.d, w.p), NEW v, v = W!Slid(w)
    PROVE  /\ Is(v) /\ WinInv(v.d, v.p) /\ v.d = w.d
           /\ v.d.slide # "none" => "slid" \in v.p.mixed
<1> DEFINE p == w.p
           x == p.mixed \cup {"slid"}
<1>1. CASE w.d.slide = "none"
    BY <1>1 DEF W!Slid
<1>2. CASE w.d.slide # "none"
    <2>1. v = [d |-> w.d, p |-> [p EXCEPT !.mixed = x]]
        BY <1>2 DEF W!Slid, W!W
    <2>2. p \in WinPage /\ "slid" \in x /\ x \in SUBSET {"failed", "overlap", "slid"}
        BY DEF WinInv, WinTypes, WinPage
    <2>h. x \cap {"failed", "overlap"} = p.mixed \cap {"failed", "overlap"}
        OBVIOUS
    <2> HIDE DEF p, x
    <2>3. Is(v) /\ v.d = w.d /\ v.p = [p EXCEPT !.mixed = x]
        BY <2>1 DEF Is
    <2>4. v.p \in WinPage /\ v.p.nr = p.nr /\ v.p.net = p.net /\ v.p.before = p.before /\ v.p.mixed = x
        BY <2>2, <2>3 DEF WinPage
    <2>5. WinInv(v.d, v.p)
        <3>1. WinTypes(v.d, v.p)
            BY <2>3, <2>4 DEF WinInv, WinTypes, p
        <3>2. WinLoads(v.d, v.p)
            BY <2>h, <2>3, <2>4 DEF WinInv, WinLoads, p
        <3>3. WinSize(v.d, v.p) /\ WinShadow(v.d, v.p)
            BY <2>2, <2>3, <2>4 DEF WinInv, WinSize, WinShadow, p
        <3> QED BY <3>1, <3>2, <3>3 DEF WinInv
    <2> QED BY <2>2, <2>3, <2>4, <2>5
<1> QED BY <1>1, <1>2

LEMMA NowIs ==
    ASSUME NEW d, NEW p
    PROVE  W!W(d, p) = [d |-> d, p |-> p] /\ Is(W!W(d, p)) /\ W!W(d, p).d = d /\ W!W(d, p).p = p
BY DEF W!W, Is

LEMMA WinOpens ==
    ASSUME WinInv(data, page), None \notin WindowSizes, W!Open
    PROVE  WinInv(data, page)'
<1> DEFINE w == W!W(data, page)
           s == W!Slid(w)
           v == W!Opened(s)
<1>1. Is(w) /\ w.d = data /\ w.p = page /\ W!Becomes(v)
    BY NowIs DEF W!Open
<1> HIDE DEF w
<1>2. Is(s) /\ WinInv(s.d, s.p) /\ (s.d.slide # "none" => "slid" \in s.p.mixed)
    BY <1>1, SlidKeeps
<1> HIDE DEF s
<1>3. WinInv(v.d, v.p)
    BY <1>2, OpenedKeeps
<1> HIDE DEF v
<1> QED BY <1>1, <1>3, WinBecomes

\* A window that goes takes its mask and shadow along.
LEMMA WinHides ==
    ASSUME WinInv(data, page), NEW e, NEW c \in BOOLEAN, NEW n \in BOOLEAN, NEW m \in BOOLEAN,
           e = [data EXCEPT !.visible = FALSE, !.shadow = FALSE, !.mask = FALSE,
                            !.closed = c, !.minimized = n, !.maximized = data.maximized /\ m],
           W!Becomes(W!Slid(W!W(e, page)))
    PROVE  WinInv(data, page)'
<1>1. /\ e \in WinData /\ e.visible = FALSE /\ e.shadow = FALSE /\ e.mask = FALSE
      /\ e.maximized => data.maximized
      /\ \A f \in {"slide", "href", "loaded", "content", "tool", "size", "original", "collapsed"} : e[f] = data[f]
    <2> DEFINE d == data
               b == d.maximized /\ m
    <2>1. d \in WinData /\ b \in BOOLEAN /\ (b => d.maximized)
        BY DEF WinInv, WinTypes, WinData
    <2>2. e = [d EXCEPT !.visible = FALSE, !.shadow = FALSE, !.mask = FALSE,
                        !.closed = c, !.minimized = n, !.maximized = b]
        OBVIOUS
    <2> HIDE DEF d, b
    <2>3. /\ e \in WinData /\ e.visible = FALSE /\ e.shadow = FALSE /\ e.mask = FALSE
          /\ e.maximized = b
          /\ \A f \in {"slide", "href", "loaded", "content", "tool", "size", "original", "collapsed"} : e[f] = d[f]
        BY <2>1, <2>2 DEF WinData
    <2> QED BY <2>1, <2>3 DEF d
<1>2. WinTypes(e, page) /\ WinLoads(e, page) /\ WinSize(e, page)
    BY <1>1 DEF WinInv, WinTypes, WinLoads, WinSize
<1> DEFINE w == W!W(e, page)
           v == W!Slid(w)
           p == page
           x == p.mixed \cup {"slid"}
<1>3. Is(w) /\ w.d = e /\ w.p = page /\ W!Becomes(v)
    BY NowIs
<1> HIDE DEF w
<1>4. CASE e.slide = "none"
    <2>1. v = w
        BY <1>3, <1>4 DEF W!Slid
    <2>2. WinInv(v.d, v.p)
        BY <1>1, <1>2, <1>3, <1>4, <2>1 DEF WinInv, WinShadow
    <2> QED BY <1>3, <2>2, WinBecomes
<1>5. CASE e.slide # "none"
    <2>1. v = [d |-> e, p |-> [p EXCEPT !.mixed = x]]
        BY <1>3, <1>5 DEF W!Slid, W!W
    <2>2. p \in WinPage /\ "slid" \in x /\ x \in SUBSET {"failed", "overlap", "slid"}
        BY DEF WinInv, WinTypes, WinPage
    <2>3. x \cap {"failed", "overlap"} = p.mixed \cap {"failed", "overlap"}
        OBVIOUS
    <2> HIDE DEF p, x, v
    <2>4. v.d = e /\ v.p = [p EXCEPT !.mixed = x]
        BY <2>1
    <2>5. v.p \in WinPage /\ v.p.nr = p.nr /\ v.p.net = p.net /\ v.p.before = p.before /\ v.p.mixed = x
        BY <2>2, <2>4 DEF WinPage
    <2>6. WinTypes(v.d, v.p)
        BY <1>2, <2>4, <2>5 DEF WinTypes, p
    <2>7. WinLoads(v.d, v.p)
        BY <1>2, <2>3, <2>4, <2>5 DEF WinLoads, p
    <2>8. WinSize(v.d, v.p) /\ WinShadow(v.d, v.p)
        BY <1>1, <1>2, <2>2, <2>4, <2>5 DEF WinSize, WinShadow, p
    <2> QED BY <1>3, <2>6, <2>7, <2>8, WinBecomes DEF WinInv
<1> QED BY <1>4, <1>5

LEMMA WinCloses ==
    ASSUME WinInv(data, page), W!Close \/ W!ToolMin
    PROVE  WinInv(data, page)'
<1> DEFINE d == data
           b == d.maximized
           h == W!Hidden(data)
<1>1. d \in WinData /\ d.closed \in BOOLEAN /\ d.minimized \in BOOLEAN /\ b \in BOOLEAN
    BY DEF WinInv, WinTypes, WinData
<1>2. CASE W!Close
    <2> DEFINE e == [h EXCEPT !.closed = TRUE]
    <2>1. W!Becomes(W!Slid(W!W(e, page)))
        BY <1>2 DEF W!Close
    <2>2. e = [d EXCEPT !.visible = FALSE, !.shadow = FALSE, !.mask = FALSE,
                        !.closed = TRUE, !.minimized = d.minimized, !.maximized = b /\ TRUE]
        <3>1. h = [d EXCEPT !.visible = FALSE, !.shadow = FALSE, !.mask = FALSE]
            BY DEF W!Hidden
        <3> HIDE DEF h, d
        <3> QED BY <1>1, <3>1 DEF WinData
    <2> HIDE DEF e
    <2> QED BY <1>1, <2>1, <2>2, WinHides
<1>3. CASE W!ToolMin
    <2> DEFINE e == [h EXCEPT !.minimized = TRUE, !.maximized = FALSE]
    <2>1. W!Becomes(W!Slid(W!W(e, page)))
        BY <1>3 DEF W!ToolMin
    <2>2. e = [d EXCEPT !.visible = FALSE, !.shadow = FALSE, !.mask = FALSE,
                        !.closed = d.closed, !.minimized = TRUE, !.maximized = b /\ FALSE]
        <3>1. h = [d EXCEPT !.visible = FALSE, !.shadow = FALSE, !.mask = FALSE]
            BY DEF W!Hidden
        <3> HIDE DEF h, d
        <3> QED BY <1>1, <3>1 DEF WinData
    <2> HIDE DEF e
    <2> QED BY <1>1, <2>1, <2>2, WinHides
<1> QED BY <1>2, <1>3

LEMMA WinToolMax ==
    ASSUME WinInv(data, page), None \notin WindowSizes, W!ToolMax
    PROVE  WinInv(data, page)'
<1> DEFINE d == data
           p == page
<1>1. d \in WinData /\ p \in WinPage /\ d.visible
    BY DEF WinInv, WinTypes, W!ToolMax
<1>2. CASE data.maximized
    <2> DEFINE e == W!Restored(data)
    <2>1. W!Becomes(W!W(e, page))
        BY <1>2 DEF W!ToolMax
    <2>2. d.tool /\ d.original = p.before /\ p.before \in WindowSizes
        BY <1>1, <1>2 DEF WinInv, WinSize, WinPage
    <2>3. /\ e \in WinData /\ e.tool = FALSE /\ e.maximized = FALSE /\ e.original = None /\ e.size = p.before
          /\ \A f \in {"slide", "href", "loaded", "content", "visible", "collapsed", "shadow", "mask"} : e[f] = d[f]
        <3>1. e = [d EXCEPT !.tool = FALSE, !.size = d.original, !.minimized = FALSE, !.maximized = FALSE,
                            !.original = None, !.astray = FALSE]
            BY DEF W!Restored
        <3> HIDE DEF d, e, p
        <3> QED BY <1>1, <2>2, <3>1 DEF WinData
    <2> HIDE DEF e
    <2>4. WinInv(e, page)
        BY <2>3 DEF WinInv, WinTypes, WinLoads, WinSize, WinShadow
    <2> QED BY <2>1, <2>4, NowIs, WinBecomes
<1>3. CASE ~data.maximized
    <2> DEFINE k == [p EXCEPT !.before = IF d.tool THEN @ ELSE d.size]
               w == W!W(d, k)
               v == W!Maximized(w)
    <2>1. W!Becomes(v)
        BY <1>3 DEF W!ToolMax
    <2>2. d.tool = FALSE /\ d.size = p.before /\ d.original = None
        BY <1>1, <1>3 DEF WinInv, WinSize, WinData
    <2>3. k = p
        <3> HIDE DEF p, d
        <3> QED BY <1>1, <2>2 DEF WinPage
    <2>4. Is(w) /\ w.d = d /\ w.p = p
        BY <2>3, NowIs
    <2> HIDE DEF w, v, k
    <2>5. /\ Is(v) /\ WinTypes(v.d, v.p)
          /\ SameLoads(w, v)
          /\ \A f \in {"visible", "mask", "shadow", "collapsed", "slide"} : v.d[f] = w.d[f]
          /\ v.d.maximized /\ v.d.tool /\ v.d.size = Fit /\ v.d.original = v.p.before
        BY <1>3, <2>2, <2>4, MaximizedDoes DEF WinInv, v
    <2>6. WinLoads(v.d, v.p) /\ WinShadow(v.d, v.p)
        BY <2>4, <2>5 DEF SameLoads, WinInv, WinLoads, WinShadow
    <2>7. WinSize(v.d, v.p)
        BY <2>5 DEF WinSize, WinTypes, WinData
    <2> QED BY <2>1, <2>5, <2>6, <2>7, WinBecomes DEF WinInv
<1> QED BY <1>2, <1>3

LEMMA WinSlideEnds ==
    ASSUME NEW w, Is(w), WinInv(w.d, w.p), NEW v, v = W!SlideEnd(w)
    PROVE  WinInv(v.d, v.p)
<1>1. /\ Is(v) /\ WinTypes(v.d, v.p) /\ (w.d.slide = "none" => v = w)
      /\ WinLoads(v.d, v.p)
      /\ \A f \in {"visible", "mask", "maximized", "tool", "size", "original"} : v.d[f] = w.d[f]
      /\ v.p.before = w.p.before /\ ("slid" \in v.p.mixed <=> "slid" \in w.p.mixed)
      /\ v.d.slide = "none"
      /\ w.d.slide = "up" => v.d.shadow = w.d.shadow /\ v.d.collapsed
      /\ w.d.slide = "down" => v.d.shadow /\ ~v.d.collapsed /\ v.d.body
      /\ w.d.slide \in {"none", "up", "down"}
    BY SlideEndDoes DEF WinInv, WinTypes, WinData
<1>2. WinSize(v.d, v.p)
    BY <1>1 DEF WinInv, WinSize
<1>3. WinShadow(v.d, v.p)
    BY <1>1 DEF WinInv, WinShadow
<1> QED BY <1>1, <1>2, <1>3 DEF WinInv

LEMMA WinToolCollapse ==
    ASSUME WinInv(data, page), W!ToolCollapse
    PROVE  WinInv(data, page)'
<1> DEFINE u == W!W(data, page)
           w == W!SlideEnd(u)
           d == w.d
<1>1. Is(u) /\ u.d = data /\ u.p = page
    BY NowIs
<1> HIDE DEF u
<1>2. /\ Is(w) /\ WinInv(d, w.p) /\ d \in WinData /\ d.slide = "none"
      /\ data.slide = "up" => d.shadow = data.shadow /\ d.collapsed
      /\ data.slide = "down" => d.shadow /\ ~d.collapsed /\ d.body
      /\ data.slide = "none" => d = data
      /\ data.slide \in {"none", "up", "down"}
      /\ d.visible = data.visible /\ ("slid" \in w.p.mixed <=> "slid" \in page.mixed)
    BY <1>1, SlideEndDoes, WinSlideEnds DEF WinInv, WinTypes, WinData
<1>3. data.visible /\ d.visible /\ d.collapsed \in BOOLEAN
    BY <1>2 DEF W!ToolCollapse, WinData
<1>4. CASE ~data.collapsed
    <2> DEFINE s == IF d.body THEN "up" ELSE "none"
               c == ~d.body
               e == [d EXCEPT !.shadow = FALSE, !.slide = s, !.collapsed = c]
    <2>1. W!Becomes(W!W(e, w.p))
        BY <1>4, Zenon DEF W!ToolCollapse, u
    <2>2. s \in {"none", "up", "down"} /\ c \in BOOLEAN /\ (s = "none" => c)
        BY <1>2 DEF WinData
    <2> HIDE DEF d, s, c
    <2>3. /\ e \in WinData /\ e.shadow = FALSE /\ e.slide = s /\ e.collapsed = c
          /\ \A f \in {"href", "loaded", "content", "visible", "mask", "tool", "size", "original", "maximized"} : e[f] = d[f]
        BY <1>2, <2>2 DEF WinData
    <2> HIDE DEF e
    <2>4. WinTypes(e, w.p) /\ WinLoads(e, w.p) /\ WinSize(e, w.p)
        BY <1>2, <2>3 DEF WinInv, WinTypes, WinLoads, WinSize
    <2>5. WinShadow(e, w.p)
        BY <1>2, <1>3, <2>2, <2>3 DEF WinInv, WinShadow
    <2> QED BY <2>1, <2>4, <2>5, NowIs, WinBecomes DEF WinInv
<1>5. CASE data.collapsed /\ d.body
    <2> DEFINE v == W!LoadHref(w)
    <2>1. W!Becomes(v)
        BY <1>5, Zenon DEF W!ToolCollapse, u
    <2>2. WinTypes(v.d, v.p) /\ WinLoads(v.d, v.p) /\ SameLooks(w, v)
        BY <1>2, LoadHrefKeeps DEF WinInv
    <2>3. WinInv(v.d, v.p)
        BY <1>2, <2>2 DEF WinInv, WinSize, WinShadow, SameLooks
    <2> HIDE DEF v
    <2> QED BY <2>1, <2>3, WinBecomes
<1>6. CASE data.collapsed /\ ~d.body
    <2> DEFINE e == [d EXCEPT !.slide = "down", !.body = TRUE]
    <2>1. W!Becomes(W!W(e, w.p))
        BY <1>6, Zenon DEF W!ToolCollapse, u
    <2>2. "slid" \notin w.p.mixed => ~d.shadow
        BY <1>2, <1>6 DEF WinInv, WinShadow
    <2> HIDE DEF d
    <2>3. /\ e \in WinData /\ e.slide = "down"
          /\ \A f \in {"href", "loaded", "content", "visible", "mask", "tool", "size", "original",
                       "maximized", "shadow"} : e[f] = d[f]
        BY <1>2 DEF WinData
    <2> HIDE DEF e
    <2>4. WinTypes(e, w.p) /\ WinLoads(e, w.p) /\ WinSize(e, w.p)
        BY <1>2, <2>3 DEF WinInv, WinTypes, WinLoads, WinSize
    <2>5. WinShadow(e, w.p)
        BY <1>2, <1>3, <2>2, <2>3 DEF WinInv, WinShadow
    <2> QED BY <2>1, <2>4, <2>5, NowIs, WinBecomes DEF WinInv
<1> QED BY <1>4, <1>5, <1>6

LEMMA WinSlides ==
    ASSUME WinInv(data, page), W!Slides
    PROVE  WinInv(data, page)'
<1> DEFINE w == W!W(data, page)
           v == W!SlideEnd(w)
<1>1. Is(w) /\ w.d = data /\ w.p = page /\ W!Becomes(v)
    BY NowIs DEF W!Slides
<1> HIDE DEF w
<1>2. WinInv(v.d, v.p)
    BY <1>1, WinSlideEnds
<1> HIDE DEF v
<1> QED BY <1>1, <1>2, WinBecomes

LEMMA WinDrag ==
    ASSUME WinInv(data, page), NEW s \in WindowSizes, W!Drag(s)
    PROVE  WinInv(data, page)'
<1> DEFINE d == data
           p == page
<1>1. d \in WinData /\ p \in WinPage /\ d.visible
    BY DEF WinInv, WinTypes, W!Drag
<1>2. CASE data.maximized
    <2> DEFINE e == [d EXCEPT !.astray = TRUE]
    <2>1. W!Becomes(W!W(e, page))
        BY <1>2 DEF W!Drag
    <2> HIDE DEF d
    <2>2. /\ e \in WinData
          /\ \A f \in {"slide", "href", "loaded", "content", "visible", "collapsed", "shadow", "mask",
                       "tool", "size", "original", "maximized"} : e[f] = d[f]
        BY <1>1 DEF WinData
    <2> HIDE DEF e
    <2>3. WinInv(e, page)
        BY <2>2 DEF WinInv, WinTypes, WinLoads, WinSize, WinShadow, d
    <2> QED BY <2>1, <2>3, NowIs, WinBecomes
<1>3. CASE ~data.maximized
    <2> DEFINE e == [d EXCEPT !.size = s]
               q == [p EXCEPT !.before = s]
    <2>1. W!Becomes(W!W(e, q))
        BY <1>3 DEF W!Drag
    <2>2. d.tool = FALSE
        BY <1>1, <1>3 DEF WinInv, WinSize, WinData
    <2> HIDE DEF d, p
    <2>3. /\ e \in WinData /\ e.size = s
          /\ \A f \in {"slide", "href", "loaded", "content", "visible", "collapsed", "shadow", "mask",
                       "tool", "original", "maximized"} : e[f] = d[f]
        BY <1>1 DEF WinData
    <2>4. q \in WinPage /\ q.before = s /\ q.nr = p.nr /\ q.net = p.net /\ q.mixed = p.mixed
        BY <1>1 DEF WinPage
    <2> HIDE DEF e, q
    <2>5. WinInv(e, q)
        BY <2>2, <2>3, <2>4 DEF WinInv, WinTypes, WinLoads, WinSize, WinShadow, d, p
    <2> QED BY <2>1, <2>5, NowIs, WinBecomes
<1> QED BY <1>2, <1>3

LEMMA WinRefresh ==
    ASSUME WinInv(data, page), NEW h \in Hrefs, W!Refresh(h)
    PROVE  WinInv(data, page)'
<1> DEFINE d == data
           e == W!From(data, h)
           w == W!W(e, page)
           v == W!LoadHref(w)
<1>1. Is(w) /\ w.d = e /\ w.p = page /\ W!Becomes(v)
    BY NowIs DEF W!Refresh
<1>2. /\ e \in WinData /\ e.loaded = FALSE
      /\ \A f \in {"slide", "visible", "collapsed", "shadow", "mask",
                   "tool", "size", "original", "maximized"} : e[f] = d[f]
    <2>1. e = [d EXCEPT !.loaded = FALSE, !.href = h] /\ d \in WinData
        BY DEF W!From, WinInv, WinTypes
    <2> HIDE DEF e, d
    <2> QED BY <2>1 DEF WinData
<1> HIDE DEF e, w
<1>3. WinTypes(w.d, w.p) /\ ~w.d.loaded
    BY <1>1, <1>2 DEF WinInv, WinTypes
<1>4. WinTypes(v.d, v.p) /\ WinLoads(v.d, v.p) /\ SameLooks(w, v)
    BY <1>1, <1>3, LoadHrefKeeps
<1>5. WinSize(e, page) /\ WinShadow(e, page)
    BY <1>2 DEF WinInv, WinSize, WinShadow
<1>6. WinInv(v.d, v.p)
    BY <1>1, <1>4, <1>5 DEF WinInv, WinSize, WinShadow, SameLooks
<1> HIDE DEF v
<1> QED BY <1>1, <1>6, WinBecomes

\* The request that is answered is the one there is, or another had overtaken it.
LEMMA WinAnswer ==
    ASSUME WinInv(data, page), NEW r \in page.net, W!Answer(r) \/ W!Fail(r)
    PROVE  WinInv(data, page)'
<1> DEFINE d == data
           p == page
           n == p.net \ {r}
<1>1. d \in WinData /\ p \in WinPage /\ r.href \in Hrefs /\ n \subseteq p.net
    BY DEF WinInv, WinTypes, WinPage
<1>2. CASE W!Answer(r)
    <2> DEFINE e == [d EXCEPT !.content = r.href, !.loaded = TRUE]
               q == [p EXCEPT !.net = n]
    <2>1. W!Becomes(W!W(e, q))
        BY <1>2 DEF W!Answer
    <2>2. p.mixed \cap {"failed", "overlap"} = {} => r.href = d.href
        BY DEF WinInv, WinLoads
    <2> HIDE DEF d, p, n
    <2>3. /\ e \in WinData /\ e.content = r.href /\ e.loaded
          /\ \A f \in {"slide", "href", "visible", "collapsed", "shadow", "mask",
                       "tool", "size", "original", "maximized"} : e[f] = d[f]
        BY <1>1 DEF WinData
    <2>4. q \in WinPage /\ q.before = p.before /\ q.nr = p.nr /\ q.net = n /\ q.mixed = p.mixed
        BY <1>1 DEF WinPage
    <2> HIDE DEF e, q
    <2>5. WinTypes(e, q)
        BY <1>1, <2>3, <2>4 DEF WinInv, WinTypes, p
    <2>6. WinLoads(e, q)
        BY <1>1, <2>2, <2>3, <2>4 DEF WinInv, WinLoads, d, p
    <2>7. WinSize(e, q) /\ WinShadow(e, q)
        BY <2>3, <2>4 DEF WinInv, WinSize, WinShadow, d, p
    <2> QED BY <2>1, <2>5, <2>6, <2>7, NowIs, WinBecomes DEF WinInv
<1>3. CASE W!Fail(r)
    <2> DEFINE m == p.mixed \cup {"failed"}
               q == [p EXCEPT !.net = n, !.mixed = m]
    <2>1. W!Becomes(W!W(data, q))
        BY <1>3 DEF W!Fail
    <2>2. m \in SUBSET {"failed", "overlap", "slid"} /\ "failed" \in m /\ ("slid" \in m <=> "slid" \in p.mixed)
        BY <1>1 DEF WinPage
    <2> HIDE DEF p, n, m
    <2>3. q \in WinPage /\ q.before = p.before /\ q.nr = p.nr /\ q.net = n /\ q.mixed = m
        BY <1>1, <2>2 DEF WinPage
    <2> HIDE DEF q
    <2>4. WinTypes(data, q)
        BY <1>1, <2>3 DEF WinInv, WinTypes, p
    <2>5. WinLoads(data, q)
        BY <2>2, <2>3 DEF WinLoads
    <2>6. WinSize(data, q) /\ WinShadow(data, q)
        BY <2>2, <2>3 DEF WinInv, WinSize, WinShadow, p
    <2> QED BY <2>1, <2>4, <2>5, <2>6, NowIs, WinBecomes DEF WinInv
<1> QED BY <1>2, <1>3

LEMMA WinStep ==
    ASSUME None \notin WindowSizes, WinInv(data, page), W!Next
    PROVE  WinInv(data, page)' /\ page'.nr <= MaxAsked
<1>1. WinInv(data, page)'
    BY WinOpens, WinCloses, WinToolMax, WinToolCollapse, WinSlides, WinDrag, WinRefresh, WinAnswer DEF W!Next
<1>2. \A w : W!Becomes(w) => page'.nr <= MaxAsked
    BY DEF W!Becomes
<1>3. \E w : W!Becomes(w)
    BY Zenon DEF W!Next, W!Open, W!Close, W!ToolMin, W!ToolMax, W!ToolCollapse, W!Slides, W!Drag,
                 W!Refresh, W!Answer, W!Fail
<1> QED BY <1>1, <1>2, <1>3

LEMMA WinShows ==
    ASSUME WinInv(data, page), page.nr <= MaxAsked, MaxAsked \in Nat
    PROVE  W!TypeOK /\ W!LooksOfWindow /\ W!ContentOfHref
<1>1. W!TypeOK
    BY DEF WinInv, WinTypes, WinData, WinPage, W!TypeOK
<1>2. W!LooksOfWindow
    <2>1. data.tool \in BOOLEAN
        BY DEF WinInv, WinTypes, WinData
    <2> QED BY <2>1 DEF WinInv, WinSize, WinShadow, W!LooksOfWindow
<1>3. W!ContentOfHref
    BY DEF WinInv, WinLoads, W!ContentOfHref
<1> QED BY <1>1, <1>2, <1>3

-----------------------------------------------------------------------------
(* Posts.                                                                   *)

Outs == {"ok", "told", "error", "expired"}
PostKinds == {"post", "always", "either", "close", "return", "check"}
PostBoxes == [nr : 1 .. MaxAsked, enable : BOOLEAN, after : BOOLEAN, close : BOOLEAN]
PostData ==
    [open : BOOLEAN, frame : Targets \cup {"login", None}, boxes : Seq(PostBoxes), enabled : BOOLEAN]
PostReqs == [nr : 1 .. MaxAsked, kind : PostKinds, what : Targets \cup {None}, out : Outs \cup {None}]
PostPage ==
    [alive : BOOLEAN, nr : 0 .. MaxAsked, net : SUBSET PostReqs, last : Targets \cup {None},
     done : SUBSET (1 .. MaxAsked), lost : SUBSET (1 .. MaxAsked), after : [1 .. MaxAsked -> 0 .. 1],
     mixed : SUBSET {"overlap", "lost", "dismissed"}]

\* A request is answered once, or its message clicked once.
PostOnce(bs, p) ==
    /\ \A r \in p.net :
        /\ r.nr <= p.nr /\ p.after[r.nr] = 0
        /\ r.kind = "check" => r.what \in Targets
        /\ \A s \in p.net : r.nr = s.nr => r = s
        /\ \A i \in 1 .. Len(bs) : bs[i].nr # r.nr
    /\ \A i \in 1 .. Len(bs) :
        /\ bs[i].nr <= p.nr
        /\ bs[i].after => p.after[bs[i].nr] = 0
        /\ \A j \in 1 .. Len(bs) : bs[i].nr = bs[j].nr => i = j
    /\ \A n \in 1 .. MaxAsked : n > p.nr => p.after[n] = 0 /\ n \notin p.done

\* What was done is on its way, told, or was told.
PostTold(bs, p) ==
    \A n \in p.done \ p.lost :
        \/ p.after[n] = 1
        \/ \E r \in p.net : r.nr = n /\ r.out \in {"ok", "told"} /\ r.kind \notin {"check", "return"}
        \/ \E i \in 1 .. Len(bs) : bs[i].nr = n /\ bs[i].after

\* The button is off while one request or one message is to put it on again.
PostButton(bs, e, p) ==
    /\ \A r \in p.net : P!WithButton(r.kind) =>
        /\ ~e
        /\ \A s \in p.net : P!WithButton(s.kind) => r = s
        /\ \A i \in 1 .. Len(bs) : ~bs[i].enable
    /\ \A i \in 1 .. Len(bs) : bs[i].enable =>
        /\ ~e
        /\ \A j \in 1 .. Len(bs) : bs[j].enable => i = j
    /\ p.mixed \cap {"lost", "dismissed"} = {} =>
        \/ e
        \/ \E r \in p.net : P!WithButton(r.kind)
        \/ \E i \in 1 .. Len(bs) : bs[i].enable

\* One window is asked for at a time, unless the first was too slow.
PostWindow(o, f, p) ==
    "overlap" \notin p.mixed =>
        /\ o => f \in {p.last, "login"}
        /\ \A r \in p.net : r.kind = "check" => r.what = p.last

PostTypes(d, p) == d \in PostData /\ p \in PostPage
PostInv(d, p) ==
    /\ PostTypes(d, p)
    /\ PostOnce(d.boxes, p)
    /\ PostTold(d.boxes, p)
    /\ PostButton(d.boxes, d.enabled, p)
    /\ PostWindow(d.open, d.frame, p)

LEMMA PostStart ==
    ASSUME P!PostsAssumption, P!Init
    PROVE  PostInv(data, page)
<1>1. /\ data = [open |-> FALSE, frame |-> None, boxes |-> <<>>, enabled |-> TRUE]
      /\ page = [alive |-> TRUE, nr |-> 0, net |-> {}, last |-> None,
               done |-> {}, lost |-> {}, after |-> [n \in 1 .. MaxAsked |-> 0], mixed |-> {}]
    BY DEF P!Init
<1>2. MaxAsked \in Nat
    BY DEF P!PostsAssumption
<1>3. PostTypes(data, page)
    BY <1>1, <1>2 DEF PostTypes, PostData, PostPage
<1>4. PostOnce(data.boxes, page)
    BY <1>1, <1>2 DEF PostOnce
<1>5. PostTold(data.boxes, page) /\ PostButton(data.boxes, data.enabled, page)
      /\ PostWindow(data.open, data.frame, page)
    BY <1>1 DEF PostTold, PostButton, PostWindow
<1> QED BY <1>3, <1>4, <1>5 DEF PostInv

\* A request is sent.
LEMMA AskedDoes ==
    ASSUME P!PostsAssumption, PostInv(data, page), page.nr < MaxAsked,
           NEW k \in PostKinds, NEW t \in Targets \cup {None}, k = "check" => t \in Targets,
           NEW q, q = P!Asked(k, t)
    PROVE  \E r \in PostReqs :
           /\ q \in PostPage
           /\ r.nr = page.nr + 1 /\ r.kind = k /\ r.what = t /\ r.out = None
           /\ q.nr = page.nr + 1 /\ q.net = page.net \cup {r} /\ q.last = page.last /\ q.done = page.done
           /\ q.lost = page.lost /\ q.after = page.after /\ q.mixed = page.mixed
           /\ PostOnce(data.boxes, q) /\ PostTold(data.boxes, q)
<1> DEFINE p == page
           r == [nr |-> p.nr + 1, kind |-> k, what |-> t, out |-> None]
           n == p.net \cup {r}
           m == p.nr + 1
<1>1. q = [p EXCEPT !.nr = m, !.net = n]
    BY DEF P!Asked
<1>2. p \in PostPage /\ p.nr \in 0 .. MaxAsked /\ MaxAsked \in Nat
    BY DEF PostInv, PostTypes, PostPage, P!PostsAssumption
<1>3. m \in 1 .. MaxAsked
    BY <1>2
<1>4. r \in PostReqs /\ r.nr = m /\ r.kind = k /\ r.what = t /\ r.out = None
    BY <1>3 DEF PostReqs
<1>5. n \in SUBSET PostReqs
    BY <1>2, <1>4 DEF PostPage
<1>6. PostOnce(data.boxes, p) /\ PostTold(data.boxes, p)
    BY DEF PostInv
<1>t. m = p.nr + 1
    OBVIOUS
<1>u. n = p.net \cup {r}
    OBVIOUS
<1> HIDE DEF p, r, n, m
<1>z. m \in 0 .. MaxAsked
    BY <1>2, <1>3
<1>7. /\ q \in PostPage /\ q.nr = m /\ q.net = n /\ q.last = p.last /\ q.done = p.done
      /\ q.lost = p.lost /\ q.after = p.after /\ q.mixed = p.mixed
    BY <1>1, <1>2, <1>z, <1>5 DEF PostPage
<1>8. PostOnce(data.boxes, q)
    <2> DEFINE bs == data.boxes
    <2>1. \A s \in p.net : s.nr \in 1 .. MaxAsked /\ s.nr <= p.nr /\ s.nr # m
        BY <1>2, <1>6, <1>t DEF PostOnce, PostPage, PostReqs
    <2>2. \A i \in 1 .. Len(bs) : bs[i] \in PostBoxes
        BY DEF PostInv, PostTypes, PostData
    <2>3. \A i \in 1 .. Len(bs) : bs[i].nr \in 1 .. MaxAsked /\ bs[i].nr <= p.nr /\ bs[i].nr # m
        BY <1>2, <1>6, <1>t, <2>2 DEF PostOnce, PostBoxes
    <2>4. p.after[m] = 0
        BY <1>2, <1>3, <1>6, <1>t DEF PostOnce
    <2> HIDE DEF bs
    <2>5. ASSUME NEW s \in q.net
          PROVE  /\ s.nr <= q.nr /\ q.after[s.nr] = 0
                 /\ s.kind = "check" => s.what \in Targets
                 /\ \A o \in q.net : s.nr = o.nr => s = o
                 /\ \A i \in 1 .. Len(bs) : bs[i].nr # s.nr
        <3>1. CASE s = r
            BY <1>2, <1>3, <1>4, <1>7, <1>u, <2>1, <2>3, <2>4, <3>1
        <3>2. CASE s # r
            BY <1>2, <1>3, <1>4, <1>6, <1>7, <1>t, <1>u, <2>1, <3>2 DEF PostOnce, bs
        <3> QED BY <3>1, <3>2
    <2>6. ASSUME NEW i \in 1 .. Len(bs)
          PROVE  /\ bs[i].nr <= q.nr
                 /\ bs[i].after => q.after[bs[i].nr] = 0
                 /\ \A j \in 1 .. Len(bs) : bs[i].nr = bs[j].nr => i = j
        BY <1>2, <1>6, <1>7, <1>t, <2>3 DEF PostOnce, bs
    <2>7. \A x \in 1 .. MaxAsked : x > q.nr => q.after[x] = 0 /\ x \notin q.done
        BY <1>2, <1>6, <1>7, <1>t DEF PostOnce
    <2> QED BY <2>5, <2>6, <2>7 DEF PostOnce, bs
<1>9. PostTold(data.boxes, q)
    BY <1>6, <1>7, <1>u DEF PostTold
<1> QED BY <1>4, <1>7, <1>8, <1>9, <1>t, <1>u DEF p

LEMMA PostOpenWin ==
    ASSUME P!PostsAssumption, PostInv(data, page), NEW t \in Targets, P!OpenWin(t)
    PROVE  PostInv(data, page)'
<1> DEFINE k == P!Asked("check", t)
           x == IF \E r \in page.net : r.kind = "check" THEN {"overlap"} ELSE {}
           m == k.mixed \cup x
<1>1. page' = [k EXCEPT !.last = t, !.mixed = m] /\ data' = data /\ page.nr < MaxAsked /\ P!Free
    BY DEF P!OpenWin
<1>2. PICK r \in PostReqs :
           /\ k \in PostPage
           /\ r.nr = page.nr + 1 /\ r.kind = "check" /\ r.what = t /\ r.out = None
           /\ k.nr = page.nr + 1 /\ k.net = page.net \cup {r} /\ k.last = page.last /\ k.done = page.done
           /\ k.lost = page.lost /\ k.after = page.after /\ k.mixed = page.mixed
           /\ PostOnce(data.boxes, k) /\ PostTold(data.boxes, k)
    BY <1>1, AskedDoes DEF PostKinds
<1>3. m \in SUBSET {"overlap", "lost", "dismissed"} /\ m \cap {"lost", "dismissed"} = page.mixed \cap {"lost", "dismissed"}
      /\ ("overlap" \notin m => "overlap" \notin page.mixed /\ \A s \in page.net : s.kind # "check")
    BY <1>2 DEF PostPage
<1> HIDE DEF k, m
<1>4. /\ page' \in PostPage
      /\ page'.nr = k.nr /\ page'.net = k.net /\ page'.last = t /\ page'.done = k.done
      /\ page'.lost = k.lost /\ page'.after = k.after /\ page'.mixed = m
    BY <1>1, <1>2, <1>3 DEF PostPage
<1>5. PostOnce(data.boxes, page')
    BY <1>2, <1>4 DEF PostOnce
<1>6. PostTold(data.boxes, page')
    BY <1>2, <1>4 DEF PostTold
<1>7. PostButton(data.boxes, data.enabled, page')
    BY <1>2, <1>3, <1>4 DEF PostButton, P!WithButton, PostInv
<1>8. PostWindow(data.open, data.frame, page')
    BY <1>1, <1>2, <1>3, <1>4 DEF PostWindow, P!Free
<1> QED BY <1>1, <1>4, <1>5, <1>6, <1>7, <1>8 DEF PostInv, PostTypes

LEMMA PostPost ==
    ASSUME P!PostsAssumption, PostInv(data, page), NEW kind \in Kinds, P!Post(kind)
    PROVE  PostInv(data, page)'
<1> DEFINE k == P!Asked(kind, None)
           d == data
<1>1. page' = k /\ data' = P!Disabled(data, kind) /\ page.nr < MaxAsked
      /\ P!Free /\ (P!WithButton(kind) => data.enabled)
    BY DEF P!Post
<1>k. kind \in PostKinds /\ kind # "check"
    BY DEF P!PostsAssumption, PostKinds
<1>2. PICK r \in PostReqs :
           /\ k \in PostPage
           /\ r.nr = page.nr + 1 /\ r.kind = kind /\ r.what = None /\ r.out = None
           /\ k.nr = page.nr + 1 /\ k.net = page.net \cup {r} /\ k.last = page.last /\ k.done = page.done
           /\ k.lost = page.lost /\ k.after = page.after /\ k.mixed = page.mixed
           /\ PostOnce(data.boxes, k) /\ PostTold(data.boxes, k)
    BY <1>1, <1>k, AskedDoes
<1> HIDE DEF k
<1>3. /\ data' \in PostData /\ data'.boxes = data.boxes /\ data'.open = data.open /\ data'.frame = data.frame
      /\ data'.enabled = (data.enabled /\ ~P!WithButton(kind))
    <2>1. d \in PostData
        BY DEF PostInv, PostTypes
    <2>2. data' = IF P!WithButton(kind) THEN [d EXCEPT !.enabled = FALSE] ELSE d
        BY <1>1 DEF P!Disabled
    <2>3. d.enabled \in BOOLEAN
        BY <2>1 DEF PostData
    <2> HIDE DEF d
    <2>4. /\ data' \in PostData /\ data'.boxes = d.boxes /\ data'.open = d.open /\ data'.frame = d.frame
          /\ data'.enabled = IF P!WithButton(kind) THEN FALSE ELSE d.enabled
        BY <2>1, <2>2 DEF PostData
    <2> QED BY <2>3, <2>4 DEF d
<1>4. PostButton(data'.boxes, data'.enabled, page')
    <2>1. PostButton(data.boxes, data.enabled, page) /\ data.boxes = <<>> /\ data.enabled \in BOOLEAN
        BY <1>1 DEF PostInv, P!Free, PostTypes, PostData
    <2>2. CASE P!WithButton(kind)
        <3>1. data.enabled /\ data'.enabled = FALSE /\ P!WithButton(r.kind)
            BY <1>1, <1>2, <1>3, <2>2
        <3>2. \A s \in page.net : ~P!WithButton(s.kind)
            BY <2>1, <3>1 DEF PostButton
        <3>3. \A s \in page'.net : P!WithButton(s.kind) => s = r
            BY <1>1, <1>2, <3>2
        <3>4. r \in page'.net /\ data'.boxes = <<>>
            BY <1>1, <1>2, <1>3, <2>1
        <3> QED BY <3>1, <3>3, <3>4 DEF PostButton
    <2>3. CASE ~P!WithButton(kind)
        <3>1. data'.enabled = data.enabled /\ data'.boxes = <<>> /\ ~P!WithButton(r.kind)
            BY <1>2, <1>3, <2>1, <2>3
        <3>2. page'.net = page.net \cup {r} /\ page'.mixed = page.mixed
            BY <1>1, <1>2
        <3> QED BY <2>1, <3>1, <3>2 DEF PostButton
    <2> QED BY <2>2, <2>3
<1>5. PostWindow(data'.open, data'.frame, page')
    BY <1>1, <1>2, <1>3, <1>k DEF PostWindow, PostInv
<1> QED BY <1>1, <1>2, <1>3, <1>4, <1>5 DEF PostInv, PostTypes

LEMMA PostServe ==
    ASSUME P!PostsAssumption, PostInv(data, page), NEW r \in page.net, NEW out \in Outs, P!Serve(r, out)
    PROVE  PostInv(data, page)'
<1> DEFINE p == page
           s == [r EXCEPT !.out = out]
           n == (p.net \ {r}) \cup {s}
           work == out \in {"ok", "told"} /\ r.kind \notin {"check", "return"}
           e == IF work THEN p.done \cup {r.nr} ELSE p.done
<1>1. page' = [p EXCEPT !.net = n, !.done = e] /\ data' = data /\ r.out = None
    BY DEF P!Serve
<1>2. p \in PostPage /\ r \in PostReqs /\ MaxAsked \in Nat /\ None \notin Outs
    BY DEF PostInv, PostTypes, PostPage, P!PostsAssumption, Outs
<1>3. s \in PostReqs /\ s.nr = r.nr /\ s.kind = r.kind /\ s.what = r.what /\ s.out = out
    BY <1>2 DEF PostReqs
<1>4. r.nr \in 1 .. MaxAsked
    BY <1>2 DEF PostReqs
<1> HIDE DEF s
<1>5. n \in SUBSET PostReqs /\ e \in SUBSET (1 .. MaxAsked)
    BY <1>2, <1>3, <1>4 DEF PostPage
<1>n. \A q : q \in n <=> (q \in p.net /\ q # r) \/ q = s
    OBVIOUS
<1>e. \A x : x \in e <=> x \in p.done \/ (work /\ x = r.nr)
    OBVIOUS
<1> HIDE DEF n, e
<1>6. /\ page' \in PostPage /\ page'.nr = p.nr /\ page'.net = n /\ page'.last = p.last /\ page'.done = e
      /\ page'.lost = p.lost /\ page'.after = p.after /\ page'.mixed = p.mixed
    BY <1>1, <1>2, <1>5 DEF PostPage
<1>i. PostOnce(data.boxes, p) /\ PostTold(data.boxes, p) /\ PostButton(data.boxes, data.enabled, p)
      /\ PostWindow(data.open, data.frame, p)
    BY DEF PostInv
<1> DEFINE bs == data.boxes
<1>w. r \in p.net
    OBVIOUS
<1> HIDE DEF bs, p, work
<1>7. PostOnce(bs, page')
    <2>1. ASSUME NEW q \in n
          PROVE  /\ q.nr <= p.nr /\ p.after[q.nr] = 0
                 /\ q.kind = "check" => q.what \in Targets
                 /\ \A o \in n : q.nr = o.nr => q = o
                 /\ \A i \in 1 .. Len(bs) : bs[i].nr # q.nr
        BY <1>n, <1>w, <1>3, <1>i DEF PostOnce, bs
    <2>2. \A x \in 1 .. MaxAsked : x > p.nr => p.after[x] = 0 /\ x \notin e
        <3>1. r.nr <= p.nr /\ p.nr \in Int /\ r.nr \in Int
            BY <1>w, <1>i, <1>2, <1>4 DEF PostOnce, PostPage
        <3> QED BY <1>e, <1>i, <3>1 DEF PostOnce
    <2>3. \A i \in 1 .. Len(bs) :
              /\ bs[i].nr <= p.nr
              /\ bs[i].after => p.after[bs[i].nr] = 0
              /\ \A j \in 1 .. Len(bs) : bs[i].nr = bs[j].nr => i = j
        BY <1>i DEF PostOnce, bs
    <2> QED BY <1>6, <2>1, <2>2, <2>3 DEF PostOnce
<1>8. PostTold(bs, page')
    <2> SUFFICES ASSUME NEW x \in e \ p.lost
                 PROVE  \/ p.after[x] = 1
                        \/ \E q \in n : q.nr = x /\ q.out \in {"ok", "told"} /\ q.kind \notin {"check", "return"}
                        \/ \E i \in 1 .. Len(bs) : bs[i].nr = x /\ bs[i].after
        BY <1>6 DEF PostTold
    <2>1. CASE work /\ x = r.nr
        BY <2>1, <1>3, <1>n DEF work
    <2>2. CASE x \in p.done
        <3>1. \/ p.after[x] = 1
              \/ \E q \in p.net : q.nr = x /\ q.out \in {"ok", "told"} /\ q.kind \notin {"check", "return"}
              \/ \E i \in 1 .. Len(bs) : bs[i].nr = x /\ bs[i].after
            BY <2>2, <1>i DEF PostTold, bs
        <3>2. ASSUME NEW q \in p.net, q.out \in {"ok", "told"} PROVE q \in n
            BY <3>2, <1>n, <1>1, <1>2 DEF Outs
        <3> QED BY <3>1, <3>2
    <2> QED BY <2>1, <2>2, <1>e
<1>9. PostButton(bs, data.enabled, page')
    BY <1>i, <1>n, <1>3, <1>6, <1>w DEF PostButton, bs, P!WithButton
<1>10. PostWindow(data.open, data.frame, page')
    BY <1>i, <1>n, <1>3, <1>6, <1>w DEF PostWindow
<1> QED BY <1>1, <1>2, <1>6, <1>7, <1>8, <1>9, <1>10 DEF PostInv, PostTypes, bs

-----------------------------------------------------------------------------
\* What an answer does: it is told by a message, or the page called, or neither.
PostWork(r) == r.out \in {"ok", "told"} /\ r.kind \notin {"check", "return"}
PostHandled(r, d, p, h) ==
    /\ h.d \in PostData
    /\ \/ h.d.frame = "login"
       \/ h.d.frame = r.what /\ r.kind = "check"
       \/ h.d.frame = d.frame /\ (h.d.open => d.open)
    /\ \/ /\ h.d.boxes = d.boxes
          /\ h.d.enabled = (d.enabled \/ P!WithButton(r.kind))
          /\ \/ h.p = p /\ ~PostWork(r)
             \/ h.p = [p EXCEPT !.after[r.nr] = @ + 1]
       \/ \E b \in PostBoxes :
             /\ b.nr = r.nr /\ h.d.boxes = Append(d.boxes, b) /\ h.p = p
             /\ PostWork(r) => b.after
             /\ b.enable => P!WithButton(r.kind)
             /\ h.d.enabled = (d.enabled \/ (P!WithButton(r.kind) /\ ~b.enable))

LEMMA BoxIs ==
    ASSUME NEW n \in 1 .. MaxAsked, NEW e \in BOOLEAN, NEW a \in BOOLEAN, NEW c \in BOOLEAN
    PROVE  P!Box(n, e, a, c) \in PostBoxes /\ P!Box(n, e, a, c).nr = n /\ P!Box(n, e, a, c).enable = e
           /\ P!Box(n, e, a, c).after = a /\ P!Box(n, e, a, c).close = c
<1>1. P!Box(n, e, a, c) = [nr |-> n, enable |-> e, after |-> a, close |-> c]
    BY DEF P!Box
<1> QED BY <1>1 DEF PostBoxes

LEMMA SaidDoes ==
    ASSUME NEW d \in PostData, NEW b \in PostBoxes, NEW e, e = P!Say(d, b)
    PROVE  e \in PostData /\ e.boxes = Append(d.boxes, b) /\ e.open = d.open /\ e.frame = d.frame
           /\ e.enabled = d.enabled
<1> DEFINE bs == Append(d.boxes, b)
<1>1. e = [d EXCEPT !.boxes = bs]
    BY DEF P!Say
<1>2. bs \in Seq(PostBoxes)
    BY DEF PostData
<1> HIDE DEF bs
<1>3. e \in PostData /\ e.boxes = bs /\ e.open = d.open /\ e.frame = d.frame /\ e.enabled = d.enabled
    BY <1>1, <1>2 DEF PostData
<1> QED BY <1>3 DEF bs

LEMMA CalledDoes ==
    ASSUME NEW d \in PostData, NEW b \in PostBoxes, NEW e, e = P!Called(d, b)
    PROVE  e \in PostData /\ e.boxes = d.boxes /\ (e.open => d.open) /\ e.frame = d.frame
           /\ e.enabled = (d.enabled \/ b.enable)
<1> DEFINE n == d.enabled \/ b.enable
           o == d.open /\ ~b.close
<1>1. e = [d EXCEPT !.enabled = n, !.open = o]
    BY DEF P!Called
<1>2. n \in BOOLEAN /\ o \in BOOLEAN /\ (o => d.open)
    BY DEF PostData, PostBoxes
<1> HIDE DEF n, o
<1>3. e \in PostData /\ e.boxes = d.boxes /\ e.open = o /\ e.frame = d.frame /\ e.enabled = n
    BY <1>1, <1>2 DEF PostData
<1> QED BY <1>2, <1>3 DEF n

LEMMA LoginDoes ==
    ASSUME NEW d \in PostData, NEW p, NEW x \in Targets \cup {"login"}, NEW e, e = P!PopFrame(d, x)
    PROVE  e \in PostData /\ e.boxes = d.boxes /\ e.frame = x /\ e.enabled = d.enabled
           /\ P!Login(d, p).d = P!PopFrame(d, "login") /\ P!Login(d, p).p = p
<1>1. e = [d EXCEPT !.open = TRUE, !.frame = x] /\ P!Login(d, p) = [d |-> P!PopFrame(d, "login"), p |-> p]
    BY DEF P!PopFrame, P!Login
<1>2. e \in PostData /\ e.boxes = d.boxes /\ e.frame = x /\ e.enabled = d.enabled
    BY <1>1 DEF PostData
<1> QED BY <1>1, <1>2

LEMMA DoneDoes ==
    ASSUME NEW r \in PostReqs, NEW d \in PostData, NEW p, r.out \in {"ok", "told"}, r.kind # "check",
           NEW h, h = P!Done(r, d, p)
    PROVE  PostHandled(r, d, p, h)
<1> DEFINE b == P!Did(r)
           w == P!WithButton(r.kind)
           a == r.kind # "return"
           c == r.kind = "close"
<1>1. w \in BOOLEAN /\ a \in BOOLEAN /\ c \in BOOLEAN /\ r.nr \in 1 .. MaxAsked
    BY DEF P!WithButton, PostReqs
<1>2. b = P!Box(r.nr, w, a, c)
    BY DEF P!Did
<1>a. a = (r.kind # "return")
    OBVIOUS
<1> HIDE DEF b, w, a, c
<1>b. b \in PostBoxes /\ b.nr = r.nr /\ b.enable = w /\ b.after = a
    BY <1>1, <1>2, BoxIs
<1>3. b \in PostBoxes /\ b.nr = r.nr /\ b.enable = w /\ (b.after <=> r.kind # "return")
    BY <1>a, <1>b
<1>4. CASE r.out = "told"
    <2>1. h = [d |-> P!Say(d, b), p |-> p]
        BY <1>4 DEF P!Done, b
    <2> DEFINE e == P!Say(d, b)
    <2>2. h.d = e /\ h.p = p
        BY <2>1
    <2>3. e \in PostData /\ e.boxes = Append(d.boxes, b) /\ e.open = d.open /\ e.frame = d.frame
          /\ e.enabled = d.enabled
        BY <1>3, SaidDoes
    <2>5. d.enabled \in BOOLEAN
        BY DEF PostData
    <2> HIDE DEF e
    <2>4. h.d.enabled = (d.enabled \/ (w /\ ~b.enable))
        BY <1>3, <2>2, <2>3, <2>5
    <2> QED BY <1>3, <2>2, <2>3, <2>4 DEF PostHandled, PostWork, w
<1>5. CASE r.out # "told"
    <2>1. h = [d |-> P!Called(d, b), p |-> P!Counted(p, b)]
        BY <1>5 DEF P!Done, b
    <2> DEFINE e == P!Called(d, b)
    <2>2. h.d = e /\ h.p = P!Counted(p, b)
        BY <2>1
    <2>3. e \in PostData /\ e.boxes = d.boxes /\ (e.open => d.open) /\ e.frame = d.frame
          /\ e.enabled = (d.enabled \/ b.enable)
        BY <1>3, CalledDoes
    <2>4. IF b.after THEN h.p = [p EXCEPT !.after[b.nr] = @ + 1] ELSE h.p = p
        BY <2>2 DEF P!Counted
    <2> HIDE DEF e
    <2>5. \/ h.p = p /\ ~PostWork(r)
          \/ h.p = [p EXCEPT !.after[r.nr] = @ + 1]
        BY <1>3, <2>4 DEF PostWork
    <2>6. h.d.enabled = (d.enabled \/ w)
        BY <1>3, <2>2, <2>3
    <2> QED BY <2>2, <2>3, <2>5, <2>6 DEF PostHandled, w
<1> QED BY <1>4, <1>5

\* The window to log in is shown, or nothing at all.
LEMMA QuietDoes ==
    ASSUME NEW r \in PostReqs, NEW d \in PostData, NEW p, r.out \notin {"ok", "told"},
           NEW x \in PostData, x.boxes = d.boxes, x.frame = d.frame, x.open = d.open,
           x.enabled = (d.enabled \/ P!WithButton(r.kind)),
           NEW h, \/ h = P!Login(x, p)
                  \/ h = [d |-> x, p |-> p]
    PROVE  PostHandled(r, d, p, h)
<1>1. ~PostWork(r)
    BY DEF PostWork
<1>2. CASE h = P!Login(x, p)
    <2> DEFINE e == P!PopFrame(x, "login")
    <2>1. e \in PostData /\ e.boxes = x.boxes /\ e.frame = "login" /\ e.enabled = x.enabled
          /\ h.d = e /\ h.p = p
        BY <1>2, LoginDoes
    <2> HIDE DEF e
    <2> QED BY <1>1, <2>1 DEF PostHandled
<1>3. CASE h = [d |-> x, p |-> p]
    <2>1. h.d = x /\ h.p = p
        BY <1>3
    <2> QED BY <1>1, <2>1 DEF PostHandled
<1> QED BY <1>2, <1>3

\* A message, of what went wrong, over data in which the button may be on.
LEMMA ErrorDoes ==
    ASSUME NEW r \in PostReqs, NEW d \in PostData, NEW p, r.out \notin {"ok", "told"},
           NEW x \in PostData, x.boxes = d.boxes, x.frame = d.frame, x.open = d.open,
           NEW e \in BOOLEAN, NEW a \in BOOLEAN, e => P!WithButton(r.kind),
           x.enabled = (d.enabled \/ (P!WithButton(r.kind) /\ ~e)),
           NEW h, h = [d |-> P!Say(x, P!Box(r.nr, e, a, FALSE)), p |-> p]
    PROVE  PostHandled(r, d, p, h)
<1> DEFINE c == FALSE
           b == P!Box(r.nr, e, a, c)
           y == P!Say(x, b)
<1>1. ~PostWork(r) /\ r.nr \in 1 .. MaxAsked /\ c \in BOOLEAN
    BY DEF PostWork, PostReqs
<1>4. h.d = y /\ h.p = p
    OBVIOUS
<1> HIDE DEF c, b, y
<1>2. b \in PostBoxes /\ b.nr = r.nr /\ b.enable = e
    BY <1>1, BoxIs DEF b
<1>3. y \in PostData /\ y.boxes = Append(x.boxes, b) /\ y.open = x.open /\ y.frame = x.frame
      /\ y.enabled = x.enabled
    BY <1>2, SaidDoes DEF y
<1> QED BY <1>1, <1>2, <1>3, <1>4 DEF PostHandled

LEMMA ExpiredDoes ==
    ASSUME NEW d \in PostData, NEW k
    PROVE  /\ P!Expired(d, k) \in PostData /\ P!Expired(d, k).boxes = d.boxes
           /\ P!Expired(d, k).frame = d.frame /\ P!Expired(d, k).open = d.open
           /\ P!Expired(d, k).enabled = (d.enabled \/ P!WithButton(k))
<1>1. P!WithButton(k) \in BOOLEAN /\ d.enabled \in BOOLEAN
    BY DEF P!WithButton, PostData
<1>2. P!Expired(d, k) = IF P!WithButton(k) THEN [d EXCEPT !.enabled = TRUE] ELSE d
    BY DEF P!Expired
<1> DEFINE x == P!Expired(d, k)
           w == P!WithButton(k)
<1> HIDE DEF x, w
<1>3. x \in PostData /\ x.boxes = d.boxes /\ x.frame = d.frame /\ x.open = d.open
      /\ x.enabled = IF w THEN TRUE ELSE d.enabled
    BY <1>2 DEF x, w, PostData
<1>4. x.enabled = (d.enabled \/ w)
    BY <1>1, <1>3 DEF w
<1> QED BY <1>3, <1>4 DEF x, w

LEMMA HandleDoes ==
    ASSUME P!PostsAssumption, NEW r \in PostReqs, NEW d \in PostData, NEW p, r.out # None,
           r.kind = "check" => r.what \in Targets,
           NEW h, h = P!Handle(r, d, p)
    PROVE  PostHandled(r, d, p, h)
<1>1. r.out \in {"ok", "told", "error", "expired"} /\ r.kind \in PostKinds /\ r.nr \in 1 .. MaxAsked
      /\ d.enabled \in BOOLEAN
    BY DEF PostReqs, Outs, PostData
<1>2. CASE r.kind = "check"
    <2>1. h = P!CheckLoginOverTime(r, d, p) /\ ~P!WithButton(r.kind) /\ ~PostWork(r)
        BY <1>2 DEF P!Handle, P!WithButton, PostWork
    <2>2. CASE r.out = "ok"
        <3> DEFINE e == P!PopFrame(d, r.what)
        <3>1. h = [d |-> e, p |-> p]
            BY <2>1, <2>2 DEF P!CheckLoginOverTime
        <3>2. e \in PostData /\ e.boxes = d.boxes /\ e.frame = r.what /\ e.enabled = d.enabled
            BY <1>2, LoginDoes
        <3>3. h.d = e /\ h.p = p
            BY <3>1
        <3> HIDE DEF e
        <3>4. h.d.enabled = (d.enabled \/ P!WithButton(r.kind))
            BY <1>1, <2>1, <3>2, <3>3
        <3> QED BY <1>2, <2>1, <3>2, <3>3, <3>4 DEF PostHandled
    <2>3. CASE r.out # "ok"
        <3> DEFINE e == P!PopFrame(d, "login")
        <3>1. h = P!Login(d, p)
            BY <2>1, <2>3 DEF P!CheckLoginOverTime
        <3>2. e \in PostData /\ e.boxes = d.boxes /\ e.frame = "login" /\ e.enabled = d.enabled
              /\ h.d = e /\ h.p = p
            BY <3>1, LoginDoes
        <3> HIDE DEF e
        <3>4. h.d.enabled = (d.enabled \/ P!WithButton(r.kind))
            BY <1>1, <2>1, <3>2
        <3> QED BY <1>2, <2>1, <3>2, <3>4 DEF PostHandled
    <2> QED BY <2>2, <2>3
<1>3. CASE r.kind # "check" /\ r.out = "expired"
    <2>1. r.out \notin {"ok", "told"}
        BY <1>3
    <2>2. ASSUME r.kind \in {"post", "always"} PROVE h = P!Login(P!Expired(d, r.kind), p)
        BY <1>3, <2>2 DEF P!Handle, P!EamsOperPost, P!EamsOperPostAlwayExeCBP
    <2>3. ASSUME r.kind = "either" PROVE h = P!Login(d, p)
        BY <1>3, <2>3 DEF P!Handle, P!EamsOperPostExeFailOrExeSucc
    <2>4. ASSUME r.kind \in {"close", "return"} PROVE h = [d |-> d, p |-> p]
        BY <1>3, <2>4 DEF P!Handle, P!OtherVariants
    <2>5. ASSUME r.kind \notin {"post", "always"} PROVE d.enabled = (d.enabled \/ P!WithButton(r.kind))
        BY <1>1, <2>5 DEF P!WithButton
    <2>6. CASE r.kind \in {"post", "always"}
        BY <2>1, <2>2, <2>6, ExpiredDoes, QuietDoes
    <2>7. CASE r.kind \notin {"post", "always"}
        <3>1. h = P!Login(d, p) \/ h = [d |-> d, p |-> p]
            BY <1>1, <1>3, <2>3, <2>4, <2>7 DEF PostKinds
        <3>2. d.enabled = (d.enabled \/ P!WithButton(r.kind))
            BY <2>5, <2>7
        <3> QED BY <2>1, <3>1, <3>2, QuietDoes
    <2> QED BY <2>6, <2>7
<1>4. CASE r.kind # "check" /\ r.out = "error"
    <2>1. r.out \notin {"ok", "told"}
        BY <1>4
    <2> DEFINE on == [d EXCEPT !.enabled = TRUE]
    <2>2. CASE r.kind = "post"
        <3>1. h = [d |-> P!Say(on, P!Box(r.nr, FALSE, FALSE, FALSE)), p |-> p]
            BY <1>4, <2>2 DEF P!Handle, P!EamsOperPost, P!NoCall
        <3>2. on \in PostData /\ on.boxes = d.boxes /\ on.frame = d.frame /\ on.open = d.open /\ on.enabled = TRUE
            BY DEF PostData
        <3>3. P!WithButton(r.kind)
            BY <2>2 DEF P!WithButton
        <3> HIDE DEF on
        <3>4. on.enabled = (d.enabled \/ (P!WithButton(r.kind) /\ ~FALSE))
            BY <3>2, <3>3
        <3> QED BY <2>1, <3>1, <3>2, <3>4, ErrorDoes
    <2>3. CASE r.kind = "always"
        <3>1. h = [d |-> P!Say(d, P!Box(r.nr, TRUE, TRUE, FALSE)), p |-> p]
            BY <1>4, <2>3 DEF P!Handle, P!EamsOperPostAlwayExeCBP
        <3>2. P!WithButton(r.kind)
            BY <2>3 DEF P!WithButton
        <3>3. d.enabled = (d.enabled \/ (P!WithButton(r.kind) /\ ~TRUE))
            BY <1>1
        <3> QED BY <2>1, <3>1, <3>2, <3>3, ErrorDoes
    <2>4. CASE r.kind \in {"either", "close", "return"}
        <3>1. PICK a \in BOOLEAN : h = [d |-> P!Say(d, P!Box(r.nr, FALSE, a, FALSE)), p |-> p]
            BY <1>4, <2>4 DEF P!Handle, P!EamsOperPostExeFailOrExeSucc, P!OtherVariants, P!NoCall
        <3>2. ~P!WithButton(r.kind)
            BY <2>4 DEF P!WithButton
        <3>3. d.enabled = (d.enabled \/ (P!WithButton(r.kind) /\ ~FALSE))
            BY <1>1, <3>2
        <3> QED BY <2>1, <3>1, <3>3, ErrorDoes
    <2> QED BY <1>1, <1>4, <2>2, <2>3, <2>4 DEF PostKinds
<1>5. CASE r.kind # "check" /\ r.out \in {"ok", "told"}
    <2>1. h = P!Done(r, d, p)
        BY <1>5 DEF P!Handle, P!EamsOperPost, P!EamsOperPostAlwayExeCBP, P!EamsOperPostExeFailOrExeSucc,
           P!OtherVariants
    <2> QED BY <1>5, <2>1, DoneDoes
<1> QED BY <1>1, <1>2, <1>3, <1>4, <1>5

-----------------------------------------------------------------------------
LEMMA PostAnswer ==
    ASSUME P!PostsAssumption, PostInv(data, page), NEW r \in page.net, P!Answer(r)
    PROVE  PostInv(data, page)'
<1> DEFINE d == data
           p == page
           n == p.net \ {r}
           q == [p EXCEPT !.net = n]
           h == P!Handle(r, d, q)
           w == P!WithButton(r.kind)
<1>1. data' = h.d /\ page' = h.p /\ r.out # None
    BY DEF P!Answer
<1>2. p \in PostPage /\ d \in PostData /\ r \in PostReqs /\ n \in SUBSET PostReqs /\ w \in BOOLEAN
    BY DEF PostInv, PostTypes, PostPage, P!WithButton
<1>i. PostOnce(d.boxes, p) /\ PostTold(d.boxes, p) /\ PostButton(d.boxes, d.enabled, p)
      /\ PostWindow(d.open, d.frame, p)
    BY DEF PostInv
<1>r. r \in p.net /\ (r.kind = "check" => r.what \in Targets) /\ p.after[r.nr] = 0 /\ r.nr <= p.nr
      /\ r.nr \in 1 .. MaxAsked
    BY <1>2, <1>i DEF PostOnce, PostReqs
<1>n. \A s : s \in n <=> s \in p.net /\ s # r
    OBVIOUS
<1>h. PostHandled(r, d, q, h)
    BY <1>1, <1>2, <1>r, HandleDoes
<1>b. d.boxes \in Seq(PostBoxes) /\ d.enabled \in BOOLEAN
    BY <1>2 DEF PostData
<1>qq. q = [p EXCEPT !.net = n]
    OBVIOUS
<1> HIDE DEF d, p, n, q, h, w
<1>q. /\ q \in PostPage /\ q.nr = p.nr /\ q.net = n /\ q.last = p.last /\ q.done = p.done
      /\ q.lost = p.lost /\ q.after = p.after /\ q.mixed = p.mixed
    BY <1>2, <1>qq DEF PostPage
<1> DEFINE a == [p.after EXCEPT ![r.nr] = 1]
           x == page'
           bs == d.boxes
           cs == data'.boxes
<1>c. a \in [1 .. MaxAsked -> 0 .. 1] /\ a[r.nr] = 1 /\ \A i \in 1 .. MaxAsked : i # r.nr => a[i] = p.after[i]
    <2>1. p.after \in [1 .. MaxAsked -> 0 .. 1] /\ 1 \in 0 .. 1
        BY <1>2 DEF PostPage
    <2> QED BY <2>1, <1>r
<1>a. /\ x \in PostPage /\ x.nr = p.nr /\ x.net = n /\ x.last = p.last /\ x.done = p.done
      /\ x.lost = p.lost /\ x.mixed = p.mixed
      /\ \/ x.after = p.after /\ x = q
         \/ x.after = a /\ x # q
    <2>1. h.p = q \/ h.p = [q EXCEPT !.after[r.nr] = @ + 1]
        BY <1>h DEF PostHandled
    <2>2. CASE h.p = q
        BY <1>1, <1>q, <2>2
    <2>3. CASE h.p = [q EXCEPT !.after[r.nr] = @ + 1]
        <3>1. q.after \in [1 .. MaxAsked -> 0 .. 1] /\ q.after[r.nr] = 0
            BY <1>q, <1>r DEF PostPage
        <3>2. h.p = [q EXCEPT !.after = [q.after EXCEPT ![r.nr] = q.after[r.nr] + 1]]
            BY <2>3
        <3>3. [q.after EXCEPT ![r.nr] = q.after[r.nr] + 1] = a
            BY <3>1, <1>q
        <3>4. a \in [1 .. MaxAsked -> 0 .. 1] /\ a[r.nr] = 1
            BY <1>c
        <3>5. h.p = [q EXCEPT !.after = a]
            BY <3>2, <3>3
        <3> HIDE DEF a
        <3>6. /\ h.p \in PostPage /\ h.p.nr = q.nr /\ h.p.net = q.net /\ h.p.last = q.last /\ h.p.done = q.done
              /\ h.p.lost = q.lost /\ h.p.mixed = q.mixed /\ h.p.after = a
            BY <1>q, <3>4, <3>5 DEF PostPage
        <3>8. h.p.after[r.nr] = 1
            BY <3>4, <3>6
        <3>7. h.p # q
            BY <3>1, <3>8
        <3> QED BY <1>1, <1>q, <3>6, <3>7
    <2> QED BY <2>1, <2>2, <2>3
<1>d. data' \in PostData
    BY <1>1, <1>h DEF PostHandled
<1>w. PostWindow(data'.open, data'.frame, x)
    <2>1. \/ data'.frame = "login"
          \/ data'.frame = r.what /\ r.kind = "check"
          \/ data'.frame = d.frame /\ (data'.open => d.open)
        BY <1>1, <1>h DEF PostHandled
    <2> HIDE DEF x
    <2> QED BY <2>1, <1>a, <1>i, <1>n, <1>r DEF PostWindow
<1> HIDE DEF x, bs, cs, a
<1>3. CASE \/ cs = bs /\ data'.enabled = (d.enabled \/ w) /\ (x = q => ~PostWork(r))
    <2>1. PostOnce(cs, x)
        <3>1. ASSUME NEW s \in n
              PROVE  /\ s.nr <= p.nr /\ x.after[s.nr] = 0
                     /\ s.kind = "check" => s.what \in Targets
                     /\ \A o \in n : s.nr = o.nr => s = o
                     /\ \A i \in 1 .. Len(bs) : bs[i].nr # s.nr
            <4>1. s \in p.net /\ s.nr # r.nr /\ s.nr \in 1 .. MaxAsked
                BY <1>n, <1>i, <1>2, <1>r DEF PostOnce, PostPage, PostReqs
            <4> QED BY <4>1, <1>n, <1>i, <1>a, <1>c DEF PostOnce, bs
        <3>2. ASSUME NEW i \in 1 .. Len(bs)
              PROVE  /\ bs[i].nr <= p.nr
                     /\ bs[i].after => x.after[bs[i].nr] = 0
                     /\ \A j \in 1 .. Len(bs) : bs[i].nr = bs[j].nr => i = j
            <4>0. bs[i] \in PostBoxes
                BY <1>b DEF bs
            <4>1. bs[i].nr # r.nr /\ bs[i].nr \in 1 .. MaxAsked
                BY <4>0, <1>i, <1>r DEF PostOnce, bs, PostBoxes
            <4> QED BY <4>1, <1>i, <1>a, <1>c DEF PostOnce, bs
        <3>3. \A i \in 1 .. MaxAsked : i > p.nr => x.after[i] = 0 /\ i \notin p.done
            <4> SUFFICES ASSUME NEW i \in 1 .. MaxAsked, i > p.nr PROVE x.after[i] = 0 /\ i \notin p.done
                OBVIOUS
            <4>1. r.nr <= p.nr /\ p.nr \in Int /\ r.nr \in Int
                BY <1>r, <1>2 DEF PostPage
            <4>2. i # r.nr /\ p.after[i] = 0 /\ i \notin p.done
                BY <4>1, <1>i DEF PostOnce
            <4> QED BY <4>2, <1>a, <1>c
        <3> QED BY <1>3, <1>a, <3>1, <3>2, <3>3 DEF PostOnce
    <2>2. PostTold(cs, x)
        <3> SUFFICES ASSUME NEW m \in p.done \ p.lost
                     PROVE  \/ x.after[m] = 1
                            \/ \E s \in n : s.nr = m /\ s.out \in {"ok", "told"} /\ s.kind \notin {"check", "return"}
                            \/ \E i \in 1 .. Len(bs) : bs[i].nr = m /\ bs[i].after
            BY <1>3, <1>a DEF PostTold
        <3>0. m \in 1 .. MaxAsked
            BY <1>2 DEF PostPage
        <3>1. CASE p.after[m] = 1
            BY <3>0, <3>1, <1>a, <1>c
        <3>2. CASE \E s \in p.net : s.nr = m /\ s.out \in {"ok", "told"} /\ s.kind \notin {"check", "return"}
            <4>1. PICK s \in p.net : s.nr = m /\ s.out \in {"ok", "told"} /\ s.kind \notin {"check", "return"}
                BY <3>2
            <4>2. CASE s = r
                BY <4>1, <4>2, <1>3, <1>a, <1>c DEF PostWork
            <4>3. CASE s # r
                BY <4>1, <4>3, <1>n
            <4> QED BY <4>2, <4>3
        <3> QED BY <3>1, <3>2, <1>i DEF PostTold, bs
    <2>3. PostButton(cs, data'.enabled, x)
        <3>1. CASE w
            <4>1. data'.enabled = TRUE
                BY <1>3, <3>1
            <4>2. /\ \A s \in n : ~P!WithButton(s.kind)
                  /\ \A i \in 1 .. Len(bs) : ~bs[i].enable
                BY <1>n, <1>i, <1>r, <3>1 DEF PostButton, w, bs
            <4> QED BY <1>3, <1>a, <4>1, <4>2 DEF PostButton
        <3>2. CASE ~w
            <4>1. data'.enabled = d.enabled
                BY <1>3, <3>2, <1>b
            <4> QED BY <1>3, <1>a, <1>i, <1>n, <3>2, <4>1 DEF PostButton, bs, w
        <3> QED BY <3>1, <3>2
    <2> QED BY <1>a, <1>d, <1>w, <2>1, <2>2, <2>3 DEF PostInv, PostTypes, x, cs
<1>4. CASE \E b \in PostBoxes :
             /\ b.nr = r.nr /\ cs = Append(bs, b) /\ x = q
             /\ PostWork(r) => b.after
             /\ b.enable => w
             /\ data'.enabled = (d.enabled \/ (w /\ ~b.enable))
    <2>0. PICK b \in PostBoxes :
             /\ b.nr = r.nr /\ cs = Append(bs, b) /\ x = q
             /\ PostWork(r) => b.after
             /\ b.enable => w
             /\ data'.enabled = (d.enabled \/ (w /\ ~b.enable))
        BY <1>4
    <2> DEFINE l == Len(bs)
    <2>l. /\ l \in Nat /\ Len(cs) = l + 1 /\ cs[l + 1] = b /\ \A i \in 1 .. l : cs[i] = bs[i] /\ bs[i] \in PostBoxes
        BY <2>0, <1>b DEF bs
    <2>m. \A i \in 1 .. Len(cs) : i \in 1 .. l \/ i = l + 1
        BY <2>l
    <2>i. \A i \in 1 .. l : i # l + 1 /\ i \in 1 .. Len(cs)
        BY <2>l
    <2>j. l + 1 \in 1 .. Len(cs)
        BY <2>l
    <2>p. x.after = p.after
        BY <2>0, <1>q
    <2>b. b.enable \in BOOLEAN
        BY DEF PostBoxes
    <2>o. /\ \A i \in 1 .. l :
               /\ bs[i].nr <= p.nr /\ bs[i].nr # r.nr
               /\ bs[i].after => p.after[bs[i].nr] = 0
               /\ \A j \in 1 .. l : bs[i].nr = bs[j].nr => i = j
        BY <1>i, <1>r DEF PostOnce, bs
    <2> HIDE DEF l
    <2>1. PostOnce(cs, x)
        <3>1. ASSUME NEW s \in n
              PROVE  /\ s.nr <= p.nr /\ x.after[s.nr] = 0
                     /\ s.kind = "check" => s.what \in Targets
                     /\ \A o \in n : s.nr = o.nr => s = o
                     /\ \A i \in 1 .. Len(cs) : cs[i].nr # s.nr
            <4>1. s \in p.net /\ s.nr # r.nr /\ s.nr \in 1 .. MaxAsked
                BY <1>n, <1>i, <1>2, <1>r DEF PostOnce, PostPage, PostReqs
            <4>2. \A i \in 1 .. l : bs[i].nr # s.nr
                BY <4>1, <1>i DEF PostOnce, bs, l
            <4>3. \A i \in 1 .. Len(cs) : cs[i].nr # s.nr
                BY <4>1, <4>2, <2>l, <2>m, <2>0
            <4> QED BY <4>1, <4>3, <2>p, <1>n, <1>i DEF PostOnce
        <3>2. ASSUME NEW i \in 1 .. Len(cs)
              PROVE  /\ cs[i].nr <= p.nr
                     /\ cs[i].after => x.after[cs[i].nr] = 0
                     /\ \A j \in 1 .. Len(cs) : cs[i].nr = cs[j].nr => i = j
            BY <2>0, <2>l, <2>m, <2>o, <2>p, <1>r
        <3>3. \A i \in 1 .. MaxAsked : i > p.nr => x.after[i] = 0 /\ i \notin p.done
            BY <1>i, <2>p DEF PostOnce
        <3> QED BY <1>a, <3>1, <3>2, <3>3 DEF PostOnce
    <2>2. PostTold(cs, x)
        <3> SUFFICES ASSUME NEW m \in p.done \ p.lost
                     PROVE  \/ p.after[m] = 1
                            \/ \E s \in n : s.nr = m /\ s.out \in {"ok", "told"} /\ s.kind \notin {"check", "return"}
                            \/ \E i \in 1 .. Len(cs) : cs[i].nr = m /\ cs[i].after
            BY <1>a, <2>p DEF PostTold
        <3>2. CASE \E s \in p.net : s.nr = m /\ s.out \in {"ok", "told"} /\ s.kind \notin {"check", "return"}
            <4>1. PICK s \in p.net : s.nr = m /\ s.out \in {"ok", "told"} /\ s.kind \notin {"check", "return"}
                BY <3>2
            <4>2. CASE s = r
                BY <4>1, <4>2, <2>0, <2>l, <2>j DEF PostWork
            <4>3. CASE s # r
                BY <4>1, <4>3, <1>n
            <4> QED BY <4>2, <4>3
        <3>3. CASE \E i \in 1 .. l : bs[i].nr = m /\ bs[i].after
            BY <3>3, <2>l, <2>i
        <3> QED BY <3>2, <3>3, <1>i DEF PostTold, bs, l
    <2>3. PostButton(cs, data'.enabled, x)
        <3>1. CASE w
            <4>2. /\ \A s \in n : ~P!WithButton(s.kind)
                  /\ \A i \in 1 .. l : ~bs[i].enable
                  /\ ~d.enabled
                BY <1>n, <1>i, <1>r, <3>1 DEF PostButton, w, bs, l
            <4>3. \A i \in 1 .. Len(cs) : cs[i].enable => i = l + 1
                BY <4>2, <2>l, <2>m
            <4>4. data'.enabled = ~b.enable
                BY <2>0, <2>b, <3>1, <4>2, <1>b
            <4>5. cs[l + 1].enable = b.enable
                BY <2>l
            <4> QED BY <1>a, <4>2, <4>3, <4>4, <4>5, <2>b, <2>j DEF PostButton
        <3>2. CASE ~w
            <4>1. data'.enabled = d.enabled /\ ~b.enable
                BY <2>0, <3>2, <1>b
            <4>2. \A i \in 1 .. Len(cs) : cs[i].enable => i \in 1 .. l /\ bs[i].enable
                BY <4>1, <2>l, <2>m
            <4>3. \A i \in 1 .. l : bs[i].enable => cs[i].enable /\ i \in 1 .. Len(cs)
                BY <2>l, <2>i
            <4> QED BY <1>a, <1>i, <1>n, <3>2, <4>1, <4>2, <4>3 DEF PostButton, bs, w, l
        <3> QED BY <3>1, <3>2
    <2> QED BY <1>a, <1>d, <1>w, <2>1, <2>2, <2>3 DEF PostInv, PostTypes, x, cs
<1>5. \/ /\ h.d.boxes = d.boxes
         /\ h.d.enabled = (d.enabled \/ w)
         /\ h.p = q => ~PostWork(r)
      \/ \E b \in PostBoxes :
            /\ b.nr = r.nr /\ h.d.boxes = Append(d.boxes, b) /\ h.p = q
            /\ PostWork(r) => b.after
            /\ b.enable => w
            /\ h.d.enabled = (d.enabled \/ (w /\ ~b.enable))
    <2>1. h.p # q \/ ~(h.p = [q EXCEPT !.after[r.nr] = @ + 1])
        <3>1. SUFFICES ASSUME h.p = q, h.p = [q EXCEPT !.after[r.nr] = @ + 1] PROVE FALSE
            OBVIOUS
        <3>2. q.after \in [1 .. MaxAsked -> 0 .. 1] /\ q.after[r.nr] = 0
            BY <1>q, <1>r DEF PostPage
        <3>3. q.after = [q.after EXCEPT ![r.nr] = q.after[r.nr] + 1]
            BY <1>q, <3>1 DEF PostPage
        <3>4. \A f \in [1 .. MaxAsked -> 0 .. 1], n1 \in 1 .. MaxAsked :
                  f = [f EXCEPT ![n1] = f[n1] + 1] => f[n1] = f[n1] + 1 /\ f[n1] \in Int
            OBVIOUS
        <3> QED BY <3>2, <3>3, <3>4, <1>r
    <2> QED BY <1>h, <2>1 DEF PostHandled, w
<1>6. CASE h.d.boxes = d.boxes /\ h.d.enabled = (d.enabled \/ w) /\ (h.p = q => ~PostWork(r))
    BY <1>1, <1>3, <1>6 DEF x, bs, cs
<1> QED BY <1>1, <1>4, <1>5, <1>6 DEF x, bs, cs

LEMMA PostLost ==
    ASSUME P!PostsAssumption, PostInv(data, page), NEW r \in page.net, P!Lost(r)
    PROVE  PostInv(data, page)'
<1> DEFINE d == data
           p == page
           n == p.net \ {r}
           l == p.lost \cup {r.nr}
           m == p.mixed \cup (IF P!WithButton(r.kind) THEN {"lost"} ELSE {})
           x == page'
           bs == d.boxes
<1>1. x = [p EXCEPT !.net = n, !.lost = l, !.mixed = m] /\ data' = d
    BY DEF P!Lost
<1>2. p \in PostPage /\ r \in PostReqs /\ r.nr \in 1 .. MaxAsked
    BY DEF PostInv, PostTypes, PostPage, PostReqs
<1>3. n \in SUBSET PostReqs /\ l \in SUBSET (1 .. MaxAsked) /\ m \in SUBSET {"overlap", "lost", "dismissed"}
    BY <1>2 DEF PostPage
<1>i. PostOnce(bs, p) /\ PostTold(bs, p) /\ PostButton(bs, d.enabled, p) /\ PostWindow(d.open, d.frame, p)
    BY DEF PostInv
<1>n. /\ r \in p.net
      /\ \A s : s \in n <=> s \in p.net /\ s # r
      /\ \A i : i \in l <=> i \in p.lost \/ i = r.nr
      /\ "overlap" \notin m => "overlap" \notin p.mixed
      /\ m \cap {"lost", "dismissed"} = {} => ~P!WithButton(r.kind) /\ p.mixed \cap {"lost", "dismissed"} = {}
    OBVIOUS
<1> HIDE DEF d, p, n, l, m, x
<1>4. /\ x \in PostPage /\ x.nr = p.nr /\ x.net = n /\ x.last = p.last /\ x.done = p.done
      /\ x.lost = l /\ x.after = p.after /\ x.mixed = m
    BY <1>1, <1>2, <1>3 DEF PostPage
<1> HIDE DEF bs
<1>5. PostOnce(bs, x)
    BY <1>4, <1>i, <1>n DEF PostOnce
<1>6. PostTold(bs, x)
    BY <1>4, <1>i, <1>n DEF PostTold
<1>7. PostButton(bs, d.enabled, x)
    BY <1>4, <1>i, <1>n DEF PostButton
<1>8. PostWindow(d.open, d.frame, x)
    BY <1>4, <1>i, <1>n DEF PostWindow
<1> QED BY <1>1, <1>4, <1>5, <1>6, <1>7, <1>8 DEF PostInv, PostTypes, d, p, x, bs

\* The messages under the one on top.
LEMMA FrontIs ==
    ASSUME NEW bs \in Seq(PostBoxes), bs # <<>>
    PROVE  /\ P!Front(bs) \in Seq(PostBoxes) /\ Len(P!Front(bs)) = Len(bs) - 1 /\ Len(bs) \in Nat \ {0}
           /\ \A i \in 1 .. Len(bs) - 1 : P!Front(bs)[i] = bs[i] /\ i \in 1 .. Len(bs) /\ i # Len(bs)
           /\ P!Last(bs) = bs[Len(bs)] /\ P!Last(bs) \in PostBoxes /\ Len(bs) \in 1 .. Len(bs)
           /\ \A i \in 1 .. Len(bs) : i \in 1 .. Len(bs) - 1 \/ i = Len(bs)
<1>1. Len(bs) \in Nat \ {0}
    BY EmptySeq
<1>2. P!Front(bs) = SubSeq(bs, 1, Len(bs) - 1) /\ P!Last(bs) = bs[Len(bs)]
    BY DEF P!Front, P!Last
<1>3. \A i \in 1 .. Len(bs) - 1 : i \in 1 .. Len(bs) /\ i # Len(bs)
    BY <1>1
<1>4. SubSeq(bs, 1, Len(bs) - 1) \in Seq(PostBoxes) /\ Len(SubSeq(bs, 1, Len(bs) - 1)) = Len(bs) - 1
      /\ \A i \in 1 .. Len(bs) - 1 : SubSeq(bs, 1, Len(bs) - 1)[i] = bs[i]
    <2> DEFINE n == Len(bs) - 1
    <2>1. n \in Int /\ 1 \in Int /\ \A i \in 1 .. n : bs[i] \in PostBoxes
        BY <1>1, <1>3
    <2>2. n >= 0
        BY <1>1
    <2> HIDE DEF n
    <2>3. /\ SubSeq(bs, 1, n) \in Seq(PostBoxes) /\ Len(SubSeq(bs, 1, n)) = IF 1 <= n THEN n - 1 + 1 ELSE 0
          /\ \A i \in 1 .. n - 1 + 1 : SubSeq(bs, 1, n)[i] = bs[1 + i - 1]
        BY <2>1, SubSeqProperties
    <2>4. \A i \in 1 .. n : i \in 1 .. n - 1 + 1 /\ 1 + i - 1 = i
        BY <2>1
    <2>5. Len(SubSeq(bs, 1, n)) = n
        BY <2>1, <2>2, <2>3
    <2> QED BY <2>3, <2>4, <2>5 DEF n
<1> QED BY <1>1, <1>2, <1>3, <1>4

LEMMA PostClickOk ==
    ASSUME P!PostsAssumption, PostInv(data, page), P!ClickOk
    PROVE  PostInv(data, page)'
<1> DEFINE d == data
           p == page
           x == page'
           bs == d.boxes
           b == P!Last(bs)
           c == P!Called(d, b)
           cs == P!Front(bs)
           l == Len(bs)
           a == [p.after EXCEPT ![b.nr] = 1]
<1>1. data' = [c EXCEPT !.boxes = P!Front(@)] /\ x = P!Counted(p, b) /\ bs # <<>>
    BY DEF P!ClickOk
<1>2. p \in PostPage /\ d \in PostData
    BY DEF PostInv, PostTypes
<1>b. bs \in Seq(PostBoxes) /\ d.enabled \in BOOLEAN
    BY <1>2 DEF PostData
<1>3. /\ cs \in Seq(PostBoxes) /\ Len(cs) = l - 1 /\ l \in Nat \ {0}
      /\ \A i \in 1 .. l - 1 : cs[i] = bs[i] /\ i \in 1 .. l /\ i # l
      /\ b = bs[l] /\ b \in PostBoxes /\ l \in 1 .. l
      /\ \A i \in 1 .. l : i \in 1 .. l - 1 \/ i = l
    BY <1>1, <1>b, FrontIs
<1>i. PostOnce(bs, p) /\ PostTold(bs, p) /\ PostButton(bs, d.enabled, p) /\ PostWindow(d.open, d.frame, p)
    BY DEF PostInv
<1>4. c \in PostData /\ c.boxes = bs /\ (c.open => d.open) /\ c.frame = d.frame
      /\ c.enabled = (d.enabled \/ b.enable)
    BY <1>2, <1>3, CalledDoes
<1>l. l = Len(bs)
    OBVIOUS
<1>cs. cs = P!Front(bs)
    OBVIOUS
<1> HIDE DEF c, b, cs, l
<1>5. /\ data' \in PostData /\ data'.boxes = cs /\ (data'.open => d.open) /\ data'.frame = d.frame
      /\ data'.enabled = (d.enabled \/ b.enable)
    <2>1. data' = [c EXCEPT !.boxes = cs]
        BY <1>1, <1>4, <1>cs
    <2>2. data' \in PostData /\ data'.boxes = cs /\ data'.open = c.open /\ data'.frame = c.frame
          /\ data'.enabled = c.enabled
        BY <2>1, <1>3, <1>4 DEF PostData
    <2> QED BY <1>4, <2>2
<1>6. b.nr \in 1 .. MaxAsked /\ b.nr <= p.nr /\ (b.after => p.after[b.nr] = 0) /\ b.enable \in BOOLEAN
    <2>1. b.nr \in 1 .. MaxAsked /\ b.enable \in BOOLEAN
        BY <1>3 DEF PostBoxes
    <2>2. b.nr <= p.nr /\ (b.after => p.after[b.nr] = 0)
        BY <1>3, <1>i, <1>l DEF PostOnce, bs
    <2> QED BY <2>1, <2>2
<1>7. a \in [1 .. MaxAsked -> 0 .. 1] /\ a[b.nr] = 1 /\ \A i \in 1 .. MaxAsked : i # b.nr => a[i] = p.after[i]
    <2>1. p.after \in [1 .. MaxAsked -> 0 .. 1] /\ 1 \in 0 .. 1
        BY <1>2 DEF PostPage
    <2> QED BY <2>1, <1>6
<1> HIDE DEF p, d, bs
<1>8. /\ x \in PostPage /\ x.nr = p.nr /\ x.net = p.net /\ x.last = p.last /\ x.done = p.done
      /\ x.lost = p.lost /\ x.mixed = p.mixed /\ x.after = IF b.after THEN a ELSE p.after
    <2>1. CASE b.after
        <3>1. x = [p EXCEPT !.after = [p.after EXCEPT ![b.nr] = p.after[b.nr] + 1]]
            BY <1>1, <2>1 DEF P!Counted
        <3>2. [p.after EXCEPT ![b.nr] = p.after[b.nr] + 1] = a
            BY <2>1, <1>6
        <3>3. x = [p EXCEPT !.after = a]
            BY <3>1, <3>2
        <3> HIDE DEF a, x
        <3> QED BY <3>3, <1>7, <1>2, <2>1 DEF PostPage
    <2>2. CASE ~b.after
        BY <1>1, <1>2, <2>2 DEF P!Counted
    <2> QED BY <2>1, <2>2
<1> HIDE DEF a, x
<1>r. \A i \in 1 .. l - 1 : bs[i].nr # b.nr /\ bs[i].nr \in 1 .. MaxAsked
    <2>1. \A i \in 1 .. l - 1 : bs[i] \in PostBoxes
        BY <1>3, <1>b, <1>l
    <2>2. \A i \in 1 .. l - 1 : bs[i].nr # b.nr
        BY <1>3, <1>i, <1>l DEF PostOnce
    <2> QED BY <2>1, <2>2 DEF PostBoxes
<1>a. \A i \in 1 .. MaxAsked : i # b.nr => x.after[i] = p.after[i]
    BY <1>7, <1>8
<1>9. PostOnce(cs, x)
    <2>1. ASSUME NEW s \in p.net
          PROVE  /\ s.nr <= p.nr /\ x.after[s.nr] = 0
                 /\ s.kind = "check" => s.what \in Targets
                 /\ \A o \in p.net : s.nr = o.nr => s = o
                 /\ \A i \in 1 .. Len(cs) : cs[i].nr # s.nr
        <3>1. \A i \in 1 .. l : bs[i].nr # s.nr
            BY <1>i, <1>l DEF PostOnce
        <3>2. s.nr # b.nr /\ s.nr \in 1 .. MaxAsked
            BY <1>3, <3>1, <1>2 DEF PostPage, PostReqs
        <3>3. \A i \in 1 .. Len(cs) : cs[i].nr # s.nr
            BY <1>3, <3>1
        <3> QED BY <3>2, <3>3, <1>a, <1>i DEF PostOnce
    <2>2. ASSUME NEW i \in 1 .. Len(cs)
          PROVE  /\ cs[i].nr <= p.nr
                 /\ cs[i].after => x.after[cs[i].nr] = 0
                 /\ \A j \in 1 .. Len(cs) : cs[i].nr = cs[j].nr => i = j
        <3>1. i \in 1 .. l - 1 /\ i \in 1 .. l /\ cs[i] = bs[i]
            BY <1>3
        <3>2. bs[i].nr <= p.nr /\ (bs[i].after => p.after[bs[i].nr] = 0)
            BY <3>1, <1>i, <1>l DEF PostOnce
        <3>3. \A j \in 1 .. Len(cs) : j \in 1 .. l /\ cs[j] = bs[j]
            BY <1>3
        <3>4. \A j \in 1 .. Len(cs) : cs[i].nr = cs[j].nr => i = j
            BY <3>1, <3>3, <1>i, <1>l DEF PostOnce
        <3> QED BY <3>1, <3>2, <3>4, <1>r, <1>a
    <2>3. \A i \in 1 .. MaxAsked : i > p.nr => x.after[i] = 0 /\ i \notin p.done
        <3> SUFFICES ASSUME NEW i \in 1 .. MaxAsked, i > p.nr PROVE x.after[i] = 0 /\ i \notin p.done
            OBVIOUS
        <3>1. p.nr \in Int
            BY <1>2 DEF PostPage
        <3>2. i # b.nr /\ p.after[i] = 0 /\ i \notin p.done
            BY <3>1, <1>6, <1>i DEF PostOnce
        <3> QED BY <3>2, <1>a
    <2> QED BY <1>8, <2>1, <2>2, <2>3 DEF PostOnce
<1>10. PostTold(cs, x)
    <2> SUFFICES ASSUME NEW m \in p.done \ p.lost
                 PROVE  \/ x.after[m] = 1
                        \/ \E s \in p.net : s.nr = m /\ s.out \in {"ok", "told"} /\ s.kind \notin {"check", "return"}
                        \/ \E i \in 1 .. Len(cs) : cs[i].nr = m /\ cs[i].after
        BY <1>8 DEF PostTold
    <2>0. m \in 1 .. MaxAsked
        BY <1>2 DEF PostPage
    <2>1. CASE p.after[m] = 1
        BY <2>0, <2>1, <1>7, <1>8
    <2>2. CASE \E i \in 1 .. l : bs[i].nr = m /\ bs[i].after
        BY <2>2, <1>3, <1>7, <1>8
    <2> QED BY <2>1, <2>2, <1>i, <1>l DEF PostTold
<1>11. PostButton(cs, data'.enabled, x)
    <2>1. CASE b.enable
        <3>1. data'.enabled = TRUE
            BY <1>5, <2>1
        <3>2. \A s \in p.net : ~P!WithButton(s.kind)
            BY <1>3, <1>i, <1>l, <2>1 DEF PostButton
        <3>3. \A i \in 1 .. Len(cs) : ~cs[i].enable
            BY <1>3, <1>i, <1>l, <2>1 DEF PostButton
        <3> QED BY <3>1, <3>2, <3>3, <1>8 DEF PostButton
    <2>2. CASE ~b.enable
        <3>1. data'.enabled = d.enabled
            BY <1>5, <1>b, <1>6, <2>2 DEF d
        <3>2. \A i \in 1 .. Len(cs) : i \in 1 .. l /\ cs[i] = bs[i]
            BY <1>3
        <3>3. \A i \in 1 .. l : bs[i].enable => i \in 1 .. Len(cs)
            BY <1>3, <2>2
        <3> QED BY <3>1, <3>2, <3>3, <1>8, <1>i, <1>l DEF PostButton
    <2> QED BY <2>1, <2>2
<1>12. PostWindow(data'.open, data'.frame, x)
    BY <1>5, <1>8, <1>i DEF PostWindow
<1> QED BY <1>5, <1>8, <1>9, <1>10, <1>11, <1>12 DEF PostInv, PostTypes, x

LEMMA PostClickTool ==
    ASSUME P!PostsAssumption, PostInv(data, page), P!ClickTool
    PROVE  PostInv(data, page)'
<1> DEFINE d == data
           p == page
           x == page'
           bs == d.boxes
           b == P!Last(bs)
           cs == P!Front(bs)
           l == Len(bs)
           o == p.lost \cup {b.nr}
           m == p.mixed \cup (IF b.enable THEN {"dismissed"} ELSE {})
<1>1. data' = [d EXCEPT !.boxes = cs] /\ x = [p EXCEPT !.lost = o, !.mixed = m] /\ bs # <<>>
    BY DEF P!ClickTool
<1>2. p \in PostPage /\ d \in PostData
    BY DEF PostInv, PostTypes
<1>b. bs \in Seq(PostBoxes) /\ d.enabled \in BOOLEAN
    BY <1>2 DEF PostData
<1>3. /\ cs \in Seq(PostBoxes) /\ Len(cs) = l - 1 /\ l \in Nat \ {0}
      /\ \A i \in 1 .. l - 1 : cs[i] = bs[i] /\ i \in 1 .. l /\ i # l
      /\ b = bs[l] /\ b \in PostBoxes /\ l \in 1 .. l
      /\ \A i \in 1 .. l : i \in 1 .. l - 1 \/ i = l
    BY <1>1, <1>b, FrontIs
<1>i. PostOnce(bs, p) /\ PostTold(bs, p) /\ PostButton(bs, d.enabled, p) /\ PostWindow(d.open, d.frame, p)
    BY DEF PostInv
<1>l. l = Len(bs)
    OBVIOUS
<1> HIDE DEF b, cs, l
<1>4. o \in SUBSET (1 .. MaxAsked) /\ m \in SUBSET {"overlap", "lost", "dismissed"}
    BY <1>2, <1>3 DEF PostPage, PostBoxes
<1>n. /\ \A i : i \in o <=> i \in p.lost \/ i = b.nr
      /\ "overlap" \notin m => "overlap" \notin p.mixed
      /\ m \cap {"lost", "dismissed"} = {} => ~b.enable /\ p.mixed \cap {"lost", "dismissed"} = {}
    OBVIOUS
<1> HIDE DEF p, d, o, m
<1>5. /\ data' \in PostData /\ data'.boxes = cs /\ data'.open = d.open /\ data'.frame = d.frame
      /\ data'.enabled = d.enabled
    BY <1>1, <1>2, <1>3 DEF PostData
<1>8. /\ x \in PostPage /\ x.nr = p.nr /\ x.net = p.net /\ x.last = p.last /\ x.done = p.done
      /\ x.lost = o /\ x.mixed = m /\ x.after = p.after
    BY <1>1, <1>2, <1>4 DEF PostPage
<1> HIDE DEF x, bs
<1>9. PostOnce(cs, x)
    BY <1>3, <1>8, <1>i, <1>l DEF PostOnce
<1>10. PostTold(cs, x)
    <2> SUFFICES ASSUME NEW n \in p.done \ o
                 PROVE  \/ p.after[n] = 1
                        \/ \E s \in p.net : s.nr = n /\ s.out \in {"ok", "told"} /\ s.kind \notin {"check", "return"}
                        \/ \E i \in 1 .. Len(cs) : cs[i].nr = n /\ cs[i].after
        BY <1>8 DEF PostTold
    <2>1. n \in p.done \ p.lost /\ n # b.nr
        BY <1>n
    <2>2. CASE \E i \in 1 .. l : bs[i].nr = n /\ bs[i].after
        BY <2>1, <2>2, <1>3
    <2> QED BY <2>1, <2>2, <1>i, <1>l DEF PostTold
<1>11. PostButton(cs, d.enabled, x)
    <2>1. \A i \in 1 .. Len(cs) : i \in 1 .. l /\ cs[i] = bs[i]
        BY <1>3
    <2>2. ASSUME ~b.enable, NEW i \in 1 .. l, bs[i].enable PROVE i \in 1 .. Len(cs)
        BY <1>3, <2>2
    <2> QED BY <2>1, <2>2, <1>8, <1>i, <1>l, <1>n DEF PostButton
<1>12. PostWindow(data'.open, data'.frame, x)
    BY <1>5, <1>8, <1>i, <1>n DEF PostWindow
<1> QED BY <1>5, <1>8, <1>9, <1>10, <1>11, <1>12 DEF PostInv, PostTypes, x

\* The window is closed, or the session begins or ends.
LEMMA PostClose ==
    ASSUME PostInv(data, page), P!CloseWin \/ P!Relogin \/ P!Expire
    PROVE  PostInv(data, page)'
<1> DEFINE d == data
           p == page
<1>1. /\ data' = [d EXCEPT !.open = FALSE] \/ data' = d
      /\ page' = p \/ page' = [p EXCEPT !.alive = TRUE] \/ page' = [p EXCEPT !.alive = FALSE]
    BY DEF P!CloseWin, P!Relogin, P!Expire
<1>2. d \in PostData /\ p \in PostPage
    BY DEF PostInv, PostTypes
<1>i. PostOnce(d.boxes, p) /\ PostTold(d.boxes, p) /\ PostButton(d.boxes, d.enabled, p)
      /\ PostWindow(d.open, d.frame, p)
    BY DEF PostInv
<1> HIDE DEF d, p
<1>3. /\ data' \in PostData /\ data'.boxes = d.boxes /\ data'.frame = d.frame /\ data'.enabled = d.enabled
      /\ data'.open => d.open
    BY <1>1, <1>2 DEF PostData
<1>4. /\ page' \in PostPage /\ page'.nr = p.nr /\ page'.net = p.net /\ page'.last = p.last /\ page'.done = p.done
      /\ page'.lost = p.lost /\ page'.mixed = p.mixed /\ page'.after = p.after
    BY <1>1, <1>2 DEF PostPage
<1>5. PostOnce(d.boxes, page') /\ PostTold(d.boxes, page')
    BY <1>4, <1>i DEF PostOnce, PostTold
<1>6. PostButton(d.boxes, d.enabled, page') /\ PostWindow(data'.open, data'.frame, page')
    BY <1>3, <1>4, <1>i DEF PostButton, PostWindow
<1> QED BY <1>3, <1>4, <1>5, <1>6 DEF PostInv, PostTypes

LEMMA PostStep ==
    ASSUME P!PostsAssumption, PostInv(data, page), P!Next
    PROVE  PostInv(data, page)'
BY PostOpenWin, PostPost, PostClose, PostClickOk, PostClickTool, PostAnswer, PostLost, PostServe DEF P!Next, Outs

LEMMA PostShows ==
    ASSUME P!PostsAssumption, PostInv(data, page)
    PROVE  P!TypeOK /\ P!WindowOfLastAsked /\ P!PostsComeBack
<1> DEFINE d == data
           p == page
           bs == d.boxes
<1>1. d \in PostData /\ p \in PostPage /\ bs \in Seq(PostBoxes)
    BY DEF PostInv, PostTypes, PostData
<1>i. PostOnce(bs, p) /\ PostTold(bs, p) /\ PostButton(bs, d.enabled, p)
      /\ PostWindow(d.open, d.frame, p)
    BY DEF PostInv
<1>s. P!ToSet(bs) = {bs[i] : i \in DOMAIN bs}
    BY DEF P!ToSet
<1>b. \A b \in P!ToSet(bs) : b \in PostBoxes /\ \E i \in 1 .. Len(bs) : bs[i] = b
    BY <1>1, <1>s
<1>2. P!TypeOK
    <2>1. p.done \subseteq 1 .. p.nr
        <3>1. p.nr \in 0 .. MaxAsked /\ \A n \in p.done : n \in 1 .. MaxAsked
            BY <1>1 DEF PostPage
        <3> QED BY <3>1, <1>i DEF PostOnce
    <2>2. d.frame \in Targets \cup {"login", None} /\ d.open \in BOOLEAN /\ d.enabled \in BOOLEAN
        BY <1>1 DEF PostData
    <2>3. p.nr \in 0 .. MaxAsked /\ p.after \in [1 .. MaxAsked -> 0 .. 1]
        BY <1>1 DEF PostPage
    <2> QED BY <2>1, <2>2, <2>3, <1>b DEF P!TypeOK, PostBoxes
<1>3. P!WindowOfLastAsked
    BY <1>i DEF P!WindowOfLastAsked, PostWindow
<1>4. P!PostsComeBack
    <2> DEFINE rs == {r \in p.net : P!WithButton(r.kind)}
               es == {b \in P!ToSet(bs) : b.enable}
               us == rs \cup es
    <2>1. \A u, v \in us : u = v
        <3>1. ASSUME NEW u \in us, NEW v \in us PROVE u = v
            <4>1. CASE u \in rs /\ v \in rs
                BY <4>1, <1>i DEF PostButton
            <4>2. CASE u \in es
                <5>1. PICK i \in 1 .. Len(bs) : bs[i] = u /\ bs[i].enable
                    BY <4>2, <1>b
                <5>2. v \notin rs
                    BY <5>1, <1>i DEF PostButton
                <5>3. PICK j \in 1 .. Len(bs) : bs[j] = v /\ bs[j].enable
                    BY <5>2, <1>b
                <5> QED BY <5>1, <5>3, <1>i DEF PostButton
            <4>3. CASE v \in es
                <5>1. PICK i \in 1 .. Len(bs) : bs[i] = v /\ bs[i].enable
                    BY <4>3, <1>b
                <5>2. u \notin rs
                    BY <5>1, <1>i DEF PostButton
                <5>3. PICK j \in 1 .. Len(bs) : bs[j] = u /\ bs[j].enable
                    BY <5>2, <1>b
                <5> QED BY <5>1, <5>3, <1>i DEF PostButton
            <4> QED BY <4>1, <4>2, <4>3
        <3> QED BY <3>1
    <2>u. us = rs \cup es
        OBVIOUS
    <2> HIDE DEF us
    <2>2. us = {} \/ \E u : us = {u}
        BY <2>1
    <2>6. Cardinality(us) \in {0, 1}
        BY <2>2, FS_EmptySet, FS_Singleton, Zenon
    <2>3. Cardinality(us) <= 1
        BY <2>6
    <2>4. ASSUME p.net = {}, bs = <<>>
          PROVE  /\ \A n \in p.done \ p.lost : p.after[n] = 1
                 /\ p.mixed \cap {"lost", "dismissed"} = {} => d.enabled
        <3>1. \A i \in 1 .. Len(bs) : FALSE
            BY <2>4
        <3> QED BY <2>4, <3>1, <1>i DEF PostTold, PostButton
    <2>5. Cardinality(us) = P!Cardinality(us)
        BY Zenon DEF Cardinality, P!Cardinality
    <2> QED BY <2>3, <2>4, <2>5 DEF P!PostsComeBack, us
<1> QED BY <1>2, <1>3, <1>4

-----------------------------------------------------------------------------
(* A history is purged by a fold; of what a fold rests on, others have use too. *)

OneOf(c, i)    == c.s[i]
Latest(T)      == B!Max(T)
PurgeOp(c, t, h) == IF t = c.t THEN h ELSE Append(h, t)
PurgeBase(c)   == <<>>
PurgeInv(c, T, h) ==
    h \in Seq(B!Titles) /\ \A k \in DOMAIN h : h[k] # c.t /\ \E i \in T : h[k] = c.s[i]
Purging == INSTANCE Folding WITH
              Op <- PurgeOp, F <- OneOf, Pick <- Latest, Base <- PurgeBase, Inv <- PurgeInv

-----------------------------------------------------------------------------
(* Organisations.                                                           *)

OrgWrites == {"addOrg", "modifyOrg"}

\* The shapes of the values, and which steps each request takes.
OrgIsForm(f) ==
    /\ f = [op |-> f.op, id |-> f.id, par |-> f.par, cod |-> f.cod, nam |-> f.nam, seq |-> f.seq]
    /\ f.op \in OrgWrites \cup {"delOrg", "saveUsr"}
    /\ f.op \in OrgWrites => f.id \in OrgIDs /\ f.par \in OrgIDs \cup {ROOTNODE}
    /\ f.op = "delOrg" => f.id \in OrgIDs
    /\ f.op = "saveUsr" => f.id \in UsrIDs /\ f.par \in OrgIDs

OrgIsReq(r) ==
    /\ r = [nr |-> r.nr, f |-> r.f, at |-> r.at]
    /\ r.nr \in 1 .. page.nr
    /\ OrgIsForm(r.f)
    /\ r.f.op \in OrgWrites => r.at \in {"cod", "nam", "seq", "save"}
    /\ r.f.op = "delOrg" => r.at \in {"usr", "sub", "save"}
    /\ r.f.op = "saveUsr" => r.at \in {"look", "save"}

OrgShapes ==
    /\ page = [nr |-> page.nr, open |-> page.open, mates |-> page.mates,
               deleted |-> page.deleted, under |-> page.under]
    /\ data = [orgs |-> data.orgs, of |-> data.of, putBy |-> data.putBy]
    /\ MaxAsked \in Nat
    /\ page.nr \in 0 .. MaxAsked
    /\ page.mates \in [0 .. MaxAsked -> SUBSET Int]
    /\ page.deleted \in [OrgIDs -> Int]
    /\ page.under \in [0 .. MaxAsked -> SUBSET OrgIDs]
    /\ data.of \in [UsrIDs -> OrgIDs \cup {None}]
    /\ data.putBy \in [UsrIDs -> 0 .. MaxAsked]
    /\ \A x \in data.orgs : x.id \in OrgIDs /\ x.par \in OrgIDs \cup {ROOTNODE} /\ x.by \in 0 .. MaxAsked
    /\ \A r \in page.open : OrgIsReq(r)
    /\ \A r, o \in page.open : r.nr = o.nr => r = o

-----------------------------------------------------------------------------
(* What a step of a request does to the page.                                *)

\* Transactions that have overlapped have for good.
OrgGrown == \A n \in 0 .. MaxAsked : page.mates[n] \subseteq page'.mates[n]

\* r has met the others that have begun.
OrgMeets(r) ==
    /\ OrgGrown
    /\ \A o \in O!Others(r) : o.at # O!First(o.f) =>
        o.nr \in page'.mates[r.nr] /\ r.nr \in page'.mates[o.nr]

\* r ends, or goes on to the step next as n.
OrgBecomes(r, next, n) ==
    /\ n = [nr |-> r.nr, f |-> n.f, at |-> next]
    /\ n.f = [op |-> r.f.op, id |-> r.f.id, par |-> r.f.par, cod |-> r.f.cod,
              nam |-> r.f.nam, seq |-> n.f.seq]
OrgLeads(r, next) ==
    \/ page'.open = O!Others(r)
    \/ \E n : OrgBecomes(r, next, n) /\ page'.open = O!Others(r) \cup {n}

LEMMA OrgBecomesFacts ==
    ASSUME NEW r, NEW next, NEW n, OrgBecomes(r, next, n)
    PROVE  /\ n.nr = r.nr /\ n.at = next
           /\ n.f.op = r.f.op /\ n.f.id = r.f.id /\ n.f.par = r.f.par
           /\ n.f.cod = r.f.cod /\ n.f.nam = r.f.nam
<1>1. n.nr = r.nr /\ n.at = next
    BY DEF OrgBecomes
<1>2. /\ n.f.op = r.f.op /\ n.f.id = r.f.id /\ n.f.par = r.f.par
      /\ n.f.cod = r.f.cod /\ n.f.nam = r.f.nam
    <2> DEFINE f == n.f
    <2>1. f = [op |-> r.f.op, id |-> r.f.id, par |-> r.f.par, cod |-> r.f.cod,
               nam |-> r.f.nam, seq |-> f.seq]
        BY DEF OrgBecomes
    <2> HIDE DEF f
    <2>2. /\ f.op = r.f.op /\ f.id = r.f.id /\ f.par = r.f.par
          /\ f.cod = r.f.cod /\ f.nam = r.f.nam
        BY <2>1
    <2> QED BY <2>2 DEF f
<1> QED BY <1>1, <1>2

LEMMA OrgBecomesShape ==
    ASSUME NEW r, NEW next, NEW n, OrgBecomes(r, next, n)
    PROVE  /\ n = [nr |-> n.nr, f |-> n.f, at |-> n.at]
           /\ n.f = [op |-> n.f.op, id |-> n.f.id, par |-> n.f.par, cod |-> n.f.cod,
                     nam |-> n.f.nam, seq |-> n.f.seq]
BY OrgBecomesFacts DEF OrgBecomes

LEMMA OrgMetFacts ==
    ASSUME OrgShapes, NEW r \in page.open
    PROVE  LET m == O!Met(r) IN
           /\ m = [nr |-> page.nr, open |-> O!Others(r), mates |-> m.mates,
                   deleted |-> page.deleted, under |-> page.under]
           /\ m.mates \in [0 .. MaxAsked -> SUBSET Int]
           /\ \A n \in 0 .. MaxAsked : page.mates[n] \subseteq m.mates[n]
           /\ O!Begun(r) \subseteq m.mates[r.nr]
           /\ \A n \in O!Begun(r) : r.nr \in m.mates[n]
<1> DEFINE f == [n \in DOMAIN page.mates |->
                    CASE n = r.nr       -> page.mates[n] \cup O!Begun(r)
                      [] n \in O!Begun(r) -> page.mates[n] \cup {r.nr}
                      [] OTHER          -> page.mates[n]]
           k == [page EXCEPT !.open = O!Others(r)]
<1>1. O!Met(r) = [k EXCEPT !.mates = f]
    BY Zenon DEF O!Met, OrgShapes
<1>2. /\ r.nr \in 0 .. MaxAsked /\ O!Begun(r) \subseteq 0 .. MaxAsked /\ r.nr \notin O!Begun(r)
      /\ DOMAIN page.mates = 0 .. MaxAsked
    BY DEF OrgShapes, OrgIsReq, O!Begun, O!Others
<1>3. /\ f \in [0 .. MaxAsked -> SUBSET Int]
      /\ \A n \in 0 .. MaxAsked : page.mates[n] \subseteq f[n]
      /\ O!Begun(r) \subseteq f[r.nr]
      /\ \A n \in O!Begun(r) : r.nr \in f[n]
    BY <1>2 DEF OrgShapes
<1> HIDE DEF f
<1>4. k = [nr |-> page.nr, open |-> O!Others(r), mates |-> page.mates, deleted |-> page.deleted, under |-> page.under]
    BY DEF OrgShapes
<1> HIDE DEF k
<1>5. [k EXCEPT !.mates = f]
        = [nr |-> page.nr, open |-> O!Others(r), mates |-> f, deleted |-> page.deleted, under |-> page.under]
    BY <1>4
<1> QED BY <1>1, <1>3, <1>5

LEMMA OrgMetMeets ==
    ASSUME OrgShapes, NEW r \in page.open, page'.mates = O!Met(r).mates
    PROVE  OrgMeets(r) /\ page'.mates \in [0 .. MaxAsked -> SUBSET Int]
<1>1. \A o \in O!Others(r) : o.at # O!First(o.f) => o.nr \in O!Begun(r)
    BY DEF O!Begun
<1> QED BY <1>1, OrgMetFacts DEF OrgMeets, OrgGrown

LEMMA OrgGoOrFailFacts ==
    ASSUME OrgShapes, NEW r \in page.open, NEW n, NEW ok, NEW next, O!GoOrFail(n, ok, next),
           n = r \/ \E k : n = [r EXCEPT !.f.seq = k]
    PROVE  /\ OrgMeets(r) /\ OrgLeads(r, next) /\ data' = data
           /\ ~ ok => page'.open = O!Others(r)
           /\ page' = [nr |-> page.nr, open |-> page'.open, mates |-> page'.mates,
                       deleted |-> page.deleted, under |-> page.under]
           /\ page'.mates \in [0 .. MaxAsked -> SUBSET Int]
<1>1. /\ r = [nr |-> r.nr, f |-> r.f, at |-> r.at]
      /\ r.f = [op |-> r.f.op, id |-> r.f.id, par |-> r.f.par, cod |-> r.f.cod, nam |-> r.f.nam, seq |-> r.f.seq]
    BY DEF OrgShapes, OrgIsReq, OrgIsForm
<1>2. PICK k : n = [nr |-> r.nr, at |-> r.at,
                    f |-> [op |-> r.f.op, id |-> r.f.id, par |-> r.f.par, cod |-> r.f.cod, nam |-> r.f.nam, seq |-> k]]
    BY <1>1
<1>3. O!Met(n) = O!Met(r) /\ O!Others(n) = O!Others(r)
    BY <1>2 DEF O!Met, O!Others, O!Begun
<1> DEFINE g == [n EXCEPT !.at = next]
           m == O!Met(r)
<1>4. g = [nr |-> r.nr, f |-> g.f, at |-> next]
      /\ g.f = [op |-> r.f.op, id |-> r.f.id, par |-> r.f.par, cod |-> r.f.cod, nam |-> r.f.nam, seq |-> g.f.seq]
    BY <1>2
<1>5. page' = IF ok THEN [m EXCEPT !.open = @ \cup {g}] ELSE m
    BY <1>3 DEF O!GoOrFail
<1>6. /\ m = [nr |-> page.nr, open |-> O!Others(r), mates |-> m.mates, deleted |-> page.deleted, under |-> page.under]
    BY OrgMetFacts
<1> HIDE DEF g, m
<1>7. /\ page' = [nr |-> page.nr, open |-> page'.open, mates |-> m.mates, deleted |-> page.deleted, under |-> page.under]
      /\ page'.open = IF ok THEN O!Others(r) \cup {g} ELSE O!Others(r)
      /\ page'.mates = m.mates
    BY <1>5, <1>6
<1>8. OrgMeets(r) /\ page'.mates \in [0 .. MaxAsked -> SUBSET Int]
    BY <1>7, OrgMetMeets DEF m
<1>9. OrgLeads(r, next)
    BY <1>4, <1>7 DEF OrgLeads, OrgBecomes
<1> QED BY <1>7, <1>8, <1>9 DEF O!GoOrFail

LEMMA OrgCommitFacts ==
    ASSUME OrgShapes, NEW r \in page.open, NEW orgs, NEW gone \in SUBSET OrgIDs, O!Commit(r, orgs, gone)
    PROVE  /\ data' = [orgs |-> orgs, of |-> data.of, putBy |-> data.putBy]
           /\ OrgMeets(r)
           /\ page' = [nr |-> page.nr, open |-> O!Others(r), mates |-> page'.mates,
                       deleted |-> page'.deleted, under |-> page'.under]
           /\ page'.mates \in [0 .. MaxAsked -> SUBSET Int]
           /\ page'.deleted = [o \in OrgIDs |-> IF o \in gone THEN r.nr ELSE page.deleted[o]]
           /\ page'.under \in [0 .. MaxAsked -> SUBSET OrgIDs]
           /\ \A n \in 0 .. MaxAsked : page.under[n] \subseteq page'.under[n]
           /\ \A o \in O!Others(r) : o.at = O!First(o.f) => gone \subseteq page'.under[o.nr]
<1> DEFINE m == O!Met(r)
           d == [o \in OrgIDs |-> IF o \in gone THEN r.nr ELSE page.deleted[o]]
           u == [n \in 0 .. MaxAsked |->
                    IF \E o \in O!Others(r) : o.nr = n /\ o.at = O!First(o.f)
                    THEN page.under[n] \cup gone ELSE page.under[n]]
           k == [m EXCEPT !.deleted = d]
<1>1. m = [nr |-> page.nr, open |-> O!Others(r), mates |-> m.mates, deleted |-> page.deleted, under |-> page.under]
    BY OrgMetFacts
<1>2. page' = [m EXCEPT !.deleted = d, !.under = u]
    <2>1. /\ [o \in OrgIDs |-> IF o \in gone THEN r.nr ELSE m.deleted[o]] = d
          /\ DOMAIN m.under = 0 .. MaxAsked /\ m.under = page.under
        BY <1>1 DEF OrgShapes
    <2> HIDE DEF m
    <2>2. page' = [m EXCEPT
                    !.deleted = [o \in OrgIDs |-> IF o \in gone THEN r.nr ELSE m.deleted[o]],
                    !.under = [n \in DOMAIN m.under |->
                        IF \E o \in O!Others(r) : o.nr = n /\ o.at = O!First(o.f)
                        THEN m.under[n] \cup gone ELSE m.under[n]]]
        BY Zenon DEF O!Commit, m
    <2>3. [n \in DOMAIN m.under |->
                        IF \E o \in O!Others(r) : o.nr = n /\ o.at = O!First(o.f)
                        THEN m.under[n] \cup gone ELSE m.under[n]] = u
        BY <2>1
    <2> QED BY <2>1, <2>2, <2>3, Zenon
<1>3. k = [nr |-> page.nr, open |-> O!Others(r), mates |-> m.mates, deleted |-> d, under |-> page.under]
    <2> HIDE DEF m, d
    <2> QED BY <1>1
<1>4. page' = [k EXCEPT !.under = u]
    BY <1>2, Zenon
<1>5. /\ u \in [0 .. MaxAsked -> SUBSET OrgIDs]
      /\ \A n \in 0 .. MaxAsked : page.under[n] \subseteq u[n]
      /\ \A o \in O!Others(r) : o.at = O!First(o.f) => gone \subseteq u[o.nr]
    <2>1. \A o \in O!Others(r) : o.nr \in 0 .. MaxAsked
        BY DEF OrgShapes, OrgIsReq, O!Others
    <2> QED BY <2>1 DEF OrgShapes
<1> HIDE DEF u, k, d
<1>6. page' = [nr |-> page.nr, open |-> O!Others(r), mates |-> m.mates, deleted |-> d, under |-> u]
    <2> HIDE DEF m
    <2> QED BY <1>3, <1>4
<1>7. OrgMeets(r) /\ page'.mates \in [0 .. MaxAsked -> SUBSET Int]
    BY <1>6, OrgMetMeets
<1>8. data' = [orgs |-> orgs, of |-> data.of, putBy |-> data.putBy]
    BY DEF O!Commit, OrgShapes
<1> HIDE DEF m
<1> QED BY <1>5, <1>6, <1>7, <1>8 DEF d

-----------------------------------------------------------------------------
(* The invariant.                                                            *)

\* An organisation that n refers to is there, or was deleted while n did.
OrgKept(o, n) == o \in O!IDs \/ O!Lost(o, n)

OrgLeftInv ==
    /\ \A x \in data.orgs : x.par = ROOTNODE \/ OrgKept(x.par, x.by)
    /\ \A u \in UsrIDs : data.of[u] = None \/ OrgKept(data.of[u], data.putBy[u])
    /\ \A r \in page.open :
        /\ r.f.op \in OrgWrites => r.f.par = ROOTNODE \/ OrgKept(r.f.par, r.nr)
        /\ r.f.op = "saveUsr" => OrgKept(r.f.par, r.nr)

\* Whoever came into an organisation after delOrg had looked overlaps with it.
OrgLookedInv ==
    \A r \in page.open : r.f.op = "delOrg" =>
        /\ r.at # "usr" => \A u \in UsrIDs : data.of[u] = r.f.id => r.nr \in page.mates[data.putBy[u]]
        /\ r.at = "save" => \A x \in data.orgs : x.par = r.f.id => r.nr \in page.mates[x.by]

\* So does whoever took a code or a name after another had looked for it.
OrgBoth(p, q) == p \in page.mates[q] /\ q \in page.mates[p]
OrgFreeInv ==
    \A r \in page.open : r.f.op \in OrgWrites =>
        \A x \in data.orgs : x.id # r.f.id =>
            /\ r.at # "cod" /\ x.cod = r.f.cod => OrgBoth(r.nr, x.by)
            /\ r.at \notin {"cod", "nam"} /\ x.nam = r.f.nam => OrgBoth(r.nr, x.by)
OrgTwinInv ==
    \A x, y \in data.orgs : x.cod = y.cod \/ x.nam = y.nam => x = y \/ OrgBoth(x.by, y.by)

OrgInv == OrgShapes /\ OrgLeftInv /\ OrgLookedInv /\ OrgFreeInv /\ OrgTwinInv

-----------------------------------------------------------------------------
(* Steps that only read, and the end of a request that fails.                *)

\* What r has found out when it goes on to the step next.
OrgFinds(r, next) ==
    /\ r.f.op \in OrgWrites => next \in {"nam", "seq", "save"}
    /\ r.f.op = "delOrg" => next \in {"sub", "save"}
    /\ r.f.op = "saveUsr" => next = "save"
    /\ r.f.op = "delOrg" =>
        /\ r.at = "usr" => \A u \in UsrIDs : data.of[u] # r.f.id
        /\ next = "save" => r.at = "sub" /\ O!Sub(r.f.id) = {}
    /\ r.f.op \in OrgWrites =>
        /\ r.at = "cod" => next = "nam" /\ \A x \in data.orgs : x.cod = r.f.cod => x.id = r.f.id
        /\ r.at # "cod" => next # "nam"
        /\ r.at = "nam" => \A x \in data.orgs : x.nam = r.f.nam => x.id = r.f.id

LEMMA OrgReadKeeps ==
    ASSUME OrgInv, NEW r \in page.open, NEW next, OrgMeets(r), OrgLeads(r, next), data' = data,
           page'.open # O!Others(r) => OrgFinds(r, next),
           page' = [nr |-> page.nr, open |-> page'.open, mates |-> page'.mates,
                    deleted |-> page.deleted, under |-> page.under],
           page'.mates \in [0 .. MaxAsked -> SUBSET Int]
    PROVE  OrgInv'
<1> USE DEF OrgInv
<1>1. /\ page'.nr = page.nr /\ page'.deleted = page.deleted /\ page'.under = page.under
      /\ O!IDs' = O!IDs
    BY DEF O!IDs
<1>2. /\ \A x \in data.orgs : x.by \in 0 .. MaxAsked
      /\ \A u \in UsrIDs : data.putBy[u] \in 0 .. MaxAsked
      /\ \A o \in page.open : o.nr \in 0 .. MaxAsked
    BY DEF OrgShapes, OrgIsReq
<1>3. \A p, n : n \in 0 .. MaxAsked => (OrgKept(p, n) => OrgKept(p, n)')
    BY <1>1 DEF OrgKept, O!Lost, O!Overlapped, OrgMeets, OrgGrown
<1>4. \A p, n \in 0 .. MaxAsked : OrgBoth(p, n) => OrgBoth(p, n)'
    BY DEF OrgBoth, OrgMeets, OrgGrown
<1>5. ASSUME NEW n \in page'.open, n \notin O!Others(r)
      PROVE  OrgBecomes(r, next, n) /\ OrgFinds(r, next)
    BY <1>5 DEF OrgLeads
<1>r. /\ r.f.op \in OrgWrites => r.at \in {"cod", "nam", "seq", "save"}
      /\ r.f.op = "delOrg" => r.at \in {"usr", "sub", "save"}
      /\ r.nr \in 1 .. page.nr
    BY DEF OrgShapes, OrgIsReq
<1>6. OrgShapes'
    <2>1. ASSUME NEW n \in page'.open PROVE OrgIsReq(n)'
        <3>1. CASE n \in O!Others(r)
            BY <1>1, <3>1 DEF OrgShapes, OrgIsReq, O!Others
        <3>2. CASE n \notin O!Others(r)
            <4>1. OrgBecomes(r, next, n) /\ OrgFinds(r, next)
                BY <1>5, <3>2
            <4>2. OrgIsForm(r.f)
                BY DEF OrgShapes, OrgIsReq
            <4>3. OrgIsForm(n.f)
                BY <4>1, <4>2, OrgBecomesFacts, OrgBecomesShape DEF OrgIsForm
            <4> QED BY <1>1, <1>r, <4>1, <4>3, OrgBecomesFacts, OrgBecomesShape DEF OrgIsReq, OrgFinds, OrgWrites, OrgIsForm
        <3> QED BY <3>1, <3>2
    <2>2. \A n, o \in page'.open : n.nr = o.nr => n = o
        <3>1. CASE page'.open = O!Others(r)
            BY <3>1 DEF OrgShapes, O!Others
        <3>2. CASE \E n : OrgBecomes(r, next, n) /\ page'.open = O!Others(r) \cup {n}
            BY <3>2, OrgBecomesFacts DEF OrgShapes, O!Others
        <3> QED BY <3>1, <3>2 DEF OrgLeads
    <2> QED BY <1>1, <2>1, <2>2 DEF OrgShapes
<1>7. OrgLeftInv'
    <2>1. ASSUME NEW n \in page'.open
          PROVE  /\ n.f.op \in OrgWrites => n.f.par = ROOTNODE \/ OrgKept(n.f.par, n.nr)
                 /\ n.f.op = "saveUsr" => OrgKept(n.f.par, n.nr)
                 /\ n.nr \in 0 .. MaxAsked
        <3>1. CASE n \in O!Others(r)
            BY <1>2, <3>1 DEF OrgLeftInv, O!Others
        <3>2. CASE n \notin O!Others(r)
            <4>1. n.nr = r.nr /\ n.f.op = r.f.op /\ n.f.par = r.f.par
                BY <1>5, <3>2, OrgBecomesFacts
            <4> QED BY <1>2, <4>1 DEF OrgLeftInv
        <3> QED BY <3>1, <3>2
    <2> QED BY <1>2, <1>3, <2>1 DEF OrgLeftInv
<1>8. OrgLookedInv'
    <2> SUFFICES ASSUME NEW n \in page'.open, n.f.op = "delOrg"
                 PROVE  /\ n.at # "usr" => \A u \in UsrIDs : data.of[u] = n.f.id => n.nr \in page'.mates[data.putBy[u]]
                        /\ n.at = "save" => \A x \in data.orgs : x.par = n.f.id => n.nr \in page'.mates[x.by]
        BY DEF OrgLookedInv
    <2>1. CASE n \in O!Others(r)
        BY <1>2, <2>1 DEF OrgLookedInv, O!Others, OrgMeets, OrgGrown
    <2>2. CASE n \notin O!Others(r)
        <3>1. n.nr = r.nr /\ n.at = next /\ n.f.op = r.f.op /\ n.f.id = r.f.id /\ OrgFinds(r, next)
            BY <1>5, <2>2, OrgBecomesFacts
        <3>2. \A u \in UsrIDs : data.of[u] = r.f.id => r.nr \in page.mates[data.putBy[u]]
            BY <3>1 DEF OrgLookedInv, OrgFinds
        <3>3. next = "save" => \A x \in data.orgs : x.par # r.f.id
            BY <3>1 DEF OrgFinds, O!Sub
        <3> QED BY <1>2, <3>1, <3>2, <3>3 DEF OrgMeets, OrgGrown
    <2> QED BY <2>1, <2>2
<1>9. OrgFreeInv'
    <2> SUFFICES ASSUME NEW n \in page'.open, n.f.op \in OrgWrites,
                        NEW x \in data.orgs, x.id # n.f.id
                 PROVE  /\ n.at # "cod" /\ x.cod = n.f.cod => OrgBoth(n.nr, x.by)'
                        /\ n.at \notin {"cod", "nam"} /\ x.nam = n.f.nam => OrgBoth(n.nr, x.by)'
        BY DEF OrgFreeInv
    <2>1. CASE n \in O!Others(r)
        BY <1>2, <1>4, <2>1 DEF OrgFreeInv, O!Others
    <2>2. CASE n \notin O!Others(r)
        <3>1. /\ n.nr = r.nr /\ n.at = next /\ n.f.op = r.f.op /\ n.f.id = r.f.id
              /\ n.f.cod = r.f.cod /\ n.f.nam = r.f.nam /\ OrgFinds(r, next)
            BY <1>5, <2>2, OrgBecomesFacts
        <3>2. x.cod = r.f.cod => OrgBoth(r.nr, x.by)
            BY <3>1 DEF OrgFreeInv, OrgFinds
        <3>3. next # "nam" /\ x.nam = r.f.nam => OrgBoth(r.nr, x.by)
            BY <3>1, <1>r DEF OrgFreeInv, OrgFinds
        <3> QED BY <1>2, <1>4, <3>1, <3>2, <3>3 DEF OrgFinds
    <2> QED BY <2>1, <2>2
<1>10. OrgTwinInv'
    BY <1>2, <1>4 DEF OrgTwinInv
<1> QED BY <1>6, <1>7, <1>8, <1>9, <1>10

\* The queries of each method, up to where it fails or goes on.
LEMMA OrgFindKeeps ==
    ASSUME OrgInv, NEW r \in page.open,
           O!FindCod(r) \/ O!FindNam(r) \/ O!FindSeq(r) \/ O!FindUsr(r) \/ O!FindSub(r) \/ O!FindUsrCod(r)
    PROVE  OrgInv'
<1>1. /\ r.f.op \in OrgWrites => r.at \in {"cod", "nam", "seq", "save"}
      /\ r.f.op = "delOrg" => r.at \in {"usr", "sub", "save"}
      /\ r.f.op = "saveUsr" => r.at \in {"look", "save"}
      /\ r.f.op \in OrgWrites \cup {"delOrg", "saveUsr"}
    BY DEF OrgInv, OrgShapes, OrgIsReq, OrgIsForm
<1>2. ASSUME NEW n, NEW ok, NEW next, O!GoOrFail(n, ok, next),
             n = r \/ \E k : n = [r EXCEPT !.f.seq = k],
             ok => OrgFinds(r, next)
      PROVE  OrgInv'
    <2>1. page'.open # O!Others(r) => OrgFinds(r, next)
        BY <1>2, OrgGoOrFailFacts DEF OrgInv
    <2> QED BY <1>2, <2>1, OrgGoOrFailFacts, OrgReadKeeps DEF OrgInv
<1>3. CASE O!FindCod(r)
    <2> DEFINE ok == \A x \in data.orgs : x.cod = r.f.cod => x.id = r.f.id
    <2>1. ok => OrgFinds(r, "nam")
        BY <1>1, <1>3 DEF O!FindCod, OrgFinds, OrgWrites
    <2> QED BY <1>2, <1>3, <2>1 DEF O!FindCod
<1>4. CASE O!FindNam(r)
    <2> DEFINE ok   == (\A x \in data.orgs : x.nam = r.f.nam => x.id = r.f.id) /\ O!MayBeParent(r.f)
               next == IF r.f.op = "addOrg" /\ r.f.seq = NoNumber THEN "seq" ELSE "save"
    <2>1. ok => OrgFinds(r, next)
        BY <1>1, <1>4 DEF O!FindNam, OrgFinds, OrgWrites
    <2>2. O!GoOrFail(r, ok, next)
        BY <1>4 DEF O!FindNam
    <2> HIDE DEF ok, next
    <2> QED BY <1>2, <2>1, <2>2
<1>5. CASE O!FindSeq(r)
    <2>1. OrgFinds(r, "save")
        BY <1>1, <1>5 DEF O!FindSeq, OrgFinds, OrgWrites
    <2>2. PICK k : O!GoOrFail([r EXCEPT !.f.seq = k], TRUE, "save")
        BY <1>5, Zenon DEF O!FindSeq
    <2> DEFINE n == [r EXCEPT !.f.seq = k]
    <2>3. O!GoOrFail(n, TRUE, "save") /\ \E j : n = [r EXCEPT !.f.seq = j]
        BY <2>2, Zenon
    <2> HIDE DEF n
    <2> QED BY <1>2, <2>1, <2>3
<1>6. CASE O!FindUsr(r)
    <2> DEFINE ok == O!Nobody(r.f, "usr")
    <2>1. ok => OrgFinds(r, "sub")
        BY <1>1, <1>6 DEF O!FindUsr, OrgFinds, OrgWrites, O!Nobody
    <2> QED BY <1>2, <1>6, <2>1 DEF O!FindUsr
<1>7. CASE O!FindSub(r)
    <2> DEFINE ok == O!Nobody(r.f, "sub")
    <2>1. ok => OrgFinds(r, "save")
        BY <1>1, <1>7 DEF O!FindSub, OrgFinds, OrgWrites, O!Nobody
    <2> QED BY <1>2, <1>7, <2>1 DEF O!FindSub
<1>8. CASE O!FindUsrCod(r)
    <2>1. OrgFinds(r, "save")
        BY <1>1, <1>8 DEF O!FindUsrCod, OrgFinds, OrgWrites
    <2> QED BY <1>2, <1>8, <2>1 DEF O!FindUsrCod
<1> QED BY <1>3, <1>4, <1>5, <1>6, <1>7, <1>8

-----------------------------------------------------------------------------
(* A page is shown.                                                          *)

LEMMA OrgFormFacts ==
    ASSUME OrgInv, NEW f \in O!Forms
    PROVE  /\ OrgIsForm(f)
           /\ f.op \in OrgWrites => f.par = ROOTNODE \/ f.par \in O!IDs
           /\ f.op = "saveUsr" => f.par \in O!IDs
           /\ O!First(f) = IF f.op = "delOrg" THEN "usr" ELSE IF f.op = "saveUsr" THEN "look" ELSE "cod"
<1>1. O!SetTree(FALSE) \subseteq O!IDs /\ O!SetTree(TRUE) \subseteq O!IDs
    BY Zenon DEF O!SetTree
<1>2. O!IDs \subseteq OrgIDs /\ O!Fresh \subseteq OrgIDs
    BY DEF OrgInv, OrgShapes, O!IDs, O!Fresh
<1> DEFINE shown == O!SetTree(FALSE)
<1>3. \/ f \in [op : {"addOrg"}, id : O!Fresh, par : shown \cup {ROOTNODE},
              cod : OrgCods, nam : OrgNams, seq : O!Seqs]
      \/ f \in [op : {"modifyOrg"}, id : shown, par : O!SetTree(TRUE) \cup {ROOTNODE},
              cod : OrgCods, nam : OrgNams, seq : O!Seqs]
      \/ f \in [op : {"delOrg"}, id : {o \in shown : O!Sub(o) = {}}, par : {None},
              cod : {None}, nam : {None}, seq : {NoNumber}]
      \/ f \in [op : {"saveUsr"}, id : UsrIDs, par : shown,
              cod : {None}, nam : {None}, seq : {NoNumber}]
    BY DEF O!Forms
<1> HIDE DEF shown
<1>4. /\ f = [op |-> f.op, id |-> f.id, par |-> f.par, cod |-> f.cod, nam |-> f.nam, seq |-> f.seq]
      /\ \/ f.op = "addOrg" /\ f.id \in O!Fresh /\ f.par \in shown \cup {ROOTNODE}
         \/ f.op = "modifyOrg" /\ f.id \in shown /\ f.par \in O!SetTree(TRUE) \cup {ROOTNODE}
         \/ f.op = "delOrg" /\ f.id \in shown
         \/ f.op = "saveUsr" /\ f.id \in UsrIDs /\ f.par \in shown
    BY <1>3
<1> QED BY <1>1, <1>2, <1>4 DEF OrgIsForm, OrgWrites, O!First, shown

LEMMA OrgAskKeeps ==
    ASSUME OrgInv, O!Ask
    PROVE  OrgInv'
<1> USE DEF OrgInv
<1>1. PICK f \in O!Forms :
        page' = [page EXCEPT !.nr = @ + 1,
                    !.open = @ \cup {[nr |-> page.nr + 1, f |-> f, at |-> O!First(f)]}]
    BY DEF O!Ask
<1>n. PICK n : n = [nr |-> page.nr + 1, f |-> f, at |-> O!First(f)]
    OBVIOUS
<1>2. /\ page' = [nr |-> page.nr + 1, open |-> page.open \cup {n}, mates |-> page.mates,
                  deleted |-> page.deleted, under |-> page.under]
      /\ data' = data /\ O!IDs' = O!IDs
    <2>1. page = [nr |-> page.nr, open |-> page.open, mates |-> page.mates,
                  deleted |-> page.deleted, under |-> page.under]
        BY DEF OrgShapes
    <2> DEFINE k == [page EXCEPT !.nr = @ + 1]
    <2>2. k = [nr |-> page.nr + 1, open |-> page.open, mates |-> page.mates,
               deleted |-> page.deleted, under |-> page.under]
        BY <2>1
    <2>3. page' = [k EXCEPT !.open = page.open \cup {n}]
        BY <1>1, <1>n, Zenon
    <2> HIDE DEF k
    <2>4. page' = [nr |-> page.nr + 1, open |-> page.open \cup {n}, mates |-> page.mates,
                  deleted |-> page.deleted, under |-> page.under]
        BY <2>2, <2>3
    <2> QED BY <2>4 DEF O!Ask, O!IDs
<1>3. /\ OrgIsForm(f) /\ (f.op \in OrgWrites => f.par = ROOTNODE \/ f.par \in O!IDs)
      /\ f.op = "saveUsr" => f.par \in O!IDs
      /\ O!First(f) = IF f.op = "delOrg" THEN "usr" ELSE IF f.op = "saveUsr" THEN "look" ELSE "cod"
    BY OrgFormFacts
<1>4. page.nr < MaxAsked /\ page.nr \in Nat /\ MaxAsked \in Nat
    BY DEF O!Ask, OrgShapes
<1>5. n.nr = page.nr + 1 /\ n.f = f /\ n.at = O!First(f) /\ n = [nr |-> n.nr, f |-> n.f, at |-> n.at]
    BY <1>n
<1>6. /\ page'.nr = page.nr + 1 /\ page'.open = page.open \cup {n} /\ page'.mates = page.mates
      /\ page'.deleted = page.deleted /\ page'.under = page.under
      /\ page' = [nr |-> page'.nr, open |-> page'.open, mates |-> page'.mates,
                  deleted |-> page'.deleted, under |-> page'.under]
    BY <1>2
<1> HIDE <1>2
<1>7. \A p, m : (OrgKept(p, m) => OrgKept(p, m)') /\ (OrgBoth(p, m) => OrgBoth(p, m)')
    BY <1>2, <1>6 DEF OrgKept, O!Lost, O!Overlapped, OrgBoth
<1>d. data' = data /\ O!IDs' = O!IDs
    BY <1>2
<1>8. OrgShapes'
    <2>1. ASSUME NEW r \in page.open PROVE OrgIsReq(r)' /\ r.nr # n.nr
        BY <1>4, <1>5, <1>6 DEF OrgShapes, OrgIsReq, OrgIsForm
    <2>2. OrgIsReq(n)'
        <3>1. n.nr \in 1 .. page'.nr
            BY <1>4, <1>5, <1>6
        <3>2. OrgIsForm(n.f)' /\ n.f.op \in OrgWrites \cup {"delOrg", "saveUsr"} /\ "cod" # "usr"
            BY <1>3, <1>5 DEF OrgIsForm
        <3>3. n.at = IF n.f.op = "delOrg" THEN "usr" ELSE IF n.f.op = "saveUsr" THEN "look" ELSE "cod"
            BY <1>3, <1>5
        <3> QED BY <1>5, <3>1, <3>2, <3>3 DEF OrgIsReq, OrgWrites
    <2>3. \A r \in page'.open : OrgIsReq(r)'
        BY <1>6, <2>1, <2>2
    <2>4. \A r, o \in page'.open : r.nr = o.nr => r = o
        BY <1>6, <2>1 DEF OrgShapes
    <2>5. page'.nr \in 0 .. MaxAsked
        BY <1>4, <1>6
    <2>6. data' = data
        BY DEF O!Ask
    <2> QED BY <1>6, <2>3, <2>4, <2>5, <2>6 DEF OrgShapes
<1>9. OrgLeftInv'
    <2>1. /\ n.f.op \in OrgWrites => n.f.par = ROOTNODE \/ OrgKept(n.f.par, n.nr)'
          /\ n.f.op = "saveUsr" => OrgKept(n.f.par, n.nr)'
        BY <1>d, <1>3, <1>5 DEF OrgKept
    <2>2. ASSUME NEW r \in page.open
          PROVE  /\ r.f.op \in OrgWrites => r.f.par = ROOTNODE \/ OrgKept(r.f.par, r.nr)'
                 /\ r.f.op = "saveUsr" => OrgKept(r.f.par, r.nr)'
        BY <1>7 DEF OrgLeftInv
    <2>3. /\ \A x \in data.orgs : x.par = ROOTNODE \/ OrgKept(x.par, x.by)'
          /\ \A u \in UsrIDs : data.of[u] = None \/ OrgKept(data.of[u], data.putBy[u])'
        BY <1>d, <1>7 DEF OrgLeftInv
    <2> QED BY <1>d, <1>6, <2>1, <2>2, <2>3 DEF OrgLeftInv
<1>10. OrgLookedInv' /\ OrgFreeInv' /\ OrgTwinInv'
    BY <1>d, <1>3, <1>5, <1>6, <1>7 DEF OrgLookedInv, OrgFreeInv, OrgTwinInv, OrgWrites
<1> QED BY <1>8, <1>9, <1>10

-----------------------------------------------------------------------------
(* Commits.                                                                  *)

\* What a commit that deletes nothing leaves true.
LEMMA OrgNothingGone ==
    ASSUME OrgInv, OrgGrown, NEW r \in page.open,
           page'.deleted = [o \in OrgIDs |-> IF o \in {} THEN r.nr ELSE page.deleted[o]],
           \A n \in 0 .. MaxAsked : page.under[n] \subseteq page'.under[n],
           O!IDs \subseteq O!IDs'
    PROVE  /\ \A o \in OrgIDs, n \in 0 .. MaxAsked : OrgKept(o, n) => OrgKept(o, n)'
           /\ \A p, n \in 0 .. MaxAsked : OrgBoth(p, n) => OrgBoth(p, n)'
<1>1. \A o \in OrgIDs : page'.deleted[o] = page.deleted[o]
    OBVIOUS
<1> QED BY <1>1 DEF OrgKept, O!Lost, O!Overlapped, OrgBoth, OrgGrown

\* The ranges a commit needs to know.
LEMMA OrgRanges ==
    ASSUME OrgInv
    PROVE  /\ \A x \in data.orgs : x.id \in OrgIDs /\ x.by \in 0 .. MaxAsked /\ x.par \in OrgIDs \cup {ROOTNODE}
           /\ \A u \in UsrIDs : data.of[u] \in OrgIDs \cup {None} /\ data.putBy[u] \in 0 .. MaxAsked
           /\ \A r \in page.open :
                /\ r.nr \in 0 .. MaxAsked
                /\ r.f.op \in OrgWrites => r.f.id \in OrgIDs /\ r.f.par \in OrgIDs \cup {ROOTNODE}
                /\ r.f.op = "delOrg" => r.f.id \in OrgIDs
                /\ r.f.op = "saveUsr" => r.f.id \in UsrIDs /\ r.f.par \in OrgIDs
                /\ r.at # O!First(r.f) <=>
                     r.at # IF r.f.op = "delOrg" THEN "usr" ELSE IF r.f.op = "saveUsr" THEN "look" ELSE "cod"
<1>1. ASSUME NEW r \in page.open
      PROVE  /\ r.nr \in 1 .. page.nr /\ OrgIsForm(r.f)
             /\ r.f.op \in OrgWrites \cup {"delOrg", "saveUsr"}
    BY DEF OrgInv, OrgShapes, OrgIsReq, OrgIsForm
<1>2. page.nr \in 0 .. MaxAsked /\ MaxAsked \in Nat
    BY DEF OrgInv, OrgShapes
<1>3. ASSUME NEW r \in page.open PROVE r.nr \in 0 .. MaxAsked
    BY <1>1, <1>2
<1>4. ASSUME NEW r \in page.open
      PROVE  /\ r.f.op \in OrgWrites => r.f.id \in OrgIDs /\ r.f.par \in OrgIDs \cup {ROOTNODE}
             /\ r.f.op = "delOrg" => r.f.id \in OrgIDs
             /\ r.f.op = "saveUsr" => r.f.id \in UsrIDs /\ r.f.par \in OrgIDs
    BY <1>1 DEF OrgIsForm
<1>5. /\ \A x \in data.orgs : x.id \in OrgIDs /\ x.by \in 0 .. MaxAsked /\ x.par \in OrgIDs \cup {ROOTNODE}
      /\ \A u \in UsrIDs : data.of[u] \in OrgIDs \cup {None} /\ data.putBy[u] \in 0 .. MaxAsked
    BY DEF OrgInv, OrgShapes
<1> QED BY <1>3, <1>4, <1>5 DEF O!First

\* The requests that stay open are what they were.
LEMMA OrgOpenShapes ==
    ASSUME OrgInv, NEW r \in page.open, page'.nr = page.nr, page'.open = O!Others(r)
    PROVE  /\ \A o \in page'.open : OrgIsReq(o)'
           /\ \A p, o \in page'.open : p.nr = o.nr => p = o
BY DEF OrgInv, OrgShapes, OrgIsReq, O!Others

LEMMA OrgSaveOrgKeeps ==
    ASSUME OrgInv, NEW r \in page.open, O!SaveOrg(r)
    PROVE  OrgInv'
<1> USE DEF OrgInv
<1> DEFINE old  == {x \in data.orgs : x.id = r.f.id}
           orgs == (data.orgs \ old) \cup {O!Row(r)}
<1>1. CASE O!GoOrFail(r, FALSE, "save")
    <2>1. page'.open = O!Others(r)
        BY <1>1, OrgGoOrFailFacts
    <2> QED BY <1>1, <2>1, OrgGoOrFailFacts, OrgReadKeeps
<1>2. CASE O!Commit(r, orgs, {})
    <2>1. /\ data'.orgs = orgs /\ data'.of = data.of /\ data'.putBy = data.putBy
          /\ data' = [orgs |-> data'.orgs, of |-> data'.of, putBy |-> data'.putBy]
        <3> HIDE DEF orgs
        <3>0. {} \in SUBSET OrgIDs
            OBVIOUS
        <3>1. data' = [orgs |-> orgs, of |-> data.of, putBy |-> data.putBy]
            BY <1>2, <3>0, OrgCommitFacts
        <3> QED BY <3>1
    <2>2. /\ OrgMeets(r) /\ OrgGrown
          /\ page' = [nr |-> page.nr, open |-> O!Others(r), mates |-> page'.mates,
                      deleted |-> page'.deleted, under |-> page'.under]
          /\ page'.mates \in [0 .. MaxAsked -> SUBSET Int]
          /\ page'.deleted = [o \in OrgIDs |-> IF o \in {} THEN r.nr ELSE page.deleted[o]]
          /\ page'.under \in [0 .. MaxAsked -> SUBSET OrgIDs]
          /\ \A n \in 0 .. MaxAsked : page.under[n] \subseteq page'.under[n]
        BY <1>2, OrgCommitFacts DEF OrgMeets
    <2>3. page'.nr = page.nr /\ page'.open = O!Others(r)
        BY <2>2
    <2>4. /\ r.f.op \in OrgWrites /\ r.at = "save" /\ r.nr \in 0 .. MaxAsked
          /\ r.f.id \in OrgIDs /\ r.f.par \in OrgIDs \cup {ROOTNODE}
        BY OrgRanges DEF O!SaveOrg, OrgWrites
    <2>5. PICK new : /\ new.id = r.f.id /\ new.par = r.f.par /\ new.by = r.nr
                     /\ new.cod = r.f.cod /\ new.nam = r.f.nam
                     /\ data'.orgs = {x \in data.orgs : x.id # r.f.id} \cup {new}
        <3>1. data'.orgs = {x \in data.orgs : x.id # r.f.id} \cup {O!Row(r)}
            BY <2>1
        <3> QED BY <3>1 DEF O!Row
    <2> HIDE DEF orgs, old
    <2>6. O!IDs \subseteq O!IDs'
        BY <2>5 DEF O!IDs
    <2>7. /\ \A o \in OrgIDs, n \in 0 .. MaxAsked : OrgKept(o, n) => OrgKept(o, n)'
          /\ \A p, n \in 0 .. MaxAsked : OrgBoth(p, n) => OrgBoth(p, n)'
        BY <2>2, <2>6, OrgNothingGone
    <2>8. OrgShapes'
        <3>1. page'.deleted \in [OrgIDs -> Int]
            BY <2>2 DEF OrgShapes
        <3>2. \A x \in data'.orgs : x.id \in OrgIDs /\ x.par \in OrgIDs \cup {ROOTNODE} /\ x.by \in 0 .. MaxAsked
            BY <2>4, <2>5, OrgRanges
        <3>3. /\ \A o \in page'.open : OrgIsReq(o)'
              /\ \A p, o \in page'.open : p.nr = o.nr => p = o
            BY <2>3, OrgOpenShapes
        <3> QED BY <2>1, <2>2, <2>3, <3>1, <3>2, <3>3 DEF OrgShapes
    <2>9. OrgLeftInv'
        <3>1. ASSUME NEW x \in data'.orgs PROVE x.par = ROOTNODE \/ OrgKept(x.par, x.by)'
            BY <2>4, <2>5, <2>7, OrgRanges DEF OrgLeftInv
        <3>2. ASSUME NEW u \in UsrIDs PROVE data.of[u] = None \/ OrgKept(data.of[u], data.putBy[u])'
            <4>1. data'.of[u] = data.of[u] /\ data'.putBy[u] = data.putBy[u]
                BY <2>1
            <4>2. data.of[u] = None \/ data.of[u] \in OrgIDs
                BY OrgRanges
            <4>3. data.putBy[u] \in 0 .. MaxAsked
                BY OrgRanges
            <4>4. data.of[u] = None \/ OrgKept(data.of[u], data.putBy[u])
                BY DEF OrgLeftInv
            <4> QED BY <2>7, <4>1, <4>2, <4>3, <4>4
        <3>3. ASSUME NEW o \in page'.open
              PROVE  /\ o.f.op \in OrgWrites => o.f.par = ROOTNODE \/ OrgKept(o.f.par, o.nr)'
                     /\ o.f.op = "saveUsr" => OrgKept(o.f.par, o.nr)'
            BY <2>3, <2>7, OrgRanges DEF OrgLeftInv, O!Others
        <3> QED BY <2>1, <3>1, <3>2, <3>3 DEF OrgLeftInv
    <2>10. OrgLookedInv'
        <3> SUFFICES ASSUME NEW o \in O!Others(r), o.f.op = "delOrg"
                     PROVE  /\ o.at # "usr" => \A u \in UsrIDs : data.of[u] = o.f.id => o.nr \in page'.mates[data.putBy[u]]
                            /\ o.at = "save" => \A x \in data'.orgs : x.par = o.f.id => o.nr \in page'.mates[x.by]
            BY <2>1, <2>3 DEF OrgLookedInv
        <3>1. o \in page.open
            BY DEF O!Others
        <3>2. o.at = "save" => o.nr \in page'.mates[r.nr]
            BY <2>2, <3>1, OrgRanges DEF OrgMeets
        <3> QED BY <2>2, <2>5, <3>1, <3>2, OrgRanges DEF OrgLookedInv, OrgGrown
    <2>11. OrgFreeInv'
        <3> SUFFICES ASSUME NEW o \in O!Others(r), o.f.op \in OrgWrites, NEW x \in data'.orgs, x.id # o.f.id
                     PROVE  /\ o.at # "cod" /\ x.cod = o.f.cod => OrgBoth(o.nr, x.by)'
                            /\ o.at \notin {"cod", "nam"} /\ x.nam = o.f.nam => OrgBoth(o.nr, x.by)'
            BY <2>3 DEF OrgFreeInv
        <3>1. o \in page.open
            BY DEF O!Others
        <3>2. o.at # "cod" => OrgBoth(o.nr, r.nr)'
            BY <2>2, <3>1, OrgRanges DEF OrgMeets, OrgBoth, OrgWrites
        <3>3. CASE x \in data.orgs
            BY <2>7, <3>1, <3>3, OrgRanges DEF OrgFreeInv
        <3>4. CASE x = new
            BY <2>5, <3>2, <3>4
        <3> QED BY <2>5, <3>3, <3>4
    <2>12. OrgTwinInv'
        <3>1. ASSUME NEW x \in data.orgs, x.id # r.f.id, x.cod = new.cod \/ x.nam = new.nam
              PROVE  OrgBoth(r.nr, x.by)'
            BY <2>4, <2>5, <2>7, <3>1, OrgRanges DEF OrgFreeInv
        <3>2. ASSUME NEW x \in data.orgs, NEW y \in data.orgs, x.cod = y.cod \/ x.nam = y.nam, x # y
              PROVE  OrgBoth(x.by, y.by)'
            BY <2>7, <3>2, OrgRanges DEF OrgTwinInv
        <3>3. \A p, n : OrgBoth(p, n)' => OrgBoth(n, p)'
            BY DEF OrgBoth
        <3> QED BY <2>5, <3>1, <3>2, <3>3 DEF OrgTwinInv
    <2> QED BY <2>8, <2>9, <2>10, <2>11, <2>12
<1> QED BY <1>1, <1>2 DEF O!SaveOrg

\* delOrg leaves behind only what came while it ran, or from a page shown before.
LEMMA OrgDelOrgKeeps ==
    ASSUME OrgInv, NEW r \in page.open, O!DelOrg(r)
    PROVE  OrgInv'
<1> USE DEF OrgInv
<1> DEFINE orgs == {x \in data.orgs : x.id # r.f.id}
           gone == {r.f.id} \cap O!IDs
<1>1. r.f.op = "delOrg" /\ r.at = "save" /\ r.nr \in 0 .. MaxAsked /\ r.f.id \in OrgIDs
    BY OrgRanges DEF O!DelOrg
<1>2. O!Commit(r, orgs, gone) /\ gone \in SUBSET OrgIDs
    BY <1>1 DEF O!DelOrg
<1>3. /\ data'.orgs = orgs /\ data'.of = data.of /\ data'.putBy = data.putBy
      /\ data' = [orgs |-> data'.orgs, of |-> data'.of, putBy |-> data'.putBy]
    <2> HIDE DEF orgs, gone
    <2>1. data' = [orgs |-> orgs, of |-> data.of, putBy |-> data.putBy]
        BY <1>2, OrgCommitFacts
    <2> QED BY <2>1
<1>4. /\ OrgMeets(r) /\ OrgGrown
      /\ page' = [nr |-> page.nr, open |-> O!Others(r), mates |-> page'.mates,
                  deleted |-> page'.deleted, under |-> page'.under]
      /\ page'.mates \in [0 .. MaxAsked -> SUBSET Int]
      /\ page'.deleted = [o \in OrgIDs |-> IF o \in gone THEN r.nr ELSE page.deleted[o]]
      /\ page'.under \in [0 .. MaxAsked -> SUBSET OrgIDs]
      /\ \A n \in 0 .. MaxAsked : page.under[n] \subseteq page'.under[n]
      /\ \A o \in O!Others(r) : o.at = O!First(o.f) => gone \subseteq page'.under[o.nr]
    <2> HIDE DEF orgs, gone
    <2> QED BY <1>2, OrgCommitFacts DEF OrgMeets
<1>5. page'.nr = page.nr /\ page'.open = O!Others(r)
    BY <1>4
<1>6. O!IDs' = O!IDs \ {r.f.id} /\ data'.orgs \subseteq data.orgs
    BY <1>3 DEF O!IDs
<1>7. \A p, n \in 0 .. MaxAsked : OrgBoth(p, n) => OrgBoth(p, n)'
    BY <1>4 DEF OrgBoth, OrgGrown
\* What referred to the organisation keeps its reason.
<1>8. ASSUME NEW o \in OrgIDs, NEW n \in 0 .. MaxAsked, OrgKept(o, n),
             o = r.f.id /\ o \in O!IDs => r.nr \in page'.mates[n] \/ o \in page'.under[n]
      PROVE  OrgKept(o, n)'
    <2>1. CASE o \in gone
        <3>1. page'.deleted[o] = r.nr
            BY <1>4, <2>1
        <3> QED BY <1>8, <2>1, <3>1 DEF OrgKept, O!Lost, O!Overlapped
    <2>2. CASE o \notin gone
        <3>1. page'.deleted[o] = page.deleted[o]
            BY <1>4, <2>2
        <3>2. o \in O!IDs => o \in O!IDs'
            BY <1>6, <2>2
        <3> HIDE DEF gone
        <3> QED BY <1>4, <1>8, <3>1, <3>2 DEF OrgKept, O!Lost, O!Overlapped, OrgGrown
    <2> QED BY <2>1, <2>2
<1> HIDE DEF orgs
<1>9. OrgShapes'
    <2>1. page'.deleted \in [OrgIDs -> Int]
        BY <1>1, <1>4 DEF OrgShapes
    <2>2. /\ \A o \in page'.open : OrgIsReq(o)'
          /\ \A p, o \in page'.open : p.nr = o.nr => p = o
        BY <1>5, OrgOpenShapes
    <2> QED BY <1>3, <1>4, <1>5, <1>6, <2>1, <2>2 DEF OrgShapes
<1>10. OrgLeftInv'
    <2>1. ASSUME NEW x \in data'.orgs PROVE x.par = ROOTNODE \/ OrgKept(x.par, x.by)'
        <3>1. x.par = ROOTNODE \/ OrgKept(x.par, x.by)
            BY <1>6 DEF OrgLeftInv
        <3>2. x.par = r.f.id => r.nr \in page'.mates[x.by]
            BY <1>1, <1>4, <1>6, OrgRanges DEF OrgLookedInv, OrgGrown
        <3>3. x.by \in 0 .. MaxAsked /\ x.par \in OrgIDs \cup {ROOTNODE}
            BY <1>6, OrgRanges
        <3> QED BY <1>8, <3>1, <3>2, <3>3
    <2>2. ASSUME NEW u \in UsrIDs PROVE data.of[u] = None \/ OrgKept(data.of[u], data.putBy[u])'
        <3>1. data'.of[u] = data.of[u] /\ data'.putBy[u] = data.putBy[u]
            BY <1>3
        <3>2. data.of[u] = None \/ OrgKept(data.of[u], data.putBy[u])
            BY DEF OrgLeftInv
        <3>3. data.putBy[u] \in 0 .. MaxAsked /\ (data.of[u] = None \/ data.of[u] \in OrgIDs)
            BY OrgRanges
        <3>4. data.of[u] = r.f.id => r.nr \in page'.mates[data.putBy[u]]
            BY <1>1, <1>4, <3>3 DEF OrgLookedInv, OrgGrown
        <3> QED BY <1>8, <3>1, <3>2, <3>3, <3>4
    <2>3. ASSUME NEW o \in page'.open
          PROVE  /\ o.f.op \in OrgWrites => o.f.par = ROOTNODE \/ OrgKept(o.f.par, o.nr)'
                 /\ o.f.op = "saveUsr" => OrgKept(o.f.par, o.nr)'
        <3>1. o \in page.open /\ o \in O!Others(r) /\ o.nr \in 0 .. MaxAsked
            BY <1>5, OrgRanges DEF O!Others
        <3>2. r.f.id \in O!IDs => r.nr \in page'.mates[o.nr] \/ r.f.id \in page'.under[o.nr]
            BY <1>4, <3>1 DEF OrgMeets
        <3>3. /\ o.f.op \in OrgWrites => o.f.par \in OrgIDs \cup {ROOTNODE}
              /\ o.f.op = "saveUsr" => o.f.par \in OrgIDs
            BY <3>1, OrgRanges
        <3>4. /\ o.f.op \in OrgWrites => o.f.par = ROOTNODE \/ OrgKept(o.f.par, o.nr)
              /\ o.f.op = "saveUsr" => OrgKept(o.f.par, o.nr)
            BY <3>1 DEF OrgLeftInv
        <3> QED BY <1>8, <3>1, <3>2, <3>3, <3>4
    <2> QED BY <1>3, <2>1, <2>2, <2>3 DEF OrgLeftInv
<1>11. OrgLookedInv'
    <2> SUFFICES ASSUME NEW o \in O!Others(r), o.f.op = "delOrg"
                 PROVE  /\ o.at # "usr" => \A u \in UsrIDs : data.of[u] = o.f.id => o.nr \in page'.mates[data.putBy[u]]
                        /\ o.at = "save" => \A x \in data'.orgs : x.par = o.f.id => o.nr \in page'.mates[x.by]
        BY <1>3, <1>5 DEF OrgLookedInv
    <2>1. o \in page.open
        BY DEF O!Others
    <2> QED BY <1>4, <1>6, <2>1, OrgRanges DEF OrgLookedInv, OrgGrown
<1>12. OrgFreeInv'
    <2> SUFFICES ASSUME NEW o \in O!Others(r), o.f.op \in OrgWrites, NEW x \in data.orgs, x.id # o.f.id
                 PROVE  /\ o.at # "cod" /\ x.cod = o.f.cod => OrgBoth(o.nr, x.by)'
                        /\ o.at \notin {"cod", "nam"} /\ x.nam = o.f.nam => OrgBoth(o.nr, x.by)'
        BY <1>5, <1>6 DEF OrgFreeInv
    <2>1. o \in page.open
        BY DEF O!Others
    <2> QED BY <1>7, <2>1, OrgRanges DEF OrgFreeInv
<1>13. OrgTwinInv'
    BY <1>6, <1>7, OrgRanges DEF OrgTwinInv
<1> QED BY <1>9, <1>10, <1>11, <1>12, <1>13

LEMMA OrgSaveUsrKeeps ==
    ASSUME OrgInv, NEW r \in page.open, O!SaveUsr(r)
    PROVE  OrgInv'
<1> USE DEF OrgInv
<1>1. r.f.op = "saveUsr" /\ r.at = "save" /\ r.nr \in 0 .. MaxAsked /\ r.f.id \in UsrIDs /\ r.f.par \in OrgIDs
    <2>1. r.f.op \in OrgWrites \cup {"delOrg", "saveUsr"} /\ r.at = "save" /\ page' = O!Met(r)
        BY DEF OrgShapes, OrgIsReq, OrgIsForm, O!SaveUsr
    <2> QED BY <2>1, OrgRanges DEF O!SaveUsr
<1>2. /\ data'.orgs = data.orgs
      /\ data'.of = [u \in UsrIDs |-> IF u = r.f.id THEN r.f.par ELSE data.of[u]]
      /\ data'.putBy = [u \in UsrIDs |-> IF u = r.f.id THEN r.nr ELSE data.putBy[u]]
      /\ data' = [orgs |-> data'.orgs, of |-> data'.of, putBy |-> data'.putBy]
    <2> DEFINE of    == [data.of EXCEPT ![r.f.id] = r.f.par]
               putBy == [data.putBy EXCEPT ![r.f.id] = r.nr]
               k     == [data EXCEPT !.of = of]
    <2>1. k = [orgs |-> data.orgs, of |-> of, putBy |-> data.putBy]
        <3> HIDE DEF of
        <3>1. data = [orgs |-> data.orgs, of |-> data.of, putBy |-> data.putBy]
            BY DEF OrgShapes
        <3> QED BY <3>1
    <2>2. data' = [k EXCEPT !.putBy = putBy]
        <3>1. data' = [data EXCEPT !.of[r.f.id] = r.f.par, !.putBy[r.f.id] = r.nr]
            BY DEF O!SaveUsr
        <3>2. k.putBy = data.putBy
            BY <2>1
        <3> QED BY <3>1, <3>2, Zenon
    <2>3. /\ of = [u \in UsrIDs |-> IF u = r.f.id THEN r.f.par ELSE data.of[u]]
          /\ putBy = [u \in UsrIDs |-> IF u = r.f.id THEN r.nr ELSE data.putBy[u]]
        BY <1>1 DEF OrgShapes
    <2> HIDE DEF of, putBy, k
    <2>4. data' = [orgs |-> data.orgs, of |-> of, putBy |-> putBy]
        BY <2>1, <2>2
    <2> QED BY <2>3, <2>4
<1>3. /\ OrgMeets(r) /\ OrgGrown
      /\ page' = [nr |-> page.nr, open |-> O!Others(r), mates |-> page'.mates,
                  deleted |-> page.deleted, under |-> page.under]
      /\ page'.mates \in [0 .. MaxAsked -> SUBSET Int]
    <2>0. page' = O!Met(r)
        BY DEF O!SaveUsr
    <2>1. page'.mates = O!Met(r).mates
        BY <2>0
    <2>2. O!Met(r) = [nr |-> page.nr, open |-> O!Others(r), mates |-> O!Met(r).mates,
                    deleted |-> page.deleted, under |-> page.under]
        BY OrgMetFacts
    <2>3. OrgMeets(r) /\ page'.mates \in [0 .. MaxAsked -> SUBSET Int]
        BY <2>1, OrgMetMeets
    <2> QED BY <2>0, <2>1, <2>2, <2>3 DEF OrgMeets
<1>4. /\ page'.nr = page.nr /\ page'.open = O!Others(r) /\ page'.deleted = page.deleted
      /\ page'.under = page.under /\ O!IDs' = O!IDs
    BY <1>2, <1>3 DEF O!IDs
<1>5. /\ \A o \in OrgIDs, n \in 0 .. MaxAsked : OrgKept(o, n) => OrgKept(o, n)'
      /\ \A p, n \in 0 .. MaxAsked : OrgBoth(p, n) => OrgBoth(p, n)'
    BY <1>3, <1>4 DEF OrgKept, O!Lost, O!Overlapped, OrgBoth, OrgGrown
<1>6. OrgShapes'
    <2>1. /\ \A o \in page'.open : OrgIsReq(o)'
          /\ \A p, o \in page'.open : p.nr = o.nr => p = o
        BY <1>4, OrgOpenShapes
    <2>2. /\ data'.of \in [UsrIDs -> OrgIDs \cup {None}]
          /\ data'.putBy \in [UsrIDs -> 0 .. MaxAsked]
        BY <1>1, <1>2 DEF OrgShapes
    <2> QED BY <1>2, <1>3, <1>4, <2>1, <2>2 DEF OrgShapes
<1>7. OrgLeftInv'
    <2>1. ASSUME NEW x \in data.orgs PROVE x.par = ROOTNODE \/ OrgKept(x.par, x.by)'
        BY <1>5, OrgRanges DEF OrgLeftInv
    <2>2. ASSUME NEW u \in UsrIDs PROVE data'.of[u] = None \/ OrgKept(data.of[u], data.putBy[u])'
        <3>1. CASE u = r.f.id
            BY <1>1, <1>2, <1>5, <3>1 DEF OrgLeftInv
        <3>2. CASE u # r.f.id
            <4>1. data'.of[u] = data.of[u] /\ data'.putBy[u] = data.putBy[u]
                BY <1>2, <3>2
            <4>2. data.of[u] = None \/ OrgKept(data.of[u], data.putBy[u])
                BY DEF OrgLeftInv
            <4>3. data.putBy[u] \in 0 .. MaxAsked /\ (data.of[u] = None \/ data.of[u] \in OrgIDs)
                BY OrgRanges
            <4> QED BY <1>5, <4>1, <4>2, <4>3
        <3> QED BY <3>1, <3>2
    <2>3. ASSUME NEW o \in page'.open
          PROVE  /\ o.f.op \in OrgWrites => o.f.par = ROOTNODE \/ OrgKept(o.f.par, o.nr)'
                 /\ o.f.op = "saveUsr" => OrgKept(o.f.par, o.nr)'
        BY <1>4, <1>5, OrgRanges DEF OrgLeftInv, O!Others
    <2> QED BY <1>2, <2>1, <2>2, <2>3 DEF OrgLeftInv
<1>8. OrgLookedInv'
    <2> SUFFICES ASSUME NEW o \in O!Others(r), o.f.op = "delOrg"
                 PROVE  /\ o.at # "usr" => \A u \in UsrIDs : data'.of[u] = o.f.id => o.nr \in page'.mates[data'.putBy[u]]
                        /\ o.at = "save" => \A x \in data.orgs : x.par = o.f.id => o.nr \in page'.mates[x.by]
        BY <1>2, <1>4 DEF OrgLookedInv
    <2>1. o \in page.open
        BY DEF O!Others
    <2>2. o.at # "usr" => o.nr \in page'.mates[r.nr]
        BY <1>3, <2>1, OrgRanges DEF OrgMeets
    <2> QED BY <1>2, <1>3, <2>1, <2>2, OrgRanges DEF OrgLookedInv, OrgGrown
<1>9. OrgFreeInv' /\ OrgTwinInv'
    <2>1. OrgFreeInv'
        <3> SUFFICES ASSUME NEW o \in O!Others(r), o.f.op \in OrgWrites, NEW x \in data.orgs, x.id # o.f.id
                     PROVE  /\ o.at # "cod" /\ x.cod = o.f.cod => OrgBoth(o.nr, x.by)'
                            /\ o.at \notin {"cod", "nam"} /\ x.nam = o.f.nam => OrgBoth(o.nr, x.by)'
            BY <1>2, <1>4 DEF OrgFreeInv
        <3>1. o \in page.open
            BY DEF O!Others
        <3> QED BY <1>5, <3>1, OrgRanges DEF OrgFreeInv
    <2> QED BY <1>2, <1>5, <2>1, OrgRanges DEF OrgTwinInv
<1> QED BY <1>6, <1>7, <1>8, <1>9

-----------------------------------------------------------------------------
(* The start, and the theorems.                                              *)

LEMMA OrgStepKeeps ==
    ASSUME OrgInv, O!Next \/ (data' = data /\ page' = page)
    PROVE  OrgInv'
<1>1. CASE O!Ask
    BY <1>1, OrgAskKeeps
<1>2. ASSUME NEW r \in page.open, O!Run(r)
      PROVE  OrgInv'
    BY <1>2, OrgFindKeeps, OrgSaveOrgKeeps, OrgDelOrgKeeps, OrgSaveUsrKeeps DEF O!Run
<1>3. CASE data' = data /\ page' = page
    BY <1>3 DEF OrgInv, OrgShapes, OrgIsReq, OrgIsForm, OrgLeftInv, OrgLookedInv, OrgFreeInv, OrgTwinInv,
                OrgKept, O!Lost, O!Overlapped, OrgBoth, O!IDs
<1> QED BY <1>1, <1>2, <1>3 DEF O!Next

\* A step that is taken n times, for every n up to a number.
LEMMA StepsAreDefined ==
    ASSUME NEW N \in Nat, NEW S, NEW a \in S, NEW u \in [S -> S]
    PROVE  \E f : f \in [0 .. N -> S] /\ f = [n \in 0 .. N |-> IF n = 0 THEN a ELSE u[f[n - 1]]]
<1> DEFINE Steps(f, k) == f \in [0 .. k -> S] /\ f = [n \in 0 .. k |-> IF n = 0 THEN a ELSE u[f[n - 1]]]
           Good(k) == \E f : Steps(f, k)
           Bad == {k \in Nat : ~Good(k)}
<1>1. Good(0)
    <2> DEFINE f == [n \in 0 .. 0 |-> a]
    <2>1. f \in [0 .. 0 -> S]
        OBVIOUS
    <2>2. f = [n \in 0 .. 0 |-> IF n = 0 THEN a ELSE u[f[n - 1]]]
        <3>1. \A n \in 0 .. 0 : n = 0
            OBVIOUS
        <3> QED BY <3>1
    <2> QED BY <2>1, <2>2
<1>2. ASSUME NEW k \in Nat, Good(k) PROVE Good(k + 1)
    <2>1. PICK f : Steps(f, k)
        BY <1>2
    <2> DEFINE h == [n \in 0 .. k + 1 |-> IF n \in 0 .. k THEN f[n] ELSE u[f[k]]]
    <2>2. \A n \in 0 .. k + 1 : n \in 0 .. k \/ n = k + 1
        OBVIOUS
    <2>3. k \in 0 .. k /\ k + 1 \notin 0 .. k /\ k + 1 \in 0 .. k + 1 /\ k \in 0 .. k + 1 /\ k + 1 # 0 /\ (k + 1) - 1 = k
        OBVIOUS
    <2>4. h \in [0 .. k + 1 -> S]
        BY <2>1, <2>3
    <2>5. \A n \in 0 .. k : n \in 0 .. k + 1 /\ h[n] = f[n]
        OBVIOUS
    <2>6. h[k + 1] = u[f[k]]
        BY <2>3
    <2>7. ASSUME NEW n \in 0 .. k + 1 PROVE h[n] = IF n = 0 THEN a ELSE u[h[n - 1]]
        <3>1. CASE n \in 0 .. k
            <4>1. n = 0 \/ n - 1 \in 0 .. k
                BY <3>1
            <4>2. f[n] = IF n = 0 THEN a ELSE u[f[n - 1]]
                BY <2>1, <3>1
            <4> HIDE DEF h
            <4> QED BY <2>5, <3>1, <4>1, <4>2
        <3>2. CASE n = k + 1
            <4> HIDE DEF h
            <4> QED BY <2>3, <2>5, <2>6, <3>2
        <3> QED BY <2>2, <3>1, <3>2
    <2>8. h = [n \in 0 .. k + 1 |-> h[n]]
        OBVIOUS
    <2>9. h = [n \in 0 .. k + 1 |-> IF n = 0 THEN a ELSE u[h[n - 1]]]
        <3> HIDE DEF h
        <3> QED BY <2>7, <2>8
    <2> HIDE DEF h
    <2> QED BY <2>4, <2>9
<1>3. Bad = {}
    <2> SUFFICES ASSUME Bad # {} PROVE FALSE
        OBVIOUS
    <2> HIDE DEF Good
    <2>1. PICK m \in Bad : \A k \in Bad : m <= k
        BY Purging!SmallestNumber
    <2>2. m # 0 /\ m \in Nat
        BY <1>1
    <2>3. m - 1 \in Nat /\ m - 1 \notin Bad
        BY <2>1, <2>2
    <2>4. Good((m - 1) + 1)
        BY <1>2, <2>3
    <2>5. (m - 1) + 1 = m
        BY <2>2
    <2> QED BY <2>4, <2>5
<1>4. Good(N)
    <2> HIDE DEF Good
    <2> QED BY <1>3
<1> QED BY <1>4

\* Of rows with parents, all in V: U goes up from each of V, F down from the rows
\* with parents in T, both by one row at a time.
OrgUpAndDown(R, V, N, T, U, F) ==
    /\ \A x \in R : x.id \in V /\ x.par \in V
    /\ N \in Nat
    /\ \A o \in V : U[o][0] = {o}
    /\ \A o \in V : \A n \in 0 .. N : U[o][n + 1] = U[o][n] \cup {x.par : x \in {y \in R : y.id \in U[o][n]}}
    /\ F[0] = {x.id : x \in {y \in R : y.par \in T}}
    /\ \A n \in 0 .. N - 1 : F[n + 1] = F[n] \cup {x.id : x \in {y \in R : y.par \in F[n]}}

\* Going down from those whose parents are of T one comes to what leads up to T.
LEMMA DownIsUp ==
    ASSUME NEW R, NEW V, NEW N, NEW T, NEW U, NEW F, OrgUpAndDown(R, V, N, T, U, F)
    PROVE  /\ \A o \in V \ T : o \in F[N] <=> U[o][N + 1] \cap T # {}
           /\ \A o \in V : \A y \in U[o][N + 1] : y = o \/ \E x \in R : x.par = y
<1> USE DEF OrgUpAndDown
<1> DEFINE Good(n) ==
              /\ \A o \in V : o \in U[o][n]
              /\ \A o \in V : \A y : y \in U[o][n + 1] <=> y = o \/ \E x \in R : x.id = o /\ y \in U[x.par][n]
              /\ \A o \in V : o \in F[n] <=> \E x \in R : x.par \in T /\ x.id \in U[o][n]
              /\ \A o \in V : \A y \in U[o][n + 1] : y = o \/ \E x \in R : x.par = y /\ x.id \in U[o][n]
           Bad == {n \in 0 .. N : ~Good(n)}
<1>u. ASSUME NEW o \in V, NEW n \in 0 .. N
      PROVE  \A y : y \in U[o][n + 1] <=> y \in U[o][n] \/ \E x \in R : x.id \in U[o][n] /\ x.par = y
    OBVIOUS
<1>f. ASSUME NEW n \in 0 .. N - 1
      PROVE  \A o : o \in F[n + 1] <=> o \in F[n] \/ \E x \in R : x.par \in F[n] /\ x.id = o
    OBVIOUS
<1>0. \A o : o \in F[0] <=> \E x \in R : x.par \in T /\ x.id = o
    OBVIOUS
<1>1. Good(0)
    <2>1. 0 \in 0 .. N
        OBVIOUS
    <2>2. \A o \in V : \A y : y \in U[o][0 + 1] <=> y = o \/ \E x \in R : x.id = o /\ x.par = y
        <3> SUFFICES ASSUME NEW o \in V, NEW y PROVE y \in U[o][0 + 1] <=> y = o \/ \E x \in R : x.id = o /\ x.par = y
            OBVIOUS
        <3>1. U[o][0] = {o}
            OBVIOUS
        <3>2. y \in U[o][0 + 1] <=> y \in U[o][0] \/ \E x \in R : x.id \in U[o][0] /\ x.par = y
            BY <1>u, <2>1
        <3> QED BY <3>1, <3>2
    <2>3. \A x \in R : \A y : y \in U[x.par][0] <=> y = x.par
        OBVIOUS
    <2>4. \A o \in V : \A y : y \in U[o][0] <=> y = o
        OBVIOUS
    <2> QED BY <1>0, <2>2, <2>3, <2>4
<1>2. ASSUME NEW n \in 0 .. N - 1, Good(n) PROVE Good(n + 1)
    <2>0. n \in 0 .. N /\ n + 1 \in 0 .. N
        OBVIOUS
    <2>1. \A o \in V : o \in U[o][n + 1]
        BY <1>2
    <2>2. \A o \in V : \A y \in U[o][n] : y \in U[o][n + 1]
        BY <1>u, <2>0
    <2>3. ASSUME NEW o \in V, NEW y
          PROVE  y \in U[o][(n + 1) + 1] <=> y = o \/ \E x \in R : x.id = o /\ y \in U[x.par][n + 1]
        <3>1. y \in U[o][(n + 1) + 1] <=> y \in U[o][n + 1] \/ \E z \in R : z.id \in U[o][n + 1] /\ z.par = y
            BY <1>u, <2>0
        <3>2. \A x \in R : y \in U[x.par][n + 1] <=> y \in U[x.par][n] \/ \E z \in R : z.id \in U[x.par][n] /\ z.par = y
            BY <1>u, <2>0
        <3>3. y \in U[o][n + 1] <=> y = o \/ \E x \in R : x.id = o /\ y \in U[x.par][n]
            BY <1>2
        <3>4. \A z \in R : z.id \in U[o][n + 1] <=> z.id = o \/ \E x \in R : x.id = o /\ z.id \in U[x.par][n]
            BY <1>2
        <3>5. ASSUME NEW z \in R, z.id = o, z.par = y PROVE \E x \in R : x.id = o /\ y \in U[x.par][n + 1]
            BY <2>1, <3>5
        <3> HIDE DEF Good
        <3> QED BY <3>1, <3>2, <3>3, <3>4, <3>5
    <2>4. ASSUME NEW o \in V
          PROVE  o \in F[n + 1] <=> \E x \in R : x.par \in T /\ x.id \in U[o][n + 1]
        <3>1. o \in F[n + 1] <=> o \in F[n] \/ \E z \in R : z.par \in F[n] /\ z.id = o
            BY <1>f
        <3>2. o \in F[n] <=> \E x \in R : x.par \in T /\ x.id \in U[o][n]
            BY <1>2
        <3>3. \A z \in R : z.par \in F[n] <=> \E x \in R : x.par \in T /\ x.id \in U[z.par][n]
            BY <1>2
        <3>4. \A x \in R : x.id \in U[o][n + 1] <=> x.id = o \/ \E z \in R : z.id = o /\ x.id \in U[z.par][n]
            BY <1>2
        <3>5. o \in U[o][n] /\ \A y \in U[o][n] : y \in U[o][n + 1]
            BY <1>2, <2>2
        <3> HIDE DEF Good
        <3> QED BY <3>1, <3>2, <3>3, <3>4, <3>5
    <2>5. ASSUME NEW o \in V, NEW y \in U[o][(n + 1) + 1]
          PROVE  y = o \/ \E x \in R : x.par = y /\ x.id \in U[o][n + 1]
        <3>1. y \in U[o][n + 1] \/ \E z \in R : z.id \in U[o][n + 1] /\ z.par = y
            BY <1>u, <2>0
        <3>2. y \in U[o][n + 1] => y = o \/ \E x \in R : x.par = y /\ x.id \in U[o][n]
            BY <1>2
        <3> HIDE DEF Good
        <3> QED BY <2>2, <3>1, <3>2
    <2> QED BY <2>1, <2>3, <2>4, <2>5
<1>3. Bad = {}
    <2> SUFFICES ASSUME Bad # {} PROVE FALSE
        OBVIOUS
    <2> HIDE DEF Good
    <2>0. Bad \subseteq Nat
        OBVIOUS
    <2>1. PICK m \in Bad : \A k \in Bad : m <= k
        <3> HIDE DEF Bad
        <3> QED BY <2>0, Purging!SmallestNumber
    <2>2. m # 0 /\ m \in 0 .. N
        BY <1>1
    <2>3. m - 1 \in 0 .. N - 1 /\ m - 1 \in 0 .. N /\ m - 1 \notin Bad
        BY <2>1, <2>2
    <2>4. Good((m - 1) + 1)
        BY <1>2, <2>3
    <2>5. (m - 1) + 1 = m
        BY <2>2
    <2> QED BY <2>4, <2>5
<1>4. Good(N)
    <2> HIDE DEF Good
    <2> QED BY <1>3
<1>5. ASSUME NEW o \in V
      PROVE  /\ o \notin T => (o \in F[N] <=> U[o][N + 1] \cap T # {})
             /\ \A y \in U[o][N + 1] : y = o \/ \E x \in R : x.par = y
    <2>6. o \in F[N] <=> \E x \in R : x.par \in T /\ x.id \in U[o][N]
        BY <1>4
    <2>7. \A y \in U[o][N + 1] : y = o \/ \E x \in R : x.par = y /\ x.id \in U[o][N]
        BY <1>4
    <2>8. \A x \in R : x.id \in U[o][N] => x.par \in U[o][N + 1]
        BY <1>u
    <2> HIDE DEF Good
    <2> QED BY <2>6, <2>7, <2>8
<1> HIDE DEF Good
<1> QED BY <1>5

LEMMA SameSets == \A S : O!Cardinality(S) = Cardinality(S) /\ (O!IsFiniteSet(S) <=> IsFiniteSet(S))
BY Zenon DEF O!Cardinality, Cardinality, O!IsFiniteSet, IsFiniteSet

OrgNumbers == O!Seqs \cup 1 .. O!Cardinality(OrgIDs) + 1
OrgChanged(r) == r.f.op = "addOrg" \/ (r.f.op = "modifyOrg" /\ r.at \in {"seq", "save"})

\* Rows and forms are of their types; no organisation is, nor is to be, directly
\* below itself.
OrgRowsInv ==
    /\ IsFiniteSet(OrgIDs) /\ ROOTNODE \notin OrgIDs
    /\ data.orgs \subseteq O!OrgRow
    /\ \A x, y \in data.orgs : x.id = y.id => x = y
    /\ \A x \in data.orgs : x.par # x.id
    /\ IsFiniteSet(page.open) /\ Cardinality(page.open) <= 2
    /\ \A r \in page.open :
        /\ r.f.op \in OrgWrites => r.f.cod \in OrgCods /\ r.f.nam \in OrgNams /\ r.f.seq \in OrgNumbers
        /\ OrgChanged(r) => r.f.par # r.f.id

LEMMA OrgFinite ==
    ASSUME OrgRowsInv, NEW S \in SUBSET data.orgs
    PROVE  /\ IsFiniteSet(S) /\ Cardinality(S) \in Nat /\ Cardinality(S) <= Cardinality(OrgIDs)
           /\ Cardinality(OrgIDs) \in Nat
           /\ Cardinality({x.id : x \in S}) = Cardinality(S)
<1> DEFINE f == [x \in S |-> x.id]
           T == {x.id : x \in S}
<1>0. IsFiniteSet(OrgIDs) /\ \A x \in S : x.id \in OrgIDs
    BY DEF OrgRowsInv, O!OrgRow
<1>1. \A x, y \in S : x.id = y.id => x = y
    BY DEF OrgRowsInv
<1>2. f \in Injection(S, OrgIDs)
    BY <1>0, <1>1 DEF Injection, IsInjective
<1>3. f \in Bijection(S, T)
    BY <1>1 DEF Bijection, Injection, Surjection, IsInjective
<1>4. ExistsBijection(S, T)
    BY <1>3 DEF ExistsBijection
<1>5. IsFiniteSet(S) /\ Cardinality(S) <= Cardinality(OrgIDs)
    BY <1>0, <1>2, FS_Injection
<1> QED BY <1>0, <1>4, <1>5, FS_Bijection, FS_CardinalityType

\* n is the request r with the order number k; a step takes r on, or ends it.
OrgNumbered(n, r, k) == (n = r /\ k = r.f.seq) \/ n = [r EXCEPT !.f.seq = k]
OrgWentOn(r, ok, next, k) ==
    \/ page'.open = O!Others(r)
    \/ \E g : /\ page'.open = O!Others(r) \cup {g} /\ ok /\ g.at = next
              /\ g.f.op = r.f.op /\ g.f.id = r.f.id /\ g.f.par = r.f.par
              /\ g.f.cod = r.f.cod /\ g.f.nam = r.f.nam /\ g.f.seq = k

LEMMA OrgGoesOn ==
    ASSUME OrgShapes, NEW r \in page.open, NEW n, NEW ok, NEW next, O!GoOrFail(n, ok, next), NEW k,
           OrgNumbered(n, r, k)
    PROVE  data' = data /\ OrgWentOn(r, ok, next, k)
<1>1. /\ r = [nr |-> r.nr, f |-> r.f, at |-> r.at]
      /\ r.f = [op |-> r.f.op, id |-> r.f.id, par |-> r.f.par, cod |-> r.f.cod, nam |-> r.f.nam, seq |-> r.f.seq]
    BY DEF OrgShapes, OrgIsReq, OrgIsForm
<1> DEFINE h == [op |-> r.f.op, id |-> r.f.id, par |-> r.f.par, cod |-> r.f.cod, nam |-> r.f.nam, seq |-> k]
<1>2. n = [nr |-> r.nr, at |-> r.at, f |-> h]
    BY <1>1 DEF OrgNumbered
<1>3. O!Met(n) = O!Met(r) /\ O!Others(n) = O!Others(r)
    BY <1>2 DEF O!Met, O!Others, O!Begun
<1> DEFINE g == [n EXCEPT !.at = next]
           m == O!Met(r)
<1>5. page' = IF ok THEN [m EXCEPT !.open = @ \cup {g}] ELSE m
    BY <1>3 DEF O!GoOrFail
<1>h. /\ h.op = r.f.op /\ h.id = r.f.id /\ h.par = r.f.par /\ h.cod = r.f.cod /\ h.nam = r.f.nam /\ h.seq = k
    OBVIOUS
<1> HIDE DEF h
<1>4. g.at = next /\ g.f = h
    BY <1>2
<1>6. m = [nr |-> page.nr, open |-> O!Others(r), mates |-> m.mates, deleted |-> page.deleted, under |-> page.under]
    BY OrgMetFacts
<1> HIDE DEF g, m
<1>7. page'.open = IF ok THEN O!Others(r) \cup {g} ELSE O!Others(r)
    BY <1>5, <1>6
<1> QED BY <1>4, <1>7, <1>h DEF O!GoOrFail, OrgWentOn

\* There are no more requests when one of them goes on, or ends.
LEMMA OrgNoMore ==
    ASSUME OrgRowsInv, NEW r \in page.open
    PROVE  /\ IsFiniteSet(O!Others(r)) /\ Cardinality(O!Others(r)) <= 2
           /\ \A g : IsFiniteSet(O!Others(r) \cup {g}) /\ Cardinality(O!Others(r) \cup {g}) <= 2
<1> DEFINE S == page.open
           T == S \ {r}
           U == O!Others(r)
<1>1. IsFiniteSet(S) /\ Cardinality(S) <= 2 /\ r \in S /\ Cardinality(S) \in Nat
    BY FS_CardinalityType DEF OrgRowsInv
<1>2. IsFiniteSet(T) /\ Cardinality(T) = Cardinality(S) - 1
    <2> HIDE DEF S
    <2> QED BY <1>1, FS_RemoveElement
<1>3. U \in SUBSET T
    BY DEF O!Others
<1> HIDE DEF S, T, U
<1>4. IsFiniteSet(U) /\ Cardinality(U) <= Cardinality(T) /\ Cardinality(U) \in Nat
    BY <1>2, <1>3, FS_Subset, FS_CardinalityType
<1>5. Cardinality(U) <= 1
    BY <1>1, <1>2, <1>4
<1>7. ASSUME NEW g PROVE IsFiniteSet(U \cup {g}) /\ Cardinality(U \cup {g}) <= 2
    <2>1. IsFiniteSet(U \cup {g})
          /\ Cardinality(U \cup {g}) = IF g \in U THEN Cardinality(U) ELSE Cardinality(U) + 1
        BY <1>4, FS_AddElement, Zenon
    <2> QED BY <1>4, <1>5, <2>1
<1> QED BY <1>4, <1>5, <1>7 DEF U

\* A step that reads, whatever it finds.
LEMMA OrgReadRows ==
    ASSUME OrgShapes, OrgRowsInv, NEW r \in page.open, NEW n, NEW ok, NEW next, O!GoOrFail(n, ok, next), NEW k,
           OrgNumbered(n, r, k),
           r.f.op \in OrgWrites => k \in OrgNumbers,
           ok /\ r.f.op = "modifyOrg" /\ next \in {"seq", "save"} => r.f.par # r.f.id
    PROVE  OrgRowsInv'
<1>0. data' = data /\ OrgWentOn(r, ok, next, k)
    BY OrgGoesOn, Zenon
<1>1. data' = data
    BY <1>0
<1>2. IsFiniteSet(page'.open) /\ Cardinality(page'.open) <= 2
    BY <1>0, OrgNoMore, Zenon DEF OrgWentOn
<1>3. \A o \in O!Others(r) : o \in page.open
    BY DEF O!Others
<1>4. ASSUME NEW g \in page'.open
      PROVE  /\ g.f.op \in OrgWrites => g.f.cod \in OrgCods /\ g.f.nam \in OrgNams /\ g.f.seq \in OrgNumbers
             /\ OrgChanged(g) => g.f.par # g.f.id
    <2>1. CASE g \in page.open
        BY <2>1 DEF OrgRowsInv
    <2>2. CASE g \notin page.open
        <3>1. /\ ok /\ g.at = next
              /\ g.f.op = r.f.op /\ g.f.id = r.f.id /\ g.f.par = r.f.par
              /\ g.f.cod = r.f.cod /\ g.f.nam = r.f.nam /\ g.f.seq = k
            BY <1>0, <1>3, <2>2 DEF OrgWentOn
        <3> QED BY <3>1 DEF OrgRowsInv, OrgChanged
    <2> QED BY <2>1, <2>2
<1> QED BY <1>1, <1>2, <1>4 DEF OrgRowsInv

LEMMA OrgFindRows ==
    ASSUME OrgShapes, OrgRowsInv, NEW r \in page.open,
           O!FindCod(r) \/ O!FindNam(r) \/ O!FindSeq(r) \/ O!FindUsr(r) \/ O!FindSub(r) \/ O!FindUsrCod(r)
    PROVE  OrgRowsInv'
<1>1. /\ r.f.op \in OrgWrites => r.at \in {"cod", "nam", "seq", "save"}
      /\ r.f.op = "delOrg" => r.at \in {"usr", "sub", "save"}
      /\ r.f.op = "saveUsr" => r.at \in {"look", "save"}
      /\ r.f.op \in OrgWrites \cup {"delOrg", "saveUsr"}
      /\ r.f.op \in OrgWrites => r.f.seq \in OrgNumbers
      /\ OrgChanged(r) => r.f.par # r.f.id
    BY DEF OrgShapes, OrgIsReq, OrgIsForm, OrgRowsInv
<1>2. ASSUME NEW ok, NEW next, O!GoOrFail(r, ok, next),
             ok /\ r.f.op = "modifyOrg" /\ next \in {"seq", "save"} => r.f.par # r.f.id
      PROVE  OrgRowsInv'
    <2> DEFINE k == r.f.seq
    <2>1. OrgNumbered(r, r, k) /\ (r.f.op \in OrgWrites => k \in OrgNumbers)
        BY <1>1 DEF OrgNumbered
    <2> HIDE DEF k
    <2> QED BY <1>2, <2>1, OrgReadRows
<1>3. CASE O!FindCod(r)
    <2> DEFINE ok == \A x \in data.orgs : x.cod = r.f.cod => x.id = r.f.id
    <2>1. O!GoOrFail(r, ok, "nam")
        BY <1>3 DEF O!FindCod
    <2> HIDE DEF ok
    <2> QED BY <1>2, <2>1
<1>4. CASE O!FindNam(r)
    <2> DEFINE ok   == (\A x \in data.orgs : x.nam = r.f.nam => x.id = r.f.id) /\ O!MayBeParent(r.f)
               next == IF r.f.op = "addOrg" /\ r.f.seq = NoNumber THEN "seq" ELSE "save"
    <2>1. ok /\ r.f.op = "modifyOrg" => r.f.par # r.f.id
        BY DEF O!MayBeParent
    <2>2. O!GoOrFail(r, ok, next)
        BY <1>4 DEF O!FindNam
    <2> HIDE DEF ok, next
    <2> QED BY <1>2, <2>1, <2>2
<1>5. CASE O!FindSeq(r)
    <2> DEFINE k == O!Cardinality(O!Sub(r.f.par)) + 1
               n == [r EXCEPT !.f.seq = k]
    <2>1. O!GoOrFail(n, TRUE, "save") /\ r.at = "seq"
        BY <1>5 DEF O!FindSeq
    <2>2. k \in OrgNumbers
        <3> DEFINE S == O!Sub(r.f.par)
        <3>1. S \in SUBSET data.orgs
            BY DEF O!Sub
        <3> HIDE DEF S
        <3>2. /\ Cardinality(S) \in Nat /\ Cardinality(S) <= Cardinality(OrgIDs) /\ Cardinality(OrgIDs) \in Nat
              /\ O!Cardinality(S) = Cardinality(S) /\ O!Cardinality(OrgIDs) = Cardinality(OrgIDs)
            BY <3>1, OrgFinite, SameSets
        <3>3. O!Cardinality(S) + 1 \in 1 .. O!Cardinality(OrgIDs) + 1
            BY <3>2
        <3> QED BY <3>3 DEF OrgNumbers, S
    <2>3. r.f.op = "modifyOrg" => r.f.par # r.f.id
        BY <1>1, <2>1 DEF OrgChanged
    <2> HIDE DEF k
    <2>4. OrgNumbered(n, r, k)
        BY DEF OrgNumbered
    <2> HIDE DEF n
    <2> QED BY <2>1, <2>2, <2>3, <2>4, OrgReadRows
<1>6. CASE O!FindUsr(r) \/ O!FindSub(r) \/ O!FindUsrCod(r)
    <2>1. r.at \in {"usr", "sub", "look"} /\ \E ok, next : O!GoOrFail(r, ok, next)
        BY <1>6 DEF O!FindUsr, O!FindSub, O!FindUsrCod
    <2>2. r.f.op # "modifyOrg"
        BY <1>1, <2>1 DEF OrgWrites
    <2> QED BY <1>2, <2>1, <2>2
<1> QED BY <1>3, <1>4, <1>5, <1>6

LEMMA OrgAskRows ==
    ASSUME OrgInv, OrgRowsInv, O!Ask
    PROVE  OrgRowsInv'
<1>1. PICK f \in O!Forms :
        page' = [page EXCEPT !.nr = @ + 1,
                    !.open = @ \cup {[nr |-> page.nr + 1, f |-> f, at |-> O!First(f)]}]
    BY DEF O!Ask
<1>2. PICK n : n = [nr |-> page.nr + 1, f |-> f, at |-> O!First(f)]
    OBVIOUS
<1>3. page'.open = page.open \cup {n} /\ data' = data
    BY <1>1, <1>2 DEF O!Ask, OrgInv, OrgShapes
<1>4. n.f = f /\ n.at = O!First(f)
    BY <1>2
<1>5. IsFiniteSet(page'.open) /\ Cardinality(page'.open) <= 2
    <2>1. O!Cardinality(page.open) < 2
        BY DEF O!Ask
    <2>2. Cardinality(page.open) < 2 /\ IsFiniteSet(page.open) /\ Cardinality(page.open) \in Nat
        BY <2>1, SameSets, FS_CardinalityType DEF OrgRowsInv
    <2> DEFINE S == page.open
    <2>4. S = page.open /\ page'.open = S \cup {n}
        BY <1>3
    <2> HIDE DEF S
    <2>3. IsFiniteSet(S \cup {n}) /\ Cardinality(S \cup {n}) = IF n \in S THEN Cardinality(S) ELSE Cardinality(S) + 1
        BY <2>2, <2>4, FS_AddElement, Zenon
    <2> QED BY <2>2, <2>3, <2>4
<1>6. f.op \in OrgWrites => f.cod \in OrgCods /\ f.nam \in OrgNams /\ f.seq \in OrgNumbers
    BY DEF O!Forms, OrgWrites, OrgNumbers
<1>7. f.op = "addOrg" => f.id \in O!Fresh /\ f.par \in O!SetTree(FALSE) \cup {ROOTNODE}
    BY DEF O!Forms
<1>8. f.op = "addOrg" => f.par # f.id
    <2>1. O!SetTree(FALSE) \subseteq O!IDs
        BY Zenon DEF O!SetTree
    <2> QED BY <1>7, <2>1 DEF O!Fresh, OrgRowsInv
<1>9. f.op = "modifyOrg" => O!First(f) = "cod"
    BY DEF O!First
<1> QED BY <1>3, <1>4, <1>5, <1>6, <1>8, <1>9 DEF OrgRowsInv, OrgChanged

LEMMA OrgWriteRows ==
    ASSUME OrgInv, OrgRowsInv, NEW r \in page.open, O!SaveOrg(r) \/ O!DelOrg(r) \/ O!SaveUsr(r)
    PROVE  OrgRowsInv'
<1>1. ASSUME page'.open = O!Others(r)
      PROVE  /\ IsFiniteSet(page'.open) /\ Cardinality(page'.open) <= 2
             /\ \A g \in page'.open : g \in page.open
    BY <1>1, OrgNoMore DEF O!Others
<1>2. OrgShapes
    BY DEF OrgInv
<1>3. ASSUME page'.open = O!Others(r), data'.orgs \subseteq data.orgs PROVE OrgRowsInv'
    BY <1>1, <1>3 DEF OrgRowsInv
<1>4. CASE O!SaveOrg(r)
    <2> DEFINE old  == {x \in data.orgs : x.id = r.f.id}
               orgs == (data.orgs \ old) \cup {O!Row(r)}
    <2>0. r.f.op \in OrgWrites /\ r.at = "save" /\ (O!GoOrFail(r, FALSE, "save") \/ O!Commit(r, orgs, {}))
        BY <1>4 DEF O!SaveOrg, OrgWrites
    <2>1. CASE O!GoOrFail(r, FALSE, "save")
        <3>1. page'.open = O!Others(r) /\ data' = data
            BY <1>2, <2>1, OrgGoOrFailFacts
        <3> QED BY <1>3, <3>1
    <2>2. CASE O!Commit(r, orgs, {})
        <3>1. data'.orgs = orgs /\ page'.open = O!Others(r)
            <4> HIDE DEF orgs
            <4>1. {} \in SUBSET OrgIDs
                OBVIOUS
            <4>2. /\ data' = [orgs |-> orgs, of |-> data.of, putBy |-> data.putBy]
                  /\ page' = [nr |-> page.nr, open |-> O!Others(r), mates |-> page'.mates,
                              deleted |-> page'.deleted, under |-> page'.under]
                BY <1>2, <2>2, <4>1, OrgCommitFacts
            <4> QED BY <4>2
        <3>2. /\ r.f.cod \in OrgCods /\ r.f.nam \in OrgNams /\ r.f.seq \in OrgNumbers /\ r.f.par # r.f.id
            BY <2>0 DEF OrgRowsInv, OrgChanged, OrgWrites
        <3>3. r.nr \in 0 .. MaxAsked /\ r.f.id \in OrgIDs /\ r.f.par \in OrgIDs \cup {ROOTNODE}
            BY <2>0, OrgRanges
        <3> DEFINE new == O!Row(r)
        <3>4. new \in O!OrgRow /\ new.id = r.f.id /\ new.par = r.f.par
            BY <3>2, <3>3 DEF O!Row, O!OrgRow, OrgNumbers
        <3>5. \A x \in orgs : x = new \/ (x \in data.orgs /\ x.id # r.f.id)
            OBVIOUS
        <3> HIDE DEF new, orgs
        <3>6. data'.orgs \subseteq O!OrgRow
            BY <3>1, <3>4, <3>5 DEF OrgRowsInv
        <3>7. \A x, y \in data'.orgs : x.id = y.id => x = y
            BY <3>1, <3>4, <3>5 DEF OrgRowsInv
        <3>8. \A x \in data'.orgs : x.par # x.id
            BY <3>1, <3>2, <3>4, <3>5 DEF OrgRowsInv
        <3> QED BY <1>1, <3>1, <3>6, <3>7, <3>8 DEF OrgRowsInv
    <2> QED BY <2>0, <2>1, <2>2
<1>5. CASE O!DelOrg(r)
    <2> DEFINE orgs == {x \in data.orgs : x.id # r.f.id}
               gone == {r.f.id} \cap O!IDs
    <2>1. r.f.op = "delOrg" /\ r.at = "save"
        BY <1>5 DEF O!DelOrg
    <2>2. O!Commit(r, orgs, gone) /\ gone \in SUBSET OrgIDs
        BY <1>5, <2>1, OrgRanges DEF O!DelOrg
    <2>3. orgs \subseteq data.orgs
        OBVIOUS
    <2> HIDE DEF orgs, gone
    <2>4. /\ data' = [orgs |-> orgs, of |-> data.of, putBy |-> data.putBy]
          /\ page' = [nr |-> page.nr, open |-> O!Others(r), mates |-> page'.mates,
                      deleted |-> page'.deleted, under |-> page'.under]
        BY <1>2, <2>2, OrgCommitFacts
    <2>5. data'.orgs = orgs /\ page'.open = O!Others(r)
        BY <2>4
    <2> QED BY <1>3, <2>3, <2>5
<1>6. CASE O!SaveUsr(r)
    <2>1. page' = O!Met(r)
        BY <1>6 DEF O!SaveUsr
    <2>2. page'.open = O!Others(r)
        <3> DEFINE m == O!Met(r)
        <3>1. m = [nr |-> page.nr, open |-> O!Others(r), mates |-> m.mates,
                   deleted |-> page.deleted, under |-> page.under]
            BY <1>2, OrgMetFacts
        <3> HIDE DEF m
        <3>2. m.open = O!Others(r)
            BY <3>1
        <3> QED BY <2>1, <3>2 DEF m
    <2>3. data'.orgs = data.orgs
        BY <1>6, <1>2 DEF O!SaveUsr, OrgShapes
    <2> QED BY <1>3, <2>2, <2>3
<1> QED BY <1>4, <1>5, <1>6

LEMMA OrgStepRows ==
    ASSUME OrgInv, OrgRowsInv, O!Next
    PROVE  OrgRowsInv'
BY OrgAskRows, OrgFindRows, OrgWriteRows DEF O!Next, O!Run, OrgInv

OrgK == O!Cardinality(data.orgs)
OrgAll == OrgIDs \cup {ROOTNODE}
OrgUp(s) == s \cup {x.par : x \in {y \in data.orgs : y.id \in s}}
OrgDown(s) == s \cup {x.id : x \in UNION {O!Sub(o) : o \in s}}

\* The functions by which Above and SetTree are defined.
OrgAboves(o) == CHOOSE f : f = [n \in 0 .. OrgK + 1 |-> IF n = 0 THEN {o} ELSE OrgUp(f[n - 1])]
OrgBelows(w) ==
    CHOOSE f : f = [n \in 0 .. OrgK |-> IF n = 0 THEN {x.id : x \in O!FirstNodes(w)} ELSE OrgDown(f[n - 1])]

LEMMA OrgAbovesFacts ==
    ASSUME OrgRowsInv, OrgK \in Nat, NEW o \in OrgAll
    PROVE  /\ OrgAboves(o)[0] = {o}
           /\ \A n \in 0 .. OrgK : OrgAboves(o)[n + 1] = OrgUp(OrgAboves(o)[n])
           /\ O!Above(o) = OrgAboves(o)[OrgK + 1] \ {o}
<1> DEFINE K == OrgK
           S == SUBSET OrgAll
           u == [s \in S |-> OrgUp(s)]
           Step(f) == [n \in 0 .. K + 1 |-> IF n = 0 THEN {o} ELSE OrgUp(f[n - 1])]
           g == OrgAboves(o)
<1>1. u \in [S -> S] /\ {o} \in S
    BY DEF OrgUp, OrgAll, OrgRowsInv, O!OrgRow
<1>2. K + 1 \in Nat
    OBVIOUS
<1> HIDE DEF K
<1>3. PICK f : f \in [0 .. K + 1 -> S] /\ f = [n \in 0 .. K + 1 |-> IF n = 0 THEN {o} ELSE u[f[n - 1]]]
    <2> DEFINE N == K + 1
               a == {o}
    <2>1. N \in Nat /\ a \in S /\ u \in [S -> S]
        BY <1>1, <1>2
    <2> HIDE DEF S, u, N, a
    <2>2. \E f : f \in [0 .. N -> S] /\ f = [n \in 0 .. N |-> IF n = 0 THEN a ELSE u[f[n - 1]]]
        BY <2>1, StepsAreDefined
    <2> QED BY <2>2 DEF N, a
<1>4. f = Step(f)
    <2>1. ASSUME NEW n \in 0 .. K + 1, n # 0 PROVE u[f[n - 1]] = OrgUp(f[n - 1])
        <3>1. n - 1 \in 0 .. K + 1
            BY <1>2, <2>1
        <3>2. f[n - 1] \in S
            <4> HIDE DEF S, u
            <4> QED BY <1>3, <3>1
        <3> HIDE DEF S
        <3> QED BY <3>2
    <2> HIDE DEF S, u
    <2> QED BY <1>3, <2>1
<1>5. g = Step(g)
    <2>1. \E h : h = Step(h)
        BY <1>4
    <2>2. (CHOOSE h : h = Step(h)) = Step(CHOOSE h : h = Step(h))
        <3> HIDE DEF Step
        <3> QED BY <2>1, Zenon
    <2>3. g = CHOOSE h : h = Step(h)
        BY Zenon DEF OrgAboves, K
    <2> HIDE DEF Step, g
    <2> QED BY <2>2, <2>3
<1>6. O!Above(o) = g[K + 1] \ {o}
    BY Zenon DEF O!Above, OrgAboves, K, OrgK, OrgUp
<1> HIDE DEF g
<1>7. 0 \in 0 .. K + 1 /\ \A n \in 0 .. K : n + 1 \in 0 .. K + 1 /\ n + 1 # 0 /\ (n + 1) - 1 = n
    BY <1>2 DEF K
<1>8. g[0] = {o} /\ \A n \in 0 .. K : g[n + 1] = OrgUp(g[n])
    BY <1>5, <1>7
<1> QED BY <1>6, <1>8 DEF K, g

LEMMA OrgBelowsFacts ==
    ASSUME OrgRowsInv, OrgK \in Nat, NEW w \in BOOLEAN
    PROVE  /\ OrgBelows(w)[0] = {x.id : x \in O!FirstNodes(w)}
           /\ \A n \in 0 .. OrgK - 1 : OrgBelows(w)[n + 1] = OrgDown(OrgBelows(w)[n])
           /\ O!SetTree(w) = {o \in O!IDs : o \in OrgBelows(w)[OrgK]}
<1> DEFINE K == OrgK
           S == SUBSET OrgAll
           a == {x.id : x \in O!FirstNodes(w)}
           u == [s \in S |-> OrgDown(s)]
           Step(f) == [n \in 0 .. K |-> IF n = 0 THEN a ELSE OrgDown(f[n - 1])]
           g == OrgBelows(w)
<1>0. \A x \in data.orgs : x.id \in OrgAll
    BY DEF OrgAll, OrgRowsInv, O!OrgRow
<1>1. u \in [S -> S] /\ a \in S
    BY <1>0 DEF OrgDown, O!FirstNodes, O!Sub
<1>2. K \in Nat
    OBVIOUS
<1> HIDE DEF K, a
<1>3. PICK f : f \in [0 .. K -> S] /\ f = [n \in 0 .. K |-> IF n = 0 THEN a ELSE u[f[n - 1]]]
    <2> HIDE DEF S, u
    <2> QED BY <1>1, <1>2, StepsAreDefined
<1>4. f = Step(f)
    <2>1. ASSUME NEW n \in 0 .. K, n # 0 PROVE u[f[n - 1]] = OrgDown(f[n - 1])
        <3>1. n - 1 \in 0 .. K
            BY <1>2, <2>1
        <3>2. f[n - 1] \in S
            <4> HIDE DEF S, u
            <4> QED BY <1>3, <3>1
        <3> HIDE DEF S
        <3> QED BY <3>2
    <2> HIDE DEF S, u
    <2> QED BY <1>3, <2>1
<1>5. g = Step(g)
    <2>1. \E h : h = Step(h)
        BY <1>4
    <2>2. (CHOOSE h : h = Step(h)) = Step(CHOOSE h : h = Step(h))
        <3> HIDE DEF Step
        <3> QED BY <2>1, Zenon
    <2>3. g = CHOOSE h : h = Step(h)
        BY Zenon DEF OrgBelows, K, a
    <2> HIDE DEF Step, g
    <2> QED BY <2>2, <2>3
<1>6. O!SetTree(w) = {o \in O!IDs : o \in g[K]}
    BY Zenon DEF O!SetTree, OrgBelows, K, OrgK, OrgDown
<1> HIDE DEF g
<1>7. 0 \in 0 .. K /\ \A n \in 0 .. K - 1 : n + 1 \in 0 .. K /\ n + 1 # 0 /\ (n + 1) - 1 = n
    BY <1>2
<1>8. g[0] = a /\ \A n \in 0 .. K - 1 : g[n + 1] = OrgDown(g[n])
    BY <1>5, <1>7
<1> QED BY <1>6, <1>8 DEF K, g, a

\* What the tree shows whose first nodes are below those of T.
LEMMA OrgTreeOf ==
    ASSUME OrgRowsInv, NEW w \in BOOLEAN, NEW T,
           O!FirstNodes(w) = {y \in data.orgs : y.par \in T}, T \cap O!IDs = {}
    PROVE  /\ O!SetTree(w) = {o \in O!IDs : O!Above(o) \cap T # {}}
           /\ \A o \in O!IDs : \A y \in O!Above(o) : y \in OrgAll
<1> DEFINE K == OrgK
           R == data.orgs
           U == [o \in OrgAll |-> OrgAboves(o)]
           F == OrgBelows(w)
<1>1. K \in Nat
    BY OrgFinite, SameSets DEF OrgK
<1>2. \A x \in R : x.id \in OrgAll /\ x.par \in OrgAll
    BY DEF OrgAll, OrgRowsInv, O!OrgRow
<1>3. ASSUME NEW o \in OrgAll
      PROVE  /\ U[o][0] = {o}
             /\ \A n \in 0 .. K : U[o][n + 1] = U[o][n] \cup {x.par : x \in {y \in R : y.id \in U[o][n]}}
             /\ O!Above(o) = U[o][K + 1] \ {o}
    <2>1. U[o] = OrgAboves(o)
        OBVIOUS
    <2> HIDE DEF U
    <2> QED BY <1>1, <2>1, OrgAbovesFacts DEF OrgUp
<1>4. F[0] = {x.id : x \in {y \in R : y.par \in T}}
    BY <1>1, OrgBelowsFacts
<1>5. ASSUME NEW n \in 0 .. K - 1
      PROVE  F[n + 1] = F[n] \cup {x.id : x \in {y \in R : y.par \in F[n]}}
    <2>1. F[n + 1] = OrgDown(F[n])
        BY <1>1, OrgBelowsFacts
    <2> HIDE DEF F
    <2>2. UNION {O!Sub(o) : o \in F[n]} = {y \in R : y.par \in F[n]}
        BY DEF O!Sub
    <2> QED BY <2>1, <2>2 DEF OrgDown
<1>6. O!SetTree(w) = {o \in O!IDs : o \in F[K]}
    BY <1>1, OrgBelowsFacts
<1> HIDE DEF U, F, K, R
<1>7. /\ \A o \in OrgAll \ T : o \in F[K] <=> U[o][K + 1] \cap T # {}
      /\ \A o \in OrgAll : \A y \in U[o][K + 1] : y = o \/ \E x \in R : x.par = y
    <2>1. OrgUpAndDown(R, OrgAll, K, T, U, F)
        BY <1>1, <1>2, <1>3, <1>4, <1>5 DEF OrgUpAndDown
    <2> QED BY <2>1, DownIsUp
<1>8. ASSUME NEW o \in O!IDs
      PROVE  o \in OrgAll \ T
    BY <1>2 DEF O!IDs, R
<1> QED BY <1>2, <1>3, <1>6, <1>7, <1>8

\* The invariant of the organisations holds when the program starts.
LEMMA OrgStart ==
    ASSUME O!OrgAssumption, O!Init
    PROVE  OrgInv /\ OrgRowsInv
<1> DEFINE Old  == DOMAIN ParentOf
           cods == CHOOSE f \in O!Injection(Old, OrgCods) : TRUE
           nams == CHOOSE f \in O!Injection(Old, OrgNams) : TRUE
           orgs == {[id |-> o, cod |-> cods[o], nam |-> nams[o], par |-> ParentOf[o],
                     seq |-> 1, by |-> 0] : o \in Old}
           of   == [u \in UsrIDs |-> IF u \in DOMAIN OrgOf THEN OrgOf[u] ELSE None]
           by   == [u \in UsrIDs |-> 0]
<1>1. data = [orgs |-> orgs, of |-> of, putBy |-> by]
    BY DEF O!Init
<1>2. page = [nr |-> 0, open |-> {}, mates |-> [n \in 0 .. MaxAsked |-> {}],
              deleted |-> [o \in OrgIDs |-> 0], under |-> [n \in 0 .. MaxAsked |-> {}]]
    BY DEF O!Init
<1>3. cods \in O!Injection(Old, OrgCods) /\ nams \in O!Injection(Old, OrgNams)
    BY DEF O!OrgAssumption, O!ExistsInjection
<1> HIDE DEF cods, nams
<1>4. /\ \A o, p \in Old : cods[o] = cods[p] => o = p
      /\ \A o, p \in Old : nams[o] = nams[p] => o = p
    BY <1>3 DEF O!Injection, O!IsInjective
<1>5. /\ Old \subseteq OrgIDs /\ \A o \in Old : ParentOf[o] \in Old \cup {ROOTNODE}
      /\ \A u \in UsrIDs : of[u] \in Old \cup {None}
      /\ MaxAsked \in Nat
    BY DEF O!OrgAssumption
<1> HIDE DEF Old, of
<1>6. /\ data.orgs = orgs /\ data.of = of /\ data.putBy = by
      /\ data = [orgs |-> data.orgs, of |-> data.of, putBy |-> data.putBy]
    <2> HIDE DEF orgs, by
    <2> QED BY <1>1
<1>7. O!IDs = Old
    <2>1. ASSUME NEW o \in Old PROVE \E x \in orgs : x.id = o
        <3> WITNESS [id |-> o, cod |-> cods[o], nam |-> nams[o], par |-> ParentOf[o],
                     seq |-> 1, by |-> 0] \in orgs
        <3> QED OBVIOUS
    <2>2. \A x \in orgs : x.id \in Old
        OBVIOUS
    <2> HIDE DEF orgs
    <2> QED BY <1>6, <2>1, <2>2 DEF O!IDs
<1>8. /\ page.nr = 0 /\ page.open = {} /\ page.mates = [n \in 0 .. MaxAsked |-> {}]
      /\ page.deleted = [o \in OrgIDs |-> 0] /\ page.under = [n \in 0 .. MaxAsked |-> {}]
      /\ page = [nr |-> page.nr, open |-> page.open, mates |-> page.mates,
                 deleted |-> page.deleted, under |-> page.under]
    BY <1>2
<1>9. \A x \in data.orgs : x.id \in Old /\ x.par \in Old \cup {ROOTNODE} /\ x.by = 0
                            /\ x.cod = cods[x.id] /\ x.nam = nams[x.id]
                            /\ x = [id |-> x.id, cod |-> cods[x.id], nam |-> nams[x.id],
                                    par |-> ParentOf[x.id], seq |-> 1, by |-> 0]
    BY <1>5, <1>6
<1>10. OrgShapes
    <2>1. data.of \in [UsrIDs -> OrgIDs \cup {None}] /\ data.putBy \in [UsrIDs -> 0 .. MaxAsked]
        BY <1>5, <1>6 DEF of
    <2>2. /\ page.mates \in [0 .. MaxAsked -> SUBSET Int] /\ page.deleted \in [OrgIDs -> Int]
          /\ page.under \in [0 .. MaxAsked -> SUBSET OrgIDs] /\ page.nr \in 0 .. MaxAsked
        BY <1>5, <1>8
    <2>3. \A x \in data.orgs : x.id \in OrgIDs /\ x.par \in OrgIDs \cup {ROOTNODE} /\ x.by \in 0 .. MaxAsked
        BY <1>5, <1>9
    <2> QED BY <1>5, <1>6, <1>8, <2>1, <2>2, <2>3 DEF OrgShapes
<1>11. OrgLeftInv
    BY <1>5, <1>6, <1>7, <1>8, <1>9 DEF OrgLeftInv, OrgKept
<1>12. OrgTwinInv
    BY <1>4, <1>9 DEF OrgTwinInv
<1>13. OrgLookedInv /\ OrgFreeInv
    BY <1>8 DEF OrgLookedInv, OrgFreeInv
<1>14. OrgRowsInv
    <2>1. IsFiniteSet(OrgIDs) /\ ROOTNODE \notin OrgIDs
        BY SameSets DEF O!OrgAssumption
    <2>2. IsFiniteSet(page.open) /\ Cardinality(page.open) <= 2
        BY <1>8, FS_EmptySet
    <2>3. /\ \A o \in Old : ParentOf[o] # o
          /\ cods \in [Old -> OrgCods] /\ nams \in [Old -> OrgNams]
        BY <1>3, <2>1 DEF Old, O!OrgAssumption, O!Injection
    <2>4. 1 \in 1 .. O!Cardinality(OrgIDs) + 1
        BY <2>1, SameSets, FS_CardinalityType
    <2>5. \A x \in data.orgs : x.par = ParentOf[x.id] /\ x.par # x.id
        BY <1>9, <2>3
    <2>6. \A x \in data.orgs : x \in O!OrgRow
        <3> SUFFICES ASSUME NEW x \in data.orgs PROVE x \in O!OrgRow
            OBVIOUS
        <3>1. /\ x.id \in OrgIDs /\ x.par \in OrgIDs \cup {ROOTNODE} /\ 0 \in 0 .. MaxAsked
              /\ cods[x.id] \in OrgCods /\ nams[x.id] \in OrgNams
            BY <1>5, <1>9, <2>3
        <3> QED BY <1>9, <2>4, <2>5, <3>1 DEF O!OrgRow
    <2>7. \A x, y \in data.orgs : x.id = y.id => x = y
        BY <1>9
    <2> QED BY <1>8, <2>1, <2>2, <2>5, <2>6, <2>7 DEF OrgRowsInv
<1> QED BY <1>10, <1>11, <1>12, <1>13, <1>14 DEF OrgInv

LEMMA OrgShows ==
    ASSUME OrgInv, OrgRowsInv
    PROVE  O!TypeOK /\ O!TreeShowsReachable /\ O!NobodyLeftBehind /\ O!TwinsOnlyFromOverlap
<1>0. \A o \in O!IDs : o \in OrgIDs /\ o # ROOTNODE
    BY DEF OrgRowsInv, O!OrgRow, O!IDs
<1>1. /\ O!SetTree(TRUE) = {o \in O!IDs : ROOTNODE \in O!Above(o)}
      /\ O!Sub(ROOTNODE) # {} => O!SetTree(FALSE) = O!SetTree(TRUE)
    <2>1. \A w \in BOOLEAN : w \/ O!Sub(ROOTNODE) # {} => O!FirstNodes(w) = {y \in data.orgs : y.par \in {ROOTNODE}}
        BY DEF O!FirstNodes, O!Sub
    <2> DEFINE T == {ROOTNODE}
    <2>2. T \cap O!IDs = {}
        BY <1>0
    <2>3. \A w \in BOOLEAN : w \/ O!Sub(ROOTNODE) # {} => O!SetTree(w) = {o \in O!IDs : O!Above(o) \cap T # {}}
        BY <2>1, <2>2, OrgTreeOf
    <2> QED BY <2>3
<1>2. O!Sub(ROOTNODE) = {} => O!SetTree(FALSE) = {o \in O!IDs : ~(O!Above(o) \subseteq O!IDs)}
    <2> SUFFICES ASSUME O!Sub(ROOTNODE) = {} PROVE O!SetTree(FALSE) = {o \in O!IDs : ~(O!Above(o) \subseteq O!IDs)}
        OBVIOUS
    <2> DEFINE T == OrgAll \ O!IDs
    <2>1. O!FirstNodes(FALSE) = {y \in data.orgs : y.par \in T}
        BY DEF O!FirstNodes, OrgAll, OrgRowsInv, O!OrgRow
    <2>2. T \cap O!IDs = {}
        OBVIOUS
    <2>3. /\ O!SetTree(FALSE) = {o \in O!IDs : O!Above(o) \cap T # {}}
          /\ \A o \in O!IDs : \A y \in O!Above(o) : y \in OrgAll
        <3> HIDE DEF T
        <3> QED BY <2>1, <2>2, OrgTreeOf
    <2> QED BY <2>3
<1>3. O!TreeShowsReachable
    BY <1>1, <1>2 DEF O!TreeShowsReachable, OrgRowsInv
<1>4. O!TypeOK
    <2>1. O!Cardinality(O!IDs) = O!Cardinality(data.orgs)
        BY OrgFinite, SameSets DEF O!IDs
    <2>2. O!Cardinality(page.open) <= 2
        BY SameSets DEF OrgRowsInv
    <2> QED BY <2>1, <2>2 DEF O!TypeOK, OrgRowsInv, OrgInv, OrgShapes
<1>5. O!NobodyLeftBehind
    BY DEF OrgInv, OrgLeftInv, OrgKept, O!NobodyLeftBehind
<1>6. O!TwinsOnlyFromOverlap
    BY DEF OrgInv, OrgTwinInv, OrgBoth, O!Overlapped, O!TwinsOnlyFromOverlap
<1> QED BY <1>3, <1>4, <1>5, <1>6

-----------------------------------------------------------------------------
(* GridTools.                                                                *)

ToolsN == Len(Rows0)
ToolsRow == GT!Range(Rows0)
ToolsRows == [1 .. ToolsN -> ToolsRow \cup {Hole}]
ToolsCodes == Held \cup Elsewhere
ToolsMap(d) ==
    /\ d.keys \in SUBSET Keys /\ IsFiniteSet(d.keys) /\ d.size \in Int
ToolsTexts(d) ==
    /\ d.server = [c \in ToolsCodes |-> d.server[c]] /\ d.held = [c \in Held |-> d.held[c]]
    /\ d.shown # <<>> => \E c \in ToolsCodes, v \in Values : d.shown = <<c, v, GT!TextOf(d, c, v)>>
ToolsData(d) ==
    /\ d = [rows |-> d.rows, selected |-> d.selected, keys |-> d.keys, size |-> d.size, server |-> d.server,
            held |-> d.held, shown |-> d.shown]
    /\ d.rows \in ToolsRows /\ d.selected \in SUBSET ToolsRow
    /\ ToolsMap(d) /\ ToolsTexts(d)

\* What holds unless something explains why not: all rows are there; the map has as
\* many keys as it says; the page holds the texts of the server.
ToolsTold(d, mixed) ==
    /\ "hole" \notin mixed => GT!Range(d.rows) = ToolsRow
    /\ "count" \notin mixed => d.size = Cardinality(d.keys)
    /\ "edited" \notin mixed => \A c \in Held : d.held[c] = d.server[c]
ToolsOrder(d, row, old) ==
    /\ d.selected = {row}
    /\ \A r, q \in ToolsRow \ {row} : GT!Before(d.rows, r, q) <=> GT!Before(old, r, q)
ToolsInv(d, p) ==
    /\ ToolsData(d) /\ ToolsTold(d, p.mixed)
    /\ p = [steps |-> p.steps, mixed |-> p.mixed, moved |-> p.moved]
    /\ "hole" \notin p.mixed /\ p.moved # <<>> => ToolsOrder(d, p.moved[1], p.moved[2])

LEMMA ToolsAssumed ==
    ASSUME GT!ToolsAssumption
    PROVE  /\ ToolsN \in Nat /\ Rows0 \in ToolsRows /\ Hole \notin ToolsRow
           /\ ToolsRow = {Rows0[i] : i \in 1 .. ToolsN}
<1>1. Rows0 \in Seq(ToolsRow) /\ Hole \notin ToolsRow
    BY DEF GT!ToolsAssumption, ToolsRow
<1>2. ToolsN \in Nat /\ Rows0 \in [1 .. ToolsN -> ToolsRow]
    BY <1>1 DEF ToolsN
<1>3. ToolsRow = {Rows0[i] : i \in DOMAIN Rows0}
    BY DEF ToolsRow, GT!Range
<1>4. DOMAIN Rows0 = 1 .. ToolsN
    BY <1>2
<1>5. Rows0 \in ToolsRows
    BY <1>2 DEF ToolsRows
<1> QED BY <1>1, <1>2, <1>3, <1>4, <1>5

LEMMA ToolsIsRows ==
    ASSUME GT!ToolsAssumption, NEW R \in ToolsRows
    PROVE  /\ Len(R) = ToolsN /\ DOMAIN R = 1 .. ToolsN
           /\ GT!Range(R) = {R[i] : i \in 1 .. ToolsN} /\ GT!Range(R) \subseteq ToolsRow \cup {Hole}
<1>1. ToolsN \in Nat /\ R \in [1 .. ToolsN -> ToolsRow \cup {Hole}]
    BY ToolsAssumed DEF ToolsRows
<1>2. R \in Seq(ToolsRow \cup {Hole}) /\ Len(R) = ToolsN
    BY <1>1
<1>3. DOMAIN R = 1 .. ToolsN
    BY <1>1
<1>4. GT!Range(R) = {R[i] : i \in DOMAIN R}
    BY DEF GT!Range
<1> QED BY <1>1, <1>2, <1>3, <1>4

LEMMA ToolsStart ==
    ASSUME GT!ToolsAssumption, GT!Init
    PROVE  ToolsInv(data, page)
<1> DEFINE ts == [ToolsCodes -> {f \in UNION {[X -> Texts] : X \in SUBSET Values} : TRUE}]
<1>1. \E t \in ts, s \in SUBSET ToolsRow :
         data = [rows |-> Rows0, selected |-> s, keys |-> {}, size |-> 0, server |-> t,
                 held |-> [c \in Held |-> t[c]], shown |-> <<>>]
    BY DEF GT!Init, ToolsRow, ToolsCodes
<1>2. PICK t \in ts, s \in SUBSET ToolsRow :
         data = [rows |-> Rows0, selected |-> s, keys |-> {}, size |-> 0, server |-> t,
                 held |-> [c \in Held |-> t[c]], shown |-> <<>>]
    BY <1>1
<1>3. t = [c \in ToolsCodes |-> t[c]]
    OBVIOUS
<1> HIDE DEF ts
<1>4. page = [steps |-> 0, mixed |-> {}, moved |-> <<>>]
    BY DEF GT!Init
<1>5. IsFiniteSet({}) /\ Cardinality({}) = 0
    BY FS_EmptySet
<1>6. ToolsMap(data) /\ data.size = Cardinality(data.keys)
    BY <1>2, <1>5 DEF ToolsMap
<1>7. ToolsTexts(data) /\ \A c \in Held : data.held[c] = data.server[c]
    BY <1>2, <1>3 DEF ToolsTexts
<1>8. ToolsData(data)
    BY <1>2, <1>6, <1>7, ToolsAssumed DEF ToolsData
<1>9. ToolsTold(data, {})
    BY <1>2, <1>6, <1>7 DEF ToolsTold, ToolsRow
<1> QED BY <1>4, <1>8, <1>9 DEF ToolsInv

\* A row changes places with one next to it: the others keep their order.
LEMMA ToolsSwap ==
    ASSUME GT!ToolsAssumption, NEW R \in ToolsRows, NEW i \in 1 .. ToolsN, NEW j \in 1 .. ToolsN, j = i - 1 \/ j = i + 1
    PROVE  LET T == [R EXCEPT ![i] = R[j], ![j] = R[i]] IN
           /\ T \in ToolsRows /\ GT!Range(T) = GT!Range(R)
           /\ \A r, q : r # R[i] /\ q # R[i] => (GT!Before(T, r, q) <=> GT!Before(R, r, q))
<1> DEFINE T == [R EXCEPT ![i] = R[j], ![j] = R[i]]
           to(k) == IF k = i THEN j ELSE IF k = j THEN i ELSE k
<1>0. ToolsN \in Nat
    BY ToolsAssumed
<1>1. T \in ToolsRows
    BY DEF ToolsRows
<1>2. \A k \in 1 .. ToolsN : to(k) \in 1 .. ToolsN /\ T[k] = R[to(k)] /\ R[k] = T[to(k)]
    BY DEF ToolsRows
<1>3. T[j] = R[i]
    BY <1>0 DEF ToolsRows
<1>4. \A k, l \in 1 .. ToolsN : k < l /\ k # j /\ l # j => to(k) < to(l)
    BY <1>0
<1>5. \A k, l \in 1 .. ToolsN : k < l /\ k # i /\ l # i => to(k) < to(l)
    BY <1>0
<1> HIDE DEF T, to
<1>6. Len(T) = ToolsN /\ Len(R) = ToolsN /\ GT!Range(T) = {T[k] : k \in 1 .. ToolsN} /\ GT!Range(R) = {R[k] : k \in 1 .. ToolsN}
    BY <1>1, ToolsIsRows
<1>7. GT!Range(T) = GT!Range(R)
    BY <1>2, <1>6
<1>8. ASSUME NEW r, NEW q, r # R[i], q # R[i] PROVE GT!Before(T, r, q) <=> GT!Before(R, r, q)
    <2>1. GT!Before(T, r, q) <=> \E k, l \in 1 .. ToolsN : k < l /\ T[k] = r /\ T[l] = q
        BY <1>6 DEF GT!Before
    <2>2. GT!Before(R, r, q) <=> \E k, l \in 1 .. ToolsN : k < l /\ R[k] = r /\ R[l] = q
        BY <1>6 DEF GT!Before
    <2>3. ASSUME NEW k \in 1 .. ToolsN, NEW l \in 1 .. ToolsN, k < l, T[k] = r, T[l] = q
          PROVE  GT!Before(R, r, q)
        <3>1. k # j /\ l # j
            BY <1>3, <1>8, <2>3
        <3>2. to(k) < to(l) /\ to(k) \in 1 .. ToolsN /\ to(l) \in 1 .. ToolsN /\ R[to(k)] = r /\ R[to(l)] = q
            BY <1>2, <1>4, <2>3, <3>1
        <3> QED BY <2>2, <3>2
    <2>4. ASSUME NEW k \in 1 .. ToolsN, NEW l \in 1 .. ToolsN, k < l, R[k] = r, R[l] = q
          PROVE  GT!Before(T, r, q)
        <3>1. k # i /\ l # i
            BY <1>8, <2>4
        <3>2. to(k) < to(l) /\ to(k) \in 1 .. ToolsN /\ to(l) \in 1 .. ToolsN /\ T[to(k)] = r /\ T[to(l)] = q
            BY <1>2, <1>5, <2>4, <3>1
        <3> QED BY <2>1, <3>2
    <2> QED BY <2>1, <2>2, <2>3, <2>4
<1> QED BY <1>1, <1>7, <1>8 DEF T

LEMMA ToolsFirst ==
    ASSUME GT!ToolsAssumption, NEW d, ToolsData(d)
    PROVE  GT!FirstSelected(d) \in 0 .. ToolsN
<1> DEFINE I == {i \in 1 .. ToolsN : d.rows[i] \in d.selected}
<1>0. ToolsN \in Nat /\ Len(d.rows) = ToolsN /\ DOMAIN d.rows = 1 .. ToolsN
    BY ToolsAssumed, ToolsIsRows DEF ToolsData
<1>1. GT!FirstSelected(d) = IF I = {} THEN 0 ELSE CHOOSE i \in I : \A j \in I : i <= j
    BY <1>0 DEF GT!FirstSelected
<1>2. I # {} => \E x \in I : \A y \in I : x <= y
    <2>1. I \subseteq Nat
        BY <1>0
    <2> HIDE DEF I
    <2> QED BY <2>1, Purging!SmallestNumber
<1>3. I # {} => (CHOOSE i \in I : \A j \in I : i <= j) \in I
    <2> HIDE DEF I
    <2> QED BY <1>2
<1> QED BY <1>0, <1>1, <1>3

\* Two rows change places.
LEMMA ToolsSwapped ==
    ASSUME GT!ToolsAssumption, NEW d, ToolsData(d), NEW i \in 1 .. ToolsN, NEW j \in 1 .. ToolsN, j = i - 1 \/ j = i + 1,
           d.rows[i] # Hole
    PROVE  LET e == GT!Swapped(d, i, j) IN
           /\ ToolsData(e) /\ GT!Range(e.rows) = GT!Range(d.rows) /\ ToolsOrder(e, d.rows[i], d.rows)
           /\ e.keys = d.keys /\ e.size = d.size /\ e.held = d.held /\ e.server = d.server
<1> DEFINE R == [d.rows EXCEPT ![i] = d.rows[j], ![j] = d.rows[i]]
           e == GT!Swapped(d, i, j)
<1>1. e = [rows |-> R, selected |-> {d.rows[i]}, keys |-> d.keys, size |-> d.size, server |-> d.server,
           held |-> d.held, shown |-> d.shown]
    <2>1. d = [rows |-> d.rows, selected |-> d.selected, keys |-> d.keys, size |-> d.size, server |-> d.server,
               held |-> d.held, shown |-> d.shown]
        BY DEF ToolsData
    <2>2. e = [d EXCEPT !.rows = R, !.selected = {d.rows[i]}]
        BY DEF GT!Swapped
    <2> HIDE DEF e, R
    <2> QED BY <2>1, <2>2
<1>2. d.rows \in ToolsRows
    BY DEF ToolsData
<1>3. /\ R \in ToolsRows /\ GT!Range(R) = GT!Range(d.rows)
      /\ \A r, q : r # d.rows[i] /\ q # d.rows[i] => (GT!Before(R, r, q) <=> GT!Before(d.rows, r, q))
    BY <1>2, ToolsSwap
<1>4. d.rows[i] \in ToolsRow
    BY <1>2 DEF ToolsRows
<1> HIDE DEF R, e
<1>5. \A c, v : GT!TextOf(e, c, v) = GT!TextOf(d, c, v)
    BY <1>1 DEF GT!TextOf
<1>6. ToolsMap(e) /\ ToolsTexts(e)
    BY <1>1, <1>5 DEF ToolsData, ToolsMap, ToolsTexts
<1>7. ToolsData(e)
    BY <1>1, <1>3, <1>4, <1>6 DEF ToolsData
<1>8. ToolsOrder(e, d.rows[i], d.rows)
    BY <1>1, <1>3 DEF ToolsOrder
<1> QED BY <1>1, <1>3, <1>7, <1>8 DEF e

\* The end of every step.
LEMMA ToolsMoves ==
    ASSUME GT!ToolsAssumption, ToolsInv(data, page), NEW d, NEW what, NEW row, GT!Moves(d, what, row),
           ToolsData(d), ToolsTold(d, page.mixed \cup what),
           "hole" \notin what /\ d.rows # data.rows => ToolsOrder(d, row, data.rows)
    PROVE  ToolsInv(data', page')
<1> DEFINE m == page.mixed \cup what
           w == IF d.rows = data.rows THEN <<>> ELSE <<row, data.rows>>
<1>1. data' = d /\ page' = [steps |-> page.steps + 1, mixed |-> m, moved |-> w]
    BY DEF GT!Moves
<1>2. ASSUME "hole" \notin m, w # <<>> PROVE ToolsOrder(d, w[1], w[2])
    <2>1. w = <<row, data.rows>> /\ d.rows # data.rows /\ "hole" \notin what
        BY <1>2
    <2>2. w[1] = row /\ w[2] = data.rows
        BY <2>1
    <2> HIDE DEF w
    <2> QED BY <2>1, <2>2
<1> HIDE DEF m, w
<1>3. ToolsTold(d, m)
    BY DEF m
<1> QED BY <1>1, <1>2, <1>3 DEF ToolsInv

LEMMA ToolsStep ==
    ASSUME GT!ToolsAssumption, ToolsInv(data, page), [GT!Next]_(<<data, page>>)
    PROVE  ToolsInv(data', page')
<1>0. /\ ToolsData(data) /\ ToolsTold(data, page.mixed) /\ ToolsN \in Nat
      /\ data = [rows |-> data.rows, selected |-> data.selected, keys |-> data.keys, size |-> data.size,
                 server |-> data.server, held |-> data.held, shown |-> data.shown]
      /\ data.rows \in ToolsRows /\ Len(data.rows) = ToolsN /\ DOMAIN data.rows = 1 .. ToolsN
      /\ ToolsMap(data) /\ ToolsTexts(data)
    BY ToolsAssumed, ToolsIsRows DEF ToolsInv, ToolsData
<1>d. data = [rows |-> data.rows, selected |-> data.selected, keys |-> data.keys, size |-> data.size,
              server |-> data.server, held |-> data.held, shown |-> data.shown]
    BY <1>0
<1>1. ASSUME NEW i \in 0 .. ToolsN, GT!MoveUp(i) PROVE ToolsInv(data', page')
    <2> DEFINE at == IF i <= 1 THEN GT!FirstSelected(data) ELSE i
               row == IF at = 0 THEN Hole ELSE data.rows[at]
    <2>1. GT!Whole /\ GT!Moves(GT!MovedUp(data, i), {}, row)
        BY <1>1 DEF GT!MoveUp
    <2>2. at \in 0 .. ToolsN
        BY <1>0, ToolsFirst
    <2>3. GT!MovedUp(data, i) = IF at <= 1 THEN data ELSE GT!Swapped(data, at, at - 1)
        BY DEF GT!MovedUp
    <2> HIDE DEF at
    <2>4. CASE at <= 1
        <3>1. GT!Moves(data, {}, row)
            BY <2>1, <2>3, <2>4
        <3>2. ToolsTold(data, page.mixed \cup {})
            BY <1>0
        <3> HIDE DEF row
        <3> QED BY <1>0, <3>1, <3>2, ToolsMoves
    <2>5. CASE ~(at <= 1)
        <3> DEFINE e == GT!Swapped(data, at, at - 1)
        <3>1. at \in 1 .. ToolsN /\ at - 1 \in 1 .. ToolsN /\ row = data.rows[at]
            BY <1>0, <2>2, <2>5
        <3>2. data.rows[at] # Hole
            BY <1>0, <2>1, <3>1 DEF GT!Whole, GT!Range
        <3>3. /\ ToolsData(e) /\ GT!Range(e.rows) = GT!Range(data.rows) /\ ToolsOrder(e, data.rows[at], data.rows)
              /\ e.keys = data.keys /\ e.size = data.size /\ e.held = data.held /\ e.server = data.server
            BY <1>0, <3>1, <3>2, ToolsSwapped
        <3>4. GT!Moves(e, {}, row)
            BY <2>1, <2>3, <2>5
        <3> HIDE DEF e, row
        <3>5. ToolsTold(e, page.mixed \cup {})
            BY <1>0, <3>3 DEF ToolsTold
        <3> QED BY <3>1, <3>3, <3>4, <3>5, ToolsMoves
    <2> QED BY <2>4, <2>5
<1>2. ASSUME NEW i \in 0 .. ToolsN, GT!MoveDown(i) PROVE ToolsInv(data', page')
    <2> DEFINE row == IF i = 0 THEN Hole ELSE data.rows[i]
               what == IF i = 0 THEN {"hole"} ELSE {}
    <2>1. GT!Whole /\ GT!Moves(GT!MovedDown(data, i), what, row)
        BY <1>2 DEF GT!MoveDown
    <2>2. CASE i = ToolsN
        <3>1. GT!MovedDown(data, i) = data
            BY <1>0, <2>2 DEF GT!MovedDown
        <3>2. ToolsTold(data, page.mixed \cup what)
            BY <1>0 DEF ToolsTold
        <3> HIDE DEF row, what
        <3> QED BY <1>0, <2>1, <3>1, <3>2, ToolsMoves
    <2>3. CASE i # ToolsN /\ i = 0
        <3> DEFINE R == [data.rows EXCEPT ![2] = Hole]
                   e == [data EXCEPT !.rows = R]
        <3>1. GT!MovedDown(data, i) = e
            BY <1>0, <2>3 DEF GT!MovedDown
        <3>2. R \in ToolsRows
            BY <1>0 DEF ToolsRows
        <3> HIDE DEF R
        <3>3. e = [rows |-> R, selected |-> data.selected, keys |-> data.keys, size |-> data.size,
                   server |-> data.server, held |-> data.held, shown |-> data.shown]
            BY <1>0
        <3> HIDE DEF e
        <3>4. \A c, v : GT!TextOf(e, c, v) = GT!TextOf(data, c, v)
            BY <3>3 DEF GT!TextOf
        <3>5. ToolsMap(e) /\ ToolsTexts(e)
            BY <1>0, <3>3, <3>4 DEF ToolsMap, ToolsTexts
        <3>6. ToolsData(e)
            BY <1>0, <3>2, <3>3, <3>5 DEF ToolsData
        <3>7. what = {"hole"}
            BY <2>3
        <3>8. ToolsTold(e, page.mixed \cup what)
            BY <1>0, <3>3, <3>7 DEF ToolsTold
        <3> HIDE DEF row, what
        <3> QED BY <2>1, <3>1, <3>6, <3>7, <3>8, ToolsMoves
    <2>4. CASE i # ToolsN /\ i # 0
        <3> DEFINE e == GT!Swapped(data, i, i + 1)
        <3>1. i \in 1 .. ToolsN /\ i + 1 \in 1 .. ToolsN /\ row = data.rows[i] /\ what = {}
            BY <1>0, <2>4
        <3>2. data.rows[i] # Hole
            BY <1>0, <2>1, <3>1 DEF GT!Whole, GT!Range
        <3>3. /\ ToolsData(e) /\ GT!Range(e.rows) = GT!Range(data.rows) /\ ToolsOrder(e, data.rows[i], data.rows)
              /\ e.keys = data.keys /\ e.size = data.size /\ e.held = data.held /\ e.server = data.server
            BY <1>0, <3>1, <3>2, ToolsSwapped
        <3>4. GT!MovedDown(data, i) = e
            BY <1>0, <2>4 DEF GT!MovedDown
        <3> HIDE DEF e, row, what
        <3>5. ToolsTold(e, page.mixed \cup what)
            BY <1>0, <3>1, <3>3 DEF ToolsTold
        <3> QED BY <2>1, <3>1, <3>3, <3>4, <3>5, ToolsMoves
    <2> QED BY <2>2, <2>3, <2>4
<1>3. ASSUME NEW r \in ToolsRow, GT!Select(r) PROVE ToolsInv(data', page')
    <2> DEFINE e == [data EXCEPT !.selected = {r}]
    <2>1. GT!Moves(e, {}, Hole)
        BY <1>3 DEF GT!Select, GT!Becomes
    <2>2. e = [rows |-> data.rows, selected |-> {r}, keys |-> data.keys, size |-> data.size,
               server |-> data.server, held |-> data.held, shown |-> data.shown]
        <3>1. e = [data EXCEPT !.selected = {r}]
            OBVIOUS
        <3> HIDE DEF e
        <3> QED BY <1>d, <3>1
    <2> HIDE DEF e
    <2>3. \A c, v : GT!TextOf(e, c, v) = GT!TextOf(data, c, v)
        BY <2>2 DEF GT!TextOf
    <2>4. ToolsMap(e) /\ ToolsTexts(e)
        BY <1>0, <2>2, <2>3 DEF ToolsMap, ToolsTexts
    <2>5. ToolsData(e)
        BY <1>0, <2>2, <2>4 DEF ToolsData
    <2>6. ToolsTold(e, page.mixed \cup {})
        BY <1>0, <2>2 DEF ToolsTold
    <2>7. e.rows = data.rows
        BY <2>2
    <2> QED BY <2>1, <2>5, <2>6, <2>7, ToolsMoves
<1>4. ASSUME NEW k \in Keys, GT!PutKey(k) \/ GT!RemoveKey(k) PROVE ToolsInv(data', page')
    <2>1. \E ks, n, what :
            /\ GT!Moves([data EXCEPT !.size = n, !.keys = ks], what, Hole)
            /\ ks \in SUBSET Keys /\ IsFiniteSet(ks) /\ n \in Int
            /\ "count" \notin page.mixed \cup what => n = Cardinality(ks)
        <3>0. IsFiniteSet(data.keys) /\ data.keys \in SUBSET Keys /\ data.size \in Int
            BY <1>0 DEF ToolsMap
        <3>1. CASE GT!PutKey(k)
            <4> DEFINE ks == data.keys \cup {k}
                       n == IF k \in data.keys \cup OwnNames THEN data.size ELSE data.size + 1
                       what == IF k \in OwnNames THEN {"count"} ELSE {}
            <4>1. GT!Moves([data EXCEPT !.size = n, !.keys = ks], what, Hole)
                BY <3>1 DEF GT!PutKey, GT!Becomes, GT!Put
            <4>2. IsFiniteSet(ks) /\ Cardinality(ks) = IF k \in data.keys THEN Cardinality(data.keys) ELSE Cardinality(data.keys) + 1
                BY <3>0, FS_AddElement
            <4>3. "count" \notin page.mixed \cup what => n = Cardinality(ks)
                <5>1. "count" \notin page.mixed \cup what => k \notin OwnNames /\ data.size = Cardinality(data.keys)
                    BY <1>0 DEF ToolsTold
                <5> HIDE DEF ks, what
                <5> QED BY <4>2, <5>1
            <4>4. ks \in SUBSET Keys /\ n \in Int
                BY <3>0
            <4> HIDE DEF ks, n, what
            <4> QED BY <4>1, <4>2, <4>3, <4>4
        <3>2. CASE GT!RemoveKey(k)
            <4> DEFINE ks == data.keys \ {k}
                       n == data.size - 1
                       what == IF k \in data.keys THEN {} ELSE {"count"}
            <4>1. GT!Moves([data EXCEPT !.size = n, !.keys = ks], what, Hole)
                BY <3>2 DEF GT!RemoveKey, GT!Becomes, GT!Taken
            <4>2. IsFiniteSet(ks) /\ Cardinality(ks) = IF k \in data.keys THEN Cardinality(data.keys) - 1 ELSE Cardinality(data.keys)
                BY <3>0, FS_RemoveElement
            <4>3. "count" \notin page.mixed \cup what => n = Cardinality(ks)
                <5>1. "count" \notin page.mixed \cup what => k \in data.keys /\ data.size = Cardinality(data.keys)
                    BY <1>0 DEF ToolsTold
                <5> HIDE DEF ks, what
                <5> QED BY <4>2, <5>1
            <4>4. ks \in SUBSET Keys /\ n \in Int
                BY <3>0
            <4> HIDE DEF ks, n, what
            <4> QED BY <4>1, <4>2, <4>3, <4>4
        <3> QED BY <1>4, <3>1, <3>2
    <2>2. PICK ks, n, what :
            /\ GT!Moves([data EXCEPT !.size = n, !.keys = ks], what, Hole)
            /\ ks \in SUBSET Keys /\ IsFiniteSet(ks) /\ n \in Int
            /\ "count" \notin page.mixed \cup what => n = Cardinality(ks)
        BY <2>1
    <2> DEFINE e == [data EXCEPT !.size = n, !.keys = ks]
    <2>3. e = [rows |-> data.rows, selected |-> data.selected, keys |-> ks, size |-> n,
               server |-> data.server, held |-> data.held, shown |-> data.shown]
        <3>1. e = [data EXCEPT !.size = n, !.keys = ks]
            OBVIOUS
        <3> HIDE DEF e
        <3> QED BY <1>d, <3>1
    <2>4. GT!Moves(e, what, Hole)
        BY <2>2
    <2> HIDE DEF e
    <2>5. \A c, v : GT!TextOf(e, c, v) = GT!TextOf(data, c, v)
        BY <2>3 DEF GT!TextOf
    <2>6. ToolsMap(e) /\ ToolsTexts(e)
        BY <1>0, <2>2, <2>3, <2>5 DEF ToolsMap, ToolsTexts
    <2>7. ToolsData(e)
        BY <1>0, <2>3, <2>6 DEF ToolsData
    <2>8. ToolsTold(e, page.mixed \cup what)
        BY <1>0, <2>2, <2>3 DEF ToolsTold
    <2>9. e.rows = data.rows
        BY <2>3
    <2> QED BY <2>4, <2>7, <2>8, <2>9, ToolsMoves
<1>5. ASSUME NEW c \in ToolsCodes, NEW v \in Values, GT!Show(c, v) PROVE ToolsInv(data', page')
    <2> DEFINE z == <<c, v, GT!TextOf(data, c, v)>>
               e == [data EXCEPT !.shown = z]
    <2>1. GT!Moves(e, {}, Hole)
        BY <1>5 DEF GT!Show, GT!Becomes
    <2>2. e = [rows |-> data.rows, selected |-> data.selected, keys |-> data.keys, size |-> data.size,
               server |-> data.server, held |-> data.held, shown |-> z]
        <3> HIDE DEF z
        <3> QED BY <1>0
    <2> HIDE DEF e
    <2>3. \A b, w : GT!TextOf(e, b, w) = GT!TextOf(data, b, w)
        BY <2>2 DEF GT!TextOf
    <2>4. e.shown = <<c, v, GT!TextOf(e, c, v)>>
        BY <2>2, <2>3
    <2>5. ToolsMap(e) /\ e.server = data.server /\ e.held = data.held
        BY <1>0, <2>2 DEF ToolsMap
    <2>6. ToolsTexts(e)
        BY <1>0, <2>4, <2>5 DEF ToolsTexts
    <2>7. ToolsData(e)
        BY <1>0, <2>2, <2>5, <2>6 DEF ToolsData
    <2>8. ToolsTold(e, page.mixed \cup {})
        BY <1>0, <2>2 DEF ToolsTold
    <2>9. e.rows = data.rows
        BY <2>2
    <2> QED BY <2>1, <2>7, <2>8, <2>9, ToolsMoves
<1>6. ASSUME NEW c \in ToolsCodes, NEW t, GT!Edit(c, t) PROVE ToolsInv(data', page')
    <2> DEFINE s == [data.server EXCEPT ![c] = t]
               e == [data EXCEPT !.server = s, !.shown = <<>>]
               what == IF c \in Held THEN {"edited"} ELSE {}
    <2>1. GT!Moves(e, what, Hole)
        <3>1. [data EXCEPT !.server[c] = t, !.shown = <<>>] = e
            BY <1>0
        <3> QED BY <1>6, <3>1 DEF GT!Edit, GT!Becomes
    <2>2. e = [rows |-> data.rows, selected |-> data.selected, keys |-> data.keys, size |-> data.size,
               server |-> s, held |-> data.held, shown |-> <<>>]
        <3>1. e = [data EXCEPT !.server = s, !.shown = <<>>]
            OBVIOUS
        <3> HIDE DEF e, s
        <3> QED BY <1>d, <3>1
    <2>3. s = [b \in ToolsCodes |-> s[b]] /\ \A b \in ToolsCodes : b # c => s[b] = data.server[b]
        BY <1>0 DEF ToolsTexts
    <2> HIDE DEF e, s
    <2>4. ToolsMap(e) /\ ToolsTexts(e)
        BY <1>0, <2>2, <2>3 DEF ToolsMap, ToolsTexts
    <2>5. ToolsData(e)
        BY <1>0, <2>2, <2>4 DEF ToolsData
    <2>6. "edited" \notin page.mixed \cup what => \A b \in Held : e.held[b] = e.server[b]
        <3>1. \A b \in Held : b \in ToolsCodes
            BY DEF ToolsCodes
        <3> QED BY <1>0, <2>2, <2>3, <3>1 DEF ToolsTold
    <2>7. ToolsTold(e, page.mixed \cup what)
        BY <1>0, <2>2, <2>6 DEF ToolsTold
    <2>8. e.rows = data.rows
        BY <2>2
    <2> HIDE DEF what
    <2> QED BY <2>1, <2>5, <2>7, <2>8, ToolsMoves
<1>7. CASE UNCHANGED <<data, page>>
    BY <1>7
<1>8. GT!Next => \/ \E i \in 0 .. ToolsN : GT!MoveUp(i) \/ GT!MoveDown(i)
                 \/ \E r \in ToolsRow : GT!Select(r)
                 \/ \E k \in Keys : GT!PutKey(k) \/ GT!RemoveKey(k)
                 \/ \E c \in ToolsCodes, v \in Values : GT!Show(c, v) \/ \E t : GT!Edit(c, t)
    BY DEF GT!Next, ToolsN, ToolsRow, ToolsCodes
<1> QED BY <1>1, <1>2, <1>3, <1>4, <1>5, <1>6, <1>7, <1>8

LEMMA ToolsShows ==
    ASSUME GT!ToolsAssumption, ToolsInv(data, page)
    PROVE  GT!TypeOK /\ GT!ToolsKeep
<1>0. ToolsData(data) /\ ToolsTold(data, page.mixed)
    BY DEF ToolsInv
<1>1. GT!TypeOK
    BY <1>0, ToolsIsRows DEF ToolsData, ToolsMap, ToolsRow, GT!TypeOK
<1>2. "hole" \notin page.mixed =>
          /\ GT!Range(data.rows) = GT!Range(Rows0)
          /\ page.moved # <<>> =>
                /\ data.selected = {page.moved[1]}
                /\ \A r, q \in GT!Range(Rows0) \ {page.moved[1]} :
                      GT!Before(data.rows, r, q) <=> GT!Before(page.moved[2], r, q)
    BY <1>0 DEF ToolsInv, ToolsTold, ToolsOrder, ToolsRow
<1>3. "count" \notin page.mixed => data.size = GT!Cardinality(GT!KeysOf(data))
    <2>1. Cardinality(data.keys) = GT!Cardinality(data.keys)
        BY Zenon DEF Cardinality, GT!Cardinality
    <2> QED BY <1>0, <2>1 DEF ToolsTold, GT!KeysOf
<1>4. ASSUME data.shown # <<>>, "edited" \notin page.mixed
      PROVE  LET t == data.server[data.shown[1]] v == data.shown[2] IN
             data.shown[3] = IF v \in DOMAIN t THEN t[v] ELSE v
    <2>1. PICK c \in ToolsCodes, v \in Values : data.shown = <<c, v, GT!TextOf(data, c, v)>>
        BY <1>0, <1>4 DEF ToolsData, ToolsTexts
    <2>2. data.shown[1] = c /\ data.shown[2] = v /\ data.shown[3] = GT!TextOf(data, c, v)
        BY <2>1
    <2>3. c \in Held => data.held[c] = data.server[c]
        BY <1>0, <1>4 DEF ToolsTold
    <2>4. GT!TextOf(data, c, v) = IF v \in DOMAIN data.server[c] THEN data.server[c][v] ELSE v
        BY <2>3 DEF GT!TextOf
    <2> QED BY <2>2, <2>4
<1> QED BY <1>1, <1>2, <1>3, <1>4 DEF GT!ToolsKeep

-----------------------------------------------------------------------------
(* TreeGridCheck.                                                            *)

\* The rows above a row are found row by row: Above is what its definition says.
CascadeNodes == RowIDs \cup {RowRoot}
CascadeTop(r) == r = RowRoot \/ RowParentOf[r] = RowRoot
CascadeUp(f, r) == IF CascadeTop(r) THEN <<>> ELSE <<RowParentOf[r]>> \o f[RowParentOf[r]]

\* A numbering of the rows that rises from the root down.
CascadeRises(n) ==
    /\ n \in [CascadeNodes -> Nat]
    /\ \E k \in Nat : \A r \in CascadeNodes : n[r] <= k
    /\ \A r \in CascadeNodes : ~CascadeTop(r) => RowParentOf[r] \in RowIDs /\ n[RowParentOf[r]] < n[r]

LEMMA CascadeNumbers ==
    ASSUME TC!TreeGridCheckAssumption
    PROVE  \E n : CascadeRises(n)
<1>1. /\ RowParentOf \in [RowIDs -> CascadeNodes] /\ RowRoot \notin RowIDs /\ TC!IsFiniteSet(RowIDs)
      /\ \E n \in [RowIDs -> 1 .. TC!Cardinality(RowIDs)] :
            \A r \in RowIDs : RowParentOf[r] # RowRoot => n[RowParentOf[r]] < n[r]
    BY DEF TC!TreeGridCheckAssumption, CascadeNodes
<1>2. TC!Cardinality(RowIDs) = Cardinality(RowIDs)
    BY Zenon DEF TC!Cardinality, Cardinality
<1>3. IsFiniteSet(RowIDs)
    BY Zenon, <1>1 DEF TC!IsFiniteSet, IsFiniteSet
<1>4. Cardinality(RowIDs) \in Nat
    BY <1>3, FS_CardinalityType
<1>5. PICK m \in [RowIDs -> 1 .. Cardinality(RowIDs)] :
         \A r \in RowIDs : RowParentOf[r] # RowRoot => m[RowParentOf[r]] < m[r]
    BY <1>1, <1>2
<1> DEFINE n == [r \in CascadeNodes |-> IF r = RowRoot THEN 0 ELSE m[r]]
<1>6. \A r \in CascadeNodes : n[r] = IF r = RowRoot THEN 0 ELSE m[r]
    OBVIOUS
<1>7. n \in [CascadeNodes -> Nat] /\ \A r \in CascadeNodes : n[r] <= Cardinality(RowIDs)
    BY <1>4 DEF CascadeNodes
<1> HIDE DEF n
<1>8. ASSUME NEW r \in CascadeNodes, ~CascadeTop(r)
      PROVE  RowParentOf[r] \in RowIDs /\ n[RowParentOf[r]] < n[r]
    <2>1. r \in RowIDs /\ RowParentOf[r] # RowRoot /\ RowParentOf[r] \in CascadeNodes /\ r # RowRoot
        BY <1>1, <1>8 DEF CascadeTop, CascadeNodes
    <2>2. RowParentOf[r] \in RowIDs
        BY <2>1 DEF CascadeNodes
    <2>3. n[r] = m[r] /\ n[RowParentOf[r]] = m[RowParentOf[r]]
        BY <1>6, <2>1
    <2> QED BY <1>5, <2>1, <2>2, <2>3
<1> QED BY <1>4, <1>7, <1>8 DEF CascadeRises

LEMMA CascadeAbove ==
    ASSUME TC!TreeGridCheckAssumption
    PROVE  \A r \in CascadeNodes : TC!Above[r] = CascadeUp(TC!Above, r)
<1>0. PICK n : CascadeRises(n)
    BY CascadeNumbers
<1> DEFINE Low(k) == {r \in CascadeNodes : n[r] <= k}
           Good(k) == \E f : f = [r \in Low(k) |-> CascadeUp(f, r)]
           Bad == {k \in Nat : ~Good(k)}
<1>1. /\ \A r \in CascadeNodes : n[r] \in Nat
      /\ \A r \in CascadeNodes : ~CascadeTop(r) =>
            RowParentOf[r] \in CascadeNodes /\ n[RowParentOf[r]] \in Nat /\ n[RowParentOf[r]] < n[r]
    BY <1>0 DEF CascadeRises, CascadeNodes
<1>2. Good(0)
    <2>1. ASSUME NEW r \in Low(0) PROVE CascadeTop(r)
        BY <1>1
    <2> DEFINE f == [r \in Low(0) |-> <<>>]
    <2>2. f = [r \in Low(0) |-> CascadeUp(f, r)]
        BY <2>1 DEF CascadeUp
    <2> QED BY <2>2
<1>3. ASSUME NEW k \in Nat, Good(k) PROVE Good(k + 1)
    <2>1. PICK g : g = [r \in Low(k) |-> CascadeUp(g, r)]
        BY <1>3
    <2> DEFINE h == [r \in Low(k + 1) |-> IF r \in Low(k) THEN g[r] ELSE CascadeUp(g, r)]
    <2>2. \A r \in Low(k + 1) : ~CascadeTop(r) => RowParentOf[r] \in Low(k)
        BY <1>1
    <2>3. \A r \in Low(k) : r \in Low(k + 1)
        BY <1>1
    <2>4. \A r \in Low(k) : h[r] = g[r] /\ g[r] = CascadeUp(g, r)
        BY <2>1, <2>3
    <2>5. ASSUME NEW r \in Low(k + 1) PROVE h[r] = CascadeUp(h, r)
        <3>1. h[r] = CascadeUp(g, r)
            BY <2>4
        <3>2. ~CascadeTop(r) => g[RowParentOf[r]] = h[RowParentOf[r]]
            BY <2>2, <2>4
        <3> HIDE DEF h, Low
        <3> QED BY <3>1, <3>2 DEF CascadeUp
    <2>6. h = [r \in Low(k + 1) |-> h[r]]
        OBVIOUS
    <2>7. h = [r \in Low(k + 1) |-> CascadeUp(h, r)]
        <3> HIDE DEF h, Low
        <3> QED BY <2>5, <2>6
    <2> HIDE DEF h, Low
    <2> QED BY <2>7
<1>4. Bad = {}
    <2> SUFFICES ASSUME Bad # {} PROVE FALSE
        OBVIOUS
    <2> HIDE DEF Good
    <2>1. PICK m \in Bad : \A k \in Bad : m <= k
        BY Purging!SmallestNumber
    <2>2. m # 0 /\ m \in Nat
        BY <1>2
    <2>3. m - 1 \in Nat /\ m - 1 \notin Bad
        BY <2>1, <2>2
    <2>4. Good((m - 1) + 1)
        BY <1>3, <2>3
    <2>5. (m - 1) + 1 = m
        BY <2>2
    <2> QED BY <2>4, <2>5
<1>5. PICK k \in Nat : \A r \in CascadeNodes : n[r] <= k
    BY <1>0 DEF CascadeRises
<1>6. Low(k) = CascadeNodes
    BY <1>5
<1>7. Good(k)
    <2> HIDE DEF Good
    <2> QED BY <1>4
<1> HIDE DEF Low
<1>8. \E f : f = [r \in CascadeNodes |-> CascadeUp(f, r)]
    BY <1>6, <1>7
<1> DEFINE a == CHOOSE f : f = [r \in CascadeNodes |-> CascadeUp(f, r)]
<1>9. a = [r \in CascadeNodes |-> CascadeUp(a, r)]
    BY <1>8
<1>10. TC!Above = a
    BY DEF TC!Above, CascadeUp, CascadeTop, CascadeNodes
<1> HIDE DEF a
<1> QED BY <1>9, <1>10

\* What is above a row: rows with smaller numbers, and what is above those.
LEMMA CascadeHigher ==
    ASSUME TC!TreeGridCheckAssumption, NEW r \in CascadeNodes
    PROVE  /\ TC!Above[r] \in Seq(RowIDs)
           /\ r \notin TC!ToSet(TC!Above[r])
           /\ TC!ToSet(TC!Above[r]) \subseteq RowIDs
           /\ \A a \in TC!ToSet(TC!Above[r]) : TC!ToSet(TC!Above[a]) \subseteq TC!ToSet(TC!Above[r])
           /\ CascadeTop(r) => TC!ToSet(TC!Above[r]) = {}
           /\ ~CascadeTop(r) => TC!ToSet(TC!Above[r]) = {RowParentOf[r]} \cup TC!ToSet(TC!Above[RowParentOf[r]])
<1>0. PICK n : CascadeRises(n)
    BY CascadeNumbers
<1>1. /\ \A q \in CascadeNodes : n[q] \in Nat
      /\ \A q \in CascadeNodes : ~CascadeTop(q) =>
            /\ RowParentOf[q] \in RowIDs /\ RowParentOf[q] \in CascadeNodes
            /\ n[RowParentOf[q]] \in Nat /\ n[RowParentOf[q]] < n[q]
    BY <1>0 DEF CascadeRises, CascadeNodes
<1> DEFINE A(q) == TC!ToSet(TC!Above[q])
           Set(q) == IF CascadeTop(q) THEN {} ELSE {RowParentOf[q]} \cup A(RowParentOf[q])
           Good(q) == /\ TC!Above[q] \in Seq(RowIDs) /\ A(q) = Set(q)
                      /\ \A a \in A(q) : a \in RowIDs /\ n[a] < n[q] /\ A(a) \subseteq A(q)
           Bad == {q \in CascadeNodes : ~Good(q)}
<1>2. ASSUME NEW q \in CascadeNodes, CascadeTop(q) PROVE Good(q)
    <2>1. TC!Above[q] = <<>>
        BY <1>2, CascadeAbove DEF CascadeUp
    <2>2. A(q) = {}
        BY <2>1 DEF TC!ToSet
    <2> HIDE DEF A
    <2> QED BY <1>2, <2>1, <2>2
<1>3. ASSUME NEW q \in CascadeNodes, ~CascadeTop(q), Good(RowParentOf[q]) PROVE Good(q)
    <2> DEFINE p == RowParentOf[q]
               s == TC!Above[p]
    <2>1. TC!Above[q] = <<p>> \o s /\ p \in RowIDs /\ s \in Seq(RowIDs)
        BY <1>1, <1>3, CascadeAbove DEF CascadeUp
    <2>2. /\ TC!Above[q] \in Seq(RowIDs) /\ Len(TC!Above[q]) = Len(s) + 1 /\ Len(s) \in Nat
          /\ TC!Above[q][1] = p /\ \A i \in 1 .. Len(s) : TC!Above[q][i + 1] = s[i]
        <3> HIDE DEF s, p
        <3> QED BY <2>1
    <2>3. /\ DOMAIN TC!Above[q] = 1 .. Len(s) + 1 /\ DOMAIN s = 1 .. Len(s)
        <3> HIDE DEF s, p
        <3> QED BY <2>1, <2>2
    <2>4. A(q) = {p} \cup A(p)
        <3>1. A(q) = {TC!Above[q][i] : i \in DOMAIN TC!Above[q]} /\ A(p) = {s[i] : i \in DOMAIN s}
            BY DEF TC!ToSet
        <3> HIDE DEF s, p, A
        <3>2. \A x \in A(q) : x = p \/ x \in A(p)
            <4> SUFFICES ASSUME NEW i \in 1 .. Len(s) + 1, i # 1 PROVE TC!Above[q][i] \in A(p)
                BY <2>2, <2>3, <3>1
            <4>1. i - 1 \in 1 .. Len(s) /\ (i - 1) + 1 = i
                BY <2>2
            <4>2. TC!Above[q][(i - 1) + 1] = s[i - 1]
                BY <2>2, <4>1
            <4> QED BY <2>3, <3>1, <4>1, <4>2
        <3>3. p \in A(q)
            BY <2>2, <2>3, <3>1
        <3>4. \A i \in 1 .. Len(s) : s[i] \in A(q)
            BY <2>2, <2>3, <3>1
        <3> QED BY <2>3, <3>1, <3>2, <3>3, <3>4
    <2>5. A(q) = Set(q)
        BY <1>3, <2>4
    <2>6. n[p] < n[q] /\ n[p] \in Nat /\ n[q] \in Nat
        BY <1>1, <1>3
    <2>7. \A a \in A(p) : a \in RowIDs /\ n[a] < n[p] /\ A(a) \subseteq A(p) /\ n[a] \in Nat
        BY <1>1, <1>3 DEF CascadeNodes
    <2>8. \A a \in A(q) : a \in RowIDs /\ n[a] < n[q] /\ A(a) \subseteq A(q)
        <3> HIDE DEF A, p, s, Set
        <3> QED BY <2>1, <2>4, <2>6, <2>7
    <2> HIDE DEF A, Set
    <2> QED BY <2>2, <2>5, <2>8
<1>4. Bad = {}
    <2> SUFFICES ASSUME Bad # {} PROVE FALSE
        OBVIOUS
    <2> HIDE DEF Good
    <2> DEFINE U == {n[q] : q \in Bad}
    <2>1. U \subseteq Nat /\ U # {}
        BY <1>1
    <2>2. PICK m \in U : \A k \in U : m <= k
        <3> HIDE DEF U
        <3> QED BY <2>1, Purging!SmallestNumber
    <2>3. PICK q \in Bad : m = n[q]
        BY <2>2
    <2>4. q \in CascadeNodes /\ ~Good(q)
        BY <2>3
    <2>5. ~CascadeTop(q)
        BY <1>2, <2>4
    <2>6. RowParentOf[q] \in CascadeNodes /\ n[RowParentOf[q]] \in Nat /\ n[RowParentOf[q]] < n[q] /\ n[q] \in Nat
        BY <1>1, <2>4, <2>5
    <2>7. RowParentOf[q] \notin Bad
        <3>1. \A k \in Bad : n[k] \in U
            OBVIOUS
        <3> HIDE DEF U, Bad
        <3> QED BY <2>2, <2>3, <2>6, <3>1
    <2>8. Good(RowParentOf[q])
        BY <2>6, <2>7
    <2> QED BY <1>3, <2>4, <2>5, <2>8
<1>5. Good(r)
    <2> HIDE DEF Good
    <2> QED BY <1>4
<1>6. r \notin A(r)
    <2> HIDE DEF A
    <2>1. \A a \in A(r) : n[a] < n[r]
        BY <1>5
    <2>2. n[r] \in Nat
        BY <1>1
    <2> QED BY <2>1, <2>2
<1>7. /\ \A a \in A(r) : a \in RowIDs /\ A(a) \subseteq A(r)
      /\ TC!Above[r] \in Seq(RowIDs) /\ A(r) = Set(r)
    <2> HIDE DEF A, Set
    <2> QED BY <1>5
<1> QED BY <1>6, <1>7

-----------------------------------------------------------------------------
\* The fold over the rows above: those taken are ticked just when they are selected,
\* and ticked if the row that was clicked is; the others are as they were.
CascadeOp(c, a, e)  == IF c.on \/ TC!IsParentHasSelectedChildren(e, a) THEN TC!Select(e, {a}) ELSE TC!Unselect(e, {a})
CascadeOf(c, i)     == c.s[i]
CascadePick(T)      == TC!Max(T)
CascadeBase(c)      == c.d
CascadeInv(c, T, e) ==
    /\ e = [rows |-> c.d.rows, box |-> e.box, sel |-> e.sel]
    /\ \A i \in T : (c.s[i] \in e.box <=> c.s[i] \in e.sel) /\ (c.on => c.s[i] \in e.box)
    /\ \A x : (\A i \in T : c.s[i] # x) => (x \in e.box <=> x \in c.d.box) /\ (x \in e.sel <=> x \in c.d.sel)
Cascading == INSTANCE Folding WITH
                Op <- CascadeOp, F <- CascadeOf, Pick <- CascadePick, Base <- CascadeBase, Inv <- CascadeInv

CascadeRec(d) == d = [rows |-> d.rows, box |-> d.box, sel |-> d.sel]

LEMMA CascadeSelects ==
    ASSUME NEW d, CascadeRec(d), NEW R
    PROVE  /\ TC!Select(d, R) = [rows |-> d.rows, box |-> d.box \cup R, sel |-> d.sel \cup R]
           /\ TC!Unselect(d, R) = [rows |-> d.rows, box |-> d.box \ R, sel |-> d.sel \ R]
<1>1. d = [rows |-> d.rows, box |-> d.box, sel |-> d.sel]
    BY DEF CascadeRec
<1> PICK b, c, f, g : b = d.box \cup R /\ c = d.sel \cup R /\ f = d.box \ R /\ g = d.sel \ R
    OBVIOUS
<1>2. TC!Select(d, R) = [d EXCEPT !.box = b, !.sel = c] /\ TC!Unselect(d, R) = [d EXCEPT !.box = f, !.sel = g]
    BY Zenon DEF TC!Select, TC!Unselect
<1> PICK e, h : e = [d EXCEPT !.box = b, !.sel = c] /\ h = [d EXCEPT !.box = f, !.sel = g]
    OBVIOUS
<1>3. e = [rows |-> d.rows, box |-> b, sel |-> c]
    BY <1>1
<1>4. h = [rows |-> d.rows, box |-> f, sel |-> g]
    BY <1>1
<1> QED BY <1>2, <1>3, <1>4

LEMMA CascadeParents ==
    ASSUME TC!TreeGridCheckAssumption, NEW r \in CascadeNodes, NEW d, CascadeRec(d), NEW on \in BOOLEAN
    PROVE  LET e == TC!SelectParent(d, r, on)  above == TC!ToSet(TC!Above[r]) IN
           /\ e = [rows |-> d.rows, box |-> e.box, sel |-> e.sel]
           /\ \A x \in above : (x \in e.box <=> x \in e.sel) /\ (on => x \in e.box)
           /\ \A x : x \notin above => (x \in e.box <=> x \in d.box) /\ (x \in e.sel <=> x \in d.sel)
<1> DEFINE s == TC!Above[r]
           c == [s |-> s, on |-> on, d |-> d]
<1>1. s \in Seq(RowIDs) /\ Len(s) \in Nat /\ DOMAIN s = 1 .. Len(s)
    BY CascadeHigher
<1>2. CascadeInv(c, {}, CascadeBase(c))
    BY DEF CascadeInv, CascadeBase, CascadeRec
<1>3. ASSUME NEW T \in SUBSET DOMAIN s, T # {} PROVE CascadePick(T) \in T
    <2>1. \E m \in T : \A k \in T : m >= k
        BY <1>1, <1>3, Cascading!LargestNumber
    <2> QED BY <2>1 DEF CascadePick, TC!Max
<1>4. ASSUME NEW T \in SUBSET DOMAIN s, NEW e, T # {}, CascadeInv(c, T \ {CascadePick(T)}, e)
      PROVE  CascadeInv(c, T, CascadeOp(c, CascadeOf(c, CascadePick(T)), e))
    <2> DEFINE m == CascadePick(T)
               a == s[m]
               g == CascadeOp(c, CascadeOf(c, m), e)
    <2>1. m \in T
        BY <1>3, <1>4
    <2>2. /\ e = [rows |-> d.rows, box |-> e.box, sel |-> e.sel]
          /\ \A i \in T \ {m} : (s[i] \in e.box <=> s[i] \in e.sel) /\ (on => s[i] \in e.box)
          /\ \A x : (\A i \in T \ {m} : s[i] # x) => (x \in e.box <=> x \in d.box) /\ (x \in e.sel <=> x \in d.sel)
        BY <1>4 DEF CascadeInv
    <2>3. \/ g = [rows |-> d.rows, box |-> e.box \cup {a}, sel |-> e.sel \cup {a}]
          \/ ~on /\ g = [rows |-> d.rows, box |-> e.box \ {a}, sel |-> e.sel \ {a}]
        <3>1. CascadeRec(e) /\ e.rows = d.rows
            BY <2>2 DEF CascadeRec
        <3>2. /\ TC!Select(e, {a}) = [rows |-> e.rows, box |-> e.box \cup {a}, sel |-> e.sel \cup {a}]
              /\ TC!Unselect(e, {a}) = [rows |-> e.rows, box |-> e.box \ {a}, sel |-> e.sel \ {a}]
            BY <3>1, CascadeSelects
        <3>3. g = IF on \/ TC!IsParentHasSelectedChildren(e, a) THEN TC!Select(e, {a}) ELSE TC!Unselect(e, {a})
            BY DEF CascadeOp, CascadeOf
        <3> HIDE DEF g, a
        <3> QED BY <3>1, <3>2, <3>3
    <2>4. /\ g = [rows |-> d.rows, box |-> g.box, sel |-> g.sel]
          /\ \A i \in T : (s[i] \in g.box <=> s[i] \in g.sel) /\ (on => s[i] \in g.box)
          /\ \A x : (\A i \in T : s[i] # x) => (x \in g.box <=> x \in d.box) /\ (x \in g.sel <=> x \in d.sel)
        <3> HIDE DEF g, m
        <3>1. /\ g = [rows |-> d.rows, box |-> g.box, sel |-> g.sel]
              /\ (a \in g.box <=> a \in g.sel) /\ (on => a \in g.box)
              /\ \A x : x # a => (x \in g.box <=> x \in e.box) /\ (x \in g.sel <=> x \in e.sel)
            BY <2>3
        <3>2. \A i \in T : (s[i] \in g.box <=> s[i] \in g.sel) /\ (on => s[i] \in g.box)
            <4> TAKE i \in T
            <4>1. CASE s[i] = a
                BY <3>1, <4>1
            <4>2. CASE s[i] # a
                <5>1. i \in T \ {m}
                    BY <4>2
                <5> QED BY <2>2, <3>1, <4>2, <5>1
            <4> QED BY <4>1, <4>2
        <3>3. ASSUME NEW x, \A i \in T : s[i] # x
              PROVE  (x \in g.box <=> x \in d.box) /\ (x \in g.sel <=> x \in d.sel)
            BY <2>1, <2>2, <3>1, <3>3
        <3> QED BY <3>1, <3>2, <3>3
    <2> HIDE DEF g, s
    <2>5. c.s = s /\ c.on = on /\ c.d = d
        OBVIOUS
    <2> HIDE DEF c
    <2> QED BY <2>4, <2>5 DEF CascadeInv, g
<1>5. CascadeInv(c, DOMAIN s, Cascading!Fold(c, DOMAIN s))
    <2>1. IsFiniteSet(DOMAIN s)
        <3>1. IsFiniteSet(1 .. Len(s))
            <4> HIDE DEF s, c
            <4> QED BY <1>1, FS_Interval
        <3> QED BY <1>1, <3>1
    <2>2. Cascading!IsFiniteSet(DOMAIN s)
        BY Zenon, <2>1 DEF IsFiniteSet, Cascading!IsFiniteSet
    <2> HIDE DEF c, s
    <2> QED BY <1>2, <1>3, <1>4, <2>2, Cascading!FoldKeeps
<1>6. TC!SelectParent(d, r, on) = Cascading!Fold(c, DOMAIN s)
    BY DEF TC!SelectParent, TC!FoldLeft, TC!MapThenFoldSet, Cascading!Fold, Cascading!MapThenFoldSet,
           CascadeOp, CascadeOf, CascadeBase, CascadePick
<1>7. TC!ToSet(s) = {s[i] : i \in DOMAIN s}
    BY DEF TC!ToSet
<1> DEFINE e == TC!SelectParent(d, r, on)
<1>8. /\ e = [rows |-> d.rows, box |-> e.box, sel |-> e.sel]
      /\ \A i \in DOMAIN s : (s[i] \in e.box <=> s[i] \in e.sel) /\ (on => s[i] \in e.box)
      /\ \A x : (\A i \in DOMAIN s : s[i] # x) => (x \in e.box <=> x \in d.box) /\ (x \in e.sel <=> x \in d.sel)
    <2>1. CascadeInv(c, DOMAIN s, e)
        BY <1>5, <1>6
    <2> HIDE DEF e, s
    <2> QED BY <2>1 DEF CascadeInv
<1> HIDE DEF e, s
<1> QED BY <1>7, <1>8 DEF e, s

-----------------------------------------------------------------------------
CascadeOver(r) == TC!ToSet(TC!Above[r])
\* What the last click did.
CascadeDone(d, q) ==
    LET below == TC!RowsBelow(q.rows, q.row) IN
    /\ q.on => CascadeOver(q.row) \cup below \subseteq d.box \cap d.sel
    /\ ~q.on => below \cap (d.box \cup d.sel) = {}
    /\ (q.row \in d.box) = q.on
CascadeData(d) ==
    /\ CascadeRec(d)
    /\ d.rows \subseteq RowIDs /\ d.box \subseteq d.rows /\ d.sel \subseteq d.rows
    /\ \A r \in d.rows : CascadeOver(r) \subseteq d.rows
CascadePage(p) ==
    p = [net |-> p.net, deep |-> p.deep, clicked |-> p.clicked, last |-> p.last, clicks |-> p.clicks]

\* With a row those above it are there; of rows that were not clicked the boxes tell
\* what is selected.
CascadeHold(d, p) ==
    /\ CascadeData(d) /\ CascadePage(p)
    /\ p.net \subseteq LazyRows \cap d.rows /\ p.clicks \in 0 .. MaxClicks
    /\ \A r \in d.rows \ p.clicked : r \in d.box <=> r \in d.sel
    /\ p.last = <<>> \/ (\E q : p.last = <<q>> /\ CascadeDone(d, q))

\* Rows come, those below rows that are there or at the top.
LEMMA CascadeLoaded ==
    ASSUME TC!TreeGridCheckAssumption, NEW d, CascadeData(d), NEW R \in SUBSET RowIDs,
           \A r \in R : CascadeOver(r) \subseteq d.rows \cup R
    PROVE  LET e == TC!Loaded(d, R)  M == MarkedRows \cap (d.rows \cup R) IN
           /\ e = [rows |-> d.rows \cup R, box |-> d.box \cup M, sel |-> d.sel \cup M]
           /\ CascadeData(e)
<1> DEFINE e == TC!Loaded(d, R)
           M == MarkedRows \cap (d.rows \cup R)
<1>1. d = [rows |-> d.rows, box |-> d.box, sel |-> d.sel]
    BY DEF CascadeData, CascadeRec
<1> PICK f, n : n = d.rows \cup R /\ f = [d EXCEPT !.rows = n]
    OBVIOUS
<1>2. f = [rows |-> n, box |-> d.box, sel |-> d.sel]
    BY <1>1
<1>3. e = TC!Select(f, M)
    BY Zenon DEF TC!Loaded
<1>4. e = [rows |-> n, box |-> d.box \cup M, sel |-> d.sel \cup M]
    <2> HIDE DEF e, M
    <2>1. CascadeRec(f) /\ f.rows = n /\ f.box = d.box /\ f.sel = d.sel
        BY <1>2 DEF CascadeRec
    <2> QED BY <1>3, <2>1, CascadeSelects
<1> HIDE DEF e
<1>5. e.rows = n /\ e.box = d.box \cup M /\ e.sel = d.sel \cup M /\ CascadeRec(e)
    BY <1>4 DEF CascadeRec
<1>6. CascadeData(e)
    BY <1>5 DEF CascadeData
<1> QED BY <1>4, <1>6 DEF e

LEMMA CascadeStart ==
    ASSUME TC!TreeGridCheckAssumption, TC!Init
    PROVE  CascadeHold(data, page)
<1> DEFINE d == [rows |-> {}, box |-> {}, sel |-> {}]
<1>1. PICK deep \in BOOLEAN :
         /\ data = TC!Loaded(d, TC!AtFirst)
         /\ page = [net |-> {}, deep |-> deep, clicked |-> {}, last |-> <<>>, clicks |-> 0]
    BY DEF TC!Init
<1>2. CascadeData(d)
    BY DEF CascadeData, CascadeRec
<1>3. TC!AtFirst = {r \in RowIDs : CascadeOver(r) \cap LazyRows = {}}
    <2>1. ASSUME NEW r \in RowIDs
          PROVE  (\A i \in 1 .. Len(TC!Above[r]) : TC!Above[r][i] \notin LazyRows) <=> (CascadeOver(r) \cap LazyRows = {})
        <3>1. r \in CascadeNodes
            BY DEF CascadeNodes
        <3>2. TC!Above[r] \in Seq(RowIDs)
            BY <3>1, CascadeHigher
        <3>3. DOMAIN TC!Above[r] = 1 .. Len(TC!Above[r])
            BY <3>2
        <3> QED BY <3>3 DEF CascadeOver, TC!ToSet
    <2> QED BY <2>1 DEF TC!AtFirst
<1>4. ASSUME NEW r \in TC!AtFirst PROVE CascadeOver(r) \subseteq TC!AtFirst
    <2>1. r \in RowIDs /\ CascadeOver(r) \cap LazyRows = {} /\ r \in CascadeNodes
        BY <1>3 DEF CascadeNodes
    <2>2. CascadeOver(r) \subseteq RowIDs /\ \A a \in CascadeOver(r) : CascadeOver(a) \subseteq CascadeOver(r)
        BY <2>1, CascadeHigher DEF CascadeOver
    <2> QED BY <1>3, <2>1, <2>2
<1>5. TC!AtFirst \in SUBSET RowIDs
    BY <1>3
<1> DEFINE M == MarkedRows \cap ({} \cup TC!AtFirst)
<1>6. CascadeData(data) /\ data = [rows |-> {} \cup TC!AtFirst, box |-> {} \cup M, sel |-> {} \cup M]
    <2>1. d.rows = {} /\ d.box = {} /\ d.sel = {}
        OBVIOUS
    <2> HIDE DEF d
    <2>2. \A r \in TC!AtFirst : CascadeOver(r) \subseteq d.rows \cup TC!AtFirst
        BY <1>4
    <2>3. /\ TC!Loaded(d, TC!AtFirst) = [rows |-> d.rows \cup TC!AtFirst,
                                      box |-> d.box \cup (MarkedRows \cap (d.rows \cup TC!AtFirst)),
                                      sel |-> d.sel \cup (MarkedRows \cap (d.rows \cup TC!AtFirst))]
          /\ CascadeData(TC!Loaded(d, TC!AtFirst))
        BY <1>2, <1>5, <2>2, CascadeLoaded
    <2> QED BY <1>1, <2>1, <2>3
<1>7. MaxClicks \in Nat
    BY DEF TC!TreeGridCheckAssumption
<1>8. data.box = data.sel
    BY <1>6
<1> HIDE DEF d, M
<1> QED BY <1>1, <1>6, <1>7, <1>8 DEF CascadeHold, CascadePage

LEMMA CascadeClick ==
    ASSUME TC!TreeGridCheckAssumption, CascadeHold(data, page), NEW r \in data.rows, TC!Click(r)
    PROVE  CascadeHold(data', page')
<1> DEFINE on == r \notin data.box
           box == IF on THEN data.box \cup {r} ELSE data.box \ {r}
           d == [data EXCEPT !.box = box]
           opened == IF on /\ page.deep THEN TC!Unopened(data) \cap ({r} \cup TC!RowsBelow(data.rows, r)) ELSE {}
           q == [row |-> r, on |-> on, rows |-> data.rows]
           e == TC!SelectParent(d, r, on)
           below == TC!RowsBelow(data.rows, r)
           over == CascadeOver(r)
<1>1. /\ page.clicks < MaxClicks /\ data' = TC!SelectChildren(e, r, on)
      /\ page' = [page EXCEPT !.clicks = page.clicks + 1, !.net = page.net \cup opened,
                              !.clicked = page.clicked \cup {r}, !.last = <<q>>]
    BY DEF TC!Click
<1>2. /\ data = [rows |-> data.rows, box |-> data.box, sel |-> data.sel]
      /\ data.rows \subseteq RowIDs /\ data.box \subseteq data.rows /\ data.sel \subseteq data.rows
      /\ over \subseteq data.rows /\ r \in CascadeNodes /\ on \in BOOLEAN
    BY DEF CascadeHold, CascadeData, CascadeRec, CascadeNodes
<1>3. page = [net |-> page.net, deep |-> page.deep, clicked |-> page.clicked, last |-> page.last, clicks |-> page.clicks]
    BY DEF CascadeHold, CascadePage
<1>4. d = [rows |-> data.rows, box |-> box, sel |-> data.sel]
    <2>1. data = [rows |-> data.rows, box |-> data.box, sel |-> data.sel]
        BY <1>2
    <2> HIDE DEF box
    <2>2. d = [data EXCEPT !.box = box]
        OBVIOUS
    <2> HIDE DEF d
    <2> QED BY <2>1, <2>2
<1>5. CascadeRec(d) /\ d.rows = data.rows /\ d.box = box /\ d.sel = data.sel
    <2> HIDE DEF d, box
    <2> QED BY <1>4 DEF CascadeRec
<1>6. /\ e = [rows |-> data.rows, box |-> e.box, sel |-> e.sel]
      /\ \A x \in over : (x \in e.box <=> x \in e.sel) /\ (on => x \in e.box)
      /\ \A x : x \notin over => (x \in e.box <=> x \in box) /\ (x \in e.sel <=> x \in data.sel)
    <2> HIDE DEF d, on, box
    <2> QED BY <1>2, <1>5, CascadeParents DEF CascadeOver
<1>7. r \notin over /\ r \notin below /\ below \subseteq data.rows
    <2>1. r \notin over
        BY <1>2, CascadeHigher DEF CascadeOver
    <2> QED BY <2>1 DEF TC!RowsBelow, CascadeOver
<1>8. data' = IF on THEN [rows |-> data.rows, box |-> e.box \cup below, sel |-> e.sel \cup below]
              ELSE [rows |-> data.rows, box |-> e.box \ below, sel |-> e.sel \ below]
    <2>1. TC!SelectChildren(e, r, on) = IF on THEN TC!Select(e, TC!RowsBelow(e.rows, r))
                                      ELSE TC!Unselect(e, TC!RowsBelow(e.rows, r))
        BY DEF TC!SelectChildren
    <2>2. CascadeRec(e) /\ e.rows = data.rows
        <3> HIDE DEF e
        <3> QED BY <1>6 DEF CascadeRec
    <2> HIDE DEF e, on
    <2> QED BY <1>1, <2>1, <2>2, CascadeSelects
<1>9. opened \subseteq LazyRows \cap data.rows
    BY DEF TC!Unopened
<1>10. \A x : x \in box <=> IF x = r THEN on ELSE x \in data.box
    OBVIOUS
<1>11. page' = [net |-> page.net \cup opened, deep |-> page.deep, clicked |-> page.clicked \cup {r},
                last |-> <<q>>, clicks |-> page.clicks + 1]
    <2> PICK n, c, l, k, p : /\ n = page.net \cup opened /\ c = page.clicked \cup {r} /\ l = <<q>> /\ k = page.clicks + 1
                             /\ p = [page EXCEPT !.clicks = k, !.net = n, !.clicked = c, !.last = l]
        OBVIOUS
    <2>1. page' = p
        BY <1>1
    <2>2. p = [net |-> n, deep |-> page.deep, clicked |-> c, last |-> l, clicks |-> k]
        BY <1>3
    <2> HIDE DEF q, opened
    <2> QED BY <2>1, <2>2
<1>12. q.row = r /\ q.on = on /\ q.rows = data.rows
    OBVIOUS
<1> HIDE DEF q, on, box, d, e, opened, below
<1>13. /\ data'.rows = data.rows /\ CascadeRec(data')
       /\ \A x : x \in data'.box <=> IF x \in below THEN on ELSE x \in e.box
       /\ \A x : x \in data'.sel <=> IF x \in below THEN on ELSE x \in e.sel
    <2>1. CASE on
        BY <1>8, <2>1 DEF CascadeRec
    <2>2. CASE ~on
        BY <1>8, <2>2 DEF CascadeRec
    <2> QED BY <2>1, <2>2
<1> HIDE DEF over
<1>14. CascadeData(data')
    <2>1. \A x : x \in e.box \/ x \in e.sel => x \in data.rows
        BY <1>2, <1>6, <1>10
    <2>2. data'.box \subseteq data.rows /\ data'.sel \subseteq data.rows
        BY <1>7, <1>13, <2>1
    <2> QED BY <1>13, <2>2 DEF CascadeHold, CascadeData
<1>15. CascadeDone(data', q)
    <2>1. on => over \cup below \subseteq data'.box \cap data'.sel
        BY <1>6, <1>13
    <2>2. ~on => below \cap (data'.box \cup data'.sel) = {}
        BY <1>13
    <2>3. (r \in data'.box) = on
        BY <1>2, <1>6, <1>7, <1>10, <1>13
    <2>4. TC!RowsBelow(q.rows, q.row) = below /\ CascadeOver(q.row) = over
        BY <1>12 DEF below, over
    <2> QED BY <1>12, <2>1, <2>2, <2>3, <2>4 DEF CascadeDone
<1>16. \A x \in data.rows \ (page.clicked \cup {r}) : x \in data'.box <=> x \in data'.sel
    <2> TAKE x \in data.rows \ (page.clicked \cup {r})
    <2>1. x \in data.box <=> x \in data.sel
        BY DEF CascadeHold
    <2>2. x \in e.box <=> x \in e.sel
        BY <1>6, <1>10, <2>1
    <2> QED BY <1>13, <2>2
<1>17. page.net \subseteq LazyRows \cap data.rows /\ page.clicks \in 0 .. MaxClicks /\ MaxClicks \in Nat
    BY DEF CascadeHold, TC!TreeGridCheckAssumption
<1>18. page.clicks + 1 \in 0 .. MaxClicks
    BY <1>1, <1>17
<1>19. CascadePage(page') /\ page'.last = <<q>>
    BY <1>11 DEF CascadePage
<1> QED BY <1>9, <1>11, <1>13, <1>14, <1>15, <1>16, <1>17, <1>18, <1>19 DEF CascadeHold

LEMMA CascadeAnswer ==
    ASSUME TC!TreeGridCheckAssumption, CascadeHold(data, page), NEW r \in page.net, TC!Answer(r)
    PROVE  CascadeHold(data', page')
<1> DEFINE R == TC!Kids(RowIDs, r)
           M == MarkedRows \cap (data.rows \cup R)
           last == IF MarkedRows = {} THEN page.last ELSE <<>>
<1>1. data' = TC!Loaded(data, R) /\ page' = [page EXCEPT !.net = page.net \ {r}, !.last = last]
    BY DEF TC!Answer
<1>2. /\ CascadeData(data) /\ r \in data.rows /\ data.rows \subseteq RowIDs /\ RowRoot \notin RowIDs
      /\ page = [net |-> page.net, deep |-> page.deep, clicked |-> page.clicked, last |-> page.last, clicks |-> page.clicks]
    BY DEF CascadeHold, CascadeData, CascadePage, TC!TreeGridCheckAssumption
<1>3. R \in SUBSET RowIDs
    BY DEF TC!Kids
<1>4. ASSUME NEW k \in R PROVE CascadeOver(k) \subseteq data.rows \cup R
    <2>1. k \in RowIDs /\ RowParentOf[k] = r /\ k \in CascadeNodes
        BY DEF TC!Kids, CascadeNodes
    <2>2. ~CascadeTop(k)
        BY <1>2, <2>1 DEF CascadeTop
    <2>3. CascadeOver(k) = {r} \cup CascadeOver(r)
        BY <2>1, <2>2, CascadeHigher DEF CascadeOver
    <2>4. CascadeOver(r) \subseteq data.rows
        BY <1>2 DEF CascadeData
    <2> QED BY <1>2, <2>3, <2>4
<1>5. /\ data' = [rows |-> data.rows \cup R, box |-> data.box \cup M, sel |-> data.sel \cup M]
      /\ CascadeData(data')
    <2> HIDE DEF R
    <2> QED BY <1>1, <1>2, <1>3, <1>4, CascadeLoaded
<1>6. page' = [net |-> page.net \ {r}, deep |-> page.deep, clicked |-> page.clicked, last |-> last, clicks |-> page.clicks]
    <2> PICK n, p : n = page.net \ {r} /\ p = [page EXCEPT !.net = n, !.last = last]
        OBVIOUS
    <2>1. page' = p
        BY <1>1
    <2> HIDE DEF last
    <2>2. p = [net |-> n, deep |-> page.deep, clicked |-> page.clicked, last |-> last, clicks |-> page.clicks]
        BY <1>2
    <2> QED BY <2>1, <2>2
<1>7. ASSUME NEW q, last = <<q>>, CascadeDone(data, q) PROVE CascadeDone(data', q)
    <2>1. M = {}
        BY <1>7
    <2>2. data'.box = data.box /\ data'.sel = data.sel
        BY <1>5, <2>1
    <2> QED BY <1>7, <2>2 DEF CascadeDone
<1> HIDE DEF R, M
<1>8. last = <<>> \/ (\E q : last = <<q>> /\ CascadeDone(data', q))
    <2>1. last = <<>> \/ (\E q : last = <<q>> /\ CascadeDone(data, q))
        BY DEF CascadeHold
    <2> HIDE DEF last
    <2> QED BY <1>7, <2>1
<1> HIDE DEF last
<1>9. \A x \in data'.rows \ page.clicked : x \in data'.box <=> x \in data'.sel
    <2> TAKE x \in data'.rows \ page.clicked
    <2>1. x \in data.box <=> x \in data.sel
        BY <1>2 DEF CascadeHold, CascadeData
    <2> QED BY <1>5, <2>1
<1>10. page.net \ {r} \subseteq LazyRows \cap data'.rows
    BY <1>5 DEF CascadeHold
<1>11. CascadePage(page')
    BY <1>6 DEF CascadePage
<1> QED BY <1>5, <1>6, <1>8, <1>9, <1>10, <1>11 DEF CascadeHold

LEMMA CascadeStep ==
    ASSUME TC!TreeGridCheckAssumption, CascadeHold(data, page), [TC!Next]_(<<data, page>>)
    PROVE  CascadeHold(data', page')
<1>1. ASSUME NEW r \in data.rows, TC!Expand(r) PROVE CascadeHold(data', page')
    <2>1. data' = data /\ r \in LazyRows \cap data.rows /\ page' = [page EXCEPT !.net = page.net \cup {r}]
        BY <1>1 DEF TC!Expand, TC!Unopened
    <2>2. page = [net |-> page.net, deep |-> page.deep, clicked |-> page.clicked, last |-> page.last, clicks |-> page.clicks]
        BY DEF CascadeHold, CascadePage
    <2>3. page' = [net |-> page.net \cup {r}, deep |-> page.deep, clicked |-> page.clicked, last |-> page.last, clicks |-> page.clicks]
        <3> PICK n, p : n = page.net \cup {r} /\ p = [page EXCEPT !.net = n]
            OBVIOUS
        <3>1. p = [net |-> n, deep |-> page.deep, clicked |-> page.clicked, last |-> page.last, clicks |-> page.clicks]
            BY <2>2
        <3> QED BY <2>1, <3>1
    <2>4. CascadePage(page') /\ page'.net \subseteq LazyRows \cap data.rows
        BY <2>1, <2>3 DEF CascadeHold, CascadePage
    <2> QED BY <2>1, <2>3, <2>4 DEF CascadeHold
<1>2. CASE UNCHANGED <<data, page>>
    BY <1>2
<1> QED BY <1>1, <1>2, CascadeClick, CascadeAnswer DEF TC!Next

LEMMA CascadeShows ==
    ASSUME CascadeHold(data, page)
    PROVE  TC!TypeOK /\ TC!Cascades
<1>1. TC!TypeOK
    BY DEF CascadeHold, CascadeData, TC!TypeOK
<1>2. ASSUME NEW i \in 1 .. Len(page.last) PROVE CascadeDone(data, page.last[i])
    <2>1. page.last # <<>>
        BY <1>2
    <2>2. PICK q : page.last = <<q>> /\ CascadeDone(data, q)
        BY <2>1 DEF CascadeHold
    <2>3. Len(page.last) = 1 /\ page.last[1] = q
        BY <2>2
    <2>4. i = 1
        BY <1>2, <2>3
    <2> QED BY <2>2, <2>3, <2>4
<1>3. \A r \in data.rows \ page.clicked : r \in data.box <=> r \in data.sel
    BY DEF CascadeHold
<1> HIDE DEF CascadeHold
<1> QED BY <1>1, <1>2, <1>3 DEF TC!Cascades, CascadeDone, CascadeOver

-----------------------------------------------------------------------------
(* Tabs.                                                                     *)

Tab == [id : 1 .. MaxTabs, title : B!Titles, menu : Menus, open : BOOLEAN, size : TabSizes]
TabData ==
    [tabs : Seq(Tab), his : Seq(B!Titles), mark : SUBSET (1 .. MaxTabs),
     map : [B!Titles -> Menus \cup {NoMenu}], cur : Menus \cup {NoMenu}, size : TabSizes]
TabPage ==
    [nr : 1 .. MaxTabs, net : SUBSET [nr : 1 .. MaxTabs, menu : Menus], loading : SUBSET (1 .. MaxTabs),
     asked : SUBSET [id : 1 .. MaxTabs, menu : Menus \cup {NoMenu}], menu : B!Titles \cup {"none"},
     again : SUBSET B!Titles, away : SUBSET (1 .. MaxTabs)]

\* What holds between the calls that a handler makes: one panel at most is open,
\* the marked one, and the history has titles of tabs only.
TabFew(d) ==
    /\ d \in TabData
    /\ \A i \in DOMAIN d.tabs : d.tabs[i].title = TitleOf[d.tabs[i].menu]
    /\ \A i, j \in DOMAIN d.tabs : d.tabs[i].id = d.tabs[j].id => i = j
    /\ \A i, j \in DOMAIN d.tabs : d.tabs[i].open /\ d.tabs[j].open => i = j
    /\ \A x : x \in d.mark <=> \E i \in DOMAIN d.tabs : d.tabs[i].open /\ d.tabs[i].id = x
    /\ \A k \in DOMAIN d.his : \E i \in DOMAIN d.tabs : d.tabs[i].title = d.his[k]

\* Tab f is in front, the last of the history, and its menu is current.
TabFront(d, f) ==
    /\ f \in DOMAIN d.tabs /\ d.tabs[f].open /\ d.tabs[f].size = d.size
    /\ d.his # <<>> /\ d.his[Len(d.his)] = d.tabs[f].title
    /\ d.cur = d.map[d.tabs[f].title]
TabWhole(d) == TabFew(d) /\ (d.tabs # <<>> => \E f : TabFront(d, f))

\* The tabs of e are some of those of d.
TabSame(b, c) == b.id = c.id /\ b.title = c.title /\ b.menu = c.menu
TabPart(e, d) ==
    /\ e.map = d.map /\ e.size = d.size
    /\ \A i \in DOMAIN e.tabs : \E j \in DOMAIN d.tabs : TabSame(e.tabs[i], d.tabs[j])

CloseOp(c, b, e) == IF B!Closable(b, c.type, c.t) THEN B!CloseFirst(e, b.title) ELSE e
CloseBase(c)     == c.d
CloseInv(c, T, e) == TabWhole(e) /\ TabPart(e, c.d)
Closing == INSTANCE Folding WITH
              Op <- CloseOp, F <- OneOf, Pick <- Latest, Base <- CloseBase, Inv <- CloseInv

LEMMA LatestIs ==
    ASSUME NEW n \in Nat, NEW T \in SUBSET (1 .. n), T # {}
    PROVE  Latest(T) \in T
<1>1. \E m \in T : \A k \in T : m >= k
    BY Purging!LargestNumber
<1> QED BY <1>1 DEF Latest, B!Max

LEMMA FiniteDomain ==
    ASSUME NEW S, NEW s \in Seq(S)
    PROVE  Purging!IsFiniteSet(DOMAIN s) /\ Closing!IsFiniteSet(DOMAIN s)
<1>1. IsFiniteSet(DOMAIN s)
    BY FS_Interval, LenProperties
<1> QED BY Zenon, <1>1 DEF IsFiniteSet, Purging!IsFiniteSet, Closing!IsFiniteSet

LEMMA TabIndexOf ==
    ASSUME NEW d, TabFew(d), NEW t, B!Exists(d, t)
    PROVE  B!IndexOf(d, t) \in DOMAIN d.tabs /\ d.tabs[B!IndexOf(d, t)].title = t
<1> DEFINE U == {i \in DOMAIN d.tabs : d.tabs[i].title = t}
           n == Len(d.tabs)
<1>1. n \in Nat /\ DOMAIN d.tabs = 1 .. n
    BY SeqElements DEF TabFew, TabData
<1>2. U \subseteq Nat /\ U # {}
    BY <1>1 DEF B!Exists, B!TitlesOf
<1>3. PICK m \in U : \A k \in U : m <= k
    <2> HIDE DEF U
    <2> QED BY <1>2, Purging!SmallestNumber
<1>4. \A j \in 1 .. m - 1 : d.tabs[j].title # t
    BY <1>1, <1>3
<1>5. \E i \in DOMAIN d.tabs : d.tabs[i].title = t /\ \A j \in 1 .. i - 1 : d.tabs[j].title # t
    BY <1>3, <1>4
<1> QED BY <1>5 DEF B!IndexOf

LEMMA TabPurged ==
    ASSUME NEW his \in Seq(B!Titles), NEW t
    PROVE  /\ B!Purged(his, t) \in Seq(B!Titles)
           /\ \A k \in DOMAIN B!Purged(his, t) :
                B!Purged(his, t)[k] # t /\ \E i \in DOMAIN his : B!Purged(his, t)[k] = his[i]
<1> DEFINE c == [s |-> his, t |-> t]
<1>1. Len(his) \in Nat /\ DOMAIN his = 1 .. Len(his) /\ \A i \in DOMAIN his : his[i] \in B!Titles
    BY SeqElements
<1>2. PurgeInv(c, {}, PurgeBase(c))
    BY EmptySeq, SeqElements DEF PurgeInv, PurgeBase
<1>3. \A T \in SUBSET DOMAIN his : T # {} => Latest(T) \in T
    BY <1>1, LatestIs
<1>4. ASSUME NEW T \in SUBSET DOMAIN his, NEW h, T # {}, PurgeInv(c, T \ {Latest(T)}, h)
      PROVE  PurgeInv(c, T, PurgeOp(c, OneOf(c, Latest(T)), h))
    <2> DEFINE e == his[Latest(T)]
               g == Append(h, e)
    <2>1. Latest(T) \in T /\ e \in B!Titles
        BY <1>1, <1>3, <1>4
    <2>2. h \in Seq(B!Titles) /\ \A k \in DOMAIN h : h[k] # t /\ \E i \in T : h[k] = his[i]
        BY <1>4 DEF PurgeInv
    <2>3. PurgeOp(c, OneOf(c, Latest(T)), h) = IF e = t THEN h ELSE g
        BY DEF PurgeOp, OneOf
    <2>4. PurgeInv(c, T, h)
        BY <2>2 DEF PurgeInv
    <2>5. ASSUME e # t PROVE PurgeInv(c, T, g)
        <3>1. /\ g \in Seq(B!Titles) /\ Len(g) = Len(h) + 1 /\ Len(h) \in Nat
              /\ DOMAIN g = 1 .. Len(g) /\ DOMAIN h = 1 .. Len(h)
              /\ g[Len(g)] = e /\ \A k \in 1 .. Len(h) : g[k] = h[k]
            <4> HIDE DEF e
            <4> QED BY <2>1, <2>2, SeqElements, AppendProperties
        <3>2. ASSUME NEW k \in DOMAIN g PROVE g[k] # t /\ \E i \in T : g[k] = his[i]
            <4>1. k \in DOMAIN h \/ k = Len(g)
                BY <3>1
            <4> HIDE DEF g
            <4>2. CASE k \in DOMAIN h
                BY <2>2, <3>1, <4>2
            <4>3. CASE k = Len(g)
                BY <2>1, <2>5, <3>1, <4>3
            <4> QED BY <4>1, <4>2, <4>3
        <3> HIDE DEF g
        <3> QED BY <3>1, <3>2 DEF PurgeInv
    <2> HIDE DEF e, g
    <2> QED BY <2>3, <2>4, <2>5
<1>5. PurgeInv(c, DOMAIN his, Purging!Fold(c, DOMAIN his))
    <2> HIDE DEF c
    <2> QED BY <1>2, <1>3, <1>4, FiniteDomain, Purging!FoldKeeps
<1>6. B!Purged(his, t) = Purging!Fold(c, DOMAIN his)
    BY DEF B!Purged, B!FoldLeft, B!MapThenFoldSet, Purging!Fold, Purging!MapThenFoldSet,
           PurgeOp, OneOf, PurgeBase, Latest
<1> QED BY <1>5, <1>6 DEF PurgeInv

LEMMA TabSelect ==
    ASSUME NEW d, TabFew(d), NEW i \in DOMAIN d.tabs
    PROVE  /\ TabFew(B!Select(d, i)) /\ TabFront(B!Select(d, i), i) /\ TabPart(B!Select(d, i), d)
           /\ B!Select(d, i).cur = d.map[d.tabs[i].title]
<1> DEFINE s   == d.tabs
           was == B!Opened(d)
           t   == [j \in DOMAIN s |-> [s[j] EXCEPT !.open = (j = i) \/ (@ /\ j \notin was),
                                                   !.size = IF j = i THEN d.size ELSE @]]
           mark == (d.mark \ {s[j].id : j \in was}) \cup {s[i].id}
           his == Append(d.his, s[i].title)
           cur == d.map[s[i].title]
           e   == B!Select(d, i)
<1>1. d \in TabData /\ s \in Seq(Tab) /\ d.his \in Seq(B!Titles)
    BY DEF TabFew, TabData
<1>2. Len(s) \in Nat /\ DOMAIN s = 1 .. Len(s) /\ \A j \in DOMAIN s : s[j] \in Tab
    BY <1>1, SeqElements
<1>3. was = {j \in DOMAIN s : s[j].open}
    BY <1>2 DEF TabFew, B!Opened
<1>4. e = [d EXCEPT !.tabs = t, !.mark = mark, !.his = his, !.cur = cur]
    BY Zenon DEF B!Select
<1>5. /\ DOMAIN t = DOMAIN s
      /\ \A j \in DOMAIN s : t[j] \in Tab /\ TabSame(t[j], s[j]) /\ (t[j].open <=> j = i)
      /\ t[i].size = d.size
    <2>1. ASSUME NEW j \in DOMAIN s PROVE t[j] \in Tab /\ TabSame(t[j], s[j]) /\ (t[j].open <=> j = i)
        BY <1>1, <1>2, <1>3 DEF Tab, TabData, TabSame
    <2>2. t[i].size = d.size
        BY <1>2 DEF Tab
    <2> HIDE DEF was
    <2> QED BY <2>1, <2>2
<1>6. t \in Seq(Tab)
    <2>1. t \in [1 .. Len(s) -> Tab]
        <3> HIDE DEF was, s
        <3> QED BY <1>2, <1>5
    <2> HIDE DEF t
    <2> QED BY <1>2, <2>1, SeqDef
<1> HIDE DEF t
<1>7. /\ his \in Seq(B!Titles) /\ his # <<>> /\ his[Len(his)] = s[i].title
      /\ Len(his) = Len(d.his) + 1 /\ Len(d.his) \in Nat /\ DOMAIN his = 1 .. Len(his)
      /\ DOMAIN d.his = 1 .. Len(d.his)
      /\ \A k \in DOMAIN d.his : his[k] = d.his[k]
    <2>1. s[i].title \in B!Titles
        BY <1>2 DEF Tab
    <2> QED BY <1>1, <2>1, SeqElements, AppendProperties
<1>8. mark = {s[i].id} /\ mark \subseteq 1 .. MaxTabs
    <2>1. \A x : x \in d.mark => \E j \in was : s[j].id = x
        BY <1>3 DEF TabFew
    <2>2. s[i].id \in 1 .. MaxTabs
        BY <1>2 DEF Tab
    <2> HIDE DEF was, s
    <2> QED BY <2>1, <2>2
<1>9. cur \in Menus \cup {NoMenu}
    BY <1>1, <1>2 DEF Tab, TabData
<1> HIDE DEF mark, his, cur
<1>10. /\ e \in TabData /\ e.tabs = t /\ e.mark = mark /\ e.his = his /\ e.cur = cur
       /\ e.map = d.map /\ e.size = d.size
    <2> HIDE DEF e
    <2> QED BY <1>1, <1>4, <1>6, <1>7, <1>8, <1>9 DEF TabData
<1> HIDE DEF e
<1>11. TabFew(e)
    <2>1. \A j \in DOMAIN e.tabs : e.tabs[j].title = TitleOf[e.tabs[j].menu]
        BY <1>5, <1>10 DEF TabFew, TabSame
    <2>2. \A j, k \in DOMAIN e.tabs : e.tabs[j].id = e.tabs[k].id => j = k
        BY <1>5, <1>10 DEF TabFew, TabSame
    <2>3. \A j, k \in DOMAIN e.tabs : e.tabs[j].open /\ e.tabs[k].open => j = k
        BY <1>5, <1>10
    <2>4. \A x : x \in e.mark <=> \E j \in DOMAIN e.tabs : e.tabs[j].open /\ e.tabs[j].id = x
        BY <1>5, <1>8, <1>10 DEF TabSame
    <2>5. ASSUME NEW k \in DOMAIN e.his PROVE \E j \in DOMAIN e.tabs : e.tabs[j].title = e.his[k]
        <3>1. k \in DOMAIN d.his \/ k = Len(his)
            BY <1>7, <1>10
        <3>2. CASE k \in DOMAIN d.his
            <4>1. PICK j \in DOMAIN s : s[j].title = d.his[k]
                BY <3>2 DEF TabFew
            <4> QED BY <1>5, <1>7, <1>10, <3>2, <4>1 DEF TabSame
        <3>3. CASE k = Len(his)
            BY <1>5, <1>7, <1>10, <3>3 DEF TabSame
        <3> QED BY <3>1, <3>2, <3>3
    <2> QED BY <1>10, <2>1, <2>2, <2>3, <2>4, <2>5 DEF TabFew
<1>12. TabFront(e, i)
    BY <1>5, <1>7, <1>10 DEF TabFront, TabSame, cur
<1>13. TabPart(e, d)
    BY <1>5, <1>10 DEF TabPart
<1> QED BY <1>10, <1>11, <1>12, <1>13 DEF e, cur

\* Transitivity, and what is a part of itself.
LEMMA TabPartOf ==
    ASSUME NEW a, NEW b, NEW c
    PROVE  TabPart(a, a) /\ (TabPart(a, b) /\ TabPart(b, c) => TabPart(a, c))
<1>1. TabPart(a, a)
    BY DEF TabPart, TabSame
<1>2. ASSUME TabPart(a, b), TabPart(b, c) PROVE TabPart(a, c)
    <2>1. ASSUME NEW i \in DOMAIN a.tabs PROVE \E j \in DOMAIN c.tabs : TabSame(a.tabs[i], c.tabs[j])
        <3>1. PICK k \in DOMAIN b.tabs : TabSame(a.tabs[i], b.tabs[k])
            BY <1>2 DEF TabPart
        <3>2. PICK j \in DOMAIN c.tabs : TabSame(b.tabs[k], c.tabs[j])
            BY <1>2 DEF TabPart
        <3> QED BY <3>1, <3>2 DEF TabSame
    <2> QED BY <1>2, <2>1 DEF TabPart
<1> QED BY <1>1, <1>2

LEMMA RemovedAt ==
    ASSUME NEW S, NEW s \in Seq(S), NEW i \in DOMAIN s
    PROVE  /\ B!RemoveAt(s, i) \in Seq(S) /\ DOMAIN B!RemoveAt(s, i) = 1 .. Len(s) - 1
           /\ \A j \in 1 .. Len(s) - 1 : B!RemoveAt(s, i)[j] = IF j < i THEN s[j] ELSE s[j + 1]
<1> DEFINE n == Len(s)
           a == SubSeq(s, 1, i - 1)
           b == SubSeq(s, i + 1, n)
<1>1. n \in Nat /\ DOMAIN s = 1 .. n /\ \A j \in 1 .. n : s[j] \in S
    BY SeqElements
<1>2. i \in 1 .. n
    BY <1>1
<1>3. a \in Seq(S) /\ Len(a) = i - 1 /\ \A j \in 1 .. i - 1 : a[j] = s[j]
    <2> HIDE DEF n
    <2>1. 1 \in Int /\ i - 1 \in Int /\ \A j \in 1 .. i - 1 : s[j] \in S
        BY <1>1, <1>2
    <2>2. /\ a \in Seq(S) /\ Len(a) = IF 1 <= i - 1 THEN i - 1 - 1 + 1 ELSE 0
          /\ \A j \in 1 .. i - 1 - 1 + 1 : a[j] = s[1 + j - 1]
        BY <2>1, SubSeqProperties
    <2> HIDE DEF a
    <2> QED BY <1>2, <2>2
<1>4. b \in Seq(S) /\ Len(b) = n - i /\ \A j \in 1 .. n - i : b[j] = s[i + j]
    <2> HIDE DEF n
    <2>1. i + 1 \in Int /\ n \in Int /\ \A j \in i + 1 .. n : s[j] \in S
        BY <1>1, <1>2
    <2>2. /\ b \in Seq(S) /\ Len(b) = IF i + 1 <= n THEN n - (i + 1) + 1 ELSE 0
          /\ \A j \in 1 .. n - (i + 1) + 1 : b[j] = s[(i + 1) + j - 1]
        BY <2>1, SubSeqProperties
    <2> HIDE DEF b
    <2>3. \A j \in 1 .. n - i : (i + 1) + j - 1 = i + j /\ j \in 1 .. n - (i + 1) + 1
        BY <1>1, <1>2
    <2> QED BY <1>1, <1>2, <2>2, <2>3
<1>5. B!RemoveAt(s, i) = a \o b
    BY DEF B!RemoveAt
<1> HIDE DEF a, b, n
<1>6. /\ a \o b \in Seq(S) /\ Len(a \o b) = (i - 1) + (n - i)
      /\ \A j \in 1 .. (i - 1) + (n - i) : (a \o b)[j] = IF j <= i - 1 THEN a[j] ELSE b[j - (i - 1)]
    <2>1. /\ a \o b \in Seq(S) /\ Len(a \o b) = Len(a) + Len(b)
          /\ \A j \in 1 .. Len(a) + Len(b) : (a \o b)[j] = IF j <= Len(a) THEN a[j] ELSE b[j - Len(a)]
        BY <1>3, <1>4, ConcatProperties
    <2> DEFINE c == a \o b
               la == Len(a)
               lb == Len(b)
    <2>2. la = i - 1 /\ lb = n - i
        BY <1>3, <1>4
    <2> HIDE DEF c, la, lb
    <2>3. c \in Seq(S) /\ Len(c) = la + lb /\ \A j \in 1 .. la + lb : c[j] = IF j <= la THEN a[j] ELSE b[j - la]
        BY <2>1 DEF c, la, lb
    <2>4. /\ c \in Seq(S) /\ Len(c) = (i - 1) + (n - i)
          /\ \A j \in 1 .. (i - 1) + (n - i) : c[j] = IF j <= i - 1 THEN a[j] ELSE b[j - (i - 1)]
        BY <2>2, <2>3
    <2> QED BY <2>4 DEF c
<1>7. (i - 1) + (n - i) = n - 1
    BY <1>1, <1>2
<1>8. ASSUME NEW j \in 1 .. n - 1 PROVE (a \o b)[j] = IF j < i THEN s[j] ELSE s[j + 1]
    <2>1. CASE j < i
        <3>1. j <= i - 1 /\ j \in 1 .. i - 1
            BY <1>1, <1>2, <2>1
        <3> QED BY <1>3, <1>6, <1>7, <2>1, <3>1
    <2>2. CASE ~(j < i)
        <3>1. ~(j <= i - 1) /\ j - (i - 1) \in 1 .. n - i /\ i + (j - (i - 1)) = j + 1
            BY <1>1, <1>2, <2>2
        <3> QED BY <1>4, <1>6, <1>7, <2>2, <3>1
    <2> QED BY <2>1, <2>2
<1>9. DOMAIN (a \o b) = 1 .. n - 1
    BY <1>6, <1>7, LenProperties
<1> QED BY <1>5, <1>6, <1>8, <1>9 DEF n

\* A tab is taken away, and its title out of the history; the last title that is
\* left there is taken out, too.
Popped(h) == IF h = <<>> THEN h ELSE B!Front(h)
TabRest(d, i, h) ==
    [d EXCEPT !.tabs = B!RemoveAt(@, i), !.mark = @ \ {d.tabs[i].id}, !.his = Popped(h)]

LEMMA PoppedIs ==
    ASSUME NEW h \in Seq(B!Titles)
    PROVE  /\ Popped(h) \in Seq(B!Titles) /\ DOMAIN Popped(h) \subseteq DOMAIN h
           /\ \A k \in DOMAIN Popped(h) : Popped(h)[k] = h[k]
           /\ h # <<>> => Len(h) \in DOMAIN h
<1> DEFINE n == Len(h)
           a == SubSeq(h, 1, n - 1)
<1>1. n \in Nat /\ DOMAIN h = 1 .. n /\ \A j \in 1 .. n : h[j] \in B!Titles
    BY SeqElements
<1>2. h = <<>> <=> n = 0
    BY SeqElements
<1>3. ASSUME h # <<>>
      PROVE  a \in Seq(B!Titles) /\ Len(a) = n - 1 /\ \A j \in 1 .. n - 1 : a[j] = h[j]
    <2> HIDE DEF n
    <2>1. 1 \in Int /\ n - 1 \in Int /\ \A j \in 1 .. n - 1 : h[j] \in B!Titles
        BY <1>1
    <2>2. /\ a \in Seq(B!Titles) /\ Len(a) = IF 1 <= n - 1 THEN n - 1 - 1 + 1 ELSE 0
          /\ \A j \in 1 .. n - 1 - 1 + 1 : a[j] = h[1 + j - 1]
        BY <2>1, SubSeqProperties
    <2> HIDE DEF a
    <2> QED BY <1>1, <1>2, <1>3, <2>2
<1>4. h # <<>> => Popped(h) = a
    BY DEF Popped, B!Front
<1>5. h = <<>> => Popped(h) = h
    BY DEF Popped
<1> HIDE DEF a, n
<1>6. h # <<>> => DOMAIN a = 1 .. n - 1
    BY <1>3, LenProperties
<1>7. CASE h = <<>>
    BY <1>5, <1>7
<1>8. CASE h # <<>>
    <2>1. Popped(h) \in Seq(B!Titles) /\ DOMAIN Popped(h) = 1 .. n - 1
        BY <1>3, <1>4, <1>6, <1>8
    <2>2. \A k \in 1 .. n - 1 : Popped(h)[k] = h[k]
        BY <1>3, <1>4, <1>8
    <2>3. n \in 1 .. n /\ 1 .. n - 1 \subseteq 1 .. n
        BY <1>1, <1>2, <1>8
    <2> QED BY <1>1, <2>1, <2>2, <2>3 DEF n
<1> QED BY <1>7, <1>8

LEMMA TabRestIs ==
    ASSUME NEW d, TabFew(d), NEW i \in DOMAIN d.tabs, NEW h \in Seq(B!Titles),
           \A k \in DOMAIN h : h[k] # d.tabs[i].title /\ \E j \in DOMAIN d.his : h[k] = d.his[j]
    PROVE  /\ TabFew(TabRest(d, i, h)) /\ TabPart(TabRest(d, i, h), d)
           /\ \A k \in DOMAIN h : B!Exists(TabRest(d, i, h), h[k])
           /\ TabRest(d, i, h).his = Popped(h)
<1> DEFINE s == d.tabs
           n == Len(s)
           t == B!RemoveAt(s, i)
           mark == d.mark \ {s[i].id}
           e == TabRest(d, i, h)
           Was(j) == IF j < i THEN j ELSE j + 1
<1>1. d \in TabData /\ s \in Seq(Tab) /\ n \in Nat /\ DOMAIN s = 1 .. n
    BY SeqElements DEF TabFew, TabData
<1>2. t \in Seq(Tab) /\ DOMAIN t = 1 .. n - 1 /\ \A j \in DOMAIN t : t[j] = s[Was(j)]
    <2>1. /\ t \in Seq(Tab) /\ DOMAIN t = 1 .. n - 1
          /\ \A j \in 1 .. n - 1 : t[j] = IF j < i THEN s[j] ELSE s[j + 1]
        BY <1>1, RemovedAt
    <2> HIDE DEF t
    <2> QED BY <2>1
<1>3. /\ \A j \in DOMAIN t : Was(j) \in DOMAIN s \ {i}
      /\ \A j, k \in DOMAIN t : Was(j) = Was(k) => j = k
      /\ \A k \in DOMAIN s \ {i} : \E j \in DOMAIN t : Was(j) = k
    <2>1. i \in 1 .. n
        BY <1>1
    <2>2. \A j \in 1 .. n - 1 : Was(j) \in (1 .. n) \ {i}
        BY <1>1, <2>1
    <2>3. \A j, k \in 1 .. n - 1 : Was(j) = Was(k) => j = k
        BY <1>1, <2>1
    <2>4. ASSUME NEW k \in (1 .. n) \ {i} PROVE \E j \in 1 .. n - 1 : Was(j) = k
        <3>1. CASE k < i
            <4>1. k \in 1 .. n - 1 /\ Was(k) = k
                BY <1>1, <2>1, <3>1
            <4> QED BY <4>1
        <3>2. CASE ~(k < i)
            <4>1. k - 1 \in 1 .. n - 1 /\ Was(k - 1) = k
                BY <1>1, <2>1, <3>2
            <4> QED BY <4>1
        <3> QED BY <3>1, <3>2
    <2> HIDE DEF Was, t
    <2> QED BY <1>1, <1>2, <2>2, <2>3, <2>4
<1>4. Popped(h) \in Seq(B!Titles) /\ \A k \in DOMAIN Popped(h) : k \in DOMAIN h /\ Popped(h)[k] = h[k]
    BY PoppedIs
<1>5. e = [d EXCEPT !.tabs = t, !.mark = mark, !.his = Popped(h)]
    BY Zenon DEF TabRest
<1> HIDE DEF t, Was, n
<1>6. /\ e \in TabData /\ e.tabs = t /\ e.mark = mark /\ e.his = Popped(h) /\ e.cur = d.cur
      /\ e.map = d.map /\ e.size = d.size
    <2>1. mark \subseteq 1 .. MaxTabs
        BY <1>1 DEF TabData
    <2> HIDE DEF mark, e
    <2> QED BY <1>1, <1>2, <1>4, <1>5, <2>1 DEF TabData
<1> HIDE DEF e
<1>7. ASSUME NEW k \in DOMAIN h PROVE \E j \in DOMAIN t : t[j].title = h[k]
    <2>1. PICK m \in DOMAIN s : s[m].title = h[k]
        BY DEF TabFew
    <2>2. m # i
        BY <2>1
    <2> QED BY <1>2, <1>3, <2>1, <2>2
<1>8. \A x : x \in e.mark <=> \E j \in DOMAIN e.tabs : e.tabs[j].open /\ e.tabs[j].id = x
    <2> TAKE x
    <2>1. x \in e.mark <=> \E k \in DOMAIN s \ {i} : s[k].open /\ s[k].id = x
        BY <1>6 DEF TabFew
    <2> QED BY <1>2, <1>3, <1>6, <2>1
<1>9. TabFew(e)
    <2>1. \A j \in DOMAIN e.tabs : e.tabs[j].title = TitleOf[e.tabs[j].menu]
        BY <1>2, <1>3, <1>6 DEF TabFew
    <2>2. \A j, k \in DOMAIN e.tabs : e.tabs[j].id = e.tabs[k].id => j = k
        BY <1>2, <1>3, <1>6 DEF TabFew
    <2>3. \A j, k \in DOMAIN e.tabs : e.tabs[j].open /\ e.tabs[k].open => j = k
        BY <1>2, <1>3, <1>6 DEF TabFew
    <2>4. \A k \in DOMAIN e.his : \E j \in DOMAIN e.tabs : e.tabs[j].title = e.his[k]
        BY <1>4, <1>6, <1>7
    <2> QED BY <1>6, <1>8, <2>1, <2>2, <2>3, <2>4 DEF TabFew
<1>10. TabPart(e, d)
    BY <1>2, <1>3, <1>6 DEF TabPart, TabSame
<1>11. \A k \in DOMAIN h : B!Exists(e, h[k])
    BY <1>6, <1>7 DEF B!Exists, B!TitlesOf
<1> QED BY <1>6, <1>9, <1>10, <1>11 DEF e

LEMMA TabClose ==
    ASSUME NEW d, TabFew(d), NEW i \in DOMAIN d.tabs
    PROVE  TabWhole(B!Close(d, i)) /\ TabPart(B!Close(d, i), d)
<1> DEFINE h == B!Purged(d.his, d.tabs[i].title)
           e == TabRest(d, i, h)
           l == B!Last(h)
<1>1. h \in Seq(B!Titles) /\ \A k \in DOMAIN h : h[k] # d.tabs[i].title /\ \E j \in DOMAIN d.his : h[k] = d.his[j]
    BY TabPurged DEF TabFew, TabData
<1>2. B!Close(d, i) = IF h # <<>> THEN IF B!Exists(e, l) THEN B!Select(e, B!IndexOf(e, l)) ELSE e
                      ELSE IF e.tabs # <<>> THEN B!Select(e, 1) ELSE e
    BY Zenon DEF B!Close, TabRest, Popped
<1> HIDE DEF h
<1>3. TabFew(e) /\ TabPart(e, d) /\ e.his = Popped(h) /\ \A k \in DOMAIN h : B!Exists(e, h[k])
    BY <1>1, TabRestIs
<1> HIDE DEF e
<1>4. h # <<>> => B!Exists(e, l)
    BY <1>1, <1>3, PoppedIs DEF B!Last
<1> HIDE DEF l
<1>5. ASSUME NEW k \in DOMAIN e.tabs PROVE TabWhole(B!Select(e, k)) /\ TabPart(B!Select(e, k), d)
    <2>1. TabFew(B!Select(e, k)) /\ TabFront(B!Select(e, k), k) /\ TabPart(B!Select(e, k), e)
        BY <1>3, TabSelect
    <2> QED BY <1>3, <2>1, TabPartOf DEF TabWhole
<1>6. CASE h # <<>>
    <2>1. B!IndexOf(e, l) \in DOMAIN e.tabs
        BY <1>3, <1>4, <1>6, TabIndexOf
    <2> QED BY <1>2, <1>4, <1>5, <1>6, <2>1
<1>7. CASE h = <<>> /\ e.tabs # <<>>
    <2>1. 1 \in DOMAIN e.tabs
        BY <1>3, <1>7, SeqElements DEF TabFew, TabData
    <2> QED BY <1>2, <1>5, <1>7, <2>1
<1>8. CASE h = <<>> /\ e.tabs = <<>>
    BY <1>2, <1>3, <1>8 DEF TabWhole
<1> QED BY <1>6, <1>7, <1>8

LEMMA TabCloseFirst ==
    ASSUME NEW d, TabWhole(d), NEW t
    PROVE  TabWhole(B!CloseFirst(d, t)) /\ TabPart(B!CloseFirst(d, t), d)
<1>1. TabFew(d)
    BY DEF TabWhole
<1>2. CASE B!Exists(d, t)
    <2>1. B!IndexOf(d, t) \in DOMAIN d.tabs
        BY <1>1, <1>2, TabIndexOf
    <2> QED BY <1>1, <1>2, <2>1, TabClose DEF B!CloseFirst
<1>3. CASE ~B!Exists(d, t)
    BY <1>3, TabPartOf DEF B!CloseFirst
<1> QED BY <1>2, <1>3

LEMMA TabCloseEach ==
    ASSUME NEW d, TabWhole(d), NEW type, NEW t
    PROVE  TabWhole(B!CloseEach(d, type, t)) /\ TabPart(B!CloseEach(d, type, t), d)
<1> DEFINE c == [d |-> d, type |-> type, t |-> t, s |-> d.tabs]
           S == DOMAIN d.tabs
<1>1. d.tabs \in Seq(Tab)
    BY DEF TabWhole, TabFew, TabData
<1>2. Closing!IsFiniteSet(S)
    BY <1>1, FiniteDomain
<1>3. \A T \in SUBSET S : T # {} => Latest(T) \in T
    BY <1>1, LatestIs, SeqElements
<1>4. CloseInv(c, {}, CloseBase(c))
    BY TabPartOf DEF CloseInv, CloseBase
<1>5. ASSUME NEW T \in SUBSET S, NEW e, T # {}, CloseInv(c, T \ {Latest(T)}, e)
      PROVE  CloseInv(c, T, CloseOp(c, OneOf(c, Latest(T)), e))
    <2> DEFINE b == OneOf(c, Latest(T))
               g == B!CloseFirst(e, b.title)
    <2>1. TabWhole(e) /\ TabPart(e, d)
        BY <1>5 DEF CloseInv
    <2>2. TabWhole(g) /\ TabPart(g, e)
        BY <2>1, TabCloseFirst
    <2>3. TabPart(g, d)
        BY <2>1, <2>2, TabPartOf
    <2>4. CloseOp(c, b, e) = IF B!Closable(b, type, t) THEN g ELSE e
        BY DEF CloseOp
    <2> HIDE DEF b, g
    <2> QED BY <2>1, <2>2, <2>3, <2>4 DEF CloseInv, b
<1>6. CloseInv(c, S, Closing!Fold(c, S))
    <2> HIDE DEF c, S
    <2> QED BY <1>2, <1>3, <1>4, <1>5, Closing!FoldKeeps
<1>7. B!CloseEach(d, type, t) = Closing!Fold(c, S)
    BY DEF B!CloseEach, B!FoldLeft, B!MapThenFoldSet, Closing!Fold, Closing!MapThenFoldSet,
           CloseOp, OneOf, CloseBase, Latest
<1> QED BY <1>6, <1>7 DEF CloseInv

\* The tab that is added is in front, and its title is of its menu.
LEMMA TabAdded ==
    ASSUME NEW d, TabFew(d), NEW nr \in 1 .. MaxTabs, NEW m \in Menus,
           \A i \in DOMAIN d.tabs : d.tabs[i].id # nr
    PROVE  LET e == B!Added(d, nr, m)
           IN  /\ TabWhole(e) /\ e.cur = m
               /\ e.map = [d.map EXCEPT ![TitleOf[m]] = m]
               /\ \A i \in DOMAIN e.tabs :
                     \/ e.tabs[i].id = nr /\ e.tabs[i].menu = m
                     \/ \E j \in DOMAIN d.tabs : TabSame(e.tabs[i], d.tabs[j])
<1> DEFINE t == TitleOf[m]
           s == d.tabs
           b == [id |-> nr, title |-> t, menu |-> m, open |-> FALSE, size |-> d.size]
           map == [d.map EXCEPT ![t] = m]
           u == Append(s, b)
           n == [d EXCEPT !.map = map, !.tabs = u]
           k == Len(u)
           e == B!Select(n, k)
<1>1. d \in TabData /\ s \in Seq(Tab) /\ Len(s) \in Nat /\ DOMAIN s = 1 .. Len(s) /\ t \in B!Titles
    BY SeqElements DEF TabFew, TabData, B!Titles
<1>2. b \in Tab
    BY <1>1 DEF Tab, TabData
<1>3. B!Added(d, nr, m) = B!Select(n, Len(n.tabs))
    BY Zenon DEF B!Added
<1>4. map \in [B!Titles -> Menus \cup {NoMenu}] /\ map[t] = m
    BY <1>1 DEF TabData
<1> HIDE DEF map
<1>5. b.id = nr /\ b.title = t /\ b.menu = m /\ b.open = FALSE
    OBVIOUS
<1> HIDE DEF b
<1>6. /\ u \in Seq(Tab) /\ k = Len(s) + 1 /\ DOMAIN u = 1 .. k
      /\ u[k] = b /\ \A j \in DOMAIN s : u[j] = s[j]
    BY <1>1, <1>2, AppendProperties, SeqElements
<1>7. \A j \in DOMAIN u : j \in DOMAIN s \/ j = k
    BY <1>1, <1>6
<1>8. k \in DOMAIN u /\ DOMAIN s \subseteq DOMAIN u
    BY <1>1, <1>6
<1> HIDE DEF u, k, t
<1>9. /\ n \in TabData /\ n.tabs = u /\ n.map = map
      /\ n.his = d.his /\ n.mark = d.mark /\ n.size = d.size
    <2> HIDE DEF s
    <2> QED BY <1>1, <1>4, <1>6 DEF TabData
<1> HIDE DEF n
<1>10. TabFew(n)
    <2>1. \A j \in DOMAIN n.tabs : n.tabs[j].title = TitleOf[n.tabs[j].menu]
        BY <1>5, <1>6, <1>7, <1>9 DEF TabFew, t
    <2>2. \A i, j \in DOMAIN n.tabs : n.tabs[i].id = n.tabs[j].id => i = j
        BY <1>5, <1>6, <1>7, <1>9 DEF TabFew
    <2>3. \A i, j \in DOMAIN n.tabs : n.tabs[i].open /\ n.tabs[j].open => i = j
        BY <1>5, <1>6, <1>7, <1>9 DEF TabFew
    <2>4. \A x : x \in n.mark <=> \E i \in DOMAIN n.tabs : n.tabs[i].open /\ n.tabs[i].id = x
        BY <1>5, <1>6, <1>7, <1>8, <1>9 DEF TabFew
    <2>5. \A j \in DOMAIN n.his : \E i \in DOMAIN n.tabs : n.tabs[i].title = n.his[j]
        BY <1>6, <1>8, <1>9 DEF TabFew
    <2> QED BY <1>9, <2>1, <2>2, <2>3, <2>4, <2>5 DEF TabFew
<1>11. TabFew(e) /\ TabFront(e, k) /\ TabPart(e, n) /\ e.cur = n.map[n.tabs[k].title]
    BY <1>8, <1>9, <1>10, TabSelect
<1> HIDE DEF e
<1>12. ASSUME NEW i \in DOMAIN e.tabs
       PROVE  \/ e.tabs[i].id = nr /\ e.tabs[i].menu = m
              \/ \E j \in DOMAIN d.tabs : TabSame(e.tabs[i], d.tabs[j])
    <2>1. PICK j \in DOMAIN u : TabSame(e.tabs[i], u[j])
        BY <1>9, <1>11 DEF TabPart
    <2> QED BY <1>5, <1>6, <1>7, <2>1 DEF TabSame
<1>13. e.cur = m /\ e.map = map
    <2>1. e.map = map /\ e.cur = map[u[k].title]
        BY <1>9, <1>11 DEF TabPart
    <2> QED BY <1>4, <1>5, <1>6, <2>1
<1>14. B!Added(d, nr, m) = e
    BY <1>3, <1>9 DEF k, e
<1> QED BY <1>11, <1>12, <1>13, <1>14 DEF TabWhole, map, t

LEMMA TabResized ==
    ASSUME NEW d, TabWhole(d), NEW z \in TabSizes
    PROVE  LET e == B!Resized(d, z)
           IN  /\ TabWhole(e) /\ e.map = d.map
               /\ \A i \in DOMAIN e.tabs : \E j \in DOMAIN d.tabs : TabSame(e.tabs[i], d.tabs[j])
<1> DEFINE s == d.tabs
           was == B!Opened(d)
           t == [j \in DOMAIN s |-> IF j \in was THEN [s[j] EXCEPT !.size = z] ELSE s[j]]
           e == B!Resized(d, z)
<1>1. TabFew(d) /\ d \in TabData /\ s \in Seq(Tab)
    BY DEF TabWhole, TabFew, TabData
<1>2. Len(s) \in Nat /\ DOMAIN s = 1 .. Len(s) /\ \A j \in DOMAIN s : s[j] \in Tab
    BY <1>1, SeqElements
<1>3. was = {j \in DOMAIN s : s[j].open}
    BY <1>1, <1>2 DEF TabFew, B!Opened
<1>4. e = [d EXCEPT !.size = z, !.tabs = t]
    BY Zenon DEF B!Resized
<1>5. /\ DOMAIN t = DOMAIN s
      /\ \A j \in DOMAIN s : /\ t[j] \in Tab /\ TabSame(t[j], s[j]) /\ t[j].open = s[j].open
                             /\ s[j].open => t[j].size = z
    BY <1>2, <1>3 DEF Tab, TabSame
<1>6. t \in Seq(Tab)
    <2>1. t \in [1 .. Len(s) -> Tab]
        <3> HIDE DEF was, s
        <3> QED BY <1>2, <1>5
    <2> HIDE DEF t
    <2> QED BY <1>2, <2>1, SeqDef
<1> HIDE DEF t
<1>7. /\ e \in TabData /\ e.tabs = t /\ e.map = d.map /\ e.his = d.his /\ e.mark = d.mark
      /\ e.cur = d.cur /\ e.size = z
    <2> HIDE DEF e
    <2> QED BY <1>1, <1>4, <1>6 DEF TabData
<1> HIDE DEF e, was
<1>8. TabFew(e)
    <2>1. \A j \in DOMAIN e.tabs : e.tabs[j].title = TitleOf[e.tabs[j].menu]
        BY <1>1, <1>5, <1>7 DEF TabFew, TabSame
    <2>2. \A j, k \in DOMAIN e.tabs : e.tabs[j].id = e.tabs[k].id => j = k
        BY <1>1, <1>5, <1>7 DEF TabFew, TabSame
    <2>3. \A j, k \in DOMAIN e.tabs : e.tabs[j].open /\ e.tabs[k].open => j = k
        BY <1>1, <1>5, <1>7 DEF TabFew
    <2>4. \A x : x \in e.mark <=> \E j \in DOMAIN e.tabs : e.tabs[j].open /\ e.tabs[j].id = x
        BY <1>1, <1>5, <1>7 DEF TabFew, TabSame
    <2>5. \A k \in DOMAIN e.his : \E i \in DOMAIN e.tabs : e.tabs[i].title = e.his[k]
        BY <1>1, <1>5, <1>7 DEF TabFew, TabSame
    <2> QED BY <1>7, <2>1, <2>2, <2>3, <2>4, <2>5 DEF TabFew
<1>9. ASSUME e.tabs # <<>> PROVE \E f : TabFront(e, f)
    <2>1. s # <<>>
        BY <1>1, <1>2, <1>5, <1>6, <1>7, <1>9, SeqElements
    <2>2. PICK f : TabFront(d, f)
        BY <2>1 DEF TabWhole
    <2>3. TabFront(e, f)
        BY <1>5, <1>7, <2>2 DEF TabFront, TabSame
    <2> QED BY <2>3
<1> QED BY <1>5, <1>7, <1>8, <1>9 DEF TabWhole, e

\* A title has one tab and its menu, and what is asked for will have one, unless
\* it was asked for twice at once.
TabTitles(d, p) ==
    /\ \A i \in DOMAIN d.tabs : d.tabs[i].title \in p.again \/ d.map[d.tabs[i].title] = d.tabs[i].menu
    /\ \A i, j \in DOMAIN d.tabs : i = j \/ d.tabs[i].title # d.tabs[j].title \/ d.tabs[i].title \in p.again
    /\ \A i \in DOMAIN d.tabs : d.tabs[i].id <= p.nr
    /\ \A r \in p.net, i \in DOMAIN d.tabs :
          d.tabs[i].id # r.nr /\ (d.tabs[i].title = TitleOf[r.menu] => d.tabs[i].title \in p.again)
    /\ \A r \in p.net : r.nr <= p.nr
    /\ \A r, q \in p.net :
          r = q \/ (r.nr # q.nr /\ (TitleOf[r.menu] = TitleOf[q.menu] => TitleOf[r.menu] \in p.again))
TabAsked(d, p) ==
    \A a \in p.asked, i \in DOMAIN d.tabs :
        d.tabs[i].id = a.id => a.menu = d.tabs[i].menu \/ a.id \in p.away \/ d.tabs[i].title \in p.again

\* Pages that load or have asked are those of tabs; the one that loads is in
\* front, unless another came there.
TabLoads(d, p) ==
    /\ \A x \in p.loading : \E i \in DOMAIN d.tabs : d.tabs[i].id = x
    /\ \A a \in p.asked : \E i \in DOMAIN d.tabs : d.tabs[i].id = a.id
    /\ \A i \in DOMAIN d.tabs : d.tabs[i].id \in p.loading \ p.away => d.tabs[i].open

TabInv ==
    /\ MaxTabs \in Nat
    /\ TabWhole(data) /\ page \in TabPage
    /\ TabTitles(data, page) /\ TabAsked(data, page) /\ TabLoads(data, page)

\* Fewer tabs.
LEMMA TabFewer ==
    ASSUME NEW d, NEW e, NEW p, TabPart(e, d), TabFew(e), TabTitles(d, p), TabAsked(d, p)
    PROVE  TabTitles(e, p) /\ TabAsked(e, p)
<1>1. \A i \in DOMAIN e.tabs : \E k \in DOMAIN d.tabs : TabSame(e.tabs[i], d.tabs[k])
    BY DEF TabPart
<1>2. ASSUME NEW i \in DOMAIN e.tabs, NEW j \in DOMAIN e.tabs
      PROVE  i = j \/ e.tabs[i].title # e.tabs[j].title \/ e.tabs[i].title \in p.again
    <2>1. PICK k \in DOMAIN d.tabs : TabSame(e.tabs[i], d.tabs[k])
        BY <1>1
    <2>2. PICK l \in DOMAIN d.tabs : TabSame(e.tabs[j], d.tabs[l])
        BY <1>1
    <2>3. k = l => i = j
        BY <2>1, <2>2 DEF TabSame, TabFew
    <2> QED BY <2>1, <2>2, <2>3 DEF TabSame, TabTitles
<1>3. ASSUME NEW i \in DOMAIN e.tabs
      PROVE  /\ e.tabs[i].title \in p.again \/ e.map[e.tabs[i].title] = e.tabs[i].menu
             /\ e.tabs[i].id <= p.nr
             /\ \A r \in p.net : /\ e.tabs[i].id # r.nr
                                 /\ e.tabs[i].title = TitleOf[r.menu] => e.tabs[i].title \in p.again
             /\ \A a \in p.asked : e.tabs[i].id = a.id =>
                    a.menu = e.tabs[i].menu \/ a.id \in p.away \/ e.tabs[i].title \in p.again
    <2>1. PICK k \in DOMAIN d.tabs : TabSame(e.tabs[i], d.tabs[k])
        BY <1>1
    <2>2. e.map = d.map
        BY DEF TabPart
    <2> QED BY <2>1, <2>2 DEF TabSame, TabTitles, TabAsked
<1>4. TabTitles(e, p)
    BY <1>2, <1>3 DEF TabTitles
<1>5. TabAsked(e, p)
    BY <1>3 DEF TabAsked
<1> QED BY <1>4, <1>5

\* Whatever the handlers of the page make of the tabs.
LEMMA TabBecomes ==
    ASSUME MaxTabs \in Nat, NEW e, NEW p \in TabPage, TabWhole(e), TabTitles(e, p), TabAsked(e, p), B!Becomes(e, p)
    PROVE  TabInv'
<1> DEFINE ids == {e.tabs[i].id : i \in DOMAIN e.tabs}
           gone == B!Away(e, p)
           q == [p EXCEPT !.loading = @ \cap ids, !.asked = {a \in @ : a.id \in {a.id} \cap ids},
                          !.away = (@ \cup gone) \cap ids]
<1>1. data' = e /\ page' = q
    BY Zenon DEF B!Becomes, B!Still
<1>2. gone \subseteq p.loading /\ \A x \in p.loading \ gone : \E i \in DOMAIN e.tabs : e.tabs[i].open /\ e.tabs[i].id = x
    BY DEF B!Away, B!Opened
<1> HIDE DEF gone
<1>3. /\ q.nr = p.nr /\ q.net = p.net /\ q.menu = p.menu /\ q.again = p.again
      /\ q.loading = p.loading \cap ids /\ q.away = (p.away \cup gone) \cap ids
      /\ q.asked = {a \in p.asked : a.id \in ids}
    BY DEF TabPage
<1>4. q \in TabPage
    BY <1>2 DEF TabPage
<1> HIDE DEF q
<1>5. TabTitles(e, q)
    BY <1>3 DEF TabTitles
<1>6. TabAsked(e, q)
    BY <1>3 DEF TabAsked
<1>7. TabLoads(e, q)
    <2>1. ASSUME NEW i \in DOMAIN e.tabs, e.tabs[i].id \in q.loading \ q.away PROVE e.tabs[i].open
        <3>1. e.tabs[i].id \in p.loading \ gone
            BY <1>3, <2>1
        <3>2. PICK j \in DOMAIN e.tabs : e.tabs[j].open /\ e.tabs[j].id = e.tabs[i].id
            BY <1>2, <3>1
        <3> QED BY <3>2 DEF TabWhole, TabFew
    <2>2. \A x \in ids : \E i \in DOMAIN e.tabs : e.tabs[i].id = x
        OBVIOUS
    <2> QED BY <1>3, <2>1, <2>2 DEF TabLoads
<1> QED BY <1>1, <1>4, <1>5, <1>6, <1>7 DEF TabInv

\* Where the tabs are fewer or others are in front, and the page is as it was
\* but for its menu.
LEMMA TabMoves ==
    ASSUME TabInv, NEW e, NEW p \in TabPage, TabWhole(e), TabPart(e, data), B!Becomes(e, p),
           p.nr = page.nr, p.net = page.net, p.again = page.again, p.asked = page.asked, p.away = page.away
    PROVE  TabInv'
<1>1. TabTitles(data, p) /\ TabAsked(data, p)
    BY DEF TabInv, TabTitles, TabAsked
<1>2. TabTitles(e, p) /\ TabAsked(e, p)
    BY <1>1, TabFewer DEF TabWhole
<1> QED BY <1>2, TabBecomes DEF TabInv

LEMMA TabSelects ==
    ASSUME TabInv, NEW i \in DOMAIN data.tabs, B!Becomes(B!Select(data, i), page)
    PROVE  TabInv'
<1> DEFINE e == B!Select(data, i)
<1>1. TabFew(e) /\ TabFront(e, i) /\ TabPart(e, data)
    BY TabSelect DEF TabInv, TabWhole
<1>2. TabWhole(e)
    BY <1>1 DEF TabWhole
<1> QED BY <1>1, <1>2, TabMoves DEF TabInv

LEMMA TabAddIndexTab ==
    ASSUME TabInv, NEW m \in Menus, B!AddIndexTab(m)
    PROVE  TabInv'
<1> DEFINE t == TitleOf[m]
           i == B!IndexOf(data, t)
           e == B!Select(data, i)
           r == [nr |-> page.nr + 1, menu |-> m]
<1>1. TabFew(data) /\ page \in TabPage /\ MaxTabs \in Nat
    BY DEF TabInv, TabWhole
<1>2. CASE B!Exists(data, t)
    <2>1. i \in DOMAIN data.tabs /\ data.tabs[i].title = t
        BY <1>1, <1>2, TabIndexOf
    <2>2. TabFew(e) /\ e.cur = data.map[t]
        BY <1>1, <2>1, TabSelect
    <2>3. [e EXCEPT !.cur = data.map[t]] = e
        <3> HIDE DEF e
        <3> QED BY <2>2 DEF TabFew, TabData
    <2>4. B!Becomes([e EXCEPT !.cur = data.map[t]], page)
        BY Zenon, <1>2 DEF B!AddIndexTab
    <2> HIDE DEF i
    <2> QED BY <2>1, <2>3, <2>4, TabSelects
<1>3. CASE ~B!Exists(data, t)
    <2> DEFINE more == IF \E o \in page.net : TitleOf[o.menu] = t THEN {t} ELSE {}
               q == [page EXCEPT !.nr = @ + 1, !.net = @ \cup {r}, !.again = @ \cup more]
    <2>1. page.nr < MaxTabs /\ data' = data /\ page' = q
        BY Zenon, <1>3 DEF B!AddIndexTab, B!Check
    <2>2. more \subseteq {t} /\ (\A o \in page.net : TitleOf[o.menu] = t => t \in more) /\ t \in B!Titles
        BY DEF B!Titles
    <2>3. \A j \in DOMAIN data.tabs : data.tabs[j].title # t
        BY <1>3 DEF B!Exists, B!TitlesOf
    <2> HIDE DEF more
    <2>4. /\ q.nr = page.nr + 1 /\ q.net = page.net \cup {r} /\ q.again = page.again \cup more
          /\ q.loading = page.loading /\ q.asked = page.asked /\ q.away = page.away /\ q.menu = page.menu
        BY <1>1 DEF TabPage
    <2>5. q \in TabPage
        <3>1. page.nr + 1 \in 1 .. MaxTabs
            BY <1>1, <2>1 DEF TabPage
        <3>2. r \in [nr : 1 .. MaxTabs, menu : Menus]
            BY <3>1
        <3> HIDE DEF r
        <3> QED BY <1>1, <2>2, <3>1, <3>2 DEF TabPage
    <2> HIDE DEF q, t
    <2>6. r.nr = page.nr + 1 /\ r.menu = m /\ page.nr \in Nat
        BY <1>1 DEF TabPage
    <2> HIDE DEF r
    <2>7. \A j \in DOMAIN data.tabs : data.tabs[j] \in Tab
        BY <1>1, SeqElements DEF TabFew, TabData
    <2>8. \A o \in page.net : o.nr \in Nat
        BY <1>1 DEF TabPage
    <2>9. TabTitles(data, q)
        <3>1. \A j \in DOMAIN data.tabs : data.tabs[j].id <= q.nr /\ data.tabs[j].id # r.nr
            BY <2>4, <2>6, <2>7 DEF Tab, TabInv, TabTitles
        <3>2. \A o \in page.net : o.nr <= q.nr /\ o.nr # r.nr
            BY <2>4, <2>6, <2>8 DEF TabInv, TabTitles
        <3>3. \A o \in q.net : o.nr <= q.nr
            BY <2>4, <2>6, <3>2
        <3>4. \A o \in q.net, j \in DOMAIN data.tabs :
                data.tabs[j].id # o.nr /\ (data.tabs[j].title = TitleOf[o.menu] => data.tabs[j].title \in q.again)
            BY <2>3, <2>4, <2>6, <3>1 DEF TabInv, TabTitles, t
        <3>5. ASSUME NEW o \in q.net, NEW k \in q.net
              PROVE  o = k \/ (o.nr # k.nr /\ (TitleOf[o.menu] = TitleOf[k.menu] => TitleOf[o.menu] \in q.again))
            BY <2>2, <2>4, <2>6, <3>2 DEF TabInv, TabTitles, t
        <3>6. \A j \in DOMAIN data.tabs : data.tabs[j].title \in q.again \/ data.map[data.tabs[j].title] = data.tabs[j].menu
            BY <2>4 DEF TabInv, TabTitles
        <3>7. \A j, k \in DOMAIN data.tabs :
                j = k \/ data.tabs[j].title # data.tabs[k].title \/ data.tabs[j].title \in q.again
            BY <2>4 DEF TabInv, TabTitles
        <3> QED BY <3>1, <3>3, <3>4, <3>5, <3>6, <3>7 DEF TabTitles
    <2>10. TabAsked(data, q) /\ TabLoads(data, q)
        BY <2>4 DEF TabInv, TabAsked, TabLoads
    <2> QED BY <2>1, <2>5, <2>9, <2>10 DEF TabInv
<1> QED BY <1>2, <1>3

LEMMA TabAnswered ==
    ASSUME TabInv, NEW r \in page.net, B!Answered(r)
    PROVE  TabInv'
<1> DEFINE m == r.menu
           t == TitleOf[m]
           e == B!Added(data, r.nr, m)
           q == [page EXCEPT !.net = @ \ {r}, !.loading = @ \cup {r.nr}]
<1>1. TabFew(data) /\ page \in TabPage /\ r.nr \in 1 .. MaxTabs /\ m \in Menus /\ r.nr <= page.nr
    BY DEF TabInv, TabWhole, TabPage, TabTitles
<1>2. \A i \in DOMAIN data.tabs : data.tabs[i].id # r.nr
    BY DEF TabInv, TabTitles
<1>3. /\ TabWhole(e) /\ e.cur = m /\ e.map = [data.map EXCEPT ![t] = m]
      /\ \A i \in DOMAIN e.tabs :
            \/ e.tabs[i].id = r.nr /\ e.tabs[i].menu = m
            \/ \E j \in DOMAIN data.tabs : TabSame(e.tabs[i], data.tabs[j])
    BY <1>1, <1>2, TabAdded
<1>4. B!Becomes([e EXCEPT !.cur = m], q)
    BY Zenon DEF B!Answered
<1> HIDE DEF e
<1>5. [e EXCEPT !.cur = m] = e
    BY <1>3 DEF TabWhole, TabFew, TabData
<1>6. /\ q.nr = page.nr /\ q.net = page.net \ {r} /\ q.again = page.again
      /\ q.asked = page.asked /\ q.away = page.away
    BY <1>1 DEF TabPage
<1>7. q \in TabPage
    BY <1>1 DEF TabPage
<1> HIDE DEF q
<1>8. TabFew(e) /\ \A i \in DOMAIN e.tabs : e.tabs[i].title = TitleOf[e.tabs[i].menu]
    BY <1>3 DEF TabWhole, TabFew
<1>9. data.map \in [B!Titles -> Menus \cup {NoMenu}] /\ t \in B!Titles
    BY <1>1 DEF TabFew, TabData, B!Titles
<1> DEFINE New(i) == e.tabs[i].id = r.nr /\ e.tabs[i].menu = m /\ e.tabs[i].title = t
           Old(i) == \E j \in DOMAIN data.tabs : TabSame(e.tabs[i], data.tabs[j])
<1>10. \A i \in DOMAIN e.tabs : New(i) \/ Old(i)
    BY <1>3, <1>8
\* What is known of a tab that there was.
<1>11. ASSUME NEW i \in DOMAIN e.tabs, Old(i)
       PROVE  /\ e.tabs[i].title = t => e.tabs[i].title \in page.again
              /\ e.tabs[i].title \in page.again \/ data.map[e.tabs[i].title] = e.tabs[i].menu
              /\ e.tabs[i].id <= page.nr /\ e.tabs[i].id # r.nr
              /\ \A o \in page.net :
                    e.tabs[i].id # o.nr /\ (e.tabs[i].title = TitleOf[o.menu] => e.tabs[i].title \in page.again)
              /\ \A a \in page.asked : e.tabs[i].id = a.id =>
                    a.menu = e.tabs[i].menu \/ a.id \in page.away \/ e.tabs[i].title \in page.again
    <2>1. PICK j \in DOMAIN data.tabs : TabSame(e.tabs[i], data.tabs[j])
        BY <1>11
    <2> QED BY <2>1 DEF TabSame, TabInv, TabTitles, TabAsked
<1>12. TabTitles(e, q)
    <2>1. ASSUME NEW i \in DOMAIN e.tabs
          PROVE  e.tabs[i].title \in q.again \/ e.map[e.tabs[i].title] = e.tabs[i].menu
        <3>1. CASE New(i)
            BY <1>3, <1>9, <3>1
        <3>2. CASE Old(i)
            <4>1. CASE e.tabs[i].title = t
                BY <1>6, <1>11, <3>2, <4>1
            <4>2. CASE e.tabs[i].title # t
                <5>1. e.map[e.tabs[i].title] = data.map[e.tabs[i].title]
                    <6>1. e.tabs[i].title \in B!Titles
                        <7>1. e.tabs \in Seq(Tab)
                            BY <1>8 DEF TabFew, TabData
                        <7>2. e.tabs[i] \in Tab
                            BY <7>1, SeqElements
                        <7> QED BY <7>2 DEF Tab
                    <6> QED BY <1>3, <1>9, <4>2, <6>1
                <5> QED BY <1>6, <1>11, <3>2, <5>1
            <4> QED BY <4>1, <4>2
        <3> QED BY <1>10, <3>1, <3>2
    <2>2. ASSUME NEW i \in DOMAIN e.tabs, NEW j \in DOMAIN e.tabs
          PROVE  i = j \/ e.tabs[i].title # e.tabs[j].title \/ e.tabs[i].title \in q.again
        <3>1. CASE New(i) /\ New(j)
            BY <1>8, <3>1 DEF TabFew
        <3>2. CASE (New(i) /\ Old(j)) \/ (Old(i) /\ New(j))
            BY <1>6, <1>11, <3>2
        <3>3. CASE Old(i) /\ Old(j)
            <4>1. PICK k \in DOMAIN data.tabs : TabSame(e.tabs[i], data.tabs[k])
                BY <3>3
            <4>2. PICK l \in DOMAIN data.tabs : TabSame(e.tabs[j], data.tabs[l])
                BY <3>3
            <4>3. k = l => i = j
                BY <1>8, <4>1, <4>2 DEF TabSame, TabFew
            <4> QED BY <1>6, <4>1, <4>2, <4>3 DEF TabSame, TabInv, TabTitles
        <3>4. (New(i) \/ Old(i)) /\ (New(j) \/ Old(j))
            BY <1>10
        <3> HIDE DEF New, Old
        <3> QED BY <3>1, <3>2, <3>3, <3>4
    <2>3. \A i \in DOMAIN e.tabs : e.tabs[i].id <= q.nr
        BY <1>1, <1>6, <1>10, <1>11
    <2>4. ASSUME NEW o \in q.net, NEW i \in DOMAIN e.tabs
          PROVE  e.tabs[i].id # o.nr /\ (e.tabs[i].title = TitleOf[o.menu] => e.tabs[i].title \in q.again)
        <3>1. o \in page.net /\ o # r
            BY <1>6
        <3>2. CASE New(i)
            BY <1>6, <3>1, <3>2 DEF TabInv, TabTitles
        <3>3. CASE Old(i)
            BY <1>6, <1>11, <3>1, <3>3
        <3> QED BY <1>10, <3>2, <3>3
    <2>5. /\ \A o \in q.net : o.nr <= q.nr
          /\ \A o, k \in q.net :
                o = k \/ (o.nr # k.nr /\ (TitleOf[o.menu] = TitleOf[k.menu] => TitleOf[o.menu] \in q.again))
        BY <1>6 DEF TabInv, TabTitles
    <2> QED BY <2>1, <2>2, <2>3, <2>4, <2>5 DEF TabTitles
<1>13. TabAsked(e, q)
    <2> SUFFICES ASSUME NEW a \in q.asked, NEW i \in DOMAIN e.tabs, e.tabs[i].id = a.id
                 PROVE  a.menu = e.tabs[i].menu \/ a.id \in q.away \/ e.tabs[i].title \in q.again
        BY DEF TabAsked
    <2>1. a.id # r.nr
        BY <1>2, <1>6 DEF TabInv, TabLoads
    <2> QED BY <1>6, <1>10, <1>11, <2>1
<1> QED BY <1>3, <1>4, <1>5, <1>7, <1>12, <1>13, TabBecomes DEF TabInv

\* A check that is not answered, or a menu that is shown, leaves the tabs alone.
LEMMA TabRefused ==
    ASSUME TabInv, NEW r \in page.net, B!Refused(r)
    PROVE  TabInv'
<1> DEFINE q == [page EXCEPT !.net = @ \ {r}]
<1>1. data' = data /\ page' = q /\ page \in TabPage
    BY DEF B!Refused, TabInv
<1>2. /\ q \in TabPage /\ q.nr = page.nr /\ q.net \subseteq page.net /\ q.again = page.again
      /\ q.loading = page.loading /\ q.asked = page.asked /\ q.away = page.away
    BY <1>1 DEF TabPage
<1> HIDE DEF q
<1>3. TabTitles(data, q) /\ TabAsked(data, q) /\ TabLoads(data, q)
    BY <1>2 DEF TabInv, TabTitles, TabAsked, TabLoads
<1> QED BY <1>1, <1>2, <1>3 DEF TabInv

LEMMA TabShowMenu ==
    ASSUME TabInv, NEW i, B!ShowMenu(i)
    PROVE  TabInv'
<1> DEFINE q == [page EXCEPT !.menu = data.tabs[i].title]
<1>1. data' = data /\ page' = q /\ page \in TabPage /\ i \in DOMAIN data.tabs /\ data.tabs \in Seq(Tab)
    BY DEF B!ShowMenu, TabInv, TabWhole, TabFew, TabData
<1>2. data.tabs[i].title \in B!Titles
    <2>1. data.tabs[i] \in Tab
        BY <1>1, SeqElements
    <2> QED BY <2>1 DEF Tab
<1>3. /\ q \in TabPage /\ q.nr = page.nr /\ q.net = page.net /\ q.again = page.again
      /\ q.loading = page.loading /\ q.asked = page.asked /\ q.away = page.away
    BY <1>1, <1>2 DEF TabPage
<1> HIDE DEF q
<1>4. TabTitles(data, q) /\ TabAsked(data, q) /\ TabLoads(data, q)
    BY <1>3 DEF TabInv, TabTitles, TabAsked, TabLoads
<1> QED BY <1>1, <1>3, <1>4 DEF TabInv

LEMMA TabResize ==
    ASSUME TabInv, NEW z \in TabSizes, B!Resize(z)
    PROVE  TabInv'
<1> DEFINE e == B!Resized(data, z)
<1>1. B!Becomes(e, page)
    BY DEF B!Resize
<1>2. /\ TabWhole(e) /\ e.map = data.map
      /\ \A i \in DOMAIN e.tabs : \E j \in DOMAIN data.tabs : TabSame(e.tabs[i], data.tabs[j])
    BY TabResized DEF TabInv
<1> DEFINE d == [data EXCEPT !.size = e.size]
<1>3. d.map = data.map /\ d.tabs = data.tabs /\ d.size = e.size
    BY DEF TabInv, TabWhole, TabFew, TabData
<1> HIDE DEF d, e
<1>4. TabPart(e, d)
    BY <1>2, <1>3 DEF TabPart
<1>5. TabTitles(d, page) /\ TabAsked(d, page)
    BY <1>3 DEF TabInv, TabTitles, TabAsked
<1>6. TabTitles(e, page) /\ TabAsked(e, page)
    BY <1>2, <1>4, <1>5, TabFewer DEF TabWhole
<1> QED BY <1>1, <1>2, <1>6, TabBecomes DEF TabInv

LEMMA TabClickClose ==
    ASSUME TabInv, NEW i, B!ClickClose(i)
    PROVE  TabInv'
<1> DEFINE e == B!Close(data, i)
<1>1. i \in DOMAIN data.tabs /\ B!Becomes(e, page)
    BY DEF B!ClickClose
<1>2. TabWhole(e) /\ TabPart(e, data)
    BY <1>1, TabClose DEF TabInv, TabWhole
<1> HIDE DEF e
<1> QED BY <1>1, <1>2, TabMoves DEF TabInv

LEMMA TabCloseTab ==
    ASSUME TabInv, NEW type, B!CloseTab(type)
    PROVE  TabInv'
<1> DEFINE t == page.menu
           a == B!CloseEach(data, type, t)
           b == B!CloseFirst(data, t)
           e == IF type # "close" THEN a ELSE IF t = TitleOf[Home] THEN data ELSE b
           q == [page EXCEPT !.menu = "none"]
<1>1. B!Becomes(e, q)
    BY Zenon DEF B!CloseTab
<1>2. TabWhole(data) /\ page \in TabPage
    BY DEF TabInv
<1>3. /\ TabWhole(a) /\ TabPart(a, data)
      /\ TabWhole(b) /\ TabPart(b, data)
      /\ TabPart(data, data)
    BY <1>2, TabCloseEach, TabCloseFirst, TabPartOf
<1>4. TabWhole(e) /\ TabPart(e, data)
    <2> HIDE DEF a, b
    <2> QED BY <1>2, <1>3
<1>5. /\ q \in TabPage /\ q.nr = page.nr /\ q.net = page.net /\ q.again = page.again
      /\ q.asked = page.asked /\ q.away = page.away
    BY <1>2 DEF TabPage
<1> HIDE DEF e, q
<1> QED BY <1>1, <1>4, <1>5, TabMoves

\* The menu of the tab in front is current: it is the one that a page asks for
\* that is loaded in front.
LEMMA TabFrameLoads ==
    ASSUME TabInv, NEW x, B!FrameLoads(x)
    PROVE  TabInv'
<1> DEFINE b == [id |-> x, menu |-> data.cur]
           q == [page EXCEPT !.loading = @ \ {x}, !.asked = @ \cup {b}]
<1>1. x \in page.loading /\ data' = data /\ page' = q /\ page \in TabPage
    BY DEF B!FrameLoads, TabInv
<1>2. data.cur \in Menus \cup {NoMenu} /\ x \in 1 .. MaxTabs
    BY <1>1 DEF TabInv, TabWhole, TabFew, TabData, TabPage
<1>3. b \in [id : 1 .. MaxTabs, menu : Menus \cup {NoMenu}] /\ b.id = x /\ b.menu = data.cur
    BY <1>2
<1> HIDE DEF b
<1>4. /\ q \in TabPage /\ q.nr = page.nr /\ q.net = page.net /\ q.again = page.again
      /\ q.loading = page.loading \ {x} /\ q.asked = page.asked \cup {b} /\ q.away = page.away
    BY <1>1, <1>3 DEF TabPage
<1> HIDE DEF q
<1>5. TabTitles(data, q)
    BY <1>4 DEF TabInv, TabTitles
<1>6. ASSUME NEW i \in DOMAIN data.tabs, data.tabs[i].id = x
      PROVE  data.cur = data.tabs[i].menu \/ x \in page.away \/ data.tabs[i].title \in page.again
    <2>1. CASE x \notin page.away
        <3>1. data.tabs[i].open
            BY <1>1, <1>6, <2>1 DEF TabInv, TabLoads
        <3>2. PICK f : TabFront(data, f)
            <4>1. data.tabs # <<>>
                BY <1>6, SeqElements DEF TabInv, TabWhole, TabFew, TabData
            <4> QED BY <4>1 DEF TabInv, TabWhole
        <3>3. f = i
            BY <3>1, <3>2 DEF TabFront, TabInv, TabWhole, TabFew
        <3>4. data.cur = data.map[data.tabs[i].title]
            BY <3>2, <3>3 DEF TabFront
        <3> QED BY <3>4 DEF TabInv, TabTitles
    <2> QED BY <2>1
<1>7. TabAsked(data, q)
    BY <1>3, <1>4, <1>6 DEF TabInv, TabAsked
<1>8. TabLoads(data, q)
    BY <1>1, <1>3, <1>4 DEF TabInv, TabLoads
<1> QED BY <1>1, <1>4, <1>5, <1>7, <1>8 DEF TabInv

LEMMA TabStart ==
    ASSUME B!TabsAssumption, B!Init
    PROVE  TabInv
<1> DEFINE z == CHOOSE s \in TabSizes : TRUE
           map == [t \in B!Titles |-> NoMenu]
           d == [tabs |-> <<>>, his |-> <<>>, mark |-> {}, map |-> map, cur |-> NoMenu, size |-> z]
           r == [nr |-> 1, menu |-> Home]
           p == [nr |-> 0, net |-> {}, loading |-> {}, asked |-> {}, menu |-> "none", again |-> {}, away |-> {}]
           q == [nr |-> 1, net |-> {r}, loading |-> {}, asked |-> {}, menu |-> "none", again |-> {}, away |-> {}]
<1>1. data = d /\ page = B!Check(d, p, Home)
    BY Zenon DEF B!Init, B!Empty
<1>2. page = q
    <2>1. 0 + 1 = 1
        OBVIOUS
    <2>2. page = [p EXCEPT !.nr = @ + 1, !.net = @ \cup {[nr |-> p.nr + 1, menu |-> Home]},
                           !.again = @ \cup (IF \E o \in p.net : TitleOf[o.menu] = TitleOf[Home]
                                             THEN {TitleOf[Home]} ELSE {})]
        BY Zenon, <1>1 DEF B!Check
    <2>3. ~ \E o \in p.net : TitleOf[o.menu] = TitleOf[Home]
        OBVIOUS
    <2> QED BY <2>1, <2>2, <2>3
<1>3. MaxTabs \in Nat /\ MaxTabs >= 1 /\ Home \in Menus /\ z \in TabSizes
    BY DEF B!TabsAssumption
<1>4. d \in TabData /\ d.tabs = <<>> /\ d.his = <<>> /\ d.mark = {}
    <2>1. map \in [B!Titles -> Menus \cup {NoMenu}]
        OBVIOUS
    <2>2. <<>> \in Seq(Tab) /\ <<>> \in Seq(B!Titles)
        BY EmptySeq
    <2> HIDE DEF map, z
    <2> QED BY <1>3, <2>1, <2>2 DEF TabData
<1>5. DOMAIN d.tabs = {} /\ DOMAIN d.his = {}
    BY <1>4, SeqElements DEF TabData
<1>6. TabWhole(d)
    <2> HIDE DEF d
    <2> QED BY <1>4, <1>5 DEF TabWhole, TabFew
<1>7. q \in TabPage
    <2>1. r \in [nr : 1 .. MaxTabs, menu : Menus] /\ 1 \in 1 .. MaxTabs
        BY <1>3
    <2> HIDE DEF r
    <2> QED BY <2>1 DEF TabPage
<1>8. TabTitles(d, q) /\ TabAsked(d, q) /\ TabLoads(d, q)
    <2>1. q.net = {r} /\ r.nr = 1 /\ q.nr = 1 /\ q.loading = {} /\ q.asked = {}
        OBVIOUS
    <2> HIDE DEF d, q, r
    <2> QED BY <1>5, <2>1 DEF TabTitles, TabAsked, TabLoads
<1> HIDE DEF d, q
<1> QED BY <1>1, <1>2, <1>3, <1>6, <1>7, <1>8 DEF TabInv

LEMMA TabStep ==
    ASSUME TabInv, B!Next \/ (data' = data /\ page' = page)
    PROVE  TabInv'
<1>1. ASSUME NEW m \in Menus, B!AddIndexTab(m) PROVE TabInv'
    BY <1>1, TabAddIndexTab
<1>2. ASSUME NEW r \in page.net, B!Answered(r) \/ B!Refused(r) PROVE TabInv'
    BY <1>2, TabAnswered, TabRefused
<1>3. ASSUME NEW i, B!ClickTab(i) \/ B!ClickClose(i) \/ B!ShowMenu(i) \/ B!FrameLoads(i) PROVE TabInv'
    <2>1. CASE B!ClickTab(i)
        BY <2>1, TabSelects DEF B!ClickTab
    <2> QED BY <1>3, <2>1, TabClickClose, TabShowMenu, TabFrameLoads
<1>4. ASSUME NEW z \in TabSizes, B!Resize(z) PROVE TabInv'
    BY <1>4, TabResize
<1>5. ASSUME NEW type, B!CloseTab(type) PROVE TabInv'
    BY <1>5, TabCloseTab
<1>6. CASE data' = data /\ page' = page
    BY <1>6 DEF TabInv, TabWhole, TabFew, TabFront, TabTitles, TabAsked, TabLoads
<1> QED BY <1>1, <1>2, <1>3, <1>4, <1>5, <1>6 DEF B!Next

LEMMA TabShows ==
    ASSUME TabInv
    PROVE  B!TypeOK /\ B!OneInFront /\ B!ButtonsOfOwnMenu
<1> DEFINE front == {i \in DOMAIN data.tabs : data.tabs[i].open}
<1>1. TabFew(data) /\ data \in TabData /\ page \in TabPage
    BY DEF TabInv, TabWhole, TabFew
<1>2. B!TypeOK
    BY <1>1 DEF B!TypeOK, TabData, TabPage, Tab
<1>3. data.mark = {data.tabs[i].id : i \in front}
    BY <1>1 DEF TabFew
<1>4. B!ToSet(data.his) \subseteq B!TitlesOf(data)
    BY <1>1 DEF TabFew, B!ToSet, B!TitlesOf
<1>5. ASSUME data.tabs = <<>> PROVE B!OneInFront
    <2>1. DOMAIN data.tabs = {}
        BY <1>1, <1>5, SeqElements DEF TabData
    <2>2. DOMAIN data.his = {}
        BY <1>1, <2>1 DEF TabFew
    <2>3. data.his = <<>>
        <3> DEFINE n == Len(data.his)
        <3>1. n \in Nat /\ 1 .. n = {} /\ (data.his = <<>> <=> n = 0)
            BY <1>1, <2>2, SeqElements DEF TabData
        <3> HIDE DEF n
        <3> QED BY <3>1
    <2> QED BY <1>3, <1>4, <1>5, <2>3 DEF B!OneInFront
<1>6. ASSUME data.tabs # <<>> PROVE B!OneInFront
    <2>1. PICK f : TabFront(data, f)
        BY <1>6 DEF TabInv, TabWhole
    <2>2. front = {f}
        BY <1>1, <2>1 DEF TabFew, TabFront
    <2>3. Cardinality(front) = 1
        BY <2>2, FS_Singleton
    <2>4. B!Cardinality(front) = Cardinality(front)
        BY Zenon DEF B!Cardinality, Cardinality
    <2>5. \A i \in front : B!Last(data.his) = data.tabs[i].title /\ data.tabs[i].size = data.size
        BY <2>1, <2>2 DEF TabFront, B!Last
    <2> QED BY <1>3, <1>4, <1>6, <2>3, <2>4, <2>5 DEF B!OneInFront
<1>7. B!ButtonsOfOwnMenu
    BY DEF TabInv, TabTitles, TabAsked, B!ButtonsOfOwnMenu
<1> QED BY <1>2, <1>5, <1>6, <1>7

-----------------------------------------------------------------------------
(* The dictionary: what DictionaryProofs has shown of it.                    *)

DP == INSTANCE DictionaryProofs WITH SeqNOs <- DtlSeqNOs

LEMMA SameCards == \A S : D!Cardinality(S) = DP!Cardinality(S)
BY Zenon DEF D!Cardinality, DP!Cardinality

LEMMA SameDicStart == (D!DicAssumption <=> DP!DicAssumption) /\ (D!Init <=> DP!Init)
BY DEF D!DicAssumption, D!Init, D!SeededDics, D!SeededDtls, D!Loads, D!Items, D!Key, DP!DicAssumption,
       DP!Init, DP!SeededDics, DP!SeededDtls, DP!Loads, DP!Items, DP!Key

LEMMA SameDicStep == D!Next <=> DP!Next
<1>1. D!Forms = DP!Forms
    BY DEF D!Forms, D!Form, D!Offered, D!DtlsOf, D!Items, DP!Forms, DP!Form, DP!Offered, DP!DtlsOf,
           DP!Items
<1>2. D!Ask <=> DP!Ask
    BY <1>1, SameCards DEF D!Ask, DP!Ask, D!First, DP!First
<1>3. ASSUME NEW r PROVE D!Run(r) <=> DP!Run(r)
    BY DEF D!Run, D!GetDic, D!FindCod, D!FindNam, D!FindDtlCod, D!FindDtlNam, D!FindSeq, D!DropDic,
           D!DropDtls, D!DropDtl, D!Save, D!Read, D!Set, D!Items, D!First, D!Others, D!Begun, D!Met,
           D!Goto, D!Fail, D!GoOrFail, D!Dics, D!Dtls, D!Waits, D!DicWith, D!DtlWith, D!At, D!AfterGet,
           D!FreeNam, D!Number, D!Early, D!Commit, D!DropDtlsOf, D!Named, D!SaveDic, D!SaveDtl, D!OfDic,
           D!Loads, D!Key, D!Loaded, D!Max, D!Cardinality, DP!Run, DP!GetDic, DP!FindCod, DP!FindNam,
           DP!FindDtlCod, DP!FindDtlNam, DP!FindSeq, DP!DropDic, DP!DropDtls, DP!DropDtl, DP!Save,
           DP!Read, DP!Set, DP!Items, DP!First, DP!Others, DP!Begun, DP!Met, DP!Goto, DP!Fail,
           DP!GoOrFail, DP!Dics, DP!Dtls, DP!Waits, DP!DicWith, DP!DtlWith, DP!At, DP!AfterGet,
           DP!FreeNam, DP!Number, DP!Early, DP!Commit, DP!DropDtlsOf, DP!Named, DP!SaveDic, DP!SaveDtl,
           DP!OfDic, DP!Loads, DP!Key, DP!Loaded, DP!Max, DP!Cardinality
<1> QED BY <1>2, <1>3 DEF D!Next, DP!Next

LEMMA DicShows ==
    ASSUME D!DicAssumption, DP!Inv, DP!Told
    PROVE  /\ D!TypeOK /\ D!TwinsOnlyFromOverlap /\ D!OrphanOnlyFromOverlap /\ D!NumberedLast /\ D!BaseStays
           /\ D!ItemsServed
<1>1. DP!TypeOK /\ DP!TwinsOnlyFromOverlap /\ DP!OrphanOnlyFromOverlap /\ DP!NumberedLast /\ DP!BaseStays
    BY SameDicStart, DP!ToldShows
<1>2. DP!ItemsServed
    BY SameDicStart, DP!Serves
<1>3. D!TypeOK /\ D!BaseStays
    BY <1>1, SameCards DEF D!TypeOK, D!DicRow, D!DtlRow, D!BaseStays, D!Items, DP!TypeOK, DP!DicRow,
                           DP!DtlRow, DP!BaseStays, DP!Items
<1>4. D!TwinsOnlyFromOverlap /\ D!OrphanOnlyFromOverlap /\ D!NumberedLast
    BY <1>1 DEF D!TwinsOnlyFromOverlap, D!OrphanOnlyFromOverlap, D!NumberedLast, D!Alone, D!Overlapped,
                DP!TwinsOnlyFromOverlap, DP!OrphanOnlyFromOverlap, DP!NumberedLast, DP!Alone,
                DP!Overlapped
<1>5. D!ItemsServed
    BY <1>2 DEF D!ItemsServed, D!Served, D!Items, DP!ItemsServed, DP!Served, DP!Items
<1> QED BY <1>3, <1>4, <1>5

-----------------------------------------------------------------------------
(* The parts.                                                                *)

\* Every part keeps the invariant of its own.
PartsInv ==
    /\ which = "tabs" => TabInv
    /\ which = "window" => WinInv(data, page) /\ page.nr <= MaxAsked
    /\ which = "posts" => PostInv(data, page)
    /\ which = "org" => OrgInv /\ OrgRowsInv
    /\ which = "dic" => DP!Inv /\ DP!Told
    /\ which = "search" => SearchInv(data, page)
    /\ which = "edit" => EditInv(data, page)
    /\ which = "checked" => CheckInv(data, page)
    /\ which = "tools" => ToolsInv(data, page)
    /\ which = "cascade" => CascadeHold(data, page)
    /\ which = "resize" => ResizeInv(data, page)

LEMMA PartsStart ==
    ASSUME PartsAssumption, Init
    PROVE  PartsInv
<1>1. CASE which = "window" /\ W!Init
    <2>1. page.nr = 0
        BY <1>1 DEF W!Init
    <2> QED BY <1>1, <2>1, WinStart DEF PartsInv, PartsAssumption, W!WindowAssumption
<1>2. CASE which = "posts" /\ P!Init
    BY <1>2, PostStart DEF PartsInv, PartsAssumption
<1>3. CASE which = "org" /\ O!Init
    BY <1>3, OrgStart DEF PartsInv, PartsAssumption
<1>4. CASE which = "dic" /\ D!Init
    BY <1>4, SameDicStart, DP!InitHolds, DP!StartTold DEF PartsInv, PartsAssumption
<1>5. CASE which = "tabs" /\ B!Init
    BY <1>5, TabStart DEF PartsInv, PartsAssumption
<1>6. CASE which = "search" /\ SB!Init
    BY <1>6, SearchStart DEF PartsInv, PartsAssumption
<1>7. CASE which = "edit" /\ EF!Init
    BY <1>7, EditStart DEF PartsInv, PartsAssumption
<1>8. CASE which = "checked" /\ CK!Init
    BY <1>8, CheckStart DEF PartsInv, PartsAssumption
<1>9. CASE which = "tools" /\ GT!Init
    BY <1>9, ToolsStart DEF PartsInv, PartsAssumption
<1>10. CASE which = "cascade" /\ TC!Init
    BY <1>10, CascadeStart DEF PartsInv, PartsAssumption
<1>11. CASE which = "resize" /\ RZ!Init
    BY <1>11, ResizeStart DEF PartsInv, PartsAssumption
<1> QED BY <1>1, <1>2, <1>3, <1>4, <1>5, <1>6, <1>7, <1>8, <1>9, <1>10, <1>11 DEF Init, PartsInv

LEMMA PartsStep ==
    ASSUME PartsAssumption, PartsInv, [Next]_vars
    PROVE  PartsInv'
<1>1. CASE which = "window" /\ which' = which /\ W!Next
    BY <1>1, WinStep DEF PartsInv, PartsAssumption, W!WindowAssumption
<1>2. CASE which = "posts" /\ which' = which /\ P!Next
    BY <1>2, PostStep DEF PartsInv, PartsAssumption
<1>3. CASE which = "org" /\ which' = which /\ O!Next
    BY <1>3, OrgStepKeeps, OrgStepRows DEF PartsInv
<1>4. CASE which = "dic" /\ which' = which /\ D!Next
    <2>1. DP!DicAssumption /\ DP!Next
        BY <1>4, SameDicStart, SameDicStep DEF PartsAssumption
    <2> QED BY <1>4, <2>1, DP!StepKeeps, DP!StepTold DEF PartsInv
<1>6. CASE which = "tabs" /\ which' = which /\ B!Next
    BY <1>6, TabStep DEF PartsInv
<1>7. CASE which = "search" /\ which' = which /\ SB!Next
    BY <1>7, SearchStep DEF PartsInv, PartsAssumption
<1>8. CASE which = "edit" /\ which' = which /\ EF!Next
    BY <1>8, EditStep DEF PartsInv, PartsAssumption
<1>9. CASE which = "checked" /\ which' = which /\ CK!Next
    BY <1>9, CheckStep DEF PartsInv, PartsAssumption
<1>10. CASE which = "tools" /\ which' = which /\ GT!Next
    BY <1>10, ToolsStep DEF PartsInv, PartsAssumption
<1>11. CASE which = "cascade" /\ which' = which /\ TC!Next
    BY <1>11, CascadeStep DEF PartsInv, PartsAssumption
<1>12. CASE which = "resize" /\ which' = which /\ RZ!Next
    BY <1>12, ResizeStep DEF PartsInv, PartsAssumption
<1>5. CASE UNCHANGED vars
    <2>1. which' = which /\ data' = data /\ page' = page
        BY <1>5 DEF vars
    <2>2. OrgInv => OrgInv'
        BY <2>1, OrgStepKeeps
    <2>3. OrgRowsInv => OrgRowsInv'
        BY <2>1 DEF OrgRowsInv, OrgChanged
    <2>4. WinInv(data, page) => WinInv(data, page)'
        BY <2>1 DEF WinInv, WinTypes, WinLoads, WinSize, WinShadow
    <2>5. PostInv(data, page) => PostInv(data, page)'
        BY <2>1 DEF PostInv, PostTypes, PostOnce, PostTold, PostButton, PostWindow
    <2>6. DP!DicAssumption /\ [DP!Next]_DP!vars
        BY <2>1, SameDicStart DEF PartsAssumption, DP!vars
    <2>7. DP!Inv /\ DP!Told => (DP!Inv /\ DP!Told)'
        BY <2>6, DP!StepKeeps, DP!StepTold
    <2>8. TabInv => TabInv'
        BY <2>1, TabStep
    <2> QED BY <2>1, <2>2, <2>3, <2>4, <2>5, <2>7, <2>8 DEF PartsInv
<1> QED BY <1>1, <1>2, <1>3, <1>4, <1>5, <1>6, <1>7, <1>8, <1>9, <1>10, <1>11, <1>12 DEF Next

LEMMA PartsHold == PartsAssumption => (Spec => []PartsInv)
<1> SUFFICES ASSUME PartsAssumption PROVE Spec => []PartsInv
    OBVIOUS
<1>1. Init => PartsInv
    BY PartsStart
<1>2. PartsInv /\ [Next]_vars => PartsInv'
    BY PartsStep
<1> QED BY <1>1, <1>2, PTL DEF Spec

\* Every part keeps values of its types: identities of organisations and of
\* dictionaries are used once, and no more than two requests are open.
THEOREM PartsTypes == PartsAssumption => (Spec => []TypeOK)
<1> SUFFICES ASSUME PartsAssumption PROVE Spec => []TypeOK
    OBVIOUS
<1>1. PartsInv => TypeOK
    <2>1. CASE which = "tabs"
        BY <2>1, TabShows DEF PartsInv, TypeOK
    <2>2. CASE which = "window"
        BY <2>2, WinShows DEF PartsInv, TypeOK, PartsAssumption, W!WindowAssumption
    <2>3. CASE which = "posts"
        BY <2>3, PostShows DEF PartsInv, TypeOK, PartsAssumption
    <2>4. CASE which = "org"
        BY <2>4, OrgShows DEF PartsInv, TypeOK
    <2>5. CASE which = "dic"
        BY <2>5, DicShows DEF PartsInv, TypeOK, PartsAssumption
    <2>6. CASE which = "search"
        BY <2>6, SearchShows DEF PartsInv, TypeOK, PartsAssumption
    <2>7. CASE which = "edit"
        BY <2>7, EditShows DEF PartsInv, TypeOK, PartsAssumption
    <2>8. CASE which = "checked"
        BY <2>8, CheckShows DEF PartsInv, TypeOK, PartsAssumption
    <2>9. CASE which = "tools"
        BY <2>9, ToolsShows DEF PartsInv, TypeOK, PartsAssumption
    <2>10. CASE which = "cascade"
        BY <2>10, CascadeShows DEF PartsInv, TypeOK, PartsAssumption
    <2>11. CASE which = "resize"
        BY <2>11, ResizeShows DEF PartsInv, TypeOK, PartsAssumption
    <2>12. CASE which \notin {"tabs", "window", "posts", "org", "dic", "search", "edit", "checked", "tools",
                             "cascade", "resize"}
        BY <2>12 DEF TypeOK
    <2> QED BY <2>1, <2>2, <2>3, <2>4, <2>5, <2>6, <2>7, <2>8, <2>9, <2>10, <2>11, <2>12
<1> QED BY <1>1, PartsHold, PTL

\* Of the tabs one is in front, the marked one and the last of the history, and
\* the history has titles of tabs only, whatever is opened, clicked or closed; a
\* page asks for the buttons of its own menu, and a title has one tab, unless
\* another tab came to the front meanwhile, or one title was asked for twice.
THEOREM TabInFront == PartsAssumption => (Spec => []TabsHold)
<1> SUFFICES ASSUME PartsAssumption PROVE Spec => []TabsHold
    OBVIOUS
<1>1. PartsInv => TabsHold
    BY TabShows DEF PartsInv, TabsHold
<1> QED BY <1>1, PartsHold, PTL

\* A window has the size that it was given, or is maximized and keeps that size
\* to be restored; its shadow and its mask come and go with it, and what it shows
\* is from where its content comes.  Folding while it moves, and loads that fail
\* or overlap, are what spoils that.  A box that is pulled at an edge stays where
\* its opposite edge is, within its bounds as long as the mouse is.
THEOREM Windows == PartsAssumption => (Spec => []LooksOfWindow)
<1> SUFFICES ASSUME PartsAssumption PROVE Spec => []LooksOfWindow
    OBVIOUS
<1>1. PartsInv => LooksOfWindow
    BY WinShows, ResizeShows DEF PartsInv, LooksOfWindow, PartsAssumption, W!WindowAssumption
<1> QED BY <1>1, PartsHold, PTL

\* The one window shows what the page opened it for last, whatever was opened
\* before and answered in between; for what a post has done the page is called
\* back, once, when its messages are gone, and its button is enabled again.
THEOREM PostsCome == PartsAssumption => (Spec => []PostsHold)
<1> SUFFICES ASSUME PartsAssumption PROVE Spec => []PostsHold
    OBVIOUS
<1>1. PartsInv => PostsHold
    BY PostShows DEF PartsInv, PostsHold, PartsAssumption
<1> QED BY <1>1, PartsHold, PTL

\* Organisations with one code or name below one organisation, and those and users
\* that are left when theirs is deleted, come from transactions that overlapped or
\* pages shown before; and the tree shows who reaches the root, or, when nobody is
\* directly below it, who reaches an organisation that is gone.
THEOREM Organisations == PartsAssumption => (Spec => []OrganisationsHold)
<1> SUFFICES ASSUME PartsAssumption PROVE Spec => []OrganisationsHold
    OBVIOUS
<1>1. PartsInv => OrganisationsHold
    BY OrgShows DEF PartsInv, OrganisationsHold
<1> QED BY <1>1, PartsHold, PTL

\* Two dictionaries or items with one name come from transactions of which neither
\* was alone, and an item without its dictionary was added while that was dropped;
\* a new item comes last unless another transaction was open, or an item has no
\* number; and the dictionary of the program stays, with its item.
THEOREM Dictionaries == PartsAssumption => (Spec => []DictionariesHold)
<1> SUFFICES ASSUME PartsAssumption PROVE Spec => []DictionariesHold
    OBVIOUS
<1>1. PartsInv => DictionariesHold
    BY DicShows DEF PartsInv, DictionariesHold, PartsAssumption
<1> QED BY <1>1, PartsHold, PTL

\* What a page is given of the cache of the items is what the latest reload has
\* read, or what there is now where that read nothing, unless two reloads crossed
\* or two codes are one in capitals.
THEOREM Served == PartsAssumption => (Spec => []ItemsServed)
<1> SUFFICES ASSUME PartsAssumption PROVE Spec => []ItemsServed
    OBVIOUS
<1>1. PartsInv => ItemsServed
    BY DicShows DEF PartsInv, ItemsServed, PartsAssumption
<1> QED BY <1>1, PartsHold, PTL

\* What a field of a form shows is what is searched for or saved: the prompt of a
\* search box is never searched for, and a record that was set comes back from a
\* form that nobody touched, its words trimmed and its date as the same day.
THEOREM FieldsShow == PartsAssumption => (Spec => []FieldsShowValues)
<1> SUFFICES ASSUME PartsAssumption PROVE Spec => []FieldsShowValues
    OBVIOUS
<1>1. PartsInv => FieldsShowValues
    BY SearchShows, EditShows DEF PartsInv, FieldsShowValues, PartsAssumption
<1> QED BY <1>1, PartsHold, PTL

\* One box has the focus, and tells whether and why its text is not valid once it
\* was seen and its delay is over; what is posted is valid in every box that was
\* not disabled, whatever was typed, set and switched in between.
THEOREM ChecksKeep == PartsAssumption => (Spec => []ChecksHold)
<1> SUFFICES ASSUME PartsAssumption PROVE Spec => []ChecksHold
    OBVIOUS
<1>1. PartsInv => ChecksHold
    BY CheckShows DEF PartsInv, ChecksHold
<1> QED BY <1>1, PartsHold, PTL

\* Moving a row loses none and leaves the others in their order; and a click in a
\* tree grid of any shape ticks and selects what is below and above, while boxes
\* that were not clicked tell what is selected.
THEOREM ListsShow == PartsAssumption => (Spec => []ListsShowTheirData)
<1> SUFFICES ASSUME PartsAssumption PROVE Spec => []ListsShowTheirData
    OBVIOUS
<1>1. PartsInv => ListsShowTheirData
    BY ToolsShows, CascadeShows DEF PartsInv, ListsShowTheirData, PartsAssumption
<1> QED BY <1>1, PartsHold, PTL

=============================================================================
