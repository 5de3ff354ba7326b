------------------------------ MODULE MCParts ------------------------------
(* A small instance of Parts. *)
EXTENDS Parts, TLC

MCTitleOf == [m \in Menus |-> CASE m = "home" -> "H" [] m = "m1" -> "X" [] OTHER -> "Y"]
MCUpperOf == [c \in DicCods |-> IF c = "x" THEN "X" ELSE c]
MCNoNumber == -1
MCParentOf == [o \in {"a", "b"} |-> IF o = "a" THEN "EAMSROOT" ELSE "a"]
MCOrgOf == [u \in {"u"} |-> "b"]

\* EditForm
Day(form, time, d) == [form |-> form, wide |-> TRUE, time |-> time, y |-> 2013, m |-> 12, d |-> d]
MCRecords ==
    {[id |-> "1", text |-> "x ", one |-> "x", many |-> {"a"}, ways |-> {"a", "b"}, radio |-> "x",
      date |-> Day("slash", TRUE, 31)],
     [id |-> "2", text |-> "x", ways |-> {"b"}]}
MCTrimmed == [w \in EditWords \cup {""} |-> IF w = "x " THEN "x" ELSE w]
MCDays == {Day("dash", FALSE, 1)}
MCNoRecord == <<>>

\* Checked
Rule(x, n, m) == [name |-> x, n |-> n, m |-> m]
MCRulesOf ==
    ("b" :> <<Rule("maxUTFLength", 4, 0), Rule("loginName", 0, 0)>>) @@ ("c" :> <<Rule("english", 0, 0)>>)
MCCheckTexts == {<<>>, <<"letter">>, <<"cjk", "cjk">>}

\* GridTools
MCRows0 == <<"a", "b", "c">>

\* TreeGridCheck: d is below b, e below c, which is sent when it is opened
MCRowParentOf ==
    [r \in RowIDs |-> CASE r = "a" -> "root" [] r = "d" -> "b" [] r = "e" -> "c" [] OTHER -> "a"]

\* Resizing
MCBoxes == {[l |-> 10, t |-> 10, w |-> 40, h |-> 40]}

=============================================================================
