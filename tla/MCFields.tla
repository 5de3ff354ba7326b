------------------------------ MODULE MCFields ------------------------------
(* Small instances of the fields, lists, trees and boxes that pages are made *)
(* of, which do not share state: one run checks each of them by itself, and  *)
(* "which" says the one that a behaviour is of.                              *)
EXTENDS Integers, Sequences, TLC

VARIABLES which, data, page
vars == <<which, data, page>>

-----------------------------------------------------------------------------
(* Fields *)
Names3 == ("v1" :> "n1") @@ ("v2" :> "n2") @@ ("v3" :> "n3")
C == INSTANCE Combo WITH
        All <- <<"v1", "v2", "v3">>, NameOf <- Names3,
        Begins <- [t \in {"", "n", "n1", "x"} |->
                     CASE t = "n1" -> {"v1"} [] t = "x" -> {} [] OTHER -> {"v1", "v2", "v3"}],
        Below <- [v \in {"v1", "v2", "v3"} |-> IF v = "v1" THEN {"v2", "v3"} ELSE {}],
        Kinds <- {"box", "grid", "tree"}, MaxAsked <- 2, MaxValues <- 2

Field(k, first, min, max, step, length, back) ==
    [kind |-> k, first |-> first, min |-> min, max |-> max, step |-> step, length |-> length, back |-> back]
N == INSTANCE Numbers WITH
        Fields <- {Field("box", <<26>>, <<0>>, <<90>>, 0, 0, FALSE),
                   Field("box", <<>>, <<>>, <<>>, 0, 0, FALSE),
                   Field("spinner", <<50>>, <<-20>>, <<60>>, 30, 0, FALSE),
                   Field("time", <<540>>, <<480>>, <<1080>>, 0, 0, FALSE),
                   Field("time", <<>>, <<>>, <<1080>>, 0, 0, FALSE),
                   Field("time", <<1439>>, <<>>, <<>>, 0, 0, FALSE),
                   Field("slider", <<50>>, <<0>>, <<100>>, 5, 80, FALSE),
                   Field("slider", <<50>>, <<0>>, <<100>>, 7, 80, TRUE),
                   Field("slider", <<0>>, <<-20>>, <<20>>, 5, 40, FALSE),
                   Field("slider", <<0>>, <<10>>, <<20>>, 1, 40, TRUE)},
        Typed <- {<<>>, <<-34>>, <<26>>, <<84>>, <<1500>>},
        Places <- {-3, 0, 7, 13, 40, 80, 83}

Date(f, y, m, d, t) == [form |-> f, at |-> <<y, m, d, t>>]
D == INSTANCE DateField WITH
        Kinds <- {"date", "datetime"}, Today <- <<2014, 12, 10, 1>>, Times <- {0},
        Typed <- {Date("empty", 0, 0, 0, 0), Date("dash", 2015, 2, 30, 0), Date("slash", 2014, 5, 1, 0)},
        Years <- 2014 .. 2015, MaxMoves <- 1

Two(n) == <<n \div 10, n % 10>>
Four(n) == Two(n \div 100) \o Two(n % 100)
X == INSTANCE DateText WITH
        Years <- {1900, 2000, 2014, 2016},
        Numbers <- {<<3, 7, 0, 1, 0, 2>> \o Four(y) \o Two(m) \o Two(d) \o <<0, 1, e>> :
                      y \in {1899, 1900, 2000, 2014, 2016}, m \in {2, 4, 12}, d \in {1, 29, 30, 31}, e \in {1, 4}},
        Olds <- {<<3, 7, 0, 1, 0, 2>> \o Two(y) \o Two(m) \o Two(d) \o <<0, 1, 4>> :
                      y \in {0, 14, 16}, m \in {2, 4, 13}, d \in {0, 29, 30, 31}}

Input(k, s, d, r) == [kind |-> k, span |-> s, dic |-> d, rootflag |-> r]
Form(i, c, v) == [inputs |-> i, columns |-> c, vertical |-> v]
Q == INSTANCE QueryForm WITH
        InputOf <- [n \in {"t", "u", "m", "o", "x", "b", "d"} |->
                      CASE n = "t" -> Input("text", 1, "", "") [] n = "u" -> Input("number", 2, "", "")
                        [] n = "m" -> Input("many", 1, "sex", "") [] n = "o" -> Input("one", 1, "yesno", "all")
                        [] n = "x" -> Input("text", 3, "", "") [] n = "b" -> Input("box", 1, "", "")
                        [] n = "d" -> Input("date", 1, "", "")],
        Forms <- {Form(<<"t", "u", "m", "o", "x">>, 2, FALSE), Form(<<"t", "m", "o", "x">>, 2, TRUE),
                  Form(<<"t", "u", "o", "m", "x">>, 4, TRUE), Form(<<"t", "o", "d">>, 1, FALSE),
                  Form(<<"u", "t", "o">>, 3, FALSE)},
        More <- "b", Off <- {"x"},
        Held <- "sex" :> <<"m", "f">>, Served <- ("sex" :> <<"m", "f">>) @@ ("yesno" :> <<"y", "n">>),
        Picks <- {"p", "q"}

-----------------------------------------------------------------------------
(* Lists *)
TG == INSTANCE TreeGrid WITH
        Ids <- {"a", "b", "c", "d", "e", "n", "o"}, Root <- "root", None <- "none",
        Sent <- <<"d", "a", "e", "b", "o">>,
        ParentOf <- [r \in {"a", "b", "c", "d", "e", "n", "o"} |->
                       CASE r \in {"a", "d"} -> "root" [] r \in {"b", "c"} -> "a" [] r = "e" -> "d"
                         [] OTHER -> "gone"],
        Lazy <- {"d"}, Added <- {"n"}, MaxAsked <- 3, MaxEdits <- 2

Column(f, s, w) == [field |-> f, shown |-> s, wants |-> w]
GS == INSTANCE GridSums WITH
        Columns <- <<Column("n", FALSE, {"sum", "max"}), Column("m", TRUE, {"avg", "min", "max"})>>,
        Rows <- {[n |-> <<5>>, m |-> <<-7>>], [n |-> <<-7>>, m |-> <<12>>],
                 [n |-> <<>>, m |-> <<5>>], [n |-> <<1>>, m |-> <<0, 0>>]},
        MaxRows <- 3

DD == INSTANCE Dragging WITH
        Grids <- {"g", "h"}, Rows <- {"a", "b", "c", "d"},
        Rows0 <- ("g" :> <<"a", "b", "c">>) @@ ("h" :> <<"d">>), Refused <- {"d"}, MaxDrags <- 2

-----------------------------------------------------------------------------
(* Trees *)
TreeNodes == {"a", "b", "c", "d", "e", "n"}
TreeBelow == [n \in TreeNodes \cup {"root"} |->
                CASE n = "root" -> <<"a", "d">> [] n = "a" -> <<"b", "c">>
                  [] n = "d" -> <<"e">> [] OTHER -> <<>>]
T == INSTANCE Tree WITH
        Nodes <- TreeNodes, Root <- "root", NoNode <- "none", Below <- TreeBelow,
        Lazy <- {"d"}, Folded <- {"a"}, Ticked <- {"b"}, Added <- {"n"},
        Cascades <- {TRUE}, MaxAsked <- 2, MaxEdits <- 1

RoleNodes == {"a", "b", "c", "d"}
RoleBelow == [n \in RoleNodes \cup {"root"} |->
                CASE n = "root" -> <<"a">> [] n = "a" -> <<"b", "c", "d">> [] OTHER -> <<>>]
R == INSTANCE RolePage WITH
        Nodes <- RoleNodes, Root <- "root", NoNode <- "none", Below <- RoleBelow,
        Roles <- {"r1", "r2"}, NoRole <- "none", Owned <- {"a", "b", "c"},
        Grants <- {{}, {"a", "b", "d"}}, MaxAsked <- 2

-----------------------------------------------------------------------------
(* Boxes *)
L == INSTANCE Layout WITH
        Sides <- {"north", "south", "west", "east"}, Bodies <- {<<200, 150>>, <<220, 130>>},
        Sizes <- {40, 60}, Strip <- 28, MaxMoves <- 3

A == INSTANCE Accordion WITH
        Panels <- {"p", "q", "r"}, TitleOf <- ("p" :> "P") @@ ("q" :> "Q") @@ ("r" :> "Q"),
        Tall <- 100, HeadSize <- 10, MaxMoves <- 4

M == INSTANCE Menus WITH
        Tops <- {"m", "s"}, Subs <- {"u", "v"},
        Rows0 <- ("m" :> <<"a", "b">>) @@ ("s" :> <<"n1", "n2">>) @@ ("u" :> <<"c">>) @@ ("v" :> <<>>),
        SubOf <- "a" :> "u", Added <- <<"d", "b">>, Search <- "s", MaxEdits <- 2

Cell(f, n) == [field |-> f, colspan |-> n]
GC == INSTANCE GridColumns WITH
        Headers <- <<<<Cell("a", 1), Cell("", 2), Cell("d", 1)>>, <<Cell("b", 1), Cell("c", 1)>>>>,
        Width0 <- ("a" :> 40) @@ ("b" :> 30) @@ ("c" :> 0) @@ ("d" :> 55),
        Content <- ("a" :> 33) @@ ("b" :> 12) @@ ("c" :> 25) @@ ("d" :> 70),
        Sizes <- {18, 120, 301}, Bar <- 18, Dragged <- {25, 90}, MaxMoves <- 3

-----------------------------------------------------------------------------
Init ==
    \/ which = "combo" /\ C!Init
    \/ which = "number" /\ N!Init
    \/ which = "date" /\ D!Init
    \/ which = "text" /\ X!Init
    \/ which = "query" /\ Q!Init
    \/ which = "treegrid" /\ TG!Init
    \/ which = "sums" /\ GS!Init
    \/ which = "drag" /\ DD!Init
    \/ which = "tree" /\ T!Init
    \/ which = "role" /\ R!Init
    \/ which = "layout" /\ L!Init
    \/ which = "accordion" /\ A!Init
    \/ which = "menu" /\ M!Init
    \/ which = "columns" /\ GC!Init

Next ==
    /\ UNCHANGED which
    /\ \/ which = "combo" /\ C!Next
       \/ which = "number" /\ N!Next
       \/ which = "date" /\ D!Next
       \/ which = "text" /\ X!Next
       \/ which = "query" /\ Q!Next
       \/ which = "treegrid" /\ TG!Next
       \/ which = "sums" /\ GS!Next
       \/ which = "drag" /\ DD!Next
       \/ which = "tree" /\ T!Next
       \/ which = "role" /\ R!Next
       \/ which = "layout" /\ L!Next
       \/ which = "accordion" /\ A!Next
       \/ which = "menu" /\ M!Next
       \/ which = "columns" /\ GC!Next

Spec == Init /\ [][Next]_vars

-----------------------------------------------------------------------------
\* Every part keeps values of its types.
TypeOK ==
    /\ which = "combo" => C!TypeOK
    /\ which = "number" => N!TypeOK
    /\ which = "date" => D!TypeOK
    /\ which = "text" => X!TypeOK
    /\ which = "query" => Q!TypeOK
    /\ which = "treegrid" => TG!TypeOK
    /\ which = "sums" => GS!TypeOK
    /\ which = "drag" => DD!TypeOK
    /\ which = "tree" => T!TypeOK
    /\ which = "role" => R!TypeOK
    /\ which = "layout" => L!TypeOK
    /\ which = "accordion" => A!TypeOK
    /\ which = "menu" => M!TypeOK
    /\ which = "columns" => GC!TypeOK

\* What a field shows is what a form that is saved takes from it, dates and numbers
\* of persons are checked for what they mean, and a query asks for what is filled
\* in: see ShowsValues of Combo, HoldsItsRange of Numbers, ShowsItsDay of DateField,
\* AcceptsRealDays and NumbersAreChecked of DateText, AsksForWhatIsFilled of QueryForm.
FormsHold ==
    /\ which = "combo" => C!ShowsValues
    /\ which = "number" => N!HoldsItsRange
    /\ which = "date" => D!ShowsItsDay
    /\ which = "text" => X!AcceptsRealDays /\ X!NumbersAreChecked
    /\ which = "query" => Q!AsksForWhatIsFilled

\* A tree shows what it keeps: boxes agree with the boxes below them, what an open
\* triangle promises, and the getters find the nodes that are displayed there (Tree);
\* the rows below each row (ShowsItsData of TreeGrid); and the tree shown is the tree
\* of the role it will be saved for (TreeOfSelectedRole of RolePage).
TreesHold ==
    /\ which = "tree" => T!BoxesCascade /\ T!LooksOpen /\ T!Kinship
    /\ which = "treegrid" => TG!ShowsItsData
    /\ which = "role" => R!TreeOfSelectedRole

\* See RolePage: saving an untouched tree changes nothing.
UntouchedTreeRestores ==
    [][which = "role" /\ R!UntouchedSave
       => page'.has[page.role] \cap {"a", "b", "c"} = page.of.has]_vars

\* Boxes fill the one they are in: the sides of a layout (PanelsFillBody of Layout),
\* the panel that is open (OneOpen of Accordion), columns (ColumnsFit of GridColumns)
\* and the inputs of a form (Laid of QueryForm); menus are open above those they
\* belong to (MenusOpen of Menus), a footer tells what is in the rows above it
\* (SumsTold of GridSums), and a row is dropped where it was shown to be
\* (DropsWhereShown of Dragging).
BoxesFill ==
    /\ which = "layout" => L!PanelsFillBody
    /\ which = "accordion" => A!OneOpen
    /\ which = "columns" => GC!ColumnsFit
    /\ which = "query" => Q!Laid
    /\ which = "menu" => M!MenusOpen
    /\ which = "sums" => GS!SumsTold
    /\ which = "drag" => DD!DropsWhereShown

=============================================================================
