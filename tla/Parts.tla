-------------------------------- MODULE Parts --------------------------------
(***************************************************************************)
(* Parts of the program that do not share state: the frame of the front    *)
(* page (tabs, a window, posts), two tables of the server, and, of what    *)
(* pages are made of, the fields, forms, lists and boxes that are proved   *)
(* about (MCFields has the others).  "which" says the one that a behaviour *)
(* is of, and never changes: a state is one of that part, and a property   *)
(* of the parts one of each of them.                                       *)
(***************************************************************************)
EXTENDS Integers, Sequences

CONSTANTS
    None, NoNumber,
    MaxAsked,   \* bound: the number of requests

    \* Tabs
    Menus, NoMenu, TitleOf, Home, TabSizes, MaxTabs, MaxHis,
    \* Window
    Hrefs, WindowSizes, Fit,
    \* Posts
    Kinds, Targets,
    \* Dictionary
    DicCods, DicNams, DtlCods, DtlNams, DtlSeqNOs, UpperOf, Base, Plain,
    \* Org
    OrgIDs, OrgCods, OrgNams, UsrIDs, ROOTNODE, OrgSeqNOs, ParentOf, OrgOf,
    \* SearchBox
    SearchWords, Prompt, SearchNames,
    \* EditForm
    Records, EditWords, Trimmed, Picks, Days, Fixed, NoRecord,
    \* Checked
    CheckBoxes, Required, RulesOf, CheckTexts, Switched, Tries, MaxEdits, MaxPosts,
    \* GridTools
    Rows0, Keys, OwnNames, Held, Elsewhere, Values, Texts, Hole, MaxSteps,
    \* TreeGridCheck
    RowIDs, RowRoot, RowParentOf, LazyRows, MarkedRows, MaxClicks,
    \* Resizing
    Boxes, Marks, Edge, Least, Most, Handles, Axes

VARIABLES which, data, page
vars == <<which, data, page>>

D == INSTANCE Dictionary WITH SeqNOs <- DtlSeqNOs
O == INSTANCE Org WITH SeqNOs <- OrgSeqNOs
B == INSTANCE Tabs WITH Sizes <- TabSizes
W == INSTANCE Window WITH Sizes <- WindowSizes
P == INSTANCE Posts
SB == INSTANCE SearchBox WITH Words <- SearchWords, Names <- SearchNames
EF == INSTANCE EditForm WITH Words <- EditWords, None <- NoRecord
CK == INSTANCE Checked WITH Boxes <- CheckBoxes, Texts <- CheckTexts
GT == INSTANCE GridTools WITH Asked <- Elsewhere
TC == INSTANCE TreeGridCheck WITH
        Ids <- RowIDs, Root <- RowRoot, ParentOf <- RowParentOf, Lazy <- LazyRows, Marked <- MarkedRows
RZ == INSTANCE Resizing

PartsAssumption ==
    /\ B!TabsAssumption /\ W!WindowAssumption /\ P!PostsAssumption
    /\ D!DicAssumption /\ O!OrgAssumption
    /\ EF!EditAssumption /\ CK!CheckedAssumption /\ GT!ToolsAssumption
    /\ TC!TreeGridCheckAssumption /\ RZ!ResizingAssumption
ASSUME PartsAssumption

-----------------------------------------------------------------------------
Init ==
    \/ which = "tabs" /\ B!Init
    \/ which = "window" /\ W!Init
    \/ which = "posts" /\ P!Init
    \/ which = "dic" /\ D!Init
    \/ which = "org" /\ O!Init
    \/ which = "search" /\ SB!Init
    \/ which = "edit" /\ EF!Init
    \/ which = "checked" /\ CK!Init
    \/ which = "tools" /\ GT!Init
    \/ which = "cascade" /\ TC!Init
    \/ which = "resize" /\ RZ!Init

Next ==
    /\ UNCHANGED which
    /\ \/ which = "tabs" /\ B!Next
       \/ which = "window" /\ W!Next
       \/ which = "posts" /\ P!Next
       \/ which = "dic" /\ D!Next
       \/ which = "org" /\ O!Next
       \/ which = "search" /\ SB!Next
       \/ which = "edit" /\ EF!Next
       \/ which = "checked" /\ CK!Next
       \/ which = "tools" /\ GT!Next
       \/ which = "cascade" /\ TC!Next
       \/ which = "resize" /\ RZ!Next

Spec == Init /\ [][Next]_vars

-----------------------------------------------------------------------------
\* Every part keeps values of its types.
TypeOK ==
    /\ which = "tabs" => B!TypeOK
    /\ which = "window" => W!TypeOK
    /\ which = "posts" => P!TypeOK
    /\ which = "dic" => D!TypeOK
    /\ which = "org" => O!TypeOK
    /\ which = "search" => SB!TypeOK
    /\ which = "edit" => EF!TypeOK
    /\ which = "checked" => CK!TypeOK
    /\ which = "tools" => GT!TypeOK
    /\ which = "cascade" => TC!TypeOK
    /\ which = "resize" => RZ!TypeOK

\* See Tabs: one tab is in front, the marked one and the last of the history; a
\* page shows the buttons of its own menu, and a title has one tab.
TabsHold == which = "tabs" => B!OneInFront /\ B!ButtonsOfOwnMenu

\* See Window: size, shadow and mask of a window, and where its content is from;
\* and Resizing: a box that is pulled at an edge, as windows are, stays where its
\* other edge is.
LooksOfWindow ==
    /\ which = "window" => W!LooksOfWindow /\ W!ContentOfHref
    /\ which = "resize" => RZ!OppositeEdgeStays

\* See Posts: the one window shows what it was opened for last; a page is called
\* back for what was done, and its button enabled.
PostsHold == which = "posts" => P!WindowOfLastAsked /\ P!PostsComeBack

\* See Dictionary: what overlapping transactions leave behind and nothing else
\* does, the number of a new item, and the dictionaries of the program.
DictionariesHold ==
    which = "dic" =>
        /\ D!TwinsOnlyFromOverlap
        /\ D!OrphanOnlyFromOverlap
        /\ D!NumberedLast
        /\ D!BaseStays

\* See Dictionary: of when the items are that a page is given.
ItemsServed == which = "dic" => D!ItemsServed

\* See Org: what overlapping transactions and old pages leave behind and nothing
\* else does, and what the tree of organisations shows.
OrganisationsHold ==
    which = "org" => O!TwinsOnlyFromOverlap /\ O!NobodyLeftBehind /\ O!TreeShowsReachable

\* What a field shows is what is searched for or saved, and what the server sent
\* comes back: see SearchesShown of SearchBox and ComesBack of EditForm.
FieldsShowValues ==
    /\ which = "search" => SB!SearchesShown
    /\ which = "edit" => EF!ComesBack

\* See Checked: marks and messages tell what was checked, and a form is posted
\* when what is in it was checked.
ChecksHold == which = "checked" => CK!MarksTold /\ CK!PostsAreChecked

\* A list shows what it keeps: rows that are moved (ToolsKeep of GridTools), and
\* boxes with those above and below (Cascades of TreeGridCheck).
ListsShowTheirData ==
    /\ which = "tools" => GT!ToolsKeep
    /\ which = "cascade" => TC!Cascades

=============================================================================
