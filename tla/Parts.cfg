CONSTANTS
    None = "none"
    NoNumber <- MCNoNumber
    MaxAsked = 3
    Menus = {"home", "m1", "m2", "m3"}
    NoMenu = "nomenu"
    TitleOf <- MCTitleOf
    Home = "home"
    TabSizes = {"s", "t"}
    MaxTabs = 3
    MaxHis = 3
    Hrefs = {"x", "y"}
    WindowSizes = {"s", "t"}
    Fit = "fit"
    Kinds = {"post", "always", "either", "close", "return"}
    Targets = {"A", "B"}
    DicCods = {"B", "x", "X"}
    DicNams = {"m", "n", "o"}
    DtlCods = {"i", "j"}
    DtlNams = {"u", "v"}
    DtlSeqNOs = {3}
    UpperOf <- MCUpperOf
    Base = "B"
    Plain = "x"
    OrgIDs = {"a", "b", "c"}
    OrgCods = {"k", "l", "x"}
    OrgNams = {"m", "n", "y"}
    UsrIDs = {"u"}
    ROOTNODE = "EAMSROOT"
    OrgSeqNOs = {}
    ParentOf <- MCParentOf
    OrgOf <- MCOrgOf
    SearchWords = {"x", "y"}
    Prompt = "prompt"
    SearchNames = {"n", "m"}
    Records <- MCRecords
    EditWords = {"x", "x "}
    Trimmed <- MCTrimmed
    Picks = {"a", "b"}
    Days <- MCDays
    Fixed = {"one"}
    NoRecord <- MCNoRecord
    CheckBoxes = {"b", "c"}
    Required = {"b"}
    RulesOf <- MCRulesOf
    CheckTexts <- MCCheckTexts
    Switched = {"c"}
    Tries = 2
    MaxEdits = 2
    MaxPosts = 1
    Rows0 <- MCRows0
    Keys = {"k", "toString"}
    OwnNames = {"toString"}
    Held = {"sex"}
    Elsewhere = {"other"}
    Values = {"1"}
    Texts = {"t", "u"}
    Hole = "undefined"
    MaxSteps = 4
    RowIDs = {"a", "b", "c", "d", "e", "f"}
    RowRoot = "root"
    RowParentOf <- MCRowParentOf
    LazyRows = {"c"}
    MarkedRows = {"f"}
    MaxClicks = 4
    Boxes <- MCBoxes
    Marks = {12, 30, 48, 60}
    Edge = 5
    Least = 20
    Most = 45
    Handles = {{"n"}, {"s"}, {"e"}, {"w"}, {"n", "w"}, {"s", "e"}}
    Axes = {"h", "both"}
SPECIFICATION Spec
INVARIANTS
    TypeOK
    TabsHold
    LooksOfWindow
    PostsHold
    DictionariesHold
    ItemsServed
    OrganisationsHold
    FieldsShowValues
    ChecksHold
    ListsShowTheirData
CHECK_DEADLOCK FALSE
