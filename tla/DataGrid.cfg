CONSTANTS
    Data <- MCData
    NewRows <- MCNewRows
    Vals = {0, 1}
    Invalid = Invalid
    Opts <- MCOpts
    Uses = {"list", "query", "edit"}
    PageSize = 2
    MaxAsked <- MCMaxAsked
SPECIFICATION Spec
INVARIANTS
    TypeOK
    LooksAsRemembered
    BoxesAgree
    NoHiddenSelection
    ShowsPageOfPager
    MaskGoes
    LogTellsChanges
PROPERTIES
    RejectRestores
CHECK_DEADLOCK FALSE
