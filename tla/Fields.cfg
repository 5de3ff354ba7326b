SPECIFICATION Spec
INVARIANTS
    TypeOK
    FormsHold
    TreesHold
    BoxesFill
PROPERTIES
    UntouchedTreeRestores
CHECK_DEADLOCK FALSE
