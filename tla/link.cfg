SPECIFICATION FairSpec
CONSTANTS
    Symbol <- MCSymbol
    Known <- MCKnown
    Programs <- MCPrograms
    Workspaces <- MCWorkspaces
    MaxDepth = 3
INVARIANTS TypeOK OneDeclaration NothingUnneeded Unambiguous RoundsProgress ClosedWhenDone
PROPERTY Returns
CHECK_DEADLOCK FALSE
