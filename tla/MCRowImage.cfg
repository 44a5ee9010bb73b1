CONSTANTS
    Events <- MCEvents
SPECIFICATION Spec
INVARIANTS
    TypeOK
    RowsDelivered
    CutMeetsWalk
    SupportedAreRead
