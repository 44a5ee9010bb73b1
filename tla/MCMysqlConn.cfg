CONSTANTS
    Configs <- MCConfigs
    SeqMod = 6
    RowCounts = {1, 2}
    MaxExecs = 2
SPECIFICATION Spec
INVARIANTS
    TypeOK
    ReadsOwnAnswer
    NothingLeft
    ConnectsInSync
    ClosedOnError
    ParamsInForce
PROPERTIES
    Returns
