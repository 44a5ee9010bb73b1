CONSTANTS
    Files = {"log1"}
    Offsets = {0}
    TableIds = {1}
    TableNames = {"t1"}
    ColumnCounts = {1, 2}
    Versions = {0}
    Statements <- MCStatements
    MaxRows = 3
    MaxSent = 2
    NoTable = NoTable
INIT Init
NEXT Next
INVARIANTS
    TypeOK
    NoOrphanEvents
    RowsInOrderOnce
