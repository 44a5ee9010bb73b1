CONSTANTS
    Files = {1, 2}
    Offsets = {0,1,2,3,4,5,6,7,8,9,10,11,12,13,14,15,16,17,18,19,20}
    TableIds = {1, 2, 3}
    TableNames = {"t1", "t2"}
    ColumnCounts = {1, 2}
    Versions = {0, 1}
    Statements <- MCStatements
    MaxRows = 0
    MaxSent = 0
    NoTable = NoTable
    Changes <- TwoTables
    Features = {"ddl", "alter", "restart", "reuseIds", "savepoint", "xa"}
    MaxGroups = 2
    MaxTroubles = 1
SPECIFICATION ReplicationSafeSpec
INVARIANTS
    RowsAcceptedOnce
PROPERTIES
    TableOfRow
    
