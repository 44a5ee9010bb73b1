CONSTANTS
    Files = {1, 2, 3}
    Offsets = {0,1,2,3,4,5,6,7,8,9,10,11,12,13,14,15,16,17,18,19,20}
    TableIds = {1, 2, 3, 4}
    TableNames = {"t1"}
    ColumnCounts = {1}
    Versions = {0}
    Statements <- MCStatements
    MaxRows = 0
    MaxSent = 0
    NoTable = NoTable
    Changes <- OnePair
    Features = {"rollback", "flush", "restart"}
    MaxGroups = 2
    MaxTroubles = 2
SPECIFICATION ReplicationSpec
INVARIANTS
    WholeTransactions
PROPERTIES
    ExactlyOnceInOrder
    EventuallyDelivered
