CONSTANTS
    Written <- MCWritten
    Registered <- MCRegistered
    Keys <- MCKeys
SPECIFICATION Spec
INVARIANTS
    TypeOK
    ServerNamed
PROPERTIES
    ReadAsWritten
    Reformatted
    ServerNameKept
