CONSTANTS
    Base = 4
    Payloads <- MCPayloads
    Scripts <- MCScripts
    maxAllowedPacket = 450
    Window = 67
    Breaks = {0, 3, 30}
    MaxPayloads = 15
SPECIFICATION EventSpec
INVARIANTS
    TypeOK
    PayloadsInOrder
    NumbersAgree
    NothingBehind
    FieldsAsWritten
    
PROPERTIES
    EventsDelivered
