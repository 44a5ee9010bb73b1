CONSTANTS
    SeqMod = 3
    MaxPackets = 4
SPECIFICATION Spec
INVARIANTS
    TypeOK
    EventsInOrder
    NothingLostAtEof
    SyncErrorOnlyWhileClosing
    ConnectionClosed
PROPERTIES
    CancelStops
    LostLinkStops
    LeftPumpEnds
