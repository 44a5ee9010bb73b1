CONSTANTS
    SeqMod = 3
    MaxPackets = 2
SPECIFICATION SafeSpec
INVARIANTS
    NoPanic
