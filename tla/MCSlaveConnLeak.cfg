CONSTANTS
    SeqMod = 3
    MaxPackets = 2
SPECIFICATION Spec
PROPERTIES
    PumpTerminates
