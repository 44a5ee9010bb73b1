CONSTANTS
    Configs <- CharsetConfigs
    SeqMod = 6
    RowCounts = {1, 2}
    MaxExecs = 2
SPECIFICATION SafeSpec
INVARIANTS
    ConnWhenNeeded
