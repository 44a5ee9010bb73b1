CONSTANTS
    Events <- Zeros
SPECIFICATION Spec
INVARIANTS
    RowsDelivered
