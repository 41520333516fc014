SPECIFICATION Spec
CONSTANTS
    Key <- MCKey
    Val = {x, y}
    MaxZeros = 2
    MaxWrites = 2
    MaxTotal = 4
    MaxRev = 4
SYMMETRY MCSymmetry
CHECK_DEADLOCK FALSE
INVARIANTS TypeOK TreeIsCanonical DiffIsExact StoreIsExact SinceSuffices EventHasRecords
PROPERTY ImplementsAbstractRepo
