SPECIFICATION Spec
CONSTANTS
    Key <- MCKey
    Val = {x}
    MaxZeros = 2
    MaxWrites = 2
    MaxTotal = 4
    MaxRev = 2
SYMMETRY MCSymmetry
CHECK_DEADLOCK FALSE
INVARIANTS NothingMissing
