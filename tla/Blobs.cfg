SPECIFICATION Spec
CONSTANTS
    Blob = {c1}
    Record = {r1, r2}
    None = None
    Gone = Gone
    MaxKey = 2
    MaxTxn = 3
    MaxFaults = 1
SYMMETRY MCSymmetry
INVARIANTS TypeOK NoFileLost ReferencedIsPermanent
CHECK_DEADLOCK FALSE
