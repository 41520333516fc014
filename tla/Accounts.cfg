SPECIFICATION Spec
CONSTANTS
    Op = {o1, o2, o3}
    None = None
    MaxFaults = 2
SYMMETRY MCSymmetry
INVARIANTS TypeOK StatusIsTold AccountHasStore NothingLeft
CHECK_DEADLOCK FALSE
