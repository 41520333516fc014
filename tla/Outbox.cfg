SPECIFICATION Spec
CONSTANTS
    Did = {d1, d2}
    Batches <- MCBatches
    MaxSeq = 3
    MaxClock = 0
    MaxDelay = 0
    MaxDeletions = 1
    PollLimit = 2
    MaxRestarts = 1
    Cursors <- MCCursors
    PageSize = 2
    MaxBuffer = 3
    BackfillLimit = 5
    MaxConnects = 2
SYMMETRY MCSymmetry
CHECK_DEADLOCK FALSE
INVARIANTS TypeOK NoGap NothingStale
PROPERTIES PollNeverSkips ImplementsEventStream
