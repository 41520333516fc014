SPECIFICATION FairSpec
CONSTANTS
    Did = {d1}
    Batches <- MCCommits
    MaxSeq = 3
    MaxClock = 2
    MaxDelay = 1
    MaxDeletions = 1
    PollLimit = 2
    MaxRestarts = 0
    Cursors = {0}
    PageSize = 2
    MaxBuffer = 3
    BackfillLimit = 1
    MaxConnects = 1
CHECK_DEADLOCK FALSE
INVARIANTS WindowKept
PROPERTIES Delivery
