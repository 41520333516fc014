SPECIFICATION FairSpec
CONSTANTS
    Did = {d1, d2}
    Concurrency = 2
    StartCursor = 0
    Persists = TRUE
    MaxSeq = 3
    MaxConnects = 1
    MaxRestarts = 0
CHECK_DEADLOCK FALSE
PROPERTIES DestroyEnds
