SPECIFICATION FairSpec
CONSTANTS
    Did = {d1, d2}
    Concurrency = 2
    StartCursor = 0
    Persists = TRUE
    MaxSeq = 3
    MaxConnects = 3
    MaxRestarts = 1
CHECK_DEADLOCK FALSE
INVARIANTS TypeOK NoneDropped FirstEffectsInOrder
PROPERTIES EveryEventHandled
