SPECIFICATION FairSpec
CONSTANTS
    k1 = k1
    k2 = k2
    v1 = v1
    v2 = v2
    s1 = s1
    None = None
    Unset = Unset
    Req = {r1, r2, r3}
    Key <- MCKey
    Val <- MCVal
    Subject <- MCSubject
    Link <- MCLink
    Calls <- MCCalls
    MaxRev = 3
    MaxFaults = 1
CHECK_DEADLOCK FALSE
INVARIANTS TypeOK SwapHeld AnnouncedOnce ListedIsDurable
PROPERTIES LockReleased ImplementsLinearRepo
