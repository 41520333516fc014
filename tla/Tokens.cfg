SPECIFICATION FairSpec
CONSTANTS
    Proc = {p1, p2}
    Password = password
    apppass = apppass
    Cred <- MCCred
    Lifetime = 3
    Grace = 2
    MaxTok = 3
    MaxTime = 3
    MaxRevocations = 2
CHECK_DEADLOCK FALSE
INVARIANTS TypeOK NothingSurvives OneSuccessor ReuseWithinGrace
PROPERTIES RequestsEnd
