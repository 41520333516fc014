SPECIFICATION FairSpec
CONSTANTS
    i1 = i1
    i2 = i2
    f1 = f1
    f2 = f2
    Flow <- MCFlow
    Inst <- MCInst
    InstOf <- MCInstOf
    Login = {l1, l2}
    MaxTok = 4
    MaxFaults = 1
CHECK_DEADLOCK FALSE

PROPERTIES RevokedIsDead
