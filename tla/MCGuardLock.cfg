SPECIFICATION FairLockSpec
CONSTANTS
    Pid = {p1, p2, p3}
    Impls <- BothImpls
    MaxCrashes = 2
INVARIANT LockInv
PROPERTY NeverWedged
