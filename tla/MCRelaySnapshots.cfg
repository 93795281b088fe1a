SPECIFICATION FairSpec
CONSTANTS
    Request = {r1, r2}
    Poller = {p1}
    MaxSnapshots = 1
    MaxPuts = 2
    MaxFaults = 1
INVARIANT SnapshotsInv
PROPERTY NewestKept
PROPERTY PruneEnds
PROPERTY PolledWithinCaps
