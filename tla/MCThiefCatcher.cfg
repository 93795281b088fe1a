SPECIFICATION FairSpec
CONSTANTS
    Configs <- ThiefConfigs
    Gate = {g1}
    MaxFailures = 2
    MaxArms = 2
    MaxFaults = 1
INVARIANT DisarmedIsQuiet
INVARIANT ThiefInv
PROPERTY UnplugRaises
PROPERTY DisarmEnds
CHECK_DEADLOCK FALSE
