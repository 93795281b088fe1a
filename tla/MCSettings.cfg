SPECIFICATION FairSpec
CONSTANTS
    Console = {c1}
    Pin = {"1234"}
    Pass = {"pass"}
    MaxRuns = 2
    MaxKills = 1
INVARIANT SettingsInv
PROPERTY QuietEnds
CHECK_DEADLOCK FALSE
