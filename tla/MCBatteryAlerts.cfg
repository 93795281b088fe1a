SPECIFICATION FairSpec
CONSTANTS
    Configs <- SocketConfigs
    Caller = {"accept", "telegram"}
    Day = 4
    MaxThreads = 2
    MaxLost = 2
    MaxBacklog = 2
    MaxFaults = 2
INVARIANT AlertsInv
PROPERTY ImplementsSiren
PROPERTY AlertDelivered
PROPERTY StopSilences
PROPERTY QuietHours
PROPERTY QuietKept
CHECK_DEADLOCK FALSE
