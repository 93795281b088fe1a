SPECIFICATION FairSpec
CONSTANTS
    Configs <- ListenerConfigs
    MaxAlerts = 2
    MaxArms = 1
INVARIANT ListenerInv
PROPERTY SoundedOnce
PROPERTY ClearedFallsSilent
PROPERTY WatchFires
CHECK_DEADLOCK FALSE
