SPECIFICATION FairSpec
CONSTANTS
    Configs <- GuardConfigs
    Cooldown = 1
    Window = 2
    Budget = 2
    PollEvery = 2
INVARIANT GuardInv
INVARIANT AlertsCapped
PROPERTY IntruderAlerted
PROPERTY StandDownHeard
PROPERTY StopIsFinal
CHECK_DEADLOCK FALSE
