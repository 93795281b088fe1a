SPECIFICATION Spec
CONSTANTS
    Console = {c1}
    Pin = {"1234"}
    Pass = {"pass"}
    MaxRuns = 2
    MaxKills = 1
INVARIANT MaskKeepsPin
CHECK_DEADLOCK FALSE
