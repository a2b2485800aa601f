\* A snapshot taken before a reset lands after it; then a crash.
CONSTANTS
    k1 = k1
    Keys = {k1}
    Window = 3
    Grain = 2
    MayFail = FALSE
    MaxTime = 1
    MaxResets = 1
    MaxCrashes = 1
    MaxStops = 0
    MaxMisloads = 0
SPECIFICATION Spec
INVARIANTS ResetForgets
CHECK_DEADLOCK FALSE
