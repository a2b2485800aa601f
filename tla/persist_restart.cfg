\* Crashes, stops, a reset, failing requests and loads.
CONSTANTS
    k1 = k1
    Keys = {k1}
    Window = 3
    Grain = 2
    MayFail = TRUE
    MaxTime = 3
    MaxResets = 1
    MaxCrashes = 1
    MaxStops = 1
    MaxMisloads = 1
SPECIFICATION FairSpec
INVARIANTS TypeOK SuppressionIsEarned
PROPERTIES SavedNotRefired SavesNeverGoBack StopRemembers SnapshotConverges
CHECK_DEADLOCK FALSE
