\* Two monitors, no digest, no failures, a reset.
CONSTANTS
    pvc = pvc  node = node  d1 = d1  d2 = d2
    slack = slack  email = email  ghost = ghost
    Monitors = {pvc, node}
    Objects = {d1, d2}
    Channels = {slack, ghost}
    Registered = {slack}
    Rules <- NodeToBoth
    Preferred = {slack}
    Window = 2
    Capacity = 2
    MayFail = FALSE
    ResolutionEnabled = TRUE
    DigestEnabled = FALSE
    DigestSeverities = {}
    DigestInterval = 1
    QueueSize = 2
    FireInputs <- NodeAlerts
    ScanInputs <- PvcScans
    MayStop = FALSE
    MaxTime = 2
    MaxCalls = 4
    MaxResets = 1
SPECIFICATION Spec
INVARIANTS TypeOK RateLimit ActiveConverges ActiveWasAdmitted ClearedIsTold StatsAgree
PROPERTIES ResolvedNotFirst
CHECK_DEADLOCK FALSE
