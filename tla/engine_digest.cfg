\* Under fairness: digest, failing notifiers, a queue that overflows, a stop.
CONSTANTS
    pvc = pvc  node = node  d1 = d1  d2 = d2
    slack = slack  email = email  ghost = ghost
    Monitors = {pvc}
    Objects = {d1, d2}
    Channels = {slack}
    Registered = {slack}
    Rules <- NoRules
    Preferred = {slack}
    Window = 1
    Capacity = 2
    MayFail = TRUE
    ResolutionEnabled = TRUE
    DigestEnabled = TRUE
    DigestSeverities = {"info", "warning"}
    DigestInterval = 1
    QueueSize = 1
    FireInputs <- UrgentAlerts
    ScanInputs <- BatchScans
    MayStop = TRUE
    MaxTime = 1
    MaxCalls = 3
    MaxResets = 0
SPECIFICATION FairSpec
PROPERTIES FiringSurfaces ImplementsFairLifecycle
CHECK_DEADLOCK FALSE
