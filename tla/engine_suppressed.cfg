\* One event-driven monitor that reports, clears and reports again.
CONSTANTS
    pvc = pvc  node = node  d1 = d1  d2 = d2
    slack = slack  email = email  ghost = ghost
    Monitors = {node}
    Objects = {d1}
    Channels = {slack}
    Registered = {slack}
    Rules <- NoRules
    Preferred = {slack}
    Window = 2
    Capacity = 2
    MayFail = FALSE
    ResolutionEnabled = TRUE
    DigestEnabled = FALSE
    DigestSeverities = {}
    DigestInterval = 1
    QueueSize = 2
    FireInputs <- NodeAlerts
    ScanInputs <- NoAlerts
    MayStop = FALSE
    MaxTime = 2
    MaxCalls = 4
    MaxResets = 0
SPECIFICATION Spec
PROPERTIES ResolvedAnswersFiring
CHECK_DEADLOCK FALSE
