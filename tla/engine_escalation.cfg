\* A critical alert whose key waits in the digest.
CONSTANTS
    pvc = pvc  node = node  d1 = d1  d2 = d2
    slack = slack  email = email  ghost = ghost
    Monitors = {pvc}
    Objects = {d1}
    Channels = {slack}
    Registered = {slack}
    Rules <- NoRules
    Preferred = {slack}
    Window = 2
    Capacity = 2
    MayFail = FALSE
    ResolutionEnabled = TRUE
    DigestEnabled = TRUE
    DigestSeverities = {"info", "warning"}
    DigestInterval = 1
    QueueSize = 2
    FireInputs <- TwoSeverities
    ScanInputs <- Escalating
    MayStop = FALSE
    MaxTime = 2
    MaxCalls = 4
    MaxResets = 0
SPECIFICATION Spec
PROPERTIES CriticalNotBehindDigest
CHECK_DEADLOCK FALSE
