\* Two processes in turn, a stop, a crash, a save or a load that fails, a digest, a
\* channel that fails and one that hangs.
CONSTANTS
    pvc = pvc  d1 = d1  slack = slack  email = email
    Monitors = {pvc}
    Objects = {d1}
    Channels = {slack, email}
    Registered = {slack, email}
    Rules <- NoRules
    Preferred = {}
    Window = 2
    Capacity = 1
    MayFail = TRUE
    ResolutionEnabled = TRUE
    DigestEnabled = TRUE
    DigestSeverities = {"info", "warning"}
    DigestInterval = 1
    QueueSize = 1
    FireInputs <- Critical
    ScanInputs <- Scans
    MayStop = TRUE
    MaxTime = 2
    MaxCalls = 2
    MaxResets = 0
    Hanging = {slack}
    IgnoreContext = {email}
    MaxStarts = 2
    MaxLosses = 1
SPECIFICATION ProcessSpec
INVARIANTS ProcessTypeOK RateLimitAcross
PROPERTIES SuppressedWasTold ResolvedHasPrecedent StopEnds
CHECK_DEADLOCK FALSE
