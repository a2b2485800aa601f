\* One object of each kind, every list of conditions, limits down to none.
CONSTANTS
    Kinds = {"Node", "Deployment", "StatefulSet", "HorizontalPodAutoscaler", "DaemonSet"}
    Limits = {0, 2}
    Default = 1
    Counts = {0, 1, 2}
    MaxBirths = 2
    MaxGaps = 1
    MaxResets = 1
    MaxRestarts = 1
SPECIFICATION BusySpec
INVARIANTS TypeOK AlertIsSustained AlertIsCurrent PressureAtOnce
PROPERTIES ResolvedIsOver SustainedIsReported
CHECK_DEADLOCK FALSE
