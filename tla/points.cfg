\* Each of the three monitors, with gaps, a dropped call and a restart, in order
\* or with the table lost.
CONSTANTS
    Include = {}
    Exclude = {"kube-system"}
    Kinds = {"pod_restarts", "job_failed", "warning_events"}
    Namespace = "default"
    Thresholds <- Storms
    Windows <- Spans
    Window = 2
    MaxTime = 3
    MaxCount = 3
    MaxSamples = 3
    MaxBirths = 2
    MaxGaps = 1
    MaxDrops = 1
    MaxStarts = 2
    MaxLosses = 1
SPECIFICATION Spec
INVARIANTS TypeOK StormIsReal StormIsReported RepeatIsSpaced
PROPERTIES FailureIsTold
CHECK_DEADLOCK FALSE
