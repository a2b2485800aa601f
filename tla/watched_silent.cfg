\* A node within the grace period, and no event after it.
CONSTANTS
    Kinds = {"Node"}
    Limits = {1}
    Default = 1
    Counts = {0, 1, 2}
    MaxBirths = 1
    MaxGaps = 0
    MaxResets = 0
    MaxRestarts = 0
SPECIFICATION FairSpec
PROPERTIES SustainedIsReported
CHECK_DEADLOCK FALSE
