\* Every list of two reasons, pods of one or two containers, a watch that breaks.
CONSTANTS
    web = web  job = job
    Pods = {web}
    Reasons = {"CrashLoopBackOff", "OOMKilled"}
    MaxContainers = 2
    MaxUids = 2
    MaxRelists = 1
    MaxResets = 1
SPECIFICATION FairSpec
INVARIANTS TypeOK CrashIsOpen OpenHasCause SeenIsCurrent
PROPERTIES CrashIsReported
CHECK_DEADLOCK FALSE
