\* Each periodic monitor, with nodes that do not answer and scans that are lost.
CONSTANTS
    o1 = o1  n1 = n1  n2 = n2  n3 = n3
    Include = {"default"}
    Exclude = {"kube-system"}
    Kinds = {"pvc_usage", "node_disk", "tls_cert_expiry", "cronjob_missed"}
    Objects = {o1}
    Nodes = {n1, n2, n3}
    NamespaceOf <- Default
    ValuesOf <- Values
    WarnAt = 1
    CritAt = 2
    WarnDays = 2
    CritDays = 0
    Unit = 12
    MissThreshold = 0
    Period = 2
    MaxTime = 28
    MaxLapses = 3
SPECIFICATION Spec
INVARIANTS TypeOK MissedIsCounted
PROPERTIES ScanIsEvidence Settles
CHECK_DEADLOCK FALSE
