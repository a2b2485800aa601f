------------------------------- MODULE Scans -------------------------------
(***************************************************************************)
(* The four monitors that look at a ticker's pace and hand Reconcile       *)
(* everything they found: pvc_usage, node_disk, tls_cert_expiry and        *)
(* cronjob_missed.  One of them is enabled; they share no state.           *)
(*                                                                         *)
(* The two usage monitors list the nodes and ask one kubelet after the     *)
(* other, while volumes fill up, empty and move; the other two evaluate    *)
(* one List.  A value is a volume's or a file system's percentage, the     *)
(* time a certificate ends, or the time a CronJob was scheduled last.      *)
(***************************************************************************)
EXTENDS Namespaces, Integers, FiniteSets

CONSTANTS
    Kinds,                      \* the monitors looked at
    Objects, Nodes,
    NamespaceOf,                \* of each object
    ValuesOf,                   \* of each kind: values its objects take
    WarnAt, CritAt,             \* pvc_usage, node_disk
    WarnDays, CritDays,         \* tls_cert_expiry
    Unit,                       \* hours in a unit of the model's clock
    MissThreshold, Period,      \* cronjob_missed; a schedule is "every Period"
    MaxTime, MaxLapses          \* bounds: the clock; what goes wrong

Usage == {"pvc_usage", "node_disk"}
Dated == {"tls_cert_expiry", "cronjob_missed"}

ASSUME ScansAssumption ==
    /\ Kinds \subseteq Usage \cup Dated
    /\ \A k \in Kinds : ValuesOf[k] \subseteq Nat
    /\ {WarnAt, CritAt, WarnDays, CritDays, MissThreshold} \subseteq Int
    /\ Unit \in Nat \ {0} /\ Period \in Nat \ {0}
    /\ MaxTime \in Nat /\ MaxLapses \in Nat

VARIABLES
    kind,       \* the monitor
    now,        \* time.Now
    value,      \* cluster: the value of each object
    at,         \* cluster: the nodes that report an object; {} if nothing does
    pc,         \* "idle" between scans, or "scan"
    left,       \* nodes still to be asked
    found,      \* what the scan found of each object: one value or none
    open,       \* severity under which the engine has the object active
    shown,      \* history: what could be seen of an object in this scan
    missed,     \* history: objects that this scan did not get to see
    lapses      \* history: how much has gone wrong

cluster == <<kind, now, value, at>>
vars == <<cluster, pc, left, found, open, shown, missed, lapses>>

Grades == {"none", "warning", "critical"}
Nothing == [o \in Objects |-> {}]

-----------------------------------------------------------------------------
(* What the monitors make of a value.                                      *)

\* The switch of PVCUsage.scan and NodeDisk.buildAlert.
ByLimits(v, warn, crit) ==
    IF v >= crit THEN "critical" ELSE IF v >= warn THEN "warning" ELSE "none"

\* int(d.Hours() / 24) drops the fraction: towards zero, also below it.
WholeDays(hours) == IF hours >= 0 THEN hours \div 24 ELSE -((-hours) \div 24)

\* The switch of TLSCertExpiry.scan.
ByDays(days) ==
    IF days <= CritDays THEN "critical" ELSE IF days <= WarnDays THEN "warning" ELSE "none"

\* CronJobMissed.scan: a threshold that is not positive means two.
Miss == IF MissThreshold <= 0 THEN 2 ELSE MissThreshold

\* sched.Next
NextRun(t) == (t \div Period + 1) * Period

\* Mutant: the run that is due now is not counted.
MissedBefore(ref, t) ==
    LET count[n \in 0..(Miss + 11)] ==
          IF n > Miss + 10 \/ NextRun(ref) + n * Period >= t THEN n ELSE count[n + 1]
    IN count[0]

\* The counting loop of CronJobMissed.scan at time t, which gives up at
\* Miss + 11.
Missed(ref, t) ==
    LET count[n \in 0..(Miss + 11)] ==
          IF n > Miss + 10 \/ NextRun(ref) + n * Period > t THEN n ELSE count[n + 1]
    IN count[0]

\* The severity, if any, that monitor k gives a value at time t.
GradeAt(k, t, v) ==
    IF k \in Usage THEN ByLimits(v, WarnAt, CritAt)
    ELSE IF k = "tls_cert_expiry" THEN ByDays(WholeDays((v - t) * Unit))
    ELSE IF Missed(v, t) >= Miss THEN "warning" ELSE "none"

Grade(v) == GradeAt(kind, now, v)

\* node_disk has no namespaces.
Wanted(o) == kind = "node_disk" \/ Allows(NamespaceOf[o])

\* What a look at the object would show now.
Shows(o) == IF at[o] = {} \/ ~Wanted(o) THEN "none" ELSE Grade(value[o])

-----------------------------------------------------------------------------
\* A PVC is mounted on some nodes, a node's file system is on that node; a
\* Secret or a CronJob is in the List or is not (or is suspended, or cannot
\* be parsed), which any one node stands for.
Init ==
    /\ kind \in Kinds
    /\ now = 0
    /\ value \in [Objects -> ValuesOf[kind]]
    /\ kind = "cronjob_missed" => \A o \in Objects : value[o] = 0
    /\ at \in [Objects -> IF kind = "node_disk" THEN {{n} : n \in Nodes} ELSE {{}}]
    /\ pc = "idle" /\ left = {} /\ found = Nothing
    /\ open = [o \in Objects |-> "none"]
    /\ shown = [o \in Objects |-> {Shows(o)}]
    /\ missed = {} /\ lapses = 0

\* Keeps the history: every grade an object shows while a scan goes on.
Watch ==
    shown' = [o \in Objects |-> (IF pc = "scan" THEN shown[o] ELSE {}) \cup {Shows(o)'}]

\* Something goes wrong, to the objects in `objs` as far as a scan goes on.
Lapse(objs) ==
    /\ lapses < MaxLapses /\ lapses' = lapses + 1
    /\ missed' = missed \cup objs

\* Mutant: the last node is forgotten.
ButOne(nodes) == nodes \ {CHOOSE n \in nodes : TRUE}

\* The nodes of a scan.
Listed(nodes) == nodes

\* A tick: the List.  It is all that tls_cert_expiry and cronjob_missed read.
Begin ==
    /\ pc = "idle" /\ pc' = "scan"
    /\ missed' = {}
    /\ IF kind \in Usage
         THEN left' = Listed(Nodes) /\ found' = Nothing
         ELSE /\ left' = {}
              /\ found' = [o \in Objects |-> IF at[o] = {} THEN {} ELSE {value[o]}]
    /\ UNCHANGED <<cluster, open, lapses>>
    /\ Watch

\* The List fails: scan returns.
ListFails ==
    /\ pc = "idle"
    /\ Lapse({})
    /\ UNCHANGED <<cluster, pc, left, found, open>>
    /\ Watch

\* Mutant: a claim that two nodes report is there twice.
SeenTwice(o, n) == found[o] \cup (IF n \in at[o] THEN {value[o]} ELSE {})

\* What is known of o after n's answer: a claim seen before is written over.
Seen(o, n) == IF n \in at[o] THEN {value[o]} ELSE found[o]

\* The kubelet of n answers.
Fetch(n) ==
    /\ pc = "scan" /\ n \in left
    /\ left' = left \ {n}
    /\ found' = [o \in Objects |-> Seen(o, n)]
    /\ UNCHANGED <<cluster, pc, open, missed, lapses>>
    /\ Watch

\* The kubelet of n does not answer: the scan goes on with the next node.
FetchFails(n) ==
    /\ pc = "scan" /\ n \in left
    /\ left' = left \ {n}
    /\ Lapse({o \in Objects : n \in at[o]})
    /\ UNCHANGED <<cluster, pc, found, open>>
    /\ Watch

\* The alert, if any, that a scan makes of what it found of o.
Judged(o) ==
    IF found[o] = {} \/ ~Wanted(o) THEN "none" ELSE Grade(CHOOSE v \in found[o] : TRUE)

\* Mutant: nothing found, nothing to say.
EndUnlessClear ==
    /\ pc = "scan" /\ left = {}
    /\ pc' = "idle"
    /\ found' = Nothing
    /\ \/ /\ open' = IF \A o \in Objects : Judged(o) = "none" THEN open
                     ELSE [o \in Objects |-> Judged(o)]
          /\ UNCHANGED <<missed, lapses>>
       \/ Lapse({}) /\ UNCHANGED open
    /\ UNCHANGED <<cluster, left>>
    /\ Watch

\* Reconcile, which the engine's queue takes or, when it is full, does not.
End ==
    /\ pc = "scan" /\ left = {}
    /\ pc' = "idle"
    /\ found' = Nothing
    /\ \/ /\ open' = [o \in Objects |-> Judged(o)]
          /\ UNCHANGED <<missed, lapses>>
       \/ Lapse({}) /\ UNCHANGED open
    /\ UNCHANGED <<cluster, left>>
    /\ Watch

-----------------------------------------------------------------------------
(* The cluster and the clock, at any time, between two answers too.        *)

\* Files are written, a certificate is renewed, a CronJob is scheduled.
Change(o) ==
    /\ \E v \in IF kind = "cronjob_missed" THEN {now} ELSE ValuesOf[kind] \ {value[o]} :
          value' = [value EXCEPT ![o] = v]
    /\ UNCHANGED <<kind, now, at, pc, left, found, open, missed, lapses>>
    /\ Watch

\* An object comes or goes: a claim's first pod starts, its last one ends.
Toggle(o) ==
    /\ kind # "node_disk"
    /\ \E n \in Nodes : at' = [at EXCEPT ![o] = IF @ = {} THEN {n} ELSE {}]
    /\ UNCHANGED <<kind, now, value, pc, left, found, open, missed, lapses>>
    /\ Watch

\* A claim in use is mounted on another node, or on one node more or less:
\* a scan that goes on may miss it.
Move(o) ==
    /\ kind = "pvc_usage" /\ at[o] # {}
    /\ \E ns \in SUBSET Nodes \ {{}, at[o]} : at' = [at EXCEPT ![o] = ns]
    /\ IF pc = "scan" THEN Lapse({o}) ELSE UNCHANGED <<missed, lapses>>
    /\ UNCHANGED <<kind, now, value, pc, left, found, open>>
    /\ Watch

\* The time between a List and the clock's reading after it is too short to
\* make a difference.
Tick ==
    /\ kind \in Dated /\ pc = "idle" /\ now < MaxTime /\ now' = now + 1
    /\ UNCHANGED <<kind, value, at, pc, left, found, open, missed, lapses>>
    /\ Watch

Scan == Begin \/ ListFails \/ (\E n \in Nodes : Fetch(n) \/ FetchFails(n)) \/ End

Next ==
    \/ Scan
    \/ \E o \in Objects : Change(o) \/ Toggle(o) \/ Move(o)
    \/ Tick

\* The ticker ticks and every request is answered, in one way or the other.
Spec == Init /\ [][Next]_vars /\ WF_vars(Scan)

-----------------------------------------------------------------------------
(* Properties.                                                             *)

\* Types; what is found lies between two ticks.
TypeOK ==
    /\ kind \in Kinds /\ now \in Nat
    /\ value \in [Objects -> Nat]
    /\ at \in [Objects -> SUBSET Nodes]
    /\ pc \in {"idle", "scan"} /\ left \subseteq Nodes
    /\ \A o \in Objects : found[o] \subseteq Nat /\ Cardinality(found[o]) <= 1
    /\ pc = "idle" => left = {} /\ found = Nothing
    /\ open \in [Objects -> Grades]
    /\ shown \in [Objects -> SUBSET Grades]
    /\ missed \subseteq Objects /\ lapses \in Nat

\* A scan is evidence: what it says anew of an object was so at some moment
\* since the scan began, although the nodes were asked one after the other;
\* but an object that the scan did not get to see is taken for resolved
\* (PVCUsage.scan, NodeDisk.scan).
ScanIsEvidence ==
    [][\A o \in Objects : open'[o] # open[o] =>
          open'[o] \in shown[o] \cup (IF o \in missed THEN {"none"} ELSE {})]_vars

\* What lasts is reported at its severity and what is over is resolved, after
\* failing lists, silent kubelets and dropped scans (scan, Reconcile).
Settles ==
    \A o \in Objects, g \in Grades : <>[](Shows(o) = g) => <>[](open[o] = g)

\* The loop counts the runs that were due after the last one and are not later
\* than now, up to the point where it gives up (CronJobMissed.scan).
MissedIsCounted ==
    kind = "cronjob_missed" => \A o \in Objects :
        LET due == {t \in (value[o] + 1)..now : t % Period = 0}
        IN /\ Missed(value[o], now) <= Cardinality(due)
           /\ Missed(value[o], now) < Miss + 11 => Missed(value[o], now) = Cardinality(due)
           /\ Missed(value[o], now) >= Miss <=> Cardinality(due) >= Miss
=============================================================================
