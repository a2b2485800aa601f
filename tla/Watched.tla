------------------------------- MODULE Watched -------------------------------
(***************************************************************************)
(* One object of the cluster and the monitor that watches it through a     *)
(* shared informer: node_conditions, rollout_stuck, hpa_at_max and         *)
(* daemonset_unscheduled.  None of them has a ticker, a resync or a        *)
(* DeleteFunc: the time that has passed is looked at only when an event     *)
(* comes.  Time is kept as ages, which stop at Eldest: they are compared   *)
(* with limits below it and with nothing else.                             *)
(***************************************************************************)
EXTENDS Integers, FiniteSets

NC == INSTANCE NodeConditions
RS == INSTANCE RolloutStuck
ST == INSTANCE SinceTimer

CONSTANTS
    Kinds,          \* of objects to consider, a subset of AllKinds
    Limits,         \* configured Grace, Threshold or Duration
    Default,        \* rollout_stuck's threshold when none is configured
    Counts,         \* of replicas
    MaxBirths, MaxGaps, MaxResets, MaxRestarts     \* bounds of the model

AllKinds == {"Node", "Deployment", "StatefulSet", "HorizontalPodAutoscaler", "DaemonSet"}
Unset == -1

ASSUME WatchedAssumption ==
    /\ Kinds \subseteq AllKinds
    /\ Limits \subseteq Nat /\ IsFiniteSet(Limits) /\ Default \in Nat \ {0}
    /\ Counts \subseteq Nat
    /\ MaxBirths \in Nat /\ MaxGaps \in Nat /\ MaxResets \in Nat /\ MaxRestarts \in Nat

Eldest == 1 + CHOOSE t \in Limits \cup {Default} : \A u \in Limits \cup {Default} : u <= t
Ages == 0..Eldest
Older(age) == IF age \in {Unset, Eldest} THEN age ELSE age + 1

VARIABLES
    kind,       \* of the object, and with it which monitor watches
    limit,      \* that monitor's configured time
    alertOn,    \* monitors.node_conditions.alert_on
    exists,     \* whether the object is there
    object,     \* the object as the API server has it, or had it last
    pending,    \* the informer has a version that the handler has not seen
    memory,     \* of the monitor: seen, since, and open for the active set
    held,       \* history: how long each condition has held without a break
    births, gaps, resets, restarts      \* history

config == <<kind, limit, alertOn>>
cluster == <<exists, object, pending, held, births, gaps>>
vars == <<config, cluster, memory, resets, restarts>>

Reasons == NC!NodeReasons \cup {RS!Stuck, ST!AtMaxReplicas, ST!Unscheduled}
Blank == [seen |-> {}, since |-> Unset, open |-> {}]

Objects ==
    CASE kind = "Node" -> NC!Nodes(Ages)
      [] kind = "Deployment" -> RS!Deployments(Ages)
      [] kind = "StatefulSet" -> RS!StatefulSets
      [] kind = "HorizontalPodAutoscaler" -> ST!HPAs(Counts)
      [] kind = "DaemonSet" -> ST!DaemonSets(Counts)

Dated == kind \in {"Node", "Deployment"}

\* A new object's conditions are new.
Newborn == {o \in Objects : Dated => o.age = 0}

\* LastTransitionTime follows the status of Ready; LastUpdateTime is set
\* whenever the condition is written, the same status or another.
Updates ==
    {o \in Objects \ {object} :
        /\ kind = "Node" => o.age = IF o.ready = object.ready THEN object.age ELSE 0
        /\ kind = "Deployment" => o.age = 0}

-----------------------------------------------------------------------------
\* The conditions of object o that its monitor is there to report.
Holding(o) ==
    CASE kind = "Node" -> NC!Firing(o, alertOn)
      [] kind = "Deployment" -> IF o.progressing THEN {} ELSE {RS!Stuck}
      [] kind = "StatefulSet" -> IF RS!InProgress(o) THEN {RS!Stuck} ELSE {}
      [] kind = "HorizontalPodAutoscaler" -> IF ST!AtMax(o) THEN {ST!AtMaxReplicas} ELSE {}
      [] kind = "DaemonSet" -> IF ST!Unready(o) THEN {ST!Unscheduled} ELSE {}

\* How long the condition must have held before it is reported.
Due(r) ==
    CASE r = NC!Pressure -> 0
      [] r = RS!Stuck -> RS!Threshold(limit, Default) + (IF kind = "StatefulSet" THEN 1 ELSE 0)
      [] OTHER -> limit

Handle(m, o) ==
    CASE kind = "Node" -> NC!HandleNode(m, o, alertOn, limit)
      [] kind = "Deployment" -> RS!CheckDep(m, o, RS!Threshold(limit, Default))
      [] kind = "StatefulSet" -> RS!CheckSS(m, o, RS!Threshold(limit, Default))
      [] kind = "HorizontalPodAutoscaler" -> ST!HandleHPA(m, o, limit)
      [] kind = "DaemonSet" -> ST!HandleDaemonSet(m, o, limit)

\* How long each condition of o has held; a Deployment's is as old as its last
\* write, by which docs/monitors/workload.md measures it.
HeldBy(o, before) ==
    [r \in Reasons |->
        CASE r \notin Holding(o) -> Unset
          [] r \in Holding(o) /\ kind = "Deployment" -> o.age
          [] OTHER -> IF before[r] = Unset THEN 0 ELSE before[r]]

NeverHeld == [r \in Reasons |-> Unset]

Init ==
    /\ kind \in Kinds /\ limit \in Limits
    /\ alertOn \in IF kind = "Node" THEN SUBSET NC!NodeReasons ELSE {{}}
    /\ exists = FALSE /\ object \in Newborn /\ pending = FALSE
    /\ memory = Blank
    /\ held = NeverHeld
    /\ births = 0 /\ gaps = 0 /\ resets = 0 /\ restarts = 0

-----------------------------------------------------------------------------
\* A watch that works delivers every version; after a gap in it the informer
\* delivers the newest one only.
Written ==
    /\ pending' = TRUE
    /\ \/ ~pending /\ UNCHANGED gaps
       \/ gaps < MaxGaps /\ gaps' = gaps + 1

Create ==
    /\ ~exists /\ births < MaxBirths
    /\ births' = births + 1
    /\ exists' = TRUE
    /\ object' \in Newborn
    /\ held' = HeldBy(object', NeverHeld)
    /\ Written
    /\ UNCHANGED <<config, memory, resets, restarts>>

Update ==
    /\ exists
    /\ object' \in Updates
    /\ held' = HeldBy(object', held)
    /\ Written
    /\ UNCHANGED <<config, exists, births, memory, resets, restarts>>

\* A write that leaves alone all that the monitor looks at: a heartbeat.
Touch ==
    /\ exists /\ ~pending
    /\ pending' = TRUE
    /\ UNCHANGED <<config, exists, object, held, births, gaps, memory, resets, restarts>>

\* There is no DeleteFunc: nothing is done about the deletion.
Delete ==
    /\ exists
    /\ \/ ~pending /\ UNCHANGED gaps
       \/ gaps < MaxGaps /\ gaps' = gaps + 1
    /\ exists' = FALSE
    /\ pending' = FALSE
    /\ held' = NeverHeld
    /\ UNCHANGED <<config, object, births, memory, resets, restarts>>

\* AddFunc or UpdateFunc.
Deliver ==
    /\ exists /\ pending
    /\ pending' = FALSE
    /\ memory' = Handle(memory, object)
    /\ UNCHANGED <<config, exists, object, held, births, gaps, resets, restarts>>

Tick ==
    /\ object' = IF Dated THEN [object EXCEPT !.age = Older(@)] ELSE object
    /\ held' = [r \in Reasons |-> Older(held[r])]
    /\ memory' = [memory EXCEPT !.since = Older(@)]
    /\ UNCHANGED <<config, exists, pending, births, gaps, resets, restarts>>

\* Engine.Reset empties the active set; nothing tells the monitor.
Reset ==
    /\ resets < MaxResets
    /\ resets' = resets + 1
    /\ memory' = [memory EXCEPT !.open = {}]
    /\ UNCHANGED <<config, cluster, restarts>>

\* The memory is gone, the engine's as well, and the informer adds what it lists.
Restart ==
    /\ restarts < MaxRestarts
    /\ restarts' = restarts + 1
    /\ memory' = Blank
    /\ pending' = exists
    /\ UNCHANGED <<config, exists, object, held, births, gaps, resets>>

Next == Create \/ Update \/ Touch \/ Delete \/ Deliver \/ Tick \/ Reset \/ Restart

Spec == Init /\ [][Next]_vars

\* The informer delivers what it has, and time goes on.
FairSpec == Spec /\ WF_vars(Deliver) /\ WF_vars(Tick)

\* The object is written again and again, as one with a live controller is.
BusySpec == FairSpec /\ WF_vars(Touch)

-----------------------------------------------------------------------------
(* Properties.                                                             *)

\* Every variable keeps its type, and only the handlers that measure the time
\* themselves stamp it.
TypeOK ==
    /\ kind \in Kinds /\ limit \in Limits /\ alertOn \subseteq NC!NodeReasons
    /\ exists \in BOOLEAN /\ pending \in BOOLEAN /\ object \in Objects
    /\ memory \in [seen : SUBSET Reasons, since : Ages \cup {Unset}, open : SUBSET Reasons]
    /\ Dated => memory.since = Unset
    /\ held \in [Reasons -> Ages \cup {Unset}]
    /\ births \in Nat /\ gaps \in Nat /\ resets \in Nat /\ restarts \in Nat

Delivered == exists /\ ~pending

\* An alert that is open, once the newest version was handled, is of a
\* condition that has held without a break for as long as was configured:
\* an episode that ended starts no clock for the next one.  For objects that are
\* not deleted and watches without a gap (shouldAlert, rolloutStartedAt,
\* m.since): the stamp of a deleted object is inherited by one of its name.
AlertIsSustained ==
    Delivered /\ births <= 1 /\ gaps = 0 => \A r \in memory.open : held[r] >= Due(r)

\* Whatever the watch lost, and whichever object of this name came before, an
\* alert that is open is of a condition that the object has now.
AlertIsCurrent == Delivered => memory.open \subseteq Holding(object)

\* Pressure is reported by the event that shows it, on a node that is not ready,
\* that is about to go or that just came as on any other (shouldAlert).
PressureAtOnce ==
    Delivered /\ resets = 0 /\ NC!Pressure \in Holding(object) => NC!Pressure \in memory.open

\* A Resolve says that the condition is over.  A Deployment is another matter:
\* CheckDep takes a condition that was written a moment ago for progress.
ResolvedIsOver ==
    [][\A r \in memory.open \ memory'.open :
          kind # "Deployment" /\ UNCHANGED <<resets, restarts>> => r \notin Holding(object)]_vars

\* Overdue for a report, which a node that is about to go never is for NotReady.
Overdue(r) ==
    /\ exists /\ r \in Holding(object) /\ held[r] >= Due(r)
    /\ ~(r = NC!NotReady /\ object.leaving)

\* A condition that has lasted long enough, and lasts, is reported: "a node that
\* stays down is a real incident and must still page" (node_conditions_test.go).
SustainedIsReported ==
    \A r \in Reasons : Overdue(r) ~> (r \in memory.open \/ ~Overdue(r))
=============================================================================
