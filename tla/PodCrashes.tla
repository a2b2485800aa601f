------------------------------ MODULE PodCrashes ------------------------------
(***************************************************************************)
(* internal/monitors/pod_crashes.go: the pods of the cluster, the informer *)
(* that tells the monitor of them, and what the monitor's calls make the   *)
(* engine believe.  One handler runs at a time and its calls reach the     *)
(* engine in order; Engine!ActiveConverges says that the engine's active   *)
(* set then is what the last call said of each key, which is what `open`   *)
(* stands for.                                                             *)
(***************************************************************************)
EXTENDS Integers, FiniteSets, Sequences

CONSTANTS
    Pods,           \* the names of pods in namespaces that the filter allows
    Reasons,        \* of containers that wait or were terminated
    MaxContainers,  \* how many containers a pod has at most
    MaxUids, MaxRelists, MaxResets    \* bounds of the model

Running == "running"    \* State.Running is set
Other == "other"        \* waiting or terminated for a reason not in the list
States == Reasons \cup {Running, Other}
Slots == 1..MaxContainers
Statuses == UNION {[1..n -> States] : n \in Slots}
Gone == 0
PodStates == [uid : Nat, state : Statuses \cup {<<>>}]
NoPod == [uid |-> Gone, state |-> <<>>]
Found == [uid : Nat, slot : Slots, name : Pods, reason : Reasons]

ASSUME PodCrashesAssumption ==
    /\ Reasons \cap {Running, Other} = {}
    /\ IsFiniteSet(Reasons)
    /\ MaxContainers \in Nat \ {0} /\ MaxUids \in Nat
    /\ MaxRelists \in Nat /\ MaxResets \in Nat

VARIABLES
    listed,     \* monitors.pod_crashes.reasons, read once by Run
    world,      \* the pod of each name, as the API server has it
    lag,        \* what the informer has not delivered: none, watch or relist
    births,     \* the uids given to pods of each name
    seen,       \* PodCrashes.seen
    open,       \* the keys <<name, reason>> the engine takes for firing
    relists,    \* history: changes made while the watch was broken
    resets      \* history: POST /reset-dedupe

cluster == <<world, lag, births, relists>>
vars == <<listed, cluster, seen, open, resets>>

Init ==
    /\ listed \in SUBSET Reasons
    /\ world = [n \in Pods |-> NoPod]
    /\ lag = [n \in Pods |-> "none"]
    /\ births = [n \in Pods |-> 0]
    /\ seen = {}
    /\ open = {}
    /\ relists = 0 /\ resets = 0

-----------------------------------------------------------------------------
KeysOf(found) == {<<f.name, f.reason>> : f \in found}

\* m.seen[uid|container] of these containers, where present.
Of(n, p, cs) == {f \in seen : f.name = n /\ f.uid = p.uid /\ f.slot \in cs}

\* Mutant: only what was not seen before is a hit.
HitsOnce(n, p) == {c \in DOMAIN p.state : p.state[c] \in listed /\ Of(n, p, {c}) = {}}

\* The containers that Submit is called for.
Hits(n, p) == {c \in DOMAIN p.state : p.state[c] \in listed}

\* The containers that run again: what was seen of them is resolved.
Runs(p) == {c \in DOMAIN p.state : p.state[c] = Running}

Entries(n, p) ==
    {[uid |-> p.uid, slot |-> c, name |-> n, reason |-> p.state[c]] : c \in Hits(n, p)}

\* Mutant: seen is a list.
RememberedAll(n, p) == (seen \ Of(n, p, Runs(p))) \cup Entries(n, p)

\* Mutant: the container that runs again is not forgotten.
RememberedRuns(n, p) == (seen \ Of(n, p, Hits(n, p))) \cup Entries(n, p)

\* A hit writes over what was seen of its container, a run deletes it.
Remembered(n, p) == (seen \ Of(n, p, Hits(n, p) \cup Runs(p))) \cup Entries(n, p)

\* The containers are looked at in their order: a key that one submits stays
\* open unless a later one, for which it was seen too, resolves it.
Opened(n, p) ==
    LET Stands(c) == <<n, p.state[c]>> \notin KeysOf(Of(n, p, {d \in Runs(p) : d > c}))
    IN (open \ KeysOf(Of(n, p, Runs(p))))
          \cup {<<n, p.state[c]>> : c \in {d \in Hits(n, p) : Stands(d)}}

Handle(n) == [seen |-> Remembered(n, world[n]), open |-> Opened(n, world[n])]

\* Mutant: the deleted pod's containers are forgotten and not resolved.
ForgetDeleted(n) ==
    [seen |-> {f \in seen : f.name # n}, open |-> open]

\* The seen entries of the deleted pod's uid are resolved.
HandleDelete(n) ==
    LET mine == {f \in seen : f.name = n /\ f.uid = births[n]}
    IN [seen |-> seen \ mine, open |-> open \ KeysOf(mine)]

Become(m) == seen' = m.seen /\ open' = m.open

-----------------------------------------------------------------------------
(* The cluster and the informer.                                           *)

\* A watch that works delivers every change; after a relist the informer
\* delivers the newest state only.
Change(n, p) ==
    /\ world' = [world EXCEPT ![n] = p]
    /\ \/ /\ lag[n] = "none"
          /\ lag' = [lag EXCEPT ![n] = "watch"]
          /\ UNCHANGED relists
       \/ /\ relists < MaxRelists
          /\ relists' = relists + 1
          /\ lag' = [lag EXCEPT ![n] = "relist"]
    /\ UNCHANGED <<listed, seen, open, resets>>

CreatePod(n) ==
    /\ world[n].uid = Gone /\ births[n] < MaxUids
    /\ births' = [births EXCEPT ![n] = @ + 1]
    /\ \E s \in Statuses : Change(n, [uid |-> births[n] + 1, state |-> s])

\* Any update of the pod, one that leaves the containers alone among them.
UpdatePod(n) ==
    /\ world[n].uid # Gone
    /\ \E s \in [DOMAIN world[n].state -> States] :
          Change(n, [world[n] EXCEPT !.state = s])
    /\ UNCHANGED births

DeletePod(n) ==
    /\ world[n].uid # Gone
    /\ Change(n, NoPod)
    /\ UNCHANGED births

\* AddFunc or UpdateFunc.  A pod that replaced another of its name while the
\* watch was broken comes as an update.
DeliverPod(n) ==
    /\ lag[n] # "none" /\ world[n].uid # Gone
    /\ lag' = [lag EXCEPT ![n] = "none"]
    /\ Become(Handle(n))
    /\ UNCHANGED <<listed, world, births, relists, resets>>

\* DeleteFunc.  A deletion found by a relist comes as DeletedFinalStateUnknown,
\* which is not a pod: handleDelete returns.
DeliverDelete(n) ==
    /\ lag[n] # "none" /\ world[n].uid = Gone
    /\ lag' = [lag EXCEPT ![n] = "none"]
    /\ IF lag[n] = "watch" THEN Become(HandleDelete(n)) ELSE UNCHANGED <<seen, open>>
    /\ UNCHANGED <<listed, world, births, relists, resets>>

\* Engine.Reset empties the active set; nothing tells the monitor.
Reset ==
    /\ resets < MaxResets
    /\ resets' = resets + 1
    /\ open' = {}
    /\ UNCHANGED <<listed, cluster, seen>>

Next ==
    \/ \E n \in Pods : \/ CreatePod(n) \/ UpdatePod(n) \/ DeletePod(n)
                       \/ DeliverPod(n) \/ DeliverDelete(n)
    \/ Reset

Spec == Init /\ [][Next]_vars

\* The informer delivers what it knows.
FairSpec == Spec /\ \A n \in Pods : WF_vars(DeliverPod(n) \/ DeliverDelete(n))

-----------------------------------------------------------------------------
(* Properties.                                                             *)

\* Every variable keeps its type, and seen is a map from uid|container.
TypeOK ==
    /\ listed \subseteq Reasons
    /\ world \in [Pods -> PodStates]
    /\ lag \in [Pods -> {"none", "watch", "relist"}]
    /\ births \in [Pods -> Nat]
    /\ seen \subseteq Found
    /\ \A f, g \in seen : f.name = g.name /\ f.uid = g.uid /\ f.slot = g.slot => f = g
    /\ open \subseteq Pods \X Reasons
    /\ relists \in Nat /\ resets \in Nat

Delivered(n) == lag[n] = "none"

\* A listed reason of a pod's only container has its alert open, whatever pods
\* came and went, whatever the reason was before and however often the watch
\* broke (handle).  With two containers the one that runs again resolves the
\* alert of the other.
CrashIsOpen ==
    resets = 0 => \A n \in Pods :
        Delivered(n) /\ Len(world[n].state) = 1 /\ world[n].state[1] \in listed
            => <<n, world[n].state[1]>> \in open

\* An alert that is open names a pod that exists and has a container that does
\* not run: Running and deletion both resolve it (handle, handleDelete).
NoStaleAlert ==
    \A k \in open : Delivered(k[1]) =>
        \E c \in DOMAIN world[k[1]].state : world[k[1]].state[c] # Running

\* That much holds while one reason is listed and the watch does not break,
\* for pods of any number of containers, replaced under their names.
OpenHasCause == Cardinality(listed) <= 1 /\ relists = 0 => NoStaleAlert

\* While the watch does not break nothing is remembered of a pod that is gone
\* or of a container that runs: seen does not grow with the pods that were ever
\* there, and names their present reasons (handle, handleDelete).
SeenIsCurrent ==
    relists = 0 => \A f \in seen : Delivered(f.name) =>
        /\ f.uid = world[f.name].uid
        /\ world[f.name].state[f.slot] \in {f.reason, Other} \cup (Reasons \ listed)

\* Unless the engine is reset, a pod's only container that stays in a listed
\* state has its alert opened.
CrashIsReported ==
    \A n \in Pods, r \in Reasons :
        (r \in listed /\ world[n].state = <<r>>)
            ~> (<<n, r>> \in open \/ world[n].state # <<r>> \/ resets > 0)
=============================================================================
