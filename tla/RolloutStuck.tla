----------------------------- MODULE RolloutStuck -----------------------------
(***************************************************************************)
(* internal/monitors/rollout_stuck.go: what one informer event makes of the *)
(* monitor's memory m of the workload, [seen, since, open].  Times are     *)
(* ages: d.age of the Progressing condition's LastUpdateTime, m.since of    *)
(* the stamp.                                                              *)
(***************************************************************************)
EXTENDS Integers

Stuck == "RolloutStuck"
Unset == -1     \* no stamp in m.since

\* `progressing`: there is no Progressing condition whose status is not True.
Deployments(ages) == [progressing : BOOLEAN, age : ages]

\* `behind`: ReadyReplicas < Replicas; `mixed`: the revisions differ.
StatefulSets == [behind : BOOLEAN, mixed : BOOLEAN]

InProgress(s) == s.behind \/ s.mixed

\* What Run puts in place of a threshold that is not positive.
Threshold(configured, default) == IF configured <= 0 THEN default ELSE configured

\* Submit, then markFiring.
MarkFiring(m) == [m EXCEPT !.seen = @ \cup {Stuck}, !.open = @ \cup {Stuck}]

\* Mutant: the stamp is dropped and the fired alert is not.
ClearStampOnly(m) == [m EXCEPT !.since = Unset]

\* clearFiring, and the Resolve that follows if it returned true.
ClearFiring(m) ==
    [seen |-> m.seen \ {Stuck}, since |-> Unset,
     open |-> IF Stuck \in m.seen THEN m.open \ {Stuck} ELSE m.open]

\* Mutant: every event starts the rollout anew.
RestartedAt(m) == [m EXCEPT !.since = 0]

RolloutStartedAt(m) == [m EXCEPT !.since = IF @ = Unset THEN 0 ELSE @]

\* Mutant: a stuck Deployment is stamped too.
CheckDepStamped(m, d, threshold) ==
    IF ~d.progressing /\ d.age >= threshold THEN MarkFiring(RolloutStartedAt(m)) ELSE ClearFiring(m)

CheckDep(m, d, threshold) ==
    IF ~d.progressing /\ d.age >= threshold THEN MarkFiring(m) ELSE ClearFiring(m)

RolloutHealthy(m) == [m EXCEPT !.since = Unset]

CheckSS(m, s, threshold) ==
    IF InProgress(s)
    THEN LET stamped == RolloutStartedAt(m)
         IN IF stamped.since > threshold THEN MarkFiring(stamped) ELSE stamped
    ELSE ClearFiring(RolloutHealthy(m))
=============================================================================
