------------------------------ MODULE SinceTimer ------------------------------
(***************************************************************************)
(* internal/monitors/hpa_at_max.go and daemonset_unscheduled.go, which     *)
(* differ in the condition only: what one informer event makes of the      *)
(* monitor's memory m of the object, [seen, since, open].  m.since is the  *)
(* age of the stamp.                                                       *)
(***************************************************************************)
EXTENDS Integers

AtMaxReplicas == "AtMaxReplicas"
Unscheduled == "Unscheduled"
Unset == -1     \* no stamp in m.since

HPAs(counts) == [current : counts, max : counts]
DaemonSets(counts) == [desired : counts, ready : counts]

AtMax(h) == h.current = h.max /\ h.max > 0
Unready(d) == d.desired # d.ready

\* m.since[key] is set by the first event that finds the condition.
Stamped(m) == [m EXCEPT !.since = IF @ = Unset THEN 0 ELSE @]

\* Mutant: the stamp stays when the condition ends.
OverStillStamped(m, reason) == [m EXCEPT !.open = @ \ {reason}]

\* The stamp goes, and a Resolve is sent whether or not anything was submitted.
Over(m, reason) ==
    IF m.since # Unset
    THEN [m EXCEPT !.since = Unset, !.open = @ \ {reason}]
    ELSE m

On(m, limit, reason) ==
    LET timed == Stamped(m)
    IN IF timed.since >= limit THEN [timed EXCEPT !.open = @ \cup {reason}] ELSE timed

HandleHPA(m, h, limit) ==
    IF AtMax(h) THEN On(m, limit, AtMaxReplicas) ELSE Over(m, AtMaxReplicas)

HandleDaemonSet(m, d, limit) ==
    IF Unready(d) THEN On(m, limit, Unscheduled) ELSE Over(m, Unscheduled)
=============================================================================
