---------------------------- MODULE NodeConditions ----------------------------
(***************************************************************************)
(* internal/monitors/node_conditions.go: what one informer event makes of  *)
(* the monitor's memory m of the node, [seen, since, open], where `open`   *)
(* stands for the engine's active set.  Times are ages: n.age is how long  *)
(* ago LastTransitionTime of the Ready condition was.                      *)
(***************************************************************************)
EXTENDS Naturals

NotReady == "NotReady"
Pressure == "DiskPressure"      \* stands for any condition but Ready
NodeReasons == {NotReady, Pressure}

\* `leaving`: DeletionTimestamp or one of the two taints is set.
Nodes(ages) ==
    [ready : BOOLEAN, age : ages, leaving : BOOLEAN, pressure : BOOLEAN]

\* The map `current` of the handler.
Firing(n, alertOn) ==
    {r \in alertOn : IF r = NotReady THEN ~n.ready ELSE n.pressure}

\* Mutant: capacity changes silence every condition.
ShouldAlertChurn(n, r, grace) == ~n.leaving /\ (r = NotReady => n.age >= grace)

\* A grace of zero or less waits for nothing.
ShouldAlert(n, r, grace) == r = NotReady => ~n.leaving /\ n.age >= grace

\* Mutant: what is withheld now is taken for cleared.
HandleNodeWithheld(m, n, alertOn, grace) ==
    LET told == {r \in Firing(n, alertOn) : ShouldAlert(n, r, grace)}
    IN [m EXCEPT !.seen = told, !.open = (@ \cup told) \ (m.seen \ told)]

\* Submit what fires and should be told, then Resolve what was seen and is no
\* longer in the node's conditions.
HandleNode(m, n, alertOn, grace) ==
    LET current == Firing(n, alertOn)
        told == {r \in current : ShouldAlert(n, r, grace)}
        toResolve == m.seen \ current
    IN [m EXCEPT !.seen = (@ \cup told) \ toResolve,
                 !.open = (@ \cup told) \ toResolve]
=============================================================================
