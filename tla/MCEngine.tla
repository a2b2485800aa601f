------------------------------ MODULE MCEngine ------------------------------
(* Constants for the runs of Engine.                                       *)
EXTENDS Engine, TLC

CONSTANTS pvc, node, d1, d2    \* monitors and objects
CONSTANTS slack, email, ghost  \* channels; nobody registers ghost

Alt(m, o, s) == [monitor |-> m, object |-> o, severity |-> s]
Scan(m, firing) == [kind |-> "reconcile", monitor |-> m, firing |-> firing]

\* One periodic monitor that reports two objects, and one call per event.
PvcScans == {Scan(pvc, <<>>), Scan(pvc, <<Alt(pvc, d1, "warning")>>),
             Scan(pvc, <<Alt(pvc, d1, "warning"), Alt(pvc, d2, "critical")>>)}
NodeAlerts == {Alt(node, d1, "critical")}

\* Two keys for a digest, and one of them critical enough to go out at once.
BatchScans == {Scan(pvc, <<>>),
               Scan(pvc, <<Alt(pvc, d1, "warning"), Alt(pvc, d2, "info")>>)}
UrgentAlerts == {Alt(pvc, d1, "critical")}

\* One object in both severities.
TwoSeverities == {Alt(pvc, d1, "warning"), Alt(pvc, d1, "critical")}
Escalating == {Scan(pvc, <<>>), Scan(pvc, <<Alt(pvc, d1, "warning")>>),
               Scan(pvc, <<Alt(pvc, d1, "critical")>>)}

NoAlerts == {}

NoRules == <<>>
\* Criticals to one channel, what is left to another.
SplitBySeverity ==
    <<[severity |-> "critical", monitor |-> AnyMatch, channels |-> {email}]>>
\* One rule names a monitor and an unregistered channel besides its own.
NodeToBoth ==
    <<[severity |-> AnyMatch, monitor |-> node, channels |-> {slack, ghost}]>>
=============================================================================
