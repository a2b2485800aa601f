----------------------------- MODULE MCProcess -----------------------------
(* Constants for the runs of Process.                                      *)
EXTENDS Process, TLC

CONSTANTS pvc, d1           \* a monitor and an object
CONSTANTS slack, email      \* channels

Alt(s) == [monitor |-> pvc, object |-> d1, severity |-> s]
Scan(firing) == [kind |-> "reconcile", monitor |-> pvc, firing |-> firing]

NoRules == <<>>

Critical == {Alt("critical")}
Scans == {Scan(<<Alt("warning")>>)}
=============================================================================
