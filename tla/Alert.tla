------------------------------- MODULE Alert -------------------------------
(***************************************************************************)
(* internal/alert: what a monitor reports and what a channel is sent.      *)
(*                                                                         *)
(* An alert keeps the parts the engine tells apart: the monitor, the       *)
(* object (it stands for namespace, kind, name and reason together) and    *)
(* the severity.  Title, body, cluster, labels and the timestamp are text  *)
(* the engine only copies.                                                 *)
(***************************************************************************)
CONSTANTS
    Monitors,   \* names of the monitors that feed the engine
    Objects     \* what an alert is about: (namespace, kind, name, reason)

Severities == {"info", "warning", "critical"}

Alerts == [monitor : Monitors, object : Objects, severity : Severities]

\* Alert.Key: the identity of a condition.  The severity is not part of it.
Key(a) == <<a.monitor, a.object>>
Keys == Monitors \X Objects

KeysOf(alerts) == {Key(a) : a \in alerts}

\* A digest is sent under a monitor name of its own.
Digest == "digest"
MonitorNames == Monitors \cup {Digest}

(***************************************************************************)
(* What Registry.Send is handed.  A digest carries every key of its batch, *)
(* any other message exactly one.                                          *)
(***************************************************************************)
Messages == [state : {"none", "firing", "resolved"}, monitor : MonitorNames,
             severity : Severities, keys : SUBSET Keys]

NoMsg == [state |-> "none", monitor |-> Digest, severity |-> "info", keys |-> {}]

FiringMsg(a) == [state |-> "firing", monitor |-> a.monitor,
                 severity |-> a.severity, keys |-> {Key(a)}]

\* mergeResolved: the previous alert, its severity lowered to info.
ResolvedMsg(prev) == [state |-> "resolved", monitor |-> prev.monitor,
                      severity |-> "info", keys |-> {Key(prev)}]

DigestMsg(batch) == [state |-> "firing", monitor |-> Digest,
                     severity |-> "info", keys |-> KeysOf(batch)]
=============================================================================
