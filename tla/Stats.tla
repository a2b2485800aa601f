------------------------------- MODULE Stats -------------------------------
(***************************************************************************)
(* internal/engine/stats.go: per-monitor counters and the ring of recent   *)
(* messages the UI shows.  A statsRecorder is one record; its mutex makes  *)
(* every operation on it a single step.                                    *)
(***************************************************************************)
EXTENDS Alert, Naturals, Sequences

CONSTANT Capacity    \* length of the ring; engine.New passes 100

ASSUME CapacityAssumption == Capacity \in Nat \ {0}

Events == {"none", "firing", "resolved"}

StatsRecords == [fires : [MonitorNames -> Nat], resolves : [MonitorNames -> Nat],
                 lastEvent : [MonitorNames -> Events], recent : Seq(Messages)]

NewStats == [fires     |-> [m \in MonitorNames |-> 0],
             resolves  |-> [m \in MonitorNames |-> 0],
             lastEvent |-> [m \in MonitorNames |-> "none"],
             recent    |-> <<>>]

\* Mutant: the ring keeps its head.
TrimTail(s) == IF Len(s) > Capacity THEN SubSeq(s, 1, Capacity) ELSE s

\* The ring keeps its tail.
Trim(s) == IF Len(s) > Capacity THEN SubSeq(s, Len(s) - Capacity + 1, Len(s)) ELSE s

\* statsRecorder.record: every attempt counts, delivered or not.
Record(s, m) ==
    [fires     |-> [s.fires EXCEPT ![m.monitor] = @ + IF m.state = "resolved" THEN 0 ELSE 1],
     resolves  |-> [s.resolves EXCEPT ![m.monitor] = @ + IF m.state = "resolved" THEN 1 ELSE 0],
     lastEvent |-> [s.lastEvent EXCEPT ![m.monitor] =
                      IF m.state = "resolved" THEN "resolved" ELSE "firing"],
     recent    |-> Trim(Append(s.recent, m))]

\* statsRecorder.Monitors lists the monitors recorded so far.
Known(s) == {m \in MonitorNames : s.fires[m] + s.resolves[m] > 0}

\* statsRecorder.Recent: newest first.
Recent(s) == [i \in 1..Len(s.recent) |-> s.recent[Len(s.recent) + 1 - i]]
=============================================================================
