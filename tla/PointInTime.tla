---------------------------- MODULE PointInTime ----------------------------
(***************************************************************************)
(* The monitors that report and never resolve: pod_restarts, job_failed    *)
(* and warning_events.  One of them is enabled and watches one object, a   *)
(* pod of one container, a Job or an Event; an update hands it over anew.  *)
(*                                                                         *)
(* The informer delivers every version within a unit of the clock, unless  *)
(* there is a gap in the watch.  What Submit puts into the queue reaches   *)
(* the deduper; what a full queue drops does not.  Of what is in memory    *)
(* only the dedupe table comes back after a restart: all of it if the final*)
(* save and the load get through, else what the last snapshot wrote or     *)
(* nothing (Persistence and Process say how).                              *)
(***************************************************************************)
EXTENDS Namespaces, Deduper, Sequences, FiniteSets

CONSTANTS
    Kinds,                  \* the monitors looked at
    Namespace,              \* of the object
    Thresholds, Windows,    \* values of pod_restarts.threshold and .window
    MaxTime, MaxCount, MaxSamples, MaxBirths, MaxGaps, MaxDrops, MaxStarts, MaxLosses  \* bounds

ASSUME PointInTimeAssumption ==
    /\ Kinds \subseteq {"pod_restarts", "job_failed", "warning_events"}
    /\ Thresholds \subseteq Int /\ Windows \subseteq Int
    /\ {MaxTime, MaxCount, MaxSamples} \subseteq Nat
    /\ {MaxBirths, MaxGaps, MaxDrops, MaxStarts, MaxLosses} \subseteq Nat

Obj == "obj"        \* the alert's key

VARIABLES
    kind, threshold, window,    \* configuration
    now,        \* time.Now
    obj,        \* cluster: the object
    known,      \* the informer's copy
    news,       \* a notification of the informer has not been handled yet
    hist,       \* PodRestarts.hist of the pod, oldest sample first
    last,       \* Deduper.last
    saved,      \* the table in the ConfigMap
    verdict,    \* what the last step was: a report, a silent look, or neither
    notices,    \* history: alerts admitted
    before,     \* history: the restart count when each unit began
    bumps,      \* history: times of restarts that came in updates of their own
    losses,     \* history: restarts that may not have brought the table back
    births, gaps, drops, starts     \* history, for the bounds

config == <<kind, threshold, window>>
bounds == <<births, gaps, drops, starts>>
stored == <<saved, losses>>
vars == <<config, now, obj, known, news, hist, last, stored, verdict, notices, before, bumps,
          bounds>>

\* uid 0: there is no object.  bad: a Job with Failed=True, an Event of type
\* Warning whose reason is not ignored.
ObjectStates == [uid : Nat, count : Nat, bad : BOOLEAN]
Samples == [at : Nat, count : Nat]
None == [uid |-> 0, count |-> 0, bad |-> FALSE]

Init ==
    /\ kind \in Kinds
    /\ threshold \in IF kind = "pod_restarts" THEN Thresholds ELSE {0}
    /\ window \in IF kind = "pod_restarts" THEN Windows ELSE {0}
    /\ now = 0
    /\ obj = None /\ known = None /\ news = FALSE
    /\ hist = <<>>
    /\ last = Forgotten({Obj}) /\ saved = Forgotten({Obj}) /\ losses = 0
    /\ verdict = "none" /\ notices = 0
    /\ before = [t \in 0..MaxTime |-> 0] /\ bumps = <<>>
    /\ births = 0 /\ gaps = 0 /\ drops = 0 /\ starts = 1

-----------------------------------------------------------------------------
(* The object.                                                             *)

\* A change that is made before the last one was handled takes its place.
Becomes(o) ==
    /\ IF news THEN gaps < MaxGaps /\ gaps' = gaps + 1 ELSE UNCHANGED gaps
    /\ obj' = o /\ news' = TRUE
    /\ verdict' = "none"
    /\ UNCHANGED <<config, now, known, hist, last, stored, notices, drops, starts>>

\* Names of Events are not used again.
Create ==
    /\ obj = None /\ births < MaxBirths /\ births' = births + 1
    /\ kind = "warning_events" => births = 0
    /\ \E b \in (IF kind = "pod_restarts" THEN {FALSE} ELSE BOOLEAN) :
          Becomes([uid |-> births + 1, count |-> 0, bad |-> b])
    /\ before' = [t \in 0..MaxTime |-> 0] /\ bumps' = <<>>

ContainerRestarts ==
    /\ kind = "pod_restarts" /\ obj # None /\ obj.count < MaxCount
    /\ Becomes([obj EXCEPT !.count = @ + 1])
    /\ UNCHANGED <<births, before, bumps>>

JobFails ==
    /\ kind = "job_failed" /\ obj # None /\ ~obj.bad
    /\ Becomes([obj EXCEPT !.bad = TRUE])
    /\ UNCHANGED <<births, before, bumps>>

\* A write that none of these monitors looks at.
Touch ==
    /\ obj # None /\ ~news /\ Len(hist) < MaxSamples
    /\ Becomes(obj)
    /\ UNCHANGED <<births, before, bumps>>

Delete ==
    /\ obj # None
    /\ Becomes(None)
    /\ UNCHANGED <<births, before, bumps>>

-----------------------------------------------------------------------------
(* The monitors.                                                           *)

\* Mutant: nothing is ever dropped from the history.
TrimmedNot(samples) == samples

\* PodRestarts.handle filters out the samples that are older than its window.
\* A sample is appended when it is taken, so those are the first ones.
Trimmed(samples) ==
    LET old == {i \in DOMAIN samples : samples[i].at < now - window}
    IN SubSeq(samples, Cardinality(old) + 1, Len(samples))

\* PodRestarts.handle, up to the sample that it appends and keeps.
Sampled ==
    LET kept == IF known.uid = obj.uid THEN hist ELSE <<>>
    IN Trimmed(Append(kept, [at |-> now, count |-> obj.count]))

\* Mutant: the threshold is to be passed, not met.
StormOver(samples) ==
    Len(samples) >= 2 /\ samples[Len(samples)].count - samples[1].count > threshold

\* The condition of its Submit.
Storm(samples) ==
    Len(samples) >= 2 /\ samples[Len(samples)].count - samples[1].count >= threshold

IsUpdate == known # None

\* Mutant: no monitor has an AddFunc.
LooksAtUpdates == obj # None /\ Allows(Namespace) /\ IsUpdate

\* Does the handler get past its early returns?
Looks ==
    /\ obj # None /\ Allows(Namespace)
    /\ \/ kind = "pod_restarts" /\ IsUpdate /\ window > 0 /\ threshold > 0
       \/ kind = "job_failed"
       \/ kind = "warning_events" /\ ~IsUpdate

Reports == Looks /\ IF kind = "pod_restarts" THEN Storm(Sampled) ELSE obj.bad

\* Submit, and what handleFire makes of it.
Submit ==
    \/ /\ Allowed(last, Obj, now)
       /\ last' = Admitted(last, Obj, now)
       /\ notices' = notices + 1
       /\ UNCHANGED drops
    \/ /\ ~Allowed(last, Obj, now)
       /\ UNCHANGED <<last, notices, drops>>
    \/ /\ drops < MaxDrops /\ drops' = drops + 1
       /\ UNCHANGED <<last, notices>>

\* The informer's next notification.
Deliver ==
    /\ news /\ news' = FALSE
    /\ known' = obj
    /\ hist' = IF kind = "pod_restarts" /\ Looks THEN Sampled
               ELSE IF known.uid = obj.uid THEN hist ELSE <<>>
    /\ IF Reports THEN Submit ELSE UNCHANGED <<last, notices, drops>>
    /\ verdict' = IF Reports THEN "report" ELSE "silent"
    /\ bumps' = IF IsUpdate /\ known.uid = obj.uid /\ obj.count = known.count + 1
                  THEN Append(bumps, now) ELSE bumps
    /\ UNCHANGED <<config, now, obj, stored, before, births, gaps, starts>>

Tick ==
    /\ ~news /\ now < MaxTime /\ now' = now + 1
    /\ before' = [before EXCEPT ![now + 1] = obj.count]
    /\ verdict' = "none"
    /\ UNCHANGED <<config, obj, known, news, hist, last, stored, notices, bumps, bounds>>

\* snapshotLoop: the ConfigMap gets the table as it is.
Snapshot ==
    /\ saved' = last
    /\ verdict' = "none"
    /\ UNCHANGED <<config, now, obj, known, news, hist, last, losses, notices, before, bumps,
                   bounds>>

\* The final save and the next process's Load, or a crash, or one of the two
\* failing: what is loaded is older then, or nothing is.
HandOver ==
    LET loaded == Restored(Forgotten({Obj}), saved')
    IN \/ /\ saved' = last
          /\ last' = loaded
          /\ UNCHANGED losses
       \/ /\ losses < MaxLosses /\ losses' = losses + 1
          /\ saved' \in {last, saved}
          /\ last' \in {loaded, Forgotten({Obj})}

\* kpulse starts again: the informer's first list adds what there is.
Restart ==
    /\ starts < MaxStarts /\ starts' = starts + 1
    /\ HandOver
    /\ known' = None /\ news' = (obj # None) /\ hist' = <<>>
    /\ bumps' = <<>> /\ verdict' = "none"
    /\ UNCHANGED <<config, now, obj, notices, before, births, gaps, drops>>

Next == \/ Create \/ ContainerRestarts \/ JobFails \/ Touch \/ Delete
        \/ Deliver \/ Tick \/ Snapshot \/ Restart

\* The informer hands over what it knows.
Spec == Init /\ [][Next]_vars /\ WF_vars(Deliver)

-----------------------------------------------------------------------------
(* Properties.                                                             *)

\* Types; the history holds samples of one window, in the order of the counts.
TypeOK ==
    /\ kind \in Kinds /\ threshold \in Int /\ window \in Int
    /\ now \in 0..MaxTime
    /\ obj \in ObjectStates /\ known \in ObjectStates
    /\ news \in BOOLEAN
    /\ hist \in Seq(Samples)
    /\ \A i \in DOMAIN hist :
          /\ hist[i].at >= hist[Len(hist)].at - window
          /\ \A j \in i..Len(hist) :
                hist[i].at <= hist[j].at /\ hist[i].count <= hist[j].count
    /\ last \in [{Obj} -> Times] /\ saved \in [{Obj} -> Times]
    /\ verdict \in {"report", "silent", "none"}
    /\ before \in [0..MaxTime -> Nat] /\ bumps \in Seq(Nat)
    /\ notices \in Nat /\ losses \in Nat
    /\ births \in Nat /\ gaps \in Nat /\ drops \in Nat /\ starts \in Nat

\* A storm is one: when pod_restarts reports, the container did restart that
\* often since the window began, whatever updates were merged and however
\* often the pod was replaced (PodRestarts.handle's trimming).
StormIsReal ==
    verdict = "report" /\ kind = "pod_restarts" =>
        obj.count - before[IF now > window THEN now - window ELSE 0] >= threshold

\* More than `threshold` restarts within `window` are reported, if each came
\* in an update of its own: the first one is lost as the baseline of the
\* others (PodRestarts.handle has no AddFunc and takes the oldest sample).
StormIsReported ==
    verdict = "silent" /\ Looks /\ known = obj =>
        Cardinality({i \in DOMAIN bumps : bumps[i] >= now - window}) <= threshold

\* A restart of kpulse, which reports every failed Job and every Event again,
\* and every later write of the Job add no notice within the dedupe window, if
\* the final save and the next Load get through.  A restart after a crash, or
\* one whose save or Load fails, costs at most one notice more (JobFailed.Run
\* and WarningEvents.Run against Deduper.Restore).
RepeatIsSpaced == (notices - 1 - losses) * Window <= now

\* A failed Job and a Warning are told of once they are there, unless their
\* one Submit met a full queue (JobFailed.Run, WarningEvents.Run).
FailureIsTold ==
    (obj.bad /\ Allows(Namespace)) ~> (notices > 0 \/ drops > 0 \/ ~obj.bad)
=============================================================================
