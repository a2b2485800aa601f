# kpulse in TLA+

kpulse watches a Kubernetes cluster and sends alerts to chat, e-mail and webhooks. This directory holds
TLA+ models of its core, the TLC configurations that check them on small instances and theorems checked
by TLAPS. Paths below are relative to the repository (`src/` is its root); line numbers of every
definition are in `PROJECT.json`.

## The system

    monitors --Submit/Resolve/Reconcile--> Engine.in --> Engine.Run --> Registry.Send --> channels
       ^                                                  |   ^  |
    informers, scans                             Deduper--+   |  +--> stats (UI)
                                                   |          +-- digest ticker
                     ConfigMap/kpulse-state <------+ snapshot loop, final save, POST /reset-dedupe

| Component | State | Operations | What makes it correct |
|---|---|---|---|
| engine (`internal/engine/engine.go`) | `in` (queue of 256), `active`, `digestQ` | `Submit`, `Resolve`, `Reconcile`, `Run` with `handleFire`, `handleResolve`, `handleReconcile`, `flushDigest`; `Reset` | the active set follows the monitors' last word; nothing decided on is lost; each firing notice gets its `[RESOLVED]` |
| deduper (`dedupe.go`) | `last`: key to time | `Allow`, `Snapshot`, `Restore`, `Reset` | at most one admission per window |
| router (`route.go`) | rules, defaults | `Channels` | first match, else defaults |
| statistics (`stats.go`) | counters and a ring | `record`, `Monitors`, `Recent` | the ring and the counters agree |
| registry (`internal/notifiers/registry.go`) | notifiers by name | `Send`, `Register` | one failing channel does not keep the others from being tried; one that hangs keeps everything waiting |
| state store (`internal/state/state.go`) and `main.go` | the ConfigMap; who writes it | `Save`, `Clear`, `Load`, `snapshotLoop`, startup and shutdown | what was saved is honoured after a restart, what was reset stays forgotten |
| pod_crashes (`internal/monitors/pod_crashes.go`) | `seen` | `handle`, `handleDelete` | an alert is open exactly while its cause is there |
| node_conditions, rollout_stuck, hpa_at_max, daemonset_unscheduled | `seen`, `since` | one event handler each (rollout_stuck: two) | what is reported has lasted and still does; what lasts is reported |
| pvc_usage, node_disk, tls_cert_expiry, cronjob_missed | nothing | a scan at each tick of their own interval | what a scan reports or takes back was so while it went on; what lasts is reported |
| pod_restarts | `hist`, samples per pod | `handle` | a storm is reported, and only a real one |
| job_failed, warning_events | nothing | event handlers that never resolve | each failure is told of, and not again within the window |
| `main.go` (`cmd/kpulse`) | goroutines, WaitGroup, default channels | startup, signal, final save | the signal ends the process; the next process is not silent about what nobody was told |
| HTTP server (`internal/httpsrv`) | none | probes, UI views, test send, `POST /reset-dedupe` | the reset is modelled; the rest reads |
| configuration (`internal/config`) | the decoded file | defaults, `NamespaceFilter.Allows` | the filter is modelled; values are constants of the models |
| sinks (`slack.go`, ...) | none | format and send one message | not modelled: one exchange with an outcome |

Interaction is by one buffered channel (monitors to engine, non-blocking for `Submit` and `Resolve`), by
two mutexes (`Engine.mu`, `Deduper.mu`) taken one after the other and never together, by the API
server's ConfigMap, and by informer callbacks. The hard parts are therefore the order of steps between
two critical sections, the delay that the digest and the queue put between a decision and its notice,
the window between a Get and an Update, what a stop, a crash and a restart keep, and informers that
merge or drop what happened. `PROJECT.json` lists each of these hazards at its line, with the property
that watches it or the reason why none does yet.

## Modules

| Module | Models |
|---|---|
| `Alert` | identity, severity and state of an alert, and the messages built from it |
| `Router`, `Deduper`, `Stats` | the pure parts of `route.go`, `dedupe.go`, `stats.go` |
| `Engine` | `Engine.Run` step by step, beside the monitors' calls, the ticker, `Reset` and the signal |
| `AlertLifecycle` | the engine's promise, abstractly: conditions open and close, notices become due and are given |
| `Persistence` | the dedupe table, the ConfigMap and its three writers, through stops, crashes and restarts |
| `PodCrashes` | one monitor, its informer and its pods, and what its calls make the engine believe |
| `NodeConditions`, `RolloutStuck`, `SinceTimer` | the handlers of four monitors, as functions of the monitor's memory and the object |
| `Watched` | one object of a kind, its informer and clock, and the monitor that watches it with one of those handlers |
| `Namespaces` | `NamespaceFilter.Allows` |
| `Scans` | one periodic monitor, its objects, its nodes and what Reconcile makes of each scan |
| `PointInTime` | one object and one of the three monitors that never resolve, with the dedupe table across a restart |
| `Process` | `Engine` in `main`: the next process, the final save, snapshots, crashes, the choice of default channels, a request that hangs |
| `MCEngine`, `MCPersistence`, `MCPodCrashes`, `MCWatched`, `MCScans`, `MCPointInTime`, `MCProcess` | constants for TLC |
| `EngineProofs`, `DeliveryProofs`, `PersistenceProofs`, `PodCrashesProofs`, `WatchedProofs`, `ScansProofs`, `PointInTimeProofs`, `ProcessProofs` | theorems |

`Engine` and `Persistence` share `Deduper`. `PodCrashes` stands on the engine through one fact:
`Engine!ActiveConverges` says that, once its queue has drained, the engine's active set is what the last
accepted call said of each key, and `PodCrashes!open` is just that; so are `open` in `Watched!memory`
and in `Scans`. `Process` EXTENDS `Engine` and wraps its actions; where `Persistence` looks inside a
save, `Process` takes it as one step. `PointInTime` uses `Deduper` itself.

**Engine.** `pc` is the place of the engine goroutine; each action is one stretch between two points
where another goroutine can get in. `handleFire` is `Allow` (the deduper's critical section), then
`Mark` (suppressed) or `Track` (admitted: active set, then digest queue or `Registry.Send`);
`handleResolve` is `HandleResolve`; `handleReconcile` is one `fire` round per alert and `Diff`;
`flushDigest` is `TakeTick`. A send is one `SendTo` per channel, in any order (the code has one order;
nothing but the channels' view depends on it), then `FinishSend`, which counts the attempt as
`recordSent` does. `Engine.Reset` takes its two critical sections as `ResetActive` and `ResetDedupe`.
`active` is a map in the code and the set of its values here. `heard`, `latest` and `admitted` are
histories: what each channel was told last, what the accepted calls said last, and how often `Allow`
said yes. An object stands for namespace, kind, name and reason together. `RestoreActive` has no caller
and is left out. `defaults` is chosen initially: `main` prefers `Preferred` (a Slack) and otherwise
takes the first of `Registry.Names`, which ranges over a Go map, so any registered channel may come out
(`DefaultChannels`).

**Persistence.** Each writer runs `Get`, then `Put` or `Create`; `fresh[w]` is the API server's
resourceVersion check reduced to what it decides: has the object changed since this writer's Get. `Save`
formats the table before its Get, so `data` is set when the call begins. The signal cancels the snapshot
loop's requests but not those of the final save or of the HTTP handler; a request that had left may
still be served, so `Put` does not look at the context. `wg.Wait` does not wait for the loop, so
`BeginFinalSave` does not either. `Die` is the end of the process, by `Exit` or by `Crash`. `Fire` is
`Deduper.Allow` letting a key through; that a key is suppressed changes nothing. One reset runs at a
time. The Deployment's strategy is Recreate, so one process at a time.

**PodCrashes.** A working watch delivers every change; when it breaks (`relists` counts the changes made
then) the informer delivers the newest state only, finds deletions late and hands them over as
`DeletedFinalStateUnknown`, and a pod that replaced another of the same name comes as an update. One
handler runs at a time and its calls reach the engine in order, so a handler is one action. Its loop
over the containers is written as what it leaves: `Remembered` and `Opened`, where a container that
crashed keeps its alert unless a later one of the list runs again and resolves the same key.

**Watched.** The kind of the object, chosen initially, says which monitor is enabled and which handler
an event calls; the monitors share no state, so one at a time is enough. A stamp, and the times that the
API server writes into conditions, are kept as ages that grow with `Tick` and stop at `Eldest`: the code
compares them with configured times and does nothing else with them, so the clock needs no bound (clocks
of kpulse and the API server are taken to agree). `Update` writes the object, `Touch` is a write that
changes nothing the monitor looks at. As in `PodCrashes` a watch delivers every version unless there is
a gap. No handler of these monitors is called for a deletion. `Restart` empties the monitor's memory and
the engine's, and the informer adds the object again.

**Scans.** Objects do not meet in these monitors, so one is enough for everything but the count of
nodes, and a scan's result is what it says of the object. `Begin` is a tick and the List, `Fetch` and
`FetchFails` ask one node, `End` hands Reconcile what was found, which the queue takes or drops. Between
any two of these a claim fills up, empties, moves, comes or goes. The two monitors that judge by the
clock read one List, so everything of theirs happens in one instant. `at[o] = {}` is an object that the
scan leaves out without failing: unmounted, without capacity, without a certificate, suspended, or with
a schedule that cannot be parsed. `shown` and `missed` are histories of the scan that goes on, `lapses`
bounds what goes wrong. A schedule is "every `Period`".

**PointInTime.** The informer hands over each version within a unit of the clock, unless there is a gap.
`verdict` is what the last event made the monitor say; a call is dropped (`drops`) or reaches the
deduper. `Snapshot` writes its table to the ConfigMap (`saved`). At a `Restart`, where the informer adds
the object again, `HandOver` says what the next process knows: the whole table if the final save and the
load get through; after a crash, or when one of the two fails, what was saved before, or nothing.
`losses` counts such restarts. `hist` belongs to one uid, as the keys of `PodRestarts.hist` do; alerts
are keyed by name, so `last` is not emptied for a new pod of the same name. Names of Events are not used
again. Samples are appended in the order of their times, so the ones that the handler filters out are
the first ones (`Trimmed`).

**Process.** `EndWith` forgets all memory and leaves a table in the ConfigMap: the last one after an
`Exit` whose final save gets through, an older one after an `Exit` whose save conflicts or fails (it is
logged, not tried again) and after a `Crash`. `Start` restores it, or goes on with nothing if `Load`
fails, and picks the default channels anew. `losses` counts the crashes, failed final saves and failed
loads. `Hang` is a `Send` that does not return (no client has a timeout), `GiveUp` the error it returns
once the signal has cancelled the context; any other `Send` may return an error at any time
(`MayFail`), which the engine logs and forgets. `told` holds the keys whose last admission some channel
received, `missed` those whose firing notice some channel may not have got: its request failed or was
cancelled, or the process ended before it. `moved` says that the defaults have changed. These are
histories: `Outcome` and `Account` keep them beside the engine's steps and stand for no code.
Calls are bounded per process.

## Runs

Passing runs:

| Run | Shows |
|---|---|
| `engine_plain` | two monitors, one of them periodic with two objects, a rule that also names an unregistered channel, a reset at any step: types, `RateLimit`, `ActiveConverges`, `ActiveWasAdmitted`, `ClearedIsTold`, `StatsAgree`, `ResolvedNotFirst` |
| `engine_digest` | digest, failing channels, a queue of one that overflows, a stop: under fairness every accepted report surfaces (`FiringSurfaces`), and `Engine` implements `AlertLifecycle`, whose due notices are all given while the engine runs (`ImplementsFairLifecycle`) |
| `persist_restart` | a crash, a stop, a reset, failing requests and a failing load: types, `SuppressionIsEarned`, `SavedNotRefired`, `SavesNeverGoBack`, `StopRemembers`, `SnapshotConverges` |
| `pods_crashes` | every list of two reasons, pods of one or two containers, two generations of a pod, a watch that breaks once, a reset: types, `CrashIsOpen`, `OpenHasCause`, `SeenIsCurrent`, `CrashIsReported` |
| `watched_kinds` | an object of each kind with limits down to zero, created twice, a gap, a reset, a restart: types, `AlertIsSustained`, `AlertIsCurrent`, `PressureAtOnce`, `ResolvedIsOver`, and `SustainedIsReported` while the object keeps being written |
| `scans` | each periodic monitor, three nodes asked one by one, lists, kubelets and Reconcile calls that fail: types, `MissedIsCounted`, `ScanIsEvidence`, `Settles` |
| `points` | each monitor that never resolves, a gap, a dropped call, a pod that is replaced, a snapshot, a restart with the table handed on or lost: types, `StormIsReal`, `StormIsReported`, `RepeatIsSpaced`, `FailureIsTold` |
| `process_restart` | two processes in turn, ended by a stop or a crash, a final save or a load that fails, two channels without a preferred one, notifiers that fail, a digest, a request that hangs: types, `RateLimitAcross`, `SuppressedWasTold`, `ResolvedHasPrecedent`, `StopEnds` |

Runs that find the code to differ from what the repository says of it (each is a finding in
`PROJECT.json`, with the line quoted):

| Run | The code does |
|---|---|
| `engine_escalation` | suppresses a critical alert because of a warning of the same key that still waits in the digest |
| `engine_suppressed` | resolves an alert that dedupe suppressed: two `[RESOLVED]` for one firing notice |
| `persist_reset` | writes a snapshot from before a reset after the reset was answered; a crash then brings the entries back |
| `watched_silent` | never reports a node that stays down if its last write falls within the grace period: only an event makes the monitor look at the time |

Several properties carry a condition because the code breaks them without it; TLC shows it when the
condition is dropped or the named bound is raised:

* `ActiveWasAdmitted` without `NeverReset`: a reset between `Allow` and the active set's update leaves
  an active alert that dedupe has forgotten. `ClearedIsTold` needs it because a reset forgets active
  alerts without a `[RESOLVED]`, as it says.
* `ClearedIsTold` with a digest: resolutions go out at once and a firing notice waits for the flush,
  which then announces what is over, as the last word on it (`docs/getting-started/resolved-alerts.md:3`
  has the `[RESOLVED]` second).
* `StopRemembers` without `~unsaved`: the final save conflicts with the snapshot loop's last request, is
  not tried again, and a restart notifies again within the window. The same holds of a crash, by design,
  for what the last minute brought.
* `SavedNotRefired` and `SavesNeverGoBack` without `misloads = 0`: when the load fails at startup,
  kpulse goes on with an empty table and overwrites the saved one.
* `OpenHasCause` without `relists = 0`: a deletion that a relist found is ignored; for pods with two
  reasons: `seen` keeps a container's newest reason only, and the alert of the one before stays open
  (`docs/blog/resolved-alerts.md:69` has every alert resolved with its pod).
* `CrashIsOpen` for two containers: the one that recovers resolves the alert of the one that crashes.
* `CrashIsReported` without `resets > 0`: after a reset a crash is reported again only if its pod
  changes.
* `ClearedIsTold` with `Rules <- SplitBySeverity`: `[RESOLVED]` is routed as info, past the channel that
  a severity rule had chosen for the alert.
* `AlertIsSustained` without `gaps = 0`: an event that the watch lost does not clear the stamp; without
  `births <= 1`: an object inherits the stamp of a deleted one of its name.
* `ResolvedIsOver` for Deployments: a condition that was written a moment ago is not yet stuck, and an
  alert that was open is resolved as "rollout completed" (`docs/getting-started/resolved-alerts.md:25`
  names `Progressing=True`).
* `SuppressedWasTold` without `missed`: what a stop finds in the digest queue is never sent, but its
  keys are saved, and the next process suppresses the condition for the rest of the window
  (`docs/getting-started/resolved-alerts.md:50` expects a fresh firing alert). A `Send` that a notifier
  answers with an error (`registry.go:54`) does the same within one process: the error is logged, the
  key stays in the dedupe table, and kpulse is silent about a condition that no channel was told of
  until the window is over.
* `RateLimitAcross` without `losses`: a crash loses what the last snapshot does not hold, and so does a
  final save that conflicts or fails; after a load that fails kpulse knows nothing. Each lets a key
  through once more within the window.
* `ResolvedHasPrecedent` without `moved`: another process has another default channel, which hears
  `[RESOLVED]` of an alert that went elsewhere (`docs/channels/index.md:15`: "the first registered
  notifier wins"); without `missed`: a channel whose firing notice failed, or was cut off by the end of
  the process, hears `[RESOLVED]` first; without the digest queue: the `[RESOLVED]` of a notice that
  still waits there.
* `StopEnds` with `Hanging = {email}`: `email.go` does not look at the context, so nothing ends its
  request and `wg.Wait` does not return.
* `ScanIsEvidence` without `missed`: the claims of a node whose kubelet does not answer, and a claim
  that moves behind the scan's back, are told to be resolved.
* `FailureIsTold` without `drops`: a failed Job or an Event gets one `Submit`, and a full queue drops
  it.
* `StormIsReported` for restarts that came merged in one update, or for exactly `threshold` of them: the
  window's first sample is the baseline, and what came with it does not count.
* `RepeatIsSpaced` allows a notice per window: after a restart beyond the window every failed Job is
  told of again (`docs/monitors/workload.md:28` says "Fires once per Job"). Without `losses`: after a
  crash, a failed final save or a failed load it is told of again within the window.
* The properties of `PodCrashes` and `Watched` are about calls that the queue accepts: there every
  `Submit` and `Resolve` reaches the engine. A full queue drops a call without a word
  (`engine.go:79-82`, `91-94`). A crash or a condition whose `Submit` was dropped is not open until the
  object's next event repeats the call (`CrashIsOpen`, `CrashIsReported`, `SustainedIsReported`,
  `PressureAtOnce`). A dropped `Resolve` is never repeated, for the monitor has forgotten what it
  resolved: the alert stays open (`OpenHasCause`, `AlertIsCurrent`).
* `PressureAtOnce` without `resets = 0`: after a reset the next event reports again, not the reset.

**Bounds.** Counters named `Max...` bound the environment, never the code: how far the clock runs, how
many calls, resets, crashes, stops and pod generations there are. `Window` is two or three units so that
the clock passes it (persistence: also the second that RFC 3339 keeps, `Grain`). `QueueSize` is 256 in
the code; one or two fill up in these runs. Three or four calls are enough for fire, suppress, resolve
and fire again around a scan, and two objects of one monitor are enough for a scan that keeps one alert
and drops another; the ring (`Capacity`, 100 in the code) holds two and is overrun. A stop and a crash
let a restored table be saved and restored again; keys do not meet in `Persistence`, nor pod names in
`PodCrashes`, nor objects in `Watched`, so one of each is enough. In `scans` three nodes leave a claim
room to move behind and ahead of the scan, and the clock goes past the run at which the counting loop
gives up. In `points` the clock passes the window, which two samples of the history span, three restarts
of a container are one more than the higher threshold, and one restart of kpulse, in order or with a
loss (`MaxLosses`), meets every age of the entry. In `process_restart` two calls per process and two
processes make a notice, its suppression by the next process and its resolution, and one loss is enough
to see what a lost table lets through. Limits of zero and two leave room below, at and above the limit.
Runs do not check for deadlock: every bounded environment runs out of calls, and kpulse itself may stop.

**Fairness.** `Engine!FairSpec`: a handler that has begun runs on and every notifier's `Send` returns
(weak fairness of `Handle`; the HTTP notifiers rely on the remote end here, see the hazard at
`registry.go:54`); Go's `select` picks at random among the ready cases, so a case that keeps being ready
is taken in the end (strong fairness of `TakeInput` and `TakeTick`); the ticker ticks; a reset that
began ends. `Persistence!FairSpec`: the snapshot ticker ticks, every request is answered, and one that
is made again and again gets through in the end (strong fairness: any one request may fail).
`PodCrashes!FairSpec` and `Watched!FairSpec`: the informer delivers what it knows, and time goes on.
`Watched!BusySpec` adds that the object is written again and again, which the code does not see to:
`watched_silent` shows what happens without. `Scans!Spec`: the ticker ticks and each request is answered
or fails, and failures end at some time (`MaxLapses`). `PointInTime!Spec`: the informer delivers.
`Process!ProcessSpec`: a handler that is not inside a hanging request runs on, `select` comes to look at
the context (strong fairness of `Stop`), a cancelled request returns and `main` goes on to its end;
nothing says that a request that hangs ends by itself. Nothing is assumed of monitors, users, pods,
crashes or the signal.

## Proofs

Thirty-three theorems hold for every value of the constants, from the modules' named assumptions alone
unless a hypothesis is given below. With them every safety invariant and every action property of the
passing runs is proved; a run shows the same on a small instance.

**The engine** (`EngineProofs`).

* `TypeCorrect`: `Spec => []TypeOK`. The invariant is strengthened by `ResolvesCarryAlert` (a resolve
  call that waits in the channel carries its alert), without which the worker could not take the alert
  of a resolve.
* `RateLimited`: `Spec => []RateLimit`: admissions of a key cost a window each, but for one per reset.
  `RateLimit` says nothing of `last` and is not inductive: `RateInv` ties the number of admissions to
  the time of the last one, or to the resets if there is none.
* `ActiveHasEntry`: `Spec => []ActiveWasAdmitted`. `EntryInv` says that the alert in hand between the
  deduper's critical section and the engine's has its entry too.
* `StatsAreTrue`: `Spec => []StatsAgree`. `Accounted` says of each monitor how the ring, the two
  counters and the last event belong together, also while the ring is not full; counting over the ring
  needs lemmas on what appending a message and dropping the oldest ones do to it.
* `WorkerInv` (what the worker's place says of its job, the queue's forms and the message being sent)
  and `FirstRuleRoutes` (of the rules that match a message the first one decides) are lemmas that the
  other proofs stand on. The engine's assumption on the rules is only that they name known channels.

**From a call to a channel** (`DeliveryProofs`).

* `ActiveIsLatest`: `Spec => []ActiveConverges`. `Told` follows a call on its way: what was said last of
  a key is the newest call in the queue that is about it; with none there, what the worker's job is
  still going to do to it (`Remaining`); with nothing left of that, the active set. The property itself
  is the last case alone.
* `ImplementsLifecycle`: `Spec => Lifecycle!LifeSpec`, the refinement of `AlertLifecycle`. Each action
  is one of its steps or leaves its variables alone; `DueParts` takes the notices that are due apart by
  the place where they wait (the digest queue, the tracking step, the message being sent, the
  resolutions to come), so that a step has to be followed in the places it touches only. A flush that
  gives several notices at once is one `Give`; a key that was queued again meanwhile stays due.
* `FiringIsFirst`: `Plain => (Spec => ResolvedNotFirst)`, and `EndIsTold`: `Plain => (Spec =>
  []ClearedIsTold)`. `Plain` is: no notifier fails, nothing is cancelled, no digest, no rule names a
  severity. Each part is needed, as the list above shows for the digest and for severities: a failed
  notice is not tried again. `engine_plain` satisfies it. `FirstInv` says who hears, or is about to
  hear, of a key with an entry in the table; `EndInv` that whoever heard last that a key fires has its
  end coming: it is active, waits to be resolved, or is being resolved and this channel was not tried
  yet.

**The dedupe table and the ConfigMap** (`PersistenceProofs`).

* `TypeCorrect`: `Spec => []TypeOK`, in which a dead process holds no table and makes no request.
* `OnlyEarned`: `Spec => []SuppressionIsEarned`: no entry in memory, in the ConfigMap or on its way is
  later than the notification it stands for. It needs that no notification lies ahead of the clock
  (`EarnedInv`), or letting a key through could put older copies ahead of it; and `TruncatedType`, that
  dropping part of a second never makes a time later.
* `SavesAreOrdered`: `Spec => SavesNeverGoBack`, and `SavedIsHeeded`: `Spec => SavedNotRefired`. Both
  rest on `SavesInv`: object and writers hold earlier copies of the table; the final save runs alone, or
  beside a rest of the loop's last one; and a writer that may still get through (`MayWrite`: the object
  has not changed since its Get, or that Get is to come) holds nothing older than the object does.
* `StopsAreRemembered`: `Spec => StopRemembers`. `RememberInv` follows a notification from the table
  through the final save into the ConfigMap and back.

  `SavesInv` and `RememberInv` hold while there was no reset and no load failed (`Quiet`), as the
  properties themselves say.

**The monitors.**

* `PodCrashesProofs`: `TypeCorrect`; `CrashesAreOpen`: `Spec => []CrashIsOpen`; `NothingStaleIsSeen`:
  `Spec => []SeenIsCurrent`; `OpenAlertsHaveCause`: `Spec => []OpenHasCause`. `WorldInv` says that a pod
  that exists is the last one born under its name; `CurrentInv` what each entry of `seen` may be behind
  by while a change is on its way; `CauseInv` that an open alert has the entry that will resolve it.
* `WatchedProofs`: `TypeCorrect`; `OpenIsCurrent`: `Spec => []AlertIsCurrent`. The strengthening,
  `Knows`, says that a monitor can still resolve every alert it opened: it is in `seen`, or, for the two
  timers that keep no `seen`, there is a stamp. Without it a handler could miss what it has to resolve.
  One lemma per handler shows that it keeps `Knows` and leaves open only what the object holds.
  `ResolvedTruly`: `Spec => ResolvedIsOver`, from the same invariant and `Kept`: but for Deployments, a
  handler takes back no alert whose condition it sees. `PressureReported`: `Spec => []PressureAtOnce`.
  `OpenIsSustained`: `Spec => []AlertIsSustained`. `HeldInv` ties the history to what the object shows
  of itself, `SinceInv` says that a stamp is no older than the condition and goes with it, `OpenInv`
  what an open alert is worth while a version is on its way; `Greatest` gives the eldest age, at which
  the model's ages stop, as the greatest of finitely many limits.
* `ScansProofs`: `TypeCorrect`; `ScansAreEvidence`: `Spec => ScanIsEvidence`. The strengthening,
  `Evidence`, speaks of every moment of a scan: what is known of an object was shown, and if nothing is
  known, then there was nothing, or the object was missed, or it is on nodes that are still to be asked.
  The last case is what makes it inductive, and it is gone when no node is left. `MissedCounted`:
  `Spec => []MissedIsCounted`, about the counting loop of `cronjob_missed`, a recursive function. That
  such a function exists and what it returns is shown for this loop with the least number principle,
  from the library's theorem that `<` is well-founded: the loop stops at the least number at which it
  may, and the runs it has counted are the multiples of `Period` up to there.
* `PointInTimeProofs`: `TypeCorrect`; `StormsAreReal`: `Spec => []StormIsReal`; `StormsAreReported`:
  `Spec => []StormIsReported`; `RepeatsAreSpaced`: `Spec => []RepeatIsSpaced`. First it is shown that
  what `Trimmed` drops of an ordered history is a prefix, and the samples that are too old. `HistInv`
  and `BeforeInv` relate a sample to the counts of its time, `BumpsInv` gives each restart of the window
  a sample and counts the later ones on top of it. `PaidInv` is the notices' price in windows: the last
  one is paid for by its entry, or, when the entry was lost, the next one by the loss.

**The process** (`ProcessProofs`). The steps of a running process are steps of `Engine`, whose lemmas
are used.

* `ProcessTypeCorrect`: `ProcessSpec => []ProcessTypeOK`.
* `RateLimitedAcross`: `ProcessSpec => []RateLimitAcross`. `AcrossInv` ties the admissions of a key to
  its entry in the running process's table, or in the ConfigMap between two processes, or to a loss (a
  crash, a final save or a load that failed) that has not been used up.
* `SuppressedIsTold`: `Reached => (ProcessSpec => SuppressedWasTold)`. `Reached` asks for a channel with
  a notifier for every message: kpulse starts without any, and then suppresses what nobody was told of.
  `ToldAcross` says of every entry, in memory or saved, that its key was told, or missed by a channel,
  or is owed. Saved entries count beside those in memory, for a load that failed leaves the older ones
  in the ConfigMap.
* `EndHasPrecedent`: `Straight => (ProcessSpec => ResolvedHasPrecedent)`. `Straight`: a key's notices go
  one way, because no rule names a severity and there are no rules if there is a digest (which is routed
  under a monitor name of its own). `FirstAcross` carries who has heard of a key from the process that
  told to the one that resolves, for channels that missed nothing; `EntryAcross` that what is active or
  being resolved has its entry.
  `process_restart` satisfies `Reached` and `Straight`.

**Only model-checked** is what takes fairness: `FiringSurfaces`, `ImplementsFairLifecycle` (its safety
half is proved, its fairness half is not), `SnapshotConverges`, `CrashIsReported`,
`SustainedIsReported`, `Settles`, `FailureIsTold`, `StopEnds`. Liveness needs ENABLED, which the prover
does not know. Nor can induction over data be used, so recursive definitions other than the counting
loop are avoided where there is something to prove: `PodCrashes!Handle` and `PointInTime!Trimmed` say
what the code's loops leave, not how they go.

## Plan

In this order; all are done but the end of the last.

1. `Engine` with its parts and `AlertLifecycle`.
2. `Persistence`.
3. `PodCrashes`, the first monitor.
4. `NodeConditions`, `RolloutStuck`, `SinceTimer` and `Watched`.
5. `PointInTime` and `Scans`, the other seven monitors.
6. `Process`: the engine, its restarts, its shutdown and a notifier that hangs; the default channels.
7. `Namespaces`, which `Scans` and `PointInTime` use.
8. Proofs: every safety property of the passing runs (done); next, that `Process` restarts what
   `Persistence` saves, by a refinement between the two, and a bound on the notices of a digest.

## Not modelled

Message formatting and the HTTP and SMTP exchanges of the sinks, YAML and JSON decoding, the UI's assets
and read-only views, command-line flags and client construction: they keep no state that anything above
depends on. Two hazards have no property for that reason and are listed with a note: a negative scan
interval, which passes validation and makes `time.NewTicker` panic, and the dedupe table, which never
drops an entry and is written to one ConfigMap of at most 1 MiB.
