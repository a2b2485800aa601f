------------------------------- MODULE Engine -------------------------------
(***************************************************************************)
(* internal/engine: the goroutine of Engine.Run between the monitors, which *)
(* call Submit, Resolve and Reconcile, and the notification channels.      *)
(*                                                                         *)
(* One action is one step between two points where another goroutine can   *)
(* get in: a critical section of Engine.mu or of Deduper.mu, a receive in  *)
(* Run's select, the return of one notifier's Send.  The HTTP handler's    *)
(* Reset runs beside it and takes two such steps.                          *)
(***************************************************************************)
EXTENDS Alert, Router, Deduper, Stats, FiniteSets

CONSTANTS
    Registered,         \* channels with a notifier in the registry
    Preferred,          \* Slack, if its configuration says default: true, or none
    MayFail,            \* a notifier may return an error
    ResolutionEnabled, DigestEnabled,
    DigestSeverities,
    DigestInterval,     \* only whether it is positive matters
    QueueSize,          \* capacity of Engine.in; engine.New makes 256
    FireInputs,         \* alerts the monitors Submit and Resolve
    ScanInputs,         \* reconcile inputs the periodic monitors send
    MayStop,            \* the context may be cancelled
    MaxTime, MaxCalls, MaxResets    \* bounds of the model, not of the code

Inputs == [kind : {"none", "fire", "resolve", "reconcile", "flush"},
           monitor : MonitorNames, firing : Seq(Alerts)]

ASSUME EngineAssumption ==
    /\ Digest \notin Monitors
    /\ Registered \subseteq Channels
    /\ Len(Rules) \in Nat /\ \A i \in 1..Len(Rules) : Rules[i].channels \subseteq Channels
    /\ MayFail \in BOOLEAN /\ MayStop \in BOOLEAN
    /\ ResolutionEnabled \in BOOLEAN /\ DigestEnabled \in BOOLEAN
    /\ DigestSeverities \subseteq Severities
    /\ DigestInterval \in Nat
    /\ QueueSize \in Nat \ {0}
    /\ FireInputs \subseteq Alerts
    /\ ScanInputs \subseteq Inputs
    /\ \A s \in ScanInputs : s.kind = "reconcile" /\ s.monitor \in Monitors
    /\ MaxTime \in Nat /\ MaxCalls \in Nat /\ MaxResets \in Nat

FireInput(a) == [kind |-> "fire", monitor |-> a.monitor, firing |-> <<a>>]
ResolveInput(a) == [kind |-> "resolve", monitor |-> a.monitor, firing |-> <<a>>]
FlushJob == [kind |-> "flush", monitor |-> Digest, firing |-> <<>>]
NoJob == [kind |-> "none", monitor |-> Digest, firing |-> <<>>]

VARIABLES
    now,         \* the clock the deduper reads
    defaults,    \* Router.defaults
    last,        \* Deduper.last
    active,      \* Engine.active, as the set of its values
    digestQ,     \* Engine.digestQ
    stats,       \* Engine.stats
    in,          \* the channel Engine.in
    tick,        \* a tick waits in the ticker's one-slot channel
    cancelled,   \* ctx is done
    pc,          \* where the engine goroutine is
    job,         \* the input it is handling
    todo,        \* firing alerts of job not handled yet
    toResolve,   \* handleReconcile's toResolve, not sent yet
    msg, chans,  \* the message in Registry.Send and the channels left to try
    resetPc,     \* where Engine.Reset is
    heard,       \* environment: what each channel last received of a key
    latest,      \* environment: what the last accepted call said of a key
    admitted,    \* history: how often Allow let a key through
    calls, resets \* history: calls accepted or dropped, Resets done

worker == <<pc, job, todo, toResolve, msg, chans>>
sending == <<toResolve, msg, chans>>
dedupe == <<last, admitted>>
queues == <<in, tick>>
engine == <<dedupe, active, digestQ, stats, worker>>
env == <<now, defaults, cancelled, resetPc, latest, calls, resets>>
vars == <<engine, env, queues, heard>>

-----------------------------------------------------------------------------
Init ==
    /\ now = 0
    /\ defaults \in DefaultChannels(Registered, Preferred)
    /\ last = Forgotten(Keys)
    /\ active = {}
    /\ digestQ = <<>>
    /\ stats = NewStats
    /\ in = <<>>
    /\ tick = FALSE /\ cancelled = FALSE
    /\ pc = "idle" /\ job = NoJob /\ todo = <<>> /\ toResolve = {}
    /\ msg = NoMsg /\ chans = {}
    /\ resetPc = "idle"
    /\ heard = [c \in Channels |-> [k \in Keys |-> "none"]]
    /\ latest = [k \in Keys |-> "clear"]
    /\ admitted = [k \in Keys |-> 0]
    /\ calls = 0 /\ resets = 0

-----------------------------------------------------------------------------
(* The monitors' calls: a send that gives up when the channel is full.     *)

Mentioned(i) == {Key(i.firing[n]) : n \in DOMAIN i.firing}

\* What an input says of a key: firing, clear, or nothing.
Says(i, k) ==
    CASE i.kind \in {"fire", "reconcile"} /\ k \in Mentioned(i) -> "firing"
      [] i.kind = "resolve" /\ k \in Mentioned(i) -> "clear"
      [] i.kind = "reconcile" /\ k \notin Mentioned(i) /\ k[1] = i.monitor -> "clear"
      [] OTHER -> "nothing"

Enqueue(i) ==
    /\ calls < MaxCalls
    /\ calls' = calls + 1
    /\ IF Len(in) < QueueSize
         THEN /\ in' = Append(in, i)
              /\ latest' = [k \in Keys |->
                    IF Says(i, k) = "nothing" THEN latest[k] ELSE Says(i, k)]
         ELSE UNCHANGED <<in, latest>>
    /\ UNCHANGED <<engine, now, defaults, tick, cancelled, resetPc, heard, resets>>

Submit(a) == Enqueue(FireInput(a))
Resolve(a) == Enqueue(ResolveInput(a))
Reconcile(scan) == Enqueue(scan)

-----------------------------------------------------------------------------
(* Steps of Engine.Run's goroutine.                                        *)

\* Mutant: the loop of handleReconcile runs once too often.
AfterFireOnceMore(j, rest) ==
    IF rest # <<>> \/ j.kind = "reconcile" THEN "fire" ELSE "idle"

\* The rest of the loop body of handleReconcile, or the end of the handler.
AfterFire(j, rest) ==
    IF rest # <<>> THEN "fire"
    ELSE IF j.kind = "reconcile" /\ ResolutionEnabled THEN "diff" ELSE "idle"

Goto(j, rest, label) ==
    /\ pc' = label
    /\ todo' = rest
    /\ job' = IF label = "idle" THEN NoJob ELSE j

\* Registry.Send(ctx, m, Router.Channels(m)) begins.
BeginSend(m) == msg' = m /\ chans' = ChannelsFor(m, defaults)

TakeInput ==
    /\ pc = "idle" /\ in # <<>>
    /\ in' = Tail(in)
    /\ LET i == Head(in) IN
         Goto(i, i.firing, IF i.kind = "resolve" THEN "resolve" ELSE AfterFire(i, i.firing))
    /\ UNCHANGED <<env, sending, dedupe, active, digestQ, stats, tick, heard>>

\* handleFire: Deduper.Allow.
Allow ==
    /\ pc = "fire"
    /\ LET k == Key(Head(todo)) IN
         IF Allowed(last, k, now)
           THEN /\ last' = Admitted(last, k, now)
                /\ admitted' = [admitted EXCEPT ![k] = @ + 1]
                /\ pc' = "track"
           ELSE /\ pc' = "mark"
                /\ UNCHANGED <<last, admitted>>
    /\ UNCHANGED <<env, sending, queues, active, digestQ, stats, job, todo, heard>>

\* e.active[a.Key()] = a
Tracked(a) ==
    IF ResolutionEnabled THEN {b \in active : Key(b) # Key(a)} \cup {a} ELSE active

\* Mutant: a suppressed alert is dropped without a trace.
MarkNothing ==
    /\ pc = "mark"
    /\ Goto(job, Tail(todo), AfterFire(job, Tail(todo)))
    /\ UNCHANGED <<env, sending, dedupe, queues, active, digestQ, stats, heard>>

\* handleFire, suppressed: remember it is active, send nothing.
Mark ==
    /\ pc = "mark"
    /\ active' = Tracked(Head(todo))
    /\ Goto(job, Tail(todo), AfterFire(job, Tail(todo)))
    /\ UNCHANGED <<env, sending, dedupe, queues, digestQ, stats, heard>>

InDigest(a) == DigestEnabled /\ a.severity \in DigestSeverities

\* handleFire, admitted: into the digest queue, or out to the channels.
Track ==
    /\ pc = "track"
    /\ LET a == Head(todo) IN
         /\ active' = Tracked(a)
         /\ IF InDigest(a)
              THEN /\ digestQ' = Append(digestQ, a)
                   /\ Goto(job, Tail(todo), AfterFire(job, Tail(todo)))
                   /\ UNCHANGED <<msg, chans>>
              ELSE /\ BeginSend(FiringMsg(a))
                   /\ Goto(job, Tail(todo), "send")
                   /\ UNCHANGED digestQ
    /\ UNCHANGED <<env, dedupe, queues, stats, toResolve, heard>>

\* Mutant: a resolve is passed on although nothing was firing.
FiringOrHint(a) ==
    IF Key(a) \in KeysOf(active) THEN {b \in active : Key(b) = Key(a)} ELSE {a}

\* e.active[a.Key()], if present
Firing(a) == {b \in active : Key(b) = Key(a)}

\* handleResolve's critical section, and the message it builds.
HandleResolve ==
    /\ pc = "resolve"
    /\ LET hit == Firing(Head(todo)) IN
         IF ~ResolutionEnabled \/ hit = {}
           THEN /\ Goto(job, <<>>, "idle")
                /\ UNCHANGED <<active, msg, chans>>
           ELSE /\ active' = active \ hit
                /\ \E prev \in hit : BeginSend(ResolvedMsg(prev))
                /\ Goto(job, <<>>, "send")
    /\ UNCHANGED <<env, dedupe, queues, digestQ, stats, toResolve, heard>>

\* Mutant: a scan takes every monitor's alerts for its own.
MissingOfAny(j) == {b \in active : Key(b) \notin Mentioned(j)}

\* handleReconcile's critical section: this monitor's keys the scan left out.
Missing(j) == {b \in active : b.monitor = j.monitor /\ Key(b) \notin Mentioned(j)}

\* Mutant: handleReconcile returns after its first send.
NoneLeft(prev) == {}

\* The alerts of toResolve after prev.
Left(prev) == Missing(job) \ {prev}

Diff ==
    /\ pc = "diff"
    /\ active' = active \ Missing(job)
    /\ IF Missing(job) = {}
         THEN /\ Goto(job, <<>>, "idle")
              /\ UNCHANGED <<toResolve, msg, chans>>
         ELSE \E prev \in Missing(job) :
                /\ BeginSend(ResolvedMsg(prev))
                /\ toResolve' = Left(prev)
                /\ Goto(job, <<>>, "send")
    /\ UNCHANGED <<env, dedupe, queues, digestQ, stats, heard>>

Batch == {digestQ[n] : n \in DOMAIN digestQ}

\* Run receives a tick: flushDigest takes the whole batch.
TakeTick ==
    /\ pc = "idle" /\ tick
    /\ tick' = FALSE
    /\ digestQ' = <<>>
    /\ IF digestQ = <<>>
         THEN UNCHANGED <<pc, job, todo, msg, chans>>
         ELSE /\ BeginSend(DigestMsg(Batch))
              /\ Goto(FlushJob, <<>>, "send")
    /\ UNCHANGED <<env, dedupe, active, stats, in, toResolve, heard>>

\* The channel gets the message.
Receives(c) ==
    /\ c \in Registered
    /\ heard' = [heard EXCEPT ![c] =
                   [k \in Keys |-> IF k \in msg.keys THEN msg.state ELSE @[k]]]

\* Its Send returns an error, or the registry does not know the name.  Sends
\* are made with Run's context, so they may fail once it is cancelled.
Misses(c) ==
    /\ c \notin Registered \/ MayFail \/ cancelled
    /\ heard' = heard

\* One round of Registry.Send's loop: an error does not keep the other
\* channels from being tried.
SendTo(c) ==
    /\ pc = "send" /\ c \in chans
    /\ chans' = chans \ {c}
    /\ Receives(c) \/ Misses(c)
    /\ UNCHANGED <<env, dedupe, queues, active, digestQ, stats, pc, job, todo, toResolve, msg>>

\* Registry.Send returns; recordSent counts the attempt whatever came of it.
FinishSend ==
    /\ pc = "send" /\ chans = {}
    /\ stats' = Record(stats, msg)
    /\ IF toResolve # {}
         THEN \E prev \in toResolve :
                /\ BeginSend(ResolvedMsg(prev))
                /\ toResolve' = toResolve \ {prev}
                /\ UNCHANGED <<pc, job, todo>>
         ELSE /\ msg' = NoMsg
              /\ Goto(job, todo, IF msg.state = "resolved" THEN "idle"
                                 ELSE AfterFire(job, todo))
              /\ UNCHANGED <<toResolve, chans>>
    /\ UNCHANGED <<env, dedupe, queues, active, digestQ, heard>>

\* Run returns; whatever is in the queues stays there.
Stop ==
    /\ pc = "idle" /\ cancelled
    /\ pc' = "stopped"
    /\ UNCHANGED <<env, sending, dedupe, queues, active, digestQ, stats, job, todo, heard>>

-----------------------------------------------------------------------------
(* The clock, the digest ticker, the signal, and POST /reset-dedupe.       *)

Clock ==
    /\ now < MaxTime
    /\ now' = now + 1
    /\ UNCHANGED <<engine, queues, defaults, cancelled, resetPc, heard, latest, calls, resets>>

\* Mutant: the shortest interval makes no ticker either.
TickerTooSlow ==
    /\ DigestEnabled /\ DigestInterval > 1
    /\ pc # "stopped" /\ ~tick
    /\ tick' = TRUE
    /\ UNCHANGED <<engine, env, in, heard>>

\* Run makes no ticker for an interval of zero.
Ticker ==
    /\ DigestEnabled /\ DigestInterval > 0
    /\ pc # "stopped" /\ ~tick
    /\ tick' = TRUE
    /\ UNCHANGED <<engine, env, in, heard>>

Cancel ==
    /\ MayStop /\ ~cancelled
    /\ cancelled' = TRUE
    /\ UNCHANGED <<engine, queues, now, defaults, resetPc, heard, latest, calls, resets>>

ResetActive ==
    /\ resetPc = "idle" /\ resets < MaxResets
    /\ resetPc' = "dedupe"
    /\ active' = {}
    /\ latest' = [k \in Keys |-> "unknown"]
    /\ UNCHANGED <<worker, dedupe, queues, now, defaults, digestQ, stats, cancelled, heard, calls, resets>>

ResetDedupe ==
    /\ resetPc = "dedupe"
    /\ resetPc' = "idle"
    /\ last' = Forgotten(Keys)
    /\ resets' = resets + 1
    /\ UNCHANGED <<worker, queues, now, defaults, active, digestQ, stats, cancelled, heard, latest, admitted, calls>>

-----------------------------------------------------------------------------
Handle == \/ Allow \/ Mark \/ Track \/ HandleResolve \/ Diff
          \/ (\E c \in Channels : SendTo(c)) \/ FinishSend \/ Stop

Environment ==
    \/ \E a \in FireInputs : Submit(a) \/ Resolve(a)
    \/ \E s \in ScanInputs : Reconcile(s)
    \/ Clock \/ Ticker \/ Cancel \/ ResetActive \/ ResetDedupe

Next == TakeInput \/ TakeTick \/ Handle \/ Environment

(***************************************************************************)
(* A handler that has begun runs on, and every notifier's Send returns.    *)
(* Go's select picks among the ready cases at random, so a case that is    *)
(* ready again and again is taken: strong fairness of the two receives.    *)
(***************************************************************************)
Fairness ==
    /\ WF_vars(Handle) /\ SF_vars(TakeInput) /\ SF_vars(TakeTick)
    /\ WF_vars(Ticker) /\ WF_vars(ResetDedupe)

Spec == Init /\ [][Next]_vars
FairSpec == Spec /\ Fairness

-----------------------------------------------------------------------------
(* Properties.                                                             *)

\* Every variable keeps its type; active is a map, and the worker's locals
\* hold what its place in the code says they hold.
TypeOK ==
    /\ now \in Nat
    /\ defaults \subseteq Channels
    /\ last \in [Keys -> Times]
    /\ active \subseteq Alerts
    /\ digestQ \in Seq(Alerts)
    /\ stats \in StatsRecords
    /\ in \in Seq(Inputs)
    /\ tick \in BOOLEAN /\ cancelled \in BOOLEAN
    /\ pc \in {"idle", "fire", "mark", "track", "resolve", "diff", "send", "stopped"}
    /\ job \in Inputs
    /\ todo \in Seq(Alerts)
    /\ pc \in {"fire", "mark", "track", "resolve"} => todo # <<>>
    /\ toResolve \subseteq Alerts
    /\ msg \in Messages
    /\ chans \subseteq Channels
    /\ resetPc \in {"idle", "dedupe"}
    /\ heard \in [Channels -> [Keys -> {"none", "firing", "resolved"}]]
    /\ latest \in [Keys -> {"unknown", "firing", "clear"}]
    /\ admitted \in [Keys -> Nat]
    /\ calls \in Nat /\ resets \in Nat

Quiet == pc = "idle" /\ in = <<>>
NeverReset == resets = 0 /\ resetPc = "idle"

\* Once the queue has drained, the active set is what the accepted calls said
\* last of each key: suppression, scans of other monitors and the order of
\* handling never leave a stale entry or lose one (Engine.active).
ActiveConverges ==
    Quiet /\ ResolutionEnabled =>
        \A k \in Keys : /\ latest[k] = "firing" => k \in KeysOf(active)
                        /\ latest[k] = "clear" => k \notin KeysOf(active)

\* However calls, scans and resets interleave, a key is let through at most
\* once per window, and once more for each reset (Deduper.Allow, Reset).
RateLimit ==
    \A k \in Keys : (admitted[k] - 1 - resets) * Window <= now

\* A key that is active has a dedupe entry: its condition was notified, or it
\* was suppressed because of an earlier notification (handleFire).  A reset
\* that meets a handleFire between its two halves breaks this.
ActiveWasAdmitted ==
    NeverReset => \A a \in active : last[Key(a)] # Never

\* The first thing a channel hears of a condition is never that it resolved
\* (handleResolve and handleReconcile against handleFire).
ResolvedNotFirst ==
    [][\A c \in Channels, k \in Keys :
          heard'[c][k] = "resolved" => heard[c][k] # "none"]_vars

\* A channel is told that a condition resolved only when the last thing it
\* heard of it was that it fires (handleResolve, handleReconcile).
ResolvedAnswersFiring ==
    [][msg.state = "resolved" =>
          \A c \in (chans \ chans') \cap Registered, k \in msg.keys :
              heard[c][k] = "firing"]_vars

\* Once the queue has drained, no channel's last word on a cleared condition
\* is that it fires: every firing notice got its [RESOLVED], unless a reset
\* forgot the alert (handleResolve, handleReconcile).
ClearedIsTold ==
    Quiet /\ NeverReset /\ ResolutionEnabled =>
        \A c \in Channels, k \in Keys : latest[k] = "clear" => heard[c][k] # "firing"

\* What the UI shows is consistent: the ring holds the newest attempts, the
\* counters account for each of them, and a monitor that is listed shows its
\* newest entry as its last event (statsRecorder.record).
StatsAgree ==
    LET r == Recent(stats)
        Of(m, state) == Cardinality({n \in DOMAIN r : r[n].monitor = m /\ r[n].state = state})
    IN /\ Len(r) <= Capacity
       /\ \A m \in MonitorNames :
             /\ (m \in Known(stats)) = (stats.lastEvent[m] # "none")
             /\ Of(m, "firing") <= stats.fires[m] /\ Of(m, "resolved") <= stats.resolves[m]
             /\ Len(r) < Capacity => /\ Of(m, "firing") = stats.fires[m]
                                     /\ Of(m, "resolved") = stats.resolves[m]
             /\ \A n \in DOMAIN r :
                   r[n].monitor = m /\ (\A i \in 1..(n - 1) : r[i].monitor # m)
                     => stats.lastEvent[m] = r[n].state

\* A critical alert is never suppressed on account of a notification of the
\* same key that still waits in the digest queue (handleFire).
CriticalNotBehindDigest ==
    [][(pc = "fire" /\ pc' = "mark" /\ Head(todo).severity = "critical")
         => Key(Head(todo)) \notin KeysOf(Batch)]_vars

\* An accepted firing report reaches the active set, unless a later call takes
\* it back, a reset forgets it or the engine stops (Run, handleFire).
FiringSurfaces ==
    \A k \in Keys : (latest[k] = "firing" /\ ResolutionEnabled)
        ~> (k \in KeysOf(active) \/ latest[k] # "firing" \/ pc = "stopped")

-----------------------------------------------------------------------------
(* The engine implements AlertLifecycle.                                   *)

Due ==
    {<<"firing", k>> : k \in KeysOf(Batch)}
    \cup (IF pc = "track" THEN {<<"firing", Key(Head(todo))>>} ELSE {})
    \cup (IF pc = "send" THEN {<<msg.state, k>> : k \in msg.keys} ELSE {})
    \cup {<<"resolved", Key(a)>> : a \in toResolve}

\* recordSent leaves the message given last at the head of the feed.
Given ==
    IF stats.recent = <<>> THEN {}
    ELSE LET m == Recent(stats)[1] IN {<<m.state, k>> : k \in m.keys}

Lifecycle == INSTANCE AlertLifecycle WITH
    Conditions <- Keys, open <- KeysOf(active), due <- Due, given <- Given,
    up <- (pc # "stopped")

\* No notification that was decided on is lost between dedupe, the digest
\* queue, the reconcile loop and the registry, none is made up, and each that
\* is due is given while the engine runs.
ImplementsFairLifecycle == Lifecycle!LifeFairSpec
=============================================================================
