----------------------------- MODULE Persistence -----------------------------
(***************************************************************************)
(* internal/state and the parts of main around it: the dedupe table, its   *)
(* copy in ConfigMap/kpulse-state, and the three writers of that copy: the *)
(* snapshot loop, the final save of main and POST /reset-dedupe.  Each is a *)
(* Get followed by an Update or a Create, and the API server refuses an    *)
(* Update of an object that changed since the Get.  kpulse may be stopped, *)
(* crash and be started again; the Deployment runs one instance at a time. *)
(***************************************************************************)
EXTENDS Deduper

CONSTANTS
    Keys,
    Grain,          \* units of the clock in the second that RFC 3339 keeps
    MayFail,        \* a request to the API server may fail
    MaxTime, MaxResets, MaxCrashes, MaxStops, MaxMisloads    \* bounds of the model

ASSUME PersistenceAssumption ==
    /\ Grain \in Nat \ {0}
    /\ MayFail \in BOOLEAN
    /\ MaxTime \in Nat /\ MaxMisloads \in Nat
    /\ MaxResets \in Nat /\ MaxCrashes \in Nat /\ MaxStops \in Nat

Writers == {"loop", "final", "clear"}
Tables == [Keys -> Times]
Nothing == Forgotten(Keys)

VARIABLES
    now,        \* the clock
    table,      \* Deduper.last
    phase,      \* down, up, draining (ctx is done), saving (wg.Wait returned)
    cm,         \* the ConfigMap: does it exist, and what its data holds
    pc,         \* the next request of each writer: idle, get, put, create
    data,       \* what each writer is about to write
    fresh,      \* nobody changed the ConfigMap since the writer's Get
    notified,   \* history: when each key was last let through, by any process
    mayKnow,    \* history: the keys a reset has not made kpulse forget
    unsaved,    \* history: a process ended without its final save
    resets, crashes, stops, misloads    \* history, for the bounds

store == <<cm, fresh>>
writers == <<pc, data>>
history == <<notified, mayKnow, unsaved>>
bounds == <<resets, crashes, stops, misloads>>
vars == <<now, table, phase, store, writers, history, bounds>>

Init ==
    /\ now = 0
    /\ table = Nothing
    /\ phase = "down"
    /\ cm \in [exists : BOOLEAN, data : {Nothing}]
    /\ pc = [w \in Writers |-> "idle"]
    /\ data = [w \in Writers |-> Nothing]
    /\ fresh = [w \in Writers |-> FALSE]
    /\ notified = Nothing
    /\ mayKnow = Keys
    /\ unsaved = FALSE
    /\ resets = 0 /\ crashes = 0 /\ stops = 0 /\ misloads = 0

-----------------------------------------------------------------------------
\* Mutant: times are rounded up to the second.
Rounded(t) ==
    [k \in Keys |-> IF t[k] = Never THEN Never
                    ELSE Grain * ((t[k] + Grain - 1) \div Grain)]

\* Mutant: a missing entry is formatted too.
TruncatedAll(t) == [k \in Keys |-> Grain * (t[k] \div Grain)]

\* Save writes every time in RFC 3339, which drops the part of a second.
Truncated(t) ==
    [k \in Keys |-> IF t[k] = Never THEN Never ELSE Grain * (t[k] \div Grain)]

\* Mutant: every call is made with a context that nothing cancels.
Undying(w) == phase # "down"

\* The snapshot loop's requests carry the context that the signal cancels.
Alive(w) == phase = "up" \/ (w # "loop" /\ phase # "down")

\* The writer's call ends; a Clear that did not get through answers 500, and
\* a final save that did not is not tried again.
Return(w, ok) ==
    /\ pc' = [pc EXCEPT ![w] = "idle"]
    /\ mayKnow' = IF w = "clear" /\ ~ok THEN Keys ELSE mayKnow
    /\ unsaved' = (unsaved \/ (w = "final" /\ ~ok))

\* A write changes the object's resourceVersion unless it changes nothing.
Write(c) ==
    /\ cm' = c
    /\ fresh' = IF c = cm THEN fresh ELSE [w \in Writers |-> FALSE]

Reply(w) == UNCHANGED <<now, table, phase, data, notified, bounds>>

\* Mutant: the object is read from a copy made when the process started.
GetCached(w) ==
    /\ pc[w] = "get" /\ Alive(w)
    /\ pc' = [pc EXCEPT ![w] = "put"]
    /\ UNCHANGED <<store, mayKnow, unsaved>>
    /\ Reply(w)

\* ConfigMaps.Get of Save and Clear.  Clear of a missing object is done.
Get(w) ==
    /\ pc[w] = "get" /\ Alive(w)
    /\ \/ /\ cm.exists
          /\ pc' = [pc EXCEPT ![w] = "put"]
          /\ fresh' = [fresh EXCEPT ![w] = TRUE]
          /\ UNCHANGED <<mayKnow, unsaved>>
       \/ /\ ~cm.exists
          /\ IF w = "clear" THEN Return(w, TRUE)
             ELSE /\ pc' = [pc EXCEPT ![w] = "create"]
                  /\ UNCHANGED <<mayKnow, unsaved>>
          /\ UNCHANGED fresh
    /\ UNCHANGED cm
    /\ Reply(w)

\* ConfigMaps.Update, refused when the object changed since the Get.  A request
\* that was sent before the signal may still be served after it.
Put(w) ==
    /\ pc[w] = "put" /\ phase # "down"
    /\ IF fresh[w] THEN Write([exists |-> TRUE, data |-> data[w]]) ELSE UNCHANGED store
    /\ Return(w, fresh[w])
    /\ Reply(w)

\* ConfigMaps.Create, refused when somebody else was first.
Create(w) ==
    /\ pc[w] = "create" /\ phase # "down"
    /\ IF cm.exists THEN UNCHANGED store ELSE Write([exists |-> TRUE, data |-> data[w]])
    /\ Return(w, ~cm.exists)
    /\ Reply(w)

\* A request fails, or the signal cancels it, and leaves the object alone.  An
\* error after the object was written leaves what Put and Create leave.
FailRequest(w) ==
    /\ pc[w] # "idle" /\ phase # "down"
    /\ MayFail \/ ~Alive(w)
    /\ Return(w, FALSE)
    /\ UNCHANGED store
    /\ Reply(w)

-----------------------------------------------------------------------------
\* Mutant: wg.Wait does not wait for the engine.
WorkingOn == phase # "down"

\* The engine works until wg.Wait returns.
Working == phase \in {"up", "draining"}

\* Deduper.Allow lets k through.
Fire(k) ==
    /\ Working
    /\ Allowed(table, k, now)
    /\ table' = Admitted(table, k, now)
    /\ notified' = [notified EXCEPT ![k] = now]
    /\ mayKnow' = mayKnow \cup {k}
    /\ UNCHANGED <<now, phase, store, writers, unsaved, bounds>>

BeginSave(w) ==
    /\ pc[w] = "idle"
    /\ pc' = [pc EXCEPT ![w] = "get"]
    /\ data' = [data EXCEPT ![w] = Truncated(table)]

\* snapshotLoop receives a tick: Save(ctx, Snapshot()).
SnapshotTick ==
    /\ phase = "up"
    /\ BeginSave("loop")
    /\ UNCHANGED <<now, table, phase, store, history, bounds>>

\* handleReset: Engine.Reset empties the table, then Clear begins.
Reset ==
    /\ phase # "down" /\ pc["clear"] = "idle"
    /\ resets < MaxResets
    /\ resets' = resets + 1
    /\ table' = Nothing
    /\ mayKnow' = {}
    /\ pc' = [pc EXCEPT !["clear"] = "get"]
    /\ data' = [data EXCEPT !["clear"] = Nothing]
    /\ UNCHANGED <<now, phase, store, notified, unsaved, crashes, stops, misloads>>

\* SIGTERM: ctx is done.
Cancel ==
    /\ phase = "up" /\ stops < MaxStops
    /\ stops' = stops + 1
    /\ phase' = "draining"
    /\ UNCHANGED <<now, table, store, writers, history, resets, crashes, misloads>>

\* wg.Wait returns - it does not wait for the snapshot loop - and the final
\* Save begins.
BeginFinalSave ==
    /\ phase = "draining"
    /\ phase' = "saving"
    /\ BeginSave("final")
    /\ UNCHANGED <<now, table, store, history, bounds>>

\* The process is gone, and with it the table and every writer.
Die ==
    /\ phase' = "down"
    /\ table' = Nothing
    /\ pc' = [w \in Writers |-> "idle"]
    /\ data' = [w \in Writers |-> Nothing]
    /\ fresh' = [w \in Writers |-> FALSE]
    /\ mayKnow' = IF pc["clear"] # "idle" THEN Keys ELSE mayKnow
    /\ UNCHANGED <<now, cm, notified>>

\* main returns after the final save, whatever came of it.
Exit ==
    /\ phase = "saving" /\ pc["final"] = "idle"
    /\ Die
    /\ UNCHANGED <<unsaved, bounds>>

Crash ==
    /\ phase # "down" /\ crashes < MaxCrashes
    /\ crashes' = crashes + 1
    /\ unsaved' = TRUE
    /\ Die
    /\ UNCHANGED <<resets, stops, misloads>>

\* main: Load and Restore.  When Load fails, main goes on with an empty table.
Start ==
    /\ phase = "down"
    /\ phase' = "up"
    /\ \/ /\ table' = Restored(Nothing, cm.data)
          /\ UNCHANGED misloads
       \/ /\ misloads < MaxMisloads
          /\ misloads' = misloads + 1
          /\ table' = Nothing
    /\ UNCHANGED <<now, store, writers, history, resets, crashes, stops>>

Clock ==
    /\ now < MaxTime
    /\ now' = now + 1
    /\ UNCHANGED <<table, phase, store, writers, history, bounds>>

Step(w) == Get(w) \/ Put(w) \/ Create(w) \/ FailRequest(w)

Next ==
    \/ \E w \in Writers : Step(w)
    \/ \E k \in Keys : Fire(k)
    \/ SnapshotTick \/ Reset \/ Cancel \/ BeginFinalSave \/ Exit
    \/ Crash \/ Start \/ Clock

Spec == Init /\ [][Next]_vars

\* The snapshot ticker ticks, every request is answered, and a request that is
\* made again and again gets through in the end.
FairSpec ==
    /\ Spec /\ WF_vars(SnapshotTick)
    /\ \A w \in Writers : WF_vars(Step(w)) /\ SF_vars(Get(w)) /\ SF_vars(Put(w) \/ Create(w))

-----------------------------------------------------------------------------
(* Properties.                                                             *)

\* Every variable keeps its type, and a dead process holds nothing.
TypeOK ==
    /\ now \in Nat
    /\ table \in Tables
    /\ phase \in {"down", "up", "draining", "saving"}
    /\ cm \in [exists : BOOLEAN, data : Tables]
    /\ pc \in [Writers -> {"idle", "get", "put", "create"}]
    /\ data \in [Writers -> Tables]
    /\ fresh \in [Writers -> BOOLEAN]
    /\ notified \in Tables
    /\ mayKnow \subseteq Keys
    /\ unsaved \in BOOLEAN
    /\ resets \in Nat /\ crashes \in Nat /\ stops \in Nat /\ misloads \in Nat
    /\ phase = "down" => table = Nothing /\ \A w \in Writers : pc[w] = "idle"

\* No entry is ever later than the notification it stands for, in memory, in
\* the ConfigMap or on its way there: through any number of saves, resets,
\* crashes and restores an alert is suppressed for the window at most (Allow,
\* Save, Load, Restore).
Earned(t) == \A k \in Keys : t[k] <= notified[k]
SuppressionIsEarned ==
    Earned(table) /\ Earned(cm.data) /\ \A w \in Writers : Earned(data[w])

\* A key is not let through while the ConfigMap says that it was less than a
\* window ago (Load and Restore at startup, against every order of saves,
\* stops and crashes).  A load that failed restores nothing.
SavedNotRefired ==
    [][resets = 0 /\ misloads = 0 =>
          \A k \in Keys : notified'[k] # notified[k] =>
              cm.data[k] = Never \/ now - cm.data[k] >= Window]_vars

\* A save never replaces what the ConfigMap holds by something older, although
\* the loop and the final save run beside each other (main does not wait for
\* the snapshot loop).
SavesNeverGoBack ==
    [][resets = 0 /\ misloads = 0 =>
          \A k \in Keys : cm.data[k] <= cm'.data[k]]_vars

\* A restart after an orderly stop whose final save got through remembers every
\* notification: a key is not let through within the window, less the part of a
\* second that is dropped (final save of main).
StopRemembers ==
    [][resets = 0 /\ misloads = 0 /\ ~unsaved =>
          \A k \in Keys : notified'[k] # notified[k] =>
              notified[k] = Never \/ now - notified[k] > Window - Grain]_vars

\* What a reset that was answered 200 made kpulse forget stays forgotten: an
\* entry in memory is one of an alert let through since (handleReset).
ResetForgets == \A k \in Keys : table[k] # Never => k \in mayKnow

\* While kpulse is up, the ConfigMap comes to hold the table again and again:
\* refused and outdated writes, a Clear's among them, are made up for.
SnapshotConverges == []<>(phase # "up" \/ cm.data = Truncated(table))
=============================================================================
