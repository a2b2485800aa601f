------------------------------- MODULE Process -------------------------------
(***************************************************************************)
(* cmd/kpulse/main.go: the engine in its process.  main restores the       *)
(* dedupe table from ConfigMap/kpulse-state, picks the default channels    *)
(* and starts the engine and the snapshot loop; on a signal it waits for   *)
(* the engine, saves the table and returns.  What is in the engine's       *)
(* queues and its active set dies with the process, and the next one       *)
(* begins with the saved table only.                                       *)
(*                                                                         *)
(* A save is one step here, taken when the table is read: the final one    *)
(* may fail, for whatever reason Persistence shows, and a snapshot that    *)
(* fails is none.  Nobody resets, and the clock counts the seconds that    *)
(* saved times keep.  A notifier's Send may hang: none of the clients has  *)
(* a timeout.                                                              *)
(***************************************************************************)
EXTENDS Engine

CONSTANTS
    Hanging,            \* channels whose Send may not return
    IgnoreContext,      \* notifiers that do not look at the context: e-mail
    MaxStarts, MaxLosses       \* bounds of the model

ASSUME ProcessAssumption ==
    /\ Hanging \subseteq Registered /\ IgnoreContext \subseteq Channels
    /\ MaxStarts \in Nat /\ MaxLosses \in Nat

VARIABLES
    up,         \* the process runs
    saved,      \* the table in the ConfigMap
    hung,       \* the channel whose Send does not return, if any
    told,       \* history: keys whose last admission some channel heard of
    missed,     \* history: keys whose last admission some channel may have missed
    moved,      \* history: the default channels were others before
    starts,     \* history, for the bound
    losses      \* history: what failed to hand the table on

history == <<told, missed, moved>>
process == <<up, saved, hung, moved, starts, losses>>
pvars == <<vars, process, told, missed>>

ProcessInit ==
    /\ Init
    /\ up = TRUE
    /\ saved = Forgotten(Keys)
    /\ hung = {}
    /\ told = {} /\ missed = {} /\ moved = FALSE
    /\ starts = 1 /\ losses = 0

-----------------------------------------------------------------------------
\* The keys whose firing notice was decided on and has not been given.
Owed == {k \in Keys : <<"firing", k>> \in Due}

\* The keys that the message in Registry.Send says are firing.
Notice == IF msg.state = "firing" THEN msg.keys ELSE {}

\* What came of the request to one channel: its keys were told, or a notifier
\* returned an error.
Outcome(c) ==
    \/ /\ Receives(c)
       /\ told' = told \cup Notice /\ UNCHANGED missed
    \/ /\ Misses(c)
       /\ missed' = (IF c \in Registered THEN missed \cup Notice ELSE missed)
       /\ UNCHANGED told

\* What a step of the engine adds to the histories: an admission starts anew,
\* a request that returned counts by its outcome.
Account ==
    LET admits == {k \in Keys : admitted'[k] # admitted[k]}
    IN IF pc = "send" /\ chans # {}
         THEN \E c \in chans : chans' = chans \ {c} /\ Outcome(c)
         ELSE told' = told \ admits /\ missed' = missed \ admits

Work == TakeInput \/ TakeTick \/ Handle

\* The engine's goroutine, unless it is inside a Send that does not return.
Run ==
    /\ up /\ hung = {}
    /\ Work
    /\ Account
    /\ UNCHANGED process

\* The other goroutines of the process.
Beside ==
    /\ up
    /\ \/ \E a \in FireInputs : Submit(a) \/ Resolve(a)
       \/ \E s \in ScanInputs : Reconcile(s)
       \/ Ticker \/ Cancel
    /\ UNCHANGED <<process, told, missed>>

\* time.Now goes on whether kpulse runs or not.
Time == Clock /\ UNCHANGED <<process, told, missed>>

\* A request hangs.
Hang(c) ==
    /\ up /\ hung = {}
    /\ pc = "send" /\ c \in chans \cap Hanging
    /\ hung' = {c}
    /\ UNCHANGED <<vars, up, saved, history, starts, losses>>

\* Mutant: requests are made without the context.
GiveUpNever ==
    /\ up /\ hung # {} /\ cancelled /\ Hanging \subseteq IgnoreContext
    /\ hung' = {}
    /\ chans' = chans \ hung
    /\ missed' = missed \cup Notice
    /\ UNCHANGED <<env, dedupe, queues, active, digestQ, stats, pc, job, todo, toResolve, msg,
                   heard, up, saved, told, moved, starts, losses>>

\* The signal cancels the request: Send returns an error.
GiveUp ==
    /\ up /\ hung # {} /\ cancelled /\ hung \cap IgnoreContext = {}
    /\ hung' = {}
    /\ chans' = chans \ hung
    /\ missed' = missed \cup Notice
    /\ UNCHANGED <<env, dedupe, queues, active, digestQ, stats, pc, job, todo, toResolve, msg,
                   heard, up, saved, told, moved, starts, losses>>

\* snapshotLoop: the table as it is, whatever the engine is doing.
Snapshot ==
    /\ up /\ ~cancelled
    /\ saved' = last
    /\ UNCHANGED <<vars, up, hung, history, starts, losses>>

-----------------------------------------------------------------------------
\* What is in memory is gone.
Memoryless ==
    /\ active' = {} /\ digestQ' = <<>> /\ stats' = NewStats
    /\ in' = <<>> /\ tick' = FALSE /\ cancelled' = FALSE
    /\ pc' = "idle" /\ job' = NoJob /\ todo' = <<>> /\ toResolve' = {}
    /\ msg' = NoMsg /\ chans' = {}
    /\ resetPc' = "idle"
    /\ latest' = [k \in Keys |-> "unknown"]
    /\ calls' = 0
    /\ hung' = {}

\* The process ends with the table of the ConfigMap as `table`.
EndWith(table) ==
    /\ up /\ up' = FALSE
    /\ saved' = table
    /\ missed' = missed \cup Owed
    /\ Memoryless
    /\ last' = Forgotten(Keys)
    /\ UNCHANGED <<now, defaults, heard, admitted, resets, told, moved, starts>>

\* The table is not handed on: what the next process will know may be older.
Lose == losses < MaxLosses /\ losses' = losses + 1

\* Mutant: main returns without the final save.
ExitUnsaved == /\ pc = "stopped" /\ EndWith(saved)
               /\ UNCHANGED losses

\* wg.Wait has returned: the final save, which is not tried again if it fails
\* or meets a conflict, and the end.
Exit ==
    /\ pc = "stopped"
    /\ \/ EndWith(last) /\ UNCHANGED losses
       \/ EndWith(saved) /\ Lose

\* The process is killed; what the last snapshot wrote is all there is.
Crash == EndWith(saved) /\ Lose

\* A new process: only the dedupe table is brought back, and if Load fails,
\* not even that.
Start ==
    /\ ~up /\ starts < MaxStarts
    /\ up' = TRUE /\ starts' = starts + 1
    /\ \/ last' = Restored(last, saved) /\ UNCHANGED losses
       \/ UNCHANGED last /\ Lose
    /\ defaults' \in DefaultChannels(Registered, Preferred)
    /\ moved' = (moved \/ defaults' # defaults)
    /\ UNCHANGED <<now, heard, admitted, active, digestQ, stats, queues, worker, cancelled,
                   resetPc, latest, calls, resets, saved, hung, told, missed>>

ProcessNext ==
    \/ Run \/ Beside \/ Time \/ Snapshot
    \/ (\E c \in Channels : Hang(c)) \/ GiveUp
    \/ Exit \/ Crash \/ Start

(***************************************************************************)
(* A handler that has begun runs on; Run's select picks among the ready    *)
(* cases at random and so comes to look at the context; a request whose    *)
(* context is cancelled returns; main goes on once the engine has.         *)
(***************************************************************************)
ProcessFairness ==
    /\ WF_pvars(Handle /\ Run) /\ SF_pvars(Stop /\ Run)
    /\ WF_pvars(GiveUp) /\ WF_pvars(Exit)

ProcessSpec == ProcessInit /\ [][ProcessNext]_pvars /\ ProcessFairness

-----------------------------------------------------------------------------
(* Properties.                                                             *)

\* Types of the process; a process that is down keeps no request.
ProcessTypeOK ==
    /\ TypeOK
    /\ up \in BOOLEAN /\ moved \in BOOLEAN
    /\ saved \in [Keys -> Times]
    /\ hung \subseteq Hanging
    /\ hung # {} => up /\ pc = "send"
    /\ told \subseteq Keys /\ missed \subseteq Keys
    /\ starts \in Nat /\ losses \in Nat

\* A stop whose final save gets through and a start whose Load does add nothing
\* to what a key is let through.  A crash, a final save that fails and a Load
\* that fails cost at most one admission each, although the ConfigMap keeps
\* older entries all the while (snapshotLoop, main, Deduper.Restore).
RateLimitAcross ==
    \A k \in Keys : (admitted[k] - 1 - losses) * Window <= now

\* No process stays silent about a condition because it or an earlier one had
\* decided to tell of it, unless a channel did not get that notice: its Send
\* returned an error or was cancelled, or the process ended before it, with
\* the notice in the digest queue or under way (handleFire asks Allow first,
\* and an error of Registry.Send is only logged).
SuppressedWasTold ==
    [][(pc = "fire" /\ pc' = "mark") =>
          Key(Head(todo)) \in told \cup missed \cup Owed]_pvars

\* A channel first hears of a condition that it resolved only if the firing
\* notice waits in the digest queue, if a channel did not get it (an error, or
\* the end of a process), or if the default channel changed with the process
\* (handleResolve, handleReconcile, defaultChannels).
ResolvedHasPrecedent ==
    [][\A c \in Channels, k \in Keys :
          heard'[c][k] = "resolved" =>
             heard[c][k] # "none" \/ k \in KeysOf(Batch) \cup missed \/ moved]_pvars

\* The signal ends the process, although a request hangs (main's wg.Wait).
StopEnds == (up /\ cancelled) ~> ~up
=============================================================================
