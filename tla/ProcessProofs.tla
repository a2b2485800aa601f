--------------------------- MODULE ProcessProofs ---------------------------
(***************************************************************************)
(* Theorems about Process, for every value of its constants: types, the    *)
(* dedupe window across stops, losses and restarts, and what channels     *)
(* were told of the keys that a later process suppresses or resolves.      *)
(* They stand on the lemmas about the engine's own steps.                  *)
(***************************************************************************)
EXTENDS Process, EngineProofs

\* The names for groups of variables stand for their tuples.
USE DEF worker, sending, dedupe, queues, engine, env, history, process

\* TypeInv and the types of what the process adds.
ProcessInv ==
    /\ TypeInv
    /\ ProcessTypeOK

-----------------------------------------------------------------------------
\* The steps of the engine's goroutine and of its callers are steps of Engine.
LEMMA RunIsEngine == Run => [Next]_vars
BY DEF Run, Work, Next

LEMMA BesideIsEngine == Beside => [Next]_vars
BY DEF Beside, Next, Environment

LEMMA TimeIsEngine == Time => [Next]_vars
BY DEF Time, Next, Environment

\* A process that ends leaves an engine behind that has its types.
LEMMA EndTypeInv ==
    ASSUME TypeInv, NEW table, EndWith(table)
    PROVE  TypeInv'
<1>1. /\ active' \subseteq Alerts /\ digestQ' \in Seq(Alerts) /\ in' \in Seq(Inputs)
      /\ todo' \in Seq(Alerts) /\ toResolve' \subseteq Alerts /\ chans' \subseteq Channels
  BY DEF EndWith, Memoryless
<1>2. stats' \in StatsRecords
  BY DEF EndWith, Memoryless, NewStats, StatsRecords, Events
<1>3. job' \in Inputs /\ msg' \in Messages
  BY InputTypes, MessageTypes DEF EndWith, Memoryless
<1>4. last' \in [Keys -> Times] /\ latest' \in [Keys -> {"unknown", "firing", "clear"}]
  BY DEF EndWith, Memoryless, Forgotten, Times
<1>5. tick' \in BOOLEAN /\ cancelled' \in BOOLEAN
  BY DEF EndWith, Memoryless
<1>6. ResolvesCarryAlert'
  BY DEF EndWith, Memoryless, ResolvesCarryAlert
<1> QED
  BY <1>1, <1>2, <1>3, <1>4, <1>5, <1>6 DEF EndWith, Memoryless, TypeInv, TypeOK

LEMMA StartTypeInv == ASSUME TypeInv, saved \in [Keys -> Times], Start PROVE TypeInv'
<1>1. last' \in [Keys -> Times]
  BY DEF Start, Restored, TypeInv, TypeOK
<1>2. defaults' \subseteq Channels
  BY DefaultsType DEF Start
<1>3. tick' \in BOOLEAN /\ cancelled' \in BOOLEAN
  BY DEF Start, TypeInv, TypeOK
<1> QED
  BY <1>1, <1>2, <1>3 DEF Start, TypeInv, TypeOK, ResolvesCarryAlert

LEMMA GiveUpTypeInv == ASSUME TypeInv, GiveUp PROVE TypeInv'
<1>1. tick' \in BOOLEAN /\ cancelled' \in BOOLEAN
  BY DEF GiveUp, TypeInv, TypeOK
<1> QED
  BY <1>1 DEF GiveUp, TypeInv, TypeOK, ResolvesCarryAlert

LEMMA SameTypeInv == ASSUME TypeInv, UNCHANGED vars PROVE TypeInv'
BY NextTypeInv

LEMMA ProcessTypeInv == ProcessInv /\ [ProcessNext]_pvars => TypeInv'
<1> SUFFICES ASSUME ProcessInv, [ProcessNext]_pvars PROVE TypeInv'
  OBVIOUS
<1>1. CASE Run \/ Beside \/ Time
  BY <1>1, RunIsEngine, BesideIsEngine, TimeIsEngine, NextTypeInv DEF ProcessInv
<1>2. CASE Snapshot \/ (\E c \in Channels : Hang(c)) \/ UNCHANGED pvars
  <2>1. UNCHANGED vars
    BY <1>2 DEF Snapshot, Hang, pvars
  <2> QED
    BY <2>1, SameTypeInv DEF ProcessInv
<1>3. CASE GiveUp
  BY <1>3, GiveUpTypeInv DEF ProcessInv
<1>4. CASE Exit \/ Crash
  BY <1>4, EndTypeInv DEF Exit, Crash, ProcessInv
<1>5. CASE Start
  BY <1>5, StartTypeInv DEF ProcessInv, ProcessTypeOK
<1> QED
  BY <1>1, <1>2, <1>3, <1>4, <1>5 DEF ProcessNext

-----------------------------------------------------------------------------
LEMMA InitProcessInv == ProcessInit => ProcessInv
<1> SUFFICES ASSUME ProcessInit PROVE ProcessInv
  OBVIOUS
<1>1. TypeInv
  BY InitTypeInv DEF ProcessInit
<1>2. saved \in [Keys -> Times]
  BY DEF ProcessInit, Forgotten, Times
<1> QED
  BY <1>1, <1>2 DEF ProcessInit, ProcessInv, ProcessTypeOK, TypeInv

\* The histories hold keys.
LEMMA AccountType ==
    ASSUME TypeInv, told \subseteq Keys, missed \subseteq Keys, Account
    PROVE  told' \subseteq Keys /\ missed' \subseteq Keys
<1>1. Notice \subseteq Keys
  BY DEF TypeInv, TypeOK, Messages, Notice
<1> QED
  BY <1>1 DEF Account, Outcome

\* No step outside of Run moves the engine's goroutine.
LEMMA BesideKeepsPc == ASSUME Beside \/ Time PROVE pc' = pc
BY DEF Beside, Time, Submit, Resolve, Reconcile, Enqueue, Ticker, Cancel, Clock

LEMMA NextProcessInv == ProcessInv /\ [ProcessNext]_pvars => ProcessInv'
<1> SUFFICES ASSUME ProcessInv, [ProcessNext]_pvars PROVE ProcessTypeOK'
  BY ProcessTypeInv DEF ProcessInv
<1>0. TypeOK'
  BY ProcessTypeInv DEF TypeInv
<1> USE DEF ProcessInv
<1>1. CASE Run
  <2>1. told' \subseteq Keys /\ missed' \subseteq Keys
    BY <1>1, AccountType DEF Run, ProcessTypeOK
  <2> QED
    BY <1>0, <1>1, <2>1 DEF Run, ProcessTypeOK
<1>2. CASE Beside \/ Time
  <2>1. pc' = pc /\ UNCHANGED <<process, told, missed>>
    BY <1>2, BesideKeepsPc DEF Beside, Time
  <2> QED
    BY <1>0, <2>1 DEF ProcessTypeOK
<1>3. CASE Snapshot
  <2>1. saved' \in [Keys -> Times]
    BY <1>3 DEF Snapshot, TypeInv, TypeOK
  <2>2. pc' = pc
    BY <1>3 DEF Snapshot, vars
  <2> QED
    BY <1>0, <1>3, <2>1, <2>2 DEF Snapshot, ProcessTypeOK
<1>4. ASSUME NEW c \in Channels, Hang(c) PROVE ProcessTypeOK'
  <2>1. hung' \subseteq Hanging /\ up' = up /\ up /\ pc' = "send"
    BY <1>4 DEF Hang, vars
  <2> QED
    BY <1>0, <1>4, <2>1 DEF Hang, ProcessTypeOK
<1>5. CASE GiveUp
  <2>1. missed' \subseteq Keys
    BY <1>5 DEF GiveUp, Notice, ProcessTypeOK, TypeInv, TypeOK, Messages
  <2> QED
    BY <1>0, <1>5, <2>1 DEF GiveUp, ProcessTypeOK
<1>6. CASE Exit \/ Crash
  <2>1. PICK table \in [Keys -> Times] : EndWith(table)
    BY <1>6 DEF Exit, Crash, ProcessTypeOK, TypeInv, TypeOK
  <2>2. missed' \subseteq Keys /\ saved' \in [Keys -> Times] /\ hung' = {} /\ up' \in BOOLEAN
    BY <2>1 DEF EndWith, Memoryless, Owed, ProcessTypeOK
  <2>3. losses' \in Nat
    BY <1>6 DEF Exit, Crash, Lose, ProcessTypeOK
  <2> QED
    BY <1>0, <2>1, <2>2, <2>3 DEF EndWith, ProcessTypeOK
<1>7. CASE Start
  <2>1. moved' \in BOOLEAN /\ up' \in BOOLEAN
    BY <1>7 DEF Start
  <2>2. hung' = {} /\ losses' \in Nat
    BY <1>7 DEF Start, Lose, ProcessTypeOK
  <2> QED
    BY <1>0, <1>7, <2>1, <2>2 DEF Start, ProcessTypeOK
<1>8. CASE UNCHANGED pvars
  <2>1. pc' = pc
    BY <1>8 DEF pvars, vars
  <2> QED
    BY <1>0, <1>8, <2>1 DEF pvars, ProcessTypeOK
<1> QED
  BY <1>1, <1>2, <1>3, <1>4, <1>5, <1>6, <1>7, <1>8 DEF ProcessNext

LEMMA AlwaysProcessInv == ProcessSpec => []ProcessInv
BY InitProcessInv, NextProcessInv, PTL DEF ProcessSpec

\* The process keeps its types: whenever it ends, and whatever a request that
\* hangs leaves undone, the next one begins with an engine that has its own.
THEOREM ProcessTypeCorrect == ProcessSpec => []ProcessTypeOK
BY AlwaysProcessInv, PTL DEF ProcessInv

-----------------------------------------------------------------------------
(* The dedupe window across processes.  The number of admissions is tied   *)
(* to the entry of the key, in the running process's table or in the       *)
(* ConfigMap; or, when the entry was lost, there is a loss to pay for      *)
(* the next admission.                                                     *)

Paid(k, entry) ==
    \/ entry # Never /\ (admitted[k] - 1 - losses) * Window <= entry
    \/ (admitted[k] - losses) * Window <= now

AcrossInv ==
    \A k \in Keys : /\ last[k] <= now /\ saved[k] <= now
                    /\ up => Paid(k, last[k])
                    /\ ~up => last[k] = Never /\ Paid(k, saved[k])

\* What the arithmetic needs to know of a key.
LEMMA KeyFacts ==
    ASSUME ProcessInv, NEW k \in Keys
    PROVE  /\ last[k] \in Times /\ saved[k] \in Times
           /\ admitted[k] \in Nat /\ losses \in Nat /\ now \in Nat /\ Window \in Nat
           /\ (admitted[k] - 1 - losses) * Window \in Int
           /\ (admitted[k] - losses) * Window = (admitted[k] - 1 - losses) * Window + Window
<1>1. /\ last[k] \in Times /\ saved[k] \in Times
      /\ admitted[k] \in Nat /\ losses \in Nat /\ now \in Nat /\ Window \in Nat
  BY WindowAssumption DEF ProcessInv, ProcessTypeOK, TypeOK
<1> QED
  BY <1>1

\* What a process keeps or loses, nobody is let through by it.
LEMMA PaidLater ==
    ASSUME ProcessInv, NEW k \in Keys, NEW e \in Times, Paid(k, e), e <= now,
           admitted' = admitted, losses' = losses, now' \in Nat, now <= now'
    PROVE  Paid(k, e)' /\ e <= now'
<1>1. e \in Int
  BY DEF Times, Never
<1> QED
  BY <1>1, KeyFacts DEF Paid

\* A loss pays for one admission, whatever entry is left.
LEMMA PaidByLoss ==
    ASSUME ProcessInv, NEW k \in Keys, NEW e \in Times, Paid(k, e), e <= now,
           admitted' = admitted, losses' = losses + 1, now' = now, NEW l
    PROVE  Paid(k, l)'
<1>1. e \in Int
  BY DEF Times, Never
<1>2. (admitted[k] - 1 - losses) * Window <= now
  <2>1. CASE (admitted[k] - 1 - losses) * Window <= e
    BY <1>1, <2>1, KeyFacts
  <2>2. CASE (admitted[k] - losses) * Window <= now
    BY <2>2, KeyFacts
  <2> QED
    BY <2>1, <2>2 DEF Paid
<1>3. admitted'[k] - losses' = admitted[k] - 1 - losses
  <2>1. admitted[k] \in Int /\ losses \in Int
    BY KeyFacts
  <2> QED
    BY <2>1
<1>4. (admitted'[k] - losses') * Window <= now'
  BY <1>2, <1>3
<1> QED
  BY <1>4 DEF Paid

\* One admission costs a window, or the loss of the entry.
LEMMA PaidByWindow ==
    ASSUME ProcessInv, NEW k \in Keys, Paid(k, last[k]), Allowed(last, k, now)
    PROVE  (admitted[k] + 1 - 1 - losses) * Window <= now
<1>1. admitted[k] + 1 - 1 - losses = admitted[k] - losses
  BY KeyFacts
<1>2. CASE (admitted[k] - losses) * Window <= now
  BY <1>1, <1>2
<1>3. CASE last[k] # Never /\ (admitted[k] - 1 - losses) * Window <= last[k]
  <2>1. now - last[k] >= Window /\ last[k] \in Nat
    BY <1>3, KeyFacts DEF Allowed, Times
  <2> QED
    BY <1>1, <1>3, <2>1, KeyFacts
<1> QED
  BY <1>2, <1>3 DEF Paid

LEMMA AllowAcross ==
    ASSUME ProcessInv, AcrossInv, up, Allow, UNCHANGED process
    PROVE  AcrossInv'
<1>1. PICK key \in Keys : key = Key(Head(todo))
  BY HeadTailTodo DEF Allow, ProcessInv, TypeInv, TypeOK
<1>2. /\ last \in [Keys -> Times] /\ admitted \in [Keys -> Nat]
      /\ now' = now /\ now \in Nat
  BY DEF Allow, ProcessInv, TypeInv, TypeOK
<1>3. CASE ~Allowed(last, key, now)
  <2>1. last' = last /\ admitted' = admitted
    BY <1>1, <1>3 DEF Allow
  <2> QED
    BY <1>2, <2>1 DEF AcrossInv, Paid
<1>4. CASE Allowed(last, key, now)
  <2>1. /\ last' = [last EXCEPT ![key] = now]
        /\ admitted' = [admitted EXCEPT ![key] = @ + 1]
    BY <1>1, <1>4 DEF Allow, Admitted
  <2> SUFFICES ASSUME NEW k \in Keys
               PROVE  last'[k] <= now /\ Paid(k, last[k])'
    BY <1>2 DEF AcrossInv
  <2>2. CASE k # key
    <3>1. last'[k] = last[k] /\ admitted'[k] = admitted[k]
      BY <1>2, <2>1, <2>2
    <3> QED
      BY <1>2, <3>1 DEF AcrossInv, Paid
  <2>3. CASE k = key
    <3>1. last'[k] = now /\ admitted'[k] = admitted[k] + 1
      BY <1>1, <1>2, <2>1, <2>3
    <3>2. now # Never
      BY <1>2 DEF Never
    <3>3. (admitted[k] + 1 - 1 - losses) * Window <= now
      BY <1>4, <2>3, PaidByWindow DEF AcrossInv
    <3>4. admitted'[k] - 1 - losses' = admitted[k] + 1 - 1 - losses
      BY <3>1, KeyFacts
    <3>5. (admitted'[k] - 1 - losses') * Window <= last'[k]
      BY <3>1, <3>3, <3>4
    <3> QED
      BY <1>2, <3>1, <3>2, <3>5 DEF Paid
  <2> QED
    BY <2>2, <2>3
<1> QED
  BY <1>3, <1>4

\* A step after which the tables are what they were.
LEMMA OtherAcross ==
    ASSUME ProcessInv, AcrossInv, UNCHANGED <<last, admitted, up, saved, losses>>,
           now' \in Nat, now <= now'
    PROVE  AcrossInv'
<1> SUFFICES ASSUME NEW k \in Keys
             PROVE  /\ last[k] <= now' /\ saved[k] <= now'
                    /\ up => Paid(k, last[k])'
                    /\ ~up => last[k] = Never /\ Paid(k, saved[k])'
  BY DEF AcrossInv
<1>1. last[k] \in Int /\ saved[k] \in Int /\ now \in Int /\ now' \in Int
  BY KeyFacts DEF Times, Never
<1>2. last[k] <= now' /\ saved[k] <= now'
  BY <1>1 DEF AcrossInv
<1>3. up => Paid(k, last[k])'
  <2> SUFFICES ASSUME up PROVE Paid(k, last[k])'
    OBVIOUS
  <2>1. PICK e \in Times : e = last[k]
    BY KeyFacts
  <2>2. Paid(k, e)'
    BY <2>1, PaidLater DEF AcrossInv
  <2> QED
    BY <2>1, <2>2 DEF Paid
<1>4. ~up => last[k] = Never /\ Paid(k, saved[k])'
  <2> SUFFICES ASSUME ~up PROVE last[k] = Never /\ Paid(k, saved[k])'
    OBVIOUS
  <2>1. PICK e \in Times : e = saved[k]
    BY KeyFacts
  <2>2. Paid(k, e)'
    BY <2>1, PaidLater DEF AcrossInv
  <2> QED
    BY <2>1, <2>2 DEF Paid, AcrossInv
<1> QED
  BY <1>2, <1>3, <1>4

LEMMA EndAcross == ASSUME ProcessInv, AcrossInv, Exit \/ Crash PROVE AcrossInv'
<1> SUFFICES ASSUME NEW k \in Keys
             PROVE  last'[k] <= now' /\ saved'[k] <= now' /\ last'[k] = Never /\ Paid(k, saved[k])'
  BY DEF AcrossInv, Exit, Crash, EndWith
<1>1. up /\ now' = now /\ last'[k] = Never /\ admitted' = admitted
  BY DEF Exit, Crash, EndWith, Forgotten
<1>2. last'[k] <= now'
  BY <1>1, KeyFacts DEF Never
<1>3. CASE EndWith(last) /\ UNCHANGED losses
  <2>1. saved' = last
    BY <1>3 DEF EndWith
  <2> QED
    BY <1>1, <1>2, <1>3, <2>1 DEF AcrossInv, Paid
<1>4. CASE EndWith(saved) /\ Lose
  <2>1. saved' = saved /\ losses' = losses + 1
    BY <1>4 DEF Lose, EndWith
  <2>2. PICK e \in Times : e = last[k]
    BY KeyFacts
  <2>3. PICK l : l = saved[k]
    OBVIOUS
  <2>4. Paid(k, l)'
    BY <1>1, <2>1, <2>2, PaidByLoss DEF AcrossInv
  <2> QED
    BY <1>1, <1>2, <2>1, <2>3, <2>4 DEF AcrossInv, Paid
<1> QED
  BY <1>3, <1>4 DEF Exit, Crash

LEMMA StartAcross == ASSUME ProcessInv, AcrossInv, Start PROVE AcrossInv'
<1> SUFFICES ASSUME NEW k \in Keys
             PROVE  last'[k] <= now' /\ saved'[k] <= now' /\ Paid(k, last[k])'
  BY DEF AcrossInv, Start
<1>1. ~up /\ UNCHANGED <<now, admitted, saved>>
  BY DEF Start
<1>2. CASE last' = Restored(last, saved) /\ UNCHANGED losses
  <2>1. last'[k] = saved[k]
    BY <1>1, <1>2 DEF Restored, AcrossInv, ProcessInv, TypeInv, TypeOK
  <2>2. losses' = losses
    BY <1>2
  <2>3. saved[k] <= now /\ Paid(k, saved[k])
    BY <1>1 DEF AcrossInv
  <2>4. Paid(k, last[k])'
    BY <1>1, <2>1, <2>2, <2>3 DEF Paid
  <2>5. last'[k] <= now' /\ saved'[k] <= now'
    BY <1>1, <2>1, <2>3
  <2> QED
    BY <2>4, <2>5
<1>3. CASE UNCHANGED last /\ Lose
  <2>1. losses' = losses + 1
    BY <1>3 DEF Lose
  <2>2. PICK e \in Times : e = saved[k]
    BY KeyFacts
  <2>3. PICK l : l = last[k]
    OBVIOUS
  <2>4. Paid(k, l)'
    BY <1>1, <2>1, <2>2, PaidByLoss DEF AcrossInv
  <2> QED
    BY <1>1, <1>3, <2>3, <2>4 DEF AcrossInv, Paid
<1> QED
  BY <1>2, <1>3 DEF Start

LEMMA NextAcross == ProcessInv /\ AcrossInv /\ [ProcessNext]_pvars => AcrossInv'
<1> SUFFICES ASSUME ProcessInv, AcrossInv, [ProcessNext]_pvars PROVE AcrossInv'
  OBVIOUS
<1>0. now \in Nat
  BY DEF ProcessInv, ProcessTypeOK, TypeOK
<1>1. CASE Run /\ Allow
  BY <1>1, AllowAcross DEF Run
<1>2. CASE Run /\ ~Allow
  <2>1. UNCHANGED <<last, admitted, now, up, saved, losses>>
    BY <1>2 DEF Run, Work, TakeInput, TakeTick, Handle, Mark, Track, HandleResolve, Diff,
                SendTo, FinishSend, Stop
  <2> QED
    BY <1>0, <2>1, OtherAcross
<1>3. CASE Beside
  <2>1. UNCHANGED <<last, admitted, now, up, saved, losses>>
    BY <1>3 DEF Beside, Submit, Resolve, Reconcile, Enqueue, Ticker, Cancel
  <2> QED
    BY <1>0, <2>1, OtherAcross
<1>4. CASE Time
  <2>1. UNCHANGED <<last, admitted, up, saved, losses>> /\ now' = now + 1
    BY <1>4 DEF Time, Clock
  <2> QED
    BY <1>0, <2>1, OtherAcross
<1>5. CASE Snapshot
  BY <1>5 DEF Snapshot, vars, AcrossInv, Paid
<1>6. CASE GiveUp \/ (\E c \in Channels : Hang(c)) \/ UNCHANGED pvars
  <2>1. UNCHANGED <<last, admitted, now, up, saved, losses>>
    BY <1>6 DEF GiveUp, Hang, pvars, vars
  <2> QED
    BY <1>0, <2>1, OtherAcross
<1> QED
  BY <1>1, <1>2, <1>3, <1>4, <1>5, <1>6, EndAcross, StartAcross DEF ProcessNext

LEMMA AcrossBounds == ProcessInv /\ AcrossInv => RateLimitAcross
<1> SUFFICES ASSUME ProcessInv, AcrossInv, NEW k \in Keys
             PROVE  (admitted[k] - 1 - losses) * Window <= now
  BY DEF RateLimitAcross
<1>1. last[k] \in Int /\ saved[k] \in Int
  BY KeyFacts DEF Times, Never
<1> QED
  BY <1>1, KeyFacts DEF AcrossInv, Paid

\* Whenever processes stop, crash and start again, a key is let through once per
\* dedupe window and once more per crash, per final save that fails and per Load
\* that fails (snapshotLoop, main, Deduper.Restore).
THEOREM RateLimitedAcross == ProcessSpec => []RateLimitAcross
<1>1. ProcessInit => AcrossInv
  BY WindowAssumption DEF ProcessInit, Init, AcrossInv, Paid, Forgotten, Never
<1> QED
  BY <1>1, NextAcross, AlwaysProcessInv, AcrossBounds, PTL DEF ProcessSpec

-----------------------------------------------------------------------------
(* What a process speaks of has an entry in its table, and what the one    *)
(* before it saved does too.                                               *)

LEMMA NextProcessWorkerInv ==
    ProcessInv /\ WorkerInv /\ [ProcessNext]_pvars => WorkerInv'
<1> SUFFICES ASSUME ProcessInv, WorkerInv, [ProcessNext]_pvars PROVE WorkerInv'
  OBVIOUS
<1> USE DEF WorkerInv, QueueForms, JobForms, SendForms
<1>1. CASE Run \/ Beside \/ Time
  BY <1>1, RunIsEngine, BesideIsEngine, TimeIsEngine, NextWorkerInv DEF ProcessInv
<1>2. CASE Snapshot \/ (\E c \in Channels : Hang(c)) \/ UNCHANGED pvars
  <2>1. UNCHANGED vars
    BY <1>2 DEF Snapshot, Hang, pvars
  <2> QED
    BY <2>1, NextWorkerInv DEF ProcessInv
<1>3. CASE GiveUp \/ Start
  <2>1. UNCHANGED <<in, pc, job, todo, toResolve, msg>>
    BY <1>3 DEF GiveUp, Start
  <2> QED
    BY <2>1 DEF Mentioned, KeysIn
<1>4. CASE Exit \/ Crash
  <2>1. in' = <<>> /\ pc' = "idle" /\ toResolve' = {} /\ job'.kind = "none"
    BY <1>4 DEF Exit, Crash, EndWith, Memoryless, NoJob
  <2> QED
    BY <2>1
<1> QED
  BY <1>1, <1>2, <1>3, <1>4 DEF ProcessNext

\* Nobody empties a table while its process runs, so what has been let through
\* once is known from then on.
EntryAcross ==
    /\ \A a \in active \cup toResolve : last[Key(a)] # Never
    /\ pc \in {"mark", "track"} => last[Key(Head(todo))] # Never
    /\ pc = "send" /\ msg.state = "resolved" => \A k \in msg.keys : last[k] # Never
    /\ ~up => pc = "idle" /\ active = {} /\ toResolve = {}

\* A step of a running process keeps this when the table only grows.
LEMMA KeepsEntryAcross ==
    ASSUME ProcessInv, EntryAcross, up, up',
           \A k \in Keys : last[k] # Never => last'[k] # Never,
           \A a \in active' \cup toResolve' : \/ a \in active \cup toResolve
                                              \/ last'[Key(a)] # Never,
           pc' \in {"mark", "track"} => last'[Key(Head(todo'))] # Never,
           pc' = "send" /\ msg'.state = "resolved" => \A k \in msg'.keys : last'[k] # Never
    PROVE  EntryAcross'
<1>1. \A a \in active \cup toResolve : Key(a) \in Keys
  BY KeyType DEF ProcessInv, TypeInv, TypeOK
<1> QED
  BY <1>1 DEF EntryAcross

LEMMA WorkEntryAcross ==
    ASSUME ProcessInv, WorkerInv, EntryAcross, Run
    PROVE  EntryAcross'
<1>1. up /\ up' /\ saved' = saved
  BY DEF Run
<1>2. CASE TakeInput \/ TakeTick \/ Stop
  <2>1. /\ UNCHANGED <<last, active, toResolve>> /\ pc' \notin {"mark", "track"}
        /\ pc' = "send" => msg'.state = "firing"
    BY <1>2 DEF TakeInput, TakeTick, Stop, Goto, AfterFire, BeginSend, DigestMsg, ProcessInv, ProcessTypeOK
  <2> QED
    BY <1>1, <2>1, KeepsEntryAcross
<1>3. CASE Allow
  <2>1. PICK key \in Keys : key = Key(Head(todo))
    BY <1>3, HeadTailTodo DEF Allow, ProcessInv, TypeInv, TypeOK
  <2>2. /\ UNCHANGED <<active, toResolve, todo>> /\ pc' # "send"
        /\ last \in [Keys -> Times] /\ now # Never
    BY <1>3 DEF Allow, ProcessInv, TypeInv, TypeOK, Never
  <2>3. CASE Allowed(last, key, now)
    <3>1. last' = [last EXCEPT ![key] = now]
      BY <1>3, <2>1, <2>3 DEF Allow, Admitted
    <3> QED
      BY <1>1, <2>1, <2>2, <3>1, KeepsEntryAcross
  <2>4. CASE ~Allowed(last, key, now)
    <3>1. last' = last /\ last[key] # Never
      BY <1>3, <2>1, <2>4 DEF Allow, Allowed
    <3> QED
      BY <1>1, <2>1, <2>2, <3>1, KeepsEntryAcross
  <2> QED
    BY <2>3, <2>4
<1>4. CASE Mark \/ Track
  <2>1. /\ pc \in {"mark", "track"} /\ UNCHANGED <<last, toResolve>>
        /\ active' = Tracked(Head(todo)) /\ pc' \notin {"mark", "track"}
        /\ pc' = "send" => msg'.state = "firing"
    BY <1>4 DEF Mark, Track, Goto, AfterFire, BeginSend, FiringMsg
  <2>2. \A a \in active' : a \in active \/ a = Head(todo)
    BY <2>1, TrackedWithin
  <2>3. last[Key(Head(todo))] # Never
    BY <2>1 DEF EntryAcross
  <2> QED
    BY <1>1, <2>1, <2>2, <2>3, KeepsEntryAcross
<1>5. CASE HandleResolve \/ Diff
  <2>1. /\ UNCHANGED last /\ active' \subseteq active
        /\ toResolve' \subseteq active \cup toResolve /\ pc' \notin {"mark", "track"}
        /\ pc' # "send" \/ \E prev \in active : BeginSend(ResolvedMsg(prev))
    BY <1>5 DEF HandleResolve, Diff, Goto, Firing, Missing, Left
  <2>2. ASSUME pc' = "send" PROVE \A k \in msg'.keys : last'[k] # Never
    <3>1. PICK prev \in active : BeginSend(ResolvedMsg(prev))
      BY <2>1, <2>2
    <3>2. msg'.keys = {Key(prev)}
      BY <3>1 DEF BeginSend, ResolvedMsg
    <3> QED
      BY <2>1, <3>2 DEF EntryAcross
  <2> QED
    BY <1>1, <2>1, <2>2, KeepsEntryAcross
<1>6. ASSUME NEW c \in Channels, SendTo(c) PROVE EntryAcross'
  <2>1. UNCHANGED <<last, active, toResolve, pc, todo, msg>>
    BY <1>6 DEF SendTo
  <2> QED
    BY <1>1, <2>1 DEF EntryAcross
<1>7. CASE FinishSend
  <2>1. /\ UNCHANGED <<last, active>> /\ toResolve' \subseteq toResolve
        /\ pc' \notin {"mark", "track"}
        /\ pc' # "send" \/ \E prev \in toResolve : BeginSend(ResolvedMsg(prev))
    BY <1>7 DEF FinishSend, Goto, AfterFire
  <2>2. ASSUME pc' = "send" PROVE \A k \in msg'.keys : last'[k] # Never
    <3>1. PICK prev \in toResolve : BeginSend(ResolvedMsg(prev))
      BY <2>1, <2>2
    <3>2. msg'.keys = {Key(prev)}
      BY <3>1 DEF BeginSend, ResolvedMsg
    <3> QED
      BY <2>1, <3>2 DEF EntryAcross
  <2> QED
    BY <1>1, <2>1, <2>2, KeepsEntryAcross
<1> QED
  BY <1>2, <1>3, <1>4, <1>5, <1>6, <1>7 DEF Run, Work, Handle

LEMMA NextEntryAcross ==
    ProcessInv /\ WorkerInv /\ AcrossInv /\ EntryAcross /\ [ProcessNext]_pvars => EntryAcross'
<1> SUFFICES ASSUME ProcessInv, WorkerInv, AcrossInv, EntryAcross, [ProcessNext]_pvars
             PROVE  EntryAcross'
  OBVIOUS
<1>1. CASE Beside \/ Time \/ (\E c \in Channels : Hang(c)) \/ GiveUp \/ UNCHANGED pvars
  <2>1. UNCHANGED <<up, saved, last, active, toResolve, pc, todo, msg>>
    BY <1>1 DEF Beside, Submit, Resolve, Reconcile, Enqueue, Ticker, Cancel, Time, Clock,
                Hang, GiveUp, pvars, vars
  <2> QED
    BY <2>1 DEF EntryAcross
<1>2. CASE Snapshot
  <2>1. UNCHANGED <<up, last, active, toResolve, pc, todo, msg>>
    BY <1>2 DEF Snapshot, vars
  <2> QED
    BY <2>1 DEF EntryAcross
<1>3. CASE Exit \/ Crash
  <2>1. ~up' /\ active' = {} /\ toResolve' = {} /\ pc' = "idle"
    BY <1>3 DEF Exit, Crash, EndWith, Memoryless
  <2> QED
    BY <2>1 DEF EntryAcross
<1>4. CASE Start
  <2>1. ~up /\ up' /\ UNCHANGED <<active, toResolve, pc>>
    BY <1>4 DEF Start
  <2> QED
    BY <2>1 DEF EntryAcross
<1> QED
  BY <1>1, <1>2, <1>3, <1>4, WorkEntryAcross DEF ProcessNext

KnownInv == WorkerInv /\ AcrossInv /\ EntryAcross

LEMMA AlwaysKnownInv == ProcessSpec => [](ProcessInv /\ KnownInv)
<1>1. ProcessInit => KnownInv
  <2> SUFFICES ASSUME ProcessInit PROVE KnownInv
    OBVIOUS
  <2>1. WorkerInv
    BY InitWorkerInv DEF ProcessInit
  <2>2. AcrossInv
    BY WindowAssumption DEF ProcessInit, Init, AcrossInv, Paid, Forgotten, Never
  <2>3. EntryAcross
    BY DEF ProcessInit, Init, EntryAcross, Forgotten
  <2> QED
    BY <2>1, <2>2, <2>3 DEF KnownInv
<1>2. ProcessInv /\ KnownInv /\ [ProcessNext]_pvars => KnownInv'
  BY NextProcessWorkerInv, NextAcross, NextEntryAcross DEF KnownInv
<1> QED
  BY <1>1, <1>2, InitProcessInv, NextProcessInv, PTL DEF ProcessSpec

-----------------------------------------------------------------------------
(* Who is suppressed has been told of.                                     *)

\* Every message goes to some channel that there is a notifier for.  A
\* configuration without one tells nobody of what it suppresses.
Reached ==
    \A m \in Messages, d \in DefaultChannels(Registered, Preferred) :
        ChannelsFor(m, d) \cap Registered # {}

\* An entry in memory, or one that a later process may restore.
Entered(k) == last[k] # Never \/ saved[k] # Never

\* A process begins with no entry that was not saved.
LEMMA StartedEntries ==
    ASSUME ProcessInv, AcrossInv, Start
    PROVE  \A k \in Keys : Entered(k)' => saved[k] # Never
<1>1. \A k \in Keys : last'[k] \in {saved[k], Never}
  BY DEF Start, Restored, AcrossInv, ProcessInv, TypeInv, TypeOK
<1>2. saved' = saved
  BY DEF Start
<1> QED
  BY <1>1, <1>2 DEF Entered

\* The inductive form of SuppressedWasTold: an entry is one of a key that was
\* told of or missed, or whose notice is on its way; and a notice that no
\* channel is left to be tried for has come to one of the two.
ToldAcross ==
    /\ defaults \in DefaultChannels(Registered, Preferred)
    /\ up => \A k \in Keys : Entered(k) => k \in told \cup missed \cup Owed
    /\ ~up => \A k \in Keys : saved[k] # Never => k \in told \cup missed
    /\ pc = "send" /\ chans \cap Registered = {} => Notice \subseteq told \cup missed

\* A firing notice is owed from the digest queue, from the admission until it
\* begins, and until Registry.Send returns.
LEMMA OwedParts ==
    \A k \in Keys : k \in Owed <=> \/ k \in KeysOf(Batch)
                                   \/ pc = "track" /\ k = Key(Head(todo))
                                   \/ pc = "send" /\ k \in Notice
BY DEF Owed, Due, Notice

LEMMA OwedPartsNext ==
    \A k \in Keys : k \in Owed' <=> \/ k \in KeysOf(Batch)'
                                    \/ pc' = "track" /\ k = Key(Head(todo'))
                                    \/ pc' = "send" /\ k \in Notice'
BY DEF Owed, Due, Notice

LEMMA BatchSame == ASSUME digestQ' = digestQ PROVE KeysOf(Batch)' = KeysOf(Batch)
BY DEF Batch, KeysOf

\* The histories change when a request returns and when a key is let through.
LEMMA AccountIdle ==
    ASSUME ProcessInv, Account, admitted' = admitted, pc # "send" \/ chans = {}
    PROVE  told' = told /\ missed' = missed
<1>1. pc # "send" \/ (chans \ chans') \cap Registered = {}
  OBVIOUS
<1> QED
  BY <1>1 DEF Account

LEMMA AccountAdmits ==
    ASSUME ProcessInv, Account, pc # "send",
           NEW key \in Keys, admitted' = [admitted EXCEPT ![key] = @ + 1]
    PROVE  told' = told \ {key} /\ missed' = missed \ {key}
<1>1. admitted \in [Keys -> Nat]
  BY DEF ProcessInv, TypeInv, TypeOK
<1>2. {k \in Keys : admitted'[k] # admitted[k]} = {key}
  BY <1>1
<1> QED
  BY <1>2 DEF Account

LEMMA AccountSent ==
    ASSUME Account, NEW c \in Channels, SendTo(c)
    PROVE  /\ told \subseteq told' /\ missed \subseteq missed'
           /\ c \in Registered => Notice \subseteq told' \cup missed'
           /\ c \in Registered => Receives(c) \/ Notice \subseteq missed'
<1>1. pc = "send" /\ c \in chans /\ chans' = chans \ {c}
  BY DEF SendTo
<1>2. PICK d \in chans : chans' = chans \ {d} /\ Outcome(d)
  BY <1>1 DEF Account
<1>3. d = c
  BY <1>1, <1>2
<1>4. CASE Receives(c) /\ told' = told \cup Notice /\ missed' = missed
  BY <1>4
<1>5. CASE /\ missed' = (IF c \in Registered THEN missed \cup Notice ELSE missed)
           /\ told' = told
  BY <1>5
<1> QED
  BY <1>2, <1>3, <1>4, <1>5 DEF Outcome

\* What a batch holds after one more alert.
LEMMA BatchGrows ==
    ASSUME ProcessInv, NEW a \in Alerts, digestQ' = Append(digestQ, a)
    PROVE  \A k : k \in KeysOf(Batch)' <=> k \in KeysOf(Batch) \/ k = Key(a)
<1>1. digestQ \in Seq(Alerts)
  BY DEF ProcessInv, TypeInv, TypeOK
<1>2. /\ Len(digestQ) \in Nat /\ DOMAIN digestQ = 1..Len(digestQ)
      /\ DOMAIN digestQ' = 1..(Len(digestQ) + 1)
      /\ \A n \in 1..Len(digestQ) : digestQ'[n] = digestQ[n]
      /\ digestQ'[Len(digestQ) + 1] = a
  BY <1>1
<1>3. \A n \in 1..(Len(digestQ) + 1) : n \in 1..Len(digestQ) \/ n = Len(digestQ) + 1
  BY <1>2
<1>4. Len(digestQ) + 1 \in 1..(Len(digestQ) + 1)
      /\ \A n \in 1..Len(digestQ) : n \in 1..(Len(digestQ) + 1)
  BY <1>2
<1>5. \A b : b \in Batch' <=> b \in Batch \/ b = a
  BY <1>2, <1>3, <1>4 DEF Batch
<1> QED
  BY <1>5 DEF KeysOf

LEMMA BatchType == ASSUME ProcessInv PROVE Batch \subseteq Alerts
BY DEF Batch, ProcessInv, TypeInv, TypeOK

\* The worker goes on without beginning a notice: what is owed stays owed, or
\* it was given.
LEMMA QuietTold ==
    ASSUME ProcessInv, ToldAcross, up, up',
           UNCHANGED <<defaults, digestQ, last, saved, told, missed>>,
           pc # "track", pc = "send" => chans = {},
           pc' = "send" => Notice' = {}
    PROVE  ToldAcross'
<1>1. ASSUME NEW k \in Keys, Entered(k)' PROVE k \in told' \cup missed' \cup Owed'
  <2>1. CASE k \in told \cup missed
    BY <2>1
  <2>2. CASE k \in Owed
    <3>1. k \in KeysOf(Batch) \/ (pc = "send" /\ k \in Notice)
      BY <2>2, OwedParts
    <3>2. CASE k \in KeysOf(Batch)
      BY <3>2, BatchSame, OwedPartsNext
    <3>3. CASE pc = "send" /\ k \in Notice
      BY <3>3 DEF ToldAcross
    <3> QED
      BY <3>1, <3>2, <3>3
  <2> QED
    BY <1>1, <2>1, <2>2 DEF ToldAcross, Entered
<1> QED
  BY <1>1 DEF ToldAcross

\* A notice begins: its keys are owed until some channel has been tried.
LEMMA NoticeTold ==
    ASSUME Reached, ProcessInv, ToldAcross, up, up', pc # "send",
           UNCHANGED <<defaults, last, saved, told, missed>>, pc' = "send",
           NEW m \in Messages, BeginSend(m),
           \A k \in Keys : k \in Owed => k \in KeysOf(Batch)' \/ k \in Notice'
    PROVE  ToldAcross'
<1>1. chans' \cap Registered # {}
  BY DEF BeginSend, Reached, ToldAcross
<1>2. ASSUME NEW k \in Keys, Entered(k)' PROVE k \in told' \cup missed' \cup Owed'
  BY <1>2, OwedPartsNext DEF ToldAcross, Entered
<1> QED
  BY <1>1, <1>2 DEF ToldAcross

LEMMA WorkToldAcross ==
    ASSUME Reached, ProcessInv, KnownInv, ToldAcross, Run
    PROVE  ToldAcross'
<1>0. up /\ up' /\ Account /\ saved' = saved
  BY DEF Run
<1>1. CASE TakeInput \/ Mark \/ Stop \/ HandleResolve \/ Diff \/ FinishSend
  <2>1. /\ UNCHANGED <<defaults, digestQ, last, admitted>> /\ pc # "track"
        /\ pc = "send" => chans = {}
    BY <1>1 DEF TakeInput, Mark, Stop, HandleResolve, Diff, FinishSend
  <2>2. pc' = "send" => Notice' = {}
    <3>1. pc' # "send" \/ \E prev \in active \cup toResolve : BeginSend(ResolvedMsg(prev))
      BY <1>1 DEF TakeInput, Mark, Stop, HandleResolve, Diff, FinishSend, Goto, AfterFire,
                  Firing, Missing
    <3>2. (\E prev : BeginSend(ResolvedMsg(prev))) => Notice' = {}
      BY DEF BeginSend, ResolvedMsg, Notice
    <3> QED
      BY <3>1, <3>2
  <2>3. told' = told /\ missed' = missed
    BY <1>0, <2>1, AccountIdle
  <2> QED
    BY <1>0, <2>1, <2>2, <2>3, QuietTold
<1>2. CASE TakeTick
  <2>1. /\ pc = "idle" /\ UNCHANGED <<defaults, last, admitted>>
    BY <1>2 DEF TakeTick
  <2>2. told' = told /\ missed' = missed
    BY <1>0, <2>1, AccountIdle
  <2>3. CASE digestQ = <<>>
    <3>1. digestQ' = digestQ /\ pc' = pc
      BY <1>2, <2>3 DEF TakeTick
    <3> QED
      BY <1>0, <2>1, <2>2, <3>1, QuietTold
  <2>4. CASE digestQ # <<>>
    <3>1. PICK m \in Messages : m = DigestMsg(Batch)
      BY BatchType, MessageTypes
    <3>2. pc' = "send" /\ BeginSend(m)
      BY <1>2, <2>4, <3>1 DEF TakeTick, Goto
    <3>3. Notice' = KeysOf(Batch)
      BY <3>1, <3>2 DEF BeginSend, DigestMsg, Notice
    <3>4. \A k \in Keys : k \in Owed => k \in Notice'
      BY <2>1, <3>3, OwedParts
    <3> QED
      BY <1>0, <2>1, <2>2, <3>2, <3>4, NoticeTold
  <2> QED
    BY <2>3, <2>4
<1>3. CASE Allow
  <2>1. PICK key \in Keys : key = Key(Head(todo))
    BY <1>3, HeadTailTodo DEF Allow, ProcessInv, TypeInv, TypeOK
  <2>2. /\ pc = "fire" /\ UNCHANGED <<defaults, digestQ, todo>>
        /\ last \in [Keys -> Times]
    BY <1>3 DEF Allow, ProcessInv, TypeInv, TypeOK
  <2>3. CASE ~Allowed(last, key, now)
    <3>1. pc' = "mark" /\ last' = last /\ admitted' = admitted
      BY <1>3, <2>1, <2>3 DEF Allow
    <3>2. told' = told /\ missed' = missed
      BY <1>0, <2>2, <3>1, AccountIdle
    <3> QED
      BY <1>0, <2>2, <3>1, <3>2, QuietTold
  <2>4. CASE Allowed(last, key, now)
    <3>1. /\ pc' = "track" /\ last' = [last EXCEPT ![key] = now]
          /\ admitted' = [admitted EXCEPT ![key] = @ + 1]
      BY <1>3, <2>1, <2>4 DEF Allow, Admitted
    <3>2. told' = told \ {key} /\ missed' = missed \ {key}
      BY <1>0, <2>2, <3>1, AccountAdmits
    <3>3. ASSUME NEW k \in Keys, Entered(k)' PROVE k \in told' \cup missed' \cup Owed'
      <4>1. CASE k = key
        BY <2>1, <2>2, <3>1, <4>1, OwedPartsNext
      <4>2. CASE k # key
        <5>1. k \in told \cup missed \cup Owed
          BY <2>2, <3>1, <3>3, <4>2, <1>0 DEF ToldAcross, Entered
        <5>2. k \in Owed => k \in Owed'
          BY <2>2, BatchSame, OwedParts, OwedPartsNext
        <5> QED
          BY <3>2, <4>2, <5>1, <5>2
      <4> QED
        BY <4>1, <4>2
    <3> QED
      BY <1>0, <2>2, <3>1, <3>3 DEF ToldAcross
  <2> QED
    BY <2>3, <2>4
<1>4. CASE Track
  <2>1. PICK a \in Alerts : a = Head(todo)
    BY <1>4, HeadTailTodo DEF Track, ProcessInv, TypeInv, TypeOK
  <2>2. pc = "track" /\ UNCHANGED <<defaults, last, admitted>>
    BY <1>4 DEF Track
  <2>3. told' = told /\ missed' = missed
    BY <1>0, <2>2, AccountIdle
  <2>4. CASE InDigest(a)
    <3>1. digestQ' = Append(digestQ, a) /\ pc' \notin {"track", "send"}
      BY <1>4, <2>1, <2>4 DEF Track, Goto, AfterFire
    <3>2. \A k \in Keys : k \in Owed => k \in Owed'
      BY <2>1, <2>2, <3>1, BatchGrows, OwedParts, OwedPartsNext
    <3> QED
      BY <1>0, <2>2, <2>3, <3>1, <3>2 DEF ToldAcross, Entered
  <2>5. CASE ~InDigest(a)
    <3>1. PICK m \in Messages : m = FiringMsg(a)
      BY MessageTypes
    <3>2. pc' = "send" /\ BeginSend(m) /\ digestQ' = digestQ
      BY <1>4, <2>1, <2>5, <3>1 DEF Track, Goto
    <3>3. Notice' = {Key(a)}
      BY <3>1, <3>2 DEF BeginSend, FiringMsg, Notice
    <3>4. \A k \in Keys : k \in Owed => k \in KeysOf(Batch)' \/ k \in Notice'
      BY <2>1, <2>2, <3>2, <3>3, BatchSame, OwedParts
    <3> QED
      BY <1>0, <2>2, <2>3, <3>2, <3>4, NoticeTold
  <2> QED
    BY <2>4, <2>5
<1>5. ASSUME NEW c \in Channels, SendTo(c) PROVE ToldAcross'
  <2>1. /\ UNCHANGED <<defaults, last, digestQ, pc, todo, msg>>
        /\ chans' = chans \ {c} /\ pc = "send"
    BY <1>5 DEF SendTo
  <2>2. /\ told \subseteq told' /\ missed \subseteq missed'
        /\ c \in Registered => Notice \subseteq told' \cup missed'
    BY <1>0, <1>5, AccountSent
  <2>3. Notice' = Notice /\ \A k \in Keys : k \in Owed => k \in Owed'
    BY <2>1, BatchSame, OwedParts, OwedPartsNext DEF Notice
  <2>4. c \notin Registered => chans' \cap Registered = chans \cap Registered
    BY <2>1
  <2>5. chans' \cap Registered = {} => Notice' \subseteq told' \cup missed'
    BY <2>1, <2>2, <2>3, <2>4 DEF ToldAcross
  <2> QED
    BY <1>0, <2>1, <2>2, <2>3, <2>5 DEF ToldAcross, Entered
<1> QED
  BY <1>1, <1>2, <1>3, <1>4, <1>5 DEF Run, Work, Handle

\* The end of a process cuts off what it owes; the next begins with the table
\* that was saved.
LEMMA NextToldAcross ==
    ASSUME Reached, ProcessInv, KnownInv, ToldAcross, [ProcessNext]_pvars
    PROVE  ToldAcross'
<1>1. CASE Beside \/ Time \/ (\E c \in Channels : Hang(c)) \/ UNCHANGED pvars
  <2>1. UNCHANGED <<up, saved, told, missed, defaults, last, digestQ, pc, todo, msg, chans>>
    BY <1>1 DEF Beside, Submit, Resolve, Reconcile, Enqueue, Ticker, Cancel, Time, Clock,
                Hang, pvars, vars
  <2>2. Notice' = Notice /\ \A k \in Keys : k \in Owed => k \in Owed'
    BY <2>1, BatchSame, OwedParts, OwedPartsNext DEF Notice
  <2> QED
    BY <2>1, <2>2 DEF ToldAcross, Entered
<1>2. CASE Snapshot
  <2>1. up /\ up' /\ saved' = last /\ UNCHANGED <<told, missed, defaults, last, digestQ, pc, todo, msg, chans>>
    BY <1>2 DEF Snapshot, vars
  <2>2. Notice' = Notice /\ \A k \in Keys : k \in Owed => k \in Owed'
    BY <2>1, BatchSame, OwedParts, OwedPartsNext DEF Notice
  <2> QED
    BY <2>1, <2>2 DEF ToldAcross, Entered
<1>3. CASE GiveUp
  <2>1. /\ up /\ up' /\ missed' = missed \cup Notice /\ told' = told
        /\ UNCHANGED <<defaults, last, saved, digestQ, pc, todo, msg>>
    BY <1>3 DEF GiveUp
  <2>2. Notice' = Notice /\ \A k \in Keys : k \in Owed => k \in Owed'
    BY <2>1, BatchSame, OwedParts, OwedPartsNext DEF Notice
  <2> QED
    BY <2>1, <2>2 DEF ToldAcross, Entered
<1>4. CASE Exit \/ Crash
  <2>1. /\ up /\ ~up' /\ missed' = missed \cup Owed /\ told' = told /\ defaults' = defaults
        /\ pc' = "idle" /\ (saved' = last \/ saved' = saved)
    BY <1>4 DEF Exit, Crash, EndWith, Memoryless
  <2>2. \A k \in Keys : saved'[k] # Never => Entered(k)
    BY <2>1 DEF Entered
  <2> QED
    BY <2>1, <2>2 DEF ToldAcross
<1>5. CASE Start
  <2>1. /\ ~up /\ up' /\ UNCHANGED <<saved, told, missed, pc>> /\ pc = "idle"
        /\ defaults' \in DefaultChannels(Registered, Preferred)
    BY <1>5 DEF Start, KnownInv, EntryAcross
  <2>2. \A k \in Keys : Entered(k)' => saved[k] # Never
    BY <1>5, StartedEntries DEF KnownInv
  <2> QED
    BY <2>1, <2>2 DEF ToldAcross
<1> QED
  BY <1>1, <1>2, <1>3, <1>4, <1>5, WorkToldAcross DEF ProcessNext

\* If every message has a channel, no process is silent about a condition on
\* account of a notice that neither reached a channel nor is on its way nor was
\* missed by one: a Send that returned an error or was cancelled, or the end of
\* the process before it (Deduper.Restore and Registry.Send against handleFire).
THEOREM SuppressedIsTold == ASSUME Reached PROVE ProcessSpec => SuppressedWasTold
<1> DEFINE Told == pc = "fire" /\ pc' = "mark" =>
                      Key(Head(todo)) \in told \cup missed \cup Owed
<1>1. ASSUME ProcessInv, KnownInv, ToldAcross, [ProcessNext]_pvars PROVE Told
  <2> SUFFICES ASSUME pc = "fire", pc' = "mark"
               PROVE  Key(Head(todo)) \in told \cup missed \cup Owed
    OBVIOUS
  <2>1. Run /\ Allow
    BY <1>1 DEF ProcessNext, Run, Work, TakeInput, TakeTick, Handle, Mark, Track, HandleResolve,
                Diff, SendTo, FinishSend, Stop, Beside, Submit, Resolve, Reconcile, Enqueue,
                Ticker, Cancel, Time, Clock, Snapshot, Hang, GiveUp, Exit, Crash, EndWith,
                Memoryless, Start, pvars, vars
  <2>2. PICK key \in Keys : key = Key(Head(todo))
    BY <2>1, <1>1, HeadTailTodo DEF Allow, ProcessInv, TypeInv, TypeOK
  <2>3. ~Allowed(last, key, now)
    BY <2>1, <2>2 DEF Allow
  <2>4. up /\ Entered(key)
    BY <2>1, <2>3 DEF Run, Allowed, Entered
  <2> QED
    BY <1>1, <2>2, <2>4 DEF ToldAcross
<1>2. ProcessInit => ToldAcross
  BY DEF ProcessInit, Init, ToldAcross, Entered, Forgotten
<1>3. ProcessInv /\ KnownInv /\ ToldAcross /\ [ProcessNext]_pvars => ToldAcross'
  BY NextToldAcross
<1>4. ProcessSpec => []ToldAcross
  BY <1>2, <1>3, AlwaysKnownInv, PTL DEF ProcessSpec
<1>5. ProcessInv /\ KnownInv /\ ToldAcross /\ [ProcessNext]_pvars => Told
  BY <1>1
<1>6. ProcessSpec => [][Told]_pvars
  BY <1>4, <1>5, AlwaysKnownInv, PTL DEF ProcessSpec
<1> QED
  BY <1>6 DEF SuppressedWasTold

-----------------------------------------------------------------------------
(* Who hears of an end has heard of the beginning.                         *)

\* A key's firing, resolved and digested notices go the same way: no rule looks
\* at the severity, which a resolved message does not keep, and there are none
\* if there is a digest, which is sent under a monitor name of its own.
Straight ==
    /\ \A i \in 1..Len(Rules) : Rules[i].severity = AnyMatch
    /\ DigestEnabled => Rules = <<>>

\* The channels that every message about a key goes to and that are there.
NoticeOf(monitor) ==
    [state |-> "firing", monitor |-> monitor, severity |-> "info", keys |-> {}]
RouteOf(k) == ChannelsFor(NoticeOf(k[1]), defaults) \cap Registered

Heard(c, k) == heard[c][k] # "none"

\* The firing notice of the key is on its way to the channel.
Coming(c, k) ==
    \/ pc = "track" /\ Key(Head(todo)) = k
    \/ pc = "send" /\ k \in Notice /\ c \in chans

(***************************************************************************)
(* The inductive form of ResolvedHasPrecedent: whoever is to hear of a key *)
(* that has an entry heard of it, or is about to, or the notice waits in   *)
(* the digest queue or was missed.  What is saved has this behind it when  *)
(* the process ends, and so has what the next one begins with.             *)
(***************************************************************************)
FirstAcross ==
    /\ digestQ # <<>> => DigestEnabled
    /\ pc = "send" => \A k \in msg.keys : chans \cap Registered \subseteq RouteOf(k)
    /\ ~moved /\ up =>
          \A k \in Keys : Entered(k) =>
              \A c \in RouteOf(k) : Heard(c, k) \/ k \in KeysOf(Batch) \cup missed \/ Coming(c, k)
    /\ ~moved /\ ~up =>
          \A k \in Keys : saved[k] # Never => \A c \in RouteOf(k) : Heard(c, k) \/ k \in missed

LEMMA SameWay ==
    ASSUME Straight, NEW m, NEW n, m.monitor = n.monitor, NEW d
    PROVE  ChannelsFor(m, d) = ChannelsFor(n, d)
<1>1. \A i \in 1..Len(Rules) : MatchRule(Rules[i], m) <=> MatchRule(Rules[i], n)
  BY DEF MatchRule, Straight
<1>2. Matching(m) = Matching(n)
  BY <1>1 DEF Matching
<1> QED
  BY <1>2 DEF ChannelsFor, Routed

LEMMA DigestWay ==
    ASSUME Straight, DigestEnabled, NEW m, NEW d
    PROVE  ChannelsFor(m, d) = d
<1>1. Matching(m) = {}
  BY DEF Straight, Matching
<1> QED
  BY <1>1 DEF ChannelsFor

\* A message about one alert goes to the channels of its key.
LEMMA BeginsStraight ==
    ASSUME Straight, NEW a \in Alerts, defaults' = defaults,
           BeginSend(FiringMsg(a)) \/ BeginSend(ResolvedMsg(a))
    PROVE  /\ msg'.keys = {Key(a)}
           /\ chans' \cap Registered = RouteOf(Key(a))'
<1>1. /\ msg'.keys = {Key(a)} /\ msg'.monitor = a.monitor
      /\ chans' = ChannelsFor(msg', defaults)
  BY DEF BeginSend, FiringMsg, ResolvedMsg
<1>2. Key(a)[1] = a.monitor
  BY DEF Key
<1>3. NoticeOf(a.monitor).monitor = msg'.monitor
  BY <1>1 DEF NoticeOf
<1>4. ChannelsFor(NoticeOf(a.monitor), defaults) = chans'
  BY <1>1, <1>3, SameWay
<1> QED
  BY <1>1, <1>2, <1>4 DEF RouteOf

\* The worker goes on without beginning a firing notice.
LEMMA QuietFirst ==
    ASSUME ProcessInv, FirstAcross, up, up',
           UNCHANGED <<defaults, digestQ, last, saved, missed, heard, moved>>,
           pc # "track", pc = "send" => chans = {},
           pc' = "send" => \A k \in msg'.keys : chans' \cap Registered \subseteq RouteOf(k)'
    PROVE  FirstAcross'
<1>1. \A c, k : Heard(c, k)' = Heard(c, k) /\ RouteOf(k)' = RouteOf(k) /\ ~Coming(c, k)
  BY DEF Heard, RouteOf, Coming
<1>2. KeysOf(Batch)' = KeysOf(Batch)
  BY BatchSame
<1>3. ASSUME ~moved', NEW k \in Keys, Entered(k)', NEW c \in RouteOf(k)'
      PROVE  Heard(c, k)' \/ k \in KeysOf(Batch)' \cup missed'
  BY <1>1, <1>2, <1>3 DEF FirstAcross, Entered
<1> QED
  BY <1>3 DEF FirstAcross

LEMMA WorkFirstAcross ==
    ASSUME Straight, ProcessInv, KnownInv, FirstAcross, Run
    PROVE  FirstAcross'
<1>0. up /\ up' /\ Account /\ moved' = moved /\ saved' = saved
  BY DEF Run
<1>1. CASE TakeInput \/ Mark \/ Stop \/ HandleResolve \/ Diff \/ FinishSend
  <2>1. /\ UNCHANGED <<defaults, digestQ, last, admitted, heard>> /\ pc # "track"
        /\ pc = "send" => chans = {}
    BY <1>1 DEF TakeInput, Mark, Stop, HandleResolve, Diff, FinishSend
  <2>2. ASSUME pc' = "send"
        PROVE  \A k \in msg'.keys : chans' \cap Registered \subseteq RouteOf(k)'
    <3>1. PICK prev \in active \cup toResolve : BeginSend(ResolvedMsg(prev))
      BY <1>1, <2>2 DEF TakeInput, Mark, Stop, HandleResolve, Diff, FinishSend, Goto, AfterFire,
                        Firing, Missing
    <3>2. prev \in Alerts
      BY DEF ProcessInv, TypeInv, TypeOK
    <3> QED
      BY <2>1, <3>1, <3>2, BeginsStraight
  <2>3. missed' = missed
    BY <1>0, <2>1, AccountIdle
  <2> QED
    BY <1>0, <2>1, <2>2, <2>3, QuietFirst
<1>2. CASE TakeTick
  <2>1. /\ pc = "idle" /\ UNCHANGED <<defaults, last, admitted, heard>>
    BY <1>2 DEF TakeTick
  <2>2. missed' = missed
    BY <1>0, <2>1, AccountIdle
  <2>3. CASE digestQ = <<>>
    <3>1. digestQ' = digestQ /\ pc' = pc
      BY <1>2, <2>3 DEF TakeTick
    <3> QED
      BY <1>0, <2>1, <2>2, <3>1, QuietFirst
  <2>4. CASE digestQ # <<>>
    <3>1. pc' = "send" /\ BeginSend(DigestMsg(Batch)) /\ digestQ' = <<>>
      BY <1>2, <2>4 DEF TakeTick, Goto
    <3>2. Notice' = KeysOf(Batch)
      BY <3>1 DEF BeginSend, DigestMsg, Notice
    <3>3. DigestEnabled
      BY <2>4 DEF FirstAcross
    <3>4. \A k : RouteOf(k)' = defaults \cap Registered /\ RouteOf(k) = defaults \cap Registered
      BY <2>1, <3>3, DigestWay DEF RouteOf
    <3>5. chans' = defaults
      BY <3>1, <3>3, DigestWay DEF BeginSend
    <3>6. ASSUME ~moved', NEW k \in Keys, Entered(k)', NEW c \in RouteOf(k)'
          PROVE  Heard(c, k)' \/ k \in missed' \/ Coming(c, k)'
      <4>1. Heard(c, k) \/ k \in KeysOf(Batch) \cup missed
        BY <1>0, <2>1, <3>4, <3>6 DEF FirstAcross, Coming, Entered
      <4>2. k \in KeysOf(Batch) => Coming(c, k)'
        BY <3>1, <3>2, <3>4, <3>5 DEF Coming
      <4> QED
        BY <2>1, <2>2, <4>1, <4>2 DEF Heard
    <3> QED
      BY <1>0, <3>1, <3>4, <3>5, <3>6 DEF FirstAcross
  <2> QED
    BY <2>3, <2>4
<1>3. CASE Allow
  <2>1. PICK key \in Keys : key = Key(Head(todo))
    BY <1>3, HeadTailTodo DEF Allow, ProcessInv, TypeInv, TypeOK
  <2>2. /\ pc = "fire" /\ UNCHANGED <<defaults, digestQ, todo, heard>>
        /\ last \in [Keys -> Times]
    BY <1>3 DEF Allow, ProcessInv, TypeInv, TypeOK
  <2>3. CASE ~Allowed(last, key, now)
    <3>1. pc' = "mark" /\ last' = last /\ admitted' = admitted
      BY <1>3, <2>1, <2>3 DEF Allow
    <3>2. missed' = missed
      BY <1>0, <2>2, <3>1, AccountIdle
    <3> QED
      BY <1>0, <2>2, <3>1, <3>2, QuietFirst
  <2>4. CASE Allowed(last, key, now)
    <3>1. /\ pc' = "track" /\ last' = [last EXCEPT ![key] = now]
          /\ admitted' = [admitted EXCEPT ![key] = @ + 1]
      BY <1>3, <2>1, <2>4 DEF Allow, Admitted
    <3>2. missed' = missed \ {key}
      BY <1>0, <2>2, <3>1, AccountAdmits
    <3>3. ASSUME ~moved', NEW k \in Keys, Entered(k)', NEW c \in RouteOf(k)'
          PROVE  Heard(c, k)' \/ k \in KeysOf(Batch)' \cup missed' \/ Coming(c, k)'
      <4>1. CASE k = key
        BY <2>1, <2>2, <3>1, <4>1 DEF Coming
      <4>2. CASE k # key
        <5>1. c \in RouteOf(k) /\ Entered(k)
          BY <1>0, <2>2, <3>1, <3>3, <4>2 DEF RouteOf, Entered
        <5>2. Heard(c, k) \/ k \in KeysOf(Batch) \cup missed
          BY <1>0, <2>2, <3>3, <5>1 DEF FirstAcross, Coming
        <5> QED
          BY <2>2, <3>2, <4>2, <5>2, BatchSame DEF Heard
      <4> QED
        BY <4>1, <4>2
    <3> QED
      BY <1>0, <2>2, <3>1, <3>3 DEF FirstAcross
  <2> QED
    BY <2>3, <2>4
<1>4. CASE Track
  <2>1. PICK a \in Alerts : a = Head(todo)
    BY <1>4, HeadTailTodo DEF Track, ProcessInv, TypeInv, TypeOK
  <2>2. pc = "track" /\ UNCHANGED <<defaults, last, admitted, heard>>
    BY <1>4 DEF Track
  <2>3. missed' = missed
    BY <1>0, <2>2, AccountIdle
  <2>4. ASSUME ~moved', NEW k \in Keys, Entered(k)', NEW c \in RouteOf(k)'
        PROVE  /\ c \in RouteOf(k)
               /\ Heard(c, k)' \/ k \in KeysOf(Batch) \cup missed' \/ k = Key(a)
    BY <1>0, <2>1, <2>2, <2>3, <2>4 DEF FirstAcross, Coming, RouteOf, Heard, Entered
  <2>5. CASE InDigest(a)
    <3>1. digestQ' = Append(digestQ, a) /\ pc' \notin {"track", "send"}
      BY <1>4, <2>1, <2>5 DEF Track, Goto, AfterFire
    <3>2. ASSUME ~moved', NEW k \in Keys, Entered(k)', NEW c \in RouteOf(k)'
          PROVE  Heard(c, k)' \/ k \in KeysOf(Batch)' \cup missed'
      BY <2>4, <3>1, <3>2, BatchGrows
    <3> QED
      BY <1>0, <2>5, <3>1, <3>2 DEF FirstAcross, InDigest
  <2>6. CASE ~InDigest(a)
    <3>1. pc' = "send" /\ BeginSend(FiringMsg(a)) /\ digestQ' = digestQ
      BY <1>4, <2>1, <2>6 DEF Track, Goto
    <3>2. Notice' = {Key(a)}
      BY <3>1 DEF BeginSend, FiringMsg, Notice
    <3>3. msg'.keys = {Key(a)} /\ chans' \cap Registered = RouteOf(Key(a))'
      BY <2>2, <3>1, BeginsStraight
    <3>4. ASSUME ~moved', NEW k \in Keys, Entered(k)', NEW c \in RouteOf(k)'
          PROVE  Heard(c, k)' \/ k \in KeysOf(Batch)' \cup missed' \/ Coming(c, k)'
      <4>1. k = Key(a) => Coming(c, k)'
        BY <3>1, <3>2, <3>3, <3>4 DEF Coming
      <4> QED
        BY <2>4, <3>1, <3>4, <4>1, BatchSame
    <3> QED
      BY <1>0, <3>1, <3>3, <3>4 DEF FirstAcross
  <2> QED
    BY <2>5, <2>6
<1>5. ASSUME NEW c \in Channels, SendTo(c) PROVE FirstAcross'
  <2>1. /\ UNCHANGED <<defaults, last, digestQ, pc, todo, msg>>
        /\ chans' = chans \ {c} /\ pc = "send"
        /\ heard \in [Channels -> [Keys -> {"none", "firing", "resolved"}]]
        /\ msg.state \in {"firing", "resolved"}
    BY <1>5 DEF SendTo, ProcessInv, TypeInv, TypeOK, KnownInv, WorkerInv, SendForms
  <2>2. /\ missed \subseteq missed'
        /\ c \in Registered => Receives(c) \/ Notice \subseteq missed'
    BY <1>0, <1>5, AccountSent
  <2>3. Notice' = Notice /\ KeysOf(Batch)' = KeysOf(Batch) /\ \A k : RouteOf(k)' = RouteOf(k)
    BY <2>1, BatchSame DEF Notice, RouteOf
  <2>4. \/ heard' = [heard EXCEPT ![c] =
                       [k \in Keys |-> IF k \in msg.keys THEN msg.state ELSE @[k]]]
        \/ heard' = heard
    BY <1>5 DEF SendTo, Receives, Misses
  <2>5. ASSUME NEW d \in Channels, NEW k \in Keys, Heard(d, k) PROVE Heard(d, k)'
    BY <2>1, <2>4, <2>5 DEF Heard
  <2>6. ASSUME NEW k \in Keys, k \in Notice, c \in Registered
        PROVE  Heard(c, k)' \/ k \in missed'
    <3>1. k \in msg.keys
      BY <2>6 DEF Notice
    <3> QED
      BY <2>1, <2>2, <2>6, <3>1 DEF Heard, Receives
  <2>7. ASSUME ~moved', NEW k \in Keys, Entered(k)', NEW d \in RouteOf(k)'
        PROVE  Heard(d, k)' \/ k \in KeysOf(Batch)' \cup missed' \/ Coming(d, k)'
    <3>1. d \in RouteOf(k) /\ d \in Registered /\ d \in Channels
      BY <2>3, <2>7, EngineAssumption DEF RouteOf
    <3>2. Heard(d, k) \/ k \in KeysOf(Batch) \cup missed \/ (k \in Notice /\ d \in chans)
      BY <1>0, <2>1, <2>7, <3>1 DEF FirstAcross, Coming, Entered
    <3>3. CASE k \in Notice /\ d \in chans
      <4>1. CASE d = c
        BY <2>6, <3>1, <3>3, <4>1
      <4>2. CASE d # c
        BY <2>1, <2>3, <3>3, <4>2 DEF Coming
      <4> QED
        BY <4>1, <4>2
    <3> QED
      BY <2>2, <2>3, <2>5, <3>1, <3>2, <3>3
  <2>8. pc' = "send" => \A k \in msg'.keys : chans' \cap Registered \subseteq RouteOf(k)'
    BY <2>1, <2>3 DEF FirstAcross
  <2> QED
    BY <1>0, <2>1, <2>7, <2>8 DEF FirstAcross
<1> QED
  BY <1>1, <1>2, <1>3, <1>4, <1>5 DEF Run, Work, Handle

LEMMA NextFirstAcross ==
    ASSUME Straight, ProcessInv, KnownInv, FirstAcross, [ProcessNext]_pvars
    PROVE  FirstAcross'
<1>1. CASE Beside \/ Time \/ (\E c \in Channels : Hang(c)) \/ UNCHANGED pvars
  <2>1. UNCHANGED <<up, saved, missed, moved, heard, defaults, last, digestQ, pc, todo, msg, chans>>
    BY <1>1 DEF Beside, Submit, Resolve, Reconcile, Enqueue, Ticker, Cancel, Time, Clock,
                Hang, pvars, vars
  <2>2. /\ KeysOf(Batch)' = KeysOf(Batch)
        /\ \A c, k : /\ RouteOf(k)' = RouteOf(k) /\ Heard(c, k)' = Heard(c, k)
                     /\ Coming(c, k) => Coming(c, k)'
    BY <2>1, BatchSame DEF RouteOf, Heard, Coming, Notice
  <2> QED
    BY <2>1, <2>2 DEF FirstAcross, Entered
<1>2. CASE Snapshot
  <2>1. up /\ up' /\ saved' = last /\ UNCHANGED <<missed, moved, heard, defaults, last, digestQ, pc, todo, msg, chans>>
    BY <1>2 DEF Snapshot, vars
  <2>2. /\ KeysOf(Batch)' = KeysOf(Batch)
        /\ \A c, k : /\ RouteOf(k)' = RouteOf(k) /\ Heard(c, k)' = Heard(c, k)
                     /\ Coming(c, k) => Coming(c, k)'
    BY <2>1, BatchSame DEF RouteOf, Heard, Coming, Notice
  <2> QED
    BY <2>1, <2>2 DEF FirstAcross, Entered
<1>3. CASE GiveUp
  <2>1. /\ up /\ up' /\ missed' = missed \cup Notice /\ chans' \subseteq chans
        /\ UNCHANGED <<moved, heard, defaults, last, saved, digestQ, pc, todo, msg>>
    BY <1>3 DEF GiveUp
  <2>2. /\ KeysOf(Batch)' = KeysOf(Batch)
        /\ \A c, k : /\ RouteOf(k)' = RouteOf(k) /\ Heard(c, k)' = Heard(c, k)
                     /\ Coming(c, k) => Coming(c, k)' \/ k \in missed'
    BY <2>1, BatchSame DEF RouteOf, Heard, Coming
  <2> QED
    BY <2>1, <2>2 DEF FirstAcross, Entered
<1>4. CASE Exit \/ Crash
  <2>1. /\ up /\ ~up' /\ missed' = missed \cup Owed /\ UNCHANGED <<defaults, heard, moved>>
        /\ pc' = "idle" /\ digestQ' = <<>> /\ (saved' = last \/ saved' = saved)
    BY <1>4 DEF Exit, Crash, EndWith, Memoryless
  <2>2. \A k \in Keys : saved'[k] # Never => Entered(k)
    BY <2>1 DEF Entered
  <2>3. \A c, k : RouteOf(k)' = RouteOf(k) /\ Heard(c, k)' = Heard(c, k)
    BY <2>1 DEF RouteOf, Heard
  <2>4. \A c : \A k \in Keys : k \in KeysOf(Batch) \/ Coming(c, k) => k \in Owed
    BY OwedParts DEF Coming
  <2> QED
    BY <2>1, <2>2, <2>3, <2>4 DEF FirstAcross
<1>5. CASE Start
  <2>1. /\ ~up /\ up' /\ UNCHANGED <<heard, missed, saved, pc, digestQ>> /\ pc = "idle"
        /\ moved' = (moved \/ defaults' # defaults)
    BY <1>5 DEF Start, KnownInv, EntryAcross
  <2>2. \A k \in Keys : Entered(k)' => saved[k] # Never
    BY <1>5, StartedEntries DEF KnownInv
  <2>3. ~moved' => ~moved /\ \A k : RouteOf(k)' = RouteOf(k)
    BY <2>1 DEF RouteOf
  <2>4. \A c, k : Heard(c, k)' = Heard(c, k)
    BY <2>1 DEF Heard
  <2> QED
    BY <2>1, <2>2, <2>3, <2>4 DEF FirstAcross
<1> QED
  BY <1>1, <1>2, <1>3, <1>4, <1>5, WorkFirstAcross DEF ProcessNext

\* Where a key's notices go the same way, no channel is told of an end without
\* its beginning, through any stops, losses and restarts, unless the beginning
\* waits in the digest queue, was missed by a channel (a Send that returned an
\* error, or the end of the process), or went to the default channel of another
\* process (handleResolve, handleReconcile, Registry.Send, main).
THEOREM EndHasPrecedent == ASSUME Straight PROVE ProcessSpec => ResolvedHasPrecedent
<1> DEFINE Preceded == \A c \in Channels, k \in Keys :
                          heard'[c][k] = "resolved" =>
                             heard[c][k] # "none" \/ k \in KeysOf(Batch) \cup missed \/ moved
<1>1. ASSUME ProcessInv, KnownInv, FirstAcross, [ProcessNext]_pvars PROVE Preceded
  <2>1. CASE heard' = heard
    BY <2>1
  <2>2. CASE heard' # heard
    <3>1. Run
      BY <1>1, <2>2 DEF ProcessNext, Beside, Submit, Resolve, Reconcile, Enqueue, Ticker,
                        Cancel, Time, Clock, Snapshot, Hang, GiveUp, Exit, Crash, EndWith,
                        Start, pvars, vars
    <3>2. PICK d \in Channels : SendTo(d)
      BY <2>2, <3>1 DEF Run, Work, TakeInput, TakeTick, Handle, Allow, Mark, Track,
                        HandleResolve, Diff, FinishSend, Stop
    <3>3. /\ up /\ pc = "send" /\ d \in chans /\ d \in Registered
          /\ heard' = [heard EXCEPT ![d] =
                         [k \in Keys |-> IF k \in msg.keys THEN msg.state ELSE @[k]]]
          /\ heard \in [Channels -> [Keys -> {"none", "firing", "resolved"}]]
      BY <1>1, <2>2, <3>1, <3>2 DEF Run, SendTo, Receives, Misses, ProcessInv, TypeInv, TypeOK
    <3> SUFFICES ASSUME NEW c \in Channels, NEW k \in Keys, heard'[c][k] = "resolved", ~moved
                 PROVE  heard[c][k] # "none" \/ k \in KeysOf(Batch) \cup missed
      OBVIOUS
    <3>4. CASE c = d /\ k \in msg.keys
      <4>1. msg.state = "resolved"
        BY <3>3, <3>4
      <4>2. Entered(k)
        BY <1>1, <3>3, <3>4, <4>1 DEF KnownInv, EntryAcross, Entered
      <4>3. c \in RouteOf(k)
        BY <1>1, <3>3, <3>4 DEF FirstAcross
      <4>4. ~Coming(c, k)
        BY <3>3, <4>1 DEF Coming, Notice
      <4> QED
        BY <1>1, <3>3, <4>2, <4>3, <4>4 DEF FirstAcross, Heard
    <3>5. CASE ~(c = d /\ k \in msg.keys)
      BY <3>3, <3>5
    <3> QED
      BY <3>4, <3>5
  <2> QED
    BY <2>1, <2>2
<1>2. ProcessInit => FirstAcross
  BY DEF ProcessInit, Init, FirstAcross, Entered, Forgotten
<1>3. ProcessInv /\ KnownInv /\ FirstAcross /\ [ProcessNext]_pvars => FirstAcross'
  BY NextFirstAcross
<1>4. ProcessSpec => []FirstAcross
  BY <1>2, <1>3, AlwaysKnownInv, PTL DEF ProcessSpec
<1>5. ProcessInv /\ KnownInv /\ FirstAcross /\ [ProcessNext]_pvars => Preceded
  BY <1>1
<1>6. ProcessSpec => [][Preceded]_pvars
  BY <1>4, <1>5, AlwaysKnownInv, PTL DEF ProcessSpec
<1> QED
  BY <1>6 DEF ResolvedHasPrecedent
=============================================================================
