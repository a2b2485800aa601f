-------------------------- MODULE PersistenceProofs --------------------------
(***************************************************************************)
(* Theorems about Persistence, for every set of keys, window and grain:    *)
(* it keeps its types; no saved or restored entry suppresses an alert for  *)
(* longer than the notification it stands for; and without resets and      *)
(* failed loads what was saved is neither replaced by something older nor  *)
(* ignored, and a stop that saved forgets nothing.                         *)
(***************************************************************************)
EXTENDS Persistence, TLAPS

USE DEF store, writers, history, bounds

-----------------------------------------------------------------------------
(* What the operators return.                                              *)

LEMMA NothingType == Nothing \in Tables /\ \A k \in Keys : Nothing[k] = Never
BY DEF Nothing, Forgotten, Tables, Times, Never

\* Dropping the part of a second never makes a time later.
LEMMA FloorBounds ==
    ASSUME NEW g \in Nat \ {0}, NEW x \in Nat
    PROVE  g * (x \div g) \in Nat /\ g * (x \div g) <= x
OBVIOUS

LEMMA TruncatedType ==
    ASSUME NEW t \in Tables
    PROVE  /\ Truncated(t) \in Tables
           /\ \A k \in Keys : Truncated(t)[k] <= t[k]
<1>1. ASSUME NEW k \in Keys
      PROVE  Truncated(t)[k] \in Times /\ Truncated(t)[k] <= t[k]
  <2>1. t[k] \in Times
    BY DEF Tables
  <2>2. Truncated(t)[k] = IF t[k] = Never THEN Never ELSE Grain * (t[k] \div Grain)
    BY DEF Truncated
  <2>3. CASE t[k] = Never
    BY <2>2, <2>3 DEF Times, Never
  <2>4. CASE t[k] # Never
    <3>1. t[k] \in Nat /\ Grain \in Nat \ {0}
      BY <2>1, <2>4, PersistenceAssumption DEF Times
    <3>2. Grain * (t[k] \div Grain) \in Nat /\ Grain * (t[k] \div Grain) <= t[k]
      BY <3>1, FloorBounds
    <3> QED BY <2>2, <2>4, <3>2 DEF Times
  <2> QED BY <2>3, <2>4
<1> QED BY <1>1 DEF Truncated, Tables

LEMMA RestoredType ==
    ASSUME NEW t \in Tables
    PROVE  Restored(Nothing, t) = t
BY NothingType DEF Restored, Tables, Nothing, Forgotten, Never

-----------------------------------------------------------------------------
(* Types.                                                                  *)

LEMMA InitTypeOK == Init => TypeOK
<1> SUFFICES ASSUME Init PROVE TypeOK
  OBVIOUS
<1>1. unsaved \in BOOLEAN
  BY Zenon DEF Init
<1>2. /\ table \in Tables /\ notified \in Tables
      /\ cm \in [exists : BOOLEAN, data : Tables]
  BY NothingType DEF Init
<1>3. /\ data \in [Writers -> Tables] /\ fresh \in [Writers -> BOOLEAN]
      /\ pc \in [Writers -> {"idle", "get", "put", "create"}]
  BY NothingType DEF Init
<1> QED BY <1>1, <1>2, <1>3 DEF Init, TypeOK

LEMMA ReturnType ==
    ASSUME TypeOK, NEW w \in Writers, NEW ok \in BOOLEAN, Return(w, ok)
    PROVE  /\ pc' \in [Writers -> {"idle", "get", "put", "create"}]
           /\ mayKnow' \subseteq Keys /\ unsaved' \in BOOLEAN
<1>1. (w = "final" /\ ~ok) \in BOOLEAN /\ unsaved \in BOOLEAN
  BY DEF TypeOK
<1>2. unsaved' \in BOOLEAN
  BY <1>1, Zenon DEF Return
<1>3. /\ pc' \in [Writers -> {"idle", "get", "put", "create"}]
      /\ mayKnow' \subseteq Keys
  BY DEF TypeOK, Return
<1> QED BY <1>2, <1>3

LEMMA WriteType ==
    ASSUME TypeOK, NEW d \in Tables, Write([exists |-> TRUE, data |-> d])
    PROVE  /\ cm' \in [exists : BOOLEAN, data : Tables]
           /\ fresh' \in [Writers -> BOOLEAN]
BY DEF TypeOK, Write

\* A request leaves everything but the writer's place, the object and the
\* history of resets alone, and only a living process makes one.
LEMMA StepTypeOK == ASSUME TypeOK, NEW w \in Writers, Step(w) PROVE TypeOK'
<1>1. /\ now' \in Nat /\ table' \in Tables
      /\ phase' \in {"down", "up", "draining", "saving"}
      /\ data' \in [Writers -> Tables] /\ notified' \in Tables
      /\ resets' \in Nat /\ crashes' \in Nat /\ stops' \in Nat /\ misloads' \in Nat
  BY DEF TypeOK, Step, Get, Put, Create, FailRequest, Reply
<1>2. phase' # "down"
  BY DEF TypeOK, Step, Get, Put, Create, FailRequest, Reply, Alive
<1>3. data[w] \in Tables /\ fresh[w] \in BOOLEAN /\ cm.exists \in BOOLEAN
  BY DEF TypeOK
<1>4. /\ pc' \in [Writers -> {"idle", "get", "put", "create"}]
      /\ cm' \in [exists : BOOLEAN, data : Tables]
      /\ fresh' \in [Writers -> BOOLEAN]
      /\ mayKnow' \subseteq Keys
      /\ unsaved' \in BOOLEAN
  <2>1. CASE Get(w)
    <3>1. Return(w, TRUE) => unsaved' \in BOOLEAN
      BY ReturnType
    <3>2. UNCHANGED unsaved => unsaved' \in BOOLEAN
      BY DEF TypeOK
    <3>3. unsaved' \in BOOLEAN
      BY <2>1, <3>1, <3>2, Zenon DEF Get
    <3> QED BY <2>1, <3>3 DEF TypeOK, Get, Return
  <2>2. CASE Put(w)
    <3>1. pc' \in [Writers -> {"idle", "get", "put", "create"}] /\ mayKnow' \subseteq Keys /\ unsaved' \in BOOLEAN
      BY <2>2, <1>3, ReturnType DEF Put
    <3> QED BY <2>2, <3>1, <1>3, WriteType DEF Put, TypeOK
  <2>3. CASE Create(w)
    <3>1. pc' \in [Writers -> {"idle", "get", "put", "create"}] /\ mayKnow' \subseteq Keys /\ unsaved' \in BOOLEAN
      BY <2>3, <1>3, ReturnType DEF Create
    <3> QED BY <2>3, <3>1, <1>3, WriteType DEF Create, TypeOK
  <2>4. CASE FailRequest(w)
    <3>1. pc' \in [Writers -> {"idle", "get", "put", "create"}] /\ mayKnow' \subseteq Keys /\ unsaved' \in BOOLEAN
      BY <2>4, ReturnType DEF FailRequest
    <3> QED BY <2>4, <3>1 DEF FailRequest, TypeOK
  <2> QED BY <2>1, <2>2, <2>3, <2>4 DEF Step
<1> QED BY <1>1, <1>2, <1>4 DEF TypeOK

LEMMA FireTypeOK == ASSUME TypeOK, NEW k \in Keys, Fire(k) PROVE TypeOK'
<1>1. now \in Times
  BY DEF TypeOK, Times
<1>2. table' \in Tables /\ notified' \in Tables
  BY <1>1 DEF TypeOK, Fire, Admitted, Tables
<1>3. /\ unsaved' \in BOOLEAN /\ phase' # "down"
      /\ UNCHANGED <<now, phase, cm, fresh, pc, data, resets, crashes, stops, misloads>>
      /\ mayKnow' = mayKnow \cup {k}
  <2>1. unsaved' \in BOOLEAN
    BY Zenon DEF TypeOK, Fire
  <2> QED BY <2>1 DEF Fire, Working
<1> QED BY <1>2, <1>3 DEF TypeOK

\* Both saves begin with a copy of the table.
LEMMA BeginSaveType ==
    ASSUME TypeOK, NEW w \in Writers, BeginSave(w)
    PROVE  /\ pc' \in [Writers -> {"idle", "get", "put", "create"}]
           /\ data' \in [Writers -> Tables]
<1>1. Truncated(table) \in Tables
  BY TruncatedType DEF TypeOK
<1> QED BY <1>1 DEF TypeOK, BeginSave

LEMMA DieTypeOK ==
    ASSUME TypeOK, Die, unsaved' \in BOOLEAN,
           resets' \in Nat, crashes' \in Nat, stops' \in Nat, misloads' \in Nat
    PROVE  TypeOK'
BY NothingType DEF TypeOK, Die

LEMMA StartTypeOK == ASSUME TypeOK, Start PROVE TypeOK'
<1>1. cm.data \in Tables
  BY DEF TypeOK
<1>2. Restored(Nothing, cm.data) = cm.data
  BY <1>1, RestoredType
<1>3. table' \in Tables
  BY <1>1, <1>2, NothingType DEF Start
<1> QED BY <1>3 DEF TypeOK, Start

LEMMA NextTypeOK == TypeOK /\ [Next]_vars => TypeOK'
<1> SUFFICES ASSUME TypeOK, [Next]_vars PROVE TypeOK'
  OBVIOUS
<1>1. CASE \E w \in Writers : Step(w)
  BY <1>1, StepTypeOK
<1>2. CASE \E k \in Keys : Fire(k)
  BY <1>2, FireTypeOK
<1>3. CASE SnapshotTick
  <2>1. "loop" \in Writers
    BY DEF Writers
  <2> QED BY <1>3, <2>1, BeginSaveType DEF SnapshotTick, TypeOK
<1>4. CASE Reset
  BY <1>4, NothingType DEF Reset, TypeOK, Writers
<1>5. CASE Cancel
  BY <1>5 DEF Cancel, TypeOK
<1>6. CASE BeginFinalSave
  <2>1. "final" \in Writers
    BY DEF Writers
  <2> QED BY <1>6, <2>1, BeginSaveType DEF BeginFinalSave, TypeOK
<1>7. CASE Exit
  BY <1>7, DieTypeOK DEF Exit, TypeOK
<1>8. CASE Crash
  BY <1>8, DieTypeOK DEF Crash, TypeOK
<1>9. CASE Start
  BY <1>9, StartTypeOK
<1>10. CASE Clock
  BY <1>10 DEF Clock, TypeOK
<1>11. CASE UNCHANGED vars
  BY <1>11 DEF vars, TypeOK
<1> QED BY <1>1, <1>2, <1>3, <1>4, <1>5, <1>6, <1>7, <1>8, <1>9, <1>10, <1>11 DEF Next

\* Persistence keeps its types: whatever the orders of requests, crashes and
\* restarts, a dead process holds no table and makes no request.
THEOREM TypeCorrect == Spec => []TypeOK
BY InitTypeOK, NextTypeOK, PTL DEF Spec

-----------------------------------------------------------------------------
(* No suppression outlasts its notification.                               *)

\* What is inductive: entries are earned, and no notification lies ahead of
\* the clock, so that letting a key through again never sets its time back.
EarnedInv == SuppressionIsEarned /\ \A k \in Keys : notified[k] <= now

LEMMA NothingEarned == TypeOK => Earned(Nothing)
BY NothingType DEF TypeOK, Earned, Tables, Times, Never

LEMMA InitEarned == Init => EarnedInv
BY NothingType DEF Init, EarnedInv, SuppressionIsEarned, Earned, Never

\* A copy is no later than what it was made from.
LEMMA TruncatedEarned == TypeOK /\ Earned(table) => Earned(Truncated(table))
<1> SUFFICES ASSUME TypeOK, Earned(table), NEW k \in Keys
             PROVE  Truncated(table)[k] <= notified[k]
  BY DEF Earned
<1>1. table \in Tables /\ notified[k] \in Times /\ table[k] \in Times
  BY DEF TypeOK, Tables
<1>2. Truncated(table) \in Tables /\ Truncated(table)[k] <= table[k]
  BY <1>1, TruncatedType
<1>3. Truncated(table)[k] \in Times /\ table[k] <= notified[k]
  BY <1>2 DEF Tables, Earned
<1>4. \A x, y, z \in Times : x <= y /\ y <= z => x <= z
  BY DEF Times, Never
<1> QED BY <1>1, <1>2, <1>3, <1>4

\* A request moves what the writer holds into the object, if anything.
LEMMA StepEarned ==
    ASSUME TypeOK, EarnedInv, NEW w \in Writers, Step(w)
    PROVE  EarnedInv'
<1>1. UNCHANGED <<now, table, data, notified>>
  BY DEF Step, Get, Put, Create, FailRequest, Reply
<1>2. cm' = cm \/ cm' = [exists |-> TRUE, data |-> data[w]]
  <2>1. CASE Get(w) \/ FailRequest(w)
    BY <2>1 DEF Get, FailRequest
  <2>2. CASE Put(w)
    BY <2>2 DEF Put, Write
  <2>3. CASE Create(w)
    BY <2>3 DEF Create, Write
  <2> QED BY <2>1, <2>2, <2>3 DEF Step
<1>3. cm'.data = cm.data \/ cm'.data = data[w]
  BY <1>2
<1> QED BY <1>1, <1>3 DEF EarnedInv, SuppressionIsEarned, Earned

LEMMA FireEarned ==
    ASSUME TypeOK, EarnedInv, NEW k \in Keys, Fire(k)
    PROVE  EarnedInv'
<1>1. /\ now \in Nat /\ table \in Tables /\ notified \in Tables
      /\ UNCHANGED <<now, cm, data>>
  BY DEF TypeOK, Fire
<1>2. ASSUME NEW j \in Keys
      PROVE  /\ notified'[j] = IF j = k THEN now ELSE notified[j]
             /\ table'[j] = IF j = k THEN now ELSE table[j]
             /\ notified[j] \in Times /\ notified[j] <= now
  BY <1>1 DEF Fire, Admitted, Tables, EarnedInv
<1>3. ASSUME NEW t \in Tables, Earned(t)
      PROVE  \A j \in Keys : t[j] <= notified'[j]
  <2> TAKE j \in Keys
  <2>1. t[j] \in Times /\ t[j] <= notified[j]
    BY <1>3 DEF Tables, Earned
  <2> QED BY <1>1, <1>2, <2>1 DEF Times, Never
<1>4. Earned(cm.data)'
  <2>1. cm.data \in Tables /\ Earned(cm.data)
    BY DEF TypeOK, EarnedInv, SuppressionIsEarned
  <2> QED BY <1>1, <1>3, <2>1 DEF Earned
<1>5. ASSUME NEW w \in Writers PROVE Earned(data[w])'
  <2>1. data[w] \in Tables /\ Earned(data[w])
    BY DEF TypeOK, EarnedInv, SuppressionIsEarned
  <2> QED BY <1>1, <1>3, <2>1 DEF Earned
<1>6. Earned(table)'
  <2>1. ASSUME NEW j \in Keys PROVE table'[j] <= notified'[j]
    <3>1. table[j] <= notified[j]
      BY DEF EarnedInv, SuppressionIsEarned, Earned
    <3> QED BY <1>1, <1>2, <3>1
  <2> QED BY <2>1 DEF Earned
<1>7. \A j \in Keys : notified'[j] <= now'
  BY <1>1, <1>2
<1> QED BY <1>4, <1>5, <1>6, <1>7 DEF EarnedInv, SuppressionIsEarned

\* A save holds a truncated copy, any other writer what it held.
LEMMA BeginSaveEarned ==
    ASSUME TypeOK, EarnedInv, NEW w \in Writers, BeginSave(w),
           UNCHANGED <<now, table, cm, notified>>
    PROVE  EarnedInv'
<1>1. Earned(Truncated(table))
  BY TruncatedEarned DEF EarnedInv, SuppressionIsEarned
<1>2. \A v \in Writers : data'[v] = data[v] \/ data'[v] = Truncated(table)
  BY DEF BeginSave, TypeOK
<1> QED BY <1>1, <1>2 DEF EarnedInv, SuppressionIsEarned, Earned

\* Forgetting the table and what some writers hold takes nothing unearned in.
LEMMA ForgetEarned ==
    ASSUME TypeOK, EarnedInv, UNCHANGED <<now, cm, notified>>,
           table' = Nothing,
           \A w \in Writers : data'[w] = data[w] \/ data'[w] = Nothing
    PROVE  EarnedInv'
BY NothingEarned DEF EarnedInv, SuppressionIsEarned, Earned

LEMMA StartEarned == ASSUME TypeOK, EarnedInv, Start PROVE EarnedInv'
<1>1. Restored(Nothing, cm.data) = cm.data
  BY RestoredType DEF TypeOK
<1>2. table' = cm.data \/ table' = Nothing
  BY <1>1 DEF Start
<1>3. UNCHANGED <<now, cm, data, notified>>
  BY DEF Start
<1> QED BY <1>2, <1>3, NothingEarned DEF EarnedInv, SuppressionIsEarned, Earned

LEMMA ClockEarned == ASSUME TypeOK, EarnedInv, Clock PROVE EarnedInv'
<1>1. UNCHANGED <<table, cm, data, notified>> /\ now' = now + 1 /\ now \in Nat
  BY DEF Clock, TypeOK
<1>2. ASSUME NEW k \in Keys PROVE notified[k] \in Times /\ notified[k] <= now
  BY DEF TypeOK, Tables, EarnedInv
<1>3. ASSUME NEW k \in Keys PROVE notified'[k] <= now'
  BY <1>1, <1>2 DEF Times, Never
<1> QED BY <1>1, <1>3 DEF EarnedInv, SuppressionIsEarned, Earned

LEMMA NextEarned == TypeOK /\ EarnedInv /\ [Next]_vars => EarnedInv'
<1> SUFFICES ASSUME TypeOK, EarnedInv, [Next]_vars PROVE EarnedInv'
  OBVIOUS
<1>1. CASE \E w \in Writers : Step(w)
  BY <1>1, StepEarned
<1>2. CASE \E k \in Keys : Fire(k)
  BY <1>2, FireEarned
<1>3. CASE SnapshotTick
  BY <1>3, BeginSaveEarned DEF SnapshotTick, Writers
<1>4. CASE Reset
  BY <1>4, ForgetEarned DEF Reset, TypeOK
<1>5. CASE Cancel
  BY <1>5 DEF Cancel, EarnedInv, SuppressionIsEarned, Earned
<1>6. CASE BeginFinalSave
  BY <1>6, BeginSaveEarned DEF BeginFinalSave, Writers
<1>7. CASE Exit \/ Crash
  BY <1>7, ForgetEarned DEF Exit, Crash, Die
<1>8. CASE Start
  BY <1>8, StartEarned
<1>9. CASE Clock
  BY <1>9, ClockEarned
<1>10. CASE UNCHANGED vars
  BY <1>10 DEF vars, EarnedInv, SuppressionIsEarned, Earned
<1> QED BY <1>1, <1>2, <1>3, <1>4, <1>5, <1>6, <1>7, <1>8, <1>9, <1>10 DEF Next

\* Through any number of saves, conflicts, resets, crashes and restores, an
\* alert is suppressed only because of a notification at most a window ago.
THEOREM OnlyEarned == Spec => []SuppressionIsEarned
<1>1. Spec => [](TypeOK /\ EarnedInv)
  BY InitTypeOK, NextTypeOK, InitEarned, NextEarned, PTL DEF Spec
<1>2. EarnedInv => SuppressionIsEarned
  BY DEF EarnedInv
<1> QED BY <1>1, <1>2, PTL

-----------------------------------------------------------------------------
(* The saves of kpulse beside each other, and what a restart remembers.    *)

\* While nobody asks for a reset and no load fails.
Quiet == resets = 0 /\ misloads = 0

\* t holds nothing later than u does.
NoLater(t, u) == \A k \in Keys : t[k] <= u[k]

\* t has gone through the format of the ConfigMap.
Whole(t) == Truncated(t) = t

\* A writer that may still get through: the object has not changed since its
\* Get, or that Get is still to come.
MayWrite(w) == \/ pc[w] = "put" /\ fresh[w]
               \/ pc[w] = "get" /\ Alive(w)

\* What keeps the saves in order without a reset: the object and the writers
\* hold copies of the table as it was, the final save runs alone with the rest
\* of the loop's last one, and who may still write holds nothing older than
\* the object does.
SavesInv ==
    /\ pc["clear"] = "idle"
    /\ ~cm.exists => cm.data = Nothing
    /\ Whole(cm.data) /\ \A w \in Writers : Whole(data[w])
    /\ phase # "down" => NoLater(cm.data, table)
    /\ \A w \in Writers : pc[w] # "idle" => NoLater(data[w], table)
    /\ pc["final"] # "idle" => phase = "saving" /\ data["final"] = Truncated(table)
    /\ \A w \in Writers : MayWrite(w) => NoLater(cm.data, data[w])

\* What a process that was not killed remembers of the notifications, and what
\* its final save, if it is over, has left for the next one.
RememberInv ==
    ~unsaved =>
        /\ phase # "down" => NoLater(Truncated(notified), table)
        /\ phase = "down" => NoLater(Truncated(notified), cm.data)
        /\ phase = "saving" /\ pc["final"] = "idle" => NoLater(Truncated(table), cm.data)

QuietInv == Quiet => SavesInv /\ RememberInv

LEMMA NoLaterTransitive ==
    ASSUME NEW s \in Tables, NEW t \in Tables, NEW u \in Tables,
           NoLater(s, t), NoLater(t, u)
    PROVE  NoLater(s, u)
<1> SUFFICES ASSUME NEW k \in Keys PROVE s[k] <= u[k]
  BY DEF NoLater
<1>1. s[k] \in Int /\ t[k] \in Int /\ u[k] \in Int
  BY DEF Tables, Times, Never
<1>2. s[k] <= t[k] /\ t[k] <= u[k]
  BY DEF NoLater
<1> QED BY <1>1, <1>2

LEMMA NothingNoLater == ASSUME NEW t \in Tables PROVE NoLater(Nothing, t)
BY NothingType DEF NoLater, Tables, Times, Never

LEMMA NoLaterReflexive == ASSUME NEW t \in Tables PROVE NoLater(t, t)
BY DEF NoLater, Tables, Times, Never

LEMMA FloorGrows ==
    ASSUME NEW g \in Nat \ {0}, NEW x \in Nat, NEW y \in Nat, x <= y
    PROVE  g * (x \div g) <= g * (y \div g)
<1>1. x \div g \in Nat /\ y \div g \in Nat /\ x \div g <= y \div g
  OBVIOUS
<1> QED BY <1>1

LEMMA FloorAgain ==
    ASSUME NEW g \in Nat \ {0}, NEW x \in Nat
    PROVE  g * ((g * (x \div g)) \div g) = g * (x \div g)
<1>1. PICK q \in Nat : q = x \div g
  OBVIOUS
<1>2. (g * q) \div g = q
  OBVIOUS
<1> QED BY <1>1, <1>2

LEMMA FloorNear ==
    ASSUME NEW g \in Nat \ {0}, NEW x \in Nat
    PROVE  x < g * (x \div g) + g
OBVIOUS

LEMMA TruncatedAt ==
    ASSUME NEW t \in Tables, NEW k \in Keys
    PROVE  /\ t[k] \in Times
           /\ t[k] = Never => Truncated(t)[k] = Never
           /\ t[k] # Never => /\ t[k] \in Nat
                              /\ Truncated(t)[k] = Grain * (t[k] \div Grain)
BY DEF Tables, Times, Truncated

\* The format keeps the order, and a copy that went through it comes back as
\* it was.
LEMMA TruncatedGrows ==
    ASSUME NEW t \in Tables, NEW u \in Tables, NoLater(t, u)
    PROVE  NoLater(Truncated(t), Truncated(u))
<1> SUFFICES ASSUME NEW k \in Keys PROVE Truncated(t)[k] <= Truncated(u)[k]
  BY DEF NoLater
<1>1. t[k] <= u[k]
  BY DEF NoLater
<1>2. Truncated(u)[k] \in Times
  BY TruncatedType DEF Tables
<1>3. CASE t[k] = Never
  BY <1>2, <1>3, TruncatedAt DEF Times, Never
<1>4. CASE t[k] # Never
  <2>1. t[k] \in Nat /\ u[k] \in Times
    BY <1>4, TruncatedAt
  <2>2. u[k] \in Nat /\ u[k] # Never
    BY <1>1, <2>1 DEF Times, Never
  <2>3. Grain * (t[k] \div Grain) <= Grain * (u[k] \div Grain)
    BY <1>1, <2>1, <2>2, FloorGrows, PersistenceAssumption
  <2> QED BY <1>4, <2>2, <2>3, TruncatedAt
<1> QED BY <1>3, <1>4

LEMMA TruncatedWhole == ASSUME NEW t \in Tables PROVE Whole(Truncated(t))
<1>1. Truncated(t) \in Tables
  BY TruncatedType
<1>2. ASSUME NEW k \in Keys
      PROVE  Truncated(Truncated(t))[k] = Truncated(t)[k]
  <2>1. CASE t[k] = Never
    BY <1>1, <2>1, TruncatedAt
  <2>2. CASE t[k] # Never
    <3>1. t[k] \in Nat /\ Truncated(t)[k] = Grain * (t[k] \div Grain)
      BY <2>2, TruncatedAt
    <3>2. Truncated(t)[k] # Never
      BY <3>1, FloorBounds, PersistenceAssumption DEF Never
    <3>3. Truncated(Truncated(t))[k] = Grain * (Truncated(t)[k] \div Grain)
      BY <1>1, <3>2, TruncatedAt
    <3> QED BY <3>1, <3>3, FloorAgain, PersistenceAssumption
  <2> QED BY <2>1, <2>2
<1>3. Truncated(Truncated(t)) \in Tables
  BY <1>1, TruncatedType
<1> QED BY <1>1, <1>2, <1>3 DEF Whole, Tables

LEMMA NothingWhole == Whole(Nothing)
BY NothingType DEF Whole, Truncated, Nothing, Forgotten

LEMMA TruncatedNoLater == ASSUME NEW t \in Tables PROVE NoLater(Truncated(t), t)
BY TruncatedType DEF NoLater

\* A copy that is no later than a table is none later than that table's copy.
LEMMA WholeNoLater ==
    ASSUME NEW t \in Tables, NEW u \in Tables, Whole(t), NoLater(t, u)
    PROVE  NoLater(t, Truncated(u))
BY TruncatedGrows DEF Whole

-----------------------------------------------------------------------------
(* The order of the saves.                                                 *)

LEMMA InitSaves == Init => SavesInv /\ RememberInv
<1> SUFFICES ASSUME Init PROVE SavesInv /\ RememberInv
  OBVIOUS
<1>1. cm.data = Nothing /\ phase = "down" /\ notified = Nothing
      /\ \A w \in Writers : pc[w] = "idle" /\ data[w] = Nothing
  BY DEF Init
<1>2. SavesInv
  BY <1>1, NothingWhole DEF SavesInv, Writers, MayWrite
<1>3. Truncated(Nothing) = Nothing
  BY NothingWhole DEF Whole
<1>4. NoLater(Nothing, Nothing)
  BY NothingType, NoLaterReflexive
<1> QED BY <1>1, <1>2, <1>3, <1>4 DEF RememberInv

\* The loop's save holds nothing later than the final one.
LEMMA FinalIsLatest ==
    ASSUME TypeOK, SavesInv, pc["final"] # "idle", NEW w \in Writers, pc[w] # "idle"
    PROVE  NoLater(data[w], data["final"])
<1>1. data[w] \in Tables /\ table \in Tables
  BY DEF TypeOK
<1>2. Whole(data[w]) /\ NoLater(data[w], table) /\ data["final"] = Truncated(table)
  BY DEF SavesInv
<1> QED BY <1>1, <1>2, WholeNoLater

\* What a request leaves: who makes it, and what it may write.
LEMMA StepForm ==
    ASSUME TypeOK, SavesInv, NEW w \in Writers, Step(w)
    PROVE  /\ pc[w] # "idle" /\ phase # "down" /\ w # "clear"
           /\ UNCHANGED <<now, table, phase, data, notified, resets, misloads>>
           /\ \A v \in Writers : v # w => pc'[v] = pc[v]
           /\ unsaved => unsaved'
           /\ \/ cm' = cm /\ (pc'[w] = "idle" /\ w = "final" => unsaved' \/ cm.data = data[w])
              \/ /\ cm' = [exists |-> TRUE, data |-> data[w]]
                 /\ pc'[w] = "idle"
                 /\ NoLater(cm.data, data[w])
<1>1. /\ pc[w] # "idle" /\ phase # "down"
      /\ UNCHANGED <<now, table, phase, data, notified, resets, misloads>>
  BY DEF Step, Get, Put, Create, FailRequest, Reply, Alive
<1>2. w # "clear"
  BY <1>1 DEF SavesInv
<1>3. \A v \in Writers : v # w => pc'[v] = pc[v]
  BY DEF Step, Get, Put, Create, FailRequest, Return, TypeOK
<1>4. unsaved => unsaved'
  <2>1. ASSUME NEW ok \in BOOLEAN, Return(w, ok) PROVE unsaved => unsaved'
    BY <2>1, Zenon DEF Return
  <2>2. CASE Get(w)
    BY <2>1, <2>2, Zenon DEF Get
  <2>3. CASE Put(w)
    <3>1. fresh[w] \in BOOLEAN
      BY DEF TypeOK
    <3> QED BY <2>1, <2>3, <3>1, Zenon DEF Put
  <2>4. CASE Create(w)
    <3>1. (~cm.exists) \in BOOLEAN
      OBVIOUS
    <3> QED BY <2>1, <2>4, <3>1, Zenon DEF Create
  <2>5. CASE FailRequest(w)
    BY <2>1, <2>5, Zenon DEF FailRequest
  <2> QED BY <2>2, <2>3, <2>4, <2>5 DEF Step
<1>5. \/ cm' = cm /\ (pc'[w] = "idle" /\ w = "final" => unsaved' \/ cm.data = data[w])
      \/ /\ cm' = [exists |-> TRUE, data |-> data[w]]
         /\ pc'[w] = "idle"
         /\ NoLater(cm.data, data[w])
  <2>1. ASSUME Return(w, FALSE) PROVE w = "final" => unsaved'
    BY <2>1, Zenon DEF Return
  <2>2. CASE Get(w)
    <3>1. w # "clear" => pc'[w] # "idle"
      BY <2>2 DEF Get, TypeOK
    <3> QED BY <2>2, <3>1, <1>2 DEF Get
  <2>3. CASE Put(w)
    <3>1. CASE fresh[w]
      <4>1. cm' = [exists |-> TRUE, data |-> data[w]] /\ pc'[w] = "idle"
        BY <2>3, <3>1 DEF Put, Write, Return, TypeOK
      <4>2. NoLater(cm.data, data[w])
        BY <2>3, <3>1 DEF Put, SavesInv, MayWrite
      <4> QED BY <4>1, <4>2
    <3>2. CASE ~fresh[w]
      <4>1. Return(w, FALSE)
        <5>1. fresh[w] = FALSE
          BY <3>2 DEF TypeOK
        <5> QED BY <2>3, <5>1 DEF Put
      <4>2. cm' = cm
        BY <2>3, <3>2 DEF Put
      <4> QED BY <2>1, <4>1, <4>2
    <3> QED BY <3>1, <3>2
  <2>4. CASE Create(w)
    <3>1. CASE ~cm.exists
      <4>1. cm' = [exists |-> TRUE, data |-> data[w]] /\ pc'[w] = "idle"
        BY <2>4, <3>1 DEF Create, Write, Return, TypeOK
      <4>2. cm.data = Nothing /\ data[w] \in Tables
        BY <3>1 DEF SavesInv, TypeOK
      <4> QED BY <4>1, <4>2, NothingNoLater
    <3>2. CASE cm.exists
      <4>1. Return(w, FALSE)
        <5>1. (~cm.exists) = FALSE
          BY <3>2
        <5> QED BY <2>4, <5>1 DEF Create
      <4>2. cm' = cm
        BY <2>4, <3>2 DEF Create
      <4> QED BY <2>1, <4>1, <4>2
    <3> QED BY <3>1, <3>2
  <2>5. CASE FailRequest(w)
    BY <2>1, <2>5 DEF FailRequest
  <2> QED BY <2>2, <2>3, <2>4, <2>5 DEF Step
<1> QED BY <1>1, <1>2, <1>3, <1>4, <1>5

\* Who may write after a request could before it, and holds what it held.
LEMMA StepMayWrite ==
    ASSUME TypeOK, SavesInv, NEW w \in Writers, Step(w), NEW v \in Writers, MayWrite(v)'
    PROVE  /\ MayWrite(v)
           /\ \/ cm' = cm
              \/ (v = "final" /\ pc[v] # "idle")
<1>1. /\ pc' \in [Writers -> {"idle", "get", "put", "create"}]
      /\ phase' = phase /\ pc[w] # "idle" /\ phase # "down" /\ w # "clear"
  BY StepTypeOK, StepForm DEF TypeOK
<1>2. CASE Get(w)
  <2>1. cm' = cm
    BY <1>2 DEF Get
  <2>2. CASE v = w
    <3>1. pc'[v] # "get" /\ pc[v] = "get" /\ Alive(v)
      BY <1>1, <1>2, <2>2 DEF Get, TypeOK
    <3> QED BY <2>1, <3>1 DEF MayWrite
  <2>3. CASE v # w
    <3>1. pc'[v] = pc[v] /\ fresh'[v] = fresh[v]
      BY <1>2, <2>3, <1>1 DEF Get, Return, TypeOK
    <3> QED BY <1>1, <2>1, <3>1 DEF MayWrite, Alive
  <2> QED BY <2>2, <2>3
<1>3. CASE ~Get(w)
  <2>1. pc'[w] = "idle" /\ \A u \in Writers : u # w => pc'[u] = pc[u]
    BY <1>3 DEF Step, Put, Create, FailRequest, Return, TypeOK
  <2>2. v # w /\ pc'[v] = pc[v]
    BY <2>1 DEF MayWrite
  <2>3. \/ cm' = cm /\ fresh' = fresh
        \/ fresh' = [u \in Writers |-> FALSE]
    BY <1>3 DEF Step, Put, Create, FailRequest, Write
  <2>4. CASE cm' = cm /\ fresh' = fresh
    BY <1>1, <2>2, <2>4 DEF MayWrite, Alive
  <2>5. CASE fresh' = [u \in Writers |-> FALSE]
    <3>1. pc[v] = "get" /\ Alive(v)
      BY <1>1, <2>2, <2>5 DEF MayWrite, Alive
    <3>2. v = "final"
      <4>1. v # "clear"
        BY <3>1 DEF SavesInv
      <4>2. w = "final" => phase = "saving"
        BY <1>1 DEF SavesInv
      <4>3. v = "loop" => phase = "up" /\ w = "final"
        BY <1>1, <2>2, <3>1 DEF Alive, Writers
      <4> QED BY <4>1, <4>2, <4>3 DEF Writers
    <3> QED BY <3>1, <3>2 DEF MayWrite
  <2> QED BY <2>3, <2>4, <2>5
<1> QED BY <1>2, <1>3

LEMMA StepSaves ==
    ASSUME TypeOK, SavesInv, NEW w \in Writers, Step(w)
    PROVE  SavesInv'
<1>1. /\ pc[w] # "idle" /\ phase # "down" /\ w # "clear"
      /\ UNCHANGED <<table, phase, data>>
      /\ \A v \in Writers : v # w => pc'[v] = pc[v]
  BY StepForm
<1>2. cm' = cm \/ cm' = [exists |-> TRUE, data |-> data[w]]
  BY StepForm
<1>3. pc'["clear"] = "idle"
  BY <1>1 DEF SavesInv, Writers
<1>4. ~cm'.exists => cm'.data = Nothing
  BY <1>2 DEF SavesInv
<1>5. Whole(cm'.data) /\ \A v \in Writers : Whole(data'[v])
  BY <1>1, <1>2 DEF SavesInv
<1>6. NoLater(cm'.data, table')
  BY <1>1, <1>2 DEF SavesInv
<1>7. \A v \in Writers : pc'[v] # "idle" => pc[v] # "idle"
  BY <1>1
<1>8. \A v \in Writers : pc'[v] # "idle" => NoLater(data'[v], table')
  BY <1>1, <1>7 DEF SavesInv
<1>9. pc'["final"] # "idle" => phase' = "saving" /\ data'["final"] = Truncated(table')
  BY <1>1, <1>7 DEF SavesInv, Writers
<1>10. ASSUME NEW v \in Writers, MayWrite(v)' PROVE NoLater(cm'.data, data'[v])
  <2>1. MayWrite(v) /\ (cm' = cm \/ (v = "final" /\ pc[v] # "idle"))
    BY <1>10, StepMayWrite
  <2>2. NoLater(cm.data, data[v])
    BY <2>1 DEF SavesInv
  <2>3. CASE cm' = cm
    BY <1>1, <2>2, <2>3
  <2>4. CASE cm' # cm
    <3>1. cm'.data = data[w] /\ v = "final" /\ pc["final"] # "idle"
      BY <1>2, <2>1, <2>4
    <3> QED BY <1>1, <3>1, FinalIsLatest
  <2> QED BY <2>3, <2>4
<1>11. Whole(cm.data)' /\ \A v \in Writers : Whole(data[v])'
  BY <1>5 DEF Whole, Truncated
<1>12. (pc["final"] # "idle" => phase = "saving" /\ data["final"] = Truncated(table))'
  BY <1>9 DEF Truncated
<1> QED BY <1>3, <1>4, <1>6, <1>8, <1>10, <1>11, <1>12 DEF SavesInv, NoLater

\* A request never makes the object older.
LEMMA StepNeverBack ==
    ASSUME TypeOK, SavesInv, NEW w \in Writers, Step(w)
    PROVE  NoLater(cm.data, cm'.data)
<1>1. cm.data \in Tables
  BY DEF TypeOK
<1>2. cm' = cm \/ (cm' = [exists |-> TRUE, data |-> data[w]] /\ NoLater(cm.data, data[w]))
  BY StepForm
<1> QED BY <1>1, <1>2, NoLaterReflexive

LEMMA StepRemember ==
    ASSUME TypeOK, SavesInv, RememberInv, NEW w \in Writers, Step(w)
    PROVE  RememberInv'
<1> SUFFICES ASSUME ~unsaved'
             PROVE  /\ NoLater(Truncated(notified), table)'
                    /\ phase' # "down"
                    /\ (phase = "saving" /\ pc["final"] = "idle" => NoLater(Truncated(table), cm.data))'
  BY DEF RememberInv
<1>1. /\ phase # "down" /\ ~unsaved
      /\ UNCHANGED <<table, phase, notified>>
      /\ \A v \in Writers : v # w => pc'[v] = pc[v]
  BY StepForm
<1>2. phase' # "down" /\ NoLater(Truncated(notified), table)'
  BY <1>1 DEF RememberInv, NoLater, Truncated
<1>3. ASSUME phase' = "saving", pc'["final"] = "idle"
      PROVE  NoLater(Truncated(table), cm'.data)
  <2>1. Truncated(table) \in Tables /\ cm.data \in Tables /\ cm'.data \in Tables
    BY TruncatedType, StepTypeOK DEF TypeOK
  <2>2. CASE pc["final"] = "idle"
    <3>1. NoLater(Truncated(table), cm.data)
      BY <1>1, <1>3, <2>2 DEF RememberInv
    <3> QED BY <2>1, <3>1, StepNeverBack, NoLaterTransitive
  <2>3. CASE pc["final"] # "idle"
    <3>1. w = "final" /\ data[w] = Truncated(table)
      BY <1>1, <1>3, <2>3 DEF Writers, SavesInv
    <3>2. cm'.data = data[w]
      BY <1>3, <3>1, StepForm
    <3> QED BY <2>1, <3>1, <3>2, NoLaterReflexive
  <2> QED BY <2>2, <2>3
<1>4. (phase = "saving" /\ pc["final"] = "idle" => NoLater(Truncated(table), cm.data))'
  BY <1>1, <1>3 DEF NoLater, Truncated
<1> QED BY <1>2, <1>4

\* What the steps leave that touch neither the object nor the writers.
LEMMA FireSaves ==
    ASSUME TypeOK, EarnedInv, SavesInv, RememberInv, NEW k \in Keys, Fire(k)
    PROVE  SavesInv' /\ RememberInv'
<1>1. /\ phase \in {"up", "draining"}
      /\ UNCHANGED <<now, phase, cm, fresh, pc, data, unsaved>>
      /\ table' = [table EXCEPT ![k] = now] /\ notified' = [notified EXCEPT ![k] = now]
  <2>1. unsaved' = unsaved
    BY Zenon DEF Fire
  <2> QED BY <2>1 DEF Fire, Working, Admitted
<1>2. table \in Tables /\ table' \in Tables /\ cm.data \in Tables
      /\ now \in Nat /\ notified \in Tables /\ notified' \in Tables
  BY FireTypeOK DEF TypeOK
<1>3. NoLater(table, table')
  <2> SUFFICES ASSUME NEW j \in Keys PROVE table[j] <= table'[j]
    BY DEF NoLater
  <2>1. table[j] \in Times /\ notified[j] \in Times
        /\ table[j] <= notified[j] /\ notified[j] <= now
    BY <1>2 DEF EarnedInv, SuppressionIsEarned, Earned, Tables
  <2>2. table[j] <= now /\ table[j] <= table[j]
    BY <1>2, <2>1 DEF Times, Never
  <2> QED BY <1>1, <1>2, <2>2 DEF Tables
<1>4. pc["final"] = "idle"
  BY <1>1 DEF SavesInv
<1>5. SavesInv'
  <2>1. NoLater(cm.data, table)'
    <3>1. NoLater(cm.data, table)
      BY <1>1 DEF SavesInv
    <3>2. NoLater(cm.data, table')
      BY <1>2, <1>3, <3>1, NoLaterTransitive
    <3> QED BY <1>1, <3>2 DEF NoLater
  <2>2. ASSUME NEW w \in Writers, pc[w] # "idle" PROVE NoLater(data[w], table')
    <3>1. data[w] \in Tables /\ NoLater(data[w], table)
      BY <2>2 DEF TypeOK, SavesInv
    <3> QED BY <1>2, <1>3, <3>1, NoLaterTransitive
  <2>3. \A w \in Writers : MayWrite(w)' => MayWrite(w)
    BY <1>1 DEF MayWrite, Alive
  <2>4. (\A w \in Writers : pc[w] # "idle" => NoLater(data[w], table))'
    BY <1>1, <2>2 DEF NoLater
  <2>5. (\A w \in Writers : MayWrite(w) => NoLater(cm.data, data[w]))'
    BY <1>1, <2>3 DEF SavesInv, NoLater
  <2>6. (Whole(cm.data) /\ \A w \in Writers : Whole(data[w]))'
    BY <1>1 DEF SavesInv, Whole, Truncated
  <2> QED BY <1>1, <1>4, <2>1, <2>4, <2>5, <2>6 DEF SavesInv
<1>6. RememberInv'
  <2> SUFFICES ASSUME ~unsaved' PROVE NoLater(Truncated(notified'), table')
    BY <1>1 DEF RememberInv, NoLater, Truncated
  <2>1. NoLater(Truncated(notified), table) /\ Truncated(notified') \in Tables
    BY <1>1, <1>2, TruncatedType DEF RememberInv
  <2> SUFFICES ASSUME NEW j \in Keys PROVE Truncated(notified')[j] <= table'[j]
    BY DEF NoLater
  <2>2. CASE j = k
    BY <1>1, <1>2, <2>2, TruncatedType DEF Tables
  <2>3. CASE j # k
    <3>1. Truncated(notified')[j] = Truncated(notified)[j] /\ table'[j] = table[j]
      BY <1>1, <1>2, <2>3 DEF Truncated, Tables
    <3> QED BY <2>1, <3>1 DEF NoLater
  <2> QED BY <2>2, <2>3
<1> QED BY <1>5, <1>6

\* A save begins with a copy that is no older than the object.
LEMMA BeginSaveSaves ==
    ASSUME TypeOK, SavesInv, NEW w \in {"loop", "final"}, BeginSave(w),
           UNCHANGED <<table, cm, fresh>>,
           phase \in {"up", "draining"},
           phase' = IF w = "final" THEN "saving" ELSE phase
    PROVE  SavesInv'
<1>1. PICK d : d = Truncated(table)
  OBVIOUS
<1>2. /\ d \in Tables /\ Whole(d) /\ NoLater(d, table) /\ table \in Tables
      /\ cm.data \in Tables /\ NoLater(cm.data, d)
  BY <1>1, TruncatedType, TruncatedWhole, TruncatedNoLater, WholeNoLater
     DEF TypeOK, SavesInv
<1>3. /\ pc[w] = "idle"
      /\ pc' = [pc EXCEPT ![w] = "get"] /\ data' = [data EXCEPT ![w] = d]
      /\ pc \in [Writers -> {"idle", "get", "put", "create"}]
      /\ data \in [Writers -> Tables] /\ w \in Writers
  BY <1>1 DEF BeginSave, TypeOK, Writers
<1>4. pc["clear"] = "idle" /\ pc["final"] = "idle"
  BY DEF SavesInv
<1>5. pc'["clear"] = "idle"
  BY <1>3, <1>4 DEF Writers
<1>6. ASSUME NEW v \in Writers PROVE Whole(data'[v])
  BY <1>2, <1>3 DEF SavesInv
<1>7. ASSUME NEW v \in Writers, pc'[v] # "idle" PROVE NoLater(data'[v], table)
  BY <1>2, <1>3, <1>7 DEF SavesInv
<1>8. pc'["final"] # "idle" => phase' = "saving" /\ data'["final"] = d
  BY <1>3, <1>4 DEF Writers
<1>9. ASSUME NEW v \in Writers, MayWrite(v)' PROVE NoLater(cm.data, data'[v])
  <2>1. CASE v = w
    BY <1>2, <1>3, <2>1
  <2>2. CASE v # w
    <3>1. pc'[v] = pc[v] /\ data'[v] = data[v]
      BY <1>3, <2>2
    <3>2. MayWrite(v)
      BY <1>9, <3>1 DEF MayWrite, Alive
    <3> QED BY <3>1, <3>2 DEF SavesInv
  <2> QED BY <2>1, <2>2
<1>10. (Whole(cm.data) /\ \A v \in Writers : Whole(data[v]))'
  BY <1>6 DEF SavesInv, Whole, Truncated
<1>11. (phase # "down" => NoLater(cm.data, table))'
  BY DEF SavesInv, NoLater
<1>12. (\A v \in Writers : pc[v] # "idle" => NoLater(data[v], table))'
  BY <1>7 DEF NoLater
<1>13. (\A v \in Writers : MayWrite(v) => NoLater(cm.data, data[v]))'
  BY <1>9 DEF NoLater
<1>14. (pc["final"] # "idle" => phase = "saving" /\ data["final"] = Truncated(table))'
  BY <1>1, <1>8 DEF Truncated
<1>15. (~cm.exists => cm.data = Nothing)'
  BY DEF SavesInv
<1> QED BY <1>5, <1>10, <1>11, <1>12, <1>13, <1>14, <1>15 DEF SavesInv

LEMMA TickSaves ==
    ASSUME TypeOK, SavesInv, RememberInv, SnapshotTick
    PROVE  SavesInv' /\ RememberInv'
<1>1. /\ phase = "up" /\ BeginSave("loop")
      /\ UNCHANGED <<table, phase, cm, fresh, notified>>
  BY DEF SnapshotTick
<1>2. unsaved' = unsaved
  BY Zenon DEF SnapshotTick
<1>3. SavesInv'
  BY <1>1, BeginSaveSaves
<1>4. RememberInv'
  BY <1>1, <1>2 DEF RememberInv, NoLater, Truncated
<1> QED BY <1>3, <1>4

LEMMA FinalSaves ==
    ASSUME TypeOK, SavesInv, RememberInv, BeginFinalSave
    PROVE  SavesInv' /\ RememberInv'
<1>1. /\ phase = "draining" /\ phase' = "saving" /\ BeginSave("final")
      /\ UNCHANGED <<table, cm, fresh, notified>>
  BY DEF BeginFinalSave
<1>2. unsaved' = unsaved
  BY Zenon DEF BeginFinalSave
<1>3. SavesInv'
  BY <1>1, BeginSaveSaves
<1>4. pc'["final"] = "get"
  BY <1>1 DEF BeginSave, TypeOK, Writers
<1>5. RememberInv'
  BY <1>1, <1>2, <1>4 DEF RememberInv, NoLater, Truncated
<1> QED BY <1>3, <1>5

\* The process ends: after its final save if it was not killed.
LEMMA DieSaves ==
    ASSUME TypeOK, SavesInv, RememberInv, Die, phase # "down",
           \/ unsaved' = TRUE
           \/ phase = "saving" /\ pc["final"] = "idle" /\ unsaved' = unsaved
    PROVE  SavesInv' /\ RememberInv'
<1>1. /\ phase' = "down" /\ cm' = cm /\ notified' = notified
      /\ \A w \in Writers : pc'[w] = "idle" /\ data'[w] = Nothing
  BY DEF Die
<1>2. SavesInv'
  <2>1. Whole(cm.data)' /\ (~cm.exists => cm.data = Nothing)'
    BY <1>1 DEF SavesInv, Whole, Truncated
  <2>2. (\A w \in Writers : Whole(data[w]))'
    BY <1>1, NothingWhole DEF Whole, Truncated, Nothing, Forgotten
  <2> QED BY <1>1, <2>1, <2>2 DEF SavesInv, MayWrite, Writers
<1>3. RememberInv'
  <2> SUFFICES ASSUME ~unsaved' PROVE NoLater(Truncated(notified), cm.data)
    BY <1>1 DEF RememberInv, NoLater, Truncated
  <2>1. phase = "saving" /\ pc["final"] = "idle" /\ ~unsaved
    OBVIOUS
  <2>2. NoLater(Truncated(notified), table) /\ NoLater(Truncated(table), cm.data)
    BY <2>1 DEF RememberInv
  <2>3. /\ Truncated(notified) \in Tables /\ Whole(Truncated(notified))
        /\ table \in Tables /\ Truncated(table) \in Tables /\ cm.data \in Tables
    BY TruncatedType, TruncatedWhole DEF TypeOK
  <2>4. NoLater(Truncated(notified), Truncated(table))
    BY <2>2, <2>3, WholeNoLater
  <2> QED BY <2>2, <2>3, <2>4, NoLaterTransitive
<1> QED BY <1>2, <1>3

\* A start takes over what the object holds.
LEMMA StartSaves ==
    ASSUME TypeOK, SavesInv, RememberInv, Start, misloads' = misloads
    PROVE  SavesInv' /\ RememberInv'
<1>1. /\ phase = "down" /\ phase' = "up" /\ table' = cm.data
      /\ UNCHANGED <<cm, fresh, pc, data, notified>>
      /\ \A w \in Writers : pc[w] = "idle"
  BY RestoredType DEF Start, TypeOK
<1>2. unsaved' = unsaved
  BY Zenon DEF Start
<1>3. cm.data \in Tables
  BY DEF TypeOK
<1>4. SavesInv'
  <2>1. (Whole(cm.data) /\ \A w \in Writers : Whole(data[w]))'
    BY <1>1 DEF SavesInv, Whole, Truncated
  <2>2. NoLater(cm.data, table)'
    BY <1>1, <1>3, NoLaterReflexive DEF NoLater
  <2> QED BY <1>1, <2>1, <2>2 DEF SavesInv, MayWrite, Writers
<1>5. RememberInv'
  BY <1>1, <1>2 DEF RememberInv, NoLater, Truncated
<1> QED BY <1>4, <1>5

LEMMA QuietStays ==
    ASSUME TypeOK, [Next]_vars, Quiet'
    PROVE  /\ Quiet
           /\ ~Reset
           /\ Start => misloads' = misloads
<1>1. resets \in Nat /\ misloads \in Nat /\ resets' = 0 /\ misloads' = 0
  BY DEF TypeOK, Quiet
<1>2. /\ resets' = resets \/ resets' = resets + 1
      /\ misloads' = misloads \/ misloads' = misloads + 1
  BY DEF Next, vars, Step, Get, Put, Create, FailRequest, Reply, Fire, SnapshotTick,
         Reset, Cancel, BeginFinalSave, Exit, Crash, Start, Clock
<1>3. Reset => resets' = resets + 1
  BY DEF Reset
<1> QED BY <1>1, <1>2, <1>3 DEF Quiet

LEMMA NextSaves == TypeOK /\ EarnedInv /\ QuietInv /\ [Next]_vars => QuietInv'
<1> SUFFICES ASSUME TypeOK, EarnedInv, QuietInv, [Next]_vars, Quiet'
             PROVE  SavesInv' /\ RememberInv'
  BY DEF QuietInv
<1>1. SavesInv /\ RememberInv /\ ~Reset /\ (Start => misloads' = misloads)
  BY QuietStays DEF QuietInv
<1>2. CASE \E w \in Writers : Step(w)
  BY <1>1, <1>2, StepSaves, StepRemember
<1>3. CASE \E k \in Keys : Fire(k)
  BY <1>1, <1>3, FireSaves
<1>4. CASE SnapshotTick
  BY <1>1, <1>4, TickSaves
<1>5. CASE Cancel
  <2>1. /\ phase = "up" /\ phase' = "draining"
        /\ UNCHANGED <<table, cm, fresh, pc, data, notified>>
    BY <1>5 DEF Cancel
  <2>2. unsaved' = unsaved
    BY <1>5, Zenon DEF Cancel
  <2>3. \A w \in Writers : MayWrite(w)' => MayWrite(w)
    BY <2>1 DEF MayWrite, Alive
  <2>4. SavesInv'
    BY <1>1, <2>1, <2>3 DEF SavesInv, NoLater, Whole, Truncated
  <2>5. RememberInv'
    BY <1>1, <2>1, <2>2 DEF RememberInv, NoLater, Truncated
  <2> QED BY <2>4, <2>5
<1>6. CASE BeginFinalSave
  BY <1>1, <1>6, FinalSaves
<1>7. CASE Exit
  <2>1. phase = "saving" /\ pc["final"] = "idle" /\ Die
    BY <1>7 DEF Exit
  <2>2. unsaved' = unsaved
    BY <1>7, Zenon DEF Exit
  <2> QED BY <1>1, <2>1, <2>2, DieSaves
<1>8. CASE Crash
  <2>1. phase # "down" /\ Die /\ unsaved' = TRUE
    BY <1>8 DEF Crash
  <2> QED BY <1>1, <2>1, DieSaves
<1>9. CASE Start
  BY <1>1, <1>9, StartSaves
<1>10. CASE Clock \/ UNCHANGED vars
  <2>1. UNCHANGED <<table, phase, cm, fresh, pc, data, notified>>
    BY <1>10 DEF Clock, vars
  <2>2. unsaved' = unsaved
    BY <1>10, Zenon DEF Clock, vars
  <2>3. \A w \in Writers : MayWrite(w)' => MayWrite(w)
    BY <2>1 DEF MayWrite, Alive
  <2>4. SavesInv'
    BY <1>1, <2>1, <2>3 DEF SavesInv, NoLater, Whole, Truncated
  <2>5. RememberInv'
    BY <1>1, <2>1, <2>2 DEF RememberInv, NoLater, Truncated
  <2> QED BY <2>4, <2>5
<1> QED BY <1>1, <1>2, <1>3, <1>4, <1>5, <1>6, <1>7, <1>8, <1>9, <1>10 DEF Next

LEMMA SpecSaves == Spec => [](TypeOK /\ EarnedInv /\ QuietInv)
<1>1. Init => QuietInv
  BY InitSaves DEF QuietInv
<1> QED BY <1>1, InitTypeOK, NextTypeOK, InitEarned, NextEarned, NextSaves, PTL DEF Spec

\* Only a request writes the object, and only Fire lets a key through.
LEMMA OnlyStepWrites ==
    ASSUME [Next]_vars, cm' # cm PROVE \E w \in Writers : Step(w)
BY DEF Next, vars, Fire, SnapshotTick, Reset, Cancel, BeginFinalSave, Exit, Crash, Start,
       Clock, Die

LEMMA OnlyFireNotifies ==
    ASSUME TypeOK, [Next]_vars, NEW k \in Keys, notified'[k] # notified[k]
    PROVE  Fire(k)
<1>1. notified' # notified
  OBVIOUS
<1>2. PICK j \in Keys : Fire(j)
  BY <1>1 DEF Next, vars, Step, Get, Put, Create, FailRequest, Reply, SnapshotTick, Reset,
              Cancel, BeginFinalSave, Exit, Crash, Start, Clock, Die
<1>3. notified' = [notified EXCEPT ![j] = now] /\ notified \in Tables
  BY <1>2 DEF Fire, TypeOK
<1> QED BY <1>2, <1>3 DEF Tables

\* The loop's last save and the final one of main run beside each other, and no
\* order of their requests, refused and failed ones included, leaves the object
\* older than it was.
THEOREM SavesAreOrdered == Spec => SavesNeverGoBack
<1> DEFINE Ordered == \A k \in Keys : cm.data[k] <= cm'.data[k]
<1>1. TypeOK /\ QuietInv /\ [Next]_vars => (Quiet => Ordered)
  <2> SUFFICES ASSUME TypeOK, SavesInv, [Next]_vars PROVE Ordered
    BY DEF QuietInv
  <2>1. CASE cm' = cm
    BY <2>1, NoLaterReflexive DEF TypeOK, NoLater
  <2>2. CASE cm' # cm
    BY <2>2, OnlyStepWrites, StepNeverBack DEF NoLater
  <2> QED BY <2>1, <2>2
<1>2. Spec => [][Quiet => Ordered]_vars
  BY <1>1, SpecSaves, PTL DEF Spec
<1> QED BY <1>2 DEF SavesNeverGoBack, Quiet

\* Whatever was saved when, kpulse does not notify again of what the object
\* says was notified less than a window ago.
THEOREM SavedIsHeeded == Spec => SavedNotRefired
<1> DEFINE Heeded == \A k \in Keys : notified'[k] # notified[k] =>
                        cm.data[k] = Never \/ now - cm.data[k] >= Window
<1>1. TypeOK /\ QuietInv /\ [Next]_vars => (Quiet => Heeded)
  <2> SUFFICES ASSUME TypeOK, SavesInv, [Next]_vars,
                      NEW k \in Keys, notified'[k] # notified[k]
               PROVE  cm.data[k] = Never \/ now - cm.data[k] >= Window
    BY DEF QuietInv
  <2>1. Fire(k)
    BY OnlyFireNotifies
  <2>2. phase # "down" /\ (table[k] = Never \/ now - table[k] >= Window)
    BY <2>1 DEF Fire, Working, Allowed
  <2>3. /\ cm.data[k] <= table[k]
        /\ cm.data[k] \in Times /\ table[k] \in Times /\ now \in Nat
    BY <2>2 DEF SavesInv, NoLater, TypeOK, Tables
  <2> QED BY <2>2, <2>3, WindowAssumption DEF Times, Never
<1>2. Spec => [][Quiet => Heeded]_vars
  BY <1>1, SpecSaves, PTL DEF Spec
<1> QED BY <1>2 DEF SavedNotRefired, Quiet

\* After orderly stops whose final saves got through, kpulse notifies again no
\* earlier than a window after the last time, less the part of a second that
\* the format drops.
THEOREM StopsAreRemembered == Spec => StopRemembers
<1> DEFINE Remembered == \A k \in Keys : notified'[k] # notified[k] =>
                            notified[k] = Never \/ now - notified[k] > Window - Grain
<1>1. TypeOK /\ QuietInv /\ [Next]_vars => (Quiet /\ ~unsaved => Remembered)
  <2> SUFFICES ASSUME TypeOK, RememberInv, ~unsaved, [Next]_vars,
                      NEW k \in Keys, notified'[k] # notified[k], notified[k] # Never
               PROVE  now - notified[k] > Window - Grain
    BY DEF QuietInv
  <2>1. Fire(k)
    BY OnlyFireNotifies
  <2>2. phase # "down" /\ (table[k] = Never \/ now - table[k] >= Window)
    BY <2>1 DEF Fire, Working, Allowed
  <2>3. Truncated(notified)[k] <= table[k] /\ table[k] \in Times /\ now \in Nat
    BY <2>2 DEF RememberInv, NoLater, TypeOK, Tables
  <2>4. notified[k] \in Nat /\ Truncated(notified)[k] = Grain * (notified[k] \div Grain)
    BY TruncatedAt DEF TypeOK
  <2>5. PICK f \in Nat : f = Grain * (notified[k] \div Grain)
    BY <2>4, FloorBounds, PersistenceAssumption
  <2>6. notified[k] < f + Grain /\ Grain \in Nat
    BY <2>4, <2>5, FloorNear, PersistenceAssumption
  <2>7. f <= table[k] /\ table[k] # Never
    BY <2>3, <2>4, <2>5 DEF Times, Never
  <2> QED BY <2>2, <2>3, <2>4, <2>6, <2>7, WindowAssumption DEF Times, Never
<1>2. Spec => [][Quiet /\ ~unsaved => Remembered]_vars
  BY <1>1, SpecSaves, PTL DEF Spec
<1> QED BY <1>2 DEF StopRemembers, Quiet
=============================================================================
