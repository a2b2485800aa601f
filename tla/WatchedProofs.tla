---------------------------- MODULE WatchedProofs ----------------------------
(* What the four event-driven monitors of Watched keep, for any limits.    *)
EXTENDS Watched, FiniteSetTheorems, WellFoundedInduction, TLAPS

\* What a monitor's memory looks like.
Memories == [seen : SUBSET Reasons, since : Nat \cup {Unset}, open : SUBSET Reasons]

\* What the timer of hpa_at_max and daemonset_unscheduled knows: while there
\* is an alert there is a stamp.
Stamping(m, r) == m.open \subseteq {r} /\ (m.since = Unset => m.open = {})

\* The monitor still knows of every alert that it opened, by what it uses to
\* resolve it: seen, or the stamp.
Knows(m) ==
    /\ kind = "Node" => m.open \subseteq m.seen
    /\ kind \in {"Deployment", "StatefulSet"} => m.open \subseteq m.seen /\ m.seen \subseteq {RS!Stuck}
    /\ kind = "HorizontalPodAutoscaler" => Stamping(m, ST!AtMaxReplicas)
    /\ kind = "DaemonSet" => Stamping(m, ST!Unscheduled)

\* The fields that a growing age must leave alone are there.
Shaped(o) ==
    /\ kind = "Node" => {"ready", "pressure"} \subseteq DOMAIN o
    /\ kind = "Deployment" => "progressing" \in DOMAIN o

CurrentInv ==
    /\ kind \in AllKinds /\ alertOn \subseteq NC!NodeReasons
    /\ resets \in Nat /\ restarts \in Nat
    /\ Shaped(object)
    /\ memory \in Memories
    /\ Knows(memory)
    /\ AlertIsCurrent

\* The handlers, one by one: what is open afterwards is of a condition that the
\* object has, and the monitor knows of it.
LEMMA NodeHandled ==
    ASSUME kind = "Node", alertOn \subseteq NC!NodeReasons, NEW m \in Memories, Knows(m), NEW o
    PROVE  /\ Handle(m, o) \in Memories
           /\ Knows(Handle(m, o))
           /\ Handle(m, o).open \subseteq Holding(o)
<1> DEFINE current == NC!Firing(o, alertOn)
           told == {r \in current : NC!ShouldAlert(o, r, limit)}
           gone == m.seen \ current
           new == [m EXCEPT !.seen = (@ \cup told) \ gone, !.open = (@ \cup told) \ gone]
<1>1. Handle(m, o) = new /\ Holding(o) = current
  BY DEF Handle, Holding, NC!HandleNode
<1>2. current \subseteq Reasons /\ told \subseteq current
  BY DEF NC!Firing, Reasons
<1> HIDE DEF current, told
<1>3. /\ new.seen = (m.seen \cup told) \ gone
      /\ new.open = (m.open \cup told) \ gone
      /\ new \in Memories
  BY <1>2 DEF Memories
<1>4. m.open \subseteq m.seen
  BY DEF Knows
<1>5. Knows(new) /\ new.open \subseteq current
  BY <1>2, <1>3, <1>4 DEF Knows
<1> QED
  BY <1>1, <1>3, <1>5

LEMMA DeploymentHandled ==
    ASSUME kind = "Deployment", NEW m \in Memories, Knows(m), NEW o
    PROVE  /\ Handle(m, o) \in Memories
           /\ Knows(Handle(m, o))
           /\ Handle(m, o).open \subseteq Holding(o)
  BY DEF Handle, Holding, Memories, Knows, Reasons, Unset, RS!Unset,
         RS!CheckDep, RS!MarkFiring, RS!ClearFiring

LEMMA StatefulSetHandled ==
    ASSUME kind = "StatefulSet", NEW m \in Memories, Knows(m), NEW o
    PROVE  /\ Handle(m, o) \in Memories
           /\ Knows(Handle(m, o))
           /\ Handle(m, o).open \subseteq Holding(o)
  BY DEF Handle, Holding, Memories, Knows, Reasons, Unset, RS!Unset, RS!CheckSS,
         RS!RolloutStartedAt, RS!RolloutHealthy, RS!MarkFiring, RS!ClearFiring

LEMMA TimerOn ==
    ASSUME NEW r \in Reasons, NEW m \in Memories, Stamping(m, r)
    PROVE  ST!On(m, limit, r) \in Memories /\ Stamping(ST!On(m, limit, r), r)
<1>1. /\ ST!Stamped(m) \in Memories
      /\ ST!Stamped(m).since # Unset /\ ST!Stamped(m).open = m.open
  BY DEF ST!Stamped, ST!Unset, Unset, Memories
<1> QED
  BY <1>1 DEF ST!On, Memories, Stamping

LEMMA TimerOver ==
    ASSUME NEW r \in Reasons, NEW m \in Memories, Stamping(m, r)
    PROVE  /\ ST!Over(m, r) \in Memories
           /\ ST!Over(m, r).open = {} /\ ST!Over(m, r).since = Unset
  BY DEF ST!Over, ST!Unset, Unset, Memories, Stamping

LEMMA HPAHandled ==
    ASSUME kind = "HorizontalPodAutoscaler", NEW m \in Memories, Knows(m), NEW o
    PROVE  /\ Handle(m, o) \in Memories
           /\ Knows(Handle(m, o))
           /\ Handle(m, o).open \subseteq Holding(o)
<1>1. ST!AtMaxReplicas \in Reasons
  BY DEF Reasons
<1>2. CASE ST!AtMax(o)
  <2>1. /\ Handle(m, o) = ST!On(m, limit, ST!AtMaxReplicas)
        /\ Holding(o) = {ST!AtMaxReplicas}
    BY <1>2 DEF Handle, Holding, ST!HandleHPA
  <2> QED
    BY <1>1, <2>1, TimerOn DEF Knows, Stamping, ST!AtMaxReplicas, ST!Unscheduled
<1>3. CASE ~ST!AtMax(o)
  <2>1. Handle(m, o) = ST!Over(m, ST!AtMaxReplicas)
    BY <1>3 DEF Handle, ST!HandleHPA
  <2> QED
    BY <1>1, <2>1, TimerOver DEF Knows, Stamping, ST!AtMaxReplicas, ST!Unscheduled
<1> QED
  BY <1>2, <1>3

LEMMA DaemonSetHandled ==
    ASSUME kind = "DaemonSet", NEW m \in Memories, Knows(m), NEW o
    PROVE  /\ Handle(m, o) \in Memories
           /\ Knows(Handle(m, o))
           /\ Handle(m, o).open \subseteq Holding(o)
<1>1. ST!Unscheduled \in Reasons
  BY DEF Reasons
<1>2. CASE ST!Unready(o)
  <2>1. /\ Handle(m, o) = ST!On(m, limit, ST!Unscheduled)
        /\ Holding(o) = {ST!Unscheduled}
    BY <1>2 DEF Handle, Holding, ST!HandleDaemonSet
  <2> QED
    BY <1>1, <2>1, TimerOn DEF Knows, Stamping, ST!AtMaxReplicas, ST!Unscheduled
<1>3. CASE ~ST!Unready(o)
  <2>1. Handle(m, o) = ST!Over(m, ST!Unscheduled)
    BY <1>3 DEF Handle, ST!HandleDaemonSet
  <2> QED
    BY <1>1, <2>1, TimerOver DEF Knows, Stamping, ST!AtMaxReplicas, ST!Unscheduled
<1> QED
  BY <1>2, <1>3

LEMMA Handled ==
    ASSUME kind \in AllKinds, alertOn \subseteq NC!NodeReasons, NEW m \in Memories, Knows(m), NEW o
    PROVE  /\ Handle(m, o) \in Memories
           /\ Knows(Handle(m, o))
           /\ Handle(m, o).open \subseteq Holding(o)
  BY NodeHandled, DeploymentHandled, StatefulSetHandled, HPAHandled, DaemonSetHandled DEF AllKinds

LEMMA ObjectsShaped == \A o \in Objects : Shaped(o)
<1> SUFFICES ASSUME NEW o \in Objects PROVE Shaped(o)
  OBVIOUS
<1>1. kind = "Node" => o \in NC!Nodes(Ages)
  BY DEF Objects
<1>2. kind = "Deployment" => o \in RS!Deployments(Ages)
  BY DEF Objects
<1> QED
  BY <1>1, <1>2 DEF Shaped, NC!Nodes, RS!Deployments

\* Initially nothing is known and nothing is open.
LEMMA CurrentInit == Init => CurrentInv
<1> SUFFICES ASSUME Init PROVE CurrentInv
  OBVIOUS
<1>1. kind \in AllKinds /\ alertOn \subseteq NC!NodeReasons
  BY WatchedAssumption DEF Init
<1>2. memory \in Memories /\ Knows(memory)
  BY DEF Init, Blank, Memories, Knows, Stamping
<1>3. AlertIsCurrent
  BY DEF Init, AlertIsCurrent, Delivered
<1>4. Shaped(object)
  BY ObjectsShaped DEF Init, Newborn
<1> QED
  BY <1>1, <1>2, <1>3, <1>4 DEF CurrentInv, Init

\* What an object holds is a matter of the object and the configuration.
LEMMA SameHolding ==
    ASSUME kind' = kind, alertOn' = alertOn
    PROVE  Holding(object)' = Holding(object')
  BY DEF Holding

\* Every step keeps the invariant.  A write or a deletion leaves a version to be
\* handled or no object at all, so only Deliver has to make open current.
LEMMA CurrentStep == CurrentInv /\ [Next]_vars => CurrentInv'
<1> SUFFICES ASSUME CurrentInv, [Next]_vars PROVE CurrentInv'
  OBVIOUS
<1> USE DEF CurrentInv
<1>1. kind' = kind /\ alertOn' = alertOn
  BY DEF Next, vars, config, cluster, Create, Update, Touch, Delete, Deliver, Tick, Reset, Restart
<1>0. Shaped(object)'
  <2>1. CASE object' \in Objects
    BY <2>1, <1>1, ObjectsShaped DEF Shaped
  <2>2. CASE object' = object
    BY <2>2, <1>1 DEF Shaped
  <2>3. CASE Tick
    BY <2>3, <1>1 DEF Tick, Shaped
  <2> QED
    BY <2>1, <2>2, <2>3 DEF Next, vars, cluster, Create, Update, Newborn, Updates,
       Touch, Delete, Deliver, Reset, Restart
<1>01. resets' \in Nat /\ restarts' \in Nat
  BY DEF Next, vars, config, cluster, Create, Update, Touch, Delete, Deliver, Tick, Reset, Restart
<1> USE <1>0, <1>01
<1>2. CASE UNCHANGED memory /\ ~Delivered'
  BY <1>1, <1>2 DEF Knows, Memories, AlertIsCurrent, Reasons
<1>3. CASE Create
  <2>1. UNCHANGED memory /\ pending' = TRUE
    BY <1>3 DEF Create, Written
  <2> QED
    BY <2>1, <1>2 DEF Delivered
<1>4. CASE Update
  <2>1. UNCHANGED memory /\ pending' = TRUE
    BY <1>4 DEF Update, Written
  <2> QED
    BY <2>1, <1>2 DEF Delivered
<1>5. CASE Touch
  <2>1. UNCHANGED memory /\ pending' = TRUE
    BY <1>5 DEF Touch
  <2> QED
    BY <2>1, <1>2 DEF Delivered
<1>6. CASE Delete
  <2>1. UNCHANGED memory /\ exists' = FALSE
    BY <1>6 DEF Delete
  <2> QED
    BY <2>1, <1>2 DEF Delivered
<1>7. CASE Deliver
  <2>1. memory' = Handle(memory, object) /\ object' = object
    BY <1>7 DEF Deliver
  <2>2. /\ memory' \in Memories
        /\ Knows(memory')
        /\ memory'.open \subseteq Holding(object)
    BY <2>1, Handled
  <2> QED
    BY <2>1, <2>2, <1>1, SameHolding DEF Knows, Memories, Reasons, AlertIsCurrent
<1>8. CASE Tick
  <2>1. /\ memory' = [memory EXCEPT !.since = Older(@)]
        /\ exists' = exists /\ pending' = pending
    BY <1>8 DEF Tick
  <2>2. \A age \in Nat \cup {Unset} :
            Older(age) \in Nat \cup {Unset} /\ (Older(age) = Unset => age = Unset)
    <3> HIDE DEF CurrentInv
    <3> QED
      BY DEF Older, Unset
  <2>3. /\ memory' \in Memories
        /\ memory'.open = memory.open /\ memory'.seen = memory.seen
        /\ memory'.since = Unset => memory.since = Unset
    BY <2>1, <2>2 DEF Memories
  <2>4. Knows(memory)'
    BY <2>3, <1>1 DEF Knows, Stamping
  <2>5. Holding(object') = Holding(object)
    BY <1>8 DEF Tick, Dated, Holding, Shaped, NC!Firing, AllKinds
  <2> QED
    BY <2>1, <2>3, <2>4, <2>5, <1>1, SameHolding DEF Memories, Reasons, AlertIsCurrent, Delivered
<1>9. CASE Reset
  <2>1. /\ memory' = [memory EXCEPT !.open = {}]
        /\ exists' = exists /\ pending' = pending
    BY <1>9 DEF Reset, cluster
  <2>2. /\ memory' \in Memories
        /\ memory'.open = {} /\ memory'.seen = memory.seen
    BY <2>1 DEF Memories
  <2> QED
    BY <2>2, <1>1 DEF Memories, Reasons, Knows, Stamping, AlertIsCurrent
<1>10. CASE Restart
  <2>1. memory' = Blank
    BY <1>10 DEF Restart
  <2> QED
    BY <2>1, <1>1 DEF Blank, Memories, Reasons, Knows, Stamping, AlertIsCurrent
<1>11. CASE UNCHANGED vars
  BY <1>11, <1>1, SameHolding DEF vars, cluster, Memories, Reasons, Knows, AlertIsCurrent, Delivered
<1> QED
  BY <1>3, <1>4, <1>5, <1>6, <1>7, <1>8, <1>9, <1>10, <1>11 DEF Next

\* An alert that is open, once the newest version was handled, is of a
\* condition that the object has now, for every limit, list of conditions and
\* replica count, through gaps, deletions, resets and restarts (Handle).
THEOREM OpenIsCurrent == Spec => []AlertIsCurrent
<1>1. CurrentInv => AlertIsCurrent
  BY DEF CurrentInv
<1> QED
  BY CurrentInit, CurrentStep, <1>1, PTL DEF Spec

-----------------------------------------------------------------------------
\* But for Deployments, a handler takes back no alert whose condition it sees.
LEMMA Kept ==
    ASSUME kind \in AllKinds, kind # "Deployment", NEW m \in Memories, NEW o
    PROVE  m.open \cap Holding(o) \subseteq Handle(m, o).open
<1>1. CASE kind = "Node"
  BY <1>1 DEF Handle, Holding, Memories, NC!HandleNode
<1>2. CASE kind = "StatefulSet"
  <2>1. CASE RS!InProgress(o)
    BY <1>2, <2>1 DEF Handle, Memories, RS!CheckSS, RS!RolloutStartedAt, RS!MarkFiring
  <2>2. CASE ~RS!InProgress(o)
    BY <1>2, <2>2 DEF Holding
  <2> QED
    BY <2>1, <2>2
<1>3. CASE kind = "HorizontalPodAutoscaler"
  <2>1. CASE ST!AtMax(o)
    BY <1>3, <2>1 DEF Handle, Memories, ST!HandleHPA, ST!On, ST!Stamped
  <2>2. CASE ~ST!AtMax(o)
    BY <1>3, <2>2 DEF Holding
  <2> QED
    BY <2>1, <2>2
<1>4. CASE kind = "DaemonSet"
  <2>1. CASE ST!Unready(o)
    BY <1>4, <2>1 DEF Handle, Memories, ST!HandleDaemonSet, ST!On, ST!Stamped
  <2>2. CASE ~ST!Unready(o)
    BY <1>4, <2>2 DEF Holding
  <2> QED
    BY <2>1, <2>2
<1> QED
  BY <1>1, <1>2, <1>3, <1>4 DEF AllKinds

\* What a Resolve says is so.
ResolvesTruly ==
    \A r \in memory.open \ memory'.open :
        kind # "Deployment" /\ UNCHANGED <<resets, restarts>> => r \notin Holding(object)

LEMMA ResolvedStep == CurrentInv /\ [Next]_vars => [ResolvesTruly]_vars
<1> SUFFICES ASSUME CurrentInv, Next PROVE ResolvesTruly
  OBVIOUS
<1> USE DEF CurrentInv
<1>1. CASE UNCHANGED memory
  BY <1>1 DEF ResolvesTruly
<1>2. CASE Deliver
  <2>1. memory' = Handle(memory, object)
    BY <1>2 DEF Deliver
  <2> QED
    BY <2>1, Kept DEF ResolvesTruly
<1>3. CASE Tick
  BY <1>3 DEF Tick, Memories, ResolvesTruly
<1>4. CASE Reset
  BY <1>4 DEF Reset, ResolvesTruly
<1>5. CASE Restart
  BY <1>5 DEF Restart, ResolvesTruly
<1> QED
  BY <1>1, <1>2, <1>3, <1>4, <1>5 DEF Next, Create, Update, Touch, Delete

\* A Resolve is sent only of a condition that the handled version does not show,
\* whatever gaps, deletions and stamps there were; Deployments excepted (CheckDep).
THEOREM ResolvedTruly == Spec => ResolvedIsOver
<1>1. [ResolvesTruly]_vars =>
        [\A r \in memory.open \ memory'.open :
            kind # "Deployment" /\ UNCHANGED <<resets, restarts>> => r \notin Holding(object)]_vars
  BY DEF ResolvesTruly
<1> QED
  BY CurrentInit, CurrentStep, ResolvedStep, <1>1, PTL DEF Spec, ResolvedIsOver

-----------------------------------------------------------------------------
\* The event that shows pressure reports it.
LEMMA PressureTold ==
    ASSUME kind \in AllKinds, NEW m \in Memories, NEW o, NC!Pressure \in Holding(o)
    PROVE  NC!Pressure \in Handle(m, o).open
<1>1. kind = "Node"
  BY DEF Holding, AllKinds, NC!Pressure, RS!Stuck, ST!AtMaxReplicas, ST!Unscheduled
<1>2. NC!ShouldAlert(o, NC!Pressure, limit)
  BY DEF NC!ShouldAlert, NC!Pressure, NC!NotReady
<1> QED
  BY <1>1, <1>2 DEF Handle, Holding, Memories, NC!HandleNode

LEMMA PressureStep == CurrentInv /\ PressureAtOnce /\ [Next]_vars => PressureAtOnce'
<1> SUFFICES ASSUME CurrentInv, PressureAtOnce, [Next]_vars, Delivered', resets' = 0,
                    NC!Pressure \in Holding(object)'
             PROVE  NC!Pressure \in memory'.open
  BY DEF PressureAtOnce
<1> USE DEF CurrentInv
<1>1. kind' = kind /\ alertOn' = alertOn
  BY DEF Next, vars, config, cluster, Create, Update, Touch, Delete, Deliver, Tick, Reset, Restart
<1>2. NC!Pressure \in Holding(object')
  BY <1>1, SameHolding
<1>3. CASE Create \/ Update \/ Touch \/ Delete \/ Restart
  <2>1. CASE Restart
    BY <2>1, Zenon DEF Restart, Delivered
  <2> QED
    BY <1>3, <2>1 DEF Create, Update, Touch, Delete, Written, Delivered
<1>4. CASE Deliver
  BY <1>2, <1>4, PressureTold DEF Deliver
<1>5. CASE Tick
  <2>1. Holding(object') = Holding(object)
    BY <1>5 DEF Tick, Dated, Holding, Shaped, NC!Firing, AllKinds
  <2> QED
    BY <1>2, <1>5, <2>1 DEF Tick, Memories, PressureAtOnce, Delivered
<1>6. CASE Reset
  BY <1>6 DEF Reset
<1>7. CASE UNCHANGED vars
  BY <1>2, <1>7 DEF vars, cluster, PressureAtOnce, Delivered
<1> QED
  BY <1>3, <1>4, <1>5, <1>6, <1>7 DEF Next

\* Pressure is reported by the event that shows it, however short the episode,
\* whatever the grace period and whatever else is wrong with the node (shouldAlert).
THEOREM PressureReported == Spec => []PressureAtOnce
<1>1. Init => PressureAtOnce
  BY DEF Init, PressureAtOnce, Delivered
<1> QED
  BY CurrentInit, CurrentStep, PressureStep, <1>1, PTL DEF Spec

-----------------------------------------------------------------------------
(* The ages.  The limits are finitely many, so there is an eldest age.     *)

\* A set of numbers that is not empty has a least one.
LEMMA Least ==
    ASSUME NEW T \in SUBSET Nat, T # {}
    PROVE  \E x \in T : \A y \in T : x <= y
<1>1. IsWellFoundedOn(OpToRel(<, Nat), Nat)
  BY NatLessThanWellFounded, Zenon
<1>2. PICK x \in T : \A y \in T : <<y, x>> \notin OpToRel(<, Nat)
  BY <1>1, WFMin, Zenon
<1>3. \A y \in T : ~ (y < x)
  BY <1>2, Zenon DEF OpToRel
<1> QED BY <1>3

\* A finite one has a greatest: the number with the fewest others above it.
LEMMA Greatest ==
    ASSUME NEW S \in SUBSET Nat, IsFiniteSet(S), S # {}
    PROVE  \E x \in S : \A y \in S : y <= x
<1> DEFINE above(x) == {y \in S : y > x}
           T == {Cardinality(above(x)) : x \in S}
<1>1. \A x \in S : IsFiniteSet(above(x)) /\ Cardinality(above(x)) \in Nat
  <2> TAKE x \in S
  <2>1. above(x) \in SUBSET S
    OBVIOUS
  <2> QED BY <2>1, FS_Subset, FS_CardinalityType
<1>2. T \in SUBSET Nat /\ T # {}
  BY <1>1
<1>3. PICK m \in T : \A y \in T : m <= y
  BY <1>2, Least
<1>4. PICK x \in S : m = Cardinality(above(x))
  BY <1>3
<1>5. SUFFICES ASSUME NEW z \in S, z > x PROVE FALSE
  BY <1>4
<1>6. above(z) \in SUBSET above(x) /\ z \in above(x) /\ z \notin above(z)
  <2>1. x \in Nat /\ z \in Nat /\ \A y \in S : y \in Nat
    OBVIOUS
  <2>2. \A y \in S : y > z => y > x
    BY <1>5, <2>1
  <2>3. ~(z > z)
    BY <2>1
  <2> QED BY <1>5, <2>2, <2>3
<1>7. Cardinality(above(z)) <= Cardinality(above(x)) /\ Cardinality(above(z)) # Cardinality(above(x))
  <2>1. above(z) # above(x)
    BY <1>6
  <2>2. IsFiniteSet(above(x))
    BY <1>1
  <2> HIDE DEF above
  <2> QED BY <1>6, <2>1, <2>2, FS_Subset
<1>8. m <= Cardinality(above(z))
  BY <1>3
<1> QED BY <1>1, <1>4, <1>7, <1>8

LEMMA EldestType ==
    ASSUME Limits # {}
    PROVE  Eldest \in Nat \ {0} /\ \A t \in Limits \cup {Default} : t < Eldest
<1> DEFINE S == Limits \cup {Default}
<1>1. S \in SUBSET Nat /\ S # {} /\ IsFiniteSet(S)
  BY WatchedAssumption, FS_AddElement
<1>2. \E x \in S : \A y \in S : y <= x
  BY <1>1, Greatest
<1> HIDE DEF S
<1>3. PICK e : e = CHOOSE x \in S : \A y \in S : y <= x
  OBVIOUS
<1>4. e \in S /\ \A y \in S : y <= e
  BY <1>2, <1>3
<1>5. Eldest = 1 + e
  BY <1>3 DEF Eldest, S
<1> QED BY <1>1, <1>4, <1>5 DEF S

\* Growing older keeps the order of ages and whether there is one.
LEMMA OlderFacts ==
    ASSUME Eldest \in Nat \ {0}, NEW a \in Ages \cup {Unset}
    PROVE  /\ Older(a) \in Ages \cup {Unset}
           /\ Older(a) = Unset <=> a = Unset
           /\ Older(a) >= a
           /\ \A b \in Ages \cup {Unset} : a >= b => Older(a) >= Older(b)
  BY DEF Older, Ages, Unset

-----------------------------------------------------------------------------
(* The types.                                                              *)

\* The object with its age, if it has one, a unit on.
Aged == IF Dated THEN [object EXCEPT !.age = Older(@)] ELSE object

LEMMA AgedType ==
    ASSUME Eldest \in Nat \ {0}, kind \in AllKinds, object \in Objects
    PROVE  /\ Aged \in Objects /\ Holding(Aged) = Holding(object)
           /\ Dated => object.age \in Ages /\ Aged.age = Older(object.age)
<1>1. ASSUME NEW a \in Ages PROVE Older(a) \in Ages
  BY <1>1, OlderFacts DEF Ages, Unset
<1>2. CASE kind = "Node"
  <2>1. object \in NC!Nodes(Ages)
    BY <1>2 DEF Objects
  <2>2. object.age \in Ages /\ Aged = [object EXCEPT !.age = Older(@)]
    BY <1>2, <2>1 DEF Aged, Dated, NC!Nodes
  <2>3. Older(object.age) \in Ages
    BY <1>1, <2>2
  <2>4. /\ Aged \in NC!Nodes(Ages) /\ Aged.age = Older(object.age)
        /\ Aged.ready = object.ready /\ Aged.pressure = object.pressure
    BY <2>1, <2>2, <2>3 DEF NC!Nodes
  <2> QED BY <1>2, <2>2, <2>4 DEF Objects, Holding, NC!Firing
<1>3. CASE kind = "Deployment"
  <2>1. object \in RS!Deployments(Ages)
    BY <1>3 DEF Objects
  <2>2. object.age \in Ages /\ Aged = [object EXCEPT !.age = Older(@)]
    BY <1>3, <2>1 DEF Aged, Dated, RS!Deployments
  <2>3. Older(object.age) \in Ages
    BY <1>1, <2>2
  <2>4. /\ Aged \in RS!Deployments(Ages) /\ Aged.age = Older(object.age)
        /\ Aged.progressing = object.progressing
    BY <2>1, <2>2, <2>3 DEF RS!Deployments
  <2> QED BY <1>3, <2>2, <2>4 DEF Objects, Holding
<1>4. CASE ~Dated
  BY <1>4 DEF Aged
<1> QED BY <1>2, <1>3, <1>4 DEF Dated

\* What the handlers make of the stamp.
LEMMA HandledSince ==
    ASSUME Eldest \in Nat \ {0}, kind \in AllKinds, NEW m \in Memories, NEW o,
           m.since \in Ages \cup {Unset}, Dated => m.since = Unset
    PROVE  /\ Handle(m, o).since \in Ages \cup {Unset}
           /\ Dated => Handle(m, o).since = Unset
           /\ ~Dated => /\ Holding(o) = {} => Handle(m, o).since = Unset
                        /\ Holding(o) # {} =>
                              Handle(m, o).since = IF m.since = Unset THEN 0 ELSE m.since
<1>0. 0 \in Ages
  BY DEF Ages
<1>1. CASE kind = "Node"
  BY <1>1 DEF Handle, Memories, NC!HandleNode, Dated
<1>2. CASE kind = "Deployment"
  BY <1>2 DEF Handle, Memories, Dated, Unset, RS!Unset, RS!CheckDep, RS!MarkFiring, RS!ClearFiring
<1>3. CASE kind = "StatefulSet"
  <2>1. CASE RS!InProgress(o)
    <3>1. Handle(m, o) = RS!CheckSS(m, o, RS!Threshold(limit, Default)) /\ Holding(o) = {RS!Stuck}
      BY <1>3, <2>1 DEF Handle, Holding
    <3>2. Handle(m, o).since = IF m.since = Unset THEN 0 ELSE m.since
      BY <2>1, <3>1 DEF Memories, RS!CheckSS, RS!RolloutStartedAt, RS!MarkFiring, RS!Unset, Unset
    <3> QED BY <1>0, <1>3, <3>1, <3>2 DEF Dated
  <2>2. CASE ~RS!InProgress(o)
    <3>1. Handle(m, o) = RS!CheckSS(m, o, RS!Threshold(limit, Default)) /\ Holding(o) = {}
      BY <1>3, <2>2 DEF Handle, Holding
    <3>2. Handle(m, o).since = Unset
      BY <2>2, <3>1 DEF RS!CheckSS, RS!RolloutHealthy, RS!ClearFiring, RS!Unset, Unset
    <3> QED BY <1>3, <3>1, <3>2 DEF Dated
  <2> QED BY <2>1, <2>2
<1>4. ASSUME NEW r
      PROVE  /\ ST!On(m, limit, r).since = IF m.since = Unset THEN 0 ELSE m.since
             /\ ST!Over(m, r).since = Unset
  BY DEF Memories, ST!On, ST!Over, ST!Stamped, ST!Unset, Unset
<1>5. CASE kind = "HorizontalPodAutoscaler"
  <2>1. Handle(m, o) = IF ST!AtMax(o) THEN ST!On(m, limit, ST!AtMaxReplicas)
                       ELSE ST!Over(m, ST!AtMaxReplicas)
    BY <1>5 DEF Handle, ST!HandleHPA
  <2>2. Holding(o) = IF ST!AtMax(o) THEN {ST!AtMaxReplicas} ELSE {}
    BY <1>5 DEF Holding
  <2> QED BY <1>0, <1>4, <1>5, <2>1, <2>2 DEF Dated
<1>6. CASE kind = "DaemonSet"
  <2>1. Handle(m, o) = IF ST!Unready(o) THEN ST!On(m, limit, ST!Unscheduled)
                       ELSE ST!Over(m, ST!Unscheduled)
    BY <1>6 DEF Handle, ST!HandleDaemonSet
  <2>2. Holding(o) = IF ST!Unready(o) THEN {ST!Unscheduled} ELSE {}
    BY <1>6 DEF Holding
  <2> QED BY <1>0, <1>4, <1>6, <2>1, <2>2 DEF Dated
<1> QED BY <1>1, <1>2, <1>3, <1>5, <1>6 DEF AllKinds

\* How long the conditions of a written object have held.
LEMMA HeldByFacts ==
    ASSUME Eldest \in Nat \ {0}, kind \in AllKinds, NEW o \in Objects,
           NEW before \in [Reasons -> Ages \cup {Unset}]
    PROVE  /\ HeldBy(o, before) \in [Reasons -> Ages \cup {Unset}]
           /\ \A r \in Reasons :
                 /\ HeldBy(o, before)[r] # Unset <=> r \in Holding(o)
                 /\ r \in Holding(o) /\ kind = "Deployment" => HeldBy(o, before)[r] = o.age
                 /\ r \in Holding(o) /\ kind # "Deployment" =>
                       HeldBy(o, before)[r] = IF before[r] = Unset THEN 0 ELSE before[r]
<1>1. kind = "Deployment" => o.age \in Ages
  BY DEF Objects, RS!Deployments
<1>2. 0 \in Ages /\ Unset \notin Ages
  BY DEF Ages, Unset
<1> DEFINE h(r) == CASE r \notin Holding(o) -> Unset
                     [] r \in Holding(o) /\ kind = "Deployment" -> o.age
                     [] OTHER -> IF before[r] = Unset THEN 0 ELSE before[r]
<1>3. ASSUME NEW r \in Reasons
      PROVE  /\ r \notin Holding(o) => h(r) = Unset
             /\ r \in Holding(o) /\ kind = "Deployment" => h(r) = o.age
             /\ r \in Holding(o) /\ kind # "Deployment" =>
                   h(r) = IF before[r] = Unset THEN 0 ELSE before[r]
  OBVIOUS
<1>4. \A r \in Reasons : before[r] \in Ages \cup {Unset}
  OBVIOUS
<1>5. HeldBy(o, before) = [r \in Reasons |-> h(r)]
  BY DEF HeldBy
<1> HIDE DEF h
<1>6. \A r \in Reasons : h(r) \in Ages \cup {Unset} /\ (h(r) # Unset <=> r \in Holding(o))
  BY <1>1, <1>2, <1>3, <1>4
<1> QED BY <1>3, <1>5, <1>6

LEMMA TypeFacts ==
    ASSUME TypeOK
    PROVE  /\ Eldest \in Nat \ {0} /\ kind \in AllKinds
           /\ memory \in Memories /\ memory.since \in Ages \cup {Unset}
           /\ Ages \subseteq Nat /\ Unset \notin Ages /\ 0 \in Ages
<1>1. Eldest \in Nat \ {0}
  BY EldestType DEF TypeOK
<1>2. kind \in AllKinds
  BY WatchedAssumption DEF TypeOK
<1>3. Ages \subseteq Nat /\ Unset \notin Ages /\ 0 \in Ages
  BY <1>1 DEF Ages, Unset
<1>4. /\ memory \in [seen : SUBSET Reasons, since : Ages \cup {Unset}, open : SUBSET Reasons]
      /\ memory.since \in Ages \cup {Unset}
  BY DEF TypeOK
<1> QED BY <1>1, <1>2, <1>3, <1>4 DEF Memories

LEMMA TypeInit == Init => TypeOK
<1> SUFFICES ASSUME Init PROVE TypeOK
  OBVIOUS
<1>1. memory \in [seen : SUBSET Reasons, since : Ages \cup {Unset}, open : SUBSET Reasons]
  BY DEF Init, Blank
<1>2. held \in [Reasons -> Ages \cup {Unset}]
  BY DEF Init, NeverHeld
<1>3. object \in Objects /\ memory.since = Unset
  BY DEF Init, Newborn, Blank
<1>4. alertOn \subseteq NC!NodeReasons
  BY DEF Init
<1> QED BY <1>1, <1>2, <1>3, <1>4 DEF Init, TypeOK

\* A write leaves an object, and for how long its conditions have held.
LEMMA WriteType ==
    ASSUME TypeOK, object' \in Objects, NEW before \in [Reasons -> Ages \cup {Unset}],
           held' = HeldBy(object', before), births' \in Nat, Written,
           UNCHANGED <<kind, limit, alertOn, memory, resets, restarts>>, exists' \in BOOLEAN
    PROVE  TypeOK'
<1>1. held' \in [Reasons -> Ages \cup {Unset}]
  BY TypeFacts, HeldByFacts
<1>2. pending' \in BOOLEAN /\ gaps' \in Nat
  BY DEF Written, TypeOK
<1>3. object' \in Objects' /\ Ages' = Ages /\ Dated' = Dated
  BY DEF Objects, Dated, Ages
<1> QED BY <1>1, <1>2, <1>3 DEF TypeOK, Reasons

LEMMA TypeStep == TypeOK /\ CurrentInv /\ [Next]_vars => TypeOK'
<1> SUFFICES ASSUME TypeOK, CurrentInv, [Next]_vars PROVE TypeOK'
  OBVIOUS
<1>1. UNCHANGED <<kind, limit, alertOn>>
  BY DEF Next, vars, config, cluster, Create, Update, Touch, Delete, Deliver, Tick, Reset, Restart
<1>2. Objects' = Objects /\ Dated' = Dated
  BY <1>1 DEF Objects, Dated
<1>3. NeverHeld \in [Reasons -> Ages \cup {Unset}] /\ Blank.since = Unset
      /\ Blank \in [seen : SUBSET Reasons, since : Ages \cup {Unset}, open : SUBSET Reasons]
  BY DEF NeverHeld, Blank
<1>4. CASE Create
  <2>1. object' \in Objects /\ births' \in Nat /\ exists' \in BOOLEAN
    BY <1>4 DEF Create, Newborn, TypeOK
  <2> QED BY <1>1, <1>3, <1>4, <2>1, WriteType DEF Create
<1>5. CASE Update
  <2>1. object' \in Objects /\ births' \in Nat /\ exists' \in BOOLEAN
    BY <1>5 DEF Update, Updates, TypeOK
  <2>2. held \in [Reasons -> Ages \cup {Unset}]
    BY DEF TypeOK
  <2> QED BY <1>1, <1>5, <2>1, <2>2, WriteType DEF Update
<1>6. CASE Touch \/ Delete
  <2>1. /\ UNCHANGED <<object, births, memory, resets, restarts>>
        /\ exists' \in BOOLEAN /\ pending' \in BOOLEAN /\ gaps' \in Nat
        /\ held' \in [Reasons -> Ages \cup {Unset}]
    <3>1. CASE Touch
      BY <3>1 DEF Touch, TypeOK
    <3>2. CASE Delete
      <4>1. gaps \in Nat /\ (UNCHANGED gaps \/ gaps' = gaps + 1)
        BY <3>2 DEF Delete, TypeOK
      <4>2. /\ UNCHANGED <<object, births, memory, resets, restarts>>
            /\ exists' = FALSE /\ pending' = FALSE /\ held' = NeverHeld
        BY <3>2 DEF Delete
      <4>3. exists' \in BOOLEAN /\ pending' \in BOOLEAN
        BY <4>2, Zenon
      <4> QED BY <1>3, <4>1, <4>2, <4>3
    <3> QED BY <1>6, <3>1, <3>2
  <2> QED BY <1>1, <1>2, <2>1 DEF TypeOK, Reasons, Ages
<1>7. CASE Deliver
  <2>1. memory' = Handle(memory, object)
        /\ UNCHANGED <<exists, object, held, births, gaps, resets, restarts>> /\ pending' = FALSE
    BY <1>7 DEF Deliver
  <2>2. /\ memory'.since \in Ages \cup {Unset}
        /\ Dated => memory'.since = Unset
    <3>1. Dated => memory.since = Unset
      BY DEF TypeOK
    <3> QED BY <2>1, <3>1, TypeFacts, HandledSince
  <2>3. memory' \in Memories
    BY <2>1, TypeFacts, Handled DEF CurrentInv
  <2>4. memory' \in [seen : SUBSET Reasons, since : Ages \cup {Unset}, open : SUBSET Reasons]
    BY <2>2, <2>3 DEF Memories
  <2> QED BY <1>1, <1>2, <2>1, <2>2, <2>4 DEF TypeOK, Reasons, Ages
<1>8. CASE Tick
  <2>1. /\ object' = Aged
        /\ held' = [r \in Reasons |-> Older(held[r])]
        /\ memory' = [memory EXCEPT !.since = Older(@)]
        /\ UNCHANGED <<exists, pending, births, gaps, resets, restarts>>
    BY <1>8 DEF Tick, Aged
  <2>2. object' \in Objects
    BY <2>1, TypeFacts, AgedType DEF TypeOK
  <2>3. held' \in [Reasons -> Ages \cup {Unset}]
    <3>1. \A r \in Reasons : Older(held[r]) \in Ages \cup {Unset}
      BY TypeFacts, OlderFacts DEF TypeOK
    <3> QED BY <2>1, <3>1
  <2>4. Older(memory.since) \in Ages \cup {Unset} /\ (Older(memory.since) = Unset <=> memory.since = Unset)
    BY TypeFacts, OlderFacts
  <2>5. /\ memory' \in [seen : SUBSET Reasons, since : Ages \cup {Unset}, open : SUBSET Reasons]
        /\ Dated => memory'.since = Unset
    BY <2>1, <2>4 DEF TypeOK
  <2> QED BY <1>1, <1>2, <2>1, <2>2, <2>3, <2>5 DEF TypeOK, Reasons, Ages
<1>9. CASE Reset
  <2>1. /\ memory' = [memory EXCEPT !.open = {}] /\ resets' \in Nat
        /\ UNCHANGED <<exists, object, pending, held, births, gaps, restarts>>
    BY <1>9 DEF Reset, cluster, TypeOK
  <2>2. /\ memory' \in [seen : SUBSET Reasons, since : Ages \cup {Unset}, open : SUBSET Reasons]
        /\ Dated => memory'.since = Unset
    BY <2>1 DEF TypeOK
  <2> QED BY <1>1, <1>2, <2>1, <2>2 DEF TypeOK, Reasons, Ages
<1>10. CASE Restart
  <2>1. /\ memory' = Blank /\ restarts' \in Nat /\ pending' \in BOOLEAN
        /\ UNCHANGED <<exists, object, held, births, gaps, resets>>
    <3>1. exists \in BOOLEAN
      BY DEF TypeOK
    <3>2. pending' = exists
      BY <1>10 DEF Restart
    <3>3. pending' \in BOOLEAN
      BY <3>1, <3>2, Zenon
    <3> QED BY <1>10, <3>3 DEF Restart, TypeOK
  <2> QED BY <1>1, <1>2, <1>3, <2>1 DEF TypeOK, Reasons, Ages
<1>11. CASE UNCHANGED vars
  BY <1>1, <1>2, <1>11 DEF vars, cluster, TypeOK, Reasons, Ages
<1> QED BY <1>4, <1>5, <1>6, <1>7, <1>8, <1>9, <1>10, <1>11 DEF Next

\* Every age stays one, for any finite set of limits, and the handlers that
\* read the time from the object leave no stamp (Handle).
THEOREM TypeCorrect == Spec => []TypeOK
BY TypeInit, TypeStep, CurrentInit, CurrentStep, PTL DEF Spec

-----------------------------------------------------------------------------
(* Whether an open alert is of a condition that has lasted.                *)

\* Conditions have held for some time exactly if they hold; those that the
\* object dates itself, for as long as it says.
HeldInv ==
    exists =>
        /\ \A r \in Reasons : held[r] # Unset <=> r \in Holding(object)
        /\ kind = "Node" /\ NC!NotReady \in Holding(object) => held[NC!NotReady] = object.age
        /\ kind = "Deployment" /\ RS!Stuck \in Holding(object) => held[RS!Stuck] = object.age

Undisturbed == births <= 1 /\ gaps = 0

\* A stamp is no older than the condition, and it went with the last one.
SinceInv ==
    /\ births = 0 => ~exists /\ memory.since = Unset /\ memory.open = {}
    /\ Undisturbed /\ exists =>
        /\ \A r \in Holding(object) : memory.since <= held[r]
        /\ ~pending /\ Holding(object) = {} => memory.since = Unset

\* A version on its way may have ended the condition, but not begun it anew.
OpenInv ==
    /\ Undisturbed /\ exists /\ kind # "Deployment" =>
        \A r \in memory.open \cap Holding(object) : held[r] >= Due(r)
    /\ Delivered /\ kind = "Deployment" => \A r \in memory.open : held[r] >= Due(r)

SustainInv == TypeOK /\ CurrentInv /\ HeldInv /\ SinceInv /\ OpenInv

LEMMA Sustained == SustainInv => AlertIsSustained
<1> SUFFICES ASSUME SustainInv, Delivered, births <= 1, gaps = 0, NEW r \in memory.open
             PROVE  held[r] >= Due(r)
  BY DEF AlertIsSustained
<1>1. r \in Holding(object)
  BY DEF SustainInv, CurrentInv, AlertIsCurrent
<1> QED BY <1>1 DEF SustainInv, OpenInv, Undisturbed, Delivered

\* What depends on the configuration only.
LEMMA SameConfig ==
    ASSUME UNCHANGED <<kind, limit, alertOn>>
    PROVE  /\ Holding(object)' = Holding(object')
           /\ \A r : Due(r)' = Due(r)
  BY DEF Holding, Due

LEMMA HoldingReasons ==
    ASSUME kind \in AllKinds, alertOn \subseteq NC!NodeReasons
    PROVE  /\ \A o : Holding(o) \subseteq Reasons
           /\ ~Dated => \E x : \A o : Holding(o) \subseteq {x}
<1>1. CASE kind = "Node"
  BY <1>1 DEF Holding, NC!Firing, Reasons, Dated
<1>2. CASE kind = "Deployment"
  BY <1>2 DEF Holding, Reasons, Dated
<1>3. CASE kind = "StatefulSet"
  <2>1. \A o : Holding(o) \subseteq {RS!Stuck}
    BY <1>3 DEF Holding
  <2> QED BY <2>1 DEF Reasons
<1>4. CASE kind = "HorizontalPodAutoscaler"
  <2>1. \A o : Holding(o) \subseteq {ST!AtMaxReplicas}
    BY <1>4 DEF Holding
  <2> QED BY <2>1 DEF Reasons
<1>5. CASE kind = "DaemonSet"
  <2>1. \A o : Holding(o) \subseteq {ST!Unscheduled}
    BY <1>5 DEF Holding
  <2> QED BY <2>1 DEF Reasons
<1> QED BY <1>1, <1>2, <1>3, <1>4, <1>5 DEF AllKinds

LEMMA DueType ==
    ASSUME TypeOK, NEW r \in Reasons
    PROVE  Due(r) \in Nat
<1>1. limit \in Nat /\ Default \in Nat
  BY WatchedAssumption DEF TypeOK
<1>2. CASE r = NC!Pressure
  BY <1>2 DEF Due, NC!Pressure, RS!Stuck
<1>3. CASE r = RS!Stuck
  <2>1. RS!Threshold(limit, Default) \in Nat
    BY <1>1 DEF RS!Threshold
  <2> QED BY <1>3, <2>1 DEF Due, NC!Pressure, RS!Stuck
<1>4. CASE r \notin {NC!Pressure, RS!Stuck}
  BY <1>1, <1>4 DEF Due
<1> QED BY <1>2, <1>3, <1>4

LEMMA SustainFacts ==
    ASSUME SustainInv
    PROVE  /\ held \in [Reasons -> Ages \cup {Unset}]
           /\ Holding(object) \subseteq Reasons /\ Ages \subseteq Nat
           /\ memory.since \in Ages \cup {Unset} /\ memory.open \subseteq Reasons
           /\ births \in Nat /\ gaps \in Nat
<1>1. kind \in AllKinds /\ Ages \subseteq Nat /\ memory.since \in Ages \cup {Unset}
  BY TypeFacts DEF SustainInv
<1>2. memory.open \subseteq Reasons /\ alertOn \subseteq NC!NodeReasons
  BY DEF SustainInv, TypeOK
<1> QED BY <1>1, <1>2, HoldingReasons DEF SustainInv, TypeOK

\* The conditions of a newly created object are new, and those of a written one
\* go on or begin.
LEMMA HeldWrite ==
    ASSUME SustainInv, Create \/ Update
    PROVE  HeldInv'
<1>1. UNCHANGED <<kind, limit, alertOn>>
  BY DEF Create, Update, config
<1>2. PICK before \in [Reasons -> Ages \cup {Unset}] : held' = HeldBy(object', before)
  <2>1. CASE Create
    BY <2>1 DEF Create, NeverHeld
  <2>2. CASE Update
    BY <2>2, SustainFacts DEF Update
  <2> QED BY <2>1, <2>2
<1>3. object' \in Objects
  BY DEF Create, Update, Newborn, Updates
<1>4. Eldest \in Nat \ {0} /\ kind \in AllKinds /\ Unset \notin Ages
  BY TypeFacts DEF SustainInv
<1>5. \A r \in Reasons :
         /\ held'[r] # Unset <=> r \in Holding(object')
         /\ r \in Holding(object') /\ kind = "Deployment" => held'[r] = object'.age
         /\ r \in Holding(object') /\ kind # "Deployment" =>
               held'[r] = IF before[r] = Unset THEN 0 ELSE before[r]
  BY <1>2, <1>3, <1>4, HeldByFacts
<1>6. NC!NotReady \in Reasons /\ RS!Stuck \in Reasons
  BY DEF Reasons, NC!NodeReasons
<1>7. ASSUME kind = "Node", NC!NotReady \in Holding(object')
      PROVE  held'[NC!NotReady] = object'.age
  <2>1. held'[NC!NotReady] = IF before[NC!NotReady] = Unset THEN 0 ELSE before[NC!NotReady]
    BY <1>5, <1>6, <1>7
  <2>2. CASE Create
    <3>1. object'.age = 0 /\ held' = HeldBy(object', NeverHeld)
      BY <1>7, <2>2 DEF Create, Newborn, Dated
    <3>2. NeverHeld \in [Reasons -> Ages \cup {Unset}] /\ NeverHeld[NC!NotReady] = Unset
      BY <1>6 DEF NeverHeld
    <3>3. HeldBy(object', NeverHeld)[NC!NotReady] = 0
      BY <1>3, <1>4, <1>6, <1>7, <3>2, HeldByFacts
    <3> QED BY <3>1, <3>3
  <2>3. CASE Update
    <3>1. held' = HeldBy(object', held) /\ exists
          /\ object'.age = IF object'.ready = object.ready THEN object.age ELSE 0
      BY <1>7, <2>3 DEF Update, Updates
    <3>2. held \in [Reasons -> Ages \cup {Unset}]
      BY SustainFacts
    <3>3. held'[NC!NotReady] = IF held[NC!NotReady] = Unset THEN 0 ELSE held[NC!NotReady]
      BY <1>3, <1>4, <1>6, <1>7, <3>1, <3>2, HeldByFacts
    <3>4. /\ NC!NotReady \in Holding(object) <=> NC!NotReady \in alertOn /\ ~object.ready
          /\ NC!NotReady \in alertOn /\ ~object'.ready
      BY <1>7 DEF Holding, NC!Firing
    <3>5. object.ready \in BOOLEAN /\ object'.ready \in BOOLEAN
      <4>1. object \in NC!Nodes(Ages) /\ object' \in NC!Nodes(Ages)
        BY <1>3, <1>7 DEF SustainInv, TypeOK, Objects
      <4> QED BY <4>1 DEF NC!Nodes
    <3>6. held[NC!NotReady] # Unset <=> ~object.ready
      BY <1>6, <3>1, <3>4 DEF SustainInv, HeldInv
    <3>7. CASE object.ready
      <4>1. object'.ready # object.ready
        BY <3>4, <3>7, Zenon
      <4> QED BY <3>1, <3>3, <3>6, <3>7, <4>1
    <3>8. CASE ~object.ready
      <4>1. object'.ready = object.ready
        BY <3>4, <3>5, <3>8, Zenon
      <4>2. held[NC!NotReady] = object.age
        BY <1>7, <3>1, <3>4, <3>8 DEF SustainInv, HeldInv
      <4> QED BY <3>1, <3>3, <3>6, <3>8, <4>1, <4>2
    <3> QED BY <3>7, <3>8
  <2> QED BY <2>2, <2>3
<1>8. \A r \in Reasons : held'[r] # Unset <=> r \in Holding(object)'
  BY <1>1, <1>5, SameConfig
<1>9. kind' = kind /\ Holding(object)' = Holding(object')
  BY <1>1, SameConfig
<1> QED BY <1>5, <1>6, <1>7, <1>8, <1>9 DEF HeldInv

\* A new object, if it is the first: nothing is remembered.
LEMMA CreateSustain == ASSUME SustainInv, Create PROVE SinceInv' /\ OpenInv'
<1>1. /\ births' = births + 1 /\ exists' = TRUE /\ pending' = TRUE /\ UNCHANGED memory
      /\ births \in Nat /\ births' # 0
  BY SustainFacts DEF Create, Written
<1>2. UNCHANGED <<kind, limit, alertOn>>
  BY DEF Create, config
<1>3. ASSUME births' <= 1 PROVE memory.since = Unset /\ memory.open = {}
  BY <1>1, <1>3 DEF SustainInv, SinceInv
<1>4. HeldInv'
  BY HeldWrite
<1>5. held' \in [Reasons -> Ages \cup {Unset}] /\ Holding(object)' \subseteq Reasons
  <2>1. TypeOK' /\ CurrentInv'
    BY TypeStep, CurrentStep DEF SustainInv, Next
  <2>2. held' \in [Reasons -> Ages \cup {Unset}]
    BY <2>1 DEF TypeOK, Reasons, Ages
  <2>3. Holding(object') \subseteq Reasons
    BY HoldingReasons, TypeFacts DEF SustainInv, TypeOK
  <2> QED BY <1>2, <2>2, <2>3, SameConfig
<1>6. \A r \in Reasons : held'[r] >= Unset
  BY <1>5, SustainFacts DEF Unset
<1>7. SinceInv'
  BY <1>1, <1>3, <1>5, <1>6 DEF SinceInv, Undisturbed
<1>8. OpenInv'
  <2>1. ~Delivered'
    BY <1>1, Zenon DEF Delivered
  <2> QED BY <1>1, <1>3, <2>1 DEF OpenInv, Undisturbed
<1> QED BY <1>7, <1>8

\* A write: without a gap the version before was handled.
LEMMA UpdateSustain == ASSUME SustainInv, Update PROVE SinceInv' /\ OpenInv'
<1>1. /\ exists /\ UNCHANGED <<exists, births, memory>> /\ pending' = TRUE
      /\ object' \in Objects /\ held' = HeldBy(object', held)
      /\ (~pending /\ UNCHANGED gaps) \/ gaps' = gaps + 1
  BY DEF Update, Written, Updates
<1>2. UNCHANGED <<kind, limit, alertOn>>
  BY DEF Update, config
<1>3. /\ held \in [Reasons -> Ages \cup {Unset}] /\ Ages \subseteq Nat /\ gaps \in Nat
      /\ memory.since \in Ages \cup {Unset}
  BY SustainFacts
<1>4. kind \in AllKinds /\ Eldest \in Nat \ {0} /\ alertOn \subseteq NC!NodeReasons
  BY TypeFacts DEF SustainInv, TypeOK
<1>5. Holding(object') \subseteq Reasons /\ Holding(object)' = Holding(object')
  BY <1>2, <1>4, HoldingReasons, SameConfig
<1>6. \A r \in Holding(object') :
         /\ held'[r] # Unset /\ held'[r] \in Ages \cup {Unset}
         /\ kind # "Deployment" => held'[r] = IF held[r] = Unset THEN 0 ELSE held[r]
  BY <1>1, <1>3, <1>4, <1>5, HeldByFacts
<1>7. births # 0
  BY <1>1 DEF SustainInv, SinceInv
<1>8. ASSUME Undisturbed' PROVE Undisturbed /\ Delivered
  BY <1>1, <1>3, <1>8 DEF Undisturbed, Delivered
<1>9. ASSUME Undisturbed', NEW r \in Holding(object') PROVE memory.since <= held'[r]
  <2>1. held'[r] \in Nat
    BY <1>3, <1>6
  <2>2. CASE memory.since = Unset
    BY <2>1, <2>2 DEF Unset
  <2>3. CASE memory.since # Unset
    <3>1. kind # "Deployment" /\ ~Dated
      BY <2>3 DEF SustainInv, TypeOK, Dated
    <3>2. Holding(object) # {}
      BY <1>1, <1>8, <1>9, <2>3 DEF SustainInv, SinceInv, Delivered
    <3>3. r \in Holding(object)
      BY <1>4, <3>1, <3>2, HoldingReasons
    <3>4. memory.since <= held[r] /\ r \in Reasons
      BY <1>1, <1>5, <1>8, <1>9, <3>3 DEF SustainInv, SinceInv
    <3>5. held'[r] = held[r]
      BY <1>1, <1>6, <3>1, <3>3, <3>4 DEF SustainInv, HeldInv
    <3> QED BY <3>4, <3>5
  <2> QED BY <2>2, <2>3
<1>10. SinceInv'
  BY <1>1, <1>5, <1>7, <1>9 DEF SinceInv
<1>11. ASSUME Undisturbed', kind # "Deployment", NEW r \in memory.open \cap Holding(object')
       PROVE  held'[r] >= Due(r)
  <2>1. r \in Holding(object) /\ r \in Reasons
    BY <1>5, <1>8, <1>11 DEF SustainInv, CurrentInv, AlertIsCurrent
  <2>2. held[r] >= Due(r)
    BY <1>1, <1>8, <1>11, <2>1 DEF SustainInv, OpenInv
  <2>3. held'[r] = held[r]
    BY <1>1, <1>6, <1>11, <2>1 DEF SustainInv, HeldInv
  <2> QED BY <2>2, <2>3
<1>12. OpenInv'
  <2>1. ~Delivered'
    BY <1>1, Zenon DEF Delivered
  <2>2. \A r : Due(r)' = Due(r)
    BY <1>2, SameConfig
  <2> QED BY <1>1, <1>2, <1>5, <1>11, <2>1, <2>2 DEF OpenInv
<1> QED BY <1>10, <1>12

\* The handlers: an alert that is new is due, by the age or by the stamp.
LEMMA HandledDue ==
    ASSUME SustainInv, exists, NEW r \in Handle(memory, object).open, r \in Holding(object),
           r \notin memory.open,
           kind = "Deployment" \/ ~Dated => memory.since <= held[r]
    PROVE  held[r] >= Due(r)
<1>1. memory \in Memories /\ kind \in AllKinds /\ r \in Reasons /\ Ages \subseteq Nat
  BY TypeFacts, SustainFacts DEF SustainInv
<1>2. held[r] # Unset /\ held[r] \in Nat /\ limit \in Nat /\ Default \in Nat
  BY <1>1, SustainFacts, WatchedAssumption DEF SustainInv, HeldInv, TypeOK, Unset
<1>3. CASE kind = "Node"
  <2>1. r \in Holding(object) /\ NC!ShouldAlert(object, r, limit)
    BY <1>1, <1>3 DEF Handle, Memories, NC!HandleNode, Holding
  <2>2. r \in {NC!NotReady, NC!Pressure}
    BY <1>3, <2>1 DEF Holding, NC!Firing, SustainInv, TypeOK, NC!NodeReasons
  <2>3. CASE r = NC!NotReady
    <3>1. object.age >= limit
      BY <2>1, <2>3 DEF NC!ShouldAlert
    <3>2. held[r] = object.age
      BY <1>3, <2>1, <2>3 DEF SustainInv, HeldInv
    <3>3. Due(r) = limit
      BY <2>3 DEF Due, NC!NotReady, NC!Pressure, RS!Stuck
    <3> QED BY <3>1, <3>2, <3>3
  <2>4. CASE r = NC!Pressure
    <3>1. Due(r) = 0
      BY <2>4 DEF Due, NC!Pressure, RS!Stuck
    <3> QED BY <1>2, <3>1
  <2> QED BY <2>2, <2>3, <2>4
<1>4. CASE kind = "Deployment"
  <2>1. r = RS!Stuck
    BY <1>4 DEF Holding
  <2>2. object.age >= RS!Threshold(limit, Default)
    BY <1>1, <1>4 DEF Handle, Memories, RS!CheckDep, RS!ClearFiring
  <2>3. held[r] = object.age
    BY <1>4, <2>1 DEF SustainInv, HeldInv
  <2>4. Due(r) = RS!Threshold(limit, Default) + 0
    BY <1>4, <2>1 DEF Due, NC!Pressure, RS!Stuck
  <2>5. RS!Threshold(limit, Default) \in Nat
    BY <1>2 DEF RS!Threshold
  <2> QED BY <2>2, <2>3, <2>4, <2>5
<1>5. CASE kind = "StatefulSet"
  <2>1. r = RS!Stuck /\ RS!InProgress(object)
    BY <1>5 DEF Holding
  <2>2. Handle(memory, object) = RS!CheckSS(memory, object, RS!Threshold(limit, Default))
    BY <1>5 DEF Handle
  <2> DEFINE s == IF memory.since = Unset THEN 0 ELSE memory.since
  <2>3. s > RS!Threshold(limit, Default)
    BY <1>1, <2>1, <2>2 DEF Memories, RS!CheckSS, RS!RolloutStartedAt, RS!Unset, Unset
  <2>4. s <= held[r]
    BY <1>2, <1>5 DEF Dated
  <2>5. Due(r) = RS!Threshold(limit, Default) + 1
    BY <1>5, <2>1 DEF Due, NC!Pressure, RS!Stuck
  <2>6. RS!Threshold(limit, Default) \in Nat /\ s \in Int
    BY <1>1, <1>2 DEF RS!Threshold, Memories, Unset
  <2> HIDE DEF s
  <2> QED BY <1>2, <2>3, <2>4, <2>5, <2>6
<1>6. CASE kind \in {"HorizontalPodAutoscaler", "DaemonSet"}
  <2>1. PICK q \in {ST!AtMaxReplicas, ST!Unscheduled} :
           Handle(memory, object) = ST!On(memory, limit, q) /\ Holding(object) = {q}
    BY <1>6 DEF Handle, Holding, ST!HandleHPA, ST!HandleDaemonSet
  <2> DEFINE s == IF memory.since = Unset THEN 0 ELSE memory.since
  <2>2. s >= limit
    BY <1>1, <2>1 DEF Memories, ST!On, ST!Stamped, ST!Unset, Unset
  <2>3. s <= held[r]
    BY <1>2, <1>6 DEF Dated
  <2>4. Due(r) = limit
    BY <2>1 DEF Due, NC!Pressure, RS!Stuck, ST!AtMaxReplicas, ST!Unscheduled
  <2>5. s \in Int
    BY <1>1 DEF Memories, Unset
  <2> HIDE DEF s
  <2> QED BY <1>2, <2>2, <2>3, <2>4, <2>5
<1> QED BY <1>1, <1>3, <1>4, <1>5, <1>6 DEF AllKinds

\* What stays open of a stuck Deployment is due again.
LEMMA DeploymentDue ==
    ASSUME SustainInv, exists, kind = "Deployment", NEW r \in Handle(memory, object).open
    PROVE  held[r] >= Due(r)
<1>1. memory \in Memories /\ Knows(memory)
  BY DEF SustainInv, CurrentInv
<1>2. r = RS!Stuck /\ RS!Stuck \in Holding(object)
  BY <1>1, DeploymentHandled DEF Holding
<1>3. object.age >= RS!Threshold(limit, Default)
  BY <1>1, <1>2 DEF Handle, Knows, Memories, RS!CheckDep, RS!ClearFiring
<1>4. held[r] = object.age
  BY <1>2 DEF SustainInv, HeldInv
<1>5. Due(r) = RS!Threshold(limit, Default) + 0
  BY <1>2 DEF Due, NC!Pressure, RS!Stuck
<1>6. RS!Threshold(limit, Default) \in Nat
  BY WatchedAssumption DEF SustainInv, TypeOK, RS!Threshold
<1> QED BY <1>3, <1>4, <1>5, <1>6

LEMMA DeliverSustain == ASSUME SustainInv, Deliver PROVE HeldInv' /\ SinceInv' /\ OpenInv'
<1>1. /\ exists /\ pending' = FALSE /\ memory' = Handle(memory, object)
      /\ UNCHANGED <<exists, object, held, births, gaps, resets, restarts>>
  BY DEF Deliver
<1>2. UNCHANGED <<kind, limit, alertOn>>
  BY DEF Deliver, config
<1>3. Holding(object)' = Holding(object) /\ \A r : Due(r)' = Due(r)
  BY <1>1, <1>2, SameConfig
<1>4. HeldInv'
  BY <1>1, <1>2, <1>3 DEF SustainInv, HeldInv
<1>5. /\ memory \in Memories /\ kind \in AllKinds /\ Eldest \in Nat \ {0}
      /\ memory.since \in Ages \cup {Unset} /\ (Dated => memory.since = Unset)
      /\ Ages \subseteq Nat
  BY TypeFacts DEF SustainInv, TypeOK
<1>6. /\ Dated => memory'.since = Unset
      /\ ~Dated => /\ Holding(object) = {} => memory'.since = Unset
                   /\ Holding(object) # {} =>
                         memory'.since = IF memory.since = Unset THEN 0 ELSE memory.since
  BY <1>1, <1>5, HandledSince
<1>7. \A r \in Holding(object) : r \in Reasons /\ held[r] \in Nat
  BY <1>1, SustainFacts DEF SustainInv, HeldInv
<1>8. births # 0
  BY <1>1 DEF SustainInv, SinceInv
<1>9. ASSUME Undisturbed, NEW r \in Holding(object)
      PROVE  memory.since <= held[r] /\ memory'.since <= held[r]
  <2>1. memory.since <= held[r]
    BY <1>1, <1>9 DEF SustainInv, SinceInv
  <2>2. CASE Dated
    BY <1>6, <1>7, <1>9, <2>1, <2>2 DEF Unset
  <2>3. CASE ~Dated
    BY <1>6, <1>7, <1>9, <2>1, <2>3
  <2> QED BY <2>2, <2>3
<1>10. SinceInv'
  <2>1. Undisturbed => (Holding(object) = {} => memory'.since = Unset)
    BY <1>6
  <2>2. Undisturbed' = Undisturbed
    BY <1>1 DEF Undisturbed
  <2> QED BY <1>1, <1>3, <1>8, <1>9, <2>1, <2>2 DEF SinceInv
<1>11. ASSUME Undisturbed, kind # "Deployment", NEW r \in memory'.open \cap Holding(object)
       PROVE  held[r] >= Due(r)
  <2>1. CASE r \in memory.open
    BY <1>1, <1>11, <2>1 DEF SustainInv, OpenInv
  <2>2. CASE r \notin memory.open
    BY <1>1, <1>9, <1>11, <2>2, HandledDue
  <2> QED BY <2>1, <2>2
<1>12. ASSUME kind = "Deployment", NEW r \in memory'.open PROVE held[r] >= Due(r)
  BY <1>1, <1>12, DeploymentDue
<1>13. OpenInv'
  <2>1. Undisturbed' = Undisturbed
    BY <1>1 DEF Undisturbed
  <2> QED BY <1>1, <1>2, <1>3, <1>11, <1>12, <2>1 DEF OpenInv
<1> QED BY <1>4, <1>10, <1>13

LEMMA TickSustain == ASSUME SustainInv, Tick PROVE HeldInv' /\ SinceInv' /\ OpenInv'
<1>1. /\ object' = Aged /\ held' = [r \in Reasons |-> Older(held[r])]
      /\ memory' = [memory EXCEPT !.since = Older(@)]
      /\ UNCHANGED <<exists, pending, births, gaps>>
  BY DEF Tick, Aged
<1>2. UNCHANGED <<kind, limit, alertOn>>
  BY DEF Tick, config
<1>3. /\ memory \in Memories /\ kind \in AllKinds /\ Eldest \in Nat \ {0}
      /\ memory.since \in Ages \cup {Unset} /\ Ages \subseteq Nat /\ object \in Objects
  BY TypeFacts DEF SustainInv, TypeOK
<1>4. /\ Holding(object)' = Holding(object) /\ \A r : Due(r)' = Due(r)
      /\ Dated => object'.age = Older(object.age)
  BY <1>1, <1>2, <1>3, AgedType, SameConfig
<1>5. memory'.since = Older(memory.since) /\ memory'.open = memory.open
  BY <1>1, <1>3 DEF Memories
<1>6. \A r \in Reasons : held[r] \in Ages \cup {Unset} /\ held'[r] = Older(held[r])
  BY <1>1, SustainFacts
<1>7. \A r \in Reasons : (held'[r] = Unset <=> held[r] = Unset) /\ held'[r] >= held[r]
  BY <1>3, <1>6, OlderFacts
<1>8. NC!NotReady \in Reasons /\ RS!Stuck \in Reasons
  BY DEF Reasons, NC!NodeReasons
<1>9. HeldInv'
  <2>1. exists => \A r \in Reasons : held'[r] # Unset <=> r \in Holding(object)
    BY <1>7 DEF SustainInv, HeldInv
  <2>2. exists /\ kind = "Node" /\ NC!NotReady \in Holding(object) =>
           held'[NC!NotReady] = object'.age
    BY <1>4, <1>6, <1>8 DEF SustainInv, HeldInv, Dated
  <2>3. exists /\ kind = "Deployment" /\ RS!Stuck \in Holding(object) =>
           held'[RS!Stuck] = object'.age
    BY <1>4, <1>6, <1>8 DEF SustainInv, HeldInv, Dated
  <2> QED BY <1>1, <1>2, <1>4, <2>1, <2>2, <2>3 DEF HeldInv
<1>10. memory'.since = Unset <=> memory.since = Unset
  BY <1>3, <1>5, OlderFacts
<1>11. ASSUME NEW r \in Reasons, memory.since <= held[r] PROVE memory'.since <= held'[r]
  <2>1. held[r] >= memory.since
    BY <1>3, <1>6, <1>11 DEF Unset
  <2>2. Older(held[r]) >= Older(memory.since)
    BY <1>3, <1>6, <2>1, OlderFacts
  <2>3. Older(held[r]) \in Ages \cup {Unset} /\ Older(memory.since) \in Ages \cup {Unset}
    BY <1>3, <1>6, OlderFacts
  <2> QED BY <1>3, <1>5, <1>6, <2>2, <2>3 DEF Unset
<1>12. Holding(object) \subseteq Reasons /\ memory.open \subseteq Reasons
  BY SustainFacts
<1>13. SinceInv'
  BY <1>1, <1>4, <1>5, <1>10, <1>11, <1>12 DEF SustainInv, SinceInv, Undisturbed
<1>14. ASSUME NEW r \in memory.open, held[r] >= Due(r) PROVE held'[r] >= Due(r)
  <2>1. Due(r) \in Nat /\ r \in Reasons
    BY <1>12, DueType DEF SustainInv
  <2>2. held[r] \in Int /\ held'[r] \in Int
    <3>1. Older(held[r]) \in Ages \cup {Unset}
      BY <1>3, <1>6, <2>1, OlderFacts
    <3>2. Ages \cup {Unset} \subseteq Int
      BY <1>3 DEF Unset
    <3>3. held[r] \in Ages \cup {Unset} /\ held'[r] \in Ages \cup {Unset}
      BY <1>6, <2>1, <3>1
    <3> QED BY <3>2, <3>3
  <2> QED BY <1>7, <1>14, <2>1, <2>2
<1>15. OpenInv'
  BY <1>1, <1>2, <1>4, <1>5, <1>14 DEF SustainInv, OpenInv, Undisturbed, Delivered
<1> QED BY <1>9, <1>13, <1>15

LEMMA RestSustain ==
    ASSUME SustainInv, Touch \/ Delete \/ Reset \/ Restart \/ UNCHANGED vars
    PROVE  HeldInv' /\ SinceInv' /\ OpenInv'
<1>1. UNCHANGED <<kind, limit, alertOn, object, births>>
  BY DEF Touch, Delete, Reset, Restart, vars, config, cluster
<1>2. Holding(object)' = Holding(object) /\ \A r : Due(r)' = Due(r)
  BY <1>1, SameConfig
<1>3. gaps \in Nat /\ gaps' \in Nat /\ (gaps' = 0 => gaps = 0)
  <2>1. gaps' = gaps \/ gaps' = gaps + 1
    BY DEF Touch, Delete, Reset, Restart, vars, config, cluster
  <2> QED BY <2>1, SustainFacts
<1>4. Undisturbed' => Undisturbed
  BY <1>1, <1>3 DEF Undisturbed
<1>5. CASE Delete
  <2>1. exists' = FALSE /\ UNCHANGED memory
    BY <1>5 DEF Delete
  <2>2. ~exists' /\ ~Delivered'
    BY <2>1, Zenon DEF Delivered
  <2> QED BY <1>1, <2>1, <2>2 DEF SustainInv, HeldInv, SinceInv, OpenInv
<1>6. CASE Touch
  <2>1. UNCHANGED <<exists, held, memory, gaps>> /\ pending' = TRUE
    BY <1>6 DEF Touch
  <2>2. pending' /\ ~Delivered'
    BY <2>1, Zenon DEF Delivered
  <2> QED BY <1>1, <1>2, <1>4, <2>1, <2>2 DEF SustainInv, HeldInv, SinceInv, OpenInv
<1>7. CASE Reset
  <2>1. UNCHANGED <<exists, held, pending, gaps>> /\ memory' = [memory EXCEPT !.open = {}]
    BY <1>7 DEF Reset, cluster
  <2>2. memory'.since = memory.since /\ memory'.open = {}
    BY <2>1 DEF SustainInv, TypeOK
  <2> QED BY <1>1, <1>2, <1>4, <2>1, <2>2 DEF SustainInv, HeldInv, SinceInv, OpenInv
<1>8. CASE Restart
  <2>1. UNCHANGED <<exists, held, gaps>> /\ pending' = exists /\ memory' = Blank
    BY <1>8 DEF Restart
  <2>2. memory'.since = Unset /\ memory'.open = {}
    BY <2>1 DEF Blank
  <2>3. ~Delivered' /\ (exists' => pending')
    BY <2>1, Zenon DEF Delivered
  <2>4. \A r \in Holding(object) : Unset <= held[r]
    <3>1. Ages \cup {Unset} \subseteq Int /\ \A a \in Ages \cup {Unset} : Unset <= a
      BY SustainFacts DEF Unset
    <3> QED BY <3>1, SustainFacts
  <2> QED BY <1>1, <1>2, <1>4, <2>1, <2>2, <2>3, <2>4 DEF SustainInv, HeldInv, SinceInv, OpenInv
<1>9. CASE UNCHANGED vars
  <2>1. UNCHANGED <<exists, held, pending, gaps, memory>>
    BY <1>9 DEF vars, cluster
  <2> QED BY <1>1, <1>2, <1>4, <2>1 DEF SustainInv, HeldInv, SinceInv, OpenInv, Delivered
<1> QED BY <1>5, <1>6, <1>7, <1>8, <1>9

LEMMA SustainInit == Init => SustainInv
<1> SUFFICES ASSUME Init PROVE SustainInv
  OBVIOUS
<1>1. TypeOK /\ CurrentInv
  BY TypeInit, CurrentInit
<1>2. ~exists /\ memory.since = Unset /\ memory.open = {}
  BY DEF Init, Blank
<1> QED BY <1>1, <1>2 DEF SustainInv, HeldInv, SinceInv, OpenInv, Delivered

LEMMA SustainStep == SustainInv /\ [Next]_vars => SustainInv'
<1> SUFFICES ASSUME SustainInv, [Next]_vars PROVE SustainInv'
  OBVIOUS
<1>1. TypeOK' /\ CurrentInv'
  BY TypeStep, CurrentStep DEF SustainInv
<1>2. HeldInv' /\ SinceInv' /\ OpenInv'
  BY HeldWrite, CreateSustain, UpdateSustain, DeliverSustain, TickSustain, RestSustain DEF Next
<1> QED BY <1>1, <1>2 DEF SustainInv

\* An open alert of an object that is not deleted, under a watch without a gap,
\* is of a condition that has lasted without a break for as long as configured,
\* for any limits, resets and restarts: no episode inherits the stamp of the
\* one before (rolloutStartedAt, m.since, shouldAlert).
THEOREM OpenIsSustained == Spec => []AlertIsSustained
BY SustainInit, SustainStep, Sustained, PTL DEF Spec
=============================================================================
