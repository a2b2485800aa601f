---------------------------- MODULE ScansProofs ----------------------------
(* What every periodic monitor of Scans keeps, whatever objects, nodes,     *)
(* limits and failures there are.                                           *)
EXTENDS Scans, FiniteSetTheorems, WellFoundedInduction, TLAPS

AtMostOne(S) == \A v, w \in S : v = w

\* TypeOK, with what it says of cardinalities in terms of members.
Typed ==
    /\ kind \in Kinds /\ now \in Nat
    /\ value \in [Objects -> Nat]
    /\ at \in [Objects -> SUBSET Nodes]
    /\ pc \in {"idle", "scan"} /\ left \subseteq Nodes
    /\ found \in [Objects -> SUBSET Nat]
    /\ \A o \in Objects : AtMostOne(found[o])
    /\ pc = "idle" => left = {} /\ found = Nothing
    /\ open \in [Objects -> Grades]
    /\ shown \in [Objects -> SUBSET Grades]
    /\ missed \subseteq Objects /\ lapses \in Nat

\* While a scan goes on, what it knows of o was shown since it began; if it
\* knows nothing, then there was nothing, or it missed o, or o is on nodes
\* that it has yet to ask.
Evidence(o) ==
    /\ Shows(o) \in shown[o]
    /\ \A v \in found[o] : Wanted(o) => Grade(v) \in shown[o]
    /\ found[o] = {} =>
          "none" \in shown[o] \/ o \in missed \/ (at[o] # {} /\ at[o] \subseteq left)

EvidenceInv == pc = "scan" => \A o \in Objects : Evidence(o)

-----------------------------------------------------------------------------
LEMMA GradeType ==
    ASSUME NEW k, NEW t, NEW v
    PROVE  GradeAt(k, t, v) \in Grades
  BY DEF GradeAt, Grades, ByLimits, ByDays

LEMMA ShowsType ==
    ASSUME NEW o
    PROVE  Shows(o) \in Grades /\ Shows(o)' \in Grades
  BY GradeType DEF Shows, Grade, Grades

\* A history that Watch keeps holds grades.
LEMMA WatchType ==
    ASSUME Watch, shown \in [Objects -> SUBSET Grades]
    PROVE  shown' \in [Objects -> SUBSET Grades]
  BY ShowsType DEF Watch

LEMMA TypedInit == Init => Typed
<1> SUFFICES ASSUME Init PROVE Typed
  OBVIOUS
<1>1. ValuesOf[kind] \subseteq Nat
  BY ScansAssumption DEF Init
<1>2. value \in [Objects -> Nat]
  BY <1>1 DEF Init
<1>3. at \in [Objects -> SUBSET Nodes]
  BY DEF Init
<1>4. found \in [Objects -> SUBSET Nat] /\ \A o \in Objects : AtMostOne(found[o])
  BY DEF Init, Nothing, AtMostOne
<1>5. open \in [Objects -> Grades]
  BY DEF Init, Grades
<1>6. shown \in [Objects -> SUBSET Grades]
  BY ShowsType DEF Init
<1> QED
  BY <1>2, <1>3, <1>4, <1>5, <1>6 DEF Init, Typed

LEMMA TypedStep == Typed /\ [Next]_vars => Typed'
<1> SUFFICES ASSUME Typed, [Next]_vars PROVE Typed'
  OBVIOUS
<1> USE DEF Typed
<1>1. CASE Begin
  <2>1. shown' \in [Objects -> SUBSET Grades]
    BY <1>1, WatchType DEF Begin
  <2>2. /\ left' \subseteq Nodes
        /\ found' \in [Objects -> SUBSET Nat]
        /\ \A o \in Objects : AtMostOne(found'[o])
    BY <1>1 DEF Begin, Listed, Nothing, AtMostOne, cluster
  <2> QED
    BY <1>1, <2>1, <2>2 DEF Begin, cluster
<1>2. CASE ListFails
  BY <1>2, WatchType DEF ListFails, Lapse, cluster, Nothing
<1>3. ASSUME NEW n \in Nodes, Fetch(n) PROVE Typed'
  <2>1. shown' \in [Objects -> SUBSET Grades]
    BY <1>3, WatchType DEF Fetch
  <2>2. /\ found' \in [Objects -> SUBSET Nat]
        /\ \A o \in Objects : AtMostOne(found'[o])
    BY <1>3 DEF Fetch, Seen, AtMostOne
  <2> QED
    BY <1>3, <2>1, <2>2 DEF Fetch, cluster
<1>4. ASSUME NEW n \in Nodes, FetchFails(n) PROVE Typed'
  <2>1. shown' \in [Objects -> SUBSET Grades]
    BY <1>4, WatchType DEF FetchFails
  <2> QED
    BY <1>4, <2>1 DEF FetchFails, Lapse, cluster
<1>5. CASE End
  <2>1. shown' \in [Objects -> SUBSET Grades]
    BY <1>5, WatchType DEF End
  <2>2. /\ found' \in [Objects -> SUBSET Nat] /\ found' = Nothing
        /\ \A o \in Objects : AtMostOne(found'[o])
    BY <1>5 DEF End, Nothing, AtMostOne
  <2>3. \A o \in Objects : Judged(o) \in Grades
    BY GradeType DEF Judged, Grade, Grades
  <2>4. open' \in [Objects -> Grades] /\ missed' \subseteq Objects /\ lapses' \in Nat
    BY <1>5, <2>3 DEF End, Lapse
  <2> QED
    BY <1>5, <2>1, <2>2, <2>4 DEF End, cluster
<1>6. ASSUME NEW o \in Objects, Change(o) PROVE Typed'
  <2>1. shown' \in [Objects -> SUBSET Grades]
    BY <1>6, WatchType DEF Change
  <2>2. ValuesOf[kind] \subseteq Nat
    BY ScansAssumption
  <2>3. value' \in [Objects -> Nat]
    BY <1>6, <2>2 DEF Change
  <2> QED
    BY <1>6, <2>1, <2>3 DEF Change, Nothing
<1>7. ASSUME NEW o \in Objects, Toggle(o) PROVE Typed'
  <2>1. shown' \in [Objects -> SUBSET Grades]
    BY <1>7, WatchType DEF Toggle
  <2>2. at' \in [Objects -> SUBSET Nodes]
    BY <1>7 DEF Toggle
  <2> QED
    BY <1>7, <2>1, <2>2 DEF Toggle, Nothing
<1>8. ASSUME NEW o \in Objects, Move(o) PROVE Typed'
  <2>1. shown' \in [Objects -> SUBSET Grades]
    BY <1>8, WatchType DEF Move
  <2>2. at' \in [Objects -> SUBSET Nodes]
    BY <1>8 DEF Move
  <2> QED
    BY <1>8, <2>1, <2>2 DEF Move, Lapse, Nothing
<1>9. CASE Tick
  <2>1. shown' \in [Objects -> SUBSET Grades]
    BY <1>9, WatchType DEF Tick
  <2> QED
    BY <1>9, <2>1 DEF Tick, Nothing
<1>10. CASE UNCHANGED vars
  BY <1>10 DEF vars, cluster, Nothing
<1> QED
  BY <1>1, <1>2, <1>3, <1>4, <1>5, <1>6, <1>7, <1>8, <1>9, <1>10 DEF Next, Scan

LEMMA TypedIsTypeOK == Typed => TypeOK
<1> SUFFICES ASSUME Typed PROVE TypeOK
  OBVIOUS
<1>1. ASSUME NEW o \in Objects PROVE Cardinality(found[o]) <= 1
  <2>1. CASE found[o] = {}
    BY <2>1, FS_EmptySet
  <2>2. CASE found[o] # {}
    <3>1. PICK v \in found[o] : found[o] = {v}
      BY <1>1, <2>2 DEF Typed, AtMostOne
    <3>2. Cardinality({v}) = 1
      BY FS_Singleton
    <3> QED
      BY <3>1, <3>2
  <2> QED
    BY <2>1, <2>2
<1> QED
  BY <1>1 DEF Typed, TypeOK

\* The variables keep their types; a scan never holds two values of an object.
THEOREM TypeCorrect == Spec => []TypeOK
<1>1. Typed /\ [Next]_vars => Typed'
  BY TypedStep
<1> QED
  BY TypedInit, <1>1, TypedIsTypeOK, PTL DEF Spec

-----------------------------------------------------------------------------
\* The grades that do not change while a scan goes on.
LEMMA GradeKept ==
    ASSUME kind' = kind, now' = now
    PROVE  /\ \A v : Grade(v)' = Grade(v)
           /\ \A o : Wanted(o)' = Wanted(o)
  BY DEF Grade, Wanted

\* A step that leaves an object, and what is known of it, as it was.
LEMMA EvidenceKept ==
    ASSUME NEW o \in Objects, Evidence(o), Typed, Watch, pc = "scan",
           kind' = kind, now' = now, found'[o] = found[o],
           found[o] = {} =>
               o \in missed' \/ Shows(o)' = "none" \/ "none" \in shown[o]
                 \/ (at'[o] # {} /\ at'[o] \subseteq left')
    PROVE  Evidence(o)'
<1>1. shown'[o] = shown[o] \cup {Shows(o)'}
  BY DEF Watch
<1>2. \A v \in found'[o] : Wanted(o)' => Grade(v)' \in shown'[o]
  BY <1>1, GradeKept DEF Evidence
<1> QED
  BY <1>1, <1>2 DEF Evidence

LEMMA EvidenceStep == Typed /\ EvidenceInv /\ [Next]_vars => EvidenceInv'
<1> SUFFICES ASSUME Typed, EvidenceInv, [Next]_vars, pc' = "scan", NEW o \in Objects
             PROVE  Evidence(o)'
  BY DEF EvidenceInv
<1>a. pc = "scan" => Evidence(o)
  BY DEF EvidenceInv
<1>1. CASE Begin
  <2>1. shown'[o] = {Shows(o)'} /\ kind' = kind /\ now' = now /\ at' = at /\ value' = value
    BY <1>1 DEF Begin, Watch, cluster
  <2>2. at[o] = {} => Shows(o)' = "none"
    BY <2>1 DEF Shows
  <2>3. at[o] \subseteq Nodes
    BY DEF Typed
  <2>4. CASE kind \in Usage
    <3>1. found'[o] = {} /\ left' = Nodes
      BY <1>1, <2>4 DEF Begin, Listed, Nothing
    <3> QED
      BY <2>1, <2>2, <2>3, <3>1 DEF Evidence
  <2>5. CASE kind \notin Usage
    <3>1. found'[o] = IF at[o] = {} THEN {} ELSE {value[o]}
      BY <1>1, <2>5 DEF Begin
    <3>2. at[o] # {} /\ Wanted(o)' => Shows(o)' = Grade(value[o])'
      BY <2>1 DEF Shows
    <3> QED
      BY <2>1, <2>2, <3>1, <3>2 DEF Evidence
  <2> QED
    BY <2>4, <2>5
<1>2. CASE ListFails
  BY <1>2 DEF ListFails
<1>3. ASSUME NEW n \in Nodes, Fetch(n) PROVE Evidence(o)'
  <2>1. /\ pc = "scan" /\ kind' = kind /\ now' = now /\ at' = at /\ value' = value
        /\ missed' = missed /\ left' = left \ {n} /\ Watch
        /\ found'[o] = Seen(o, n)
    BY <1>3 DEF Fetch, cluster
  <2>2. CASE n \notin at[o]
    BY <1>a, <2>1, <2>2, EvidenceKept DEF Seen, Evidence
  <2>3. CASE n \in at[o]
    <3>1. found'[o] = {value[o]}
      BY <2>1, <2>3 DEF Seen
    <3>2. Shows(o)' \in shown'[o]
      BY <2>1 DEF Watch
    <3>3. Wanted(o)' => Shows(o)' = Grade(value[o])'
      BY <2>1, <2>3 DEF Shows
    <3> QED
      BY <2>1, <3>1, <3>2, <3>3 DEF Evidence
  <2> QED
    BY <2>2, <2>3
<1>4. ASSUME NEW n \in Nodes, FetchFails(n) PROVE Evidence(o)'
  <2>1. /\ pc = "scan" /\ kind' = kind /\ now' = now /\ at' = at /\ found' = found
        /\ missed' = missed \cup {x \in Objects : n \in at[x]} /\ left' = left \ {n} /\ Watch
    BY <1>4 DEF FetchFails, Lapse, cluster
  <2> QED
    BY <1>a, <2>1, EvidenceKept DEF Evidence
<1>5. CASE End
  BY <1>5 DEF End
<1>6. ASSUME NEW x \in Objects, Change(x) PROVE Evidence(o)'
  BY <1>a, <1>6, EvidenceKept DEF Change, Evidence
<1>7. ASSUME NEW x \in Objects, Toggle(x) PROVE Evidence(o)'
  <2>1. /\ pc = "scan" /\ kind' = kind /\ now' = now /\ found' = found
        /\ missed' = missed /\ left' = left /\ Watch
    BY <1>7 DEF Toggle
  <2>2. at'[o] = at[o] \/ at'[o] = {} \/ at[o] = {}
    BY <1>7 DEF Toggle, Typed
  <2>3. at'[o] = {} => Shows(o)' = "none"
    BY DEF Shows
  <2>4. at[o] = {} => Shows(o) = "none"
    BY DEF Shows
  <2> QED
    BY <1>a, <2>1, <2>2, <2>3, <2>4, EvidenceKept DEF Evidence
<1>8. ASSUME NEW x \in Objects, Move(x) PROVE Evidence(o)'
  <2>1. /\ pc = "scan" /\ kind' = kind /\ now' = now /\ found' = found
        /\ missed' = missed \cup {x} /\ left' = left /\ Watch
    BY <1>8 DEF Move, Lapse
  <2>2. o = x \/ at'[o] = at[o]
    BY <1>8 DEF Move, Typed
  <2> QED
    BY <1>a, <2>1, <2>2, EvidenceKept DEF Evidence
<1>9. CASE Tick
  BY <1>9 DEF Tick
<1>10. CASE UNCHANGED vars
  <2>1. Evidence(o)' = Evidence(o)
    BY <1>10 DEF vars, cluster, Evidence, Shows, Grade, Wanted
  <2> QED
    BY <1>10, <1>a, <2>1 DEF vars
<1> QED
  BY <1>1, <1>2, <1>3, <1>4, <1>5, <1>6, <1>7, <1>8, <1>9, <1>10 DEF Next, Scan

\* What a scan with no node left makes of an object is among the grades that it
\* showed, or the object was missed and counts as clear.
LEMMA JudgedFairly ==
    ASSUME NEW o \in Objects, Evidence(o), left = {}
    PROVE  Judged(o) \in shown[o] \cup (IF o \in missed THEN {"none"} ELSE {})
<1>1. CASE found[o] = {}
  BY <1>1 DEF Evidence, Judged
<1>2. CASE ~Wanted(o)
  BY <1>2 DEF Evidence, Judged, Shows
<1>3. CASE found[o] # {} /\ Wanted(o)
  <2>1. PICK v : v = CHOOSE w \in found[o] : TRUE
    OBVIOUS
  <2>2. v \in found[o]
    BY <1>3, <2>1
  <2> QED
    BY <1>3, <2>1, <2>2 DEF Evidence, Judged
<1> QED
  BY <1>1, <1>2, <1>3

LEMMA OnlyEvidence ==
    Typed /\ EvidenceInv /\ [Next]_vars
      => [\A o \in Objects : open'[o] # open[o] =>
             open'[o] \in shown[o] \cup (IF o \in missed THEN {"none"} ELSE {})]_vars
<1> SUFFICES ASSUME Typed, EvidenceInv, Next, NEW o \in Objects, open'[o] # open[o]
             PROVE  open'[o] \in shown[o] \cup (IF o \in missed THEN {"none"} ELSE {})
  OBVIOUS
<1>1. End
  BY DEF Next, Scan, Begin, ListFails, Fetch, FetchFails, Change, Toggle, Move, Tick
<1>2. pc = "scan" /\ left = {} /\ open'[o] = Judged(o)
  BY <1>1 DEF End
<1>3. Evidence(o)
  BY <1>2 DEF EvidenceInv
<1> QED
  BY <1>2, <1>3, JudgedFairly

\* ScanIsEvidence, for any number of nodes, objects and failures and whatever
\* the cluster does while the nodes are asked.
THEOREM ScansAreEvidence == Spec => ScanIsEvidence
<1>1. Init => EvidenceInv
  BY DEF Init, EvidenceInv
<1>2. Typed /\ [Next]_vars => Typed'
  BY TypedStep
<1>3. Typed /\ EvidenceInv /\ [Next]_vars => EvidenceInv'
  BY EvidenceStep
<1> QED
  BY TypedInit, <1>1, <1>2, <1>3, OnlyEvidence, PTL DEF Spec, ScanIsEvidence

-----------------------------------------------------------------------------
(* The loop that counts the missed runs.  It is defined by recursion; what *)
(* it computes is shown with the least number principle.                   *)

\* A set of numbers that is not empty has a least one.
LEMMA Least ==
    ASSUME NEW T \in SUBSET Nat, T # {}
    PROVE  \E x \in T : \A y \in T : x <= y
<1>1. IsWellFoundedOn(OpToRel(<, Nat), Nat)
  BY NatLessThanWellFounded, Zenon
<1>2. PICK x \in T : \A y \in T : <<y, x>> \notin OpToRel(<, Nat)
  BY <1>1, WFMin, Zenon
<1>3. \A y \in T : ~ (y < x)
  BY <1>2, Zenon DEF OpToRel
<1> QED BY <1>3

\* A loop that goes from n to n + 1 until it may stop, and may stop from some d
\* on: there is a function that it computes, and it stops at d.
LoopFrom(top, Stop, c) == [n \in 0..top |-> IF n \in Stop THEN n ELSE c[n + 1]]

LEMMA LoopSolved ==
    ASSUME NEW top \in Nat, NEW Stop \in SUBSET Nat, NEW d \in 0..top,
           \A n \in Nat : n \in Stop <=> n >= d
    PROVE  \E c : c = LoopFrom(top, Stop, c)
<1> DEFINE g == [n \in 0..top |-> IF n <= d THEN d ELSE n]
<1>1. ASSUME NEW n \in 0..top
      PROVE  (IF n <= d THEN d ELSE n) = (IF n \in Stop THEN n ELSE g[n + 1])
  <2>1. CASE n >= d
    BY <2>1
  <2>2. CASE n < d
    <3>1. n + 1 \in 0..top /\ n + 1 <= d
      BY <2>2
    <3>2. g[n + 1] = d
      BY <3>1
    <3>3. n \notin Stop /\ n <= d
      BY <2>2
    <3> QED BY <3>2, <3>3
  <2> QED BY <2>1, <2>2
<1>2. g = LoopFrom(top, Stop, g)
  BY <1>1 DEF LoopFrom
<1> QED BY <1>2

LEMMA LoopStops ==
    ASSUME NEW top \in Nat, NEW Stop \in SUBSET Nat, NEW d \in 0..top,
           \A n \in Nat : n \in Stop <=> n >= d,
           NEW f, f = LoopFrom(top, Stop, f)
    PROVE  f[0] = d
<1>1. \A n \in 0..top : f[n] = IF n \in Stop THEN n ELSE f[n + 1]
  BY DEF LoopFrom
<1> DEFINE T == {k \in 0..d : f[d - k] # d}
<1>2. CASE T = {}
  <2>1. d \in 0..d /\ d - d = 0
    OBVIOUS
  <2> QED BY <1>2, <2>1
<1>3. CASE T # {}
  <2>1. T \in SUBSET Nat
    OBVIOUS
  <2>2. PICK k \in T : \A y \in T : k <= y
    BY <1>3, <2>1, Least
  <2>3. k \in 0..d /\ f[d - k] # d
    BY <2>2
  <2>4. f[d] = d
    BY <1>1
  <2>5. k # 0
    BY <2>3, <2>4
  <2>6. k - 1 \in 0..d /\ k - 1 \notin T
    BY <2>2, <2>3, <2>5
  <2>7. f[d - (k - 1)] = d
    BY <2>6
  <2>8. d - k \in 0..top /\ d - k \notin Stop /\ (d - k) + 1 = d - (k - 1)
    BY <2>3, <2>5
  <2>9. f[d - k] = f[(d - k) + 1]
    BY <1>1, <2>8
  <2> QED BY <2>3, <2>7, <2>8, <2>9
<1> QED BY <1>2, <1>3

\* The runs of a schedule that were due after ref, by their number.
LEMMA Runs ==
    ASSUME NEW ref \in Nat
    PROVE  /\ NextRun(ref) \in Nat
           /\ \A n \in Nat : /\ NextRun(ref) + n * Period > ref
                             /\ NextRun(ref) + n * Period \in Nat
                             /\ (NextRun(ref) + n * Period) % Period = 0
           /\ \A t \in Nat : t > ref /\ t % Period = 0 =>
                 \E n \in Nat : t = NextRun(ref) + n * Period
<1> DEFINE q == ref \div Period
<1>1. Period \in Nat \ {0}
  BY ScansAssumption
<1>2. /\ q \in Nat /\ ref = Period * q + (ref % Period)
      /\ ref % Period \in 0..(Period - 1)
  BY <1>1
<1>3. NextRun(ref) = (q + 1) * Period
  BY DEF NextRun
<1> HIDE DEF q
<1>4. (q + 1) * Period = Period * q + Period /\ (q + 1) * Period \in Nat
  BY <1>1, <1>2
<1>5. NextRun(ref) > ref
  BY <1>1, <1>2, <1>3, <1>4
<1>6. ASSUME NEW n \in Nat
      PROVE  /\ NextRun(ref) + n * Period > ref
             /\ NextRun(ref) + n * Period \in Nat
             /\ (NextRun(ref) + n * Period) % Period = 0
  <2>1. NextRun(ref) + n * Period = (q + 1 + n) * Period
    BY <1>1, <1>2, <1>3
  <2>2. q + 1 + n \in Nat
    BY <1>2
  <2>3. ((q + 1 + n) * Period) % Period = 0
    BY <1>1, <2>2
  <2>4. n * Period \in Nat
    BY <1>1
  <2> QED BY <1>3, <1>4, <1>5, <2>1, <2>3, <2>4
<1>7. ASSUME NEW t \in Nat, t > ref, t % Period = 0
      PROVE  \E n \in Nat : t = NextRun(ref) + n * Period
  <2>1. PICK m \in Nat : t = m * Period
    <3>1. t \div Period \in Nat /\ t = Period * (t \div Period) + (t % Period)
      BY <1>1
    <3>2. t = (t \div Period) * Period
      BY <1>1, <1>7, <3>1
    <3> QED BY <3>1, <3>2
  <2>2. q < m
    <3>1. q * Period < m * Period
      BY <1>1, <1>2, <1>7, <2>1
    <3> QED BY <1>1, <1>2, <3>1
  <2>3. PICK n \in Nat : m = q + 1 + n
    <3>1. m - q - 1 \in Nat /\ m = q + 1 + (m - q - 1)
      BY <1>2, <2>2
    <3> QED BY <3>1
  <2>4. t = (q + 1) * Period + n * Period
    BY <1>1, <1>2, <2>1, <2>3
  <2> QED BY <1>3, <2>4
<1> QED BY <1>3, <1>4, <1>6, <1>7

\* The loop counts the runs that are not later than t, one after the other, and
\* gives up at Miss + 11.
LEMMA MissedForm ==
    ASSUME NEW ref \in Nat, NEW t \in Nat
    PROVE  /\ Miss \in Nat \ {0}
           /\ Missed(ref, t) \in 0..(Miss + 11)
           /\ \A n \in 0..(Miss + 10) : n >= Missed(ref, t) <=> NextRun(ref) + n * Period > t
<1> DEFINE top == Miss + 11
           Stop == {n \in Nat : n > Miss + 10 \/ NextRun(ref) + n * Period > t}
           f == CHOOSE c : c = [n \in 0..(Miss + 11) |->
                   IF n > Miss + 10 \/ NextRun(ref) + n * Period > t THEN n ELSE c[n + 1]]
<1>1. Miss \in Nat \ {0} /\ Period \in Nat \ {0} /\ NextRun(ref) \in Nat
  BY ScansAssumption, Runs DEF Miss
<1>2. top \in Nat /\ top \in Stop /\ Stop \in SUBSET Nat
  BY <1>1
<1>3. PICK d \in Stop : \A y \in Stop : d <= y
  BY <1>2, Least
<1>4. d \in 0..top
  BY <1>2, <1>3
<1>5. \A n \in Nat : n \in Stop <=> n >= d
  <2> TAKE n \in Nat
  <2>1. n \in Stop => n >= d
    BY <1>3
  <2>2. ASSUME n >= d PROVE n \in Stop
    <3>1. CASE d > Miss + 10
      BY <1>1, <1>3, <2>2, <3>1
    <3>2. CASE NextRun(ref) + d * Period > t
      <4>1. d \in Nat /\ n * Period >= d * Period
        BY <1>1, <1>3, <2>2
      <4>2. n * Period \in Nat /\ d * Period \in Nat
        BY <1>1, <4>1
      <4>3. NextRun(ref) + n * Period > t
        BY <1>1, <3>2, <4>1, <4>2
      <4> QED BY <4>3
    <3> QED BY <1>3, <3>1, <3>2
  <2> QED BY <2>1, <2>2
<1>6. \A c : [n \in 0..(Miss + 11) |->
                 IF n > Miss + 10 \/ NextRun(ref) + n * Period > t THEN n ELSE c[n + 1]]
             = LoopFrom(top, Stop, c)
  <2> TAKE c
  <2>1. \A n \in 0..top : n \in Stop <=> (n > Miss + 10 \/ NextRun(ref) + n * Period > t)
    BY <1>1
  <2> QED BY <2>1 DEF LoopFrom
<1>7. Missed(ref, t) = f[0]
  BY DEF Missed
<1> HIDE DEF Stop, top
<1>8. f = LoopFrom(top, Stop, f)
  <2>1. \E c : c = LoopFrom(top, Stop, c)
    BY <1>2, <1>4, <1>5, LoopSolved
  <2>2. \E c : c = [n \in 0..(Miss + 11) |->
                 IF n > Miss + 10 \/ NextRun(ref) + n * Period > t THEN n ELSE c[n + 1]]
    BY <1>6, <2>1
  <2> QED BY <1>6, <2>2
<1> HIDE DEF f
<1>9. f[0] = d
  BY <1>2, <1>4, <1>5, <1>8, LoopStops
<1>10. \A n \in 0..(Miss + 10) : n \in Stop <=> NextRun(ref) + n * Period > t
  BY <1>1 DEF Stop
<1>11. \A n \in 0..(Miss + 10) : n \in Nat
  BY <1>1
<1> QED BY <1>1, <1>4, <1>5, <1>7, <1>9, <1>10, <1>11 DEF top

\* The runs that were due, after ref and not later than t.
DueRuns(ref, t) == {u \in (ref + 1)..t : u % Period = 0}

LEMMA DueCounted ==
    ASSUME NEW ref \in Nat, NEW t \in Nat
    PROVE  /\ Cardinality(DueRuns(ref, t)) \in Nat
           /\ Missed(ref, t) <= Cardinality(DueRuns(ref, t))
           /\ Missed(ref, t) < Miss + 11 => Missed(ref, t) = Cardinality(DueRuns(ref, t))
<1>1. PICK d \in 0..(Miss + 11) : d = Missed(ref, t)
  BY MissedForm
<1>2. PICK first \in Nat : first = NextRun(ref)
  BY Runs
<1>3. PICK due : due = DueRuns(ref, t)
  OBVIOUS
<1>4. /\ Miss \in Nat \ {0}
      /\ \A n \in 0..(Miss + 10) : n >= d <=> first + n * Period > t
  BY <1>1, <1>2, MissedForm
<1>5. Period \in Nat \ {0}
  BY ScansAssumption
<1>6. \A n \in Nat : /\ first + n * Period > ref /\ first + n * Period \in Nat
                     /\ (first + n * Period) % Period = 0
  BY <1>2, Runs
<1>7. IsFiniteSet(due) /\ Cardinality(due) \in Nat
  <2>1. IsFiniteSet((ref + 1)..t)
    BY FS_Interval
  <2>2. due \in SUBSET ((ref + 1)..t)
    BY <1>3 DEF DueRuns
  <2> QED BY <2>1, <2>2, FS_Subset, FS_CardinalityType
<1>8. d \in Nat /\ IsFiniteSet(1..d) /\ Cardinality(1..d) = d
  <2>1. d \in Nat
    BY <1>1, <1>4
  <2> QED BY <2>1, FS_Interval
<1> DEFINE f == [n \in 1..d |-> first + (n - 1) * Period]
<1>9. ASSUME NEW n \in 1..d PROVE f[n] \in due
  <2>1. n - 1 \in 0..(Miss + 10) /\ ~(n - 1 >= d) /\ n - 1 \in Nat
    BY <1>4, <1>8
  <2>2. first + (n - 1) * Period <= t
    BY <1>4, <1>6, <2>1
  <2>3. PICK u \in Nat : u = first + (n - 1) * Period
    BY <1>6, <2>1
  <2>4. u > ref /\ u % Period = 0 /\ u <= t
    BY <1>6, <2>1, <2>2, <2>3
  <2>5. u \in (ref + 1)..t
    BY <2>4
  <2> QED BY <1>3, <2>3, <2>4, <2>5 DEF DueRuns
<1>10. f \in Injection(1..d, due)
  <2>1. f \in [1..d -> due]
    BY <1>9
  <2>2. ASSUME NEW a \in 1..d, NEW b \in 1..d, f[a] = f[b] PROVE a = b
    <3>1. first + (a - 1) * Period = first + (b - 1) * Period
      BY <2>2
    <3>2. a \in Nat /\ b \in Nat
      BY <1>8
    <3>3. (a - 1) * Period \in Int /\ (b - 1) * Period \in Int
      BY <1>5, <3>2
    <3>4. (a - 1) * Period = (b - 1) * Period
      BY <3>1, <3>3
    <3> QED BY <1>5, <3>2, <3>4
  <2> QED BY <2>1, <2>2 DEF Injection, IsInjective
<1>11. d <= Cardinality(due)
  BY <1>7, <1>8, <1>10, FS_Injection
<1>12. ASSUME d < Miss + 11 PROVE f \in Surjection(1..d, due)
  <2>1. ASSUME NEW u \in due PROVE \E n \in 1..d : f[n] = u
    <3>1. u \in (ref + 1)..t /\ u % Period = 0
      BY <1>3 DEF DueRuns
    <3>2. u \in Nat /\ u > ref /\ u <= t
      BY <3>1
    <3>3. PICK n \in Nat : u = first + n * Period
      BY <1>2, <3>1, <3>2, Runs
    <3>4. n < d
      <4>1. SUFFICES ASSUME n >= d PROVE FALSE
        BY <1>8
      <4>2. d \in 0..(Miss + 10)
        BY <1>4, <1>8, <1>12
      <4>3. first + d * Period > t
        BY <1>4, <1>8, <4>2
      <4>4. n * Period >= d * Period /\ n * Period \in Nat /\ d * Period \in Nat
        BY <1>5, <1>8, <4>1
      <4> QED BY <3>2, <3>3, <4>3, <4>4
    <3>5. n + 1 \in 1..d /\ (n + 1) - 1 = n
      BY <1>8, <3>4
    <3>6. f[n + 1] = u
      BY <3>3, <3>5
    <3> QED BY <3>5, <3>6
  <2> QED BY <1>9, <2>1 DEF Surjection
<1>13. ASSUME d < Miss + 11 PROVE d = Cardinality(due)
  <2>1. Cardinality(due) <= d
    BY <1>8, <1>12, <1>13, FS_Surjection
  <2> QED BY <1>7, <1>8, <1>11, <2>1
<1> QED BY <1>1, <1>3, <1>7, <1>11, <1>13

\* Whatever the period, the threshold and the time of the last run, the loop
\* counts the runs that were due and are not later than now, or gives up above
\* the threshold, which it passes as their true number does (CronJobMissed.scan).
THEOREM MissedCounted == Spec => []MissedIsCounted
<1>1. TypeOK => MissedIsCounted
  <2> SUFFICES ASSUME TypeOK, NEW o \in Objects
               PROVE  /\ Missed(value[o], now) <= Cardinality(DueRuns(value[o], now))
                      /\ Missed(value[o], now) < Miss + 11 =>
                            Missed(value[o], now) = Cardinality(DueRuns(value[o], now))
                      /\ Missed(value[o], now) >= Miss <=>
                            Cardinality(DueRuns(value[o], now)) >= Miss
    BY DEF MissedIsCounted, DueRuns
  <2>1. value[o] \in Nat /\ now \in Nat
    BY DEF TypeOK
  <2>2. PICK m \in 0..(Miss + 11) : m = Missed(value[o], now)
    BY <2>1, MissedForm
  <2>3. PICK c \in Nat : c = Cardinality(DueRuns(value[o], now))
    BY <2>1, DueCounted
  <2>4. m <= c /\ (m < Miss + 11 => m = c)
    BY <2>1, <2>2, <2>3, DueCounted
  <2>5. Miss \in Nat
    BY <2>1, MissedForm
  <2>6. (m >= Miss) <=> (c >= Miss)
    BY <2>2, <2>3, <2>4, <2>5
  <2> QED BY <2>2, <2>3, <2>4, <2>6
<1> QED BY <1>1, TypeCorrect, PTL
=============================================================================
