-------------------------- MODULE PointInTimeProofs --------------------------
(***************************************************************************)
(* Theorems about PointInTime, for any thresholds, windows and namespace   *)
(* filters and any number of updates, births, gaps, dropped calls and      *)
(* restarts: all the invariants that its run checks.                       *)
(***************************************************************************)
EXTENDS PointInTime, SequenceTheorems, FiniteSetTheorems, TLAPS

USE DEF config, bounds, stored

-----------------------------------------------------------------------------
(* The samples that PodRestarts.handle keeps.                              *)

\* The samples of one container in the order they were taken.
InOrder(s) ==
    \A i \in DOMAIN s : \A j \in i..Len(s) : s[i].at <= s[j].at /\ s[i].count <= s[j].count

\* Trimmed drops the first k samples, and those are the ones that are too old.
LEMMA TrimmedForm ==
    ASSUME NEW s \in Seq(Samples), InOrder(s), now \in Nat, window \in Int
    PROVE  \E k \in 0..Len(s) :
              /\ \A i \in 1..Len(s) : s[i].at >= now - window <=> i > k
              /\ Trimmed(s) \in Seq(Samples) /\ Len(Trimmed(s)) = Len(s) - k
              /\ \A i \in 1..(Len(s) - k) : Trimmed(s)[i] = s[k + i]
<1> DEFINE old == {i \in DOMAIN s : s[i].at < now - window}
           k == Cardinality(old)
<1>1. DOMAIN s = 1..Len(s) /\ Len(s) \in Nat /\ \A i \in 1..Len(s) : s[i] \in Samples
  BY LenProperties, ElementOfSeq
<1>2. PICK hi \in Nat : hi = Len(s)
  BY LenProperties
<1>3. \A i \in 1..Len(s) : s[i].at \in Nat
  BY <1>1 DEF Samples
<1>4. \A i \in old : 1..i \subseteq old
  BY <1>1, <1>3 DEF InOrder
<1>5. old \subseteq 1..Len(s)
  BY <1>1
<1>6. IsFiniteSet(1..Len(s)) /\ Cardinality(1..Len(s)) = Len(s)
  <2>1. IsFiniteSet(1..hi) /\ Cardinality(1..hi) = hi
    BY FS_Interval
  <2> QED BY <1>2, <2>1
<1>7. IsFiniteSet(old) /\ k <= Len(s)
  BY <1>5, <1>6, FS_Subset
<1>8. k \in Nat
  BY <1>7, FS_CardinalityType
<1> HIDE DEF old, k
<1>9. \A i \in old : i <= k
  <2> TAKE i \in old
  <2>1. i \in Nat /\ i >= 1
    BY <1>1, <1>5
  <2>2. Cardinality(1..i) = i
    BY <2>1, FS_Interval
  <2>3. Cardinality(1..i) <= Cardinality(old)
    BY <1>4, <1>7, FS_Subset
  <2> QED BY <2>2, <2>3 DEF k
<1>10. old \subseteq 1..k
  BY <1>1, <1>5, <1>8, <1>9
<1>11. old = 1..k
  <2>1. IsFiniteSet(1..k) /\ Cardinality(1..k) = k
    BY <1>8, FS_Interval
  <2> QED BY <1>10, <2>1, FS_Subset DEF k
<1>12. \A i \in 1..Len(s) : s[i].at >= now - window <=> i > k
  <2> TAKE i \in 1..Len(s)
  <2>1. s[i].at >= now - window <=> i \notin old
    BY <1>1, <1>3 DEF old
  <2> QED BY <1>1, <1>8, <1>11, <2>1
<1>13. Trimmed(s) = SubSeq(s, k + 1, Len(s))
  BY DEF Trimmed, old, k
<1>14. PICK lo \in Int : lo = k + 1
  BY <1>8
<1>15. \A i \in lo..hi : s[i] \in Samples
  BY <1>1, <1>8, <1>14, <1>2
<1>16. /\ SubSeq(s, lo, hi) \in Seq(Samples)
       /\ Len(SubSeq(s, lo, hi)) = IF lo <= hi THEN hi - lo + 1 ELSE 0
       /\ \A i \in 1..(hi - lo + 1) : SubSeq(s, lo, hi)[i] = s[lo + i - 1]
  BY <1>15, SubSeqProperties
<1>17. /\ (IF lo <= hi THEN hi - lo + 1 ELSE 0) = Len(s) - k /\ hi - lo + 1 = Len(s) - k
       /\ \A i \in 1..(Len(s) - k) : lo + i - 1 = k + i
  BY <1>7, <1>8, <1>14, <1>2
<1>18. k \in 0..Len(s)
  BY <1>1, <1>7, <1>8
<1> QED BY <1>12, <1>13, <1>14, <1>2, <1>16, <1>17, <1>18

-----------------------------------------------------------------------------
(* The object, its history and the restart counts of the past.             *)

\* uids are given out in turn, and a restart count only grows.
ObjInv ==
    /\ obj = None \/ obj.uid \in 1..births
    /\ known = None \/ known.uid \in 1..births
    /\ known.uid = obj.uid => known.count <= obj.count

\* A sample was taken in the past, and not before its unit began.
HistInv ==
    /\ \A i \in DOMAIN hist : hist[i].at <= now /\ hist[i].count <= known.count
    /\ obj # None /\ known.uid = obj.uid =>
          \A i \in DOMAIN hist : before[hist[i].at] <= hist[i].count

BeforeInv ==
    obj # None =>
        \A t \in 0..now : before[t] <= obj.count /\ \A s \in 0..t : before[s] <= before[t]

Inv == TypeOK /\ ObjInv /\ HistInv /\ BeforeInv

LEMMA Values ==
    ASSUME Inv
    PROVE  /\ now \in Nat /\ MaxTime \in Nat /\ now <= MaxTime
           /\ obj \in ObjectStates /\ known \in ObjectStates
           /\ obj.count \in Nat /\ known.count \in Nat
           /\ \A t \in 0..now : before[t] \in Nat
           /\ \A i \in DOMAIN hist : hist[i].at \in Nat /\ hist[i].count \in Nat
<1>1. /\ now \in 0..MaxTime /\ obj \in ObjectStates /\ known \in ObjectStates
      /\ before \in [0..MaxTime -> Nat] /\ hist \in Seq(Samples)
  BY DEF Inv, TypeOK
<1>2. MaxTime \in Nat
  BY PointInTimeAssumption
<1>3. obj.count \in Nat /\ known.count \in Nat
  BY <1>1 DEF ObjectStates
<1>4. \A i \in DOMAIN hist : hist[i] \in Samples
  BY <1>1, LenProperties, ElementOfSeq
<1>5. \A i \in DOMAIN hist : hist[i].at \in Nat /\ hist[i].count \in Nat
  BY <1>4 DEF Samples
<1> QED BY <1>1, <1>2, <1>3, <1>5

\* What handle keeps of the history: all samples that are young enough, and
\* its own as the last.
LEMMA SampledForm ==
    ASSUME Inv, window > 0
    PROVE  /\ Sampled \in Seq(Samples) /\ Len(Sampled) \in Nat \ {0} /\ InOrder(Sampled)
           /\ Sampled[Len(Sampled)] = [at |-> now, count |-> obj.count]
           /\ \A i \in DOMAIN Sampled :
                 /\ Sampled[i].at >= now - window
                 /\ \/ Sampled[i] = [at |-> now, count |-> obj.count]
                    \/ known.uid = obj.uid /\ \E j \in DOMAIN hist : Sampled[i] = hist[j]
           /\ known.uid = obj.uid =>
                 \A j \in DOMAIN hist : hist[j].at >= now - window =>
                    \E i \in DOMAIN Sampled : Sampled[i] = hist[j]
<1> DEFINE kept == IF known.uid = obj.uid THEN hist ELSE <<>>
           new == [at |-> now, count |-> obj.count]
           s == Append(kept, new)
<1>1. now \in Nat /\ obj.count \in Nat /\ window \in Int /\ hist \in Seq(Samples)
  BY PointInTimeAssumption DEF Inv, TypeOK, ObjectStates
<1>2. new \in Samples
  BY <1>1 DEF Samples
<1>3. kept \in Seq(Samples)
  BY <1>1, EmptySeq
<1>4. \A i \in DOMAIN kept : /\ known.uid = obj.uid /\ kept = hist
                             /\ kept[i].at <= now /\ kept[i].count <= obj.count
  <2>1. CASE known.uid = obj.uid
    <3>1. \A i \in DOMAIN hist : hist[i].at <= now /\ hist[i].count <= known.count
      BY DEF Inv, HistInv
    <3>2. known.count <= obj.count
      BY <2>1 DEF Inv, ObjInv
    <3>3. known.count \in Nat /\ \A i \in DOMAIN hist : hist[i].count \in Nat
      BY Values
    <3> QED BY <1>1, <2>1, <3>1, <3>2, <3>3
  <2>2. CASE known.uid # obj.uid
    <3>1. DOMAIN kept = {}
      BY <2>2
    <3> QED BY <3>1
  <2> QED BY <2>1, <2>2
<1>5. InOrder(kept)
  <2>1. InOrder(hist)
    BY DEF Inv, TypeOK, InOrder
  <2>2. InOrder(<<>>)
    BY DEF InOrder
  <2> QED BY <2>1, <2>2
<1> HIDE DEF kept
<1>6. PICK n \in Nat : n = Len(kept) /\ DOMAIN kept = 1..n
  BY <1>3, LenProperties
<1>7. /\ s \in Seq(Samples) /\ Len(s) = n + 1 /\ DOMAIN s = 1..(n + 1)
      /\ \A i \in 1..n : s[i] = kept[i]
      /\ s[n + 1] = new
  BY <1>2, <1>3, <1>6, AppendProperties
<1> HIDE DEF s, new
<1>8. new.at = now /\ new.count = obj.count
  BY DEF new
<1>9. InOrder(s)
  <2> SUFFICES ASSUME NEW i \in 1..(n + 1), NEW j \in i..(n + 1)
               PROVE  s[i].at <= s[j].at /\ s[i].count <= s[j].count
    BY <1>7 DEF InOrder
  <2>1. CASE j \in 1..n
    <3>1. i \in 1..n
      BY <1>6, <2>1
    <3> QED BY <1>5, <1>6, <1>7, <2>1, <3>1 DEF InOrder
  <2>2. CASE j = n + 1 /\ i \in 1..n
    BY <1>4, <1>6, <1>7, <1>8, <2>2
  <2>3. CASE j = n + 1 /\ i = n + 1
    BY <1>1, <1>7, <1>8, <2>3
  <2> QED BY <1>6, <2>1, <2>2, <2>3
<1>10. PICK k \in 0..(n + 1) :
          /\ \A i \in 1..(n + 1) : s[i].at >= now - window <=> i > k
          /\ Trimmed(s) \in Seq(Samples) /\ Len(Trimmed(s)) = n + 1 - k
          /\ \A i \in 1..(n + 1 - k) : Trimmed(s)[i] = s[k + i]
  <2>1. PICK k \in 0..Len(s) :
          /\ \A i \in 1..Len(s) : s[i].at >= now - window <=> i > k
          /\ Trimmed(s) \in Seq(Samples) /\ Len(Trimmed(s)) = Len(s) - k
          /\ \A i \in 1..(Len(s) - k) : Trimmed(s)[i] = s[k + i]
    BY <1>1, <1>7, <1>9, TrimmedForm
  <2> QED BY <1>7, <2>1
<1>11. Sampled = Trimmed(s)
  BY DEF Sampled, s, kept, new
<1>12. k < n + 1
  <2>1. s[n + 1].at >= now - window
    BY <1>1, <1>7, <1>8
  <2> QED BY <1>6, <1>10, <2>1
<1>13. PICK m \in Nat \ {0} : m = n + 1 - k /\ k + m = n + 1
  BY <1>6, <1>10, <1>12
<1>14. /\ Len(Sampled) = m /\ DOMAIN Sampled = 1..m
       /\ \A i \in 1..m : Sampled[i] = s[k + i] /\ k + i \in 1..(n + 1) /\ k + i > k
  BY <1>6, <1>10, <1>11, <1>13, LenProperties
<1>15. InOrder(Sampled)
  <2> SUFFICES ASSUME NEW i \in 1..m, NEW j \in i..m
               PROVE  /\ Sampled[i].at <= Sampled[j].at
                      /\ Sampled[i].count <= Sampled[j].count
    BY <1>14 DEF InOrder
  <2>1. PICK a \in 1..(n + 1) : a = k + i
    BY <1>6, <1>10, <1>13
  <2>2. PICK b \in a..(n + 1) : b = k + j
    BY <1>6, <1>10, <1>13, <2>1
  <2>3. j \in 1..m
    BY <1>13
  <2>4. Sampled[i] = s[a] /\ Sampled[j] = s[b]
    BY <1>14, <2>1, <2>2, <2>3
  <2>5. s[a].at <= s[b].at /\ s[a].count <= s[b].count
    BY <1>7, <1>9 DEF InOrder
  <2> QED BY <2>4, <2>5
<1>16. Sampled[m] = new
  BY <1>7, <1>13, <1>14
<1>17. ASSUME NEW i \in 1..m
       PROVE  /\ Sampled[i].at >= now - window
              /\ \/ Sampled[i] = new
                 \/ known.uid = obj.uid /\ \E j \in DOMAIN hist : Sampled[i] = hist[j]
  <2>1. Sampled[i] = s[k + i] /\ k + i \in 1..(n + 1) /\ k + i > k
    BY <1>14
  <2>2. Sampled[i].at >= now - window
    BY <1>10, <2>1
  <2>3. CASE k + i = n + 1
    BY <1>7, <2>1, <2>2, <2>3
  <2>4. CASE k + i # n + 1
    <3>1. k + i \in 1..n
      BY <1>6, <2>1, <2>4
    <3> QED BY <1>4, <1>6, <1>7, <2>1, <2>2, <3>1
  <2> QED BY <2>3, <2>4
<1>18. ASSUME known.uid = obj.uid, NEW j \in DOMAIN hist, hist[j].at >= now - window
       PROVE  \E i \in 1..m : Sampled[i] = hist[j]
  <2>1. kept = hist
    BY <1>18 DEF kept
  <2>2. j \in 1..n /\ j \in 1..(n + 1) /\ s[j] = hist[j]
    BY <1>6, <1>7, <1>18, <2>1
  <2>3. j > k
    BY <1>10, <1>18, <2>2
  <2>4. PICK i \in 1..m : k + i = j
    <3>1. j - k \in 1..m /\ k + (j - k) = j
      BY <1>6, <1>10, <1>13, <2>2, <2>3
    <3> QED BY <3>1
  <2> QED BY <1>14, <2>2, <2>4
<1> QED BY <1>10, <1>11, <1>14, <1>15, <1>16, <1>17, <1>18 DEF new

LEMMA InitInv == Init => Inv
<1> SUFFICES ASSUME Init PROVE Inv
  OBVIOUS
<1>1. now = 0 /\ MaxTime \in Nat /\ 0 \in 0..MaxTime
  BY PointInTimeAssumption DEF Init
<1>2. obj = None /\ known = None /\ hist = <<>> /\ births = 0 /\ bumps = <<>>
  BY DEF Init
<1>3. TypeOK
  <2>1. kind \in Kinds /\ threshold \in Int /\ window \in Int
    BY PointInTimeAssumption DEF Init
  <2>2. None \in ObjectStates
    BY DEF None, ObjectStates
  <2>3. before \in [0..MaxTime -> Nat] /\ last \in [{Obj} -> Times] /\ saved \in [{Obj} -> Times]
    BY DEF Init, Forgotten, Times
  <2>4. hist \in Seq(Samples) /\ bumps \in Seq(Nat) /\ DOMAIN hist = {}
    BY <1>2
  <2> QED BY <1>1, <1>2, <2>1, <2>2, <2>3, <2>4 DEF Init, TypeOK
<1>4. ObjInv /\ HistInv /\ BeforeInv
  BY <1>2 DEF ObjInv, HistInv, BeforeInv, None
<1> QED BY <1>3, <1>4 DEF Inv

\* A step that leaves the monitor alone keeps the types.
LEMMA BecomesType ==
    ASSUME Inv, NEW o \in ObjectStates, Becomes(o),
           before' \in [0..MaxTime -> Nat], bumps' \in Seq(Nat), births' \in Nat
    PROVE  TypeOK'
<1>1. /\ obj' = o /\ news' = TRUE /\ verdict' = "none" /\ gaps' \in Nat
      /\ UNCHANGED <<config, now, known, hist, last, stored, notices, drops, starts>>
  BY DEF Becomes, Inv, TypeOK
<1> QED BY <1>1 DEF Inv, TypeOK

\* A change of the object that keeps its uid and does not count down.
LEMMA SameUid ==
    ASSUME Inv, NEW o \in ObjectStates, Becomes(o), obj # None,
           o.uid = obj.uid, o.count >= obj.count, UNCHANGED <<births, before, bumps>>
    PROVE  Inv'
<1>1. obj' = o /\ UNCHANGED <<now, known, hist>>
  BY DEF Becomes
<1>2. o # None /\ obj.count \in Nat /\ o.count \in Nat /\ known.count \in Nat
  BY DEF Inv, ObjInv, None, TypeOK, ObjectStates
<1>3. TypeOK'
  BY BecomesType DEF Inv, TypeOK
<1>4. ObjInv'
  BY <1>1, <1>2 DEF Inv, ObjInv
<1>5. HistInv'
  BY <1>1, <1>2 DEF Inv, HistInv
<1>6. BeforeInv'
  <2>1. \A t \in 0..now : before[t] \in Nat
    BY Values
  <2>2. \A t \in 0..now : before[t] <= obj.count /\ \A s \in 0..t : before[s] <= before[t]
    BY DEF Inv, BeforeInv
  <2>3. \A t \in 0..now : before[t] <= o.count
    BY <1>2, <2>1, <2>2
  <2> QED BY <1>1, <2>2, <2>3 DEF BeforeInv
<1> QED BY <1>3, <1>4, <1>5, <1>6 DEF Inv

LEMMA CreateInv == ASSUME Inv, Create PROVE Inv'
<1>1. PICK b \in BOOLEAN : Becomes([uid |-> births + 1, count |-> 0, bad |-> b])
  BY DEF Create
<1> DEFINE o == [uid |-> births + 1, count |-> 0, bad |-> b]
<1>2. /\ births' = births + 1 /\ before' = [t \in 0..MaxTime |-> 0] /\ bumps' = <<>>
      /\ births \in Nat
  BY DEF Create, Inv, TypeOK
<1>3. o \in ObjectStates /\ o.uid = births + 1 /\ o.count = 0 /\ o # None
  BY <1>2 DEF ObjectStates, None
<1> HIDE DEF o
<1>4. obj' = o /\ UNCHANGED <<now, known, hist>>
  BY <1>1 DEF Becomes, o
<1>5. TypeOK'
  BY <1>1, <1>2, <1>3, BecomesType DEF o
<1>6. known.uid # o.uid /\ (known = None \/ known.uid \in 1..births')
  BY <1>2, <1>3 DEF Inv, ObjInv, None
<1>7. ObjInv'
  BY <1>2, <1>3, <1>4, <1>6 DEF ObjInv
<1>8. HistInv'
  BY <1>4, <1>6 DEF Inv, HistInv
<1>9. BeforeInv'
  <2>1. now \in 0..MaxTime
    BY DEF Inv, TypeOK
  <2>2. \A t \in 0..now : before'[t] = 0
    BY <1>2, <2>1, PointInTimeAssumption
  <2> QED BY <1>3, <1>4, <2>1, <2>2 DEF BeforeInv
<1> QED BY <1>5, <1>7, <1>8, <1>9 DEF Inv

LEMMA ContainerRestartsInv == ASSUME Inv, ContainerRestarts PROVE Inv'
<1> DEFINE o == [obj EXCEPT !.count = @ + 1]
<1>1. Becomes(o) /\ obj # None /\ UNCHANGED <<births, before, bumps>>
  BY DEF ContainerRestarts
<1>2. o \in ObjectStates /\ o.uid = obj.uid /\ o.count >= obj.count
  <2>1. obj \in ObjectStates
    BY Values
  <2> QED BY <2>1 DEF ObjectStates
<1> HIDE DEF o
<1> QED BY <1>1, <1>2, SameUid

LEMMA JobFailsInv == ASSUME Inv, JobFails PROVE Inv'
<1> DEFINE o == [obj EXCEPT !.bad = TRUE]
<1>1. Becomes(o) /\ obj # None /\ UNCHANGED <<births, before, bumps>>
  BY DEF JobFails
<1>2. o \in ObjectStates /\ o.uid = obj.uid /\ o.count >= obj.count
  <2>1. obj \in ObjectStates /\ obj.count \in Nat
    BY Values
  <2>2. o \in ObjectStates
    BY <2>1 DEF ObjectStates
  <2>3. o.uid = obj.uid /\ o.count = obj.count
    BY <2>1 DEF ObjectStates
  <2> QED BY <2>1, <2>2, <2>3
<1> HIDE DEF o
<1> QED BY <1>1, <1>2, SameUid

LEMMA TouchInv == ASSUME Inv, Touch PROVE Inv'
<1>1. obj \in ObjectStates /\ obj.count >= obj.count
  BY DEF Inv, TypeOK, ObjectStates
<1> QED BY <1>1, SameUid DEF Touch

LEMMA DeleteInv == ASSUME Inv, Delete PROVE Inv'
<1>1. Becomes(None) /\ UNCHANGED <<births, before, bumps>>
  BY DEF Delete
<1>2. obj' = None /\ UNCHANGED <<now, known, hist>>
  BY <1>1 DEF Becomes
<1>3. None \in ObjectStates
  BY DEF None, ObjectStates
<1>4. TypeOK'
  BY <1>1, <1>3, BecomesType DEF Inv, TypeOK
<1>5. ObjInv'
  BY <1>1, <1>2 DEF Inv, ObjInv, None
<1> QED BY <1>2, <1>4, <1>5 DEF Inv, HistInv, BeforeInv

\* Submit leaves the table one of times and counts what it does.
LEMMA SubmitType ==
    ASSUME Inv, (Reports /\ Submit) \/ UNCHANGED <<last, notices, drops>>
    PROVE  last' \in [{Obj} -> Times] /\ notices' \in Nat /\ drops' \in Nat
<1>1. now \in Nat
  BY PointInTimeAssumption DEF Inv, TypeOK
<1> QED BY <1>1 DEF Submit, Admitted, Inv, TypeOK, Times

LEMMA DeliverInv == ASSUME Inv, Deliver PROVE Inv'
<1>1. /\ known' = obj /\ news' = FALSE /\ verdict' \in {"report", "silent"}
      /\ UNCHANGED <<config, now, obj, stored, before, births, gaps, starts>>
  BY DEF Deliver
<1>2. last' \in [{Obj} -> Times] /\ notices' \in Nat /\ drops' \in Nat
  BY SubmitType DEF Deliver
<1>3. now \in Nat /\ obj.count \in Nat /\ known.count \in Nat /\ obj \in ObjectStates
  BY PointInTimeAssumption DEF Inv, TypeOK, ObjectStates
<1>4. bumps' \in Seq(Nat)
  BY <1>3 DEF Deliver, Inv, TypeOK
<1>5. ObjInv'
  BY <1>1, <1>3 DEF Inv, ObjInv
<1>6. BeforeInv'
  BY <1>1 DEF Inv, BeforeInv
<1>7. CASE kind = "pod_restarts" /\ Looks
  <2>1. hist' = Sampled
    BY <1>7 DEF Deliver
  <2>2. window > 0 /\ obj # None
    BY <1>7 DEF Looks
  <2>3. PICK S : S = Sampled
    OBVIOUS
  <2>4. /\ S \in Seq(Samples) /\ Len(S) \in Nat \ {0} /\ InOrder(S)
        /\ S[Len(S)] = [at |-> now, count |-> obj.count]
        /\ \A i \in DOMAIN S :
              /\ S[i].at >= now - window
              /\ \/ S[i] = [at |-> now, count |-> obj.count]
                 \/ known.uid = obj.uid /\ \E j \in DOMAIN hist : S[i] = hist[j]
    BY <2>2, <2>3, SampledForm
  <2>5. S[Len(S)].at = now
    BY <2>4
  <2>6. TypeOK'
    BY <1>1, <1>2, <1>4, <2>1, <2>3, <2>4, <2>5 DEF Inv, TypeOK, InOrder
  <2>7. ASSUME NEW i \in DOMAIN S
        PROVE  S[i].at <= now /\ S[i].count <= obj.count /\ before[S[i].at] <= S[i].count
    <3>1. CASE S[i] = [at |-> now, count |-> obj.count]
      <4>1. before[now] <= obj.count
        BY <1>3, <2>2 DEF Inv, BeforeInv
      <4> QED BY <1>3, <3>1, <4>1
    <3>2. CASE known.uid = obj.uid /\ \E j \in DOMAIN hist : S[i] = hist[j]
      <4>1. PICK j \in DOMAIN hist : S[i] = hist[j]
        BY <3>2
      <4>2. hist[j].at <= now /\ hist[j].count <= known.count /\ before[hist[j].at] <= hist[j].count
        BY <2>2, <3>2 DEF Inv, HistInv
      <4>3. known.count <= obj.count
        BY <3>2 DEF Inv, ObjInv
      <4>4. hist[j].count \in Nat
        BY Values
      <4> QED BY <1>3, <4>1, <4>2, <4>3, <4>4
    <3> QED BY <2>4, <3>1, <3>2
  <2>8. HistInv'
    BY <1>1, <2>1, <2>3, <2>7 DEF HistInv
  <2> QED BY <1>5, <1>6, <2>6, <2>8 DEF Inv
<1>8. CASE ~(kind = "pod_restarts" /\ Looks) /\ known.uid = obj.uid
  <2>1. hist' = hist
    BY <1>8 DEF Deliver
  <2>2. TypeOK'
    <3>1. /\ hist' \in Seq(Samples)
          /\ \A i \in DOMAIN hist' :
                /\ hist'[i].at >= hist'[Len(hist')].at - window'
                /\ \A j \in i..Len(hist') :
                      hist'[i].at <= hist'[j].at /\ hist'[i].count <= hist'[j].count
      BY <1>1, <2>1 DEF Inv, TypeOK
    <3> QED BY <1>1, <1>2, <1>4, <3>1 DEF Inv, TypeOK
  <2>3. ASSUME NEW i \in DOMAIN hist PROVE hist[i].at <= now /\ hist[i].count <= obj.count
    <3>1. hist[i].at <= now /\ hist[i].count <= known.count /\ known.count <= obj.count
      BY <1>8 DEF Inv, HistInv, ObjInv
    <3>2. hist[i].count \in Nat
      BY Values
    <3> QED BY <1>3, <3>1, <3>2
  <2>4. HistInv'
    BY <1>1, <1>8, <2>1, <2>3 DEF Inv, HistInv
  <2> QED BY <1>5, <1>6, <2>2, <2>4 DEF Inv
<1>9. CASE ~(kind = "pod_restarts" /\ Looks) /\ known.uid # obj.uid
  <2>1. hist' = <<>>
    BY <1>9 DEF Deliver
  <2>2. hist' \in Seq(Samples) /\ DOMAIN hist' = {}
    BY <2>1
  <2>3. TypeOK'
    BY <1>1, <1>2, <1>4, <2>2 DEF Inv, TypeOK
  <2>4. HistInv'
    BY <2>2 DEF HistInv
  <2> QED BY <1>5, <1>6, <2>3, <2>4 DEF Inv
<1> QED BY <1>7, <1>8, <1>9

LEMMA TickInv == ASSUME Inv, Tick PROVE Inv'
<1>1. /\ now < MaxTime /\ now' = now + 1 /\ before' = [before EXCEPT ![now + 1] = obj.count]
      /\ verdict' = "none"
      /\ UNCHANGED <<config, obj, known, news, hist, last, stored, notices, bumps, bounds>>
  BY DEF Tick
<1>2. now \in Nat /\ obj.count \in Nat /\ MaxTime \in Nat /\ now' \in 0..MaxTime
      /\ before \in [0..MaxTime -> Nat]
  BY <1>1, PointInTimeAssumption DEF Inv, TypeOK, ObjectStates
<1>3. before' \in [0..MaxTime -> Nat]
  BY <1>1, <1>2
<1>4. before'[now + 1] = obj.count /\ \A t \in 0..now : before'[t] = before[t]
  BY <1>1, <1>2
<1>5. TypeOK'
  BY <1>1, <1>2, <1>3 DEF Inv, TypeOK
<1>6. ObjInv'
  BY <1>1 DEF Inv, ObjInv
<1>7. ASSUME NEW i \in DOMAIN hist PROVE hist[i].at \in 0..now
  <2>1. hist[i].at \in Nat
    BY Values
  <2>2. hist[i].at <= now
    BY DEF Inv, HistInv
  <2> QED BY <1>2, <2>1, <2>2
<1>8. HistInv'
  BY <1>1, <1>2, <1>4, <1>7 DEF Inv, HistInv
<1>9. BeforeInv'
  <2> SUFFICES ASSUME obj # None, NEW t \in 0..(now + 1), NEW s \in 0..t
               PROVE  before'[t] <= obj.count /\ before'[s] <= before'[t]
    BY <1>1 DEF BeforeInv
  <2>1. \A u \in 0..now : before[u] <= obj.count /\ \A v \in 0..u : before[v] <= before[u]
    BY DEF Inv, BeforeInv
  <2>2. CASE t \in 0..now
    <3>1. s \in 0..now
      BY <1>2, <2>2
    <3> QED BY <1>4, <2>1, <2>2, <3>1
  <2>3. CASE t = now + 1 /\ s \in 0..now
    BY <1>2, <1>4, <2>1, <2>3
  <2>4. CASE t = now + 1 /\ s = now + 1
    BY <1>2, <1>4, <2>4
  <2> QED BY <1>2, <2>2, <2>3, <2>4
<1> QED BY <1>5, <1>6, <1>8, <1>9 DEF Inv

\* What the next process begins with is a table, whatever was lost.
LEMMA HandOverType ==
    ASSUME Inv, HandOver
    PROVE  last' \in [{Obj} -> Times] /\ saved' \in [{Obj} -> Times] /\ losses' \in Nat
<1>1. /\ last \in [{Obj} -> Times] /\ saved \in [{Obj} -> Times] /\ losses \in Nat
      /\ Forgotten({Obj}) \in [{Obj} -> Times]
  BY DEF Inv, TypeOK, Forgotten, Times
<1>2. saved' \in {last, saved} /\ losses' \in {losses, losses + 1}
      /\ last' \in {Restored(Forgotten({Obj}), saved'), Forgotten({Obj})}
  BY DEF HandOver
<1>3. PICK t \in [{Obj} -> Times] : t = saved'
  BY <1>1, <1>2
<1>4. Restored(Forgotten({Obj}), t) \in [{Obj} -> Times]
  BY <1>1 DEF Restored
<1> QED BY <1>1, <1>2, <1>3, <1>4

LEMMA RestartInv == ASSUME Inv, Restart PROVE Inv'
<1>1. /\ known' = None /\ news' = (obj # None) /\ hist' = <<>> /\ bumps' = <<>>
      /\ verdict' = "none" /\ starts' = starts + 1
      /\ UNCHANGED <<config, now, obj, notices, before, births, gaps, drops>>
  BY DEF Restart
<1>2. last' \in [{Obj} -> Times] /\ saved' \in [{Obj} -> Times] /\ losses' \in Nat
  BY HandOverType DEF Restart
<1>3. None \in ObjectStates /\ DOMAIN hist' = {} /\ hist' \in Seq(Samples) /\ bumps' \in Seq(Nat)
  BY <1>1 DEF None, ObjectStates
<1>4. TypeOK'
  BY <1>1, <1>2, <1>3 DEF Inv, TypeOK
<1>5. ObjInv'
  BY <1>1 DEF Inv, ObjInv, TypeOK, ObjectStates, None
<1>6. HistInv' /\ BeforeInv'
  BY <1>1, <1>3 DEF Inv, HistInv, BeforeInv
<1> QED BY <1>4, <1>5, <1>6 DEF Inv

LEMMA SnapshotInv == ASSUME Inv, Snapshot PROVE Inv'
BY DEF Snapshot, Inv, TypeOK, ObjInv, HistInv, BeforeInv

LEMMA NextInv == Inv /\ [Next]_vars => Inv'
<1> SUFFICES ASSUME Inv, [Next]_vars PROVE Inv'
  OBVIOUS
<1>1. CASE UNCHANGED vars
  BY <1>1 DEF vars, Inv, TypeOK, ObjInv, HistInv, BeforeInv
<1> QED BY <1>1, CreateInv, ContainerRestartsInv, JobFailsInv, TouchInv, DeleteInv, DeliverInv,
           TickInv, SnapshotInv, RestartInv DEF Next

LEMMA AlwaysInv == Spec => []Inv
BY InitInv, NextInv, PTL DEF Spec

\* Whatever updates are merged, however often the object is replaced and kpulse
\* starts again, the history holds the samples of one window in the order in
\* which they were taken (PodRestarts.handle).
THEOREM TypeCorrect == Spec => []TypeOK
BY AlwaysInv, PTL DEF Inv

-----------------------------------------------------------------------------
(* A storm that is reported, and one that is not.                          *)

\* Only Deliver reports; the oldest sample it keeps was counted in the window.
LEMMA DeliverReal == ASSUME Inv, Deliver PROVE StormIsReal'
<1> SUFFICES ASSUME verdict' = "report", kind = "pod_restarts"
             PROVE  obj.count - before[IF now > window THEN now - window ELSE 0] >= threshold
  BY DEF StormIsReal, Deliver
<1>1. Looks /\ Storm(Sampled)
  BY DEF Deliver, Reports
<1>2. window > 0 /\ obj # None /\ window \in Int /\ threshold \in Int
  BY <1>1 DEF Looks, Inv, TypeOK
<1>3. PICK S : S = Sampled
  OBVIOUS
<1>4. /\ Len(S) \in Nat \ {0} /\ S \in Seq(Samples)
      /\ S[Len(S)] = [at |-> now, count |-> obj.count]
      /\ \A i \in DOMAIN S :
            /\ S[i].at >= now - window
            /\ \/ S[i] = [at |-> now, count |-> obj.count]
               \/ known.uid = obj.uid /\ \E j \in DOMAIN hist : S[i] = hist[j]
  BY <1>2, <1>3, SampledForm
<1>5. 1 \in DOMAIN S /\ S[Len(S)].count = obj.count
  BY <1>4, LenProperties
<1>6. obj.count - S[1].count >= threshold
  BY <1>1, <1>3, <1>5 DEF Storm
<1>7. now \in Nat /\ obj.count \in Nat /\ \A t \in 0..now : before[t] \in Nat
  BY Values
<1>8. /\ S[1].at >= now - window /\ S[1].at \in 0..now /\ S[1].count \in Nat
      /\ before[S[1].at] <= S[1].count
  <2>1. CASE S[1] = [at |-> now, count |-> obj.count]
    <3>1. before[now] <= obj.count
      BY <1>2, <1>7 DEF Inv, BeforeInv
    <3> QED BY <1>2, <1>7, <2>1, <3>1
  <2>2. CASE known.uid = obj.uid /\ \E j \in DOMAIN hist : S[1] = hist[j]
    <3>1. PICK j \in DOMAIN hist : S[1] = hist[j]
      BY <2>2
    <3>2. hist[j].at <= now /\ before[hist[j].at] <= hist[j].count
      BY <1>2, <2>2 DEF Inv, HistInv
    <3>3. hist[j].at \in Nat /\ hist[j].count \in Nat
      BY Values
    <3> QED BY <1>4, <1>5, <1>7, <3>1, <3>2, <3>3
  <2> QED BY <1>4, <1>5, <2>1, <2>2
<1>9. PICK lo \in 0..now : lo = (IF now > window THEN now - window ELSE 0) /\ lo <= S[1].at
  <2>1. CASE now > window
    BY <1>2, <1>7, <1>8, <2>1
  <2>2. CASE ~(now > window)
    BY <1>2, <1>7, <1>8, <2>2
  <2> QED BY <2>1, <2>2
<1>10. before[lo] <= before[S[1].at]
  <2>1. lo \in 0..S[1].at
    BY <1>7, <1>8, <1>9
  <2> QED BY <1>2, <1>8, <2>1 DEF Inv, BeforeInv
<1>11. before[lo] \in Nat /\ before[S[1].at] \in Nat
  BY <1>7, <1>8, <1>9
<1>12. obj.count - before[lo] >= threshold
  BY <1>2, <1>6, <1>7, <1>8, <1>10, <1>11
<1> QED BY <1>9, <1>12

\* When pod_restarts reports, the container did restart that often since the
\* window began, whatever updates were merged and however often the pod was
\* replaced (PodRestarts.handle).
THEOREM StormsAreReal == Spec => []StormIsReal
<1>1. Init => StormIsReal
  BY DEF Init, StormIsReal
<1>2. Inv /\ StormIsReal /\ [Next]_vars => StormIsReal'
  <2> SUFFICES ASSUME Inv, StormIsReal, [Next]_vars PROVE StormIsReal'
    OBVIOUS
  <2>1. CASE \/ Create \/ ContainerRestarts \/ JobFails \/ Touch \/ Delete
            \/ Tick \/ Snapshot \/ Restart
    <3>1. verdict' = "none"
      BY <2>1 DEF Create, ContainerRestarts, JobFails, Touch, Delete, Becomes, Tick, Snapshot, Restart
    <3> QED BY <3>1 DEF StormIsReal
  <2>2. CASE UNCHANGED vars
    BY <2>2 DEF vars, StormIsReal
  <2> QED BY <2>1, <2>2, DeliverReal DEF Next
<1> QED BY <1>1, <1>2, AlwaysInv, PTL DEF Spec

(***************************************************************************)
(* The restarts that came in updates of their own.  Each of the window     *)
(* left a sample, and the later ones are counted on top of it.             *)
(***************************************************************************)
BumpsInv ==
    /\ kind # "pod_restarts" => threshold = 0 /\ bumps = <<>> /\ obj.count = 0 /\ known.count = 0
    /\ obj # None /\ known.uid # obj.uid => bumps = <<>>
    /\ kind = "pod_restarts" /\ obj # None /\ Allows(Namespace) /\ window > 0 /\ threshold > 0 =>
          \A i \in DOMAIN bumps : bumps[i] >= now - window =>
             \E j \in DOMAIN hist : /\ hist[j].at = bumps[i]
                                    /\ known.count - hist[j].count >= Len(bumps) - i

\* The object goes on, or another takes its place.
LEMMA ChangeBumps ==
    ASSUME Inv, BumpsInv,
           \/ ContainerRestarts \/ JobFails \/ Touch \/ Delete
    PROVE  BumpsInv'
<1>1. UNCHANGED <<kind, threshold, window, now, known, hist, bumps>>
  BY DEF ContainerRestarts, JobFails, Touch, Delete, Becomes
<1>2. obj \in ObjectStates
  BY Values
<1>3. /\ obj' = None \/ (obj # None /\ obj'.uid = obj.uid)
      /\ kind # "pod_restarts" /\ obj.count = 0 => obj'.count = 0
  <2>1. CASE ContainerRestarts
    BY <1>2, <2>1 DEF ContainerRestarts, Becomes, ObjectStates
  <2>2. CASE JobFails
    BY <1>2, <2>2 DEF JobFails, Becomes, ObjectStates
  <2>3. CASE Touch
    BY <2>3 DEF Touch, Becomes
  <2>4. CASE Delete
    <3>1. obj' = None /\ None.count = 0
      BY <2>4 DEF Delete, Becomes, None
    <3> QED BY <3>1
  <2> QED BY <2>1, <2>2, <2>3, <2>4
<1>4. kind # "pod_restarts" => threshold = 0 /\ bumps = <<>> /\ obj'.count = 0 /\ known.count = 0
  BY <1>3 DEF BumpsInv
<1>5. obj' # None /\ known.uid # obj'.uid => bumps = <<>>
  BY <1>3 DEF BumpsInv
<1>6. ASSUME kind = "pod_restarts", obj' # None, Allows(Namespace), window > 0, threshold > 0
      PROVE  \A i \in DOMAIN bumps : bumps[i] >= now - window =>
                \E j \in DOMAIN hist : /\ hist[j].at = bumps[i]
                                       /\ known.count - hist[j].count >= Len(bumps) - i
  BY <1>3, <1>6 DEF BumpsInv
<1> QED BY <1>1, <1>4, <1>5, <1>6 DEF BumpsInv

LEMMA CreateBumps == ASSUME Inv, BumpsInv, Create PROVE BumpsInv'
<1>1. UNCHANGED <<kind, threshold, window, now, known, hist>> /\ bumps' = <<>> /\ obj'.count = 0
  BY DEF Create, Becomes
<1>2. DOMAIN bumps' = {}
  BY <1>1
<1> QED BY <1>1, <1>2 DEF BumpsInv

LEMMA RestartBumps == ASSUME Inv, BumpsInv, Restart PROVE BumpsInv'
<1>1. UNCHANGED <<kind, threshold, window, now, obj>> /\ bumps' = <<>> /\ known'.count = 0
  BY DEF Restart, None
<1>2. DOMAIN bumps' = {}
  BY <1>1
<1> QED BY <1>1, <1>2 DEF BumpsInv

LEMMA SnapshotBumps == ASSUME BumpsInv, Snapshot PROVE BumpsInv'
BY DEF Snapshot, BumpsInv

LEMMA TickBumps == ASSUME Inv, BumpsInv, Tick PROVE BumpsInv'
<1>1. UNCHANGED <<kind, threshold, window, obj, known, hist, bumps>> /\ now' = now + 1
  BY DEF Tick
<1>2. now \in Nat /\ window \in Int /\ bumps \in Seq(Nat)
  BY Values DEF Inv, TypeOK
<1>3. \A i \in DOMAIN bumps : bumps[i] >= (now + 1) - window => bumps[i] >= now - window
  BY <1>2
<1> QED BY <1>1, <1>3 DEF BumpsInv

\* What Deliver makes of the bumps: a first sight adds none, and an update of
\* the same object at most the one it tells of.
LEMMA DeliverBumps == ASSUME Inv, BumpsInv, Deliver PROVE BumpsInv'
<1>1. UNCHANGED <<kind, threshold, window, now, obj>> /\ known' = obj
  BY DEF Deliver
<1>2. bumps' = IF IsUpdate /\ known.uid = obj.uid /\ obj.count = known.count + 1
                 THEN Append(bumps, now) ELSE bumps
  BY DEF Deliver
<1>3. /\ now \in Nat /\ obj.count \in Nat /\ known.count \in Nat /\ bumps \in Seq(Nat)
      /\ window \in Int /\ \A j \in DOMAIN hist : hist[j].at \in Nat /\ hist[j].count \in Nat
  BY Values DEF Inv, TypeOK
<1>4. kind # "pod_restarts" => threshold = 0 /\ bumps' = <<>> /\ obj.count = 0
  BY <1>2, <1>3 DEF BumpsInv
<1>5. ASSUME kind = "pod_restarts", obj # None, Allows(Namespace), window > 0, threshold > 0
      PROVE  \A i \in DOMAIN bumps' : bumps'[i] >= now - window =>
                \E j \in DOMAIN hist' : /\ hist'[j].at = bumps'[i]
                                        /\ obj.count - hist'[j].count >= Len(bumps') - i
  <2>1. CASE known.uid # obj.uid
    <3>1. bumps' = <<>>
      BY <1>2, <1>5, <2>1 DEF BumpsInv
    <3>2. DOMAIN bumps' = {}
      BY <3>1
    <3> QED BY <3>2
  <2>2. CASE known.uid = obj.uid
    <3>1. IsUpdate
      BY <1>5, <2>2, <1>3 DEF IsUpdate, Inv, ObjInv, None, TypeOK
    <3>2. hist' = Sampled
      BY <1>5, <3>1 DEF Deliver, Looks
    <3>3. PICK S : S = Sampled
      OBVIOUS
    <3>4. /\ Len(S) \in Nat \ {0} /\ S \in Seq(Samples)
          /\ S[Len(S)] = [at |-> now, count |-> obj.count]
          /\ \A j \in DOMAIN hist : hist[j].at >= now - window => \E i \in DOMAIN S : S[i] = hist[j]
      BY <1>5, <2>2, <3>3, SampledForm
    <3>5. PICK n \in Nat : n = Len(bumps) /\ DOMAIN bumps = 1..n
      BY <1>3, LenProperties
    <3>6. ASSUME NEW i \in 1..n, bumps[i] >= now - window
          PROVE  \E j \in DOMAIN S : S[j].at = bumps[i] /\ known.count - S[j].count >= n - i
      <4>1. PICK j \in DOMAIN hist :
               hist[j].at = bumps[i] /\ known.count - hist[j].count >= Len(bumps) - i
        BY <1>5, <3>5, <3>6 DEF BumpsInv
      <4>2. PICK k \in DOMAIN S : S[k] = hist[j]
        BY <3>4, <3>6, <4>1
      <4> QED BY <3>5, <4>1, <4>2
    <3>7. \A k \in DOMAIN S : S[k].count \in Nat
      <4>1. \A k \in DOMAIN S : S[k] \in Samples
        BY <3>4, LenProperties, ElementOfSeq
      <4> QED BY <4>1 DEF Samples
    <3>8. CASE obj.count = known.count + 1
      <4>1. bumps' = Append(bumps, now)
        BY <1>2, <2>2, <3>1, <3>8
      <4>2. /\ DOMAIN bumps' = 1..(n + 1) /\ Len(bumps') = n + 1
            /\ bumps'[n + 1] = now /\ \A i \in 1..n : bumps'[i] = bumps[i]
        BY <1>3, <3>5, <4>1, AppendProperties
      <4>3. ASSUME NEW i \in 1..n, bumps'[i] >= now - window
            PROVE  \E j \in DOMAIN S : S[j].at = bumps'[i] /\ obj.count - S[j].count >= n + 1 - i
        <5>1. PICK j \in DOMAIN S : S[j].at = bumps[i] /\ known.count - S[j].count >= n - i
          BY <3>6, <4>2, <4>3
        <5>2. obj.count - S[j].count >= n + 1 - i
          BY <1>3, <3>7, <3>8, <5>1
        <5> QED BY <4>2, <5>1, <5>2
      <4>4. Len(S) \in DOMAIN S /\ S[Len(S)].at = now /\ S[Len(S)].count = obj.count
        BY <3>4, LenProperties
      <4>5. S[Len(S)].at = bumps'[n + 1] /\ obj.count - S[Len(S)].count >= n + 1 - (n + 1)
        BY <1>3, <3>5, <4>2, <4>4
      <4>6. ASSUME NEW i \in 1..(n + 1), bumps'[i] >= now - window
            PROVE  \E j \in DOMAIN S : S[j].at = bumps'[i] /\ obj.count - S[j].count >= n + 1 - i
        <5>1. CASE i = n + 1
          BY <4>4, <4>5, <5>1
        <5>2. CASE i # n + 1
          <6>1. i \in 1..n
            BY <3>5, <5>2
          <6> QED BY <4>3, <4>6, <6>1
        <5> QED BY <5>1, <5>2
      <4> QED BY <3>2, <3>3, <4>2, <4>6
    <3>9. CASE obj.count # known.count + 1
      <4>1. bumps' = bumps /\ DOMAIN bumps' = 1..n /\ Len(bumps') = n
        BY <1>2, <3>5, <3>9
      <4>2. ASSUME NEW i \in 1..n, bumps'[i] >= now - window
            PROVE  \E j \in DOMAIN S : S[j].at = bumps'[i] /\ obj.count - S[j].count >= n - i
        <5>1. PICK j \in DOMAIN S : S[j].at = bumps[i] /\ known.count - S[j].count >= n - i
          BY <3>6, <4>1, <4>2
        <5>2. known.count <= obj.count
          BY <2>2 DEF Inv, ObjInv
        <5>3. obj.count - S[j].count >= n - i
          BY <1>3, <3>7, <5>1, <5>2
        <5> QED BY <4>1, <5>1, <5>3
      <4> QED BY <3>2, <3>3, <4>1, <4>2
    <3> QED BY <3>8, <3>9
  <2> QED BY <2>1, <2>2
<1> QED BY <1>1, <1>4, <1>5 DEF BumpsInv

LEMMA InitBumps == Init => BumpsInv
<1> SUFFICES ASSUME Init PROVE BumpsInv
  OBVIOUS
<1>1. obj = None /\ bumps = <<>> /\ obj.count = 0 /\ known.count = 0
  BY DEF Init, None
<1>2. kind # "pod_restarts" => threshold = 0
  BY DEF Init
<1>3. DOMAIN bumps = {}
  BY <1>1
<1> QED BY <1>1, <1>2, <1>3 DEF BumpsInv

LEMMA NextBumps == Inv /\ BumpsInv /\ [Next]_vars => BumpsInv'
<1> SUFFICES ASSUME Inv, BumpsInv, [Next]_vars PROVE BumpsInv'
  OBVIOUS
<1>1. CASE UNCHANGED vars
  BY <1>1 DEF vars, BumpsInv
<1> QED BY <1>1, CreateBumps, ChangeBumps, DeliverBumps, TickBumps, SnapshotBumps,
           RestartBumps DEF Next

\* The samples that are kept span fewer restarts than the threshold, so the
\* restarts of the window are among the last `threshold` ones.
LEMMA DeliverReported == ASSUME Inv, BumpsInv, Deliver PROVE StormIsReported'
<1> SUFFICES ASSUME verdict' = "silent", Looks'
             PROVE  Cardinality({i \in DOMAIN bumps' : bumps'[i] >= now - window}) <= threshold
  BY DEF StormIsReported, Deliver
<1>1. UNCHANGED <<kind, threshold, window, now, obj>> /\ known' = obj
  BY DEF Deliver
<1>2. /\ now \in Nat /\ window \in Int /\ threshold \in Int
      /\ bumps \in Seq(Nat) /\ obj.count \in Nat
  BY Values DEF Inv, TypeOK
<1>3. bumps' = IF IsUpdate /\ known.uid = obj.uid /\ obj.count = known.count + 1
                 THEN Append(bumps, now) ELSE bumps
  BY DEF Deliver
<1>4. Cardinality({}) = 0
  BY FS_EmptySet
<1>5. obj # None /\ Allows(Namespace)
  BY <1>1 DEF Looks
<1>6. PICK W : W = {i \in DOMAIN bumps' : bumps'[i] >= now - window}
  OBVIOUS
<1>7. CASE kind # "pod_restarts"
  <2>1. bumps' = <<>> /\ threshold = 0
    BY <1>1, <1>7, DeliverBumps DEF BumpsInv
  <2>2. W = {}
    BY <1>6, <2>1
  <2>3. Cardinality(W) <= threshold
    BY <1>4, <2>1, <2>2
  <2> QED BY <1>6, <2>3
<1>8. CASE kind = "pod_restarts" /\ known.uid # obj.uid
  <2>1. bumps' = <<>>
    BY <1>3, <1>5, <1>8 DEF BumpsInv
  <2>2. threshold > 0
    BY <1>1, <1>8 DEF Looks
  <2>3. W = {}
    BY <1>6, <2>1
  <2>4. Cardinality(W) <= threshold
    BY <1>2, <1>4, <2>2, <2>3
  <2> QED BY <1>6, <2>4
<1>9. CASE kind = "pod_restarts" /\ known.uid = obj.uid
  <2>1. IsUpdate
    BY <1>2, <1>5, <1>9 DEF IsUpdate, Inv, ObjInv, None, TypeOK
  <2>2. window > 0 /\ threshold > 0
    BY <1>1, <1>9 DEF Looks
  <2>3. Looks
    BY <1>5, <1>9, <2>1, <2>2 DEF Looks
  <2>4. ~Storm(Sampled) /\ hist' = Sampled
    BY <1>9, <2>3 DEF Deliver, Reports
  <2>5. PICK S : S = Sampled
    OBVIOUS
  <2>6. /\ Len(S) \in Nat \ {0} /\ S \in Seq(Samples) /\ InOrder(S)
        /\ S[Len(S)] = [at |-> now, count |-> obj.count]
    BY <2>2, <2>5, SampledForm
  <2>7. PICK m \in Nat \ {0} : m = Len(S) /\ DOMAIN S = 1..m
    BY <2>6, LenProperties
  <2>8. \A j \in 1..m : S[j].count \in Nat
    <3>1. \A j \in 1..m : S[j] \in Samples
      BY <2>6, <2>7, ElementOfSeq
    <3> QED BY <3>1 DEF Samples
  <2>9. 1 \in 1..m /\ m \in 1..m /\ S[m].count = obj.count
    BY <2>6, <2>7
  <2>10. obj.count - S[1].count < threshold
    <3>1. CASE m >= 2
      <4>1. ~(S[m].count - S[1].count >= threshold)
        BY <2>4, <2>5, <2>7, <3>1 DEF Storm
      <4> QED BY <1>2, <2>8, <2>9, <4>1
    <3>2. CASE m = 1
      BY <1>2, <2>2, <2>9, <3>2
    <3> QED BY <3>1, <3>2
  <2>11. PICK b : b = bumps'
    OBVIOUS
  <2>12. b \in Seq(Nat)
    <3>1. Append(bumps, now) \in Seq(Nat)
      BY <1>2
    <3> QED BY <1>2, <1>3, <2>11, <3>1
  <2>13. PICK n \in Nat : n = Len(b) /\ DOMAIN b = 1..n
    BY <2>12, LenProperties
  <2> DEFINE recent == {i \in 1..n : b[i] >= now - window}
  <2>14. ASSUME NEW i \in recent PROVE i \in (n - threshold + 1)..n
    <3>1. PICK j \in 1..m : obj.count - S[j].count >= n - i
      <4>1. BumpsInv'
        BY DeliverBumps
      <4>2. \A k \in DOMAIN bumps' : bumps'[k] >= now - window =>
               \E j \in DOMAIN hist' : /\ hist'[j].at = bumps'[k]
                                       /\ obj.count - hist'[j].count >= Len(bumps') - k
        BY <1>1, <1>5, <1>9, <2>2, <4>1 DEF BumpsInv
      <4>3. i \in DOMAIN bumps' /\ bumps'[i] >= now - window
        BY <2>11, <2>13, <2>14
      <4>4. PICK j \in DOMAIN hist' : obj.count - hist'[j].count >= Len(bumps') - i
        BY <4>2, <4>3
      <4> QED BY <2>4, <2>5, <2>7, <2>11, <2>13, <4>4
    <3>2. S[1].count <= S[j].count
      BY <2>6, <2>7, <2>9 DEF InOrder
    <3>3. S[1].count \in Nat /\ S[j].count \in Nat
      BY <2>8, <2>9
    <3>4. n - i < threshold /\ i \in 1..n
      BY <1>2, <2>10, <2>13, <3>1, <3>2, <3>3
    <3> QED BY <1>2, <2>13, <3>4
  <2>15. recent \in SUBSET ((n - threshold + 1)..n)
    BY <2>14
  <2> HIDE DEF recent
  <2>16. PICK lo \in Int : lo = n - threshold + 1
    BY <1>2, <2>13
  <2>17. IsFiniteSet(lo..n) /\ Cardinality(lo..n) = IF lo > n THEN 0 ELSE n - lo + 1
    <3>1. lo \in Int /\ n \in Int
      BY <2>13, <2>16
    <3> QED BY <3>1, FS_Interval
  <2>18. Cardinality(lo..n) = threshold
    BY <1>2, <2>2, <2>13, <2>16, <2>17
  <2>19. Cardinality(recent) <= threshold
    BY <2>15, <2>16, <2>17, <2>18, FS_Subset
  <2>20. W = recent
    BY <1>6, <2>11, <2>13 DEF recent
  <2> QED BY <1>6, <2>19, <2>20
<1> QED BY <1>7, <1>8, <1>9

\* What pod_restarts passes over in silence is no storm: of the restarts that
\* came in updates of their own, no more than `threshold` are in the window,
\* for any history of the pod and of kpulse (PodRestarts.handle).
THEOREM StormsAreReported == Spec => []StormIsReported
<1>1. Init => StormIsReported
  BY DEF Init, StormIsReported
<1>2. Inv /\ BumpsInv /\ StormIsReported /\ [Next]_vars => StormIsReported'
  <2> SUFFICES ASSUME Inv, BumpsInv, StormIsReported, [Next]_vars PROVE StormIsReported'
    OBVIOUS
  <2>1. CASE \/ Create \/ ContainerRestarts \/ JobFails \/ Touch \/ Delete
            \/ Tick \/ Snapshot \/ Restart
    <3>1. verdict' = "none"
      BY <2>1 DEF Create, ContainerRestarts, JobFails, Touch, Delete, Becomes, Tick, Snapshot, Restart
    <3> QED BY <3>1 DEF StormIsReported
  <2>2. CASE UNCHANGED vars
    BY <2>2 DEF vars, StormIsReported, Looks, IsUpdate
  <2> QED BY <2>1, <2>2, DeliverReported DEF Next
<1> QED BY <1>1, <1>2, InitBumps, NextBumps, AlwaysInv, PTL DEF Spec

(***************************************************************************)
(* The window between two notices.  The table entry is the time of the     *)
(* last one, and each of those before it is a window earlier; or a loss of *)
(* the entry pays for the next one.                                        *)
(***************************************************************************)
PaidInv ==
    \/ (notices - losses) * Window <= now
    \/ last[Obj] # Never /\ last[Obj] <= now /\ (notices - 1 - losses) * Window <= last[Obj]

\* What the arithmetic needs to know.
LEMMA PaidFacts ==
    ASSUME Inv
    PROVE  /\ now \in Nat /\ notices \in Nat /\ losses \in Nat /\ Window \in Nat
           /\ last[Obj] \in Times /\ (last[Obj] # Never => last[Obj] \in Nat)
           /\ (notices - 1 - losses) * Window \in Int
           /\ (notices - losses) * Window = (notices - 1 - losses) * Window + Window
<1>1. now \in Nat /\ notices \in Nat /\ losses \in Nat /\ Window \in Nat
  BY Values, WindowAssumption DEF Inv, TypeOK
<1>2. last[Obj] \in Times
  BY DEF Inv, TypeOK
<1> QED BY <1>1, <1>2 DEF Times

\* Whatever the table holds, the notices but one are paid for.
LEMMA PaidAtLeast == ASSUME Inv, PaidInv PROVE (notices - 1 - losses) * Window <= now
<1>1. CASE (notices - losses) * Window <= now
  BY <1>1, PaidFacts
<1>2. CASE last[Obj] # Never /\ last[Obj] <= now /\ (notices - 1 - losses) * Window <= last[Obj]
  BY <1>2, PaidFacts
<1> QED BY <1>1, <1>2 DEF PaidInv

LEMMA SubmitPaid ==
    ASSUME Inv, PaidInv, Submit, UNCHANGED <<now, losses>>
    PROVE  PaidInv'
<1>1. CASE UNCHANGED <<last, notices>>
  BY <1>1 DEF PaidInv
<1>2. CASE Allowed(last, Obj, now) /\ last' = Admitted(last, Obj, now) /\ notices' = notices + 1
  <2>1. last'[Obj] = now /\ now # Never
    BY <1>2, PaidFacts DEF Admitted, Never, Inv, TypeOK
  <2>2. (notices - losses) * Window <= now
    <3>1. CASE last[Obj] # Never /\ (notices - 1 - losses) * Window <= last[Obj]
      <4>1. now - last[Obj] >= Window
        BY <1>2, <3>1 DEF Allowed
      <4> QED BY <3>1, <4>1, PaidFacts
    <3> QED BY <3>1 DEF PaidInv
  <2>3. notices' - 1 - losses' = notices - losses
    BY <1>2, PaidFacts
  <2>4. now <= now
    BY PaidFacts
  <2> QED BY <2>1, <2>2, <2>3, <2>4 DEF PaidInv
<1> QED BY <1>1, <1>2 DEF Submit

\* A table that comes back is the one there was; another one was lost.
LEMMA RestartPaid == ASSUME Inv, PaidInv, Restart PROVE PaidInv'
<1>1. UNCHANGED <<now, notices>> /\ HandOver
  BY DEF Restart
<1>2. CASE last' = Restored(Forgotten({Obj}), last) /\ UNCHANGED losses
  <2>1. last' = last
    BY <1>2 DEF Restored, Forgotten, Inv, TypeOK
  <2> QED BY <1>1, <1>2, <2>1 DEF PaidInv
<1>3. CASE losses' = losses + 1
  <2>1. notices' - losses' = notices - 1 - losses
    BY <1>1, <1>3, PaidFacts
  <2> QED BY <1>1, <2>1, PaidAtLeast DEF PaidInv
<1> QED BY <1>1, <1>2, <1>3 DEF HandOver

LEMMA NextPaid == Inv /\ PaidInv /\ [Next]_vars => PaidInv'
<1> SUFFICES ASSUME Inv, PaidInv, [Next]_vars PROVE PaidInv'
  OBVIOUS
<1>1. CASE \/ Create \/ ContainerRestarts \/ JobFails \/ Touch \/ Delete
           \/ Snapshot \/ UNCHANGED vars
  <2>1. UNCHANGED <<now, last, notices, losses>>
    BY <1>1 DEF Create, ContainerRestarts, JobFails, Touch, Delete, Becomes, Snapshot, vars
  <2> QED BY <2>1 DEF PaidInv
<1>2. CASE Deliver
  <2>1. UNCHANGED <<now, losses>> /\ (Submit \/ UNCHANGED <<last, notices>>)
    <3>1. /\ UNCHANGED <<now, losses>>
          /\ IF Reports THEN Submit ELSE UNCHANGED <<last, notices, drops>>
      BY <1>2 DEF Deliver
    <3> QED BY <3>1
  <2>2. CASE Submit
    BY <2>1, <2>2, SubmitPaid
  <2>3. CASE UNCHANGED <<last, notices>>
    BY <2>1, <2>3 DEF PaidInv
  <2> QED BY <2>1, <2>2, <2>3
<1>3. CASE Tick
  <2>1. UNCHANGED <<last, notices, losses>> /\ now' = now + 1
    BY <1>3 DEF Tick
  <2>2. last[Obj] # Never /\ last[Obj] <= now => last[Obj] <= now'
    BY <2>1, PaidFacts
  <2>3. (notices - losses) * Window <= now => (notices - losses) * Window <= now'
    BY <2>1, PaidFacts
  <2> QED BY <2>1, <2>2, <2>3 DEF PaidInv
<1> QED BY <1>1, <1>2, <1>3, RestartPaid DEF Next

\* The failed Jobs and Events that a start of kpulse reports anew, and every
\* later write of a Job, add no notice within the dedupe window of the last
\* one, however often kpulse starts again, but for one more per restart after a
\* crash or with a save or a Load that fails (JobFailed.Run, Deduper.Restore).
THEOREM RepeatsAreSpaced == Spec => []RepeatIsSpaced
<1>1. Init => PaidInv
  <2> SUFFICES ASSUME Init PROVE (notices - losses) * Window <= now
    BY DEF PaidInv
  <2>1. notices = 0 /\ losses = 0 /\ now = 0
    BY DEF Init
  <2> QED BY <2>1, WindowAssumption
<1>2. Inv /\ PaidInv => RepeatIsSpaced
  BY PaidAtLeast DEF RepeatIsSpaced
<1> QED BY <1>1, <1>2, NextPaid, AlwaysInv, PTL DEF Spec
=============================================================================
