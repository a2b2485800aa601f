--------------------------- MODULE PodCrashesProofs ---------------------------
(***************************************************************************)
(* Theorems about PodCrashes, for any pods, reasons and containers and any *)
(* number of births, broken watches and resets: all the invariants that    *)
(* its run checks.                                                         *)
(***************************************************************************)
EXTENDS PodCrashes, SequenceTheorems, FiniteSetTheorems, TLAPS

USE DEF cluster

\* A pod that exists is the last one born under its name, and has containers.
WorldInv ==
    \A n \in Pods : \/ world[n] = NoPod
                    \/ /\ world[n].uid = births[n] /\ births[n] > 0
                       /\ world[n].state \in Statuses

Inv == TypeOK /\ WorldInv

-----------------------------------------------------------------------------
(* Pods and their containers.                                              *)

LEMMA StatusForm ==
    ASSUME NEW s \in Statuses
    PROVE  /\ s \in Seq(States) /\ Len(s) \in Slots /\ DOMAIN s = 1..Len(s)
           /\ DOMAIN s \subseteq Slots /\ \A c \in DOMAIN s : s[c] \in States
<1>1. PICK m \in Slots : s \in [1..m -> States]
  BY DEF Statuses
<1>2. MaxContainers \in Nat
  BY PodCrashesAssumption
<1>3. m \in Nat /\ m <= MaxContainers
  BY <1>2 DEF Slots
<1>4. s \in Seq(States)
  BY <1>1, <1>3, SeqDef
<1>5. Len(s) = m
  BY <1>1, <1>3, <1>4, LenProperties
<1> QED BY <1>1, <1>2, <1>3, <1>4, <1>5 DEF Slots

LEMMA UpdateForm ==
    ASSUME NEW s \in Statuses, NEW u \in [DOMAIN s -> States]
    PROVE  u \in Statuses /\ DOMAIN u = DOMAIN s
<1>1. PICK m \in Slots : s \in [1..m -> States]
  BY DEF Statuses
<1>2. u \in [1..m -> States]
  BY <1>1
<1> QED BY <1>1, <1>2 DEF Statuses

\* What a change of one pod leaves behind.
LEMMA ChangeForm ==
    ASSUME Inv, NEW n \in Pods, NEW p \in PodStates, Change(n, p)
    PROVE  /\ UNCHANGED <<listed, seen, open, resets>>
           /\ world' \in [Pods -> PodStates] /\ world'[n] = p
           /\ lag' \in [Pods -> {"none", "watch", "relist"}]
           /\ lag'[n] # "none"
           /\ \A q \in Pods \ {n} : world'[q] = world[q] /\ lag'[q] = lag[q]
           /\ relists' \in Nat
           /\ relists' = 0 => relists = 0 /\ lag[n] = "none" /\ lag'[n] = "watch"
BY PodCrashesAssumption DEF Inv, TypeOK, Change

LEMMA CreateForm ==
    ASSUME Inv, NEW n \in Pods, CreatePod(n)
    PROVE  /\ world[n] = NoPod
           /\ births' = [births EXCEPT ![n] = @ + 1]
           /\ \E s \in Statuses : /\ [uid |-> births[n] + 1, state |-> s] \in PodStates
                                  /\ Change(n, [uid |-> births[n] + 1, state |-> s])
<1>1. births[n] + 1 \in Nat
  BY DEF Inv, TypeOK
<1>2. births[n] > 0 => births[n] # Gone
  BY DEF Inv, TypeOK, Gone
<1> QED BY <1>1, <1>2 DEF CreatePod, PodStates, Inv, WorldInv, NoPod

LEMMA UpdatePodForm ==
    ASSUME Inv, NEW n \in Pods, UpdatePod(n)
    PROVE  \E s \in Statuses : /\ [uid |-> births[n], state |-> s] \in PodStates
                               /\ world[n].uid = births[n] /\ births[n] > 0
                               /\ world[n].state \in Statuses
                               /\ DOMAIN s = DOMAIN world[n].state
                               /\ UNCHANGED births
                               /\ Change(n, [uid |-> births[n], state |-> s])
<1>1. world[n].uid = births[n] /\ births[n] > 0 /\ world[n].state \in Statuses
  BY DEF UpdatePod, Inv, WorldInv, NoPod
<1>2. PICK s \in [DOMAIN world[n].state -> States] : Change(n, [world[n] EXCEPT !.state = s])
  BY DEF UpdatePod
<1>3. s \in Statuses /\ DOMAIN s = DOMAIN world[n].state
  BY <1>1, UpdateForm
<1>4. world[n] \in PodStates /\ births[n] \in Nat
  BY DEF Inv, TypeOK
<1>5. [world[n] EXCEPT !.state = s] = [uid |-> births[n], state |-> s]
  BY <1>1, <1>4 DEF PodStates
<1>6. [uid |-> births[n], state |-> s] \in PodStates
  BY <1>3, <1>4 DEF PodStates
<1> QED BY <1>1, <1>2, <1>3, <1>5, <1>6 DEF UpdatePod

\* What handle makes of an update, entry by entry and key by key.
LEMMA DeliverForm ==
    ASSUME Inv, NEW n \in Pods, DeliverPod(n)
    PROVE  /\ world[n].uid = births[n] /\ births[n] > 0
           /\ world[n].state \in Statuses
           /\ seen' = Remembered(n, world[n]) /\ open' = Opened(n, world[n])
           /\ lag' = [lag EXCEPT ![n] = "none"]
           /\ UNCHANGED <<listed, world, births, relists, resets>>
BY DEF DeliverPod, Become, Handle, Inv, WorldInv, NoPod

LEMMA EntriesForm ==
    ASSUME Inv, NEW n \in Pods, world[n].state \in Statuses, world[n].uid = births[n]
    PROVE  /\ Entries(n, world[n]) \subseteq Found
           /\ \A f \in Entries(n, world[n]) :
                 /\ f.name = n /\ f.uid = world[n].uid
                 /\ f.slot \in Hits(n, world[n]) /\ f.reason = world[n].state[f.slot]
                 /\ f.reason \in listed
           /\ \A c \in Hits(n, world[n]) :
                 [uid |-> world[n].uid, slot |-> c, name |-> n, reason |-> world[n].state[c]]
                    \in Entries(n, world[n])
<1>1. births[n] \in Nat /\ listed \subseteq Reasons
  BY DEF Inv, TypeOK
<1>2. DOMAIN world[n].state \subseteq Slots
  BY StatusForm
<1> QED BY <1>1, <1>2 DEF Entries, Hits, Found
-----------------------------------------------------------------------------
(* Types.                                                                  *)

LEMMA InitInv == Init => Inv
BY DEF Init, Inv, TypeOK, WorldInv, NoPod, PodStates, Found, Gone

\* A change of a pod to one that WorldInv allows.
LEMMA ChangeInv ==
    ASSUME Inv, NEW n \in Pods, NEW p \in PodStates, Change(n, p),
           births' \in [Pods -> Nat], \A q \in Pods \ {n} : births'[q] = births[q],
           \/ p = NoPod
           \/ p.uid = births'[n] /\ births'[n] > 0 /\ p.state \in Statuses
    PROVE  Inv'
<1>1. /\ UNCHANGED <<listed, seen, open, resets>>
      /\ world' \in [Pods -> PodStates] /\ world'[n] = p
      /\ lag' \in [Pods -> {"none", "watch", "relist"}]
      /\ \A q \in Pods \ {n} : world'[q] = world[q]
      /\ relists' \in Nat
  BY ChangeForm
<1>2. TypeOK'
  BY <1>1 DEF Inv, TypeOK
<1>3. WorldInv'
  BY <1>1 DEF Inv, WorldInv
<1> QED BY <1>2, <1>3 DEF Inv

LEMMA CreatePodInv == ASSUME Inv, NEW n \in Pods, CreatePod(n) PROVE Inv'
<1>1. births' = [births EXCEPT ![n] = @ + 1] /\ births \in [Pods -> Nat]
  BY CreateForm DEF Inv, TypeOK
<1>2. PICK s \in Statuses : /\ [uid |-> births[n] + 1, state |-> s] \in PodStates
                            /\ Change(n, [uid |-> births[n] + 1, state |-> s])
  BY CreateForm
<1>3. /\ births' \in [Pods -> Nat] /\ births'[n] = births[n] + 1 /\ births'[n] > 0
      /\ \A q \in Pods \ {n} : births'[q] = births[q]
  BY <1>1
<1> QED BY <1>2, <1>3, ChangeInv

LEMMA UpdatePodInv == ASSUME Inv, NEW n \in Pods, UpdatePod(n) PROVE Inv'
<1>1. PICK s \in Statuses : /\ [uid |-> births[n], state |-> s] \in PodStates
                            /\ births[n] > 0 /\ UNCHANGED births
                            /\ Change(n, [uid |-> births[n], state |-> s])
  BY UpdatePodForm
<1>2. births \in [Pods -> Nat]
  BY DEF Inv, TypeOK
<1> QED BY <1>1, <1>2, ChangeInv

LEMMA DeletePodInv == ASSUME Inv, NEW n \in Pods, DeletePod(n) PROVE Inv'
<1>1. Change(n, NoPod) /\ UNCHANGED births /\ births \in [Pods -> Nat]
  BY DEF DeletePod, Inv, TypeOK
<1>2. NoPod \in PodStates
  BY DEF NoPod, PodStates, Gone
<1> QED BY <1>1, <1>2, ChangeInv

\* handle writes over the entry of a container, it does not add a second one.
LEMMA DeliverPodInv == ASSUME Inv, NEW n \in Pods, DeliverPod(n) PROVE Inv'
<1> DEFINE p == world[n]
<1>1. /\ p.uid = births[n] /\ p.state \in Statuses
      /\ seen' = Remembered(n, p) /\ open' = Opened(n, p)
      /\ lag' = [lag EXCEPT ![n] = "none"]
      /\ UNCHANGED <<listed, world, births, relists, resets>>
  BY DeliverForm
<1>2. /\ Entries(n, p) \subseteq Found
      /\ \A f \in Entries(n, p) :
            /\ f.name = n /\ f.uid = p.uid
            /\ f.slot \in Hits(n, p) /\ f.reason = p.state[f.slot]
  BY <1>1, EntriesForm
<1>3. seen' \subseteq Found
  BY <1>1, <1>2 DEF Remembered, Inv, TypeOK
<1>4. ASSUME NEW f \in seen', NEW g \in seen',
             f.name = g.name, f.uid = g.uid, f.slot = g.slot
      PROVE  f = g
  <2>1. CASE f \in Entries(n, p) /\ g \in Entries(n, p)
    <3>1. f \in Found /\ g \in Found /\ f.reason = g.reason
      BY <1>2, <1>4, <2>1
    <3> QED BY <1>4, <3>1 DEF Found
  <2>2. CASE f \in Entries(n, p) /\ g \notin Entries(n, p)
    BY <1>1, <1>2, <1>4, <2>2 DEF Remembered, Of
  <2>3. CASE f \notin Entries(n, p) /\ g \in Entries(n, p)
    BY <1>1, <1>2, <1>4, <2>3 DEF Remembered, Of
  <2>4. CASE f \notin Entries(n, p) /\ g \notin Entries(n, p)
    BY <1>1, <1>4, <2>4 DEF Remembered, Inv, TypeOK
  <2> QED BY <2>1, <2>2, <2>3, <2>4
<1>5. open' \subseteq Pods \X Reasons
  <2>1. \A c \in Hits(n, p) : <<n, p.state[c]>> \in Pods \X Reasons
    BY DEF Hits, Inv, TypeOK
  <2>2. open \subseteq Pods \X Reasons
    BY DEF Inv, TypeOK
  <2>3. \A k \in open' : k \in open \/ \E c \in Hits(n, p) : k = <<n, p.state[c]>>
    BY <1>1 DEF Opened
  <2> HIDE DEF p
  <2> QED BY <2>1, <2>2, <2>3
<1>6. lag' \in [Pods -> {"none", "watch", "relist"}]
  BY <1>1 DEF Inv, TypeOK
<1> QED BY <1>1, <1>3, <1>4, <1>5, <1>6 DEF Inv, TypeOK, WorldInv

LEMMA DeliverDeleteInv == ASSUME Inv, NEW n \in Pods, DeliverDelete(n) PROVE Inv'
<1>1. /\ lag' = [lag EXCEPT ![n] = "none"] /\ seen' \subseteq seen /\ open' \subseteq open
      /\ UNCHANGED <<listed, world, births, relists, resets>>
  BY DEF DeliverDelete, Become, HandleDelete
<1>2. lag' \in [Pods -> {"none", "watch", "relist"}]
  BY <1>1 DEF Inv, TypeOK
<1> QED BY <1>1, <1>2 DEF Inv, TypeOK, WorldInv

LEMMA NextInv == Inv /\ [Next]_vars => Inv'
<1> SUFFICES ASSUME Inv, [Next]_vars PROVE Inv'
  OBVIOUS
<1>1. CASE Reset
  BY <1>1 DEF Reset, Inv, TypeOK, WorldInv
<1>2. CASE UNCHANGED vars
  BY <1>2 DEF vars, Inv, TypeOK, WorldInv
<1> QED BY <1>1, <1>2, CreatePodInv, UpdatePodInv, DeletePodInv, DeliverPodInv, DeliverDeleteInv
       DEF Next

LEMMA AlwaysInv == Spec => []Inv
BY InitInv, NextInv, PTL DEF Spec

\* seen stays a map from uid and container, whatever pods share a name and
\* however the watch breaks (handle, handleDelete).
THEOREM TypeCorrect == Spec => []TypeOK
BY AlwaysInv, PTL DEF Inv

-----------------------------------------------------------------------------
(* A pod's only container has its alert.                                   *)

\* What was seen of other pods is left alone, and so are their keys.
LEMMA OtherKeys ==
    ASSUME Inv, NEW n \in Pods, DeliverPod(n) \/ DeliverDelete(n), NEW k \in open, k[1] # n
    PROVE  k \in open'
<1>1. CASE DeliverPod(n)
  BY <1>1, DeliverForm DEF Opened, Of, KeysOf
<1>2. CASE DeliverDelete(n)
  BY <1>2 DEF DeliverDelete, Become, HandleDelete, KeysOf
<1> QED BY <1>1, <1>2


LEMMA NextCrash == Inv /\ CrashIsOpen /\ [Next]_vars => CrashIsOpen'
<1> SUFFICES ASSUME Inv, CrashIsOpen, [Next]_vars, resets' = 0, NEW q \in Pods,
                    lag'[q] = "none", Len(world'[q].state) = 1, world'[q].state[1] \in listed'
             PROVE  <<q, world'[q].state[1]>> \in open'
  BY DEF CrashIsOpen, Delivered
<1>1. ASSUME UNCHANGED <<listed, resets>>, open \subseteq open',
             world'[q] = world[q], lag'[q] = lag[q]
      PROVE  <<q, world'[q].state[1]>> \in open'
  BY <1>1 DEF CrashIsOpen, Delivered
<1>2. ASSUME NEW n \in Pods, NEW p \in PodStates, Change(n, p)
      PROVE  <<q, world'[q].state[1]>> \in open'
  BY <1>1, <1>2, ChangeForm
<1>3. ASSUME NEW n \in Pods, CreatePod(n) PROVE <<q, world'[q].state[1]>> \in open'
  BY <1>2, <1>3, CreateForm
<1>4. ASSUME NEW n \in Pods, UpdatePod(n) PROVE <<q, world'[q].state[1]>> \in open'
  BY <1>2, <1>4, UpdatePodForm
<1>5. ASSUME NEW n \in Pods, DeletePod(n) PROVE <<q, world'[q].state[1]>> \in open'
  <2>1. Change(n, NoPod) /\ NoPod \in PodStates
    BY <1>5 DEF DeletePod, NoPod, PodStates, Gone
  <2> QED BY <1>2, <2>1
<1>6. ASSUME NEW n \in Pods, DeliverPod(n) PROVE <<q, world'[q].state[1]>> \in open'
  <2>1. /\ world[n].state \in Statuses /\ open' = Opened(n, world[n])
        /\ lag' = [lag EXCEPT ![n] = "none"] /\ UNCHANGED <<listed, world, resets>>
    BY <1>6, DeliverForm
  <2>2. CASE q = n
    <3>1. DOMAIN world[q].state = {1} /\ world[q].state[1] \in listed
      BY <2>1, <2>2, StatusForm
    <3>2. world[q].state[1] # Running
      BY <3>1, PodCrashesAssumption DEF Inv, TypeOK
    <3>3. 1 \in Hits(n, world[n]) /\ Runs(world[n]) = {}
      BY <2>2, <3>1, <3>2 DEF Hits, Runs
    <3>4. \A k : k \notin KeysOf(Of(n, world[n], {d \in Runs(world[n]) : d > 1}))
      BY <3>3 DEF KeysOf, Of
    <3> QED BY <2>1, <2>2, <3>3, <3>4 DEF Opened
  <2>3. CASE q # n
    <3>1. lag'[q] = lag[q]
      BY <2>1, <2>3 DEF Inv, TypeOK
    <3>2. <<q, world[q].state[1]>> \in open
      BY <2>1, <3>1 DEF CrashIsOpen, Delivered
    <3> QED BY <1>6, <2>1, <2>3, <3>2, OtherKeys
  <2> QED BY <2>2, <2>3
<1>7. ASSUME NEW n \in Pods, DeliverDelete(n) PROVE <<q, world'[q].state[1]>> \in open'
  <2>1. /\ world[n].uid = Gone /\ lag' = [lag EXCEPT ![n] = "none"]
        /\ UNCHANGED <<listed, world, resets>>
    BY <1>7 DEF DeliverDelete
  <2>2. world[n].state = <<>>
    BY <2>1 DEF Inv, TypeOK, WorldInv, NoPod, Gone
  <2>3. q # n
    BY <2>1, <2>2, EmptySeq
  <2>4. lag'[q] = lag[q]
    BY <2>1, <2>3 DEF Inv, TypeOK
  <2>5. <<q, world[q].state[1]>> \in open
    BY <2>1, <2>4 DEF CrashIsOpen, Delivered
  <2> QED BY <1>7, <2>1, <2>3, <2>5, OtherKeys
<1>8. CASE Reset
  BY <1>8 DEF Reset, Inv, TypeOK
<1>9. CASE UNCHANGED vars
  BY <1>1, <1>9 DEF vars
<1> QED BY <1>3, <1>4, <1>5, <1>6, <1>7, <1>8, <1>9 DEF Next

\* Until the engine is reset a listed reason of a pod's only container has its
\* alert open, whatever pods came and went and however often the watch broke.
THEOREM CrashesAreOpen == Spec => []CrashIsOpen
<1>1. Init => CrashIsOpen
  <2> SUFFICES ASSUME Init, NEW n \in Pods PROVE Len(world[n].state) # 1
    BY DEF CrashIsOpen
  <2>1. world[n].state = <<>>
    BY DEF Init, NoPod
  <2> QED BY <2>1, EmptySeq
<1> QED BY <1>1, NextCrash, AlwaysInv, PTL DEF Spec

-----------------------------------------------------------------------------
(* What is remembered while the watch does not break.                      *)

\* What a container that was seen in this state may be in now.
StillSeen(f) == {f.reason, Other} \cup (Reasons \ listed)

(***************************************************************************)
(* The inductive form of SeenIsCurrent.  Every change is delivered before  *)
(* the next is made, so an entry is of the pod that was born last, which   *)
(* is there unless its deletion is about to be delivered.                  *)
(***************************************************************************)
Current(f) ==
    LET p == world[f.name]
    IN /\ f.reason \in listed
       /\ f.uid = births[f.name] /\ births[f.name] > 0
       /\ p # NoPod \/ Delivered(f.name) => p # NoPod /\ f.slot \in DOMAIN p.state
       /\ Delivered(f.name) => p.state[f.slot] \in StillSeen(f)

CurrentInv ==
    relists = 0 => (\A n \in Pods : lag[n] # "relist") /\ (\A f \in seen : Current(f))

\* The entries of the pods that a step leaves alone stay current.
LEMMA SameCurrent ==
    ASSUME CurrentInv, relists' = 0, relists = 0, UNCHANGED listed, NEW f \in seen,
           UNCHANGED <<world[f.name], births[f.name], lag[f.name]>>
    PROVE  Current(f)'
BY DEF CurrentInv, Current, Delivered, StillSeen

LEMMA ChangeCurrent ==
    ASSUME Inv, CurrentInv, NEW n \in Pods, NEW p \in PodStates, Change(n, p),
           \A q \in Pods \ {n} : births'[q] = births[q],
           \A f \in seen : f.name = n /\ relists' = 0 =>
               /\ births'[n] = births[n]
               /\ p # NoPod => f.slot \in DOMAIN p.state
    PROVE  CurrentInv'
<1> SUFFICES ASSUME relists' = 0 PROVE CurrentInv'
  BY DEF CurrentInv
<1>1. /\ UNCHANGED <<listed, seen>> /\ world'[n] = p
      /\ relists = 0 /\ lag[n] = "none" /\ lag'[n] = "watch"
      /\ \A q \in Pods \ {n} : world'[q] = world[q] /\ lag'[q] = lag[q]
  BY ChangeForm
<1>2. \A q \in Pods : lag'[q] # "relist"
  BY <1>1 DEF CurrentInv
<1>3. ASSUME NEW f \in seen
      PROVE  Current(f)'
  <2>1. CASE f.name = n
    BY <1>1, <2>1 DEF CurrentInv, Current, Delivered
  <2>2. CASE f.name # n
    <3>1. f.name \in Pods \ {n}
      BY <2>2 DEF Inv, TypeOK, Found
    <3> QED BY <1>1, <3>1, SameCurrent
  <2> QED BY <2>1, <2>2
<1> QED BY <1>1, <1>2, <1>3 DEF CurrentInv

\* Nothing is remembered of a pod that is not there yet.
LEMMA CreatePodCurrent ==
    ASSUME Inv, CurrentInv, NEW n \in Pods, CreatePod(n) PROVE CurrentInv'
<1>1. world[n] = NoPod /\ births' = [births EXCEPT ![n] = @ + 1]
  BY CreateForm
<1>2. PICK p \in PodStates : Change(n, p)
  BY CreateForm
<1>3. \A q \in Pods \ {n} : births'[q] = births[q]
  BY <1>1 DEF Inv, TypeOK
<1>4. relists' = 0 => relists = 0 /\ lag[n] = "none"
  BY <1>2, ChangeForm
<1>5. \A f \in seen : ~(f.name = n /\ relists' = 0)
  BY <1>1, <1>4 DEF CurrentInv, Current, Delivered
<1> QED BY <1>2, <1>3, <1>5, ChangeCurrent

LEMMA UpdatePodCurrent ==
    ASSUME Inv, CurrentInv, NEW n \in Pods, UpdatePod(n) PROVE CurrentInv'
<1>1. PICK s \in Statuses : /\ [uid |-> births[n], state |-> s] \in PodStates
                            /\ world[n].uid = births[n] /\ births[n] > 0
                            /\ DOMAIN s = DOMAIN world[n].state /\ UNCHANGED births
                            /\ Change(n, [uid |-> births[n], state |-> s])
  BY UpdatePodForm
<1>2. world[n] # NoPod
  BY <1>1 DEF NoPod, Gone, Inv, TypeOK
<1>3. relists' = 0 => relists = 0
  BY <1>1, ChangeForm
<1>4. \A f \in seen : f.name = n /\ relists' = 0 => f.slot \in DOMAIN s
  BY <1>1, <1>2, <1>3 DEF CurrentInv, Current
<1> QED BY <1>1, <1>4, ChangeCurrent

LEMMA DeletePodCurrent ==
    ASSUME Inv, CurrentInv, NEW n \in Pods, DeletePod(n) PROVE CurrentInv'
<1>1. Change(n, NoPod) /\ UNCHANGED births /\ NoPod \in PodStates
  BY DEF DeletePod, NoPod, PodStates, Gone
<1> QED BY <1>1, ChangeCurrent

LEMMA DeliverPodCurrent ==
    ASSUME Inv, CurrentInv, NEW n \in Pods, DeliverPod(n) PROVE CurrentInv'
<1> DEFINE p == world[n]
<1> SUFFICES ASSUME relists' = 0 PROVE CurrentInv'
  BY DEF CurrentInv
<1>1. /\ p.uid = births[n] /\ births[n] > 0 /\ p.state \in Statuses
      /\ seen' = Remembered(n, p)
      /\ lag' = [lag EXCEPT ![n] = "none"]
      /\ UNCHANGED <<listed, world, births, relists>>
  BY DeliverForm
<1>2. /\ lag'[n] = "none" /\ \A q \in Pods \ {n} : lag'[q] = lag[q]
      /\ p # NoPod
  BY <1>1 DEF Inv, TypeOK, NoPod, Gone
<1>3. \A q \in Pods : lag'[q] # "relist"
  BY <1>1, <1>2 DEF CurrentInv
<1>4. ASSUME NEW f \in seen'
      PROVE  Current(f)'
  <2>1. CASE f \in Entries(n, p)
    <3>1. /\ f.name = n /\ f.uid = p.uid /\ f.reason = p.state[f.slot] /\ f.reason \in listed
          /\ f.slot \in DOMAIN p.state
      BY <1>1, <2>1, EntriesForm DEF Hits
    <3> QED BY <1>1, <1>2, <3>1 DEF Current, StillSeen
  <2>2. CASE f \notin Entries(n, p) /\ f.name = n
    <3>1. f \in seen /\ f \notin Of(n, p, Hits(n, p) \cup Runs(p))
      BY <1>1, <2>2 DEF Remembered
    <3>2. /\ f.reason \in listed /\ f.uid = births[n] /\ f.slot \in DOMAIN p.state
      BY <1>1, <1>2, <2>2, <3>1 DEF CurrentInv, Current
    <3>3. f.slot \notin Hits(n, p) /\ f.slot \notin Runs(p)
      BY <1>1, <2>2, <3>1, <3>2 DEF Of
    <3>4. p.state[f.slot] \in States \ (listed \cup {Running})
      BY <1>1, <3>2, <3>3, StatusForm DEF Hits, Runs
    <3>5. p.state[f.slot] \in StillSeen(f)
      BY <3>4 DEF States, StillSeen
    <3> QED BY <1>1, <1>2, <2>2, <3>2, <3>5 DEF Current, StillSeen
  <2>3. CASE f \notin Entries(n, p) /\ f.name # n
    <3>1. f \in seen
      BY <1>1, <2>3 DEF Remembered
    <3>2. f.name \in Pods \ {n}
      BY <2>3, <3>1 DEF Inv, TypeOK, Found
    <3> QED BY <1>1, <1>2, <3>1, <3>2, SameCurrent
  <2> QED BY <2>1, <2>2, <2>3
<1> HIDE DEF p
<1> QED BY <1>3, <1>4 DEF CurrentInv

LEMMA DeliverDeleteCurrent ==
    ASSUME Inv, CurrentInv, NEW n \in Pods, DeliverDelete(n) PROVE CurrentInv'
<1> SUFFICES ASSUME relists' = 0 PROVE CurrentInv'
  BY DEF CurrentInv
<1>1. /\ lag[n] # "none" /\ lag' = [lag EXCEPT ![n] = "none"]
      /\ UNCHANGED <<listed, world, births, relists>>
  BY DEF DeliverDelete
<1>2. lag[n] = "watch"
  BY <1>1 DEF CurrentInv, Inv, TypeOK
<1>3. seen' = seen \ {f \in seen : f.name = n /\ f.uid = births[n]}
  BY <1>2 DEF DeliverDelete, Become, HandleDelete
<1>4. \A f \in seen' : f \in seen /\ f.name \in Pods \ {n}
  BY <1>1, <1>3 DEF CurrentInv, Current, Inv, TypeOK, Found
<1>5. lag'[n] = "none" /\ \A q \in Pods \ {n} : lag'[q] = lag[q]
  BY <1>1 DEF Inv, TypeOK
<1>6. \A q \in Pods : lag'[q] # "relist"
  BY <1>1, <1>5 DEF CurrentInv
<1>7. ASSUME NEW f \in seen'
      PROVE  Current(f)'
  BY <1>1, <1>4, <1>5, SameCurrent
<1> QED BY <1>6, <1>7 DEF CurrentInv

LEMMA NextCurrent == Inv /\ CurrentInv /\ [Next]_vars => CurrentInv'
<1> SUFFICES ASSUME Inv, CurrentInv, [Next]_vars PROVE CurrentInv'
  OBVIOUS
<1>1. CASE Reset
  BY <1>1 DEF Reset, CurrentInv, Current, Delivered, StillSeen
<1>2. CASE UNCHANGED vars
  BY <1>2 DEF vars, CurrentInv, Current, Delivered, StillSeen
<1> QED BY <1>1, <1>2, CreatePodCurrent, UpdatePodCurrent, DeletePodCurrent, DeliverPodCurrent,
           DeliverDeleteCurrent DEF Next

LEMMA AlwaysCurrent == Spec => []CurrentInv
<1>1. Init => CurrentInv
  BY DEF Init, CurrentInv
<1> QED BY <1>1, NextCurrent, AlwaysInv, PTL DEF Spec

\* While the watch does not break, what is remembered is of a pod that exists
\* and of a container that does not run (handle, handleDelete).
THEOREM NothingStaleIsSeen == Spec => []SeenIsCurrent
<1>1. Inv /\ CurrentInv => SeenIsCurrent
  BY DEF Inv, WorldInv, TypeOK, Found, CurrentInv, Current, SeenIsCurrent, StillSeen
<1> QED BY <1>1, AlwaysInv, AlwaysCurrent, PTL

-----------------------------------------------------------------------------
(* What an open alert rests on.                                            *)

\* With one reason in the list every open alert has an entry that will resolve
\* it.  With two, a container that goes from one to the other leaves the first
\* open for good; with a broken watch, so does a deletion.
CauseInv ==
    Cardinality(listed) <= 1 /\ relists = 0 =>
        \A k \in open : \E f \in seen : f.name = k[1] /\ f.reason = k[2]

LEMMA OneReason ==
    ASSUME Inv, Cardinality(listed) <= 1
    PROVE  \A r, s \in listed : r = s
<1>1. IsFiniteSet(listed)
  BY PodCrashesAssumption, FS_Subset DEF Inv, TypeOK
<1>2. Cardinality(listed) \in Nat
  BY <1>1, FS_CardinalityType
<1>3. CASE Cardinality(listed) = 0
  BY <1>1, <1>3, FS_EmptySet
<1>4. CASE Cardinality(listed) = 1
  BY <1>1, <1>4, FS_Singleton
<1> QED BY <1>2, <1>3, <1>4

LEMMA HitIsSeen ==
    ASSUME NEW n \in Pods, NEW p, NEW c \in Hits(n, p)
    PROVE  \E f \in Remembered(n, p) : f.name = n /\ f.reason = p.state[c]
<1> DEFINE e == [uid |-> p.uid, slot |-> c, name |-> n, reason |-> p.state[c]]
<1>1. e \in Remembered(n, p)
  BY DEF Remembered, Entries
<1>2. e.name = n /\ e.reason = p.state[c]
  OBVIOUS
<1> QED BY <1>1, <1>2

LEMMA DeliverPodCause ==
    ASSUME Inv, CurrentInv, CauseInv, NEW n \in Pods, DeliverPod(n) PROVE CauseInv'
<1> DEFINE p == world[n]
<1>1. /\ p.uid = births[n] /\ p.state \in Statuses
      /\ seen' = Remembered(n, p) /\ open' = Opened(n, p) /\ UNCHANGED <<listed, relists>>
  BY DeliverForm
<1> SUFFICES ASSUME Cardinality(listed) <= 1, relists = 0, NEW k \in open'
             PROVE  \E f \in seen' : f.name = k[1] /\ f.reason = k[2]
  BY <1>1 DEF CauseInv
<1>2. CASE \E c \in Hits(n, p) : k = <<n, p.state[c]>>
  BY <1>1, <1>2, HitIsSeen
<1>3. CASE k \in open /\ k \notin KeysOf(Of(n, p, Runs(p)))
  <2>1. PICK f \in seen : f.name = k[1] /\ f.reason = k[2] /\ f.reason \in listed
    BY <1>3 DEF CauseInv, CurrentInv, Current
  <2>2. k = <<f.name, f.reason>>
    BY <1>3, <2>1 DEF Inv, TypeOK
  <2>3. CASE f \in Of(n, p, Hits(n, p))
    <3>1. f.slot \in Hits(n, p) /\ f.name = n /\ p.state[f.slot] = f.reason
      BY <2>1, <2>3, OneReason DEF Of, Hits
    <3> QED BY <1>1, <2>1, <3>1, HitIsSeen
  <2>4. CASE f \notin Of(n, p, Hits(n, p))
    <3>1. f \notin Of(n, p, Runs(p))
      BY <1>3, <2>2 DEF KeysOf
    <3> QED BY <1>1, <2>1, <2>4, <3>1 DEF Remembered, Of
  <2> QED BY <2>3, <2>4
<1> QED BY <1>1, <1>2, <1>3 DEF Opened

LEMMA DeliverDeleteCause ==
    ASSUME Inv, CurrentInv, CauseInv, NEW n \in Pods, DeliverDelete(n) PROVE CauseInv'
<1>1. UNCHANGED <<listed, relists>>
  BY DEF DeliverDelete
<1>2. CASE lag[n] = "watch"
  <2> DEFINE mine == {f \in seen : f.name = n /\ f.uid = births[n]}
  <2>1. seen' = seen \ mine /\ open' = open \ KeysOf(mine)
    BY <1>2 DEF DeliverDelete, Become, HandleDelete
  <2> SUFFICES ASSUME Cardinality(listed) <= 1, relists = 0, NEW k \in open'
               PROVE  \E f \in seen' : f.name = k[1] /\ f.reason = k[2]
    BY <1>1 DEF CauseInv
  <2>2. PICK f \in seen : f.name = k[1] /\ f.reason = k[2]
    BY <2>1 DEF CauseInv
  <2>3. k = <<f.name, f.reason>>
    BY <2>1, <2>2 DEF Inv, TypeOK
  <2>4. f \notin mine
    BY <2>1, <2>3 DEF KeysOf
  <2> QED BY <2>1, <2>2, <2>4
<1>3. CASE lag[n] # "watch"
  BY <1>1, <1>3 DEF DeliverDelete, CauseInv
<1> QED BY <1>2, <1>3

LEMMA NextCause == Inv /\ CurrentInv /\ CauseInv /\ [Next]_vars => CauseInv'
<1> SUFFICES ASSUME Inv, CurrentInv, CauseInv, [Next]_vars PROVE CauseInv'
  OBVIOUS
<1>1. ASSUME NEW n \in Pods, NEW p \in PodStates, Change(n, p) PROVE CauseInv'
  BY <1>1, ChangeForm DEF CauseInv
<1>2. ASSUME NEW n \in Pods, CreatePod(n) PROVE CauseInv'
  BY <1>1, <1>2, CreateForm
<1>3. ASSUME NEW n \in Pods, UpdatePod(n) PROVE CauseInv'
  BY <1>1, <1>3, UpdatePodForm
<1>4. ASSUME NEW n \in Pods, DeletePod(n) PROVE CauseInv'
  <2>1. Change(n, NoPod) /\ NoPod \in PodStates
    BY <1>4 DEF DeletePod, NoPod, PodStates, Gone
  <2> QED BY <1>1, <2>1
<1>5. CASE Reset
  BY <1>5 DEF Reset, CauseInv
<1>6. CASE UNCHANGED vars
  BY <1>6 DEF vars, CauseInv
<1> QED BY <1>2, <1>3, <1>4, <1>5, <1>6, DeliverPodCause, DeliverDeleteCause DEF Next

\* With one reason in the list and a watch that does not break, an alert that
\* is open names a pod that exists and has a container that does not run.
THEOREM OpenAlertsHaveCause == Spec => []OpenHasCause
<1>1. Init => CauseInv
  BY DEF Init, CauseInv
<1>2. Inv /\ CurrentInv /\ CauseInv => OpenHasCause
  <2> SUFFICES ASSUME Inv, CurrentInv, CauseInv, Cardinality(listed) <= 1, relists = 0,
                      NEW k \in open, Delivered(k[1])
               PROVE  \E c \in DOMAIN world[k[1]].state : world[k[1]].state[c] # Running
    BY DEF OpenHasCause, NoStaleAlert
  <2>1. PICK f \in seen : f.name = k[1]
    BY DEF CauseInv
  <2>2. /\ f.slot \in DOMAIN world[k[1]].state
        /\ world[k[1]].state[f.slot] \in StillSeen(f)
    BY <2>1 DEF CurrentInv, Current
  <2>3. Running \notin StillSeen(f)
    BY PodCrashesAssumption DEF StillSeen, Inv, TypeOK, Found, Running, Other
  <2> QED BY <2>2, <2>3
<1> QED BY <1>1, <1>2, NextCause, AlwaysInv, AlwaysCurrent, PTL DEF Spec
=============================================================================
