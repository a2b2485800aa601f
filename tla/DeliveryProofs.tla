---------------------------- MODULE DeliveryProofs ----------------------------
(***************************************************************************)
(* Theorems about what becomes of a call: what the monitors said last      *)
(* reaches Engine.active, and what the engine decides to tell reaches the  *)
(* channels, for every value of the constants of Engine.                   *)
(***************************************************************************)
EXTENDS EngineProofs

USE DEF worker, sending, dedupe, queues, engine, env

-----------------------------------------------------------------------------
(* The active set is what the accepted calls said last.                    *)

\* The alerts of todo are still to be tracked, and a scan's diff to be made.
FiringWork == pc \in {"fire", "mark", "track"} \/ (pc = "send" /\ msg.state = "firing")

\* The key is one that the worker's scan reports on and did not find.
LeftOut(k) == job.kind = "reconcile" /\ k[1] = job.monitor /\ k \notin Mentioned(job)

\* What the job in hand will still do to a key.
Remaining(k) ==
    IF FiringWork /\ k \in KeysIn(todo) THEN "firing"
    ELSE IF (pc = "resolve" /\ k \in KeysIn(todo))
            \/ ((FiringWork \/ pc = "diff") /\ LeftOut(k)) THEN "clear"
    ELSE "nothing"

\* The calls in the channel that are about a key.
Speaks(k) == {n \in DOMAIN in : Says(in[n], k) # "nothing"}

\* A reset forgets what was said.
Agrees(k, what) == latest[k] \in {"unknown", what}

(***************************************************************************)
(* The inductive form of ActiveConverges: the last call accepted about a   *)
(* key is the newest one of the channel that is about it; if there is none *)
(* it is what the worker is about to do; if that is nothing either, the    *)
(* active set has it.                                                      *)
(***************************************************************************)
Told(k) ==
    /\ \A n \in Speaks(k) :
          (\A m \in Speaks(k) : m <= n) => Agrees(k, Says(in[n], k))
    /\ Speaks(k) = {} =>
          IF Remaining(k) # "nothing" THEN Agrees(k, Remaining(k))
          ELSE /\ latest[k] = "firing" => k \in KeysOf(active)
               /\ latest[k] = "clear" => k \notin KeysOf(active)

ToldInv == ResolutionEnabled => \A k \in Keys : Told(k)

\* Says, one kind of input at a time.
LEMMA SaysOf ==
    ASSUME NEW i, NEW k
    PROVE  /\ i.kind = "fire" => Says(i, k) = IF k \in Mentioned(i) THEN "firing" ELSE "nothing"
           /\ i.kind = "resolve" => Says(i, k) = IF k \in Mentioned(i) THEN "clear" ELSE "nothing"
           /\ i.kind = "reconcile" =>
                 Says(i, k) = IF k \in Mentioned(i) THEN "firing"
                              ELSE IF k[1] = i.monitor THEN "clear" ELSE "nothing"
BY Zenon DEF Says

LEMMA SaysType == \A i, k : Says(i, k) \in {"firing", "clear", "nothing"}
BY Zenon DEF Says

\* A call that is accepted becomes the newest about the keys it names.
LEMMA EnqueueTold ==
    ASSUME TypeInv, ToldInv, NEW i \in Inputs, Enqueue(i)
    PROVE  ToldInv'
<1> SUFFICES ASSUME ResolutionEnabled, NEW k \in Keys PROVE Told(k)'
  BY DEF ToldInv
<1>1. Told(k)
  BY DEF ToldInv
<1>2. Remaining(k)' = Remaining(k) /\ KeysOf(active)' = KeysOf(active)
  BY DEF Enqueue, Remaining, FiringWork, LeftOut, KeysOf, Mentioned, KeysIn
<1>3. CASE ~(Len(in) < QueueSize)
  <2>1. UNCHANGED <<in, latest>>
    BY <1>3 DEF Enqueue
  <2>2. Speaks(k)' = Speaks(k)
    BY <2>1 DEF Speaks
  <2> QED BY <1>1, <1>2, <2>1, <2>2 DEF Told, Agrees
<1>4. CASE Len(in) < QueueSize
  <2>1. /\ in' = Append(in, i) /\ in \in Seq(Inputs)
        /\ latest'[k] = IF Says(i, k) = "nothing" THEN latest[k] ELSE Says(i, k)
    BY <1>4 DEF Enqueue, TypeInv, TypeOK
  <2>2. /\ DOMAIN in = 1..Len(in) /\ DOMAIN in' = 1..(Len(in) + 1) /\ Len(in) \in Nat
        /\ \A n \in 1..Len(in) : in'[n] = in[n]
        /\ in'[Len(in) + 1] = i
    BY <2>1
  <2>3. CASE Says(i, k) = "nothing"
    <3>1. Speaks(k)' = Speaks(k)
      BY <2>2, <2>3 DEF Speaks
    <3>2. \A n \in Speaks(k) : in'[n] = in[n]
      BY <2>2 DEF Speaks
    <3> QED BY <1>1, <1>2, <2>1, <2>3, <3>1, <3>2 DEF Told, Agrees
  <2>4. CASE Says(i, k) # "nothing"
    <3>1. Len(in) + 1 \in Speaks(k)'
      BY <2>2, <2>4 DEF Speaks
    <3>2. \A n \in Speaks(k)' : n = Len(in) + 1 \/ n \in 1..Len(in)
      BY <2>2 DEF Speaks
    <3>3. \A n \in Speaks(k)' : (\A m \in Speaks(k)' : m <= n) => n = Len(in) + 1
      BY <2>2, <3>1, <3>2
    <3>4. latest'[k] = Says(in'[Len(in) + 1], k)
      BY <2>1, <2>2, <2>4
    <3> QED BY <3>1, <3>3, <3>4 DEF Told, Agrees
  <2> QED BY <2>3, <2>4
<1> QED BY <1>3, <1>4

\* The worker that takes a call is about to do what the call says.
LEMMA TakeInputRemaining ==
    ASSUME TypeInv, WorkerInv, ResolutionEnabled, TakeInput, NEW k
    PROVE  Remaining(k) = "nothing" /\ Remaining(k)' = Says(Head(in), k)
<1>1. PICK i \in Inputs : i = Head(in)
  BY HeadTailProperties DEF TakeInput, TypeInv, TypeOK
<1>2. i.kind \in {"fire", "resolve", "reconcile"}
  BY <1>1 DEF TakeInput, TypeInv, TypeOK, WorkerInv, QueueForms
<1>3. /\ todo' = i.firing /\ pc = "idle"
      /\ pc' = IF i.kind = "resolve" THEN "resolve" ELSE AfterFire(i, i.firing)
      /\ job' = IF pc' = "idle" THEN NoJob ELSE i
  BY <1>1 DEF TakeInput, Goto
<1>4. Mentioned(i) = KeysIn(i.firing)
  BY MentionedKeys
<1>5. Remaining(k) = "nothing"
  BY <1>3 DEF Remaining, FiringWork
<1>6. CASE i.kind = "resolve"
  <2>1. Says(i, k) = IF k \in Mentioned(i) THEN "clear" ELSE "nothing"
    BY <1>6, SaysOf
  <2> QED BY <1>1, <1>3, <1>4, <1>5, <1>6, <2>1 DEF Remaining, FiringWork
<1>7. CASE i.kind = "fire"
  <2>1. Says(i, k) = IF k \in Mentioned(i) THEN "firing" ELSE "nothing"
    BY <1>7, SaysOf
  <2>2. i.firing = <<>> => KeysIn(i.firing) = {}
    BY NoKeysIn
  <2> QED BY <1>1, <1>3, <1>4, <1>5, <1>7, <2>1, <2>2
          DEF Remaining, FiringWork, LeftOut, AfterFire, NoJob
<1>8. CASE i.kind = "reconcile"
  <2>1. Says(i, k) = IF k \in Mentioned(i) THEN "firing"
                     ELSE IF k[1] = i.monitor THEN "clear" ELSE "nothing"
    BY <1>8, SaysOf
  <2>2. i.firing = <<>> => KeysIn(i.firing) = {}
    BY NoKeysIn
  <2>3. pc' \in {"fire", "diff"} /\ job' = i /\ (i.firing # <<>> => pc' = "fire")
    BY <1>3, <1>8 DEF AfterFire
  <2>4. LeftOut(k)' = (k[1] = i.monitor /\ k \notin Mentioned(i))
    BY <2>3, <1>8 DEF LeftOut, Mentioned
  <2> QED BY <1>1, <1>3, <1>4, <1>5, <2>1, <2>2, <2>3, <2>4 DEF Remaining, FiringWork
<1> QED BY <1>2, <1>6, <1>7, <1>8
LEMMA TakeInputTold ==
    ASSUME TypeInv, WorkerInv, ToldInv, TakeInput
    PROVE  ToldInv'
<1> SUFFICES ASSUME ResolutionEnabled, NEW k \in Keys PROVE Told(k)'
  BY DEF ToldInv
<1>1. Told(k) /\ UNCHANGED <<latest, active>>
  BY DEF ToldInv, TakeInput
<1>2. Remaining(k) = "nothing" /\ Remaining(k)' = Says(Head(in), k)
  BY TakeInputRemaining
<1>3. /\ in \in Seq(Inputs) /\ in # <<>> /\ in' = Tail(in)
      /\ Len(in) \in Nat /\ Len(in) >= 1
      /\ DOMAIN in = 1..Len(in) /\ DOMAIN in' = 1..(Len(in) - 1)
      /\ \A n \in 1..(Len(in) - 1) : in'[n] = in[n + 1]
      /\ Head(in) = in[1]
  BY DEF TakeInput, TypeInv, TypeOK
<1>4. \A n \in Speaks(k)' : n \in Int /\ n + 1 \in Speaks(k) /\ in'[n] = in[n + 1]
  BY <1>3 DEF Speaks
<1>5. ASSUME NEW n \in Speaks(k), n # 1
      PROVE  n \in Int /\ n - 1 \in Speaks(k)' /\ in'[n - 1] = in[n]
  <2>1. n \in 1..Len(in) /\ Says(in[n], k) # "nothing"
    BY <1>3 DEF Speaks
  <2>2. n - 1 \in 1..(Len(in) - 1) /\ in'[n - 1] = in[(n - 1) + 1] /\ (n - 1) + 1 = n
    BY <1>3, <1>5, <2>1
  <2> QED BY <1>3, <2>1, <2>2 DEF Speaks
<1>6. CASE Speaks(k) = {}
  <2>1. Speaks(k)' = {}
    BY <1>4, <1>6
  <2>2. Says(Head(in), k) = "nothing"
    BY <1>3, <1>6 DEF Speaks
  <2> QED BY <1>1, <1>2, <1>6, <2>1, <2>2 DEF Told, Agrees
<1>7. CASE Speaks(k) = {1}
  <2>1. Speaks(k)' = {}
    <3>1. ASSUME NEW n \in Speaks(k)' PROVE FALSE
      <4>1. n + 1 = 1 /\ n \in 1..(Len(in) - 1)
        BY <1>3, <1>4, <1>7 DEF Speaks
      <4> QED BY <1>3, <4>1
    <3> QED BY <3>1
  <2>2. Says(Head(in), k) # "nothing" /\ Agrees(k, Says(Head(in), k))
    BY <1>1, <1>3, <1>7 DEF Told, Speaks
  <2> QED BY <1>1, <1>2, <2>1, <2>2 DEF Told, Agrees
<1>8. CASE \E m \in Speaks(k) : m # 1
  <2>1. Speaks(k)' # {}
    BY <1>5, <1>8
  <2>2. ASSUME NEW n \in Speaks(k)', \A m \in Speaks(k)' : m <= n
        PROVE  Agrees(k, Says(in[n], k))'
    <3>1. n \in Int /\ n + 1 \in Speaks(k) /\ in'[n] = in[n + 1] /\ n >= 1
      BY <1>3, <1>4 DEF Speaks
    <3>2. ASSUME NEW m \in Speaks(k) PROVE m <= n + 1
      <4>1. CASE m = 1
        BY <3>1, <4>1
      <4>2. CASE m # 1
        <5>1. m \in Int /\ m - 1 \in Speaks(k)'
          BY <1>5, <4>2
        <5>2. m - 1 <= n
          BY <2>2, <5>1
        <5> QED BY <3>1, <5>1, <5>2
      <4> QED BY <4>1, <4>2
    <3>3. Agrees(k, Says(in[n + 1], k))
      BY <1>1, <3>1, <3>2 DEF Told
    <3> QED BY <1>1, <3>1, <3>3 DEF Agrees
  <2> QED BY <2>1, <2>2 DEF Told
<1> QED BY <1>6, <1>7, <1>8

\* A step of the worker on a job: it leaves what remains as it is, or it does
\* what remained, and no other key becomes active or ceases to be.
Does(k) ==
    \/ /\ Remaining(k)' = Remaining(k)
       /\ Remaining(k) # "nothing" \/ KeysOf(active)' \cap {k} = KeysOf(active) \cap {k}
    \/ Remaining(k) = "firing" /\ Remaining(k)' = "nothing" /\ k \in KeysOf(active)'
    \/ Remaining(k) = "clear" /\ Remaining(k)' = "nothing" /\ k \notin KeysOf(active)'

LEMMA WorkerTold ==
    ASSUME NEW k, Told(k), UNCHANGED <<in, latest>>, Does(k)
    PROVE  Told(k)'
<1>1. Speaks(k)' = Speaks(k)
  BY DEF Speaks
<1>2. \A n \in Speaks(k)' :
        (\A m \in Speaks(k)' : m <= n) => Agrees(k, Says(in[n], k))'
  BY <1>1 DEF Told, Agrees
<1>3. ASSUME Speaks(k) = {}
      PROVE  (IF Remaining(k) # "nothing" THEN Agrees(k, Remaining(k))
              ELSE /\ latest[k] = "firing" => k \in KeysOf(active)
                   /\ latest[k] = "clear" => k \notin KeysOf(active))'
  <2>1. k \in KeysOf(active) <=> k \in KeysOf(active) \cap {k}
    OBVIOUS
  <2>2. k \in KeysOf(active)' <=> k \in KeysOf(active)' \cap {k}
    OBVIOUS
  <2> QED BY <1>3, <2>1, <2>2 DEF Told, Agrees, Does
<1> QED BY <1>1, <1>2, <1>3 DEF Told
LEMMA TrackedKeys ==
    ASSUME ResolutionEnabled, NEW a
    PROVE  KeysOf(Tracked(a)) = KeysOf(active) \cup {Key(a)}
BY DEF Tracked, KeysOf

\* The alert at the head of todo is tracked; the others wait or the diff does.
LEMMA TracksDoes ==
    ASSUME TypeInv, WorkerInv, ResolutionEnabled, NEW k,
           pc \in {"mark", "track"}, active' = Tracked(Head(todo)),
           todo' = Tail(todo), job' = IF pc' = "idle" THEN NoJob ELSE job,
           pc' = AfterFire(job, Tail(todo)) \/ (pc' = "send" /\ msg'.state = "firing")
    PROVE  Does(k)
<1>1. /\ todo \in Seq(Alerts) /\ todo # <<>>
      /\ job.kind \in {"fire", "reconcile"}
      /\ job.kind = "reconcile" => KeysIn(todo) \subseteq Mentioned(job)
  BY DEF TypeInv, TypeOK, WorkerInv, JobForms
<1>2. PICK rest : rest = Tail(todo)
  OBVIOUS
<1>3. /\ KeysIn(todo) = {Key(Head(todo))} \cup KeysIn(rest)
      /\ rest = <<>> => KeysIn(rest) = {}
  BY <1>1, <1>2, KeysOfTodo, NoKeysIn
<1>4. KeysOf(active)' = KeysOf(active) \cup {Key(Head(todo))}
  BY TrackedKeys DEF KeysOf
<1>5. /\ KeysIn(todo)' = KeysIn(rest)
      /\ pc' = AfterFire(job, rest) \/ (pc' = "send" /\ msg'.state = "firing")
  BY <1>2 DEF KeysIn
<1>6. Remaining(k) = IF k \in KeysIn(todo) THEN "firing"
                     ELSE IF LeftOut(k) THEN "clear" ELSE "nothing"
  BY DEF Remaining, FiringWork
<1>7. Remaining(k)' = IF k \in KeysIn(rest) THEN "firing"
                      ELSE IF LeftOut(k) THEN "clear" ELSE "nothing"
  <2>1. CASE pc' = "idle"
    <3>1. rest = <<>> /\ job.kind # "reconcile"
      BY <1>5, <2>1 DEF AfterFire
    <3> QED BY <1>3, <1>5, <2>1, <3>1 DEF Remaining, FiringWork, LeftOut
  <2>2. CASE pc' # "idle"
    <3>1. LeftOut(k)' = LeftOut(k)
      BY <2>2 DEF LeftOut, Mentioned
    <3>2. FiringWork' \/ (pc' = "diff" /\ rest = <<>>)
      BY <1>5, <2>2 DEF AfterFire, FiringWork
    <3>3. pc' # "resolve"
      BY <1>5 DEF AfterFire
    <3> QED BY <1>3, <1>5, <3>1, <3>2, <3>3 DEF Remaining, FiringWork
  <2> QED BY <2>1, <2>2
<1>8. CASE k = Key(Head(todo))
  <2>1. ~LeftOut(k) /\ k \in KeysIn(todo) /\ k \in KeysOf(active)'
    BY <1>1, <1>3, <1>4, <1>8 DEF LeftOut
  <2> QED BY <1>6, <1>7, <2>1 DEF Does
<1>9. CASE k # Key(Head(todo))
  <2>1. /\ k \in KeysIn(todo) <=> k \in KeysIn(rest)
        /\ KeysOf(active)' \cap {k} = KeysOf(active) \cap {k}
    BY <1>3, <1>4, <1>9
  <2> QED BY <1>6, <1>7, <2>1 DEF Does
<1> QED BY <1>8, <1>9

LEMMA BeginResolved ==
    \A prev : BeginSend(ResolvedMsg(prev)) => msg'.state = "resolved" /\ msg'.keys = {Key(prev)}
BY DEF BeginSend, ResolvedMsg

LEMMA HandleResolveDoes ==
    ASSUME TypeInv, WorkerInv, ResolutionEnabled, HandleResolve, NEW k
    PROVE  Does(k)
<1>1. todo \in Seq(Alerts) /\ Len(todo) = 1 /\ pc = "resolve"
  BY DEF HandleResolve, TypeInv, TypeOK, WorkerInv, JobForms
<1>2. KeysIn(todo) = {Key(Head(todo))}
  BY <1>1, KeysOfOne
<1>3. Remaining(k) = IF k = Key(Head(todo)) THEN "clear" ELSE "nothing"
  BY <1>1, <1>2 DEF Remaining, FiringWork
<1>4. active' = active \ Firing(Head(todo))
  BY DEF HandleResolve
<1>5. KeysOf(active)' = KeysOf(active) \ {Key(Head(todo))}
  BY <1>4 DEF Firing, KeysOf
<1>6. Remaining(k)' = "nothing"
  <2>1. pc' = "idle" \/ (pc' = "send" /\ msg'.state = "resolved")
    <3>1. pc' = "idle" \/ (pc' = "send" /\ \E prev : BeginSend(ResolvedMsg(prev)))
      BY DEF HandleResolve, Goto
    <3> QED BY <3>1, BeginResolved
  <2> QED BY <2>1 DEF Remaining, FiringWork
<1> QED BY <1>3, <1>5, <1>6 DEF Does

\* What a diff takes out of the active set goes by the key alone.
LEMMA MissingKeys ==
    ASSUME TypeInv
    PROVE  /\ KeysOf(active \ Missing(job)) = KeysOf(active) \ KeysOf(Missing(job))
           /\ job.kind = "reconcile" =>
                 KeysOf(Missing(job)) = {k \in KeysOf(active) : LeftOut(k)}
<1>1. \A a \in active : Key(a)[1] = a.monitor
  BY DEF TypeInv, TypeOK, Alerts, Key
<1> QED BY <1>1 DEF Missing, KeysOf, LeftOut

LEMMA DiffDoes ==
    ASSUME TypeInv, WorkerInv, ResolutionEnabled, Diff, NEW k
    PROVE  Does(k)
<1>1. pc = "diff" /\ job.kind = "reconcile"
  BY DEF Diff, WorkerInv, JobForms
<1>2. Remaining(k) = IF LeftOut(k) THEN "clear" ELSE "nothing"
  BY <1>1 DEF Remaining, FiringWork
<1>3. KeysOf(active)' = KeysOf(active) \ {q \in KeysOf(active) : LeftOut(q)}
  <2>1. KeysOf(active)' = KeysOf(active \ Missing(job))
    BY DEF Diff, KeysOf
  <2> QED BY <1>1, <2>1, MissingKeys
<1>4. Remaining(k)' = "nothing"
  <2>1. pc' = "idle" \/ (pc' = "send" /\ msg'.state = "resolved")
    <3>1. pc' = "idle" \/ (pc' = "send" /\ \E prev : BeginSend(ResolvedMsg(prev)))
      BY DEF Diff, Goto
    <3> QED BY <3>1, BeginResolved
  <2> QED BY <2>1 DEF Remaining, FiringWork
<1> QED BY <1>2, <1>3, <1>4 DEF Does

LEMMA FinishSendDoes ==
    ASSUME TypeInv, WorkerInv, ResolutionEnabled, FinishSend, NEW k
    PROVE  Does(k)
<1>1. /\ pc = "send" /\ UNCHANGED active /\ msg.state \in {"firing", "resolved"}
      /\ toResolve # {} => msg.state = "resolved"
  BY DEF FinishSend, WorkerInv, SendForms
<1>2. KeysOf(active)' = KeysOf(active)
  BY <1>1 DEF KeysOf
<1>3. CASE msg.state = "resolved"
  <2>1. pc' = "idle" \/ (pc' = "send" /\ msg'.state = "resolved")
    <3>1. pc' = "idle" \/ (pc' = "send" /\ \E prev : BeginSend(ResolvedMsg(prev)))
      BY <1>1, <1>3 DEF FinishSend, Goto
    <3> QED BY <3>1, BeginResolved
  <2> QED BY <1>1, <1>2, <1>3, <2>1 DEF Remaining, FiringWork, Does
<1>4. CASE msg.state = "firing"
  <2>1. /\ pc' = AfterFire(job, todo) /\ todo' = todo
        /\ job' = IF pc' = "idle" THEN NoJob ELSE job
    BY <1>1, <1>4 DEF FinishSend, Goto
  <2>2. todo = <<>> => KeysIn(todo) = {}
    BY NoKeysIn
  <2>3. KeysIn(todo)' = KeysIn(todo)
    BY <2>1 DEF KeysIn
  <2>4. CASE pc' = "idle"
    <3>1. todo = <<>> /\ job.kind # "reconcile"
      BY <2>1, <2>4 DEF AfterFire
    <3> QED BY <1>1, <1>2, <2>2, <2>3, <2>4, <3>1 DEF Remaining, FiringWork, LeftOut, Does
  <2>5. CASE pc' # "idle"
    <3>1. LeftOut(k)' = LeftOut(k)
      BY <2>1, <2>5 DEF LeftOut, Mentioned
    <3>2. pc' = "fire" \/ (pc' = "diff" /\ todo = <<>>)
      BY <2>1, <2>5 DEF AfterFire
    <3> QED BY <1>1, <1>2, <1>4, <2>2, <2>3, <3>1, <3>2 DEF Remaining, FiringWork, Does
  <2> QED BY <2>4, <2>5
<1> QED BY <1>1, <1>3, <1>4
LEMMA AllowDoes == ASSUME Allow, NEW k PROVE Does(k)
<1>1. pc = "fire" /\ pc' \in {"mark", "track"} /\ UNCHANGED <<job, todo, active>>
  BY DEF Allow
<1>2. KeysOf(active)' = KeysOf(active) /\ KeysIn(todo)' = KeysIn(todo)
  BY <1>1 DEF KeysOf, KeysIn
<1>3. LeftOut(k)' = LeftOut(k)
  BY <1>1 DEF LeftOut, Mentioned
<1> QED BY <1>1, <1>2, <1>3 DEF Remaining, FiringWork, Does

LEMMA TrackDoes ==
    ASSUME TypeInv, WorkerInv, ResolutionEnabled, Mark \/ Track, NEW k
    PROVE  Does(k)
<1>1. CASE Mark
  BY <1>1, TracksDoes DEF Mark, Goto
<1>2. CASE Track
  <2>1. CASE InDigest(Head(todo))
    BY <1>2, <2>1, TracksDoes DEF Track, Goto
  <2>2. CASE ~InDigest(Head(todo))
    <3>1. BeginSend(FiringMsg(Head(todo))) /\ Goto(job, Tail(todo), "send")
      BY <1>2, <2>2 DEF Track
    <3>2. msg'.state = "firing" /\ pc' = "send" /\ todo' = Tail(todo) /\ job' = job
      BY <3>1 DEF BeginSend, FiringMsg, Goto
    <3> QED BY <1>2, <3>2, TracksDoes DEF Track
  <2> QED BY <2>1, <2>2
<1> QED BY <1>1, <1>2

LEMMA TakeTickDoes == ASSUME WorkerInv, TakeTick, NEW k PROVE Does(k)
<1>1. pc = "idle" /\ UNCHANGED active
  BY DEF TakeTick
<1>2. Remaining(k) = "nothing" /\ KeysOf(active)' = KeysOf(active)
  BY <1>1 DEF Remaining, FiringWork, KeysOf
<1>3. CASE digestQ = <<>>
  BY <1>1, <1>2, <1>3 DEF TakeTick, Remaining, FiringWork, Does
<1>4. CASE digestQ # <<>>
  <2>1. Goto(FlushJob, <<>>, "send")
    BY <1>4 DEF TakeTick
  <2>2. pc' = "send" /\ todo' = <<>> /\ job' = FlushJob
    BY <2>1 DEF Goto
  <2>3. KeysIn(todo)' = {} /\ ~LeftOut(k)'
    BY <2>2, NoKeysIn DEF KeysIn, LeftOut, FlushJob
  <2> QED BY <1>2, <2>2, <2>3 DEF Remaining, Does
<1> QED BY <1>3, <1>4

\* A step that is none of the worker's, or a channel's answer.
LEMMA IdleDoes ==
    ASSUME UNCHANGED <<pc, job, todo, msg, active>> \/ Stop, NEW k
    PROVE  Does(k)
<1>1. CASE UNCHANGED <<pc, job, todo, msg, active>>
  <2>1. KeysOf(active)' = KeysOf(active) /\ KeysIn(todo)' = KeysIn(todo)
    BY <1>1 DEF KeysOf, KeysIn
  <2>2. LeftOut(k)' = LeftOut(k)
    BY <1>1 DEF LeftOut, Mentioned
  <2> QED BY <1>1, <2>1, <2>2 DEF Remaining, FiringWork, Does
<1>2. CASE Stop
  BY <1>2 DEF Stop, Remaining, FiringWork, KeysOf, Does
<1> QED BY <1>1, <1>2

LEMMA NextTold == TypeInv /\ WorkerInv /\ ToldInv /\ [Next]_vars => ToldInv'
<1> SUFFICES ASSUME TypeInv, WorkerInv, ToldInv, [Next]_vars PROVE ToldInv'
  OBVIOUS
<1>1. ASSUME UNCHANGED <<in, latest>>,
             ASSUME ResolutionEnabled, NEW k PROVE Does(k)
      PROVE  ToldInv'
  BY <1>1, WorkerTold DEF ToldInv
<1>2. CASE TakeInput
  BY <1>2, TakeInputTold
<1>3. CASE TakeTick
  <2>1. UNCHANGED <<in, latest>>
    BY <1>3 DEF TakeTick
  <2> QED BY <1>1, <1>3, <2>1, TakeTickDoes
<1>4. CASE Handle
  <2>1. UNCHANGED <<in, latest>>
    BY <1>4 DEF Handle, Allow, Mark, Track, HandleResolve, Diff, SendTo, FinishSend, Stop
  <2>2. ASSUME \E c \in Channels : SendTo(c)
        PROVE  UNCHANGED <<pc, job, todo, msg, active>>
    BY <2>2 DEF SendTo
  <2>3. ASSUME ResolutionEnabled, NEW k PROVE Does(k)
    BY <1>4, <2>2, <2>3, AllowDoes, TrackDoes, HandleResolveDoes, DiffDoes, FinishSendDoes,
       IdleDoes DEF Handle
  <2> QED BY <1>1, <2>1, <2>3
<1>5. CASE Environment
  <2>1. ASSUME NEW a \in FireInputs, Submit(a) \/ Resolve(a) PROVE ToldInv'
    BY <2>1, EngineAssumption, InputTypes, EnqueueTold DEF Submit, Resolve
  <2>2. ASSUME NEW s \in ScanInputs, Reconcile(s) PROVE ToldInv'
    BY <2>2, EngineAssumption, EnqueueTold DEF Reconcile
  <2>3. CASE ResetActive
    <3>1. \A k \in Keys : latest'[k] = "unknown"
      BY <2>3 DEF ResetActive
    <3> QED BY <3>1 DEF ToldInv, Told, Agrees
  <2>4. CASE Clock \/ Ticker \/ Cancel \/ ResetDedupe
    <3>1. UNCHANGED <<in, latest, pc, job, todo, msg, active>>
      BY <2>4 DEF Clock, Ticker, Cancel, ResetDedupe
    <3> QED BY <1>1, <3>1, IdleDoes
  <2> QED BY <1>5, <2>1, <2>2, <2>3, <2>4 DEF Environment
<1>6. CASE UNCHANGED vars
  <2>1. UNCHANGED <<in, latest, pc, job, todo, msg, active>>
    BY <1>6 DEF vars
  <2> QED BY <1>1, <2>1, IdleDoes
<1> QED BY <1>2, <1>3, <1>4, <1>5, <1>6 DEF Next

LEMMA InitTold == Init => ToldInv
<1> SUFFICES ASSUME Init, NEW k \in Keys PROVE Told(k)
  BY DEF ToldInv
<1>1. Speaks(k) = {} /\ pc = "idle" /\ latest[k] = "clear" /\ active = {}
  BY DEF Init, Speaks
<1> QED BY <1>1 DEF Told, Remaining, FiringWork, KeysOf

\* Whatever was suppressed, reset or scanned in between: once the queue has
\* drained the active set is what the accepted calls said last of each key
\* (Engine.active; handleFire, handleResolve, handleReconcile).
THEOREM ActiveIsLatest == Spec => []ActiveConverges
<1>1. ASSUME ToldInv PROVE ActiveConverges
  <2> SUFFICES ASSUME Quiet, ResolutionEnabled, NEW k \in Keys
               PROVE  /\ latest[k] = "firing" => k \in KeysOf(active)
                      /\ latest[k] = "clear" => k \notin KeysOf(active)
    BY DEF ActiveConverges
  <2>1. Told(k)
    BY <1>1 DEF ToldInv
  <2>2. Speaks(k) = {} /\ Remaining(k) = "nothing"
    BY DEF Quiet, Speaks, Remaining, FiringWork
  <2> QED BY <2>1, <2>2 DEF Told
<1>2. Spec => []ToldInv
  BY InitTold, NextTold, AlwaysTypeInv, AlwaysWorkerInv, PTL DEF Spec
<1> QED BY <1>1, <1>2, PTL

-----------------------------------------------------------------------------
(* The engine implements AlertLifecycle, step by step.                     *)

Stutters == /\ KeysOf(active)' = KeysOf(active) /\ Due' = Due /\ Given' = Given
            /\ (pc # "stopped")' = (pc # "stopped")

LifeStep == [Lifecycle!LifeNext]_(Lifecycle!avars)

LEMMA StutterIsLife == Stutters => LifeStep
BY DEF Stutters, LifeStep, Lifecycle!avars

\* Due, one part per place where a notification waits.
Waiting == {<<"firing", k>> : k \in KeysOf(Batch)}
Tracking == IF pc = "track" THEN {<<"firing", Key(Head(todo))>>} ELSE {}
Sending == IF pc = "send" THEN {<<msg.state, k>> : k \in msg.keys} ELSE {}
Resolving == {<<"resolved", Key(a)>> : a \in toResolve}

LEMMA DueParts == Due = Waiting \cup Tracking \cup Sending \cup Resolving
BY DEF Due, Waiting, Tracking, Sending, Resolving

LEMMA DuePartsNext ==
    Due' = Waiting' \cup Tracking' \cup Sending' \cup Resolving'
BY DEF Due, Waiting, Tracking, Sending, Resolving

LEMMA GivenSame == UNCHANGED stats => Given' = Given
BY DEF Given, Recent

LEMMA WaitingSame == UNCHANGED digestQ => Waiting' = Waiting
BY DEF Waiting, KeysOf, Batch

\* A step that touches nothing the mapping reads.
LEMMA OtherLife ==
    ASSUME UNCHANGED <<pc, todo, toResolve, msg, active, digestQ, stats>>
    PROVE  LifeStep
<1>1. /\ Waiting' = Waiting /\ Given' = Given
      /\ Tracking' = Tracking /\ Sending' = Sending /\ Resolving' = Resolving
  BY GivenSame, WaitingSame DEF Tracking, Sending, Resolving
<1>2. KeysOf(active)' = KeysOf(active)
  BY DEF KeysOf
<1> QED BY <1>1, <1>2, DueParts, DuePartsNext, StutterIsLife DEF Stutters

LEMMA TakeInputLife == ASSUME WorkerInv, TakeInput PROVE LifeStep
<1>1. /\ pc = "idle" /\ pc' \in {"idle", "fire", "resolve", "diff"}
      /\ UNCHANGED <<active, digestQ, stats, toResolve>>
  BY DEF TakeInput, Goto, AfterFire
<1>2. /\ Tracking = {} /\ Tracking' = {} /\ Sending = {} /\ Sending' = {}
      /\ Resolving' = Resolving /\ Waiting' = Waiting /\ Given' = Given
      /\ KeysOf(active)' = KeysOf(active)
  BY <1>1, GivenSame, WaitingSame DEF Tracking, Sending, Resolving, KeysOf
<1> QED BY <1>1, <1>2, DueParts, DuePartsNext, StutterIsLife DEF Stutters

LEMMA AllowLife == ASSUME TypeInv, WorkerInv, Allow PROVE LifeStep
<1>1. PICK k \in Keys : k = Key(Head(todo))
  BY HeadTailTodo DEF Allow, TypeInv, TypeOK
<1>2. /\ pc = "fire" /\ pc' \in {"track", "mark"}
      /\ UNCHANGED <<todo, active, digestQ, stats, toResolve>>
  BY DEF Allow
<1>3. /\ Tracking = {} /\ Sending = {} /\ Sending' = {}
      /\ Resolving' = Resolving /\ Waiting' = Waiting /\ Given' = Given
      /\ KeysOf(active)' = KeysOf(active)
  BY <1>2, GivenSame, WaitingSame DEF Tracking, Sending, Resolving, KeysOf
<1>4. CASE pc' = "mark"
  <2>1. Tracking' = {}
    BY <1>4 DEF Tracking
  <2> QED BY <1>2, <1>3, <2>1, DueParts, DuePartsNext, StutterIsLife DEF Stutters
<1>5. CASE pc' = "track"
  <2>1. Tracking' = {<<"firing", k>>}
    BY <1>1, <1>2, <1>5 DEF Tracking
  <2>2. Lifecycle!Admit(k)
    BY <1>2, <1>3, <2>1, DueParts, DuePartsNext DEF Lifecycle!Admit
  <2> QED BY <2>2 DEF LifeStep, Lifecycle!LifeNext
<1> QED BY <1>2, <1>4, <1>5

\* The alert at hand enters the active set, if resolution is on.
LEMMA TrackedLife ==
    ASSUME NEW a \in Alerts, active' = Tracked(a), Due' = Due, Given' = Given,
           pc # "stopped", pc' # "stopped"
    PROVE  LifeStep
<1>1. CASE ResolutionEnabled
  <2>1. KeysOf(active)' = KeysOf(active) \cup {Key(a)}
    BY <1>1, TrackedKeys DEF KeysOf
  <2>2. Lifecycle!Open(Key(a))
    BY <2>1 DEF Lifecycle!Open
  <2> QED BY <2>2, KeyType DEF LifeStep, Lifecycle!LifeNext
<1>2. CASE ~ResolutionEnabled
  BY <1>2, StutterIsLife DEF Tracked, Stutters, KeysOf
<1> QED BY <1>1, <1>2

LEMMA MarkLife == ASSUME TypeInv, WorkerInv, Mark PROVE LifeStep
<1>1. Head(todo) \in Alerts
  BY HeadTailTodo DEF Mark, TypeInv, TypeOK
<1>2. /\ pc = "mark" /\ pc' \in {"idle", "fire", "diff"}
      /\ active' = Tracked(Head(todo))
      /\ UNCHANGED <<digestQ, stats, toResolve>>
  BY DEF Mark, Goto, AfterFire
<1>3. /\ Tracking = {} /\ Tracking' = {} /\ Sending = {} /\ Sending' = {}
      /\ Resolving' = Resolving /\ Waiting' = Waiting /\ Given' = Given
  BY <1>2, GivenSame, WaitingSame DEF Tracking, Sending, Resolving
<1> QED BY <1>1, <1>2, <1>3, DueParts, DuePartsNext, TrackedLife

LEMMA TrackLife == ASSUME TypeInv, WorkerInv, Track PROVE LifeStep
<1>1. PICK a \in Alerts : a = Head(todo)
  BY HeadTailTodo DEF Track, TypeInv, TypeOK
<1>2. pc = "track" /\ active' = Tracked(a) /\ UNCHANGED <<stats, toResolve>>
  BY <1>1 DEF Track
<1>3. Tracking = {<<"firing", Key(a)>>} /\ Sending = {} /\ Resolving' = Resolving
  BY <1>1, <1>2 DEF Tracking, Sending, Resolving
<1>4. CASE InDigest(a)
  <2>1. digestQ' = Append(digestQ, a) /\ pc' \in {"idle", "fire", "diff"}
    BY <1>1, <1>4 DEF Track, Goto, AfterFire
  <2>2. KeysOf(Batch)' = KeysOf(Batch) \cup {Key(a)}
    <3>1. digestQ \in Seq(Alerts)
      BY DEF TypeInv, TypeOK
    <3>2. /\ DOMAIN digestQ = 1..Len(digestQ) /\ DOMAIN digestQ' = 1..(Len(digestQ) + 1)
          /\ Len(digestQ) \in Nat
          /\ \A n \in 1..Len(digestQ) : digestQ'[n] = digestQ[n]
          /\ digestQ'[Len(digestQ) + 1] = a
      BY <2>1, <3>1
    <3>3. DOMAIN digestQ' = DOMAIN digestQ \cup {Len(digestQ) + 1}
      BY <3>2
    <3>4. Batch' = Batch \cup {a}
      BY <3>2, <3>3 DEF Batch
    <3> QED BY <3>4 DEF KeysOf
  <2>3. Waiting' = Waiting \cup {<<"firing", Key(a)>>}
    BY <2>2 DEF Waiting
  <2>4. Tracking' = {} /\ Sending' = {}
    BY <2>1 DEF Tracking, Sending
  <2>5. Due' = Due
    BY <1>3, <2>3, <2>4, DueParts, DuePartsNext
  <2> QED BY <1>2, <2>1, <2>5, GivenSame, TrackedLife
<1>5. CASE ~InDigest(a)
  <2>1. BeginSend(FiringMsg(a)) /\ Goto(job, Tail(todo), "send") /\ UNCHANGED digestQ
    BY <1>1, <1>5 DEF Track
  <2>2. msg'.state = "firing" /\ msg'.keys = {Key(a)} /\ pc' = "send"
    BY <2>1 DEF BeginSend, FiringMsg, Goto
  <2>3. Tracking' = {} /\ Sending' = {<<"firing", Key(a)>>} /\ Waiting' = Waiting
    BY <2>1, <2>2, WaitingSame DEF Tracking, Sending
  <2>4. Due' = Due
    BY <1>3, <2>3, DueParts, DuePartsNext
  <2> QED BY <1>2, <2>2, <2>4, GivenSame, TrackedLife
<1> QED BY <1>4, <1>5
LEMMA HandleResolveLife ==
    ASSUME TypeInv, WorkerInv, HandleResolve
    PROVE  LifeStep
<1>1. PICK a \in Alerts : a = Head(todo)
  BY HeadTailTodo DEF HandleResolve, TypeInv, TypeOK
<1>2. /\ pc = "resolve" /\ UNCHANGED <<digestQ, stats, toResolve>>
      /\ pc' \in {"idle", "send"} /\ toResolve = {}
  BY DEF HandleResolve, Goto, WorkerInv, SendForms
<1>3. /\ Tracking = {} /\ Tracking' = {} /\ Sending = {} /\ Resolving = {} /\ Resolving' = {}
      /\ Waiting' = Waiting /\ Given' = Given
  BY <1>2, GivenSame, WaitingSame DEF Tracking, Sending, Resolving
<1>4. CASE pc' = "idle"
  <2>1. KeysOf(active)' = KeysOf(active)
    BY <1>4 DEF HandleResolve, Goto, KeysOf
  <2>2. Sending' = {}
    BY <1>4 DEF Sending
  <2> QED BY <1>2, <1>3, <1>4, <2>1, <2>2, DueParts, DuePartsNext, StutterIsLife
          DEF Stutters
<1>5. CASE pc' = "send"
  <2>1. PICK prev \in Firing(a) : BeginSend(ResolvedMsg(prev))
    BY <1>1, <1>5 DEF HandleResolve, Goto
  <2>2. active' = active \ Firing(a)
    BY <1>1, <1>5 DEF HandleResolve, Goto
  <2>3. Key(prev) = Key(a) /\ prev \in active
    BY <2>1 DEF Firing
  <2>4. Sending' = {<<"resolved", Key(a)>>}
    BY <1>5, <2>1, <2>3, BeginResolved DEF Sending
  <2>5. KeysOf(active)' = KeysOf(active) \ {Key(a)} /\ Key(a) \in KeysOf(active)
    BY <2>2, <2>3 DEF Firing, KeysOf
  <2>6. Due' = Due \cup {<<"resolved", c>> : c \in {Key(a)}}
    BY <1>3, <2>4, DueParts, DuePartsNext
  <2>7. Lifecycle!Close({Key(a)})
    BY <1>2, <1>3, <1>5, <2>5, <2>6 DEF Lifecycle!Close
  <2> QED BY <2>5, <2>7 DEF LifeStep, Lifecycle!LifeNext
<1> QED BY <1>2, <1>4, <1>5

LEMMA DiffLife == ASSUME TypeInv, WorkerInv, Diff PROVE LifeStep
<1> DEFINE gone == KeysOf(Missing(job))
<1>1. /\ pc = "diff" /\ UNCHANGED <<digestQ, stats>> /\ toResolve = {}
      /\ active' = active \ Missing(job)
  BY DEF Diff, WorkerInv, SendForms
<1>2. KeysOf(active)' = KeysOf(active) \ gone /\ gone \subseteq KeysOf(active)
  <2>1. KeysOf(active)' = KeysOf(active \ Missing(job))
    BY <1>1 DEF KeysOf
  <2>2. gone \subseteq KeysOf(active)
    BY DEF Missing, KeysOf
  <2> QED BY <2>1, <2>2, MissingKeys
<1>3. /\ Tracking = {} /\ Sending = {} /\ Resolving = {}
      /\ Waiting' = Waiting /\ Given' = Given
  BY <1>1, GivenSame, WaitingSame DEF Tracking, Sending, Resolving
<1>4. CASE Missing(job) = {}
  <2>1. pc' = "idle" /\ toResolve' = {} /\ active' = active
    BY <1>1, <1>4 DEF Diff, Goto
  <2>2. Tracking' = {} /\ Sending' = {} /\ Resolving' = {}
    BY <2>1 DEF Tracking, Sending, Resolving
  <2>3. KeysOf(active)' = KeysOf(active)
    BY <2>1 DEF KeysOf
  <2> QED BY <1>1, <1>3, <2>1, <2>2, <2>3, DueParts, DuePartsNext, StutterIsLife
          DEF Stutters
<1>5. CASE Missing(job) # {}
  <2>1. PICK prev \in Missing(job) :
          BeginSend(ResolvedMsg(prev)) /\ toResolve' = Left(prev) /\ Goto(job, <<>>, "send")
    BY <1>5 DEF Diff
  <2>2. pc' = "send" /\ Tracking' = {}
    BY <2>1 DEF Goto, Tracking
  <2>3. Sending' = {<<"resolved", Key(prev)>>}
    BY <2>1, <2>2, BeginResolved DEF Sending
  <2>4. Resolving' = {<<"resolved", Key(b)>> : b \in Missing(job) \ {prev}}
    BY <2>1 DEF Resolving, Left
  <2>5. Sending' \cup Resolving' = {<<"resolved", c>> : c \in gone}
    BY <2>3, <2>4 DEF KeysOf
  <2>6. Due' = Due \cup {<<"resolved", c>> : c \in gone}
    BY <1>3, <2>2, <2>5, DueParts, DuePartsNext
  <2>7. gone # {}
    BY <1>5 DEF KeysOf
  <2> HIDE DEF gone
  <2>8. Lifecycle!Close(gone)
    BY <1>1, <1>2, <1>3, <2>2, <2>6, <2>7 DEF Lifecycle!Close
  <2> QED BY <1>2, <2>8 DEF LifeStep, Lifecycle!LifeNext
<1> QED BY <1>4, <1>5

LEMMA TakeTickLife == ASSUME TypeInv, WorkerInv, TakeTick PROVE LifeStep
<1>1. pc = "idle" /\ digestQ' = <<>> /\ UNCHANGED <<active, stats, toResolve>>
  BY DEF TakeTick
<1>2. Waiting' = {}
  <2>1. Batch' = {}
    BY <1>1 DEF Batch
  <2> QED BY <2>1 DEF Waiting, KeysOf
<1>3. /\ Tracking = {} /\ Sending = {} /\ Resolving' = Resolving /\ Given' = Given
      /\ KeysOf(active)' = KeysOf(active)
  BY <1>1, GivenSame DEF Tracking, Sending, Resolving, KeysOf
<1>4. CASE digestQ = <<>>
  <2>1. pc' = "idle"
    BY <1>1, <1>4 DEF TakeTick
  <2>2. Waiting' = Waiting /\ Tracking' = {} /\ Sending' = {}
    BY <1>1, <1>4, <2>1, WaitingSame DEF Tracking, Sending
  <2> QED BY <1>1, <1>3, <2>1, <2>2, DueParts, DuePartsNext, StutterIsLife DEF Stutters
<1>5. CASE digestQ # <<>>
  <2>1. BeginSend(DigestMsg(Batch)) /\ Goto(FlushJob, <<>>, "send")
    BY <1>5 DEF TakeTick
  <2>2. msg'.state = "firing" /\ msg'.keys = KeysOf(Batch) /\ pc' = "send"
    BY <2>1 DEF BeginSend, DigestMsg, Goto
  <2>3. Sending' = Waiting /\ Tracking' = {}
    BY <2>2 DEF Sending, Waiting, Tracking
  <2> QED BY <1>1, <1>2, <1>3, <2>2, <2>3, DueParts, DuePartsNext, StutterIsLife
          DEF Stutters
<1> QED BY <1>4, <1>5

\* The message recorded last heads the feed, however long the ring is.
LEMMA RecordHeads ==
    ASSUME NEW st \in StatsRecords, NEW m \in Messages
    PROVE  /\ Record(st, m).recent # <<>>
           /\ Recent(Record(st, m))[1] = m
<1> DEFINE t == Append(st.recent, m)
<1>1. st.recent \in Seq(Messages)
  BY DEF StatsRecords
<1>2. t \in Seq(Messages) /\ Len(t) \in Nat \ {0} /\ t[Len(t)] = m
  BY <1>1, AppendProperties
<1>3. Capacity \in Nat \ {0}
  BY CapacityAssumption
<1> HIDE DEF t
<1>4. /\ Trim(t) \in Seq(Messages) /\ Len(Trim(t)) \in Nat \ {0}
      /\ Trim(t)[Len(Trim(t))] = m
  <2>1. CASE Len(t) > Capacity
    <3>1. PICK lo \in Int : lo = Len(t) - Capacity + 1
      BY <1>2, <1>3
    <3>2. PICK hi \in Int : hi = Len(t)
      BY <1>2
    <3>3. \A i \in lo..hi : t[i] \in Messages
      BY <1>2, <1>3, <2>1, <3>1, <3>2, ElementOfSeq
    <3>4. lo <= hi /\ hi - lo + 1 = Capacity /\ lo + Capacity - 1 = hi
      BY <1>3, <3>1, <3>2, <2>1
    <3>5. /\ SubSeq(t, lo, hi) \in Seq(Messages) /\ Len(SubSeq(t, lo, hi)) = hi - lo + 1
          /\ \A i \in 1..(hi - lo + 1) : SubSeq(t, lo, hi)[i] = t[lo + i - 1]
      BY <3>3, <3>4, SubSeqProperties
    <3>6. SubSeq(t, lo, hi)[Capacity] = t[hi]
      BY <1>3, <3>4, <3>5
    <3>7. Trim(t) = SubSeq(t, lo, hi)
      BY <2>1, <3>1, <3>2 DEF Trim
    <3> QED BY <1>2, <1>3, <3>2, <3>4, <3>5, <3>6, <3>7
  <2>2. CASE ~(Len(t) > Capacity)
    BY <1>2, <2>2 DEF Trim
  <2> QED BY <2>1, <2>2
<1>5. Record(st, m).recent = Trim(t)
  BY DEF Record, t
<1>6. Trim(t) # <<>>
  BY <1>4, EmptySeq
<1>7. Recent(Record(st, m))[1] = Trim(t)[Len(Trim(t))]
  BY <1>4, <1>5 DEF Recent
<1> QED BY <1>4, <1>5, <1>6, <1>7

LEMMA FinishSendLife == ASSUME TypeInv, WorkerInv, FinishSend PROVE LifeStep
<1> DEFINE D == {<<msg.state, k>> : k \in msg.keys}
           K == D \cap Due'
<1>1. /\ pc = "send" /\ UNCHANGED <<active, digestQ>> /\ stats' = Record(stats, msg)
      /\ msg.keys # {} /\ msg \in Messages /\ stats \in StatsRecords
      /\ toResolve # {} => msg.state = "resolved"
  BY DEF FinishSend, TypeInv, TypeOK, WorkerInv, SendForms
<1>2. Given' = D
  <2>1. stats'.recent # <<>> /\ Recent(stats')[1] = msg
    BY <1>1, RecordHeads
  <2>2. Given' = IF stats'.recent = <<>> THEN {}
                 ELSE {<<Recent(stats')[1].state, k>> : k \in Recent(stats')[1].keys}
    BY DEF Given, Recent
  <2> QED BY <2>1, <2>2
<1>3. /\ Tracking = {} /\ Sending = D /\ Waiting' = Waiting
      /\ KeysOf(active)' = KeysOf(active)
  BY <1>1, WaitingSame DEF Tracking, Sending, KeysOf
<1>4. /\ Sending' \cup Resolving' = Resolving /\ Tracking' = {}
      /\ pc' # "stopped"
  <2>1. CASE toResolve # {}
    <3>1. PICK prev \in toResolve :
            BeginSend(ResolvedMsg(prev)) /\ toResolve' = toResolve \ {prev} /\ pc' = pc
      BY <2>1 DEF FinishSend
    <3>2. Sending' = {<<"resolved", Key(prev)>>} /\ Tracking' = {}
      BY <1>1, <3>1, BeginResolved DEF Sending, Tracking
    <3>3. Resolving' = {<<"resolved", Key(b)>> : b \in toResolve \ {prev}}
      BY <3>1 DEF Resolving
    <3> QED BY <1>1, <3>1, <3>2, <3>3 DEF Resolving
  <2>2. CASE toResolve = {}
    <3>1. toResolve' = {} /\ pc' \in {"idle", "fire", "diff"}
      BY <2>2 DEF FinishSend, Goto, AfterFire
    <3> QED BY <2>2, <3>1 DEF Sending, Tracking, Resolving
  <2> QED BY <2>1, <2>2
<1>5. D # {} /\ D \subseteq Due
  BY <1>1, <1>3, DueParts
<1>6. Due' = (Due \ D) \cup K
  BY <1>3, <1>4, DueParts, DuePartsNext
<1>7. K \subseteq D
  OBVIOUS
<1> HIDE DEF D, K
<1>8. Lifecycle!Give(D, K)
  BY <1>1, <1>2, <1>3, <1>4, <1>5, <1>6, <1>7 DEF Lifecycle!Give
<1> QED BY <1>5, <1>7, <1>8 DEF LifeStep, Lifecycle!LifeNext

LEMMA NextLife == TypeInv /\ WorkerInv /\ [Next]_vars => LifeStep
<1> SUFFICES ASSUME TypeInv, WorkerInv, [Next]_vars PROVE LifeStep
  OBVIOUS
<1>1. CASE Handle
  <2>1. CASE Stop
    <3>1. /\ pc = "idle" /\ pc' = "stopped"
          /\ UNCHANGED <<toResolve, active, digestQ, stats>>
      BY <2>1 DEF Stop
    <3>2. /\ Waiting' = Waiting /\ Tracking' = {} /\ Sending' = {} /\ Tracking = {}
          /\ Sending = {} /\ Resolving' = Resolving /\ Given' = Given
          /\ KeysOf(active)' = KeysOf(active)
      BY <3>1, GivenSame, WaitingSame DEF Tracking, Sending, Resolving, KeysOf
    <3>3. Lifecycle!Halt
      BY <3>1, <3>2, DueParts, DuePartsNext DEF Lifecycle!Halt
    <3> QED BY <3>3 DEF LifeStep, Lifecycle!LifeNext
  <2>2. CASE \E c \in Channels : SendTo(c)
    <3>1. UNCHANGED <<pc, todo, toResolve, msg, active, digestQ, stats>>
      BY <2>2 DEF SendTo
    <3> QED BY <3>1, OtherLife
  <2> QED BY <1>1, <2>1, <2>2, AllowLife, MarkLife, TrackLife, HandleResolveLife, DiffLife,
             FinishSendLife DEF Handle
<1>2. CASE Environment
  <2>1. CASE ResetActive
    <3>1. active' = {} /\ UNCHANGED <<pc, todo, toResolve, msg, digestQ, stats>>
      BY <2>1 DEF ResetActive
    <3>2. /\ KeysOf(active)' = {} /\ Due' = Due /\ Given' = Given
      BY <3>1, GivenSame DEF KeysOf, Due, Batch
    <3>3. Lifecycle!Forget
      BY <3>1, <3>2 DEF Lifecycle!Forget
    <3> QED BY <3>3 DEF LifeStep, Lifecycle!LifeNext
  <2>2. CASE ~ResetActive
    <3>1. UNCHANGED <<pc, todo, toResolve, msg, active, digestQ, stats>>
      BY <1>2, <2>2 DEF Environment, Submit, Resolve, Reconcile, Enqueue, Clock, Ticker,
                        Cancel, ResetDedupe
    <3> QED BY <3>1, OtherLife
  <2> QED BY <2>1, <2>2
<1>3. CASE UNCHANGED vars
  <2>1. UNCHANGED <<pc, todo, toResolve, msg, active, digestQ, stats>>
    BY <1>3 DEF vars
  <2> QED BY <2>1, OtherLife
<1> QED BY <1>1, <1>2, <1>3, TakeInputLife, TakeTickLife DEF Next

LEMMA InitLife == Init => Lifecycle!LifeInit
<1> SUFFICES ASSUME Init PROVE Lifecycle!LifeInit
  OBVIOUS
<1>1. /\ pc = "idle" /\ active = {} /\ toResolve = {} /\ digestQ = <<>>
      /\ stats.recent = <<>>
  BY DEF Init, NewStats
<1>2. Waiting = {} /\ Tracking = {} /\ Sending = {} /\ Resolving = {}
  BY <1>1 DEF Waiting, Tracking, Sending, Resolving, KeysOf, Batch
<1>3. Given = {} /\ KeysOf(active) = {} /\ Due = {}
  BY <1>1, <1>2, DueParts DEF Given, KeysOf
<1> QED BY <1>1, <1>3 DEF Lifecycle!LifeInit

\* The engine implements the abstract specification: whatever is decided on,
\* in Allow, in a resolve or in a scan's diff, stays due through the digest
\* queue, the reconcile loop and the registry until it is given, nothing is
\* given that was not due, and a resolved notice is due only because an open
\* condition was closed (handleFire, handleResolve, handleReconcile,
\* flushDigest, recordSent).
THEOREM ImplementsLifecycle == Spec => Lifecycle!LifeSpec
<1>1. TypeInv /\ WorkerInv /\ [Next]_vars => [Lifecycle!LifeNext]_(Lifecycle!avars)
  BY NextLife DEF LifeStep
<1> QED BY <1>1, InitLife, AlwaysTypeInv, AlwaysWorkerInv, PTL DEF Spec, Lifecycle!LifeSpec
-----------------------------------------------------------------------------
(* What a channel hears, when notices go out at once and arrive.           *)

(***************************************************************************)
(* No notifier fails and nothing is cancelled, there is no digest, and no  *)
(* rule looks at the severity, which a resolved message does not keep.     *)
(* Without any one of these a channel may miss a firing notice and be told *)
(* of its end, or the other way round.                                     *)
(***************************************************************************)
Plain == /\ ~MayFail /\ ~MayStop /\ ~DigestEnabled
         /\ \A i \in 1..Len(Rules) : Rules[i].severity = AnyMatch

\* The channels that every message about a key goes to and that are there.
MessageOf(monitor) ==
    [state |-> "firing", monitor |-> monitor, severity |-> "info", keys |-> {}]
Route(k) == ChannelsFor(MessageOf(k[1]), defaults) \cap Registered

\* Without severities in the rules the monitor alone decides.
LEMMA RouteByMonitor ==
    ASSUME Plain, NEW m, NEW n, m.monitor = n.monitor, NEW d
    PROVE  ChannelsFor(m, d) = ChannelsFor(n, d)
<1>1. \A i \in 1..Len(Rules) : MatchRule(Rules[i], m) <=> MatchRule(Rules[i], n)
  BY DEF MatchRule, Plain
<1>2. Matching(m) = Matching(n)
  BY <1>1 DEF Matching
<1> QED BY <1>2 DEF ChannelsFor, Routed

\* Every message in flight is about one key and goes its way.
PlainForms ==
    /\ ~cancelled /\ digestQ = <<>>
    /\ pc = "send" => /\ \E k \in Keys : msg.keys = {k} /\ msg.monitor = k[1]
                      /\ chans \subseteq ChannelsFor(msg, defaults)
    /\ \A c \in Channels, k \in Keys : heard[c][k] # "none" => c \in Route(k)

\* A message that begins is about the alert's key and goes to all its channels.
LEMMA BeginsPlain ==
    ASSUME Plain, NEW a \in Alerts,
           BeginSend(FiringMsg(a)) \/ BeginSend(ResolvedMsg(a)), defaults' = defaults
    PROVE  /\ msg'.keys = {Key(a)} /\ msg'.monitor = Key(a)[1] /\ Key(a) \in Keys
           /\ chans' \subseteq ChannelsFor(msg', defaults')
           /\ Route(Key(a))' \subseteq chans'
<1>1. /\ msg'.keys = {Key(a)} /\ msg'.monitor = a.monitor
      /\ chans' = ChannelsFor(msg', defaults)
  BY DEF BeginSend, FiringMsg, ResolvedMsg
<1>2. Key(a)[1] = a.monitor /\ Key(a) \in Keys
  BY KeyType DEF Key
<1>3. MessageOf(a.monitor).monitor = msg'.monitor
  BY <1>1 DEF MessageOf
<1>4. ChannelsFor(MessageOf(a.monitor), defaults) = chans'
  BY <1>1, <1>3, RouteByMonitor
<1> QED BY <1>1, <1>2, <1>4 DEF Route

\* A channel that is being sent to is on the route of the message's key.
LEMMA SendsOnRoute ==
    ASSUME Plain, PlainForms, pc = "send"
    PROVE  \E k \in Keys : msg.keys = {k} /\ chans \cap Registered \subseteq Route(k)
<1>1. PICK k \in Keys : msg.keys = {k} /\ msg.monitor = k[1]
  BY DEF PlainForms
<1>2. MessageOf(k[1]).monitor = msg.monitor
  BY <1>1 DEF MessageOf
<1>3. ChannelsFor(MessageOf(k[1]), defaults) = ChannelsFor(msg, defaults)
  BY <1>2, RouteByMonitor
<1> QED BY <1>1, <1>3 DEF PlainForms, Route

\* What a channel's answer changes: only what this channel heard of the key.
LEMMA SendToHeard ==
    ASSUME Plain, TypeInv, PlainForms, NEW c \in Channels, SendTo(c)
    PROVE  \A d \in Channels, k \in Keys :
              heard'[d][k] = IF d = c /\ c \in Registered /\ k \in msg.keys
                               THEN msg.state ELSE heard[d][k]
<1>1. heard \in [Channels -> [Keys -> {"none", "firing", "resolved"}]]
  BY DEF TypeInv, TypeOK
<1>2. CASE c \in Registered
  <2>1. heard' = [heard EXCEPT ![c] =
                    [k \in Keys |-> IF k \in msg.keys THEN msg.state ELSE @[k]]]
    BY <1>2 DEF SendTo, Receives, Misses, Plain, PlainForms
  <2> QED BY <1>1, <1>2, <2>1
<1>3. CASE c \notin Registered
  BY <1>3 DEF SendTo, Receives, Misses
<1> QED BY <1>2, <1>3

LEMMA NextPlainForms ==
    ASSUME Plain, TypeInv, WorkerInv, PlainForms, [Next]_vars
    PROVE  PlainForms'
<1>1. ASSUME UNCHANGED <<cancelled, digestQ, defaults, heard>>,
             pc' = "send" =>
                 /\ \E k \in Keys : msg'.keys = {k} /\ msg'.monitor = k[1]
                 /\ chans' \subseteq ChannelsFor(msg', defaults')
      PROVE  PlainForms'
  BY <1>1 DEF PlainForms, Route
<1>2. UNCHANGED <<cancelled, digestQ, defaults, heard, pc, msg, chans>> => PlainForms'
  BY <1>1 DEF PlainForms
<1>3. UNCHANGED <<cancelled, digestQ, defaults, heard>> /\ pc' # "send" => PlainForms'
  BY <1>1
<1>4. CASE TakeInput
  <2>1. UNCHANGED <<cancelled, digestQ, defaults, heard>> /\ pc' # "send"
    BY <1>4 DEF TakeInput, Goto, AfterFire
  <2> QED BY <1>3, <2>1
<1>5. CASE TakeTick
  <2>1. UNCHANGED <<cancelled, digestQ, defaults, heard, pc, msg, chans>>
    BY <1>5 DEF TakeTick, PlainForms
  <2> QED BY <1>2, <2>1
<1>6. CASE Allow \/ Mark \/ Stop
  <2>1. UNCHANGED <<cancelled, digestQ, defaults, heard>> /\ pc' # "send"
    BY <1>6 DEF Allow, Mark, Stop, Goto, AfterFire
  <2> QED BY <1>3, <2>1
<1>7. CASE Track
  <2>1. PICK a \in Alerts : a = Head(todo)
    BY <1>7, HeadTailTodo DEF Track, TypeInv, TypeOK
  <2>2. /\ BeginSend(FiringMsg(a)) /\ UNCHANGED <<cancelled, digestQ, defaults, heard>>
    BY <1>7, <2>1 DEF Track, InDigest, Plain
  <2> QED BY <1>1, <2>2, BeginsPlain
<1>8. CASE HandleResolve \/ Diff
  <2>1. UNCHANGED <<cancelled, digestQ, defaults, heard>>
    BY <1>8 DEF HandleResolve, Diff
  <2>2. pc' # "send" \/ \E prev \in active : BeginSend(ResolvedMsg(prev))
    BY <1>8 DEF HandleResolve, Diff, Goto, Firing, Missing
  <2>3. active \subseteq Alerts
    BY DEF TypeInv, TypeOK
  <2> QED BY <1>1, <2>1, <2>2, <2>3, BeginsPlain
<1>9. CASE FinishSend
  <2>1. UNCHANGED <<cancelled, digestQ, defaults, heard>>
    BY <1>9 DEF FinishSend
  <2>2. pc' # "send" \/ \E prev \in toResolve : BeginSend(ResolvedMsg(prev))
    BY <1>9 DEF FinishSend, Goto, AfterFire
  <2>3. toResolve \subseteq Alerts
    BY DEF TypeInv, TypeOK
  <2> QED BY <1>1, <2>1, <2>2, <2>3, BeginsPlain
<1>10. ASSUME NEW c \in Channels, SendTo(c) PROVE PlainForms'
  <2>1. /\ UNCHANGED <<cancelled, digestQ, defaults, pc, msg>> /\ chans' \subseteq chans
        /\ pc = "send" /\ c \in chans
    BY <1>10 DEF SendTo
  <2>2. PICK k \in Keys : msg.keys = {k} /\ chans \cap Registered \subseteq Route(k)
    BY <2>1, SendsOnRoute
  <2>3. ASSUME NEW d \in Channels, NEW q \in Keys, heard'[d][q] # "none"
        PROVE  d \in Route(q)
    BY <1>10, <2>1, <2>2, <2>3, SendToHeard DEF PlainForms
  <2>4. \A q : Route(q)' = Route(q)
    BY <2>1 DEF Route
  <2> QED BY <2>1, <2>3, <2>4 DEF PlainForms
<1>11. CASE Environment
  <2>1. UNCHANGED <<cancelled, digestQ, defaults, heard, pc, msg, chans>>
    BY <1>11 DEF Environment, Submit, Resolve, Reconcile, Enqueue, Clock, Ticker, Cancel,
                 ResetActive, ResetDedupe, Plain
  <2> QED BY <1>2, <2>1
<1>12. CASE UNCHANGED vars
  BY <1>2, <1>12 DEF vars
<1> QED BY <1>4, <1>5, <1>6, <1>7, <1>8, <1>9, <1>10, <1>11, <1>12 DEF Next, Handle
Hears(c, k) == heard[c][k] # "none"

\* The channel heard of the key, or the first notice is on its way to it.
HearsOfSoon(c, k) ==
    \/ Hears(c, k)
    \/ pc = "track" /\ Key(Head(todo)) = k
    \/ pc = "send" /\ msg.state = "firing" /\ k \in msg.keys /\ c \in chans

(***************************************************************************)
(* The inductive form of ResolvedNotFirst: a key has an entry in the       *)
(* dedupe table, or is active, only if each of its channels heard of it or *)
(* is about to, and whatever is being resolved was heard of.               *)
(***************************************************************************)
FirstInv ==
    /\ \A k \in Keys : last[k] # Never \/ k \in KeysOf(active) =>
          \A c \in Route(k) : HearsOfSoon(c, k)
    /\ pc = "mark" => \A c \in Route(Key(Head(todo))) : Hears(c, Key(Head(todo)))
    /\ \A a \in toResolve : \A c \in Route(Key(a)) : Hears(c, Key(a))
    /\ pc = "send" /\ msg.state = "resolved" =>
          \A k \in msg.keys : \A c \in Route(k) : Hears(c, k)

\* The worker goes on without a notice: what was heard of stays heard of.
LEMMA QuietFirst ==
    ASSUME FirstInv, UNCHANGED <<heard, defaults, toResolve>>,
           pc \notin {"track", "send"}, pc' \notin {"mark", "track", "send"},
           \A k \in Keys : last'[k] # Never => last[k] # Never,
           \A k \in Keys : k \in KeysOf(active)' => k \in KeysOf(active) \/ last[k] # Never
               \/ \A c \in Route(k) : Hears(c, k)
    PROVE  FirstInv'
<1>1. \A c, k : Hears(c, k)' = Hears(c, k) /\ Route(k)' = Route(k)
  BY DEF Hears, Route
<1>2. \A c, k : HearsOfSoon(c, k) => Hears(c, k)
  BY DEF HearsOfSoon
<1>3. ASSUME NEW k \in Keys, last'[k] # Never \/ k \in KeysOf(active)', NEW c \in Route(k)'
      PROVE  HearsOfSoon(c, k)'
  <2>1. Hears(c, k)
    BY <1>1, <1>2, <1>3 DEF FirstInv
  <2> QED BY <1>1, <2>1 DEF HearsOfSoon
<1>4. \A a \in toResolve' : \A c \in Route(Key(a))' : Hears(c, Key(a))'
  BY <1>1 DEF FirstInv
<1> QED BY <1>3, <1>4 DEF FirstInv

LEMMA AllowFirst ==
    ASSUME TypeInv, WorkerInv, FirstInv, Allow
    PROVE  FirstInv'
<1>1. PICK key \in Keys : key = Key(Head(todo))
  BY HeadTailTodo DEF Allow, TypeInv, TypeOK
<1>2. /\ pc = "fire" /\ UNCHANGED <<heard, defaults, active, todo>>
      /\ toResolve = {} /\ toResolve' = {}
  BY DEF Allow, WorkerInv, SendForms
<1>3. \A c, k : Hears(c, k)' = Hears(c, k) /\ Route(k)' = Route(k)
  BY <1>2 DEF Hears, Route
<1>4. ASSUME NEW k \in Keys, last[k] # Never \/ k \in KeysOf(active), NEW c \in Route(k)
      PROVE  Hears(c, k)
  BY <1>2, <1>4 DEF FirstInv, HearsOfSoon
<1>5. KeysOf(active)' = KeysOf(active)
  BY <1>2 DEF KeysOf
<1>6. CASE Allowed(last, key, now)
  <2>1. last' = [last EXCEPT ![key] = now] /\ pc' = "track" /\ last \in [Keys -> Times]
    BY <1>1, <1>6 DEF Allow, Admitted, TypeInv, TypeOK
  <2>2. ASSUME NEW k \in Keys, last'[k] # Never \/ k \in KeysOf(active)', NEW c \in Route(k)'
        PROVE  HearsOfSoon(c, k)'
    <3>1. CASE k = key
      BY <1>1, <1>2, <2>1, <3>1 DEF HearsOfSoon
    <3>2. CASE k # key
      <4>1. Hears(c, k)
        BY <1>3, <1>4, <1>5, <2>1, <2>2, <3>2
      <4> QED BY <1>3, <4>1 DEF HearsOfSoon
    <3> QED BY <3>1, <3>2
  <2> QED BY <1>2, <2>1, <2>2 DEF FirstInv
<1>7. CASE ~Allowed(last, key, now)
  <2>1. last' = last /\ pc' = "mark" /\ last[key] # Never
    BY <1>1, <1>7 DEF Allow, Allowed
  <2>2. ASSUME NEW k \in Keys, last'[k] # Never \/ k \in KeysOf(active)', NEW c \in Route(k)'
        PROVE  HearsOfSoon(c, k)'
    <3>1. Hears(c, k)
      BY <1>3, <1>4, <1>5, <2>1, <2>2
    <3> QED BY <1>3, <3>1 DEF HearsOfSoon
  <2>3. \A c \in Route(key)' : Hears(c, key)'
    BY <1>1, <1>3, <1>4, <2>1
  <2> QED BY <1>1, <1>2, <2>1, <2>2, <2>3 DEF FirstInv
<1> QED BY <1>6, <1>7

LEMMA MarkFirst == ASSUME TypeInv, WorkerInv, FirstInv, Mark PROVE FirstInv'
<1>1. /\ pc = "mark" /\ pc' \notin {"mark", "track", "send"}
      /\ active' = Tracked(Head(todo)) /\ UNCHANGED <<heard, defaults, toResolve, last>>
  BY DEF Mark, Goto, AfterFire
<1>2. \A k : k \in KeysOf(active)' => k \in KeysOf(active) \/ k = Key(Head(todo))
  BY <1>1, TrackedWithin DEF KeysOf
<1>3. \A c \in Route(Key(Head(todo))) : Hears(c, Key(Head(todo)))
  BY <1>1 DEF FirstInv
<1> QED BY <1>1, <1>2, <1>3, QuietFirst

\* The notice for an alert that becomes active begins in the same step.
LEMMA TrackFirst ==
    ASSUME Plain, TypeInv, WorkerInv, FirstInv, Track
    PROVE  FirstInv'
<1>1. PICK a \in Alerts : a = Head(todo)
  BY HeadTailTodo DEF Track, TypeInv, TypeOK
<1>2. /\ pc = "track" /\ active' = Tracked(a) /\ UNCHANGED <<heard, defaults, last>>
      /\ toResolve' = {} /\ BeginSend(FiringMsg(a)) /\ pc' = "send"
  BY <1>1 DEF Track, InDigest, Plain, Goto, WorkerInv, SendForms
<1>3. msg'.keys = {Key(a)} /\ Route(Key(a))' \subseteq chans' /\ msg'.state = "firing"
  BY <1>2, BeginsPlain DEF BeginSend, FiringMsg
<1>4. \A c, k : Hears(c, k)' = Hears(c, k) /\ Route(k)' = Route(k)
  BY <1>2 DEF Hears, Route
<1>5. \A k : k \in KeysOf(active)' => k \in KeysOf(active) \/ k = Key(a)
  BY <1>2, TrackedWithin DEF KeysOf
<1>6. ASSUME NEW k \in Keys, last'[k] # Never \/ k \in KeysOf(active)', NEW c \in Route(k)'
      PROVE  HearsOfSoon(c, k)'
  <2>1. CASE k = Key(a)
    BY <1>2, <1>3, <1>6, <2>1 DEF HearsOfSoon
  <2>2. CASE k # Key(a)
    <3>1. HearsOfSoon(c, k)
      BY <1>2, <1>4, <1>5, <1>6, <2>2 DEF FirstInv
    <3>2. Hears(c, k)
      BY <1>1, <1>2, <2>2, <3>1 DEF HearsOfSoon
    <3> QED BY <1>4, <3>2 DEF HearsOfSoon
  <2> QED BY <2>1, <2>2
<1> QED BY <1>2, <1>3, <1>6 DEF FirstInv

\* What is resolved was active, hence heard of.
LEMMA ResolveFirst ==
    ASSUME TypeInv, WorkerInv, FirstInv, HandleResolve \/ Diff
    PROVE  FirstInv'
<1>1. /\ pc \in {"resolve", "diff"} /\ UNCHANGED <<heard, defaults, last>>
      /\ active' \subseteq active /\ toResolve = {} /\ active \subseteq Alerts
  BY DEF HandleResolve, Diff, WorkerInv, SendForms, TypeInv, TypeOK
<1>2. \A c, k : Hears(c, k)' = Hears(c, k) /\ Route(k)' = Route(k)
  BY <1>1 DEF Hears, Route
<1>3. ASSUME NEW k \in Keys, last[k] # Never \/ k \in KeysOf(active), NEW c \in Route(k)
      PROVE  Hears(c, k)
  BY <1>1, <1>3 DEF FirstInv, HearsOfSoon
<1>4. \A a \in active : Key(a) \in Keys /\ Key(a) \in KeysOf(active)
  BY <1>1, KeyType DEF KeysOf
<1>5. ASSUME NEW k \in Keys, last'[k] # Never \/ k \in KeysOf(active)', NEW c \in Route(k)'
      PROVE  HearsOfSoon(c, k)'
  <2>1. k \in KeysOf(active)' => k \in KeysOf(active)
    BY <1>1 DEF KeysOf
  <2>2. Hears(c, k)
    BY <1>1, <1>2, <1>3, <1>5, <2>1
  <2> QED BY <1>2, <2>2 DEF HearsOfSoon
<1>6. toResolve' \subseteq active
  BY <1>1 DEF HandleResolve, Diff, Left, Missing
<1>7. pc' = "idle" \/ (pc' = "send" /\ \E prev \in active : BeginSend(ResolvedMsg(prev)))
  BY DEF HandleResolve, Diff, Goto, Firing, Missing
<1>8. pc' = "send" => \A k \in msg'.keys : k \in Keys /\ k \in KeysOf(active)
  BY <1>4, <1>7, BeginResolved
<1> QED BY <1>2, <1>3, <1>4, <1>5, <1>6, <1>7, <1>8 DEF FirstInv

LEMMA FinishSendFirst ==
    ASSUME TypeInv, WorkerInv, FirstInv, FinishSend
    PROVE  FirstInv'
<1>1. /\ pc = "send" /\ chans = {} /\ UNCHANGED <<heard, defaults, last, active>>
      /\ pc' \notin {"mark", "track"} /\ toResolve' \subseteq toResolve
      /\ toResolve \subseteq Alerts
  BY DEF FinishSend, Goto, AfterFire, TypeInv, TypeOK
<1>2. \A c, k : Hears(c, k)' = Hears(c, k) /\ Route(k)' = Route(k)
  BY <1>1 DEF Hears, Route
<1>3. \A c, k : HearsOfSoon(c, k) => Hears(c, k)
  BY <1>1 DEF HearsOfSoon
<1>4. KeysOf(active)' = KeysOf(active)
  BY <1>1 DEF KeysOf
<1>5. ASSUME NEW k \in Keys, last'[k] # Never \/ k \in KeysOf(active)', NEW c \in Route(k)'
      PROVE  HearsOfSoon(c, k)'
  <2>1. Hears(c, k)
    BY <1>1, <1>2, <1>3, <1>4, <1>5 DEF FirstInv
  <2> QED BY <1>2, <2>1 DEF HearsOfSoon
<1>6. pc' # "send" \/ \E prev \in toResolve : BeginSend(ResolvedMsg(prev))
  BY DEF FinishSend, Goto, AfterFire
<1>7. pc' = "send" => \A k \in msg'.keys : \E prev \in toResolve : k = Key(prev)
  BY <1>6, BeginResolved
<1> QED BY <1>1, <1>2, <1>5, <1>7 DEF FirstInv

LEMMA SendToFirst ==
    ASSUME Plain, TypeInv, WorkerInv, PlainForms, FirstInv, NEW c \in Channels, SendTo(c)
    PROVE  FirstInv'
<1>1. /\ pc = "send" /\ chans' = chans \ {c} /\ msg.state # "none"
      /\ UNCHANGED <<defaults, last, active, pc, todo, toResolve, msg>>
      /\ msg.keys \subseteq Keys /\ toResolve \subseteq Alerts
  BY DEF SendTo, TypeInv, TypeOK, Messages, WorkerInv, SendForms
<1>2. \A q : Route(q)' = Route(q) /\ Route(q) \subseteq Registered
  BY <1>1 DEF Route
<1>3. Registered \subseteq Channels
  BY EngineAssumption
<1>4. \A d \in Channels, k \in Keys :
         heard'[d][k] = IF d = c /\ c \in Registered /\ k \in msg.keys
                          THEN msg.state ELSE heard[d][k]
  BY SendToHeard
<1>5. ASSUME NEW d \in Channels, NEW k \in Keys, Hears(d, k) PROVE Hears(d, k)'
  BY <1>1, <1>4, <1>5 DEF Hears
<1>6. ASSUME NEW k \in Keys, last'[k] # Never \/ k \in KeysOf(active)', NEW d \in Route(k)'
      PROVE  HearsOfSoon(d, k)'
  <2>1. d \in Channels /\ d \in Registered /\ KeysOf(active)' = KeysOf(active)
    BY <1>1, <1>2, <1>3, <1>6 DEF KeysOf
  <2>2. HearsOfSoon(d, k)
    BY <1>1, <1>2, <1>6, <2>1 DEF FirstInv
  <2>3. CASE Hears(d, k)
    BY <1>5, <2>1, <2>3 DEF HearsOfSoon
  <2>4. CASE msg.state = "firing" /\ k \in msg.keys /\ d \in chans /\ d = c
    BY <1>1, <1>4, <2>1, <2>4 DEF HearsOfSoon, Hears
  <2>5. CASE msg.state = "firing" /\ k \in msg.keys /\ d \in chans /\ d # c
    BY <1>1, <2>5 DEF HearsOfSoon
  <2> QED BY <1>1, <2>2, <2>3, <2>4, <2>5 DEF HearsOfSoon
<1>7. ASSUME NEW a \in toResolve', NEW d \in Route(Key(a))' PROVE Hears(d, Key(a))'
  <2>1. Key(a) \in Keys /\ d \in Channels
    BY <1>1, <1>2, <1>3, <1>7, KeyType
  <2> QED BY <1>1, <1>2, <1>5, <1>7, <2>1 DEF FirstInv
<1>8. ASSUME msg'.state = "resolved", NEW k \in msg'.keys, NEW d \in Route(k)'
      PROVE  Hears(d, k)'
  <2>1. k \in Keys /\ d \in Channels
    BY <1>1, <1>2, <1>3, <1>8
  <2> QED BY <1>1, <1>2, <1>5, <1>8, <2>1 DEF FirstInv
<1> QED BY <1>1, <1>6, <1>7, <1>8 DEF FirstInv

LEMMA EnvironmentFirst ==
    ASSUME TypeInv, FirstInv, Environment
    PROVE  FirstInv'
<1>1. /\ UNCHANGED <<heard, defaults, pc, todo, toResolve, msg, chans>>
      /\ active' \subseteq active
      /\ last' = last \/ last' = Forgotten(Keys)
  BY DEF Environment, Submit, Resolve, Reconcile, Enqueue, Clock, Ticker, Cancel,
         ResetActive, ResetDedupe
<1>2. \A c, k : /\ Hears(c, k)' = Hears(c, k) /\ Route(k)' = Route(k)
                /\ HearsOfSoon(c, k)' = HearsOfSoon(c, k)
  BY <1>1 DEF Hears, Route, HearsOfSoon
<1>3. \A k \in Keys : last'[k] # Never \/ k \in KeysOf(active)' =>
                         last[k] # Never \/ k \in KeysOf(active)
  BY <1>1 DEF KeysOf, Forgotten
<1> QED BY <1>1, <1>2, <1>3 DEF FirstInv

LEMMA NextFirst ==
    ASSUME Plain, TypeInv, WorkerInv, PlainForms, FirstInv, [Next]_vars
    PROVE  FirstInv'
<1>1. CASE TakeInput \/ TakeTick \/ Stop
  <2>1. /\ pc = "idle" /\ UNCHANGED <<heard, defaults, toResolve, last, active>>
        /\ pc' \notin {"mark", "track", "send"}
    BY <1>1 DEF TakeInput, TakeTick, Stop, Goto, AfterFire, PlainForms
  <2>2. KeysOf(active)' = KeysOf(active)
    BY <2>1 DEF KeysOf
  <2> QED BY <2>1, <2>2, QuietFirst
<1>2. CASE UNCHANGED vars
  <2>1. UNCHANGED <<heard, defaults, pc, todo, toResolve, msg, chans, active, last>>
    BY <1>2 DEF vars
  <2> QED BY <2>1 DEF FirstInv, Route, Hears, HearsOfSoon, KeysOf
<1> QED BY <1>1, <1>2, AllowFirst, MarkFirst, TrackFirst, ResolveFirst, FinishSendFirst,
       SendToFirst, EnvironmentFirst DEF Next, Handle

LEMMA InitPlain == ASSUME Plain, Init PROVE PlainForms /\ FirstInv
<1>1. /\ ~cancelled /\ digestQ = <<>> /\ pc = "idle" /\ toResolve = {} /\ active = {}
      /\ \A c \in Channels, k \in Keys : heard[c][k] = "none"
      /\ \A k \in Keys : last[k] = Never
  BY DEF Init, Forgotten
<1> QED BY <1>1 DEF PlainForms, FirstInv, KeysOf

LEMMA AlwaysPlain == ASSUME Plain PROVE Spec => [](PlainForms /\ FirstInv)
<1>1. TypeInv /\ WorkerInv /\ (PlainForms /\ FirstInv) /\ [Next]_vars
        => (PlainForms /\ FirstInv)'
  BY NextPlainForms, NextFirst
<1>2. Init => PlainForms /\ FirstInv
  BY InitPlain
<1> QED BY <1>1, <1>2, AlwaysTypeInv, AlwaysWorkerInv, PTL DEF Spec

\* Without failures, digests and rules on the severity no channel is told that
\* a condition resolved before it was told that it fires, whatever was
\* suppressed in between and whenever the engine is reset (handleFire against
\* handleResolve, handleReconcile and Engine.Reset).
THEOREM FiringIsFirst == ASSUME Plain PROVE Spec => ResolvedNotFirst
<1>1. ASSUME TypeInv, PlainForms, FirstInv, [Next]_vars,
             NEW c \in Channels, NEW k \in Keys, heard'[c][k] = "resolved"
      PROVE  heard[c][k] # "none"
  <2>1. CASE UNCHANGED heard
    BY <1>1, <2>1
  <2>2. CASE \E d \in Channels : SendTo(d)
    <3>1. PICK d \in Channels : SendTo(d)
      BY <2>2
    <3>2. pc = "send" /\ d \in chans
      BY <3>1 DEF SendTo
    <3>3. PICK q \in Keys : msg.keys = {q} /\ chans \cap Registered \subseteq Route(q)
      BY <1>1, <3>2, SendsOnRoute
    <3>4. heard'[c][k] = IF c = d /\ d \in Registered /\ k \in msg.keys
                           THEN msg.state ELSE heard[c][k]
      BY <1>1, <3>1, SendToHeard
    <3> QED BY <1>1, <3>2, <3>3, <3>4 DEF FirstInv, Hears
  <2>3. UNCHANGED heard \/ \E d \in Channels : SendTo(d)
    BY <1>1 DEF vars, Next, TakeInput, TakeTick, Handle, Allow, Mark, Track, HandleResolve,
                Diff, FinishSend, Stop, Environment, Submit, Resolve, Reconcile, Enqueue,
                Clock, Ticker, Cancel, ResetActive, ResetDedupe
  <2> QED BY <2>1, <2>2, <2>3
<1>2. TypeInv /\ PlainForms /\ FirstInv /\ [Next]_vars
        => [\A c \in Channels, k \in Keys :
              heard'[c][k] = "resolved" => heard[c][k] # "none"]_vars
  BY <1>1
<1> QED BY <1>2, AlwaysPlain, AlwaysTypeInv, PTL DEF Spec, ResolvedNotFirst

-----------------------------------------------------------------------------
(***************************************************************************)
(* The inductive form of ClearedIsTold: a channel that heard last that a   *)
(* key fires has its end coming, because the key is still active, waits to *)
(* be resolved, or is being resolved and the channel was not tried yet.    *)
(***************************************************************************)
EndsSoon(c, k) ==
    \/ k \in KeysOf(active) \/ k \in KeysOf(toResolve)
    \/ pc = "send" /\ msg.state = "resolved" /\ k \in msg.keys /\ c \in chans

EndInv ==
    NeverReset /\ ResolutionEnabled =>
        /\ pc = "send" /\ msg.state = "firing" => msg.keys \subseteq KeysOf(active)
        /\ \A c \in Channels, k \in Keys : heard[c][k] = "firing" => EndsSoon(c, k)

\* A step that sends nothing and takes nothing out of the active set.
LEMMA OtherEnd ==
    ASSUME EndInv, NeverReset' => NeverReset, UNCHANGED heard,
           ResolutionEnabled => KeysOf(active) \subseteq KeysOf(active)',
           toResolve' = toResolve, pc # "send",
           ResolutionEnabled /\ pc' = "send" /\ msg'.state = "firing" =>
               msg'.keys \subseteq KeysOf(active)'
    PROVE  EndInv'
<1>1. KeysOf(toResolve)' = KeysOf(toResolve)
  BY DEF KeysOf
<1> QED BY <1>1 DEF EndInv, EndsSoon

LEMMA ResolveEnd ==
    ASSUME Plain, TypeInv, WorkerInv, PlainForms, EndInv, NeverReset' => NeverReset,
           HandleResolve \/ Diff
    PROVE  EndInv'
<1> SUFFICES ASSUME NeverReset, ResolutionEnabled
             PROVE  (/\ pc = "send" /\ msg.state = "firing" => msg.keys \subseteq KeysOf(active)
                     /\ \A c \in Channels, k \in Keys :
                           heard[c][k] = "firing" => EndsSoon(c, k))'
  BY DEF EndInv
<1>1. /\ pc \in {"resolve", "diff"} /\ UNCHANGED <<heard, defaults>> /\ toResolve = {}
      /\ active \subseteq Alerts
  BY DEF HandleResolve, Diff, WorkerInv, SendForms, TypeInv, TypeOK
<1>2. \A c \in Channels, k \in Keys : heard[c][k] = "firing" => k \in KeysOf(active)
  BY <1>1 DEF EndInv, EndsSoon, KeysOf
<1>3. CASE active' = active /\ pc' = "idle"
  BY <1>1, <1>2, <1>3 DEF EndsSoon, KeysOf
<1>4. CASE ~(active' = active /\ pc' = "idle")
  <2>1. PICK prev \in active :
          /\ BeginSend(ResolvedMsg(prev)) /\ pc' = "send"
          /\ \A b \in active : b \in active' \/ Key(b) = Key(prev) \/ b \in toResolve'
    <3>1. CASE HandleResolve
      <4>1. PICK prev \in Firing(Head(todo)) :
              BeginSend(ResolvedMsg(prev)) /\ active' = active \ Firing(Head(todo)) /\ pc' = "send"
        BY <1>4, <3>1 DEF HandleResolve, Goto
      <4> QED BY <4>1 DEF Firing
    <3>2. CASE Diff
      <4>1. Missing(job) # {}
        BY <1>4, <3>2 DEF Diff, Goto
      <4>2. PICK prev \in Missing(job) :
              /\ BeginSend(ResolvedMsg(prev)) /\ active' = active \ Missing(job) /\ pc' = "send"
              /\ toResolve' = Missing(job) \ {prev}
        BY <3>2, <4>1 DEF Diff, Goto, Left
      <4> QED BY <4>2 DEF Missing
    <3> QED BY <3>1, <3>2
  <2>2. msg'.state = "resolved" /\ msg'.keys = {Key(prev)} /\ Route(Key(prev))' \subseteq chans'
    BY <1>1, <2>1, BeginsPlain, BeginResolved
  <2>3. ASSUME NEW c \in Channels, NEW k \in Keys, heard'[c][k] = "firing"
        PROVE  EndsSoon(c, k)'
    <3>1. PICK b \in active : k = Key(b)
      BY <1>1, <1>2, <2>3 DEF KeysOf
    <3>2. CASE b \in active' \/ b \in toResolve'
      BY <3>1, <3>2 DEF EndsSoon, KeysOf
    <3>3. CASE Key(b) = Key(prev)
      <4>1. c \in Route(k)'
        BY <1>1, <2>3 DEF PlainForms, Route
      <4> QED BY <2>1, <2>2, <3>1, <3>3, <4>1 DEF EndsSoon
    <3> QED BY <2>1, <3>2, <3>3
  <2> QED BY <2>2, <2>3
<1> QED BY <1>3, <1>4

LEMMA FinishSendEnd ==
    ASSUME Plain, TypeInv, WorkerInv, PlainForms, EndInv, NeverReset' => NeverReset,
           FinishSend
    PROVE  EndInv'
<1> SUFFICES ASSUME NeverReset, ResolutionEnabled
             PROVE  (/\ pc = "send" /\ msg.state = "firing" => msg.keys \subseteq KeysOf(active)
                     /\ \A c \in Channels, k \in Keys :
                           heard[c][k] = "firing" => EndsSoon(c, k))'
  BY DEF EndInv
<1>1. /\ chans = {} /\ UNCHANGED <<heard, defaults, active>>
      /\ toResolve \subseteq Alerts /\ KeysOf(active)' = KeysOf(active)
  BY DEF FinishSend, TypeInv, TypeOK, KeysOf
<1>2. \A c \in Channels, k \in Keys : heard[c][k] = "firing" =>
        k \in KeysOf(active) \/ k \in KeysOf(toResolve)
  BY <1>1 DEF EndInv, EndsSoon
<1>3. CASE toResolve = {}
  <2>1. pc' # "send"
    BY <1>3 DEF FinishSend, Goto, AfterFire
  <2> QED BY <1>1, <1>2, <1>3, <2>1 DEF EndsSoon, KeysOf
<1>4. CASE toResolve # {}
  <2>1. PICK prev \in toResolve :
          BeginSend(ResolvedMsg(prev)) /\ toResolve' = toResolve \ {prev} /\ pc' = "send"
    BY <1>4 DEF FinishSend
  <2>2. msg'.state = "resolved" /\ msg'.keys = {Key(prev)} /\ Route(Key(prev))' \subseteq chans'
    BY <1>1, <2>1, BeginsPlain, BeginResolved
  <2>3. ASSUME NEW c \in Channels, NEW k \in Keys, heard'[c][k] = "firing"
        PROVE  EndsSoon(c, k)'
    <3>1. CASE k \in KeysOf(active)
      BY <1>1, <3>1 DEF EndsSoon
    <3>2. CASE k = Key(prev)
      <4>1. c \in Route(k)'
        BY <1>1, <2>3 DEF PlainForms, Route
      <4> QED BY <2>1, <2>2, <3>2, <4>1 DEF EndsSoon
    <3>3. CASE k \in KeysOf(toResolve) /\ k # Key(prev)
      BY <2>1, <3>3 DEF EndsSoon, KeysOf
    <3> QED BY <1>1, <1>2, <2>3, <3>1, <3>2, <3>3
  <2> QED BY <2>2, <2>3
<1> QED BY <1>3, <1>4

LEMMA SendToEnd ==
    ASSUME Plain, TypeInv, WorkerInv, PlainForms, EndInv, NEW c \in Channels, SendTo(c)
    PROVE  EndInv'
<1>1. /\ pc = "send" /\ chans' = chans \ {c}
      /\ UNCHANGED <<active, pc, toResolve, msg, resets, resetPc>>
      /\ msg.state \in {"firing", "resolved"}
  BY DEF SendTo, WorkerInv, SendForms
<1>2. KeysOf(active)' = KeysOf(active) /\ KeysOf(toResolve)' = KeysOf(toResolve)
  BY <1>1 DEF KeysOf
<1>3. ASSUME NeverReset, ResolutionEnabled, NEW d \in Channels, NEW k \in Keys,
             heard'[d][k] = "firing"
      PROVE  EndsSoon(d, k)'
  <2>1. heard'[d][k] = IF d = c /\ c \in Registered /\ k \in msg.keys
                         THEN msg.state ELSE heard[d][k]
    BY SendToHeard
  <2>2. CASE d = c /\ c \in Registered /\ k \in msg.keys
    BY <1>1, <1>2, <1>3, <2>1, <2>2 DEF EndInv, EndsSoon
  <2>3. CASE ~(d = c /\ c \in Registered /\ k \in msg.keys)
    <3>1. EndsSoon(d, k) /\ d \in Registered
      BY <1>3, <2>1, <2>3 DEF EndInv, PlainForms, Route
    <3> QED BY <1>1, <1>2, <2>3, <3>1 DEF EndsSoon
  <2> QED BY <2>2, <2>3
<1> QED BY <1>1, <1>2, <1>3 DEF EndInv, NeverReset

LEMMA NextEnd ==
    ASSUME Plain, TypeInv, WorkerInv, PlainForms, EndInv, [Next]_vars
    PROVE  EndInv'
<1>1. NeverReset' => NeverReset
  BY ResetStays
<1>2. CASE TakeInput \/ TakeTick \/ Allow \/ Stop
  <2>1. /\ pc # "send" /\ pc' # "send" /\ UNCHANGED <<heard, active, toResolve>>
    BY <1>2 DEF TakeInput, TakeTick, Allow, Stop, Goto, AfterFire, PlainForms
  <2>2. KeysOf(active)' = KeysOf(active)
    BY <2>1 DEF KeysOf
  <2> QED BY <1>1, <2>1, <2>2, OtherEnd
<1>3. CASE Mark
  <2>1. /\ pc # "send" /\ pc' # "send" /\ UNCHANGED <<heard, toResolve>>
        /\ active' = Tracked(Head(todo))
    BY <1>3 DEF Mark, Goto, AfterFire
  <2>2. ResolutionEnabled => KeysOf(active) \subseteq KeysOf(active)'
    BY <2>1, TrackedKeys DEF KeysOf
  <2> QED BY <1>1, <2>1, <2>2, OtherEnd
<1>4. CASE Track
  <2>1. /\ pc # "send" /\ UNCHANGED <<heard, toResolve>>
        /\ active' = Tracked(Head(todo)) /\ BeginSend(FiringMsg(Head(todo)))
    BY <1>4 DEF Track, InDigest, Plain
  <2>2. ResolutionEnabled => KeysOf(active)' = KeysOf(active) \cup {Key(Head(todo))}
    BY <2>1, TrackedKeys DEF KeysOf
  <2>3. msg'.keys = {Key(Head(todo))}
    BY <2>1 DEF BeginSend, FiringMsg
  <2> QED BY <1>1, <2>1, <2>2, <2>3, OtherEnd
<1>5. CASE Environment
  <2>1. CASE ResetActive
    BY <2>1 DEF ResetActive, NeverReset, EndInv
  <2>2. CASE ~ResetActive
    <3>1. UNCHANGED <<heard, active, toResolve, pc, msg, chans>>
      BY <1>5, <2>2 DEF Environment, Submit, Resolve, Reconcile, Enqueue, Clock, Ticker,
                        Cancel, ResetDedupe
    <3> QED BY <1>1, <3>1 DEF EndInv, EndsSoon, KeysOf
  <2> QED BY <2>1, <2>2
<1>6. CASE UNCHANGED vars
  <2>1. UNCHANGED <<heard, active, toResolve, pc, msg, chans>>
    BY <1>6 DEF vars
  <2> QED BY <1>1, <2>1 DEF EndInv, EndsSoon, KeysOf
<1> QED BY <1>1, <1>2, <1>3, <1>4, <1>5, <1>6, ResolveEnd, FinishSendEnd, SendToEnd
       DEF Next, Handle

\* Without failures, digests and rules on the severity no channel is left with
\* a firing notice as its last word once the condition cleared and the queue
\* drained, unless a reset forgot the alert (handleResolve, handleReconcile).
THEOREM EndIsTold == ASSUME Plain PROVE Spec => []ClearedIsTold
<1>1. Init => EndInv
  BY DEF Init, EndInv, EndsSoon
<1>2. TypeInv /\ WorkerInv /\ PlainForms /\ EndInv /\ [Next]_vars => EndInv'
  BY NextEnd
<1>3. WorkerInv /\ EndInv /\ ActiveConverges => ClearedIsTold
  <2> SUFFICES ASSUME WorkerInv, EndInv, ActiveConverges, Quiet, NeverReset, ResolutionEnabled,
                      NEW c \in Channels, NEW k \in Keys, latest[k] = "clear"
               PROVE  heard[c][k] # "firing"
    BY DEF ClearedIsTold
  <2>1. pc = "idle" /\ toResolve = {}
    BY DEF Quiet, WorkerInv, SendForms
  <2>2. k \notin KeysOf(active)
    BY DEF ActiveConverges
  <2> QED BY <2>1, <2>2 DEF EndInv, EndsSoon, KeysOf
<1> QED BY <1>1, <1>2, <1>3, AlwaysPlain, AlwaysTypeInv, AlwaysWorkerInv, ActiveIsLatest, PTL
       DEF Spec
=============================================================================
