---------------------------- MODULE EngineProofs ----------------------------
(***************************************************************************)
(* Theorems about Engine, for every value of its constants: it keeps its   *)
(* types, no key is let through more often than the window allows, what    *)
(* is active was admitted, and the statistics add up.                      *)
(***************************************************************************)
EXTENDS Engine, SequenceTheorems, FiniteSetTheorems, WellFoundedInduction, TLAPS

\* The names for groups of variables stand for their tuples everywhere below.
USE DEF worker, sending, dedupe, queues, engine, env

\* A resolve call that waits in the channel carries its alert.
ResolvesCarryAlert == \A n \in DOMAIN in : in[n].kind = "resolve" => in[n].firing # <<>>

TypeInv == TypeOK /\ ResolvesCarryAlert

-----------------------------------------------------------------------------
(* What the operators return.                                              *)

\* The inputs the environment and the worker build are inputs.
LEMMA InputTypes ==
    /\ \A a \in Alerts : FireInput(a) \in Inputs /\ ResolveInput(a) \in Inputs
    /\ FlushJob \in Inputs /\ NoJob \in Inputs
<1>1. ASSUME NEW a \in Alerts PROVE <<a>> \in Seq(Alerts) /\ a.monitor \in MonitorNames
  BY DEF Alerts, MonitorNames
<1>2. <<>> \in Seq(Alerts) /\ Digest \in MonitorNames
  BY DEF MonitorNames
<1> QED BY <1>1, <1>2 DEF FireInput, ResolveInput, FlushJob, NoJob, Inputs

LEMMA KeyType == \A a \in Alerts : Key(a) \in Keys
BY DEF Alerts, Key, Keys

\* The messages the handlers build are messages, whatever they are built from.
LEMMA MessageTypes ==
    /\ NoMsg \in Messages
    /\ \A a \in Alerts : FiringMsg(a) \in Messages /\ ResolvedMsg(a) \in Messages
    /\ \A B \in SUBSET Alerts : DigestMsg(B) \in Messages
<1>1. Digest \in MonitorNames /\ "info" \in Severities
  BY DEF MonitorNames, Severities
<1>2. \A a \in Alerts : a.monitor \in MonitorNames /\ a.severity \in Severities
  BY DEF Alerts, MonitorNames
<1>3. \A B \in SUBSET Alerts : KeysOf(B) \subseteq Keys
  BY KeyType DEF KeysOf
<1> QED BY <1>1, <1>2, <1>3, KeyType DEF NoMsg, FiringMsg, ResolvedMsg, DigestMsg, Messages

\* If any rule matches there is a first one, and that one's channels are used,
\* whatever stands behind it (Router.Channels).
LEMMA FirstRuleRoutes ==
    ASSUME NEW m, Matching(m) # {}
    PROVE  \E i \in Matching(m) :
              /\ \A j \in Matching(m) : i <= j
              /\ Routed(m) = Rules[i].channels
<1>1. Matching(m) \subseteq Nat
  BY EngineAssumption DEF Matching
<1>2. IsWellFoundedOn(OpToRel(<, Nat), Nat)
  BY NatLessThanWellFounded, Zenon
<1>3. PICK i \in Matching(m) : \A j \in Matching(m) : <<j, i>> \notin OpToRel(<, Nat)
  BY <1>1, <1>2, WFMin, Zenon
<1>4. \A j \in Matching(m) : ~ (j < i)
  BY <1>1, <1>3, Zenon DEF OpToRel
<1>5. \A j \in Matching(m) : i <= j
  BY <1>1, <1>4
<1>6. \A n \in Matching(m) : (\A j \in Matching(m) : n <= j) => n = i
  BY <1>1, <1>5
<1>7. i = CHOOSE n \in Matching(m) : \A j \in Matching(m) : n <= j
  BY <1>5, <1>6
<1> QED BY <1>5, <1>7 DEF Routed

LEMMA RouteType ==
    ASSUME NEW d \in SUBSET Channels
    PROVE  \A m \in Messages : ChannelsFor(m, d) \subseteq Channels
<1> SUFFICES ASSUME NEW m \in Messages PROVE ChannelsFor(m, d) \subseteq Channels
  OBVIOUS
<1>1. CASE Matching(m) = {}
  BY <1>1 DEF ChannelsFor
<1>2. CASE Matching(m) # {}
  <2>1. PICK i \in Matching(m) : Routed(m) = Rules[i].channels
    BY <1>2, FirstRuleRoutes
  <2> QED BY <1>2, <2>1, EngineAssumption DEF ChannelsFor, Matching
<1> QED BY <1>1, <1>2

LEMMA DefaultsType ==
    \A d \in DefaultChannels(Registered, Preferred) : d \subseteq Channels
BY EngineAssumption DEF DefaultChannels

\* Dropping the oldest entries leaves a sequence of messages.
LEMMA TrimType == ASSUME NEW t \in Seq(Messages) PROVE Trim(t) \in Seq(Messages)
<1>1. Len(t) \in Nat /\ Capacity \in Nat \ {0}
  BY CapacityAssumption
<1>2. CASE Len(t) > Capacity
  <2>1. \A i \in 1..Len(t) : t[i] \in Messages
    BY ElementOfSeq
  <2>2. (Len(t) - Capacity + 1)..Len(t) \subseteq 1..Len(t)
    BY <1>1, <1>2
  <2>3. SubSeq(t, Len(t) - Capacity + 1, Len(t)) \in Seq(Messages)
    BY <1>1, <1>2, <2>1, <2>2, SubSeqProperties
  <2> QED BY <1>2, <2>3 DEF Trim
<1>3. CASE ~(Len(t) > Capacity)
  BY <1>3 DEF Trim
<1> QED BY <1>2, <1>3

\* record keeps the type of the statistics.
LEMMA RecordType ==
    ASSUME NEW s \in StatsRecords, NEW m \in Messages
    PROVE  Record(s, m) \in StatsRecords
<1>1. m.monitor \in MonitorNames
  BY DEF Messages
<1>2. /\ s.fires \in [MonitorNames -> Nat] /\ s.resolves \in [MonitorNames -> Nat]
      /\ s.lastEvent \in [MonitorNames -> Events] /\ s.recent \in Seq(Messages)
  BY DEF StatsRecords
<1>3. Append(s.recent, m) \in Seq(Messages)
  BY <1>2
<1>4. Trim(Append(s.recent, m)) \in Seq(Messages)
  BY <1>3, TrimType
<1> QED BY <1>1, <1>2, <1>4 DEF Record, StatsRecords, Events

-----------------------------------------------------------------------------
(* Type correctness, one lemma for each group of steps.                    *)

LEMMA InitTypeInv == Init => TypeInv
<1> SUFFICES ASSUME Init PROVE TypeInv
  OBVIOUS
<1>1. stats \in StatsRecords
  <2>1. <<>> \in Seq(Messages)
    OBVIOUS
  <2> QED BY <2>1 DEF Init, NewStats, StatsRecords, Events
<1>2. last \in [Keys -> Times] /\ admitted \in [Keys -> Nat]
  BY DEF Init, Forgotten, Times, Never
<1>3. /\ heard \in [Channels -> [Keys -> {"none", "firing", "resolved"}]]
      /\ latest \in [Keys -> {"unknown", "firing", "clear"}]
  BY DEF Init
<1>4. job \in Inputs /\ msg \in Messages
  BY InputTypes, MessageTypes DEF Init
<1>5. digestQ \in Seq(Alerts) /\ in \in Seq(Inputs) /\ todo \in Seq(Alerts)
  BY DEF Init
<1>6. pc = "idle" /\ resetPc = "idle" /\ now = 0 /\ calls = 0 /\ resets = 0
  BY DEF Init
<1>7. tick \in BOOLEAN /\ cancelled \in BOOLEAN
  BY DEF Init
<1>8. active \subseteq Alerts /\ toResolve \subseteq Alerts /\ chans \subseteq Channels
  BY DEF Init
<1>9. defaults \subseteq Channels
  BY DefaultsType DEF Init
<1>10. TypeOK
  BY <1>1, <1>2, <1>3, <1>4, <1>5, <1>6, <1>7, <1>8, <1>9 DEF TypeOK
<1> QED BY <1>10 DEF Init, TypeInv, ResolvesCarryAlert

\* A call of a monitor only touches the channel and the history.
LEMMA EnqueueTypeInv ==
    ASSUME TypeInv, NEW i \in Inputs, i.kind = "resolve" => i.firing # <<>>, Enqueue(i)
    PROVE  TypeInv'
<1>1. \A k \in Keys : Says(i, k) \in {"firing", "clear", "nothing"}
  BY DEF Says
<1>2. /\ in' \in Seq(Inputs) /\ ResolvesCarryAlert'
  <2>1. CASE Len(in) < QueueSize
    <3>1. in' = Append(in, i) /\ in \in Seq(Inputs)
      BY <2>1 DEF Enqueue, TypeInv, TypeOK
    <3>2. /\ in' \in Seq(Inputs) /\ DOMAIN in' = 1..(Len(in) + 1)
          /\ DOMAIN in = 1..Len(in)
          /\ \A n \in 1..Len(in) : in'[n] = in[n]
          /\ in'[Len(in) + 1] = i
      BY <3>1
    <3>3. \A n \in DOMAIN in' : in'[n].kind = "resolve" => in'[n].firing # <<>>
      BY <3>2, LenProperties DEF TypeInv, ResolvesCarryAlert
    <3> QED BY <3>2, <3>3 DEF ResolvesCarryAlert
  <2>2. CASE ~(Len(in) < QueueSize)
    BY <2>2 DEF Enqueue, TypeInv, TypeOK, ResolvesCarryAlert
  <2> QED BY <2>1, <2>2
<1>3. latest' \in [Keys -> {"unknown", "firing", "clear"}]
  <2>1. CASE Len(in) < QueueSize
    <3>1. latest' = [k \in Keys |-> IF Says(i, k) = "nothing" THEN latest[k] ELSE Says(i, k)]
      BY <2>1 DEF Enqueue
    <3> QED BY <3>1, <1>1 DEF TypeInv, TypeOK
  <2>2. CASE ~(Len(in) < QueueSize)
    BY <2>2 DEF Enqueue, TypeInv, TypeOK
  <2> QED BY <2>1, <2>2
<1>4. calls' \in Nat
  BY DEF Enqueue, TypeInv, TypeOK
<1> QED BY <1>2, <1>3, <1>4 DEF Enqueue, TypeInv, TypeOK

LEMMA TakeInputTypeInv == ASSUME TypeInv, TakeInput PROVE TypeInv'
<1>1. in \in Seq(Inputs) /\ in # <<>>
  BY DEF TypeInv, TypeOK, TakeInput
<1>2. /\ Head(in) \in Inputs /\ Tail(in) \in Seq(Inputs)
      /\ \A n \in 1..Len(Tail(in)) : Tail(in)[n] = in[n + 1]
      /\ Len(Tail(in)) = Len(in) - 1
  BY <1>1, HeadTailProperties
<1>3. ResolvesCarryAlert'
  <2>1. \A n \in DOMAIN Tail(in) : n + 1 \in DOMAIN in /\ Tail(in)[n] = in[n + 1]
    BY <1>1, <1>2
  <2> QED BY <2>1 DEF TakeInput, TypeInv, ResolvesCarryAlert
<1>4. Head(in).kind = "resolve" => Head(in).firing # <<>>
  BY <1>1 DEF TypeInv, ResolvesCarryAlert
<1>5. Head(in).firing \in Seq(Alerts)
  BY <1>2 DEF Inputs
<1>6. /\ todo' \in Seq(Alerts) /\ job' \in Inputs
      /\ pc' \in {"idle", "fire", "diff", "resolve"}
      /\ pc' \in {"fire", "resolve"} => todo' # <<>>
  BY <1>2, <1>4, <1>5, InputTypes DEF TakeInput, Goto, AfterFire
<1> QED BY <1>2, <1>3, <1>6 DEF TakeInput, TypeInv, TypeOK

\* What Goto and BeginSend leave in the worker's locals.
LEMMA HeadTailTodo ==
    ASSUME TypeInv, todo # <<>>
    PROVE  /\ Head(todo) \in Alerts /\ Tail(todo) \in Seq(Alerts)
           /\ Key(Head(todo)) \in Keys
BY KeyType, HeadTailProperties DEF TypeInv, TypeOK

LEMMA GotoType ==
    ASSUME TypeInv, NEW j \in Inputs, NEW rest \in Seq(Alerts),
           NEW label \in {"idle", "fire", "diff", "send"},
           label = "fire" => rest # <<>>,
           Goto(j, rest, label)
    PROVE  /\ job' \in Inputs /\ todo' \in Seq(Alerts)
           /\ pc' \in {"idle", "fire", "diff", "send"}
           /\ pc' = "fire" => todo' # <<>>
BY InputTypes DEF Goto

LEMMA AfterFireType ==
    ASSUME NEW j \in Inputs, NEW rest \in Seq(Alerts)
    PROVE  /\ AfterFire(j, rest) \in {"idle", "fire", "diff"}
           /\ AfterFire(j, rest) = "fire" => rest # <<>>
BY DEF AfterFire

LEMMA BeginSendType ==
    ASSUME TypeInv, NEW m \in Messages, BeginSend(m)
    PROVE  msg' \in Messages /\ chans' \subseteq Channels
BY RouteType DEF BeginSend, TypeInv, TypeOK

LEMMA AllowTypeInv == ASSUME TypeInv, Allow PROVE TypeInv'
<1>1. todo # <<>> /\ Key(Head(todo)) \in Keys
  BY HeadTailTodo DEF Allow, TypeInv, TypeOK
<1>2. last' \in [Keys -> Times] /\ admitted' \in [Keys -> Nat] /\ pc' \in {"track", "mark"}
  <2>1. CASE Allowed(last, Key(Head(todo)), now)
    <3>1. /\ last' = [last EXCEPT ![Key(Head(todo))] = now]
          /\ admitted' = [admitted EXCEPT ![Key(Head(todo))] = @ + 1]
          /\ pc' = "track"
      BY <2>1 DEF Allow, Admitted
    <3>2. now \in Times
      BY DEF Times, TypeInv, TypeOK
    <3> QED BY <3>1, <3>2, <1>1 DEF TypeInv, TypeOK
  <2>2. CASE ~Allowed(last, Key(Head(todo)), now)
    BY <2>2 DEF Allow, TypeInv, TypeOK
  <2> QED BY <2>1, <2>2
<1> QED BY <1>1, <1>2 DEF Allow, TypeInv, TypeOK, ResolvesCarryAlert

LEMMA TrackedType == ASSUME TypeInv, NEW a \in Alerts PROVE Tracked(a) \subseteq Alerts
BY DEF Tracked, TypeInv, TypeOK

LEMMA MarkTypeInv == ASSUME TypeInv, Mark PROVE TypeInv'
<1>1. /\ todo # <<>> /\ Tail(todo) \in Seq(Alerts) /\ Head(todo) \in Alerts
      /\ job \in Inputs
  BY HeadTailTodo DEF Mark, TypeInv, TypeOK
<1>2. /\ job' \in Inputs /\ todo' \in Seq(Alerts)
      /\ pc' \in {"idle", "fire", "diff", "send"}
      /\ pc' = "fire" => todo' # <<>>
  <2>1. LET l == AfterFire(job, Tail(todo))
        IN l \in {"idle", "fire", "diff"} /\ (l = "fire" => Tail(todo) # <<>>)
    BY <1>1, AfterFireType
  <2> QED BY <1>1, <2>1, GotoType DEF Mark
<1>3. active' \subseteq Alerts
  BY <1>1, TrackedType DEF Mark
<1> QED BY <1>2, <1>3 DEF Mark, TypeInv, TypeOK, ResolvesCarryAlert

LEMMA TrackTypeInv == ASSUME TypeInv, Track PROVE TypeInv'
<1>1. /\ todo # <<>> /\ Tail(todo) \in Seq(Alerts) /\ Head(todo) \in Alerts
      /\ job \in Inputs
  BY HeadTailTodo DEF Track, TypeInv, TypeOK
<1>2. active' \subseteq Alerts
  BY <1>1, TrackedType DEF Track
<1>3. CASE InDigest(Head(todo))
  <2>1. /\ job' \in Inputs /\ todo' \in Seq(Alerts)
        /\ pc' \in {"idle", "fire", "diff", "send"}
        /\ pc' = "fire" => todo' # <<>>
    <3>1. LET l == AfterFire(job, Tail(todo))
          IN l \in {"idle", "fire", "diff"} /\ (l = "fire" => Tail(todo) # <<>>)
      BY <1>1, AfterFireType
    <3> QED BY <1>1, <1>3, <3>1, GotoType DEF Track
  <2>2. digestQ' \in Seq(Alerts) /\ UNCHANGED <<msg, chans>>
    <3>1. digestQ' = Append(digestQ, Head(todo)) /\ UNCHANGED <<msg, chans>>
      BY <1>3 DEF Track
    <3> QED BY <1>1, <3>1 DEF TypeInv, TypeOK
  <2> QED BY <1>2, <2>1, <2>2 DEF Track, TypeInv, TypeOK, ResolvesCarryAlert
<1>4. CASE ~InDigest(Head(todo))
  <2>1. /\ job' \in Inputs /\ todo' \in Seq(Alerts)
        /\ pc' \in {"idle", "fire", "diff", "send"}
        /\ pc' = "fire" => todo' # <<>>
    BY <1>1, <1>4, GotoType DEF Track
  <2>2. msg' \in Messages /\ chans' \subseteq Channels /\ UNCHANGED digestQ
    BY <1>1, <1>4, BeginSendType, MessageTypes DEF Track
  <2> QED BY <1>2, <2>1, <2>2 DEF Track, TypeInv, TypeOK, ResolvesCarryAlert
<1> QED BY <1>3, <1>4

LEMMA HandleResolveTypeInv == ASSUME TypeInv, HandleResolve PROVE TypeInv'
<1> DEFINE hit == Firing(Head(todo))
<1>1. hit \subseteq Alerts /\ job \in Inputs /\ <<>> \in Seq(Alerts)
  BY DEF Firing, TypeInv, TypeOK
<1>2. CASE ~ResolutionEnabled \/ hit = {}
  <2>1. Goto(job, <<>>, "idle") /\ UNCHANGED <<active, msg, chans>>
    BY <1>2 DEF HandleResolve
  <2>2. job' \in Inputs /\ todo' \in Seq(Alerts) /\ pc' = "idle"
    BY <2>1, <1>1, InputTypes DEF Goto
  <2> QED BY <2>1, <2>2 DEF HandleResolve, TypeInv, TypeOK, ResolvesCarryAlert
<1>3. CASE ~(~ResolutionEnabled \/ hit = {})
  <2>1. /\ Goto(job, <<>>, "send") /\ active' = active \ hit
        /\ \E prev \in hit : BeginSend(ResolvedMsg(prev))
    BY <1>3 DEF HandleResolve
  <2>2. job' \in Inputs /\ todo' \in Seq(Alerts) /\ pc' = "send"
    BY <2>1, <1>1 DEF Goto
  <2>3. msg' \in Messages /\ chans' \subseteq Channels
    BY <2>1, <1>1, BeginSendType, MessageTypes
  <2> QED BY <2>1, <2>2, <2>3 DEF HandleResolve, TypeInv, TypeOK, ResolvesCarryAlert
<1> QED BY <1>2, <1>3

LEMMA DiffTypeInv == ASSUME TypeInv, Diff PROVE TypeInv'
<1>1. Missing(job) \subseteq Alerts /\ job \in Inputs /\ <<>> \in Seq(Alerts)
  BY DEF Missing, TypeInv, TypeOK
<1>2. active' \subseteq Alerts
  BY DEF Diff, TypeInv, TypeOK
<1>3. CASE Missing(job) = {}
  <2>1. Goto(job, <<>>, "idle") /\ UNCHANGED <<toResolve, msg, chans>>
    BY <1>3 DEF Diff
  <2>2. job' \in Inputs /\ todo' \in Seq(Alerts) /\ pc' = "idle"
    BY <2>1, <1>1, InputTypes DEF Goto
  <2> QED BY <1>2, <2>1, <2>2 DEF Diff, TypeInv, TypeOK, ResolvesCarryAlert
<1>4. CASE Missing(job) # {}
  <2>1. PICK prev \in Missing(job) :
          /\ BeginSend(ResolvedMsg(prev))
          /\ toResolve' = Left(prev)
          /\ Goto(job, <<>>, "send")
    BY <1>4 DEF Diff
  <2>2. job' \in Inputs /\ todo' \in Seq(Alerts) /\ pc' = "send"
    BY <2>1, <1>1 DEF Goto
  <2>3. msg' \in Messages /\ chans' \subseteq Channels /\ toResolve' \subseteq Alerts
    BY <2>1, <1>1, BeginSendType, MessageTypes DEF Left
  <2> QED BY <1>2, <2>2, <2>3 DEF Diff, TypeInv, TypeOK, ResolvesCarryAlert
<1> QED BY <1>3, <1>4

LEMMA TakeTickTypeInv == ASSUME TypeInv, TakeTick PROVE TypeInv'
<1>1. digestQ' \in Seq(Alerts) /\ tick' \in BOOLEAN
  <2>1. digestQ' = <<>> /\ <<>> \in Seq(Alerts)
    BY DEF TakeTick
  <2>2. tick' \in BOOLEAN
    BY Zenon DEF TakeTick
  <2> QED BY <2>1, <2>2
<1>2. CASE digestQ = <<>>
  BY <1>1, <1>2 DEF TakeTick, TypeInv, TypeOK, ResolvesCarryAlert
<1>3. CASE digestQ # <<>>
  <2>1. BeginSend(DigestMsg(Batch)) /\ Goto(FlushJob, <<>>, "send")
    BY <1>3 DEF TakeTick
  <2>2. Batch \subseteq Alerts
    BY ElementOfSeq DEF Batch, TypeInv, TypeOK
  <2>3. msg' \in Messages /\ chans' \subseteq Channels
    BY <2>1, <2>2, BeginSendType, MessageTypes
  <2>4. job' \in Inputs /\ todo' = <<>> /\ todo' \in Seq(Alerts) /\ pc' = "send"
    BY <2>1, InputTypes DEF Goto
  <2> QED BY <1>1, <2>3, <2>4
          DEF TakeTick, TypeInv, TypeOK, ResolvesCarryAlert
<1> QED BY <1>2, <1>3

LEMMA SendToTypeInv ==
    ASSUME TypeInv, NEW c \in Channels, SendTo(c)
    PROVE  TypeInv'
<1>1. msg.state \in {"none", "firing", "resolved"}
  BY DEF TypeInv, TypeOK, Messages
<1>2. heard' \in [Channels -> [Keys -> {"none", "firing", "resolved"}]]
  <2>1. CASE heard' = [heard EXCEPT ![c] =
                         [k \in Keys |-> IF k \in msg.keys THEN msg.state ELSE @[k]]]
    <3>1. [k \in Keys |-> IF k \in msg.keys THEN msg.state ELSE heard[c][k]]
            \in [Keys -> {"none", "firing", "resolved"}]
      BY <1>1 DEF TypeInv, TypeOK
    <3> QED BY <2>1, <3>1 DEF TypeInv, TypeOK
  <2>2. CASE heard' = heard
    BY <2>2 DEF TypeInv, TypeOK
  <2> QED BY <2>1, <2>2 DEF SendTo, Receives, Misses
<1>3. chans' \subseteq Channels
  BY DEF SendTo, TypeInv, TypeOK
<1> QED BY <1>2, <1>3 DEF SendTo, TypeInv, TypeOK, ResolvesCarryAlert

LEMMA FinishSendTypeInv == ASSUME TypeInv, FinishSend PROVE TypeInv'
<1>1. stats' \in StatsRecords
  BY RecordType DEF FinishSend, TypeInv, TypeOK
<1>2. CASE toResolve # {}
  <2>1. PICK prev \in toResolve :
          /\ BeginSend(ResolvedMsg(prev))
          /\ toResolve' = toResolve \ {prev}
          /\ UNCHANGED <<pc, job, todo>>
    BY <1>2 DEF FinishSend
  <2>2. toResolve' \subseteq Alerts /\ msg' \in Messages /\ chans' \subseteq Channels
    BY <2>1, BeginSendType, MessageTypes DEF TypeInv, TypeOK
  <2> QED BY <1>1, <2>1, <2>2
          DEF FinishSend, TypeInv, TypeOK, ResolvesCarryAlert
<1>3. CASE toResolve = {}
  <2> DEFINE label == IF msg.state = "resolved" THEN "idle" ELSE AfterFire(job, todo)
  <2>1. msg' = NoMsg /\ Goto(job, todo, label) /\ UNCHANGED <<toResolve, chans>>
    BY <1>3 DEF FinishSend
  <2>2. job \in Inputs /\ todo \in Seq(Alerts)
    BY DEF TypeInv, TypeOK
  <2>3. label \in {"idle", "fire", "diff", "send"} /\ (label = "fire" => todo # <<>>)
    BY <2>2, AfterFireType
  <2> HIDE DEF label
  <2>4. /\ job' \in Inputs /\ todo' \in Seq(Alerts)
        /\ pc' \in {"idle", "fire", "diff", "send"}
        /\ pc' = "fire" => todo' # <<>>
    BY <2>1, <2>2, <2>3, GotoType
  <2>5. msg' \in Messages
    BY <2>1, MessageTypes
  <2> QED BY <1>1, <2>1, <2>4, <2>5
          DEF FinishSend, TypeInv, TypeOK, ResolvesCarryAlert
<1> QED BY <1>2, <1>3

LEMMA EnvironmentTypeInv == ASSUME TypeInv, Environment PROVE TypeInv'
<1>1. ASSUME NEW a \in FireInputs, Submit(a) \/ Resolve(a) PROVE TypeInv'
  <2>1. a \in Alerts
    BY EngineAssumption
  <2>2. FireInput(a) \in Inputs /\ FireInput(a).kind # "resolve"
    BY <2>1, InputTypes DEF FireInput
  <2>3. ResolveInput(a) \in Inputs /\ ResolveInput(a).firing # <<>>
    BY <2>1, InputTypes DEF ResolveInput
  <2>4. CASE Submit(a)
    BY <2>2, <2>4, EnqueueTypeInv DEF Submit
  <2>5. CASE Resolve(a)
    BY <2>3, <2>5, EnqueueTypeInv DEF Resolve
  <2> QED BY <1>1, <2>4, <2>5
<1>2. ASSUME NEW s \in ScanInputs, Reconcile(s) PROVE TypeInv'
  BY <1>2, EnqueueTypeInv, EngineAssumption DEF Reconcile
<1>3. CASE Clock
  BY <1>3 DEF Clock, TypeInv, TypeOK, ResolvesCarryAlert
<1>4. CASE Ticker
  BY <1>4 DEF Ticker, TypeInv, TypeOK, ResolvesCarryAlert
<1>5. CASE Cancel
  BY <1>5 DEF Cancel, TypeInv, TypeOK, ResolvesCarryAlert
<1>6. CASE ResetActive
  BY <1>6 DEF ResetActive, TypeInv, TypeOK, ResolvesCarryAlert
<1>7. CASE ResetDedupe
  <2>1. last' \in [Keys -> Times] /\ resets' \in Nat /\ resetPc' = "idle"
    BY <1>7 DEF ResetDedupe, Forgotten, Times, TypeInv, TypeOK
  <2> QED BY <1>7, <2>1 DEF ResetDedupe, TypeInv, TypeOK, ResolvesCarryAlert
<1> QED BY <1>1, <1>2, <1>3, <1>4, <1>5, <1>6, <1>7 DEF Environment

LEMMA NextTypeInv == TypeInv /\ [Next]_vars => TypeInv'
<1> SUFFICES ASSUME TypeInv, [Next]_vars PROVE TypeInv'
  OBVIOUS
<1>1. CASE TakeInput
  BY <1>1, TakeInputTypeInv
<1>2. CASE TakeTick
  BY <1>2, TakeTickTypeInv
<1>3. CASE Handle
  <2>1. CASE Stop
    BY <2>1 DEF Stop, TypeInv, TypeOK, ResolvesCarryAlert
  <2> QED BY <1>3, <2>1, AllowTypeInv, MarkTypeInv, TrackTypeInv, HandleResolveTypeInv,
             DiffTypeInv, SendToTypeInv, FinishSendTypeInv DEF Handle
<1>4. CASE Environment
  BY <1>4, EnvironmentTypeInv
<1>5. CASE UNCHANGED vars
  BY <1>5 DEF vars, TypeInv, TypeOK, ResolvesCarryAlert
<1> QED BY <1>1, <1>2, <1>3, <1>4, <1>5 DEF Next

LEMMA AlwaysTypeInv == Spec => []TypeInv
BY InitTypeInv, NextTypeInv, PTL DEF Spec

\* Every variable of the engine keeps its type, and a handler that takes the
\* next alert of its slice always has one (Run, handleFire, handleReconcile).
THEOREM TypeCorrect == Spec => []TypeOK
BY AlwaysTypeInv, PTL DEF TypeInv

-----------------------------------------------------------------------------
(* The rate limit.                                                         *)

(***************************************************************************)
(* RateLimit alone is not inductive: it says nothing of when a key was let *)
(* through last.  The strengthening charges every admission but the first  *)
(* since a reset to a full window before the entry in the table; a key     *)
(* without an entry has its next admission still to come.                  *)
(***************************************************************************)
WindowPaid(k) ==
    IF last[k] = Never
      THEN (admitted[k] - resets) * Window <= now
      ELSE last[k] <= now /\ (admitted[k] - 1 - resets) * Window <= last[k]

RateInv == \A k \in Keys : WindowPaid(k)

LEMMA InitRateInv == Init => RateInv
BY WindowAssumption DEF Init, RateInv, WindowPaid, Forgotten, Never

\* One admission costs one window.
LEMMA OneWindow ==
    ASSUME NEW a \in Nat, NEW r \in Nat, NEW w \in Nat, NEW l \in Nat, NEW t \in Nat,
           (a - 1 - r) * w <= l, t - l >= w
    PROVE  (a + 1 - 1 - r) * w <= t
<1>1. (a + 1 - 1 - r) * w = (a - 1 - r) * w + w
  OBVIOUS
<1>2. (a - 1 - r) * w \in Int
  OBVIOUS
<1> QED BY <1>1, <1>2

LEMMA AllowRateInv == ASSUME TypeInv, RateInv, Allow PROVE RateInv'
<1>1. PICK key \in Keys : key = Key(Head(todo))
  BY HeadTailTodo DEF Allow, TypeInv, TypeOK
<1>2. /\ last \in [Keys -> Times] /\ admitted \in [Keys -> Nat]
      /\ now \in Nat /\ resets \in Nat /\ Window \in Nat
      /\ now' = now /\ resets' = resets
  BY WindowAssumption DEF Allow, TypeInv, TypeOK
<1>3. CASE ~Allowed(last, key, now)
  <2>1. last' = last /\ admitted' = admitted
    BY <1>1, <1>3 DEF Allow
  <2> QED BY <1>2, <2>1 DEF RateInv, WindowPaid
<1>4. CASE Allowed(last, key, now)
  <2>1. /\ last' = [last EXCEPT ![key] = now]
        /\ admitted' = [admitted EXCEPT ![key] = @ + 1]
    BY <1>1, <1>4 DEF Allow, Admitted
  <2>2. ASSUME NEW k \in Keys, k # key PROVE WindowPaid(k)'
    <3>1. last'[k] = last[k] /\ admitted'[k] = admitted[k]
      BY <1>2, <2>1, <2>2
    <3> QED BY <1>2, <3>1 DEF RateInv, WindowPaid
  <2>3. WindowPaid(key)'
    <3>1. last'[key] = now /\ admitted'[key] = admitted[key] + 1 /\ admitted[key] \in Nat
      BY <1>1, <1>2, <2>1
    <3>2. now # Never
      BY <1>2 DEF Never
    <3>3. (admitted[key] + 1 - 1 - resets) * Window <= now
      <4>1. CASE last[key] = Never
        <5>1. (admitted[key] - resets) * Window <= now
          BY <1>1, <4>1 DEF RateInv, WindowPaid
        <5>2. admitted[key] + 1 - 1 - resets = admitted[key] - resets
          BY <1>2, <3>1
        <5> QED BY <5>1, <5>2
      <4>2. CASE last[key] # Never
        <5>1. last[key] \in Nat /\ (admitted[key] - 1 - resets) * Window <= last[key]
          BY <1>1, <1>2, <4>2 DEF RateInv, WindowPaid, Times
        <5>2. now - last[key] >= Window
          BY <1>4, <4>2 DEF Allowed
        <5> QED BY <1>2, <3>1, <5>1, <5>2, OneWindow
      <4> QED BY <4>1, <4>2
    <3> QED BY <1>2, <3>1, <3>2, <3>3 DEF WindowPaid
  <2> QED BY <2>2, <2>3 DEF RateInv
<1> QED BY <1>3, <1>4

\* Time only adds room.
LEMMA ClockRateInv == ASSUME TypeInv, RateInv, Clock PROVE RateInv'
<1> SUFFICES ASSUME NEW k \in Keys PROVE WindowPaid(k)'
  BY DEF RateInv
<1>1. /\ last[k] \in Times /\ admitted[k] \in Nat /\ now \in Nat /\ resets \in Nat
      /\ Window \in Nat /\ last' = last /\ admitted' = admitted /\ resets' = resets
      /\ now' = now + 1
  BY WindowAssumption DEF Clock, TypeInv, TypeOK
<1>2. WindowPaid(k)
  BY DEF RateInv
<1>3. (admitted[k] - resets) * Window \in Int
  BY <1>1
<1>4. CASE last[k] = Never
  BY <1>1, <1>2, <1>3, <1>4 DEF WindowPaid
<1>5. CASE last[k] # Never
  BY <1>1, <1>2, <1>5 DEF WindowPaid, Times
<1> QED BY <1>4, <1>5

\* A reset erases the entries and pays for one more admission of each key.
LEMMA ResetRateInv == ASSUME TypeInv, RateInv, ResetDedupe PROVE RateInv'
<1> SUFFICES ASSUME NEW k \in Keys PROVE WindowPaid(k)'
  BY DEF RateInv
<1>1. /\ last[k] \in Times /\ admitted[k] \in Nat /\ now \in Nat /\ resets \in Nat
      /\ Window \in Nat /\ admitted' = admitted /\ resets' = resets + 1 /\ now' = now
      /\ last'[k] = Never
  BY WindowAssumption DEF ResetDedupe, Forgotten, TypeInv, TypeOK
<1>2. WindowPaid(k)
  BY DEF RateInv
<1>3. /\ admitted[k] - (resets + 1) = admitted[k] - 1 - resets
      /\ (admitted[k] - 1 - resets) * Window \in Int
      /\ (admitted[k] - resets) * Window = (admitted[k] - 1 - resets) * Window + Window
      /\ (admitted[k] - resets) * Window \in Int
  BY <1>1
<1>4. (admitted[k] - 1 - resets) * Window <= now
  <2>1. CASE last[k] = Never
    BY <1>1, <1>2, <1>3, <2>1 DEF WindowPaid
  <2>2. CASE last[k] # Never
    BY <1>1, <1>2, <1>3, <2>2 DEF WindowPaid, Times
  <2> QED BY <2>1, <2>2
<1> QED BY <1>1, <1>3, <1>4 DEF WindowPaid

\* Every other step leaves clock, table and counters alone.
LEMMA OtherRateInv ==
    ASSUME RateInv, UNCHANGED <<last, admitted, now, resets>>
    PROVE  RateInv'
BY DEF RateInv, WindowPaid

LEMMA NextRateInv == TypeInv /\ RateInv /\ [Next]_vars => RateInv'
<1> SUFFICES ASSUME TypeInv, RateInv, [Next]_vars PROVE RateInv'
  OBVIOUS
<1>1. CASE TakeInput \/ TakeTick
  BY <1>1, OtherRateInv DEF TakeInput, TakeTick
<1>2. CASE Handle /\ ~Allow
  <2>1. UNCHANGED <<last, admitted, now, resets>>
    BY <1>2 DEF Handle, Mark, Track, HandleResolve, Diff, SendTo, FinishSend, Stop
  <2> QED BY <2>1, OtherRateInv
<1>3. CASE Environment /\ ~Clock /\ ~ResetDedupe
  <2>1. UNCHANGED <<last, admitted, now, resets>>
    BY <1>3 DEF Environment, Submit, Resolve, Reconcile, Enqueue, Ticker, Cancel,
                ResetActive
  <2> QED BY <2>1, OtherRateInv
<1>4. CASE UNCHANGED vars
  BY <1>4, OtherRateInv DEF vars
<1> QED BY <1>1, <1>2, <1>3, <1>4, AllowRateInv, ClockRateInv, ResetRateInv
       DEF Next, Handle, Environment

LEMMA RateInvBounds == TypeInv /\ RateInv => RateLimit
<1> SUFFICES ASSUME TypeInv, RateInv, NEW k \in Keys
             PROVE  (admitted[k] - 1 - resets) * Window <= now
  BY DEF RateLimit
<1>1. /\ last[k] \in Times /\ admitted[k] \in Nat /\ now \in Nat /\ resets \in Nat
      /\ Window \in Nat
  BY WindowAssumption DEF TypeInv, TypeOK
<1>2. /\ (admitted[k] - 1 - resets) * Window \in Int
      /\ (admitted[k] - resets) * Window = (admitted[k] - 1 - resets) * Window + Window
  BY <1>1
<1> QED BY <1>1, <1>2 DEF RateInv, WindowPaid, Times

\* However calls, scans, resets and the clock interleave, a key is let through
\* once per dedupe window and once more per reset (Deduper.Allow, Engine.Reset).
THEOREM RateLimited == Spec => []RateLimit
<1>1. Spec => []RateInv
  BY InitRateInv, NextRateInv, AlwaysTypeInv, PTL DEF Spec
<1> QED BY <1>1, AlwaysTypeInv, RateInvBounds, PTL

-----------------------------------------------------------------------------
(* What the worker's locals hold, beyond their types.                      *)

KeysIn(s) == {Key(s[n]) : n \in DOMAIN s}

\* The three calls are all that is ever queued, and a resolve names one alert.
QueueForms ==
    \A n \in DOMAIN in : /\ in[n].kind \in {"fire", "resolve", "reconcile"}
                         /\ in[n].kind = "resolve" => Len(in[n].firing) = 1

\* What is left of a job is part of it, and only a job that fires or scans
\* has alerts to handle one by one.
JobForms ==
    /\ pc = "resolve" => Len(todo) = 1
    /\ pc = "diff" => job.kind = "reconcile" /\ ResolutionEnabled
    /\ pc \in {"fire", "mark", "track", "send"} /\ todo # <<>> =>
          job.kind \in {"fire", "reconcile"}
    /\ job.kind = "reconcile" => KeysIn(todo) \subseteq Mentioned(job)

\* Resolves wait their turn only behind another resolve.
SendForms ==
    /\ toResolve # {} => pc = "send" /\ msg.state = "resolved"
    /\ pc = "send" => msg.state \in {"firing", "resolved"} /\ msg.keys # {}

WorkerInv == QueueForms /\ JobForms /\ SendForms

LEMMA KeysOfTodo ==
    ASSUME NEW s \in Seq(Alerts), s # <<>>
    PROVE  KeysIn(s) = {Key(Head(s))} \cup KeysIn(Tail(s))
<1>1. /\ Len(s) \in Nat /\ Len(s) >= 1 /\ DOMAIN s = 1..Len(s)
      /\ Tail(s) \in Seq(Alerts) /\ DOMAIN Tail(s) = 1..(Len(s) - 1)
      /\ \A n \in 1..(Len(s) - 1) : Tail(s)[n] = s[n + 1]
      /\ Head(s) = s[1]
  OBVIOUS
<1>2. \A n \in 1..Len(s) : n = 1 \/ (n - 1 \in 1..(Len(s) - 1) /\ s[n] = Tail(s)[n - 1])
  <2>1. TAKE n \in 1..Len(s)
  <2>2. n = 1 \/ n - 1 \in 1..(Len(s) - 1)
    BY <1>1
  <2>3. n - 1 \in 1..(Len(s) - 1) => Tail(s)[n - 1] = s[(n - 1) + 1]
    BY <1>1
  <2> QED BY <2>2, <2>3, <1>1
<1>3. ASSUME NEW k \in KeysIn(s) PROVE k \in {Key(Head(s))} \cup KeysIn(Tail(s))
  <2>1. PICK n \in 1..Len(s) : k = Key(s[n])
    BY <1>1, <1>3 DEF KeysIn
  <2> QED BY <1>1, <1>2, <2>1 DEF KeysIn
<1>4. ASSUME NEW k \in KeysIn(Tail(s)) PROVE k \in KeysIn(s)
  <2>1. PICK n \in 1..(Len(s) - 1) : k = Key(Tail(s)[n])
    BY <1>1, <1>4 DEF KeysIn
  <2>2. n + 1 \in 1..Len(s) /\ k = Key(s[n + 1])
    BY <1>1, <2>1
  <2> QED BY <1>1, <2>2 DEF KeysIn
<1>5. Key(Head(s)) \in KeysIn(s)
  BY <1>1 DEF KeysIn
<1> QED BY <1>3, <1>4, <1>5

LEMMA NoKeysIn == KeysIn(<<>>) = {}
BY DEF KeysIn

\* A slice with one alert holds its key and no other.
LEMMA KeysOfOne ==
    ASSUME NEW s \in Seq(Alerts), Len(s) = 1
    PROVE  s # <<>> /\ KeysIn(s) = {Key(Head(s))}
<1>1. s # <<>> /\ Tail(s) = <<>>
  <2>1. s # <<>>
    BY EmptySeq
  <2>2. Tail(s) \in Seq(Alerts) /\ Len(Tail(s)) = 0
    BY <2>1, HeadTailProperties
  <2> QED BY <2>1, <2>2, EmptySeq
<1> QED BY <1>1, KeysOfTodo, NoKeysIn

LEMMA MentionedKeys == \A i : Mentioned(i) = KeysIn(i.firing)
BY DEF Mentioned, KeysIn

LEMMA InitWorkerInv == Init => WorkerInv
<1> SUFFICES ASSUME Init PROVE WorkerInv
  OBVIOUS
<1>1. QueueForms /\ SendForms
  BY DEF Init, QueueForms, SendForms
<1>2. pc = "idle" /\ job.kind = "none"
  BY DEF Init, NoJob
<1> QED BY <1>1, <1>2 DEF WorkerInv, JobForms

\* The calls are the three kinds of inputs.
LEMMA EnqueueWorkerInv ==
    ASSUME TypeInv, WorkerInv, NEW i \in Inputs, Enqueue(i),
           i.kind \in {"fire", "resolve", "reconcile"},
           i.kind = "resolve" => Len(i.firing) = 1
    PROVE  WorkerInv'
<1>1. QueueForms'
  <2>1. CASE Len(in) < QueueSize
    <3>1. in' = Append(in, i) /\ in \in Seq(Inputs)
      BY <2>1 DEF Enqueue, TypeInv, TypeOK
    <3>2. /\ DOMAIN in' = 1..(Len(in) + 1) /\ DOMAIN in = 1..Len(in)
          /\ \A n \in 1..Len(in) : in'[n] = in[n]
          /\ in'[Len(in) + 1] = i
      BY <3>1
    <3>3. \A n \in DOMAIN in' : n \in DOMAIN in \/ n = Len(in) + 1
      BY <3>1, <3>2, LenProperties
    <3> QED BY <3>2, <3>3 DEF WorkerInv, QueueForms
  <2>2. CASE ~(Len(in) < QueueSize)
    BY <2>2 DEF Enqueue, WorkerInv, QueueForms
  <2> QED BY <2>1, <2>2
<1> QED BY <1>1 DEF Enqueue, WorkerInv, JobForms, SendForms, Mentioned

LEMMA TakeInputWorkerInv == ASSUME TypeInv, WorkerInv, TakeInput PROVE WorkerInv'
<1>1. in \in Seq(Inputs) /\ in # <<>> /\ in' = Tail(in)
  BY DEF TypeInv, TypeOK, TakeInput
<1>2. \A n \in DOMAIN Tail(in) : n + 1 \in DOMAIN in /\ Tail(in)[n] = in[n + 1]
  <2>1. /\ Tail(in) \in Seq(Inputs) /\ Len(Tail(in)) = Len(in) - 1
        /\ \A n \in 1..Len(Tail(in)) : Tail(in)[n] = in[n + 1]
    BY <1>1, HeadTailProperties
  <2> QED BY <1>1, <2>1
<1>3. QueueForms'
  BY <1>1, <1>2 DEF WorkerInv, QueueForms
<1>4. PICK i \in Inputs : i = Head(in)
  BY <1>1, HeadTailProperties
<1>5. /\ i.kind \in {"fire", "resolve", "reconcile"}
      /\ i.kind = "resolve" => Len(i.firing) = 1
  BY <1>1, <1>4 DEF WorkerInv, QueueForms
<1>6. /\ todo' = i.firing
      /\ pc' = IF i.kind = "resolve" THEN "resolve" ELSE AfterFire(i, i.firing)
      /\ job' = IF pc' = "idle" THEN NoJob ELSE i
      /\ UNCHANGED <<toResolve, msg>> /\ pc = "idle"
  BY <1>4 DEF TakeInput, Goto
<1>7. JobForms'
  <2>1. job'.kind = "reconcile" => KeysIn(todo') \subseteq Mentioned(job')
    BY <1>6, MentionedKeys DEF NoJob
  <2> QED BY <1>5, <1>6, <2>1 DEF JobForms, AfterFire, Mentioned
<1>8. SendForms'
  BY <1>6 DEF WorkerInv, SendForms, AfterFire
<1> QED BY <1>3, <1>7, <1>8 DEF WorkerInv

\* What Goto leaves behind, for every way a handler goes on.
LEMMA GotoForms ==
    ASSUME TypeInv, WorkerInv, NEW rest, NEW label \in {"idle", "fire", "diff", "send"},
           Goto(job, rest, label),
           KeysIn(rest) \subseteq KeysIn(todo) \/ rest = <<>>,
           label \in {"fire", "send"} /\ rest # <<>> => job.kind \in {"fire", "reconcile"},
           label = "diff" => job.kind = "reconcile" /\ ResolutionEnabled
    PROVE  JobForms'
<1>1. job' = NoJob \/ job' = job
  BY DEF Goto
<1>2. job'.kind = "reconcile" => job' = job /\ job.kind = "reconcile"
  BY <1>1 DEF NoJob
<1>3. todo' = rest /\ pc' = label
  BY DEF Goto
<1>4. job'.kind = "reconcile" => KeysIn(todo') \subseteq Mentioned(job')
  BY <1>2, <1>3, NoKeysIn DEF WorkerInv, JobForms
<1>5. pc' \in {"fire", "diff", "send"} => job' = job
  BY <1>3 DEF Goto
<1> QED BY <1>3, <1>4, <1>5 DEF JobForms, Mentioned

LEMMA AllowWorkerInv == ASSUME TypeInv, WorkerInv, Allow PROVE WorkerInv'
<1>1. pc' \in {"track", "mark"} /\ pc = "fire"
  BY DEF Allow
<1> QED BY <1>1 DEF Allow, WorkerInv, QueueForms, JobForms, SendForms, Mentioned

LEMMA MarkWorkerInv == ASSUME TypeInv, WorkerInv, Mark PROVE WorkerInv'
<1>1. KeysIn(Tail(todo)) \subseteq KeysIn(todo)
  BY KeysOfTodo DEF Mark, TypeInv, TypeOK
<1>2. JobForms'
  <2>1. PICK l : l = AfterFire(job, Tail(todo))
    OBVIOUS
  <2>2. Goto(job, Tail(todo), l)
    BY <2>1 DEF Mark
  <2>3. /\ l \in {"idle", "fire", "diff", "send"}
        /\ l = "diff" => job.kind = "reconcile" /\ ResolutionEnabled
    BY <2>1 DEF AfterFire
  <2>4. job.kind \in {"fire", "reconcile"}
    BY DEF Mark, WorkerInv, JobForms, TypeInv, TypeOK
  <2> QED BY <1>1, <2>2, <2>3, <2>4, GotoForms
<1> QED BY <1>2 DEF Mark, Goto, AfterFire, WorkerInv, QueueForms, SendForms
LEMMA TrackWorkerInv == ASSUME TypeInv, WorkerInv, Track PROVE WorkerInv'
<1>1. KeysIn(Tail(todo)) \subseteq KeysIn(todo)
  BY KeysOfTodo DEF Track, TypeInv, TypeOK
<1>2. JobForms'
  <2>1. PICK l : l = IF InDigest(Head(todo)) THEN AfterFire(job, Tail(todo)) ELSE "send"
    OBVIOUS
  <2>2. Goto(job, Tail(todo), l)
    BY <2>1 DEF Track
  <2>3. /\ l \in {"idle", "fire", "diff", "send"}
        /\ l = "diff" => job.kind = "reconcile" /\ ResolutionEnabled
    BY <2>1 DEF AfterFire
  <2>4. job.kind \in {"fire", "reconcile"}
    BY DEF Track, WorkerInv, JobForms, TypeInv, TypeOK
  <2> QED BY <1>1, <2>2, <2>3, <2>4, GotoForms
<1>3. SendForms'
  <2>1. toResolve' = {}
    BY DEF Track, WorkerInv, SendForms
  <2>2. CASE InDigest(Head(todo))
    BY <2>1, <2>2 DEF Track, Goto, AfterFire, SendForms
  <2>3. CASE ~InDigest(Head(todo))
    BY <2>1, <2>3 DEF Track, BeginSend, FiringMsg, SendForms
  <2> QED BY <2>2, <2>3
<1> QED BY <1>2, <1>3 DEF Track, WorkerInv, QueueForms

LEMMA HandleResolveWorkerInv ==
    ASSUME TypeInv, WorkerInv, HandleResolve
    PROVE  WorkerInv'
<1>1. PICK l \in {"idle", "send"} : Goto(job, <<>>, l)
  BY DEF HandleResolve
<1>2. JobForms'
  BY <1>1, GotoForms
<1>3. toResolve' = {}
  BY DEF HandleResolve, WorkerInv, SendForms
<1>4. SendForms'
  <2>1. CASE l = "idle"
    BY <1>1, <1>3, <2>1 DEF Goto, SendForms
  <2>2. CASE l = "send"
    <3>1. \E prev : BeginSend(ResolvedMsg(prev))
      BY <1>1, <2>2 DEF HandleResolve, Goto
    <3> QED BY <1>3, <3>1 DEF BeginSend, ResolvedMsg, SendForms
  <2> QED BY <2>1, <2>2
<1> QED BY <1>2, <1>4 DEF HandleResolve, WorkerInv, QueueForms

LEMMA DiffWorkerInv == ASSUME TypeInv, WorkerInv, Diff PROVE WorkerInv'
<1>1. PICK l \in {"idle", "send"} :
         /\ Goto(job, <<>>, l)
         /\ l = "idle" => toResolve' = toResolve
         /\ l = "send" => \E prev : BeginSend(ResolvedMsg(prev))
  BY DEF Diff
<1>2. JobForms'
  BY <1>1, GotoForms
<1>3. SendForms'
  <2>1. CASE l = "idle"
    <3>1. toResolve' = {} /\ pc' = "idle"
      BY <1>1, <2>1 DEF Goto, Diff, WorkerInv, SendForms
    <3> QED BY <3>1 DEF SendForms
  <2>2. CASE l = "send"
    <3>1. \E prev : BeginSend(ResolvedMsg(prev))
      BY <1>1, <2>2
    <3>2. msg'.state = "resolved" /\ msg'.keys # {}
      BY <3>1 DEF BeginSend, ResolvedMsg
    <3>3. pc' = "send"
      BY <1>1, <2>2 DEF Goto
    <3> QED BY <3>2, <3>3 DEF SendForms
  <2> QED BY <2>1, <2>2
<1> QED BY <1>2, <1>3 DEF Diff, WorkerInv, QueueForms

LEMMA TakeTickWorkerInv == ASSUME TypeInv, WorkerInv, TakeTick PROVE WorkerInv'
<1>1. toResolve' = {}
  BY DEF TakeTick, WorkerInv, SendForms
<1>2. CASE digestQ = <<>>
  BY <1>1, <1>2 DEF TakeTick, WorkerInv, QueueForms, JobForms, SendForms, Mentioned
<1>3. CASE digestQ # <<>>
  <2>1. BeginSend(DigestMsg(Batch)) /\ Goto(FlushJob, <<>>, "send")
    BY <1>3 DEF TakeTick
  <2>2. JobForms'
    BY <2>1 DEF Goto, FlushJob, JobForms
  <2>3. Batch # {}
    <3>1. 1 \in DOMAIN digestQ
      BY <1>3 DEF TypeInv, TypeOK
    <3> QED BY <3>1 DEF Batch
  <2>4. SendForms'
    BY <1>1, <2>1, <2>3 DEF BeginSend, DigestMsg, KeysOf, SendForms
  <2> QED BY <2>2, <2>4 DEF TakeTick, WorkerInv, QueueForms
<1> QED BY <1>2, <1>3

LEMMA FinishSendWorkerInv == ASSUME TypeInv, WorkerInv, FinishSend PROVE WorkerInv'
<1>1. CASE toResolve # {}
  <2>1. PICK prev \in toResolve : BeginSend(ResolvedMsg(prev)) /\ UNCHANGED <<pc, job, todo>>
    BY <1>1 DEF FinishSend
  <2>2. SendForms'
    BY <2>1 DEF FinishSend, BeginSend, ResolvedMsg, SendForms
  <2> QED BY <2>1, <2>2 DEF FinishSend, WorkerInv, QueueForms, JobForms, Mentioned
<1>2. CASE toResolve = {}
  <2>1. PICK l : l = IF msg.state = "resolved" THEN "idle" ELSE AfterFire(job, todo)
    OBVIOUS
  <2>2. Goto(job, todo, l) /\ toResolve' = {}
    BY <1>2, <2>1 DEF FinishSend
  <2>3. /\ l \in {"idle", "fire", "diff", "send"} /\ l # "send"
        /\ l = "diff" => job.kind = "reconcile" /\ ResolutionEnabled
    BY <2>1 DEF AfterFire
  <2>4. todo # <<>> => job.kind \in {"fire", "reconcile"}
    BY DEF FinishSend, WorkerInv, JobForms
  <2>5. JobForms'
    BY <2>2, <2>3, <2>4, GotoForms
  <2> QED BY <2>2, <2>3, <2>5 DEF FinishSend, Goto, SendForms, WorkerInv, QueueForms
<1> QED BY <1>1, <1>2
LEMMA EnvironmentWorkerInv ==
    ASSUME TypeInv, WorkerInv, Environment
    PROVE  WorkerInv'
<1>1. ASSUME NEW a \in FireInputs, Submit(a) \/ Resolve(a) PROVE WorkerInv'
  <2>1. FireInput(a) \in Inputs /\ ResolveInput(a) \in Inputs
    BY EngineAssumption, InputTypes
  <2>2. /\ FireInput(a).kind = "fire"
        /\ ResolveInput(a).kind = "resolve" /\ Len(ResolveInput(a).firing) = 1
    BY DEF FireInput, ResolveInput
  <2>3. CASE Submit(a)
    BY <2>1, <2>2, <2>3, EnqueueWorkerInv DEF Submit
  <2>4. CASE Resolve(a)
    BY <2>1, <2>2, <2>4, EnqueueWorkerInv DEF Resolve
  <2> QED BY <1>1, <2>3, <2>4
<1>2. ASSUME NEW s \in ScanInputs, Reconcile(s) PROVE WorkerInv'
  BY <1>2, EnqueueWorkerInv, EngineAssumption DEF Reconcile
<1>3. CASE Clock \/ Ticker \/ Cancel \/ ResetActive \/ ResetDedupe
  <2>1. UNCHANGED <<in, pc, job, todo, toResolve, msg>>
    BY <1>3 DEF Clock, Ticker, Cancel, ResetActive, ResetDedupe
  <2> QED BY <2>1 DEF WorkerInv, QueueForms, JobForms, SendForms, Mentioned
<1> QED BY <1>1, <1>2, <1>3 DEF Environment

LEMMA NextWorkerInv == TypeInv /\ WorkerInv /\ [Next]_vars => WorkerInv'
<1> SUFFICES ASSUME TypeInv, WorkerInv, [Next]_vars PROVE WorkerInv'
  OBVIOUS
<1>1. UNCHANGED <<in, pc, job, todo, toResolve, msg>> => WorkerInv'
  BY DEF WorkerInv, QueueForms, JobForms, SendForms, Mentioned
<1>2. CASE Handle
  <2>1. CASE Stop
    BY <2>1 DEF Stop, WorkerInv, QueueForms, JobForms, SendForms, Mentioned
  <2>2. CASE \E c \in Channels : SendTo(c)
    <3>1. UNCHANGED <<in, pc, job, todo, toResolve, msg>>
      BY <2>2 DEF SendTo
    <3> QED BY <1>1, <3>1
  <2> QED BY <1>2, <2>1, <2>2, AllowWorkerInv, MarkWorkerInv, TrackWorkerInv,
             HandleResolveWorkerInv, DiffWorkerInv, FinishSendWorkerInv DEF Handle
<1>3. CASE UNCHANGED vars
  <2>1. UNCHANGED <<in, pc, job, todo, toResolve, msg>>
    BY <1>3 DEF vars
  <2> QED BY <1>1, <2>1
<1> QED BY <1>2, <1>3, TakeInputWorkerInv, TakeTickWorkerInv, EnvironmentWorkerInv DEF Next

LEMMA AlwaysWorkerInv == Spec => []WorkerInv
BY InitWorkerInv, NextWorkerInv, AlwaysTypeInv, PTL DEF Spec
-----------------------------------------------------------------------------
(* An active alert has an entry in the dedupe table.                       *)

(***************************************************************************)
(* ActiveWasAdmitted is not inductive: Mark and Track add the alert that   *)
(* Allow looked at one step earlier, so its entry has to be remembered     *)
(* while the worker is between the two critical sections.                  *)
(***************************************************************************)
EntryInv ==
    NeverReset =>
        /\ \A a \in active : last[Key(a)] # Never
        /\ pc \in {"mark", "track"} => last[Key(Head(todo))] # Never

\* What keeps the invariant: the table only gains entries, the active set only
\* the alert at hand, and the worker does not stay between the two sections.
LEMMA KeepsEntryInv ==
    ASSUME EntryInv, NeverReset' => NeverReset, last' = last,
           \A a \in active' : a \in active
               \/ (pc \in {"mark", "track"} /\ a = Head(todo)),
           pc' \in {"mark", "track"} => pc' = pc /\ todo' = todo
    PROVE  EntryInv'
BY DEF EntryInv

LEMMA AllowEntryInv == ASSUME TypeInv, EntryInv, Allow PROVE EntryInv'
<1> SUFFICES ASSUME NeverReset
             PROVE  (/\ \A a \in active : last[Key(a)] # Never
                     /\ pc \in {"mark", "track"} => last[Key(Head(todo))] # Never)'
  BY DEF EntryInv, NeverReset, Allow
<1>1. PICK k \in Keys : k = Key(Head(todo))
  BY HeadTailTodo DEF Allow, TypeInv, TypeOK
<1>2. /\ \A a \in active : last[Key(a)] # Never /\ Key(a) \in Keys
      /\ last \in [Keys -> Times] /\ now # Never
  BY KeyType DEF EntryInv, TypeInv, TypeOK, Never
<1>3. CASE Allowed(last, k, now)
  <2>1. last' = [last EXCEPT ![k] = now] /\ UNCHANGED <<active, todo>>
    BY <1>1, <1>3 DEF Allow, Admitted
  <2> QED BY <1>1, <1>2, <2>1
<1>4. CASE ~Allowed(last, k, now)
  <2>1. UNCHANGED <<last, active, todo>> /\ last[k] # Never
    BY <1>1, <1>4 DEF Allow, Allowed
  <2> QED BY <1>1, <1>2, <2>1
<1> QED BY <1>3, <1>4

LEMMA TrackedWithin ==
    ASSUME NEW a, NEW b \in Tracked(a) PROVE b \in active \/ b = a
BY DEF Tracked

LEMMA ResetStays == ASSUME TypeInv, [Next]_vars PROVE NeverReset' => NeverReset
<1>1. CASE UNCHANGED <<resets, resetPc>>
  BY <1>1 DEF NeverReset
<1>2. CASE ResetActive \/ ResetDedupe
  BY <1>2 DEF ResetActive, ResetDedupe, NeverReset, TypeInv, TypeOK
<1>3. CASE ~(ResetActive \/ ResetDedupe)
  <2>1. UNCHANGED <<resets, resetPc>>
    BY <1>3 DEF vars, Next, TakeInput, TakeTick, Handle, Allow, Mark, Track, HandleResolve,
                Diff, SendTo, FinishSend, Stop, Environment, Submit, Resolve, Reconcile,
                Enqueue, Clock, Ticker, Cancel
  <2> QED BY <1>1, <2>1
<1> QED BY <1>2, <1>3

LEMMA NextEntryInv == TypeInv /\ EntryInv /\ [Next]_vars => EntryInv'
<1> SUFFICES ASSUME TypeInv, EntryInv, [Next]_vars PROVE EntryInv'
  OBVIOUS
<1>1. NeverReset' => NeverReset
  BY ResetStays
<1>2. CASE TakeInput
  <2>1. pc' \notin {"mark", "track"} /\ UNCHANGED <<last, active>>
    BY <1>2 DEF TakeInput, Goto, AfterFire
  <2> QED BY <1>1, <2>1, KeepsEntryInv
<1>3. CASE TakeTick
  <2>1. pc' \notin {"mark", "track"} /\ UNCHANGED <<last, active>>
    BY <1>3 DEF TakeTick, Goto
  <2> QED BY <1>1, <2>1, KeepsEntryInv
<1>4. CASE Mark
  <2>1. /\ pc' \notin {"mark", "track"} /\ last' = last
        /\ pc = "mark" /\ active' = Tracked(Head(todo))
    BY <1>4 DEF Mark, Goto, AfterFire
  <2> QED BY <1>1, <2>1, TrackedWithin, KeepsEntryInv
<1>5. CASE Track
  <2>1. /\ pc' \notin {"mark", "track"} /\ last' = last
        /\ pc = "track" /\ active' = Tracked(Head(todo))
    BY <1>5 DEF Track, Goto, AfterFire
  <2> QED BY <1>1, <2>1, TrackedWithin, KeepsEntryInv
<1>6. CASE HandleResolve
  <2>1. /\ pc' \notin {"mark", "track"} /\ last' = last /\ active' \subseteq active
    BY <1>6 DEF HandleResolve, Goto
  <2> QED BY <1>1, <2>1, KeepsEntryInv
<1>7. CASE Diff
  <2>1. /\ pc' \notin {"mark", "track"} /\ last' = last /\ active' \subseteq active
    BY <1>7 DEF Diff, Goto
  <2> QED BY <1>1, <2>1, KeepsEntryInv
<1>8. CASE FinishSend
  <2>1. /\ pc' \in {"mark", "track"} => pc' = pc /\ todo' = todo
        /\ UNCHANGED <<last, active>>
    BY <1>8 DEF FinishSend, Goto, AfterFire
  <2> QED BY <1>1, <2>1, KeepsEntryInv
<1>9. CASE Stop \/ (\E c \in Channels : SendTo(c))
  <2>1. pc' \notin {"mark", "track"} /\ UNCHANGED <<last, active>>
    BY <1>9 DEF Stop, SendTo
  <2> QED BY <1>1, <2>1, KeepsEntryInv
<1>10. CASE Environment
  <2>1. CASE ResetActive \/ ResetDedupe
    BY <2>1 DEF ResetActive, ResetDedupe, NeverReset, EntryInv, TypeInv, TypeOK
  <2>2. CASE ~(ResetActive \/ ResetDedupe)
    <3>1. UNCHANGED <<last, active, pc, todo>>
      BY <1>10, <2>2 DEF Environment, Submit, Resolve, Reconcile, Enqueue, Clock, Ticker, Cancel
    <3> QED BY <1>1, <3>1, KeepsEntryInv
  <2> QED BY <2>1, <2>2
<1>11. CASE UNCHANGED vars
  <2>1. UNCHANGED <<last, active, pc, todo>>
    BY <1>11 DEF vars
  <2> QED BY <1>1, <2>1, KeepsEntryInv
<1> QED BY <1>2, <1>3, <1>4, <1>5, <1>6, <1>7, <1>8, <1>9, <1>10, <1>11, AllowEntryInv
       DEF Next, Handle

\* An alert is active only after its key got through the deduper: it was
\* notified or suppressed on account of an earlier notice, until a reset meets
\* a handleFire between its two critical sections (handleFire, Engine.Reset).
THEOREM ActiveHasEntry == Spec => []ActiveWasAdmitted
<1>1. Init => EntryInv
  BY DEF Init, EntryInv
<1>2. EntryInv => ActiveWasAdmitted
  BY DEF EntryInv, ActiveWasAdmitted
<1>3. Spec => []EntryInv
  BY <1>1, NextEntryInv, AlwaysTypeInv, PTL DEF Spec
<1> QED BY <1>2, <1>3, PTL

-----------------------------------------------------------------------------
(* The statistics agree with the ring of recent messages.                  *)

\* The places of a monitor's messages of one kind in a sequence.
Logged(t, m, state) == {n \in DOMAIN t : t[n].monitor = m /\ t[n].state = state}
Count(t, m, state) == Cardinality(Logged(t, m, state))

\* The newest message of m in t is of this kind, if there is any.
EndsWith(t, m, state) ==
    \A n \in DOMAIN t :
        t[n].monitor = m /\ (\A i \in DOMAIN t : i > n => t[i].monitor # m)
            => state = t[n].state

(***************************************************************************)
(* StatsAgree for one monitor, read from the ring's tail as it is stored   *)
(* and not as Recent reverses it.                                          *)
(***************************************************************************)
Accounted(s, m) ==
    /\ (s.fires[m] + s.resolves[m] > 0) <=> (s.lastEvent[m] # "none")
    /\ Count(s.recent, m, "firing") <= s.fires[m]
    /\ Count(s.recent, m, "resolved") <= s.resolves[m]
    /\ Len(s.recent) < Capacity =>
          /\ Count(s.recent, m, "firing") = s.fires[m]
          /\ Count(s.recent, m, "resolved") = s.resolves[m]
    /\ EndsWith(s.recent, m, s.lastEvent[m])

StatsInv == Len(stats.recent) <= Capacity /\ \A m \in MonitorNames : Accounted(stats, m)

LEMMA LoggedFinite ==
    ASSUME NEW t \in Seq(Messages), NEW m, NEW state
    PROVE  IsFiniteSet(Logged(t, m, state)) /\ Count(t, m, state) \in Nat
<1>1. DOMAIN t = 1..Len(t) /\ Len(t) \in Int /\ 1 \in Int
  OBVIOUS
<1>2. IsFiniteSet(DOMAIN t)
  BY <1>1, FS_Interval
<1>3. Logged(t, m, state) \in SUBSET DOMAIN t
  BY DEF Logged
<1>4. IsFiniteSet(Logged(t, m, state))
  BY <1>2, <1>3, FS_Subset
<1> QED BY <1>4, FS_CardinalityType DEF Count

\* A message that is appended counts for its monitor and its kind.
LEMMA AppendCount ==
    ASSUME NEW t \in Seq(Messages), NEW msg0 \in Messages, NEW m, NEW state
    PROVE  Count(Append(t, msg0), m, state) =
               Count(t, m, state) + IF msg0.monitor = m /\ msg0.state = state THEN 1 ELSE 0
<1> DEFINE u == Append(t, msg0)
           L == Logged(t, m, state)
<1>1. /\ DOMAIN u = 1..(Len(t) + 1) /\ DOMAIN t = 1..Len(t) /\ Len(t) \in Nat
      /\ \A n \in 1..Len(t) : u[n] = t[n]
      /\ u[Len(t) + 1] = msg0
  OBVIOUS
<1> HIDE DEF u
<1>2. DOMAIN u = DOMAIN t \cup {Len(t) + 1} /\ Len(t) + 1 \notin DOMAIN t
  BY <1>1
<1>3. Logged(u, m, state) = IF msg0.monitor = m /\ msg0.state = state
                              THEN L \cup {Len(t) + 1} ELSE L
  BY <1>1, <1>2 DEF Logged
<1>4. Len(t) + 1 \notin L
  BY <1>2 DEF Logged
<1>5. IsFiniteSet(L)
  BY LoggedFinite
<1> HIDE DEF L
<1>6. Cardinality(L \cup {Len(t) + 1}) = Cardinality(L) + 1
  BY <1>4, <1>5, FS_AddElement
<1>7. Cardinality(L) \in Nat
  BY <1>5, FS_CardinalityType
<1> QED BY <1>3, <1>6, <1>7 DEF Count, L, u

\* A sequence mapped one to one into another has no more messages of a kind.
LEMMA EmbedCount ==
    ASSUME NEW t \in Seq(Messages), NEW u \in Seq(Messages), NEW m, NEW state,
           NEW f \in [DOMAIN u -> DOMAIN t],
           \A a, b \in DOMAIN u : f[a] = f[b] => a = b,
           \A n \in DOMAIN u : u[n] = t[f[n]]
    PROVE  Count(u, m, state) <= Count(t, m, state)
<1> DEFINE A == Logged(u, m, state)
           B == Logged(t, m, state)
           g == [n \in A |-> f[n]]
<1>1. \A n \in A : n \in DOMAIN u /\ f[n] \in B
  BY DEF Logged
<1>2. g \in [A -> B]
  BY <1>1
<1>3. \A a, b \in A : g[a] = g[b] => a = b
  BY <1>1
<1>4. IsFiniteSet(B)
  BY LoggedFinite
<1> HIDE DEF A, B, g
<1>5. g \in Injection(A, B)
  BY <1>2, <1>3 DEF Injection, IsInjective
<1>6. Cardinality(A) <= Cardinality(B)
  BY <1>4, <1>5, FS_Injection
<1> QED BY <1>6 DEF Count, A, B

\* Dropping the oldest message adds to no count.
LEMMA DropCount ==
    ASSUME NEW t \in Seq(Messages), NEW u \in Seq(Messages), NEW m, NEW state,
           Len(u) = Len(t) - 1, \A i \in 1..Len(u) : u[i] = t[i + 1]
    PROVE  Count(u, m, state) <= Count(t, m, state)
<1> DEFINE f == [n \in DOMAIN u |-> n + 1]
<1>1. DOMAIN u = 1..Len(u) /\ DOMAIN t = 1..Len(t) /\ Len(t) \in Nat /\ Len(u) \in Nat
  OBVIOUS
<1>2. f \in [DOMAIN u -> DOMAIN t]
  BY <1>1
<1>3. /\ \A a, b \in DOMAIN u : f[a] = f[b] => a = b
      /\ \A n \in DOMAIN u : u[n] = t[f[n]]
  BY <1>1
<1> HIDE DEF f
<1> QED BY <1>2, <1>3, EmbedCount
\* Trim leaves a ring that is within its capacity alone, and else drops its head.
LEMMA TrimDrops ==
    ASSUME NEW t \in Seq(Messages), Len(t) <= Capacity + 1
    PROVE  /\ Trim(t) \in Seq(Messages) /\ Len(Trim(t)) <= Capacity
           /\ \/ Trim(t) = t
              \/ /\ Len(Trim(t)) = Capacity /\ Len(Trim(t)) = Len(t) - 1
                 /\ \A i \in 1..Len(Trim(t)) : Trim(t)[i] = t[i + 1]
<1>1. Capacity \in Nat \ {0} /\ Len(t) \in Nat
  BY CapacityAssumption
<1>2. CASE Len(t) > Capacity
  <2>1. PICK hi \in Int : hi = Len(t) /\ hi = Capacity + 1 /\ 2 <= hi
    BY <1>1, <1>2
  <2>2. ASSUME NEW i \in 2..hi PROVE t[i] \in Messages
    <3>1. i \in 1..Len(t)
      BY <1>1, <2>1, <2>2
    <3> QED BY <3>1, ElementOfSeq
  <2>3. /\ SubSeq(t, 2, hi) \in Seq(Messages) /\ Len(SubSeq(t, 2, hi)) = hi - 2 + 1
        /\ \A i \in 1..(hi - 2 + 1) : SubSeq(t, 2, hi)[i] = t[2 + i - 1]
    BY <2>1, <2>2, SubSeqProperties
  <2>4. Len(t) - Capacity + 1 = 2
    BY <1>1, <2>1
  <2>5. Trim(t) = SubSeq(t, 2, hi)
    BY <1>2, <2>1, <2>4 DEF Trim
  <2>6. hi - 2 + 1 = Capacity /\ \A i \in 1..Capacity : 2 + i - 1 = i + 1
    BY <1>1, <2>1
  <2> QED BY <1>1, <2>1, <2>3, <2>5, <2>6
<1>3. CASE ~(Len(t) > Capacity)
  BY <1>1, <1>3 DEF Trim
<1> QED BY <1>2, <1>3

\* The newest message of a monitor stays so when an older one is dropped.
LEMMA DropEndsWith ==
    ASSUME NEW t \in Seq(Messages), NEW u \in Seq(Messages), NEW m, NEW state,
           Len(u) = Len(t) - 1, \A i \in 1..Len(u) : u[i] = t[i + 1],
           EndsWith(t, m, state)
    PROVE  EndsWith(u, m, state)
<1>1. DOMAIN u = 1..Len(u) /\ DOMAIN t = 1..Len(t) /\ Len(t) \in Nat /\ Len(u) \in Nat
  OBVIOUS
<1> SUFFICES ASSUME NEW n \in DOMAIN u, u[n].monitor = m,
                    \A i \in DOMAIN u : i > n => u[i].monitor # m
             PROVE  state = u[n].state
  BY DEF EndsWith
<1>2. n + 1 \in DOMAIN t /\ t[n + 1] = u[n]
  BY <1>1
<1>3. ASSUME NEW i \in DOMAIN t, i > n + 1 PROVE t[i].monitor # m
  <2>1. i - 1 \in DOMAIN u /\ i - 1 > n /\ (i - 1) + 1 = i
    BY <1>1, <1>3
  <2> QED BY <1>1, <2>1
<1> QED BY <1>2, <1>3 DEF EndsWith

\* The message that is appended is the newest of its monitor.
LEMMA AppendEndsWith ==
    ASSUME NEW t \in Seq(Messages), NEW msg0 \in Messages, NEW m, NEW state,
           m # msg0.monitor => EndsWith(t, m, state),
           m = msg0.monitor => state = msg0.state
    PROVE  EndsWith(Append(t, msg0), m, state)
<1> DEFINE u == Append(t, msg0)
<1>1. /\ DOMAIN u = 1..(Len(t) + 1) /\ DOMAIN t = 1..Len(t) /\ Len(t) \in Nat
      /\ \A n \in 1..Len(t) : u[n] = t[n]
      /\ u[Len(t) + 1] = msg0
  OBVIOUS
<1> HIDE DEF u
<1> SUFFICES ASSUME NEW n \in DOMAIN u, u[n].monitor = m,
                    \A i \in DOMAIN u : i > n => u[i].monitor # m
             PROVE  state = u[n].state
  BY DEF EndsWith, u
<1>2. CASE n = Len(t) + 1
  BY <1>1, <1>2
<1>3. CASE n # Len(t) + 1
  <2>1. n \in DOMAIN t /\ t[n] = u[n] /\ Len(t) + 1 \in DOMAIN u /\ Len(t) + 1 > n
    BY <1>1, <1>3
  <2>2. m # msg0.monitor
    BY <1>1, <2>1
  <2>3. \A i \in DOMAIN t : i \in DOMAIN u /\ t[i] = u[i]
    BY <1>1
  <2> QED BY <2>1, <2>2, <2>3 DEF EndsWith
<1> QED BY <1>2, <1>3

\* Recording a message keeps every monitor's account straight.
LEMMA RecordAccounts ==
    ASSUME NEW st \in StatsRecords, NEW msg0 \in Messages,
           msg0.state \in {"firing", "resolved"},
           Len(st.recent) <= Capacity, NEW m \in MonitorNames, Accounted(st, m)
    PROVE  Len(Record(st, msg0).recent) <= Capacity /\ Accounted(Record(st, msg0), m)
<1> DEFINE t == Append(st.recent, msg0)
           r == Record(st, msg0)
           Is(state) == IF msg0.monitor = m /\ msg0.state = state THEN 1 ELSE 0
<1>1. /\ st.recent \in Seq(Messages) /\ st.fires \in [MonitorNames -> Nat]
      /\ st.resolves \in [MonitorNames -> Nat] /\ st.lastEvent \in [MonitorNames -> Events]
      /\ msg0.monitor \in MonitorNames
  BY DEF StatsRecords, Messages
<1>2. /\ r.fires[m] = st.fires[m] + Is("firing")
      /\ r.resolves[m] = st.resolves[m] + Is("resolved")
      /\ r.lastEvent[m] = IF m = msg0.monitor THEN msg0.state ELSE st.lastEvent[m]
      /\ r.recent = Trim(t)
  BY <1>1 DEF Record
<1>3. t \in Seq(Messages) /\ Len(t) = Len(st.recent) + 1 /\ Len(st.recent) \in Nat
  BY <1>1, AppendProperties
<1>4. /\ Count(t, m, "firing") = Count(st.recent, m, "firing") + Is("firing")
      /\ Count(t, m, "resolved") = Count(st.recent, m, "resolved") + Is("resolved")
  BY <1>1, AppendCount
<1>5. EndsWith(t, m, r.lastEvent[m])
  BY <1>1, <1>2, AppendEndsWith DEF Accounted
<1>6. Capacity \in Nat \ {0}
  BY CapacityAssumption
<1> HIDE DEF t, r
<1>7. Len(t) <= Capacity + 1
  BY <1>3, <1>6
<1>8. Trim(t) \in Seq(Messages) /\ Len(Trim(t)) <= Capacity /\ Len(Trim(t)) \in Nat
  BY <1>3, <1>7, TrimDrops
<1>9. /\ Count(st.recent, m, "firing") \in Nat /\ Count(st.recent, m, "resolved") \in Nat
      /\ Count(Trim(t), m, "firing") \in Nat /\ Count(Trim(t), m, "resolved") \in Nat
      /\ Count(t, m, "firing") \in Nat /\ Count(t, m, "resolved") \in Nat
      /\ st.fires[m] \in Nat /\ st.resolves[m] \in Nat
  BY <1>1, <1>3, <1>8, LoggedFinite
<1>10. (r.fires[m] + r.resolves[m] > 0) <=> (r.lastEvent[m] # "none")
  <2>1. CASE msg0.monitor = m
    <3>1. \/ Is("firing") = 1 /\ Is("resolved") = 0
          \/ Is("firing") = 0 /\ Is("resolved") = 1
      <4>1. CASE msg0.state = "firing"
        BY <2>1, <4>1
      <4>2. CASE msg0.state = "resolved"
        BY <2>1, <4>2
      <4> QED BY <4>1, <4>2
    <3>2. r.lastEvent[m] # "none"
      BY <1>2, <2>1
    <3> HIDE DEF Is
    <3>3. PICK a \in Nat, b \in Nat, i \in Nat, j \in Nat :
             /\ a = st.fires[m] /\ b = st.resolves[m]
             /\ i = Is("firing") /\ j = Is("resolved")
      BY <1>9, <3>1
    <3>4. r.fires[m] = a + i /\ r.resolves[m] = b + j
      BY <1>2, <3>3
    <3>5. i + j = 1
      BY <3>1, <3>3
    <3>6. (a + i) + (b + j) > 0
      BY <3>5
    <3> QED BY <3>2, <3>4, <3>6
  <2>2. CASE msg0.monitor # m
    <3>1. Is("firing") = 0 /\ Is("resolved") = 0
      BY <2>2
    <3>2. r.lastEvent[m] = st.lastEvent[m]
      BY <1>2, <2>2
    <3> HIDE DEF Is
    <3>3. r.fires[m] = st.fires[m] /\ r.resolves[m] = st.resolves[m]
      BY <1>2, <1>9, <3>1
    <3> QED BY <3>2, <3>3 DEF Accounted
  <2> QED BY <2>1, <2>2
<1>11. /\ Count(t, m, "firing") <= r.fires[m] /\ Count(t, m, "resolved") <= r.resolves[m]
       /\ Len(t) < Capacity => /\ Count(t, m, "firing") = r.fires[m]
                               /\ Count(t, m, "resolved") = r.resolves[m]
  <2>1. /\ Count(st.recent, m, "firing") <= st.fires[m]
        /\ Count(st.recent, m, "resolved") <= st.resolves[m]
        /\ Len(st.recent) < Capacity => /\ Count(st.recent, m, "firing") = st.fires[m]
                                        /\ Count(st.recent, m, "resolved") = st.resolves[m]
    BY DEF Accounted
  <2>2. Is("firing") \in Nat /\ Is("resolved") \in Nat
    OBVIOUS
  <2>3. Len(t) < Capacity => Len(st.recent) < Capacity
    BY <1>3, <1>6
  <2>4. ASSUME NEW c \in Nat, NEW f \in Nat, NEW i \in Nat, c <= f PROVE c + i <= f + i
    BY <2>4
  <2> HIDE DEF Is
  <2>5. /\ Count(t, m, "firing") <= st.fires[m] + Is("firing")
        /\ Count(t, m, "resolved") <= st.resolves[m] + Is("resolved")
    BY <1>4, <1>9, <2>1, <2>2, <2>4
  <2>6. Len(t) < Capacity => /\ Count(t, m, "firing") = st.fires[m] + Is("firing")
                             /\ Count(t, m, "resolved") = st.resolves[m] + Is("resolved")
    BY <1>4, <2>1, <2>3
  <2> QED BY <1>2, <2>5, <2>6
<1>12. ASSUME Trim(t) = t PROVE Len(r.recent) <= Capacity /\ Accounted(r, m)
  BY <1>2, <1>5, <1>8, <1>10, <1>12, <1>11 DEF Accounted
<1>13. ASSUME /\ Len(Trim(t)) = Capacity /\ Len(Trim(t)) = Len(t) - 1
              /\ \A i \in 1..Len(Trim(t)) : Trim(t)[i] = t[i + 1]
       PROVE  Len(r.recent) <= Capacity /\ Accounted(r, m)
  <2>1. /\ Count(Trim(t), m, "firing") <= Count(t, m, "firing")
        /\ Count(Trim(t), m, "resolved") <= Count(t, m, "resolved")
    BY <1>3, <1>8, <1>13, DropCount
  <2>2. EndsWith(Trim(t), m, r.lastEvent[m])
    BY <1>3, <1>5, <1>8, <1>13, DropEndsWith
  <2>3. r.fires[m] \in Nat /\ r.resolves[m] \in Nat
    <3>1. Is("firing") \in Nat /\ Is("resolved") \in Nat
      OBVIOUS
    <3>2. ASSUME NEW f \in Nat, NEW i \in Nat PROVE f + i \in Nat
      BY <3>2
    <3> HIDE DEF Is
    <3> QED BY <1>2, <1>9, <3>1, <3>2
  <2>4. ASSUME NEW c \in Nat, NEW d \in Nat, NEW f \in Nat, c <= d, d <= f PROVE c <= f
    BY <2>4
  <2>5. /\ Count(Trim(t), m, "firing") <= r.fires[m]
        /\ Count(Trim(t), m, "resolved") <= r.resolves[m]
    BY <1>9, <1>11, <2>1, <2>3, <2>4
  <2> QED BY <1>2, <1>6, <1>8, <1>10, <1>13, <2>2, <2>5 DEF Accounted
<1> QED BY <1>3, <1>7, <1>12, <1>13, TrimDrops DEF r

LEMMA AlwaysStatsInv == Spec => []StatsInv
<1>1. Init => StatsInv
  <2> SUFFICES ASSUME Init PROVE StatsInv
    OBVIOUS
  <2>1. Len(stats.recent) <= Capacity
    BY CapacityAssumption DEF Init, NewStats
  <2> SUFFICES ASSUME NEW m \in MonitorNames PROVE Accounted(stats, m)
    BY <2>1 DEF StatsInv
  <2>2. /\ stats.fires[m] = 0 /\ stats.resolves[m] = 0 /\ stats.lastEvent[m] = "none"
        /\ stats.recent = <<>>
    BY DEF Init, NewStats
  <2>3. Logged(<<>>, m, "firing") = {} /\ Logged(<<>>, m, "resolved") = {}
    BY DEF Logged
  <2>4. Count(<<>>, m, "firing") = 0 /\ Count(<<>>, m, "resolved") = 0
    BY <2>3, FS_EmptySet DEF Count
  <2>5. EndsWith(<<>>, m, "none")
    BY DEF EndsWith
  <2> QED BY <2>2, <2>4, <2>5, CapacityAssumption DEF Accounted
<1>2. TypeInv /\ WorkerInv /\ StatsInv /\ [Next]_vars => StatsInv'
  <2> SUFFICES ASSUME TypeInv, WorkerInv, StatsInv, [Next]_vars PROVE StatsInv'
    OBVIOUS
  <2>1. CASE FinishSend
    <3>1. /\ stats' = Record(stats, msg) /\ msg.state \in {"firing", "resolved"}
          /\ stats \in StatsRecords /\ msg \in Messages
      BY <2>1 DEF FinishSend, WorkerInv, SendForms, TypeInv, TypeOK
    <3>2. ASSUME NEW m \in MonitorNames
          PROVE  Len(stats'.recent) <= Capacity /\ Accounted(stats', m)
      BY <3>1, <3>2, RecordAccounts DEF StatsInv
    <3>3. msg.monitor \in MonitorNames
      BY <3>1 DEF Messages
    <3>4. PICK st : st = stats'
      OBVIOUS
    <3>5. Len(st.recent) <= Capacity /\ \A m \in MonitorNames : Accounted(st, m)
      BY <3>2, <3>3, <3>4
    <3> QED BY <3>4, <3>5 DEF StatsInv, Accounted, Count, Logged, EndsWith
  <2>2. CASE UNCHANGED stats
    BY <2>2 DEF StatsInv, Accounted, Count, Logged, EndsWith
  <2>3. FinishSend \/ UNCHANGED stats
    BY DEF Next, Handle, Environment, vars, TakeInput, TakeTick, Allow, Mark, Track, HandleResolve,
           Diff, SendTo, Stop, Submit, Resolve, Reconcile, Enqueue, Clock, Ticker, Cancel,
           ResetActive, ResetDedupe
  <2> QED BY <2>1, <2>2, <2>3
<1> QED BY <1>1, <1>2, AlwaysTypeInv, AlwaysWorkerInv, PTL DEF Spec
\* Recent is the ring read backwards.
LEMMA RecentReverses ==
    ASSUME NEW st \in StatsRecords
    PROVE  /\ Recent(st) \in Seq(Messages) /\ Len(Recent(st)) = Len(st.recent)
           /\ DOMAIN Recent(st) = 1..Len(st.recent)
           /\ \A i \in 1..Len(st.recent) : Recent(st)[i] = st.recent[Len(st.recent) + 1 - i]
<1>1. st.recent \in Seq(Messages) /\ Len(st.recent) \in Nat
  BY DEF StatsRecords
<1>2. \A i \in 1..Len(st.recent) : st.recent[Len(st.recent) + 1 - i] \in Messages
  <2> TAKE i \in 1..Len(st.recent)
  <2>1. Len(st.recent) + 1 - i \in 1..Len(st.recent)
    BY <1>1
  <2> QED BY <1>1, <2>1, ElementOfSeq
<1>3. /\ DOMAIN Recent(st) = 1..Len(st.recent)
      /\ \A i \in 1..Len(st.recent) : Recent(st)[i] = st.recent[Len(st.recent) + 1 - i]
      /\ Recent(st) \in [1..Len(st.recent) -> Messages]
  BY <1>2 DEF Recent
<1>4. Recent(st) \in Seq(Messages)
  BY <1>1, <1>3, SeqDef
<1>5. Len(Recent(st)) = Len(st.recent)
  BY <1>1, <1>3, <1>4, LenProperties
<1> QED BY <1>3, <1>4, <1>5

LEMMA RecentCount ==
    ASSUME NEW st \in StatsRecords, NEW m, NEW state
    PROVE  Count(Recent(st), m, state) = Count(st.recent, m, state)
<1> DEFINE t == st.recent
           u == Recent(st)
           f == [n \in 1..Len(t) |-> Len(t) + 1 - n]
<1>1. t \in Seq(Messages)
  BY DEF StatsRecords
<1>2. /\ u \in Seq(Messages) /\ DOMAIN u = 1..Len(t)
      /\ \A i \in 1..Len(t) : u[i] = t[Len(t) + 1 - i]
  BY RecentReverses
<1> HIDE DEF t, u
<1>3. /\ t \in Seq(Messages) /\ Len(t) \in Nat /\ DOMAIN t = 1..Len(t)
      /\ u \in Seq(Messages) /\ DOMAIN u = 1..Len(t)
      /\ \A i \in 1..Len(t) : u[i] = t[Len(t) + 1 - i]
  BY <1>1, <1>2, LenProperties
<1>4. /\ f \in [1..Len(t) -> 1..Len(t)]
      /\ \A a, b \in 1..Len(t) : f[a] = f[b] => a = b
      /\ \A n \in 1..Len(t) : u[n] = t[f[n]]
  <2>1. PICK top \in Nat : top = Len(t)
    BY <1>3
  <2>2. /\ f \in [1..top -> 1..top]
        /\ \A a, b \in 1..top : f[a] = f[b] => a = b
    BY <2>1
  <2>3. \A n \in 1..Len(t) : u[n] = t[f[n]]
    BY <1>3
  <2> QED BY <2>1, <2>2, <2>3
<1>5. \A n \in 1..Len(t) : t[n] = u[f[n]]
  <2> TAKE n \in 1..Len(t)
  <2>1. f[n] \in 1..Len(t) /\ Len(t) + 1 - f[n] = n
    BY <1>3
  <2> HIDE DEF f
  <2> QED BY <1>3, <2>1
<1> HIDE DEF f
<1>6. f \in [DOMAIN u -> DOMAIN t] /\ f \in [DOMAIN t -> DOMAIN u]
  BY <1>3, <1>4
<1>7. /\ \A a, b \in DOMAIN u : f[a] = f[b] => a = b
       /\ \A c, d \in DOMAIN t : f[c] = f[d] => c = d
       /\ \A n \in DOMAIN u : u[n] = t[f[n]]
       /\ \A k \in DOMAIN t : t[k] = u[f[k]]
  BY <1>3, <1>4, <1>5
<1>8. Count(u, m, state) <= Count(t, m, state)
  BY <1>3, <1>6, <1>7, EmbedCount
<1>9. Count(t, m, state) <= Count(u, m, state)
  BY <1>3, <1>6, <1>7, EmbedCount
<1>10. Count(t, m, state) \in Nat /\ Count(u, m, state) \in Nat
  BY <1>3, LoggedFinite
<1> QED BY <1>8, <1>9, <1>10 DEF t, u

\* The counters account for every message of the ring, and the last event of a
\* monitor is that of its newest message there (statsRecorder.record).
THEOREM StatsAreTrue == Spec => []StatsAgree
<1>1. TypeInv /\ StatsInv => StatsAgree
  <2> SUFFICES ASSUME TypeInv, StatsInv PROVE StatsAgree
    OBVIOUS
  <2> DEFINE t == stats.recent
             u == Recent(stats)
  <2>1. stats \in StatsRecords
    BY DEF TypeInv, TypeOK
  <2>2. /\ t \in Seq(Messages) /\ Len(t) \in Nat /\ DOMAIN t = 1..Len(t)
        /\ DOMAIN u = 1..Len(t) /\ Len(u) = Len(t)
        /\ \A i \in 1..Len(t) : u[i] = t[Len(t) + 1 - i]
    <3>1. t \in Seq(Messages)
      BY <2>1 DEF StatsRecords
    <3>2. /\ DOMAIN u = 1..Len(t) /\ Len(u) = Len(t)
          /\ \A i \in 1..Len(t) : u[i] = t[Len(t) + 1 - i]
      BY <2>1, RecentReverses
    <3> HIDE DEF t, u
    <3> QED BY <3>1, <3>2, LenProperties
  <2>3. Len(u) <= Capacity
    BY <2>2 DEF StatsInv
  <2>4. ASSUME NEW m \in MonitorNames
        PROVE  /\ (m \in Known(stats)) = (stats.lastEvent[m] # "none")
               /\ Count(u, m, "firing") <= stats.fires[m]
               /\ Count(u, m, "resolved") <= stats.resolves[m]
               /\ Len(u) < Capacity => /\ Count(u, m, "firing") = stats.fires[m]
                                       /\ Count(u, m, "resolved") = stats.resolves[m]
    <3>1. Accounted(stats, m)
      BY DEF StatsInv
    <3>2. m \in Known(stats) <=> stats.fires[m] + stats.resolves[m] > 0
      BY DEF Known
    <3>3. /\ Count(u, m, "firing") = Count(t, m, "firing")
          /\ Count(u, m, "resolved") = Count(t, m, "resolved")
      BY <2>1, RecentCount
    <3> HIDE DEF t, u
    <3> QED BY <2>2, <3>1, <3>2, <3>3 DEF Accounted, t
  <2>5. ASSUME NEW m \in MonitorNames, NEW n \in DOMAIN u, u[n].monitor = m,
               \A i \in 1..(n - 1) : u[i].monitor # m
        PROVE  stats.lastEvent[m] = u[n].state
    <3>1. EndsWith(t, m, stats.lastEvent[m])
      BY DEF StatsInv, Accounted
    <3> HIDE DEF t, u
    <3>2. PICK p \in 1..Len(t) : p = Len(t) + 1 - n /\ u[n] = t[p]
      BY <2>2, <2>5
    <3>3. ASSUME NEW i \in DOMAIN t, i > p PROVE t[i].monitor # m
      <4>1. PICK j \in 1..(n - 1) : j = Len(t) + 1 - i
        BY <2>2, <2>5, <3>2, <3>3
      <4>2. j \in 1..Len(t) /\ Len(t) + 1 - j = i
        BY <2>2, <2>5, <4>1
      <4> QED BY <2>2, <2>5, <4>1, <4>2
    <3> QED BY <2>2, <2>5, <3>1, <3>2, <3>3 DEF EndsWith
  <2> QED BY <2>3, <2>4, <2>5 DEF StatsAgree, Count, Logged
<1> QED BY <1>1, AlwaysTypeInv, AlwaysStatsInv, PTL
=============================================================================
