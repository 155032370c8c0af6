------------------------- MODULE AgentStream_proofs -------------------------
(***************************************************************************)
(* For any number of tools, iterations, retries and faults of any kinds:   *)
(* serial tools run alone, the events of a tool nest, every call has its   *)
(* result before the next request, and Complete follows a durable session. *)
(* All of them rest on one inductive invariant, which says of each phase   *)
(* what is left of the turn in the queues of StreamState.                  *)
(***************************************************************************)
EXTENDS AgentStream, FiniteSetTheorems, TLAPS

InTools == phase \in {"plan", "tools", "drain", "finalize"}
Queue == ToSet(pending) \cup ToSet(exec.prepared) \cup ToSet(exec.waiting)
Running == {t \in Tool : task[t] = "running"}
EvOf(events, kind) == {t \in Tool : <<kind, t>> \in ToSet(events)}
Ev(kind) == EvOf(exec.events, kind)
Distinct(s) == \A i, j \in DOMAIN s : s[i] = s[j] => i = j

\* Types.
EventType == {"started", "blocked", "progressed", "finished"} \X Tool
ExecType == [events : Seq(EventType), prepared : Seq(Tool), waiting : Seq(Tool),
             handles : SUBSET Tool, completed : SUBSET Tool, blocked : SUBSET Tool]
SeenType == [started : SUBSET Tool, progressed : SUBSET Tool, finished : SUBSET Tool,
             blocked : SUBSET Tool, error : BOOLEAN, complete : BOOLEAN]
WriteType == [by : {"stream", "detached"}, version : Nat]

Typed ==
    /\ phase \in Phase /\ after \in Phase \cup {"none"}
    /\ shutdown \in BOOLEAN /\ stuck \in BOOLEAN /\ pending \in Seq(Tool)
    /\ exec \in ExecType /\ seen \in SeenType
    /\ task \in [Tool -> {"none", "running", "ok", "fatal", "panicked"}]
    /\ relay \subseteq Tool /\ channel \in Seq(Tool) /\ open \subseteq Tool
    /\ faults \in 0 .. MaxFaults
    /\ after \in {"skill", "start", "emitting", "complete"} \/ phase # "save"

\* Every retry of an invalid output uses an iteration up.
Counted ==
    /\ iterations \in Nat /\ attempts \in Nat
    /\ iterations <= MaxIterations + 1
    /\ phase \notin {"complete", "done"} => iterations <= MaxIterations
    /\ attempts <= MaxIterations
    /\ attempts <= iterations
    /\ phase = "gate" => attempts < iterations

\* The saves: one at a time, and the awaited one writes the session as it is.
Saves ==
    /\ version \in Nat /\ recorded \in Nat /\ durable \in Nat /\ queued \in Nat
    /\ writes \subseteq WriteType
    /\ recorded <= version /\ durable <= version
    /\ \A v, w \in writes : v = w
    /\ \A w \in writes : /\ w.version <= version
                         /\ w.by = "stream" => phase = "save" /\ w.version = version

\* Outside the tool phases nothing runs and nothing is on its way.
Quiet == phase \notin {"tools", "drain", "done"} =>
           channel = <<>> /\ relay = {} /\ Running = {}

\* What is left of a turn in each phase.
Shape ==
    /\ phase \notin {"streaming", "ended", "plan", "done"} => pending = <<>>
    /\ ~InTools /\ phase # "done" =>
         /\ exec.prepared = <<>> /\ exec.waiting = <<>> /\ exec.handles = {}
         /\ exec.completed = {} /\ exec.blocked = {}
    /\ ~InTools /\ phase \notin {"emitting", "done"} /\ ~(phase = "save" /\ after = "emitting") =>
         exec.events = <<>>
    /\ phase = "plan" => exec.handles = {} /\ exec.completed = {}
    /\ phase \in {"tools", "drain", "finalize"} => exec.prepared = <<>>
    /\ phase = "drain" => exec.events = <<>>
    /\ phase \in {"drain", "finalize"} => exec.handles = {}
    /\ phase = "finalize" => exec.waiting = <<>>

\* A turn with calls leaves a trace.
Touched ==
    /\ phase = "plan" => \/ pending # <<>> \/ exec.prepared # <<>>
                         \/ exec.waiting # <<>> \/ exec.blocked # {}
    /\ phase = "tools" => exec.handles # {}
    /\ phase \in {"drain", "finalize"} =>
         exec.completed \cup exec.blocked # {} \/ Panicked # {}

\* Calls that wait are new, and each waits once.
Fresh ==
    /\ \A t \in Queue : task[t] = "none" /\ t \notin seen.blocked \cup exec.blocked \cup Ev("blocked")
    /\ Distinct(pending) /\ Distinct(exec.prepared) /\ Distinct(exec.waiting)
    /\ ToSet(pending) \cap (ToSet(exec.prepared) \cup ToSet(exec.waiting)) = {}
    /\ ToSet(exec.prepared) \cap ToSet(exec.waiting) = {}

\* What the sets of tools say of their tasks.
Tasks ==
    /\ \A t \in exec.handles : task[t] # "none"
    /\ \A t \in exec.completed : task[t] \in {"ok", "fatal"}
    /\ \A t \in exec.blocked \cup seen.blocked \cup Ev("blocked") : task[t] = "none"
    /\ \A t \in seen.progressed \cup relay \cup ToSet(channel) \cup Ev("progressed") : task[t] # "none"
    /\ \A t \in seen.finished \cup Ev("finished") :
         Ended(t) /\ t \notin relay \cup ToSet(channel)

\* A tool's start is announced before anything else of it.
Announced ==
    /\ ToSet(exec.prepared) \cup ToSet(exec.waiting) \cup exec.handles
         \cup relay \cup ToSet(channel) \cup Running \subseteq seen.started \cup Ev("started")
    /\ exec.completed \cup seen.progressed \cup seen.finished \cup Ev("progressed") \cup Ev("finished")
         \subseteq seen.started

\* A call in the session without a result is still in the turn, or panicked.
Answered ==
    phase # "done" =>
      open \subseteq Panicked \cup
        (IF InTools THEN Queue \cup exec.handles \cup exec.completed \cup exec.blocked ELSE {})

\* A tool that started is still in the turn, or its end is seen or about to be.
Accounted ==
    /\ phase # "done" =>
         /\ seen.started \cup Ev("started") \subseteq
              seen.finished \cup seen.blocked \cup Panicked \cup Ev("finished") \cup Ev("blocked")
              \cup ToSet(exec.prepared) \cup ToSet(exec.waiting) \cup exec.handles \cup exec.completed
         /\ exec.blocked \subseteq seen.blocked \cup Ev("blocked")
         /\ ~seen.complete
    /\ seen.complete => seen.started \subseteq seen.finished \cup seen.blocked \cup Panicked

\* Between the requests what was recorded is in the store, and no save in progress
\* would take it back.
Settled ==
    phase \in {"new", "skill", "start", "gate", "streaming", "ended", "emitting", "complete"}
      /\ Panicked = {} => recorded <= durable /\ \A w \in writes : recorded <= w.version

IInv == /\ Typed /\ Counted /\ Saves /\ Quiet /\ Shape /\ Touched /\ Fresh /\ Tasks
        /\ Announced /\ Answered /\ Accounted /\ Settled /\ SerialAlone

-----------------------------------------------------------------------------
(* Sequences as the sets of their elements *)

LEMMA NoElements ==
  /\ ToSet(<<>>) = {} /\ Distinct(<<>>)
  /\ \A S : <<>> \in Seq(S)
BY DEF ToSet, Distinct

LEMMA SomeElement ==
  ASSUME NEW S, NEW s \in Seq(S), s # <<>>
  PROVE  ToSet(s) # {}
<1>1. 1 \in DOMAIN s
  OBVIOUS
<1>2. QED
  BY <1>1 DEF ToSet

LEMMA ElementsTyped ==
  ASSUME NEW S, NEW s \in Seq(S)
  PROVE  ToSet(s) \subseteq S
BY DEF ToSet

LEMMA AppendElements ==
  ASSUME NEW S, NEW s \in Seq(S), NEW e \in S
  PROVE  /\ Append(s, e) \in Seq(S)
         /\ ToSet(Append(s, e)) = ToSet(s) \cup {e}
         /\ Distinct(s) /\ e \notin ToSet(s) => Distinct(Append(s, e))
<1> DEFINE a == Append(s, e)
<1>1. /\ a \in Seq(S) /\ Len(a) = Len(s) + 1
      /\ \A i \in 1 .. Len(s) : a[i] = s[i]
      /\ a[Len(s) + 1] = e
  OBVIOUS
<1>2. DOMAIN a = 1 .. Len(s) + 1 /\ DOMAIN s = 1 .. Len(s)
  BY <1>1
<1> HIDE DEF a
<1>3. ToSet(a) = ToSet(s) \cup {e}
  BY <1>1, <1>2 DEF ToSet
<1>4. Distinct(s) /\ e \notin ToSet(s) => Distinct(a)
  BY <1>1, <1>2 DEF ToSet, Distinct
<1>5. QED
  BY <1>1, <1>3, <1>4 DEF a

LEMMA TailElements ==
  ASSUME NEW S, NEW s \in Seq(S), s # <<>>
  PROVE  /\ Head(s) \in S /\ Tail(s) \in Seq(S)
         /\ ToSet(s) = ToSet(Tail(s)) \cup {Head(s)}
         /\ Distinct(s) => Distinct(Tail(s)) /\ Head(s) \notin ToSet(Tail(s))
<1> DEFINE r == Tail(s)
<1>1. /\ r \in Seq(S) /\ Len(s) >= 1 /\ Len(r) = Len(s) - 1
      /\ \A i \in 1 .. Len(r) : r[i] = s[i + 1]
      /\ Head(s) = s[1] /\ s[1] \in S
  OBVIOUS
<1>2. DOMAIN r = 1 .. Len(r) /\ DOMAIN s = 1 .. Len(s) /\ Len(s) \in Nat
  BY <1>1
<1> HIDE DEF r
<1>3. ToSet(s) = ToSet(r) \cup {s[1]}
  <2>1. ASSUME NEW i \in DOMAIN s
        PROVE  s[i] \in ToSet(r) \cup {s[1]}
    <3>1. CASE i = 1
      BY <3>1
    <3>2. CASE i # 1
      <4>1. i - 1 \in DOMAIN r /\ r[i - 1] = s[i]
        BY <1>1, <1>2, <3>2
      <4>2. QED
        BY <4>1 DEF ToSet
    <3>3. QED
      BY <3>1, <3>2
  <2>2. ASSUME NEW i \in DOMAIN r
        PROVE  i + 1 \in DOMAIN s /\ r[i] = s[i + 1]
    BY <1>1, <1>2
  <2>3. 1 \in DOMAIN s
    BY <1>1, <1>2
  <2>4. QED
    BY <2>1, <2>2, <2>3 DEF ToSet
<1>4. ASSUME Distinct(s)
      PROVE  Distinct(r) /\ s[1] \notin ToSet(r)
  <2>1. \A i \in DOMAIN r : i + 1 \in DOMAIN s /\ r[i] = s[i + 1] /\ i + 1 # 1
    BY <1>1, <1>2
  <2>2. \A i, j \in DOMAIN r : r[i] = r[j] => i + 1 = j + 1
    BY <1>4, <2>1 DEF Distinct
  <2>3. Distinct(r)
    BY <1>2, <2>2 DEF Distinct
  <2>4. s[1] \notin ToSet(r)
    BY <1>1, <1>2, <1>4, <2>1 DEF ToSet, Distinct
  <2>5. QED
    BY <2>3, <2>4
<1>5. QED
  BY <1>1, <1>3, <1>4 DEF r

LEMMA ConcatElements ==
  ASSUME NEW S, NEW s \in Seq(S), NEW u \in Seq(S)
  PROVE  s \o u \in Seq(S) /\ ToSet(s \o u) = ToSet(s) \cup ToSet(u)
<1> DEFINE c == s \o u
<1>1. /\ c \in Seq(S) /\ Len(c) = Len(s) + Len(u)
      /\ \A i \in 1 .. Len(s) : c[i] = s[i]
      /\ \A i \in 1 .. Len(u) : c[Len(s) + i] = u[i]
  OBVIOUS
<1>2. /\ DOMAIN c = 1 .. Len(s) + Len(u) /\ DOMAIN s = 1 .. Len(s) /\ DOMAIN u = 1 .. Len(u)
      /\ Len(s) \in Nat /\ Len(u) \in Nat
  BY <1>1
<1> HIDE DEF c
<1>3. ASSUME NEW i \in DOMAIN c
      PROVE  c[i] \in ToSet(s) \cup ToSet(u)
  <2>1. CASE i <= Len(s)
    BY <1>1, <1>2, <2>1 DEF ToSet
  <2>2. CASE i > Len(s)
    <3>1. i - Len(s) \in DOMAIN u /\ c[i] = u[i - Len(s)]
      <4>1. i - Len(s) \in 1 .. Len(u) /\ Len(s) + (i - Len(s)) = i
        BY <1>2, <2>2
      <4>2. QED
        BY <1>1, <1>2, <4>1
    <3>2. QED
      BY <3>1 DEF ToSet
  <2>3. QED
    BY <1>2, <2>1, <2>2
<1>4. ASSUME NEW i \in DOMAIN s
      PROVE  s[i] \in ToSet(c)
  BY <1>1, <1>2 DEF ToSet
<1>5. ASSUME NEW i \in DOMAIN u
      PROVE  u[i] \in ToSet(c)
  <2>1. Len(s) + i \in DOMAIN c /\ c[Len(s) + i] = u[i]
    BY <1>1, <1>2
  <2>2. QED
    BY <2>1 DEF ToSet
<1>6. ToSet(c) = ToSet(s) \cup ToSet(u)
  BY <1>3, <1>4, <1>5 DEF ToSet
<1>7. QED
  BY <1>1, <1>6 DEF c

\* A sequence cut in two.
LEMMA SplitElements ==
  ASSUME NEW S, NEW s \in Seq(S), NEW n \in DOMAIN s
  PROVE  LET batch == {s[i] : i \in 1 .. n}
             rest  == SubSeq(s, n + 1, Len(s))
         IN /\ rest \in Seq(S) /\ batch \subseteq S
            /\ batch # {} /\ ToSet(s) = batch \cup ToSet(rest)
            /\ Distinct(s) => Distinct(rest) /\ batch \cap ToSet(rest) = {}
<1> DEFINE batch == {s[i] : i \in 1 .. n}
           r == SubSeq(s, n + 1, Len(s))
<1>1. n \in 1 .. Len(s) /\ Len(s) \in Nat /\ DOMAIN s = 1 .. Len(s)
  OBVIOUS
<1>2. /\ r \in Seq(S) /\ Len(r) = Len(s) - n
      /\ \A i \in 1 .. Len(s) - n : r[i] = s[n + i]
  BY <1>1
<1>3. DOMAIN r = 1 .. Len(s) - n
  BY <1>2
<1> HIDE DEF r
<1>4. batch \subseteq S /\ s[1] \in batch
  BY <1>1
<1>5. ASSUME NEW i \in DOMAIN s
      PROVE  s[i] \in batch \cup ToSet(r)
  <2>1. CASE i <= n
    BY <1>1, <2>1
  <2>2. CASE i > n
    <3>1. i - n \in 1 .. Len(s) - n /\ n + (i - n) = i
      BY <1>1, <2>2
    <3>2. i - n \in DOMAIN r /\ r[i - n] = s[i]
      BY <1>2, <1>3, <3>1
    <3>3. QED
      BY <3>2 DEF ToSet
  <2>3. QED
    BY <1>1, <2>1, <2>2
<1>6. ASSUME NEW i \in DOMAIN r
      PROVE  n + i \in DOMAIN s /\ r[i] = s[n + i] /\ n + i \notin 1 .. n
  BY <1>1, <1>2, <1>3
<1>7. ToSet(s) = batch \cup ToSet(r)
  <2>1. \A x \in ToSet(s) : x \in batch \cup ToSet(r)
    BY <1>5 DEF ToSet
  <2>2. \A x \in ToSet(r) : x \in ToSet(s)
    BY <1>6 DEF ToSet
  <2>3. \A x \in batch : x \in ToSet(s)
    BY <1>1 DEF ToSet
  <2>4. QED
    BY <2>1, <2>2, <2>3
<1>8. ASSUME Distinct(s)
      PROVE  Distinct(r) /\ batch \cap ToSet(r) = {}
  <2>1. \A i, j \in DOMAIN r : r[i] = r[j] => n + i = n + j
    BY <1>6, <1>8 DEF Distinct
  <2>2. Distinct(r)
    BY <1>1, <1>3, <2>1 DEF Distinct
  <2>3. ASSUME NEW i \in 1 .. n, NEW j \in DOMAIN r, s[i] = r[j]
        PROVE  FALSE
    <3>1. i \in DOMAIN s /\ i = n + j
      BY <1>1, <1>6, <1>8, <2>3 DEF Distinct
    <3>2. QED
      BY <1>6, <3>1
  <2>4. QED
    BY <2>2, <2>3 DEF ToSet
<1>9. QED
  BY <1>2, <1>4, <1>7, <1>8 DEF r

\* A set in some order.
LEMMA OrderElements ==
  ASSUME NEW T, IsFiniteSet(T), NEW order \in SetToSeqs(T)
  PROVE  order \in Seq(T) /\ ToSet(order) = T
<1> DEFINE D == 1 .. Cardinality(T)
<1>1. Cardinality(T) \in Nat
  BY FS_CardinalityType
<1>2. /\ order \in [D -> T] /\ DOMAIN order = D
      /\ \A i, j \in D : i # j => order[i] # order[j]
  BY DEF SetToSeqs
<1>3. order \in Seq(T)
  BY <1>1, <1>2
<1>4. order \in Injection(D, T)
  BY <1>2 DEF Injection, IsInjective
<1>5. IsFiniteSet(D) /\ Cardinality(D) = Cardinality(T)
  <2>1. 1 \in Int /\ Cardinality(T) \in Int
    BY <1>1
  <2>2. /\ IsFiniteSet(1 .. Cardinality(T))
        /\ Cardinality(1 .. Cardinality(T)) =
             IF 1 > Cardinality(T) THEN 0 ELSE Cardinality(T) - 1 + 1
    BY <2>1, FS_Interval
  <2>3. QED
    BY <1>1, <2>2
<1> HIDE DEF D
<1>6. order \in Surjection(D, T)
  BY <1>4, <1>5, FS_Injection
<1>7. QED
  BY <1>2, <1>3, <1>6 DEF Surjection, ToSet

-----------------------------------------------------------------------------
(* The tools named by the events that wait to be yielded *)

LEMMA NoEvents ==
  \A kind : EvOf(<<>>, kind) = {}
BY NoElements DEF EvOf

LEMMA EventAppended ==
  ASSUME NEW events \in Seq(EventType), NEW k \in {"started", "blocked", "progressed", "finished"},
         NEW t \in Tool
  PROVE  /\ Append(events, <<k, t>>) \in Seq(EventType)
         /\ EvOf(Append(events, <<k, t>>), k) = EvOf(events, k) \cup {t}
         /\ \A kind : kind # k => EvOf(Append(events, <<k, t>>), kind) = EvOf(events, kind)
<1>1. <<k, t>> \in EventType
  BY DEF EventType
<1>2. /\ Append(events, <<k, t>>) \in Seq(EventType)
      /\ ToSet(Append(events, <<k, t>>)) = ToSet(events) \cup {<<k, t>>}
  BY <1>1, AppendElements
<1>3. QED
  BY <1>2 DEF EvOf

LEMMA EventTaken ==
  ASSUME NEW events \in Seq(EventType), events # <<>>
  PROVE  /\ Tail(events) \in Seq(EventType)
         /\ \E k \in {"started", "blocked", "progressed", "finished"}, t \in Tool :
              /\ Head(events)[1] = k /\ Head(events)[2] = t
              /\ EvOf(events, k) = EvOf(Tail(events), k) \cup {t}
              /\ \A kind : kind # k => EvOf(events, kind) = EvOf(Tail(events), kind)
<1>1. /\ Head(events) \in EventType /\ Tail(events) \in Seq(EventType)
      /\ ToSet(events) = ToSet(Tail(events)) \cup {Head(events)}
  BY TailElements
<1>2. PICK k \in {"started", "blocked", "progressed", "finished"}, t \in Tool : Head(events) = <<k, t>>
  BY <1>1 DEF EventType
<1>3. /\ EvOf(events, k) = EvOf(Tail(events), k) \cup {t}
      /\ \A kind : kind # k => EvOf(events, kind) = EvOf(Tail(events), kind)
  BY <1>1, <1>2 DEF EvOf
<1>4. QED
  BY <1>1, <1>2, <1>3

LEMMA EventsAdded ==
  ASSUME NEW events \in Seq(EventType), NEW k \in {"started", "blocked", "progressed", "finished"},
         NEW tools \in Seq(Tool)
  PROVE  /\ events \o Events(k, tools) \in Seq(EventType)
         /\ EvOf(events \o Events(k, tools), k) = EvOf(events, k) \cup ToSet(tools)
         /\ \A kind : kind # k => EvOf(events \o Events(k, tools), kind) = EvOf(events, kind)
<1> DEFINE new == Events(k, tools)
<1>1. new \in Seq(EventType) /\ DOMAIN new = DOMAIN tools /\ \A i \in DOMAIN tools : new[i] = <<k, tools[i]>>
  <2>1. DOMAIN tools = 1 .. Len(tools) /\ Len(tools) \in Nat /\ \A i \in DOMAIN tools : tools[i] \in Tool
    OBVIOUS
  <2>2. \A i \in DOMAIN tools : <<k, tools[i]>> \in EventType
    BY <2>1 DEF EventType
  <2>3. new \in [1 .. Len(tools) -> EventType]
    BY <2>1, <2>2 DEF Events
  <2>4. QED
    BY <2>1, <2>3 DEF Events
<1> HIDE DEF new
<1>2. /\ events \o new \in Seq(EventType)
      /\ ToSet(events \o new) = ToSet(events) \cup ToSet(new)
  BY <1>1, ConcatElements
<1>3. ToSet(new) = {<<k, t>> : t \in ToSet(tools)}
  BY <1>1 DEF ToSet
<1>4. ToSet(tools) \subseteq Tool
  BY ElementsTyped
<1>5. /\ EvOf(events \o new, k) = EvOf(events, k) \cup ToSet(tools)
      /\ \A kind : kind # k => EvOf(events \o new, kind) = EvOf(events, kind)
  BY <1>2, <1>3, <1>4 DEF EvOf
<1>6. QED
  BY <1>2, <1>5 DEF new

-----------------------------------------------------------------------------
(* What a step leaves alone *)

SameSeen ==
    /\ seen' \in SeenType /\ seen'.complete = seen.complete
    /\ seen'.started = seen.started /\ seen'.progressed = seen.progressed
    /\ seen'.finished = seen.finished /\ seen'.blocked = seen.blocked

SameTools == SameSeen /\ UNCHANGED <<pending, exec, task, relay, channel>>

LEMMA FaultTyped ==
  ASSUME Typed, NEW CONSTANT kind, Fault(kind)
  PROVE  faults' \in 0 .. MaxFaults
BY StreamAssumption DEF Typed, Fault

\* An Err reaches the consumer, or nothing does.
LEMMA ErrorSeen ==
  ASSUME Typed, seen' = seen \/ seen' = [seen EXCEPT !.error = TRUE]
  PROVE  SameSeen
BY DEF Typed, SeenType, SameSeen

\* What is said of the tools alone holds as long as they are left alone.
LEMMA ToolsKept ==
  ASSUME Fresh, Tasks, Announced, SerialAlone, SameTools
  PROVE  Fresh' /\ Tasks' /\ Announced' /\ SerialAlone'
BY DEF Fresh, Tasks, Announced, SerialAlone, SameTools, SameSeen, Queue, Ended, Running, Ev

\* A run that fails is over: what is left of the turn does not matter any more.
LEMMA FailKeeps ==
  ASSUME IInv, Fail, Counted', Saves', faults' \in 0 .. MaxFaults,
         pending' \in {pending, <<>>},
         UNCHANGED <<after, stuck, shutdown, exec, task, relay, channel, open>>
  PROVE  IInv'
<1>1. SameSeen /\ phase' = "done"
  BY ErrorSeen DEF IInv, Fail
<1>2. Typed'
  BY <1>1, NoElements DEF IInv, Typed, SameSeen, Phase
<1>3. Quiet' /\ Shape' /\ Touched' /\ Answered' /\ Settled'
  BY <1>1 DEF Quiet, Shape, Touched, Answered, Settled, InTools
<1>4. Accounted'
  BY <1>1 DEF IInv, Accounted, SameSeen, Panicked
<1>5. Fresh' /\ Tasks' /\ Announced' /\ SerialAlone'
  <2>1. CASE pending' = pending
    BY <1>1, <2>1, ToolsKept DEF IInv, SameTools
  <2>2. CASE pending' = <<>>
    BY <1>1, <2>2, NoElements
    DEF IInv, SameSeen, Fresh, Tasks, Announced, SerialAlone, Queue, Ended, Running, Ev
  <2>3. QED
    BY <2>1, <2>2
<1>6. QED
  BY <1>2, <1>3, <1>4, <1>5 DEF IInv

-----------------------------------------------------------------------------
(* Steps outside the tool phases *)

LEMMA GateKeeps ==
  ASSUME IInv, Gate
  PROVE  IInv'
<1>1. SameTools
  BY ErrorSeen DEF IInv, Gate, SameTools, toolVars, sessionVars, saveVars
<1>2. Typed'
  BY <1>1 DEF IInv, Typed, Phase, Gate, SameTools, SameSeen, SaveThen, toolVars, sessionVars,
      saveVars
<1>3. Counted' /\ Saves'
  BY StreamAssumption DEF IInv, Typed, Counted, Saves, WriteType, Gate, SaveThen, toolVars,
      sessionVars, saveVars
<1>4. Quiet' /\ Shape' /\ Touched'
  BY DEF IInv, Quiet, Shape, Touched, InTools, Running, Gate, SaveThen, toolVars, sessionVars,
      saveVars
<1>5. Answered' /\ Accounted' /\ Settled'
  BY <1>1 DEF IInv, Saves, Shape, Answered, Accounted, Settled, InTools, Panicked, Queue, Ev,
      Gate, SameTools, SameSeen, SaveThen, toolVars, sessionVars, saveVars
<1>6. QED
  BY <1>1, <1>2, <1>3, <1>4, <1>5, ToolsKept DEF IInv

LEMMA SendKeeps ==
  ASSUME IInv, Send
  PROVE  IInv'
<1>1. SameTools
  BY ErrorSeen DEF IInv, Send, SameTools, toolVars, sessionVars, saveVars
<1>2. Typed'
  BY <1>1 DEF IInv, Typed, Phase, Send, SameTools, SameSeen, toolVars, sessionVars, saveVars
<1>3. Counted' /\ Saves'
  BY DEF IInv, Typed, Counted, Saves, WriteType, Send, toolVars, sessionVars, saveVars
<1>4. Quiet' /\ Shape' /\ Touched'
  BY DEF IInv, Quiet, Shape, Touched, InTools, Running, Send, toolVars, sessionVars, saveVars
<1>5. Answered' /\ Accounted' /\ Settled'
  BY <1>1 DEF IInv, Saves, Shape, Answered, Accounted, Settled, InTools, Panicked, Queue, Ev,
      Send, SameTools, SameSeen, toolVars, sessionVars, saveVars
<1>6. QED
  BY <1>1, <1>2, <1>3, <1>4, <1>5, ToolsKept DEF IInv

LEMMA SendRecoversKeeps ==
  ASSUME IInv, SendRecovers
  PROVE  IInv'
<1>1. SameTools
  BY ErrorSeen DEF IInv, SendRecovers, SameTools, toolVars, saveVars
<1>2. Typed'
  BY <1>1 DEF IInv, Typed, Phase, SendRecovers, SameTools, SameSeen, toolVars, saveVars
<1>3. Counted' /\ Saves'
  BY DEF IInv, Typed, Counted, Saves, WriteType, SendRecovers, toolVars, saveVars
<1>4. Quiet' /\ Shape' /\ Touched'
  BY DEF IInv, Quiet, Shape, Touched, InTools, Running, SendRecovers, toolVars, saveVars
<1>5. Answered' /\ Accounted' /\ Settled'
  BY <1>1 DEF IInv, Saves, Shape, Answered, Accounted, Settled, InTools, Panicked, Queue, Ev,
      SendRecovers, SameTools, SameSeen, toolVars, saveVars
<1>6. QED
  BY <1>1, <1>2, <1>3, <1>4, <1>5, ToolsKept DEF IInv

LEMMA ChunkEndKeeps ==
  ASSUME IInv, ChunkEnd
  PROVE  IInv'
<1>1. SameTools
  BY ErrorSeen DEF IInv, ChunkEnd, SameTools, toolVars, sessionVars, saveVars
<1>2. Typed'
  BY <1>1 DEF IInv, Typed, Phase, ChunkEnd, SameTools, SameSeen, toolVars, sessionVars, saveVars
<1>3. Counted' /\ Saves'
  BY DEF IInv, Typed, Counted, Saves, WriteType, ChunkEnd, toolVars, sessionVars, saveVars
<1>4. Quiet' /\ Shape' /\ Touched'
  BY DEF IInv, Quiet, Shape, Touched, InTools, Running, ChunkEnd, toolVars, sessionVars, saveVars
<1>5. Answered' /\ Accounted' /\ Settled'
  BY <1>1 DEF IInv, Saves, Shape, Answered, Accounted, Settled, InTools, Panicked, Queue, Ev,
      ChunkEnd, SameTools, SameSeen, toolVars, sessionVars, saveVars
<1>6. QED
  BY <1>1, <1>2, <1>3, <1>4, <1>5, ToolsKept DEF IInv

LEMMA EmittedKeeps ==
  ASSUME IInv, Emitted
  PROVE  IInv'
<1>1. SameTools
  BY ErrorSeen DEF IInv, Emitted, SameTools, toolVars, sessionVars, saveVars
<1>2. Typed'
  BY <1>1 DEF IInv, Typed, Phase, Emitted, SameTools, SameSeen, toolVars, sessionVars, saveVars
<1>3. Counted' /\ Saves'
  BY DEF IInv, Typed, Counted, Saves, WriteType, Emitted, toolVars, sessionVars, saveVars
<1>4. Quiet' /\ Shape' /\ Touched'
  BY DEF IInv, Quiet, Shape, Touched, InTools, Running, Emitted, toolVars, sessionVars, saveVars
<1>5. Answered' /\ Accounted' /\ Settled'
  BY <1>1 DEF IInv, Saves, Shape, Answered, Accounted, Settled, InTools, Panicked, Queue, Ev,
      Emitted, SameTools, SameSeen, toolVars, sessionVars, saveVars
<1>6. QED
  BY <1>1, <1>2, <1>3, <1>4, <1>5, ToolsKept DEF IInv

LEMMA SaveStartsKeeps ==
  ASSUME IInv, SaveStarts
  PROVE  IInv'
<1>1. SameTools
  BY ErrorSeen DEF IInv, SaveStarts, SameTools, streamVars, toolVars, sessionVars
<1>2. Typed'
  BY <1>1 DEF IInv, Typed, Phase, SaveStarts, SameTools, SameSeen, streamVars, toolVars, sessionVars
<1>3. Counted' /\ Saves'
  BY DEF IInv, Typed, Counted, Saves, WriteType, SaveStarts, streamVars, toolVars, sessionVars
<1>4. Quiet' /\ Shape' /\ Touched'
  BY DEF IInv, Quiet, Shape, Touched, InTools, Running, SaveStarts, streamVars, toolVars,
      sessionVars
<1>5. Answered' /\ Accounted' /\ Settled'
  BY <1>1 DEF IInv, Saves, Shape, Answered, Accounted, Settled, InTools, Panicked, Queue, Ev,
      SaveStarts, SameTools, SameSeen, streamVars, toolVars, sessionVars
<1>6. QED
  BY <1>1, <1>2, <1>3, <1>4, <1>5, ToolsKept DEF IInv

LEMMA DetachedStartsKeeps ==
  ASSUME IInv, DetachedStarts
  PROVE  IInv'
<1>1. SameTools
  BY ErrorSeen DEF IInv, DetachedStarts, SameTools, streamVars, toolVars, sessionVars
<1>2. Typed'
  BY <1>1 DEF IInv, Typed, Phase, DetachedStarts, SameTools, SameSeen, streamVars, toolVars,
      sessionVars
<1>3. Counted' /\ Saves'
  BY DEF IInv, Typed, Counted, Saves, WriteType, DetachedStarts, streamVars, toolVars, sessionVars
<1>4. Quiet' /\ Shape' /\ Touched'
  <2>1. UNCHANGED <<streamVars, toolVars>>
    BY DEF DetachedStarts
  <2>2. QED
    BY <2>1 DEF IInv, Quiet, Shape, Touched, InTools, Running, Panicked, streamVars, toolVars
<1>5. Answered' /\ Accounted' /\ Settled'
  BY <1>1 DEF IInv, Saves, Shape, Answered, Accounted, Settled, InTools, Panicked, Queue, Ev,
      DetachedStarts, SameTools, SameSeen, streamVars, toolVars, sessionVars
<1>6. QED
  BY <1>1, <1>2, <1>3, <1>4, <1>5, ToolsKept DEF IInv

LEMMA ShutdownKeeps ==
  ASSUME IInv, Shutdown
  PROVE  IInv'
<1>1. SameTools
  BY ErrorSeen DEF IInv, Shutdown, SameTools, streamVars, toolVars, sessionVars, saveVars
<1>2. Typed'
  BY <1>1, FaultTyped DEF IInv, Typed, Phase, Shutdown, SameTools, SameSeen, streamVars,
      toolVars, sessionVars, saveVars
<1>3. Counted' /\ Saves'
  BY DEF IInv, Typed, Counted, Saves, WriteType, Shutdown, streamVars, toolVars, sessionVars,
      saveVars
<1>4. Quiet' /\ Shape' /\ Touched'
  <2>1. UNCHANGED <<streamVars, toolVars>>
    BY DEF Shutdown
  <2>2. QED
    BY <2>1 DEF IInv, Quiet, Shape, Touched, InTools, Running, Panicked, streamVars, toolVars
<1>5. Answered' /\ Accounted' /\ Settled'
  BY <1>1 DEF IInv, Saves, Shape, Answered, Accounted, Settled, InTools, Panicked, Queue, Ev,
      Shutdown, SameTools, SameSeen, streamVars, toolVars, sessionVars, saveVars
<1>6. QED
  BY <1>1, <1>2, <1>3, <1>4, <1>5, ToolsKept DEF IInv

LEMMA ChunkErrorKeeps ==
  ASSUME IInv, ChunkError
  PROVE  IInv'
<1>1. SameTools
  BY ErrorSeen DEF IInv, ChunkError, SameTools, streamVars, toolVars, sessionVars, saveVars
<1>2. Typed'
  BY <1>1, FaultTyped DEF IInv, Typed, Phase, ChunkError, SameTools, SameSeen, streamVars,
      toolVars, sessionVars, saveVars
<1>3. Counted' /\ Saves'
  BY DEF IInv, Typed, Counted, Saves, WriteType, ChunkError, streamVars, toolVars, sessionVars,
      saveVars
<1>4. Quiet' /\ Shape' /\ Touched'
  BY DEF IInv, Quiet, Shape, Touched, InTools, Running, ChunkError, streamVars, toolVars,
      sessionVars, saveVars
<1>5. Answered' /\ Accounted' /\ Settled'
  BY <1>1 DEF IInv, Saves, Shape, Answered, Accounted, Settled, InTools, Panicked, Queue, Ev,
      ChunkError, SameTools, SameSeen, streamVars, toolVars, sessionVars, saveVars
<1>6. QED
  BY <1>1, <1>2, <1>3, <1>4, <1>5, ToolsKept DEF IInv

LEMMA SubmitPromptKeeps ==
  ASSUME IInv, SubmitPrompt
  PROVE  IInv'
<1>1. CASE Record(1) /\ SaveThen("skill") /\ UNCHANGED <<seen, faults>>
  <2>1. SameTools
    BY <1>1, ErrorSeen DEF IInv, SubmitPrompt, SameTools, streamVars, toolVars
  <2>2. Typed'
    BY <1>1, <2>1 DEF IInv, Typed, Phase, SubmitPrompt, SameTools, SameSeen, SaveThen, toolVars
  <2>3. Counted' /\ Saves'
    BY <1>1 DEF IInv, Counted, Saves, WriteType, SubmitPrompt, SaveThen, Record, saveVars
  <2>4. Quiet' /\ Shape' /\ Touched'
    BY <1>1 DEF IInv, Quiet, Shape, Touched, InTools, Running, SubmitPrompt, SaveThen, toolVars
  <2>5. Answered' /\ Accounted' /\ Settled'
    BY <1>1, <2>1 DEF IInv, Answered, Accounted, Settled, InTools, Panicked, Ev,
                      SubmitPrompt, SameTools, SameSeen, SaveThen
  <2>6. QED
    BY <2>1, <2>2, <2>3, <2>4, <2>5, ToolsKept DEF IInv
<1>2. CASE Fault("error") /\ Fail /\ UNCHANGED <<after, version, recorded>>
  <2>1. Counted' /\ Saves'
    BY <1>2 DEF IInv, Counted, Saves, SubmitPrompt, Fail, saveVars
  <2>2. QED
    BY <1>2, <2>1, FaultTyped, FailKeeps DEF IInv, SubmitPrompt, toolVars
<1>3. QED
  BY <1>1, <1>2 DEF SubmitPrompt

LEMMA SkillCommandKeeps ==
  ASSUME IInv, SkillCommand
  PROVE  IInv'
<1>1. CASE phase' = "start" /\ UNCHANGED <<after, version, recorded, seen, faults>>
  <2>1. SameTools
    BY <1>1, ErrorSeen DEF IInv, SkillCommand, SameTools, streamVars, toolVars
  <2>2. Typed'
    BY <1>1, <2>1 DEF IInv, Typed, Phase, SkillCommand, SameTools, SameSeen, toolVars
  <2>3. Counted' /\ Saves'
    BY <1>1 DEF IInv, Counted, Saves, WriteType, SkillCommand, saveVars
  <2>4. Quiet' /\ Shape' /\ Touched'
    BY <1>1 DEF IInv, Quiet, Shape, Touched, InTools, Running, SkillCommand, toolVars
  <2>5. Answered' /\ Accounted' /\ Settled'
    BY <1>1, <2>1 DEF IInv, Answered, Accounted, Settled, InTools, Panicked, Ev,
                      SkillCommand, SameTools, SameSeen, saveVars
  <2>6. QED
    BY <2>1, <2>2, <2>3, <2>4, <2>5, ToolsKept DEF IInv
<1>2. CASE Record(1) /\ SaveThen("start") /\ UNCHANGED <<seen, faults>>
  <2>1. SameTools
    BY <1>2, ErrorSeen DEF IInv, SkillCommand, SameTools, streamVars, toolVars
  <2>2. Typed'
    BY <1>2, <2>1 DEF IInv, Typed, Phase, SkillCommand, SameTools, SameSeen, SaveThen, toolVars
  <2>3. Counted' /\ Saves'
    BY <1>2 DEF IInv, Counted, Saves, WriteType, SkillCommand, SaveThen, Record, saveVars
  <2>4. Quiet' /\ Shape' /\ Touched'
    BY <1>2 DEF IInv, Quiet, Shape, Touched, InTools, Running, SkillCommand, SaveThen, toolVars
  <2>5. Answered' /\ Accounted' /\ Settled'
    BY <1>2, <2>1 DEF IInv, Answered, Accounted, Settled, InTools, Panicked, Ev,
                      SkillCommand, SameTools, SameSeen, SaveThen
  <2>6. QED
    BY <2>1, <2>2, <2>3, <2>4, <2>5, ToolsKept DEF IInv
<1>3. CASE Fault("error") /\ Fail /\ UNCHANGED <<after, version, recorded>>
  <2>1. Counted' /\ Saves'
    BY <1>3 DEF IInv, Counted, Saves, SkillCommand, Fail, saveVars
  <2>2. QED
    BY <1>3, <2>1, FaultTyped, FailKeeps DEF IInv, SkillCommand, toolVars
<1>4. QED
  BY <1>1, <1>2, <1>3 DEF SkillCommand

LEMMA SendInvalidKeeps ==
  ASSUME IInv, SendInvalid
  PROVE  IInv'
<1>1. attempts' = attempts + 1 /\ attempts < iterations /\ iterations' = iterations
  BY DEF IInv, Counted, SendInvalid
<1>2. Counted'
  BY <1>1, StreamAssumption DEF IInv, Counted, SendInvalid, Fail
<1>3. Saves'
  BY DEF IInv, Saves, SendInvalid, sessionVars, saveVars
<1>4. CASE Fail
  BY <1>2, <1>3, <1>4, FailKeeps DEF IInv, Typed, SendInvalid, toolVars, sessionVars
<1>5. CASE phase' = "start" /\ UNCHANGED seen
  <2>1. SameTools
    BY <1>5, ErrorSeen DEF IInv, SendInvalid, SameTools, toolVars
  <2>2. Typed'
    BY <1>5, <2>1 DEF IInv, Typed, Phase, SendInvalid, SameTools, SameSeen, toolVars, sessionVars
  <2>3. Quiet' /\ Shape' /\ Touched'
    BY <1>5 DEF IInv, Quiet, Shape, Touched, InTools, Running, SendInvalid, toolVars
  <2>4. Answered' /\ Accounted' /\ Settled'
    BY <1>5, <2>1 DEF IInv, Answered, Accounted, Settled, InTools, Panicked, Ev,
                      SendInvalid, SameTools, SameSeen, sessionVars, saveVars
  <2>5. QED
    BY <1>2, <1>3, <2>1, <2>2, <2>3, <2>4, ToolsKept DEF IInv
<1>6. QED
  BY <1>4, <1>5 DEF SendInvalid

\* The failures that leave everything but the phase and the pending calls alone.
LEMMA FailuresKeep ==
  ASSUME IInv, SendFails \/ EndFails \/ PlanFails \/ FinalizeFails \/ Interrupt
  PROVE  IInv'
<1>1. /\ Fault("error") /\ Fail /\ phase # "save" /\ pending' \in {pending, <<>>}
      /\ UNCHANGED <<after, iterations, attempts, stuck, exec, toolVars, sessionVars, saveVars,
         shutdown>>
  BY DEF SendFails, EndFails, PlanFails, FinalizeFails, Interrupt
<1>2. Counted' /\ Saves'
  BY <1>1 DEF IInv, Counted, Saves, Fail, sessionVars, saveVars
<1>3. QED
  BY <1>1, <1>2, FaultTyped, FailKeeps DEF IInv, toolVars, sessionVars

LEMMA CompleteKeeps ==
  ASSUME IInv, Complete
  PROVE  IInv'
<1>1. /\ seen' \in SeenType /\ phase' = "done"
      /\ seen'.started = seen.started /\ seen'.progressed = seen.progressed
      /\ seen'.finished = seen.finished /\ seen'.blocked = seen.blocked
  BY DEF IInv, Typed, SeenType, Complete
<1>2. Typed'
  BY <1>1 DEF IInv, Typed, Phase, Complete, toolVars, sessionVars
<1>3. Counted' /\ Saves'
  BY DEF IInv, Counted, Saves, Complete, sessionVars, saveVars
<1>4. Quiet' /\ Shape' /\ Touched' /\ Answered' /\ Settled'
  BY <1>1 DEF Quiet, Shape, Touched, Answered, Settled, InTools
<1>5. Accounted'
  <2>1. exec.events = <<>> /\ exec.prepared = <<>> /\ exec.waiting = <<>>
        /\ exec.handles = {} /\ exec.completed = {}
    BY DEF IInv, Shape, InTools, Complete
  <2>2. seen.started \subseteq seen.finished \cup seen.blocked \cup Panicked
    BY <2>1, NoElements, NoEvents DEF IInv, Accounted, Complete, Ev
  <2>3. QED
    BY <1>1, <2>2 DEF Accounted, Complete, Panicked, toolVars
<1>6. Fresh' /\ Tasks' /\ Announced' /\ SerialAlone'
  BY <1>1
  DEF IInv, Fresh, Tasks, Announced, SerialAlone, Queue, Ended, Running, Ev, Complete, toolVars
<1>7. QED
  BY <1>2, <1>3, <1>4, <1>5, <1>6 DEF IInv

LEMMA SaveLandsKeeps ==
  ASSUME IInv, NEW w \in writes, SaveLands(w)
  PROVE  IInv'
<1>1. writes = {w} /\ writes' = {} /\ w \in WriteType /\ w.version = version /\ phase = "save"
  BY DEF IInv, Saves, SaveLands
<1>2. Counted'
  BY <1>1 DEF IInv, Typed, Counted, Phase, SaveLands, Fail
<1>3. CASE durable' = w.version /\ phase' = after /\ UNCHANGED <<seen, faults>>
  <2>1. SameTools
    BY <1>3, ErrorSeen DEF IInv, SaveLands, SameTools, toolVars
  <2>2. Typed'
    BY <1>1, <1>3, <2>1
    DEF IInv, Typed, Phase, SaveLands, SameTools, SameSeen, toolVars, sessionVars
  <2>3. Saves'
    BY <1>1, <1>3 DEF IInv, Saves, WriteType, SaveLands, sessionVars
  <2>4. after \in {"skill", "start", "emitting", "complete"}
    BY <1>1 DEF IInv, Typed
  <2>5. Quiet' /\ Shape' /\ Touched'
    BY <1>1, <1>3, <2>4 DEF IInv, Quiet, Shape, Touched, InTools, Running, SaveLands, toolVars
  <2>6. Answered' /\ Accounted' /\ Settled'
    BY <1>1, <1>3, <2>1, <2>4 DEF IInv, Saves, Answered, Accounted, Settled, InTools, Panicked, Ev,
                      SaveLands, SameTools, SameSeen, sessionVars
  <2>7. QED
    BY <1>2, <2>1, <2>2, <2>3, <2>5, <2>6, ToolsKept DEF IInv
<1>4. CASE Fault("save") /\ Fail /\ UNCHANGED durable
  <2>1. Saves'
    BY <1>1, <1>4 DEF IInv, Saves, WriteType, SaveLands, sessionVars
  <2>2. QED
    BY <1>2, <1>4, <2>1, FaultTyped, FailKeeps DEF IInv, SaveLands, toolVars, sessionVars
<1>5. QED
  BY <1>3, <1>4 DEF SaveLands

LEMMA DetachedLandsKeeps ==
  ASSUME IInv, NEW w \in writes, DetachedLands(w)
  PROVE  IInv'
<1>1. writes = {w} /\ writes' = {} /\ w \in WriteType /\ w.version <= version
  BY DEF IInv, Saves, DetachedLands
<1>2. durable' \in {w.version, durable} /\ faults' \in 0 .. MaxFaults
  BY FaultTyped DEF IInv, Typed, DetachedLands
<1>3. SameTools
  BY ErrorSeen DEF IInv, DetachedLands, SameTools, streamVars, toolVars
<1>4. Typed'
  BY <1>2, <1>3
  DEF IInv, Typed, DetachedLands, SameTools, SameSeen, streamVars, toolVars, sessionVars
<1>5. Counted' /\ Saves'
  BY <1>1, <1>2 DEF IInv, Counted, Saves, WriteType, DetachedLands, streamVars, sessionVars
<1>6. Quiet' /\ Shape' /\ Touched'
  BY
  DEF IInv, Quiet, Shape, Touched, InTools, Running, Panicked, DetachedLands, streamVars, toolVars
<1>7. Answered' /\ Accounted' /\ Settled'
  BY <1>1, <1>2, <1>3 DEF IInv, Saves, Answered, Accounted, Settled, InTools, Panicked, Queue, Ev,
                    DetachedLands, SameTools, SameSeen, streamVars, toolVars, sessionVars
<1>8. QED
  BY <1>3, <1>4, <1>5, <1>6, <1>7, ToolsKept DEF IInv

-----------------------------------------------------------------------------
(* The turn with its tools *)

LEMMA ChunkToolCallKeeps ==
  ASSUME IInv, NEW t \in Tool, ChunkToolCall(t)
  PROVE  IInv'
<1>1. /\ pending' = Append(pending, t) /\ phase = "streaming" /\ phase' = phase
      /\ task[t] = "none" /\ t \notin ToSet(pending) /\ t \notin seen.blocked
      /\ UNCHANGED <<after, iterations, attempts, exec, stuck, task, relay, channel, open, version,
                     recorded, durable, queued, writes, shutdown, seen, faults>>
  BY DEF ChunkToolCall, toolVars, sessionVars, saveVars
<1>2. /\ pending' \in Seq(Tool) /\ ToSet(pending') = ToSet(pending) \cup {t} /\ Distinct(pending')
  BY <1>1, AppendElements DEF IInv, Typed, Fresh
<1>3. /\ exec.prepared = <<>> /\ exec.waiting = <<>> /\ exec.blocked = {} /\ exec.events = <<>>
  BY <1>1 DEF IInv, Shape, InTools
<1>4. Typed' /\ Counted'
  BY <1>1, <1>2 DEF IInv, Typed, Counted
<1>5. Saves'
  BY <1>1 DEF IInv, Saves
<1>6. Quiet' /\ Shape' /\ Touched'
  BY <1>1 DEF IInv, Quiet, Shape, Touched, InTools, Running
<1>7. Fresh'
  BY <1>1, <1>2, <1>3, NoElements, NoEvents DEF IInv, Fresh, Queue, Ev
<1>8. Tasks' /\ Announced' /\ SerialAlone'
  BY <1>1 DEF IInv, Tasks, Announced, SerialAlone, Ended, Running, Ev
<1>9. Answered' /\ Accounted' /\ Settled'
  BY <1>1 DEF IInv, Answered, Accounted, Settled, InTools, Panicked, Ev
<1>10. QED
  BY <1>4, <1>5, <1>6, <1>7, <1>8, <1>9 DEF IInv

LEMMA EndRecordsKeeps ==
  ASSUME IInv, EndRecords
  PROVE  IInv'
<1>1. /\ phase = "ended" /\ version' = version + 1 /\ recorded' = version'
      /\ open' = open \cup ToSet(pending) /\ queued' = queued + 1
      /\ UNCHANGED <<iterations, attempts, pending, exec, stuck, task, relay, channel, durable,
         writes,
                     shutdown, seen, faults>>
  BY DEF EndRecords, Record, toolVars
<1>2. \/ pending = <<>> /\ phase' = "save" /\ after' = "complete"
      \/ pending # <<>> /\ phase' = "plan" /\ after' = after
  BY DEF EndRecords, SaveThen
<1>3. SameTools
  BY <1>1, ErrorSeen DEF IInv, SameTools
<1>4. Typed'
  <2>1. ToSet(pending) \subseteq Tool
    BY ElementsTyped DEF IInv, Typed
  <2>2. QED
    BY <1>1, <1>2, <1>3, <2>1 DEF IInv, Typed, Phase, SameTools, SameSeen
<1>5. Counted' /\ Saves'
  BY <1>1, <1>2 DEF IInv, Counted, Saves, WriteType
<1>6. Quiet' /\ Shape' /\ Touched'
  BY <1>1, <1>2 DEF IInv, Quiet, Shape, Touched, InTools, Running
<1>7. Answered' /\ Accounted' /\ Settled'
  BY <1>1, <1>2, <1>3, NoElements
  DEF IInv, Answered, Accounted, Settled, InTools, Panicked, Queue, Ev, SameTools, SameSeen
<1>8. QED
  BY <1>3, <1>4, <1>5, <1>6, <1>7, ToolsKept DEF IInv

LEMMA PlanCallKeeps ==
  ASSUME IInv, PlanCall
  PROVE  IInv'
<1> DEFINE t == Head(pending)
<1>1. /\ phase = "plan" /\ phase' = phase /\ pending # <<>> /\ pending' = Tail(pending)
      /\ UNCHANGED <<after, iterations, attempts, stuck, task, relay, channel, open, durable,
         queued,
                     writes, shutdown, seen, faults>>
  BY DEF PlanCall, toolVars, saveVars
<1>2. /\ t \in Tool /\ pending' \in Seq(Tool) /\ ToSet(pending) = ToSet(pending') \cup {t}
      /\ Distinct(pending') /\ t \notin ToSet(pending')
  BY <1>1, TailElements DEF IInv, Typed, Fresh
<1>3. /\ t \in ToSet(pending) /\ task[t] = "none"
      /\ t \notin seen.blocked \cup exec.blocked \cup Ev("blocked")
      /\ t \notin ToSet(exec.prepared) \cup ToSet(exec.waiting)
  BY <1>2 DEF IInv, Fresh, Queue
<1>4. exec.handles = {} /\ exec.completed = {} /\ relay = {} /\ channel = <<>> /\ Running = {}
  BY <1>1 DEF IInv, Quiet, Shape
<1> HIDE DEF t
<1>5. CASE exec' = Blocked(t) /\ UNCHANGED <<version, recorded>>
  <2>1. /\ exec' \in ExecType /\ exec'.events = Append(exec.events, <<"blocked", t>>)
        /\ exec'.blocked = exec.blocked \cup {t}
        /\ exec'.prepared = exec.prepared /\ exec'.waiting = exec.waiting
        /\ exec'.handles = exec.handles /\ exec'.completed = exec.completed
    <3>1. exec \in ExecType /\ exec.events \in Seq(EventType)
      BY DEF IInv, Typed, ExecType
    <3>2. Append(exec.events, <<"blocked", t>>) \in Seq(EventType)
      BY <1>2, <3>1, EventAppended
    <3>3. QED
      BY <1>2, <1>5, <3>1, <3>2 DEF Blocked, ExecType
  <2>2. /\ Ev("blocked")' = Ev("blocked") \cup {t} /\ Ev("started")' = Ev("started")
        /\ Ev("progressed")' = Ev("progressed") /\ Ev("finished")' = Ev("finished")
    BY <1>2, <2>1, EventAppended DEF IInv, Typed, ExecType, Ev
  <2>3. Typed' /\ Counted' /\ Saves'
    BY <1>1, <1>2, <1>5, <2>1 DEF IInv, Typed, Counted, Saves
  <2>4. Quiet' /\ Shape' /\ Touched'
    BY <1>1, <1>4, <2>1 DEF IInv, Quiet, Shape, Touched, InTools, Running
  <2>5. Fresh'
    BY <1>1, <1>2, <1>3, <2>1, <2>2 DEF IInv, Fresh, Queue
  <2>6. Tasks' /\ Announced' /\ SerialAlone'
    BY <1>1, <1>3, <2>1, <2>2 DEF IInv, Tasks, Announced, SerialAlone, Ended, Running
  <2>7. Answered' /\ Accounted' /\ Settled'
    BY <1>1, <1>2, <2>1, <2>2 DEF IInv, Answered, Accounted, Settled, InTools, Panicked, Queue
  <2>8. QED
    BY <2>3, <2>4, <2>5, <2>6, <2>7 DEF IInv
<1>6. CASE /\ exec' = [exec EXCEPT !.events = Append(@, <<"started", t>>),
                                   !.prepared = Append(@, t)]
           /\ Record(1)
  <2>1. /\ exec.prepared \in Seq(Tool) /\ Append(exec.prepared, t) \in Seq(Tool)
        /\ ToSet(Append(exec.prepared, t)) = ToSet(exec.prepared) \cup {t}
        /\ Distinct(Append(exec.prepared, t))
    <3>1. exec.prepared \in Seq(Tool)
      BY DEF IInv, Typed, ExecType
    <3>2. QED
      BY <1>2, <1>3, <3>1, AppendElements DEF IInv, Fresh
  <2>2. /\ exec' \in ExecType /\ exec'.events = Append(exec.events, <<"started", t>>)
        /\ exec'.prepared = Append(exec.prepared, t)
        /\ exec'.blocked = exec.blocked /\ exec'.waiting = exec.waiting
        /\ exec'.handles = exec.handles /\ exec'.completed = exec.completed
    <3>1. exec \in ExecType /\ exec.events \in Seq(EventType)
      BY DEF IInv, Typed, ExecType
    <3>2. Append(exec.events, <<"started", t>>) \in Seq(EventType)
      BY <1>2, <3>1, EventAppended
    <3>3. QED
      BY <1>6, <2>1, <3>1, <3>2 DEF ExecType
  <2>3. /\ Ev("started")' = Ev("started") \cup {t} /\ Ev("blocked")' = Ev("blocked")
        /\ Ev("progressed")' = Ev("progressed") /\ Ev("finished")' = Ev("finished")
    BY <1>2, <2>2, EventAppended DEF IInv, Typed, ExecType, Ev
  <2>4. Typed' /\ Counted' /\ Saves'
    <3>1. Typed'
      BY <1>1, <1>2, <2>2 DEF IInv, Typed
    <3>2. Counted' /\ Saves'
      BY <1>1, <1>6 DEF IInv, Counted, Saves, WriteType, Record
    <3>3. QED
      BY <3>1, <3>2
  <2>5. Quiet' /\ Shape' /\ Touched'
    <3>1. exec'.prepared # <<>>
      BY <2>1, <2>2, NoElements
    <3>2. QED
      BY <1>1, <1>4, <2>2, <3>1 DEF IInv, Quiet, Shape, Touched, InTools, Running
  <2>6. Fresh'
    BY <1>1, <1>2, <1>3, <2>1, <2>2, <2>3 DEF IInv, Fresh, Queue
  <2>7. Tasks' /\ Announced' /\ SerialAlone'
    BY <1>1, <2>1, <2>2, <2>3 DEF IInv, Tasks, Announced, SerialAlone, Ended, Running
  <2>8. Answered' /\ Accounted' /\ Settled'
    BY <1>1, <1>2, <2>1, <2>2, <2>3
    DEF IInv, Answered, Accounted, Settled, InTools, Panicked, Queue
  <2>9. QED
    BY <2>4, <2>5, <2>6, <2>7, <2>8 DEF IInv
<1>7. QED
  BY <1>5, <1>6 DEF PlanCall, t

LEMMA ValidateCallKeeps ==
  ASSUME IInv, ValidateCall
  PROVE  IInv'
<1> DEFINE t == Head(exec.prepared)
           rest == Tail(exec.prepared)
<1>1. /\ phase = "plan" /\ phase' = phase /\ pending = <<>> /\ pending' = <<>>
      /\ exec.prepared # <<>>
      /\ UNCHANGED <<after, iterations, attempts, stuck, task, relay, channel, open, version,
         recorded,
                     durable, queued, writes, shutdown, seen, faults>>
  BY DEF ValidateCall, toolVars, sessionVars, saveVars
<1>2. /\ exec \in ExecType /\ exec.events \in Seq(EventType)
      /\ exec.prepared \in Seq(Tool) /\ exec.waiting \in Seq(Tool)
  BY DEF IInv, Typed, ExecType
<1>3. /\ t \in Tool /\ rest \in Seq(Tool) /\ ToSet(exec.prepared) = ToSet(rest) \cup {t}
      /\ Distinct(rest) /\ t \notin ToSet(rest)
  BY <1>1, <1>2, TailElements DEF IInv, Fresh
<1>4. /\ t \in ToSet(exec.prepared) /\ task[t] = "none" /\ t \notin ToSet(exec.waiting)
      /\ t \notin seen.blocked \cup exec.blocked \cup Ev("blocked")
  BY <1>3 DEF IInv, Fresh, Queue
<1>5. /\ exec.handles = {} /\ exec.completed = {} /\ relay = {} /\ channel = <<>> /\ Running = {}
      /\ ToSet(pending) = {}
  BY <1>1, NoElements DEF IInv, Quiet, Shape
<1>6. Counted' /\ Saves'
  BY <1>1 DEF IInv, Counted, Saves
<1>7. \/ exec' = [Blocked(t) EXCEPT !.prepared = rest]
      \/ exec' = [exec EXCEPT !.prepared = rest, !.waiting = Append(@, t)]
  BY <1>2 DEF ValidateCall, Blocked, ExecType
<1> HIDE DEF t, rest
<1>8. CASE exec' = [Blocked(t) EXCEPT !.prepared = rest]
  <2>1. /\ exec' \in ExecType /\ exec'.events = Append(exec.events, <<"blocked", t>>)
        /\ exec'.blocked = exec.blocked \cup {t}
        /\ exec'.prepared = rest /\ exec'.waiting = exec.waiting
        /\ exec'.handles = exec.handles /\ exec'.completed = exec.completed
    <3>1. Append(exec.events, <<"blocked", t>>) \in Seq(EventType)
      BY <1>2, <1>3, EventAppended
    <3>2. QED
      BY <1>2, <1>3, <1>8, <3>1 DEF Blocked, ExecType
  <2>2. /\ Ev("blocked")' = Ev("blocked") \cup {t} /\ Ev("started")' = Ev("started")
        /\ Ev("progressed")' = Ev("progressed") /\ Ev("finished")' = Ev("finished")
    BY <1>2, <1>3, <2>1, EventAppended DEF Ev
  <2>3. Typed'
    BY <1>1, <2>1 DEF IInv, Typed
  <2>4. Quiet' /\ Shape' /\ Touched'
    BY <1>1, <1>5, <2>1 DEF IInv, Quiet, Shape, Touched, InTools, Running
  <2>5. Fresh'
    BY <1>1, <1>3, <1>4, <1>5, <2>1, <2>2 DEF IInv, Fresh, Queue
  <2>6. Tasks' /\ Announced' /\ SerialAlone'
    BY <1>1, <1>3, <1>4, <2>1, <2>2 DEF IInv, Tasks, Announced, SerialAlone, Ended, Running
  <2>7. Answered' /\ Accounted' /\ Settled'
    BY <1>1, <1>3, <2>1, <2>2 DEF IInv, Answered, Accounted, Settled, InTools, Panicked, Queue
  <2>8. QED
    BY <1>6, <2>3, <2>4, <2>5, <2>6, <2>7 DEF IInv
<1>9. CASE exec' = [exec EXCEPT !.prepared = rest, !.waiting = Append(@, t)]
  <2>1. /\ Append(exec.waiting, t) \in Seq(Tool)
        /\ ToSet(Append(exec.waiting, t)) = ToSet(exec.waiting) \cup {t}
        /\ Distinct(Append(exec.waiting, t))
    BY <1>2, <1>3, <1>4, AppendElements DEF IInv, Fresh
  <2>2. /\ exec' \in ExecType /\ exec'.events = exec.events
        /\ exec'.prepared = rest /\ exec'.waiting = Append(exec.waiting, t)
        /\ exec'.blocked = exec.blocked
        /\ exec'.handles = exec.handles /\ exec'.completed = exec.completed
    BY <1>2, <1>3, <1>9, <2>1 DEF ExecType
  <2>3. Typed'
    BY <1>1, <2>2 DEF IInv, Typed
  <2>4. Quiet' /\ Shape' /\ Touched'
    <3>1. exec'.waiting # <<>>
      BY <2>1, <2>2, NoElements
    <3>2. QED
      BY <1>1, <1>5, <2>2, <3>1 DEF IInv, Quiet, Shape, Touched, InTools, Running
  <2>5. Fresh'
    BY <1>1, <1>3, <1>4, <1>5, <2>1, <2>2 DEF IInv, Fresh, Queue, Ev
  <2>6. Tasks' /\ Announced' /\ SerialAlone'
    BY <1>1, <1>3, <2>1, <2>2 DEF IInv, Tasks, Announced, SerialAlone, Ended, Running, Ev
  <2>7. Answered' /\ Accounted' /\ Settled'
    BY <1>1, <1>3, <2>1, <2>2
    DEF IInv, Answered, Accounted, Settled, InTools, Panicked, Queue, Ev
  <2>8. QED
    BY <1>6, <2>3, <2>4, <2>5, <2>6, <2>7 DEF IInv
<1>10. QED
  BY <1>7, <1>8, <1>9

\* A batch starts: its calls were new, and if a serial tool is among them it is alone.
LEMMA BatchStarts ==
  ASSUME IInv, NEW x \in ExecType, SpawnBatch(x, exec.waiting)
  PROVE  \E batch \in SUBSET Tool, rest \in Seq(Tool) :
           /\ exec' \in ExecType
           /\ exec'.events = x.events /\ exec'.prepared = x.prepared /\ exec'.waiting = rest
           /\ exec'.handles = batch /\ exec'.completed = x.completed /\ exec'.blocked = x.blocked
           /\ task' \in [Tool -> {"none", "running", "ok", "fatal", "panicked"}]
           /\ \A u \in Tool : task'[u] = IF u \in batch THEN "running" ELSE task[u]
           /\ batch # {} /\ ToSet(exec.waiting) = batch \cup ToSet(rest)
           /\ batch \cap ToSet(rest) = {} /\ Distinct(rest)
           /\ \A u \in batch \cap Serial : batch = {u}
<1> DEFINE calls == exec.waiting
<1>1. calls \in Seq(Tool) /\ Distinct(calls)
  BY DEF IInv, Typed, ExecType, Fresh
<1>2. PICK n \in DOMAIN calls :
        /\ Together(calls, n)
        /\ exec' = [x EXCEPT !.handles = {calls[i] : i \in 1 .. n},
                             !.waiting = SubSeq(calls, n + 1, Len(calls))]
        /\ task' = [u \in Tool |-> IF u \in {calls[i] : i \in 1 .. n} THEN "running" ELSE task[u]]
  BY DEF SpawnBatch
<1> DEFINE batch == {calls[i] : i \in 1 .. n}
           rest  == SubSeq(calls, n + 1, Len(calls))
<1> HIDE DEF calls
<1>3. /\ rest \in Seq(Tool) /\ batch \subseteq Tool /\ batch # {}
      /\ ToSet(calls) = batch \cup ToSet(rest)
      /\ Distinct(rest) /\ batch \cap ToSet(rest) = {}
  BY <1>1, <1>2, SplitElements
<1>4. \A u \in batch \cap Serial : batch = {u}
  <2>1. CASE n = 1
    BY <2>1
  <2>2. CASE \A i \in 1 .. n : calls[i] \notin Serial
    BY <2>2
  <2>3. QED
    BY <1>2, <2>1, <2>2 DEF Together
<1>5. /\ exec' = [x EXCEPT !.handles = batch, !.waiting = rest]
      /\ task' = [u \in Tool |-> IF u \in batch THEN "running" ELSE task[u]]
  BY <1>2
<1> HIDE DEF batch, rest
<1>6. /\ exec' \in ExecType
      /\ exec'.events = x.events /\ exec'.prepared = x.prepared /\ exec'.waiting = rest
      /\ exec'.handles = batch /\ exec'.completed = x.completed /\ exec'.blocked = x.blocked
  BY <1>3, <1>5 DEF ExecType
<1>7. /\ task' \in [Tool -> {"none", "running", "ok", "fatal", "panicked"}]
      /\ \A u \in Tool : task'[u] = IF u \in batch THEN "running" ELSE task[u]
  BY <1>5 DEF IInv, Typed
<1>8. QED
  BY <1>3, <1>4, <1>6, <1>7 DEF calls

\* A step that spawns the next batch when the one before is over; late progress may
\* become events.
LEMMA BatchKeeps ==
  ASSUME IInv, NEW x \in ExecType, SpawnBatch(x, exec.waiting),
         phase' = "tools", pending = <<>>, exec.prepared = <<>>, exec.handles = {},
         relay = {}, Running = {}, ToSet(channel) \subseteq seen.started, channel' = <<>>,
         x.prepared = exec.prepared, x.completed = exec.completed, x.blocked = exec.blocked,
         EvOf(x.events, "started") = Ev("started"), EvOf(x.events, "blocked") = Ev("blocked"),
         EvOf(x.events, "finished") = Ev("finished"),
         EvOf(x.events, "progressed") = Ev("progressed") \cup ToSet(channel),
         phase \in {"plan", "drain"},
         UNCHANGED <<after, iterations, attempts, pending, stuck, relay, open, version, recorded,
                     durable, queued, writes, shutdown, seen, faults>>
  PROVE  IInv'
<1>1. PICK batch \in SUBSET Tool, rest \in Seq(Tool) :
        /\ exec' \in ExecType
        /\ exec'.events = x.events /\ exec'.prepared = x.prepared /\ exec'.waiting = rest
        /\ exec'.handles = batch /\ exec'.completed = x.completed
        /\ exec'.blocked = x.blocked
        /\ task' \in [Tool -> {"none", "running", "ok", "fatal", "panicked"}]
        /\ \A u \in Tool : task'[u] = IF u \in batch THEN "running" ELSE task[u]
        /\ batch # {} /\ ToSet(exec.waiting) = batch \cup ToSet(rest)
        /\ batch \cap ToSet(rest) = {} /\ Distinct(rest)
        /\ \A u \in batch \cap Serial : batch = {u}
  BY BatchStarts
<1>2. \A u \in batch : task[u] = "none" /\ u \notin seen.blocked \cup exec.blocked \cup Ev("blocked")
  BY <1>1 DEF IInv, Fresh, Queue
<1>3. \A u \in Tool : u \notin batch => task'[u] = task[u]
  BY <1>1
<1>4. /\ Ev("started")' = Ev("started") /\ Ev("blocked")' = Ev("blocked")
      /\ Ev("finished")' = Ev("finished")
      /\ Ev("progressed")' = Ev("progressed") \cup ToSet(channel)
  BY <1>1 DEF Ev
<1>5. ToSet(pending') = {} /\ ToSet(exec'.prepared) = {} /\ ToSet(channel') = {} /\ relay' = {}
      /\ Distinct(pending') /\ Distinct(exec'.prepared) /\ channel' \in Seq(Tool)
  BY <1>1, NoElements
<1>6. Typed'
  BY <1>1, <1>5 DEF IInv, Typed, Phase
<1>7. Counted' /\ Saves'
  BY DEF IInv, Counted, Saves
<1>8. Quiet' /\ Shape' /\ Touched'
  BY <1>1 DEF Quiet, Shape, Touched, InTools
<1>9. Fresh'
  <2>1. \A u \in Queue' : u \in Queue /\ u \notin batch
    BY <1>1, <1>5 DEF Queue
  <2>2. \A u \in Queue' : u \in Tool
    BY <2>1, ElementsTyped DEF IInv, Typed, ExecType, Queue
  <2>3. \A u \in Queue' : task'[u] = "none" /\ u \notin seen.blocked \cup exec.blocked \cup Ev("blocked")
    BY <1>3, <2>1, <2>2 DEF IInv, Fresh
  <2>4. QED
    BY <1>1, <1>4, <1>5, <2>3 DEF Fresh
<1>10. Tasks'
  <2>1. \A u \in Tool : Ended(u) => Ended(u)'
    BY <1>2, <1>3 DEF Ended
  <2>2. \A u \in Tool : task[u] # "none" => task'[u] # "none"
    BY <1>1
  <2>3. \A u \in exec'.handles : task'[u] # "none"
    BY <1>1
  <2>4. \A u \in exec'.completed : task'[u] \in {"ok", "fatal"}
    BY <1>1, <1>2, <1>3 DEF IInv, Typed, ExecType, Tasks
  <2>5. \A u \in exec.blocked \cup seen.blocked \cup Ev("blocked") : u \in Tool /\ u \notin batch
    BY <1>2 DEF IInv, Typed, ExecType, SeenType, Ev, EvOf
  <2>6. \A u \in exec.blocked \cup seen.blocked \cup Ev("blocked") : task'[u] = "none"
    BY <1>3, <2>5 DEF IInv, Tasks
  <2>7. \A u \in seen.progressed \cup relay \cup ToSet(channel) \cup Ev("progressed") :
          u \in Tool /\ task[u] # "none"
    BY ElementsTyped DEF IInv, Typed, SeenType, Tasks, Ev, EvOf
  <2>8. \A u \in seen.finished \cup Ev("finished") : u \in Tool /\ Ended(u)
    BY DEF IInv, Typed, SeenType, Tasks, Ev, EvOf
  <2>9. QED
    BY <1>1, <1>4, <1>5, <2>1, <2>2, <2>3, <2>4, <2>6, <2>7, <2>8 DEF Tasks
<1>11. Running' = batch
  BY <1>1 DEF Running
<1>12. Announced'
  BY <1>1, <1>4, <1>5, <1>11 DEF IInv, Announced
<1>13. SerialAlone'
  BY <1>1, <1>11, StreamAssumption DEF SerialAlone, Running
<1>14. Panicked' = Panicked
  BY <1>1, <1>2 DEF Panicked
<1>15. Answered' /\ Accounted' /\ Settled'
  BY <1>1, <1>4, <1>5, <1>14, NoElements
  DEF IInv, Answered, Accounted, Settled, InTools, Queue
<1>16. QED
  BY <1>6, <1>7, <1>8, <1>9, <1>10, <1>12, <1>13, <1>15 DEF IInv

LEMMA PlannedKeeps ==
  ASSUME IInv, Planned
  PROVE  IInv'
<1>1. /\ phase = "plan" /\ pending = <<>> /\ exec.prepared = <<>>
      /\ UNCHANGED <<after, iterations, attempts, pending, stuck, relay, channel, open, version,
         recorded,
                     durable, queued, writes, shutdown, seen, faults>>
  BY DEF Planned, sessionVars, saveVars
<1>2. /\ exec.handles = {} /\ exec.completed = {} /\ relay = {} /\ channel = <<>> /\ Running = {}
      /\ exec \in ExecType /\ ToSet(exec.prepared) = {} /\ ToSet(pending) = {}
      /\ task \in [Tool -> {"none", "running", "ok", "fatal", "panicked"}]
  BY <1>1, NoElements DEF IInv, Typed, Quiet, Shape
<1>3. Counted' /\ Saves'
  BY <1>1 DEF IInv, Counted, Saves, Planned
<1>4. CASE exec.waiting = <<>> /\ phase' = "finalize" /\ UNCHANGED <<exec, task>>
  <2>1. SameTools
    BY <1>1, <1>4, ErrorSeen DEF IInv, SameTools
  <2>2. Typed'
    BY <1>1, <1>4, <2>1 DEF IInv, Typed, Phase, SameTools, SameSeen
  <2>3. Quiet' /\ Shape' /\ Touched'
    BY <1>1, <1>2, <1>4 DEF IInv, Quiet, Shape, Touched, InTools, Running
  <2>4. Answered' /\ Accounted' /\ Settled'
    BY <1>1, <1>4 DEF IInv, Answered, Accounted, Settled, InTools, Panicked, Queue, Ev
  <2>5. QED
    BY <1>3, <2>1, <2>2, <2>3, <2>4, ToolsKept DEF IInv
<1>5. CASE phase' = "tools" /\ SpawnBatch(exec, exec.waiting)
  <2>1. exec.waiting \in Seq(Tool) /\ ToSet(channel) = {} /\ channel' = <<>>
    BY <1>1, <1>2, NoElements DEF ExecType
  <2>2. QED
    BY <1>1, <1>2, <1>5, <2>1, BatchKeeps DEF Ev
<1>6. QED
  BY <1>4, <1>5 DEF Planned

LEMMA AdvanceKeeps ==
  ASSUME IInv, Advance
  PROVE  IInv'
<1> DEFINE x == [exec EXCEPT !.events = @ \o Events("progressed", channel)]
<1>1. /\ phase = "drain" /\ channel' = <<>> /\ Closed
      /\ UNCHANGED <<after, iterations, attempts, pending, stuck, relay, open, version, recorded,
                     durable, queued, writes, shutdown, seen, faults>>
  BY DEF Advance, sessionVars, saveVars
<1>2. \/ exec.waiting = <<>> /\ phase' = "finalize" /\ exec' = x /\ UNCHANGED task
      \/ phase' = "tools" /\ SpawnBatch(x, exec.waiting)
  BY DEF Advance
<1>3. /\ exec \in ExecType /\ exec.events = <<>> /\ exec.events \in Seq(EventType)
      /\ channel \in Seq(Tool) /\ channel' \in Seq(Tool) /\ relay \subseteq Tool
      /\ exec.prepared = <<>> /\ exec.handles = {} /\ pending = <<>>
  BY <1>1, NoElements DEF IInv, Typed, ExecType, Shape
<1>4. relay = {} /\ Running = {}
  BY <1>1, <1>3 DEF Closed, Running
<1>5. ToSet(channel) \subseteq seen.started /\ ToSet(channel') = {} /\ ToSet(pending) = {} /\ ToSet(exec.prepared) = {}
  BY <1>1, <1>3, NoElements, NoEvents DEF IInv, Announced, Ev
<1>6. /\ exec.events \o Events("progressed", channel) \in Seq(EventType)
      /\ EvOf(exec.events \o Events("progressed", channel),
         "progressed") = Ev("progressed") \cup ToSet(channel)
      /\ \A kind : kind # "progressed" =>
           EvOf(exec.events \o Events("progressed", channel), kind) = Ev(kind)
  BY <1>3, EventsAdded DEF Ev
<1>7. /\ x \in ExecType /\ x.events = exec.events \o Events("progressed", channel)
      /\ x.prepared = exec.prepared /\ x.waiting = exec.waiting /\ x.handles = exec.handles
      /\ x.completed = exec.completed /\ x.blocked = exec.blocked
  BY <1>3, <1>6 DEF ExecType
<1>8. /\ EvOf(x.events, "progressed") = Ev("progressed") \cup ToSet(channel)
      /\ EvOf(x.events, "started") = Ev("started") /\ EvOf(x.events, "blocked") = Ev("blocked")
      /\ EvOf(x.events, "finished") = Ev("finished")
  BY <1>6, <1>7
<1> HIDE DEF x
<1>9. CASE exec.waiting = <<>> /\ phase' = "finalize" /\ exec' = x /\ UNCHANGED task
  <2>1. /\ Ev("started")' = Ev("started") /\ Ev("blocked")' = Ev("blocked")
        /\ Ev("finished")' = Ev("finished")
        /\ Ev("progressed")' = Ev("progressed") \cup ToSet(channel)
    BY <1>8, <1>9 DEF Ev
  <2>2. Typed'
    BY <1>1, <1>3, <1>7, <1>9 DEF IInv, Typed, Phase
  <2>3. Counted' /\ Saves'
    BY <1>1, <1>9 DEF IInv, Counted, Saves
  <2>4. Quiet' /\ Shape' /\ Touched'
    BY <1>1, <1>3, <1>4, <1>7, <1>9 DEF IInv, Quiet, Shape, Touched, InTools, Running, Panicked
  <2>5. Fresh'
    BY <1>1, <1>7, <1>9, <2>1 DEF IInv, Fresh, Queue
  <2>6. Tasks'
    BY <1>1, <1>4, <1>5, <1>7, <1>9, <2>1 DEF IInv, Tasks, Ended
  <2>7. Announced' /\ SerialAlone'
    BY <1>1, <1>4, <1>5, <1>7, <1>9, <2>1 DEF IInv, Announced, SerialAlone, Running
  <2>8. Answered' /\ Accounted' /\ Settled'
    BY <1>1, <1>7, <1>9, <2>1 DEF IInv, Answered, Accounted, Settled, InTools, Panicked, Queue
  <2>9. QED
    BY <2>2, <2>3, <2>4, <2>5, <2>6, <2>7, <2>8 DEF IInv
<1>10. CASE phase' = "tools" /\ SpawnBatch(x, exec.waiting)
  BY <1>1, <1>3, <1>4, <1>5, <1>7, <1>8, <1>10, BatchKeeps
<1>11. QED
  BY <1>2, <1>9, <1>10

\* What a yielded item does to the record of the consumer.
LEMMA YieldedRecord ==
  ASSUME NEW s \in SeenType, NEW t \in Tool
  PROVE  /\ [s EXCEPT !.started = @ \cup {t}] \in SeenType
         /\ [s EXCEPT !.blocked = @ \cup {t}] \in SeenType
         /\ [s EXCEPT !.progressed = @ \cup {t}] \in SeenType
         /\ [s EXCEPT !.finished = @ \cup {t}] \in SeenType
BY DEF SeenType

Sees(s, u, k, t) ==
    /\ u \in SeenType /\ u.complete = s.complete
    /\ u.started = IF k = "started" THEN s.started \cup {t} ELSE s.started
    /\ u.blocked = IF k = "blocked" THEN s.blocked \cup {t} ELSE s.blocked
    /\ u.progressed = IF k = "progressed" THEN s.progressed \cup {t} ELSE s.progressed
    /\ u.finished = IF k = "finished" THEN s.finished \cup {t} ELSE s.finished

LEMMA Yielded ==
  ASSUME NEW s \in SeenType, NEW k \in {"started", "blocked", "progressed", "finished"},
     NEW t \in Tool,
         NEW u, u = [s EXCEPT ![k] = @ \cup {t}]
  PROVE  Sees(s, u, k, t)
<1>1. CASE k = "started"
  <2>1. u = [s EXCEPT !.started = @ \cup {t}]
    BY <1>1
  <2>2. u \in SeenType
    BY <2>1, YieldedRecord
  <2>3. QED
    BY <1>1, <2>1, <2>2 DEF SeenType, Sees
<1>2. CASE k = "blocked"
  <2>1. u = [s EXCEPT !.blocked = @ \cup {t}]
    BY <1>2
  <2>2. u \in SeenType
    BY <2>1, YieldedRecord
  <2>3. QED
    BY <1>2, <2>1, <2>2 DEF SeenType, Sees
<1>3. CASE k = "progressed"
  <2>1. u = [s EXCEPT !.progressed = @ \cup {t}]
    BY <1>3
  <2>2. u \in SeenType
    BY <2>1, YieldedRecord
  <2>3. QED
    BY <1>3, <2>1, <2>2 DEF SeenType, Sees
<1>4. CASE k = "finished"
  <2>1. u = [s EXCEPT !.finished = @ \cup {t}]
    BY <1>4
  <2>2. u \in SeenType
    BY <2>1, YieldedRecord
  <2>3. QED
    BY <1>4, <2>1, <2>2 DEF SeenType, Sees
<1>5. QED
  BY <1>1, <1>2, <1>3, <1>4

LEMMA EmitEventKeeps ==
  ASSUME IInv, EmitEvent
  PROVE  IInv'
<1> DEFINE rest == Tail(exec.events)
<1>1. /\ phase \in {"tools", "emitting"} /\ exec.events # <<>>
      /\ seen' = [seen EXCEPT ![Head(exec.events)[1]] = @ \cup {Head(exec.events)[2]}]
      /\ exec' = [exec EXCEPT !.events = rest]
      /\ UNCHANGED <<phase, after, iterations, attempts, pending, stuck, task, relay, channel,
         open, version,
                     recorded, durable, queued, writes, shutdown, faults>>
  BY DEF EmitEvent, Yield, toolVars, sessionVars, saveVars
<1>2. exec \in ExecType /\ exec.events \in Seq(EventType)
  BY DEF IInv, Typed, ExecType
<1>3. /\ rest \in Seq(EventType)
      /\ \E k \in {"started", "blocked", "progressed", "finished"}, t \in Tool :
              /\ Head(exec.events)[1] = k /\ Head(exec.events)[2] = t
              /\ EvOf(exec.events, k) = EvOf(rest, k) \cup {t}
              /\ \A kind : kind # k => EvOf(exec.events, kind) = EvOf(rest, kind)
  BY <1>1, <1>2, EventTaken
<1>4. PICK k \in {"started", "blocked", "progressed", "finished"}, t \in Tool :
              /\ Head(exec.events)[1] = k /\ Head(exec.events)[2] = t
              /\ EvOf(exec.events, k) = EvOf(rest, k) \cup {t}
              /\ \A kind : kind # k => EvOf(exec.events, kind) = EvOf(rest, kind)
  BY <1>3
<1> HIDE DEF rest
<1>5. /\ exec' \in ExecType /\ exec'.events = rest
      /\ exec'.prepared = exec.prepared /\ exec'.waiting = exec.waiting
      /\ exec'.handles = exec.handles /\ exec'.completed = exec.completed /\ exec'.blocked = exec.blocked
  BY <1>1, <1>2, <1>3 DEF ExecType
<1>6. seen' = [seen EXCEPT ![k] = @ \cup {t}]
  BY <1>1, <1>4
<1>7. Sees(seen, seen', k, t)
  <2>1. seen \in SeenType
    BY DEF IInv, Typed
  <2>2. QED
    BY <1>6, <2>1, Yielded
\* What is no event any more is what the consumer has seen.
<1>8. /\ Ev("started")' \cup seen'.started = Ev("started") \cup seen.started
      /\ Ev("blocked")' \cup seen'.blocked = Ev("blocked") \cup seen.blocked
      /\ Ev("progressed")' \cup seen'.progressed = Ev("progressed") \cup seen.progressed
      /\ Ev("finished")' \cup seen'.finished = Ev("finished") \cup seen.finished
      /\ seen.started \subseteq seen'.started
  BY <1>4, <1>5, <1>7 DEF Ev, Sees
<1> HIDE DEF Ev
<1>9. Typed'
  BY <1>1, <1>5, <1>7 DEF IInv, Typed, Sees
<1>10. Counted' /\ Saves'
  BY <1>1 DEF IInv, Counted, Saves
<1>11. Quiet' /\ Shape' /\ Touched'
  BY <1>1, <1>5 DEF IInv, Quiet, Shape, Touched, InTools, Running, Panicked
<1>12. Fresh' /\ Tasks'
  BY <1>1, <1>5, <1>8 DEF IInv, Fresh, Tasks, Queue, Ended
<1>13. Announced' /\ SerialAlone'
  BY <1>1, <1>5, <1>8 DEF IInv, Announced, SerialAlone, Running
<1>14. Answered' /\ Accounted' /\ Settled'
  BY <1>1, <1>5, <1>7, <1>8 DEF IInv, Sees, Answered, Accounted, Settled, InTools, Panicked, Queue
<1>15. QED
  BY <1>9, <1>10, <1>11, <1>12, <1>13, <1>14 DEF IInv

LEMMA EmitProgressKeeps ==
  ASSUME IInv, EmitProgress
  PROVE  IInv'
<1> DEFINE t == Head(channel)
<1>1. /\ phase = "tools" /\ exec.events = <<>> /\ channel # <<>> /\ channel' = Tail(channel)
      /\ seen' = [seen EXCEPT !["progressed"] = @ \cup {t}]
      /\ UNCHANGED <<phase, after, iterations, attempts, pending, exec, stuck, task, relay, open,
         version,
                     recorded, durable, queued, writes, shutdown, faults>>
  BY DEF EmitProgress, Yield, streamVars, sessionVars, saveVars
<1>2. /\ t \in Tool /\ channel' \in Seq(Tool) /\ ToSet(channel) = ToSet(channel') \cup {t}
  BY <1>1, TailElements DEF IInv, Typed
<1>3. t \in seen.started /\ task[t] # "none"
  BY <1>1, <1>2, NoEvents DEF IInv, Announced, Tasks, Ev
<1> HIDE DEF t
<1>4. /\ seen' \in SeenType /\ seen'.complete = seen.complete
      /\ seen'.started = seen.started /\ seen'.blocked = seen.blocked /\ seen'.finished = seen.finished
      /\ seen'.progressed = seen.progressed \cup {t}
  <2>1. seen \in SeenType
    BY DEF IInv, Typed
  <2>2. Sees(seen, seen', "progressed", t)
    BY <1>1, <1>2, <2>1, Yielded
  <2>3. QED
    BY <2>2 DEF Sees
<1>5. Typed'
  BY <1>1, <1>2, <1>4 DEF IInv, Typed
<1>6. Counted' /\ Saves'
  BY <1>1 DEF IInv, Counted, Saves
<1>7. Quiet' /\ Shape' /\ Touched'
  BY <1>1 DEF IInv, Quiet, Shape, Touched, InTools, Running, Panicked
<1>8. Fresh' /\ Tasks'
  BY <1>1, <1>2, <1>3, <1>4 DEF IInv, Fresh, Tasks, Queue, Ended, Ev
<1>9. Announced' /\ SerialAlone'
  BY <1>1, <1>2, <1>3, <1>4 DEF IInv, Announced, SerialAlone, Running, Ev
<1>10. Answered' /\ Accounted' /\ Settled'
  BY <1>1, <1>4 DEF IInv, Answered, Accounted, Settled, InTools, Panicked, Queue, Ev
<1>11. QED
  BY <1>5, <1>6, <1>7, <1>8, <1>9, <1>10 DEF IInv

\* Ended tasks are joined: their results are kept, but for those that panicked.
LEMMA JoinKeeps ==
  ASSUME IInv, NEW ts \in SUBSET exec.handles, \A t \in ts : Ended(t),
         phase = "tools", exec.events = <<>>, exec' = Joined(ts),
         phase' = IF exec.handles = ts THEN "drain" ELSE "tools",
         UNCHANGED <<after, iterations, attempts, pending, stuck, task, relay, channel, open,
            version,
                     recorded, durable, queued, writes, shutdown, seen, faults>>
  PROVE  IInv'
<1>1. exec \in ExecType /\ ts \subseteq Tool /\ seen \in SeenType
  BY DEF IInv, Typed, ExecType
<1>2. /\ exec' \in ExecType /\ exec'.events = exec.events
      /\ exec'.prepared = exec.prepared /\ exec'.waiting = exec.waiting /\ exec'.blocked = exec.blocked
      /\ exec'.handles = exec.handles \ ts
      /\ exec'.completed = exec.completed \cup {t \in ts : task[t] # "panicked"}
  BY <1>1 DEF Joined, ExecType
<1>3. \A t \in exec'.completed : task[t] \in {"ok", "fatal"}
  BY <1>2 DEF IInv, Tasks, Ended
<1>4. ts \subseteq exec'.completed \cup Panicked
  BY <1>1, <1>2 DEF Panicked
<1>5. \A kind : Ev(kind)' = Ev(kind)
  BY <1>2 DEF Ev
<1>6. Typed'
  BY <1>2 DEF IInv, Typed, Phase
<1>7. Counted' /\ Saves'
  BY DEF IInv, Counted, Saves
<1>8. Quiet' /\ Shape' /\ Touched'
  <2>1. exec.handles # {} /\ exec.prepared = <<>>
    BY DEF IInv, Touched, Shape
  <2>2. Panicked' = Panicked
    BY DEF Panicked
  <2>3. exec.handles = ts => exec'.completed \cup exec'.blocked # {} \/ Panicked # {}
    BY <1>4, <2>1
  <2>4. QED
    BY <1>2, <2>1, <2>2, <2>3 DEF IInv, Quiet, Shape, Touched, InTools
<1>9. Fresh' /\ Tasks'
  BY <1>2, <1>3, <1>5 DEF IInv, Fresh, Tasks, Queue, Ended
<1>10. Announced' /\ SerialAlone'
  BY <1>2, <1>5, NoEvents DEF IInv, Announced, SerialAlone, Running, Ev
<1>11. Answered' /\ Accounted' /\ Settled'
  <2>1. Panicked' = Panicked
    BY DEF Panicked
  <2>2. QED
    BY <1>2, <1>4, <1>5, <2>1 DEF IInv, Answered, Accounted, Settled, InTools, Queue
<1>12. QED
  BY <1>6, <1>7, <1>8, <1>9, <1>10, <1>11 DEF IInv

LEMMA JoinOneKeeps ==
  ASSUME IInv, NEW t \in Tool, JoinOne(t)
  PROVE  IInv'
<1>1. {t} \in SUBSET exec.handles /\ \A u \in {t} : Ended(u)
  BY DEF JoinOne
<1>2. /\ phase = "tools" /\ exec.events = <<>> /\ exec' = Joined({t})
      /\ phase' = IF exec.handles = {t} THEN "drain" ELSE "tools"
      /\ UNCHANGED <<after, iterations, attempts, pending, stuck, task, relay, channel, open,
         version, recorded,
                     durable, queued, writes, shutdown, seen, faults>>
  BY DEF JoinOne, toolVars, sessionVars, saveVars
<1>3. QED
  BY <1>1, <1>2, JoinKeeps

LEMMA JoinAllKeeps ==
  ASSUME IInv, JoinAll
  PROVE  IInv'
<1>1. \A t \in exec.handles : Ended(t)
  BY DEF IInv, Typed, ExecType, Tasks, Ended, JoinAll, Closed
<1>2. QED
  BY <1>1, JoinKeeps DEF JoinAll, toolVars, sessionVars, saveVars

LEMMA FinalizeKeeps ==
  ASSUME IInv, Finalize
  PROVE  IInv'
<1>1. /\ phase = "finalize" /\ stuck' \in BOOLEAN /\ open' = open \ Results
      /\ UNCHANGED <<iterations, attempts, pending, task, relay, channel, durable, writes, shutdown,
                     seen, faults>>
  BY DEF Finalize, toolVars
<1>2. PICK order \in SetToSeqs(exec.completed) :
        exec' = [NoExec EXCEPT !.events = exec.events \o Events("finished", order)]
  BY DEF Finalize
<1>3. /\ exec \in ExecType /\ exec.completed \subseteq Tool /\ exec.events \in Seq(EventType)
      /\ exec.prepared = <<>> /\ exec.waiting = <<>> /\ exec.handles = {} /\ pending = <<>>
      /\ relay = {} /\ channel = <<>> /\ Running = {}
  BY <1>1 DEF IInv, Typed, ExecType, Shape, Quiet
<1>4. order \in Seq(Tool) /\ ToSet(order) = exec.completed
  <2>1. IsFiniteSet(exec.completed)
    BY <1>3, StreamAssumption, FS_Subset
  <2>2. order \in Seq(exec.completed) /\ ToSet(order) = exec.completed
    BY <2>1, OrderElements
  <2>3. QED
    BY <1>3, <2>2
<1>5. /\ exec.events \o Events("finished", order) \in Seq(EventType)
      /\ EvOf(exec.events \o Events("finished", order),
         "finished") = Ev("finished") \cup exec.completed
      /\ \A kind : kind # "finished" => EvOf(exec.events \o Events("finished", order),
         kind) = Ev(kind)
  BY <1>3, <1>4, EventsAdded DEF Ev
<1>6. /\ exec' \in ExecType /\ exec'.events = exec.events \o Events("finished", order)
      /\ exec'.prepared = <<>> /\ exec'.waiting = <<>> /\ exec'.handles = {}
      /\ exec'.completed = {} /\ exec'.blocked = {}
  BY <1>2, <1>5, NoElements DEF NoExec, ExecType
<1>7. /\ Ev("finished")' = Ev("finished") \cup exec.completed
      /\ Ev("started")' = Ev("started") /\ Ev("blocked")' = Ev("blocked")
      /\ Ev("progressed")' = Ev("progressed")
  BY <1>5, <1>6 DEF Ev
<1>8. \/ /\ Results = {} /\ phase' = "emitting" /\ UNCHANGED <<after, version, recorded, queued>>
      \/ /\ phase' = "save" /\ after' = "emitting" /\ version' = version + 1 /\ recorded' = version'
         /\ queued' = queued + 1
  BY DEF Finalize, SaveThen, Record
<1>9. ToSet(pending) = {} /\ ToSet(<<>>) = {} /\ Distinct(<<>>) /\ ToSet(channel) = {}
      /\ \A t \in exec.completed : task[t] \in {"ok", "fatal"} /\ t \in seen.started
  BY <1>3, NoElements DEF IInv, Tasks, Announced
<1>10. Typed'
  BY <1>1, <1>6, <1>8 DEF IInv, Typed, Phase
<1>11. Counted' /\ Saves'
  BY <1>1, <1>8 DEF IInv, Counted, Saves, WriteType
<1>12. Quiet' /\ Shape' /\ Touched'
  BY <1>1, <1>3, <1>6, <1>8 DEF Quiet, Shape, Touched, InTools, Running
<1>13. Fresh' /\ Tasks'
  BY <1>1, <1>3, <1>6, <1>7, <1>9 DEF IInv, Fresh, Tasks, Queue, Ended
<1>14. Announced' /\ SerialAlone'
  <2>1. Running' = {}
    BY <1>1, <1>3 DEF Running
  <2>2. Announced'
    BY <1>1, <1>3, <1>6, <1>7, <1>9, <2>1 DEF IInv, Announced
  <2>3. SerialAlone'
    BY <1>1 DEF IInv, SerialAlone
  <2>4. QED
    BY <2>2, <2>3
<1>15. Answered' /\ Accounted'
  BY <1>1, <1>3, <1>6, <1>7, <1>8, <1>9
  DEF IInv, Answered, Accounted, InTools, Panicked, Queue, Results
<1>16. Settled'
  <2>1. Results = {} => Panicked # {}
    BY <1>1 DEF IInv, Touched, Results
  <2>2. QED
    BY <1>1, <1>8, <2>1 DEF Settled, Panicked
<1>17. QED
  BY <1>10, <1>11, <1>12, <1>13, <1>14, <1>15, <1>16 DEF IInv

LEMMA ProgressKeeps ==
  ASSUME IInv, NEW t \in Tool, Progress(t)
  PROVE  IInv'
<1>1. /\ task[t] = "running" /\ relay' = relay \cup {t}
      /\ UNCHANGED <<phase, after, iterations, attempts, pending, exec, stuck, task, channel,
         open, version,
                     recorded, durable, queued, writes, shutdown, seen, faults>>
  BY DEF Progress, streamVars, sessionVars, saveVars
<1>2. t \in Running /\ phase \in {"tools", "drain", "done"} /\ ~Ended(t)
  BY <1>1 DEF IInv, Quiet, Running, Ended
<1>3. Typed' /\ Counted'
  BY <1>1 DEF IInv, Typed, Counted
<1>4. Saves'
  BY <1>1 DEF IInv, Saves
<1>5. Quiet' /\ Shape' /\ Touched'
  BY <1>1, <1>2 DEF IInv, Quiet, Shape, Touched, InTools, Panicked
<1>6. Fresh' /\ Tasks'
  BY <1>1, <1>2 DEF IInv, Fresh, Tasks, Queue, Ended, Ev
<1>7. Announced' /\ SerialAlone'
  BY <1>1, <1>2 DEF IInv, Announced, SerialAlone, Running, Ev
<1>8. Answered' /\ Accounted' /\ Settled'
  BY <1>1 DEF IInv, Answered, Accounted, Settled, InTools, Panicked, Queue, Ev
<1>9. QED
  BY <1>3, <1>4, <1>5, <1>6, <1>7, <1>8 DEF IInv

LEMMA RelayKeeps ==
  ASSUME IInv, NEW t \in Tool, Relay(t)
  PROVE  IInv'
<1>1. /\ t \in relay /\ relay' = relay \ {t} /\ channel' = Append(channel, t)
      /\ UNCHANGED <<phase, after, iterations, attempts, pending, exec, stuck, task, open, version,
                     recorded, durable, queued, writes, shutdown, seen, faults>>
  BY DEF Relay, streamVars, sessionVars, saveVars
<1>2. channel' \in Seq(Tool) /\ ToSet(channel') = ToSet(channel) \cup {t}
  BY <1>1, AppendElements DEF IInv, Typed
<1>3. relay' \cup ToSet(channel') = relay \cup ToSet(channel) /\ phase \in {"tools", "drain",
   "done"}
  BY <1>1, <1>2 DEF IInv, Quiet
<1>4. Typed' /\ Counted'
  BY <1>1, <1>2 DEF IInv, Typed, Counted
<1>5. Saves'
  BY <1>1 DEF IInv, Saves
<1>6. Quiet' /\ Shape' /\ Touched'
  BY <1>1, <1>3 DEF IInv, Quiet, Shape, Touched, InTools, Panicked
<1>7. Fresh' /\ Tasks'
  BY <1>1, <1>3 DEF IInv, Fresh, Tasks, Queue, Ended, Ev
<1>8. Announced' /\ SerialAlone'
  BY <1>1, <1>3 DEF IInv, Announced, SerialAlone, Running, Ev
<1>9. Answered' /\ Accounted' /\ Settled'
  BY <1>1 DEF IInv, Answered, Accounted, Settled, InTools, Panicked, Queue, Ev
<1>10. QED
  BY <1>4, <1>5, <1>6, <1>7, <1>8, <1>9 DEF IInv

LEMMA ToolEndsKeeps ==
  ASSUME IInv, NEW t \in Tool, ToolEnds(t)
  PROVE  IInv'
<1>1. PICK r \in {"ok", "fatal", "panicked"} :
        /\ task[t] = "running" /\ task' = [task EXCEPT ![t] = r] /\ faults' \in 0 .. MaxFaults
        /\ UNCHANGED <<phase, after, iterations, attempts, pending, exec, stuck, relay, channel,
           open, version,
                       recorded, durable, queued, writes, shutdown, seen>>
  BY FaultTyped DEF IInv, Typed, ToolEnds, streamVars, sessionVars, saveVars
<1>2. /\ task' \in [Tool -> {"none", "running", "ok", "fatal", "panicked"}]
      /\ task'[t] = r /\ \A u \in Tool : u # t => task'[u] = task[u]
  BY <1>1 DEF IInv, Typed
<1>3. phase \in {"tools", "drain", "done"}
  BY <1>1 DEF IInv, Quiet, Running
<1>4. Panicked \subseteq Panicked' /\ Running' \subseteq Running
  BY <1>1, <1>2 DEF Panicked, Running
<1>5. Typed' /\ Counted'
  BY <1>1, <1>2 DEF IInv, Typed, Counted
<1>6. Saves'
  BY <1>1 DEF IInv, Saves
<1>7. Quiet' /\ Shape' /\ Touched'
  BY <1>1, <1>3, <1>4 DEF IInv, Quiet, Shape, Touched, InTools
<1>8. \A u : task[u] # "running" => task'[u] = task[u]
  BY <1>1, <1>2 DEF IInv, Typed
<1>9. Fresh' /\ Tasks'
  BY <1>1, <1>2, <1>8 DEF IInv, Fresh, Tasks, Queue, Ended, Ev
<1>10. Announced' /\ SerialAlone'
  BY <1>1, <1>2, <1>4, StreamAssumption DEF IInv, Announced, SerialAlone, Running, Ev
<1>11. Answered' /\ Accounted' /\ Settled'
  BY <1>1, <1>3, <1>4 DEF IInv, Answered, Accounted, Settled, InTools, Queue, Ev
<1>12. QED
  BY <1>5, <1>6, <1>7, <1>9, <1>10, <1>11 DEF IInv

-----------------------------------------------------------------------------
(* The theorems *)

LEMMA InitInv == Init => IInv
<1> SUFFICES ASSUME Init
             PROVE  IInv
  OBVIOUS
<1>1. /\ exec = NoExec /\ exec.events = <<>> /\ exec.prepared = <<>> /\ exec.waiting = <<>>
      /\ exec.handles = {} /\ exec.completed = {} /\ exec.blocked = {}
      /\ exec \in ExecType /\ seen \in SeenType
  BY NoElements DEF Init, NoExec, ExecType, SeenType
<1>2. /\ seen.started = {} /\ seen.progressed = {} /\ seen.finished = {} /\ seen.blocked = {}
      /\ ~seen.complete
  BY DEF Init
<1>3. /\ Queue = {} /\ Running = {} /\ \A kind : Ev(kind) = {}
      /\ Distinct(pending) /\ Distinct(exec.prepared) /\ Distinct(exec.waiting)
      /\ ToSet(pending) = {} /\ ToSet(exec.prepared) = {} /\ ToSet(exec.waiting) = {} /\ ToSet(channel) = {}
  BY <1>1, NoElements, NoEvents DEF Init, Queue, Running, Ev
<1>4. Typed
  <2>1. task \in [Tool -> {"none", "running", "ok", "fatal", "panicked"}]
    BY DEF Init
  <2>2. /\ phase \in Phase /\ after \in Phase \cup {"none"} /\ phase # "save"
        /\ shutdown \in BOOLEAN /\ stuck \in BOOLEAN
    BY DEF Init, Phase
  <2>3. /\ pending \in Seq(Tool) /\ channel \in Seq(Tool)
        /\ relay \subseteq Tool /\ open \subseteq Tool
    BY NoElements DEF Init
  <2>4. faults \in 0 .. MaxFaults
    BY StreamAssumption DEF Init
  <2>5. QED
    BY <1>1, <2>1, <2>2, <2>3, <2>4 DEF Typed
<1>5. Counted /\ Saves
  BY StreamAssumption DEF Init, Counted, Saves
<1>6. Quiet /\ Shape /\ Touched
  BY <1>1, <1>3 DEF Init, Quiet, Shape, Touched, InTools
<1>7. Fresh /\ Tasks /\ Announced /\ SerialAlone
  BY <1>1, <1>2, <1>3, StreamAssumption DEF Init, Fresh, Tasks, Announced, SerialAlone
<1>8. Answered /\ Accounted /\ Settled
  BY <1>1, <1>2, <1>3 DEF Init, Answered, Accounted, Settled
<1>9. QED
  BY <1>4, <1>5, <1>6, <1>7, <1>8 DEF IInv

LEMMA StepInv == IInv /\ [Next]_vars => IInv'
<1> SUFFICES ASSUME IInv, [Next]_vars
             PROVE  IInv'
  OBVIOUS
<1>1. CASE StreamStep
  <2>1. CASE SubmitPrompt
    BY <2>1, SubmitPromptKeeps
  <2>2. CASE SkillCommand
    BY <2>2, SkillCommandKeeps
  <2>3. CASE Gate
    BY <2>3, GateKeeps
  <2>4. CASE Send
    BY <2>4, SendKeeps
  <2>5. CASE SendInvalid
    BY <2>5, SendInvalidKeeps
  <2>6. CASE SendRecovers
    BY <2>6, SendRecoversKeeps
  <2>7. CASE \E t \in Tool : ChunkToolCall(t) \/ JoinOne(t)
    BY <2>7, ChunkToolCallKeeps, JoinOneKeeps
  <2>8. CASE ChunkEnd \/ ChunkError
    BY <2>8, ChunkEndKeeps, ChunkErrorKeeps
  <2>9. CASE SendFails \/ EndFails \/ PlanFails \/ FinalizeFails \/ Interrupt
    BY <2>9, FailuresKeep
  <2>10. CASE EndRecords
    BY <2>10, EndRecordsKeeps
  <2>11. CASE PlanCall \/ ValidateCall \/ Planned
    BY <2>11, PlanCallKeeps, ValidateCallKeeps, PlannedKeeps
  <2>12. CASE EmitEvent \/ EmitProgress
    BY <2>12, EmitEventKeeps, EmitProgressKeeps
  <2>13. CASE JoinAll
    BY <2>13, JoinAllKeeps
  <2>14. CASE Advance
    BY <2>14, AdvanceKeeps
  <2>15. CASE Finalize
    BY <2>15, FinalizeKeeps
  <2>16. CASE Emitted \/ Complete
    BY <2>16, EmittedKeeps, CompleteKeeps
  <2>17. CASE SaveStarts \/ \E w \in writes : SaveLands(w)
    BY <2>17, SaveStartsKeeps, SaveLandsKeeps
  <2>18. QED
    BY <1>1, <2>1, <2>2, <2>3, <2>4, <2>5, <2>6, <2>7, <2>8, <2>9, <2>10, <2>11, <2>12, <2>13,
       <2>14, <2>15, <2>16, <2>17 DEF StreamStep
<1>2. CASE Background
  <2>1. CASE DetachedStarts \/ \E w \in writes : DetachedLands(w)
    BY <2>1, DetachedStartsKeeps, DetachedLandsKeeps
  <2>2. CASE \E t \in Tool : Progress(t) \/ Relay(t) \/ ToolEnds(t)
    BY <2>2, ProgressKeeps, RelayKeeps, ToolEndsKeeps
  <2>3. CASE Shutdown
    BY <2>3, ShutdownKeeps
  <2>4. QED
    BY <1>2, <2>1, <2>2, <2>3 DEF Background
<1>3. CASE UNCHANGED vars
  <2>1. UNCHANGED <<streamVars, toolVars, sessionVars, saveVars, shutdown, seen, faults>>
    BY <1>3 DEF vars
  <2>2. SameTools
    BY <2>1, ErrorSeen DEF IInv, SameTools, streamVars, toolVars
  <2>3. Typed' /\ Counted' /\ Saves'
    BY <2>1 DEF IInv, Typed, Counted, Saves, streamVars, toolVars, sessionVars, saveVars
  <2>4. Quiet' /\ Shape' /\ Touched'
    BY <2>1 DEF IInv, Quiet, Shape, Touched, InTools, Running, Panicked, streamVars, toolVars
  <2>5. Answered' /\ Accounted' /\ Settled'
    BY <2>1 DEF IInv, Answered, Accounted, Settled, InTools, Panicked, Queue, Ev,
                streamVars, toolVars, sessionVars, saveVars
  <2>6. QED
    BY <2>2, <2>3, <2>4, <2>5, ToolsKept DEF IInv
<1>4. QED
  BY <1>1, <1>2, <1>3 DEF Next

\* Every run keeps the invariant.
THEOREM StreamInv == Spec => []IInv
<1>1. QED
  BY InitInv, StepInv, PTL DEF Spec

\* Every variable has its type: no run makes more requests than max_iterations allows,
\* and the store holds no version the session has not had.
THEOREM StreamTyped == Spec => []TypeOK
<1>1. IInv => TypeOK
  <2> SUFFICES ASSUME IInv
               PROVE  TypeOK
    OBVIOUS
  <2>1. iterations \in 0 .. MaxIterations + 1 /\ attempts \in 0 .. MaxIterations
    BY StreamAssumption DEF IInv, Counted
  <2>2. /\ version \in Nat /\ recorded \in 0 .. version /\ durable \in 0 .. version /\ queued \in Nat
        /\ writes \subseteq [by : {"stream", "detached"}, version : 0 .. version]
    BY DEF IInv, Saves, WriteType
  <2>3. \A i \in DOMAIN exec.events : exec.events[i] \in {"started", "blocked", "progressed",
     "finished"} \X Tool
    <3>1. exec.events \in Seq(EventType)
      BY DEF IInv, Typed, ExecType
    <3>2. QED
      BY <3>1 DEF EventType
  <2>4. QED
    BY <2>1, <2>2, <2>3 DEF IInv, Typed, ExecType, TypeOK
<1>2. QED
  BY <1>1, StreamInv, PTL

\* partition_tools_by_safety: a tool that is not safe to run beside others runs alone,
\* whatever the calls, their order and the progress still on its way.
THEOREM SerialToolsRunAlone == Spec => []SerialAlone
<1>1. IInv => SerialAlone
  BY DEF IInv
<1>2. QED
  BY <1>1, StreamInv, PTL

\* finalize_tool_execution: when a request goes out, every earlier tool call has its result in
\* the session, or its task panicked.
THEOREM CallsAreAnswered == Spec => []CallsAnswered
<1>1. IInv => CallsAnswered
  BY DEF IInv, Answered, CallsAnswered, InTools
<1>2. QED
  BY <1>1, StreamInv, PTL

\* next_event: of each tool the consumer sees the start, then progress, then the end, and every
\* start has its end by the time of Complete, but for panicked tools.
THEOREM ToolEventsAreNested == Spec => []ToolEventsNest
<1>1. IInv => ToolEventsNest
  <2> SUFFICES ASSUME IInv
               PROVE  ToolEventsNest
    OBVIOUS
  <2>1. seen.progressed \cup seen.finished \subseteq seen.started
    BY DEF IInv, Announced
  <2>2. \A t \in seen.finished : t \notin relay \cup ToSet(channel)
    BY DEF IInv, Tasks
  <2>3. seen.blocked \cap (seen.progressed \cup seen.finished) = {}
    BY DEF IInv, Tasks, Ended
  <2>4. seen.complete => seen.started \subseteq seen.finished \cup seen.blocked \cup Panicked
    BY DEF IInv, Accounted
  <2>5. QED
    BY <2>1, <2>2, <2>3, <2>4 DEF ToolEventsNest
<1>2. QED
  BY <1>1, StreamInv, PTL

\* persist_stream_session_state: Complete is yielded only when what the run recorded is in the
\* store, however the detached saves race the awaited ones.
THEOREM CompleteFollowsSave == Spec => CompleteIsDurable
<1>1. IInv /\ [Next]_vars =>
        [phase = "complete" /\ phase' = "done" /\ Panicked = {} => durable >= recorded]_vars
  BY DEF IInv, Saves, Settled
<1>2. QED
  BY <1>1, StreamInv, PTL DEF Spec, CompleteIsDurable
=============================================================================
