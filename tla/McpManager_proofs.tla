-------------------------- MODULE McpManager_proofs ---------------------------
(***************************************************************************)
(* The registry of MCP servers, for all names, calls, clients and drops:   *)
(* no server is taken away from a call that uses it, the cached tools      *)
(* under a name are those of its server, and the report follows.  Only the *)
(* guards count here, not the order in the lines: who changes `servers`    *)
(* finds nobody reading it.                                                *)
(*                                                                         *)
(* The cache needs to know that a registration that overlaps no other      *)
(* finds its name free from its check to its insertion, and the cache, at  *)
(* its insertion, as it left it or empty.                                  *)
(***************************************************************************)
EXTENDS McpManager, TLAPS

Adder == {"add", "track"}

Calls == [op : Ops \cup {"none"}, name : Name \cup {None}, pc : Label,
          client : Client \cup {None}]

\* What a label says about the locals of a call.
CallOK(c) ==
    /\ c \in Calls
    /\ c.pc # "idle" => c.name \in Name
    /\ c.pc \in {"check", "connect", "cache", "insert", "fail", "lost", "healthy"} =>
         c.op \in Adder
    /\ c.pc \in {"connect", "cache", "insert", "calling", "refreshing"} => c.client \in Client

Typed ==
    /\ servers \in [Name -> Client \cup {None}]
    /\ cache \in [Name -> Client \cup {None}]
    /\ report \in [Name -> {"absent", "ready", "failed"}]
    /\ raced \subseteq Name
    /\ call \in [Proc -> Calls] /\ \A p \in Proc : CallOK(call[p])

Uses(p, n) == call[p].pc \in {"calling", "refreshing"} /\ call[p].name = n

Adds(p, n) == call[p].op \in Adder /\ call[p].name = n

RacesKnown ==
    \A p, q \in Proc, n \in Name : p # q /\ Adds(p, n) /\ Adds(q, n) => n \in raced

\* Without a race, the name of a registration is free until it is inserted.
NameFree ==
    \A p \in Proc :
        call[p].pc \in {"connect", "cache", "insert", "fail"} /\ call[p].name \notin raced =>
            servers[call[p].name] = None

LostRaced == \A p \in Proc : call[p].pc = "lost" => call[p].name \in raced

\* Without a race, what it cached is what is cached when it is inserted.
ListingKept ==
    \A p \in Proc :
        call[p].pc = "insert" /\ call[p].name \notin raced =>
            cache[call[p].name] \in {None, call[p].client}

IInv ==
    /\ Typed /\ ServerStaysInUse /\ RacesKnown /\ NameFree /\ LostRaced /\ ListingKept
    /\ CacheFollowsServers

-----------------------------------------------------------------------------
(* What the steps of a call have in common *)

LEMMA NoneIsNoClient == None \notin Client
BY ManagerAssumption

LEMMA IdleOK == /\ CallOK(Idle) /\ Idle.op = "none" /\ Idle.pc = "idle"
BY DEF CallOK, Idle, Calls, Label

\* A call that uses a server keeps the map from being changed.
LEMMA Excludes ==
    ASSUME NEW p \in Proc, NEW pc \in {"insert", "remove", "drain"}, At(p, pc)
    PROVE  call[p].pc = pc /\ \A q \in Proc, n \in Name : ~Uses(q, n)
BY DEF At, Wants, Reads, HeldForReading, Uses

\* What a step of p may do to a registered server, and to a cached listing.
ServerStep(p, n) ==
    \/ servers'[n] = servers[n]
    \/ servers'[n] = None /\ \A q \in Proc : ~Uses(q, n)
    \/ /\ call[p].pc = "insert" /\ call[p].name = n
       /\ servers[n] = None /\ servers'[n] = call[p].client

CacheStep(p, n) ==
    \/ cache'[n] \in {cache[n], None}
    \/ /\ call[p].pc \in {"cache", "refreshing"} /\ call[p].name = n
       /\ cache'[n] = call[p].client

\* What becomes of the call itself.
CallStep(p, d) ==
    /\ Goto(p, d)
    /\ CallOK(d)
    /\ d.op \in Adder => d.op = call[p].op /\ d.name = call[p].name
    /\ d.pc \in {"calling", "refreshing"} => servers'[d.name] = d.client
    /\ d.pc \in {"connect", "cache", "insert", "fail"} /\ d.name \notin raced =>
         servers'[d.name] = None
    /\ d.pc = "lost" => d.name \in raced
    /\ d.pc = "insert" /\ d.name \notin raced => cache'[d.name] \in {None, d.client}

LEMMA Moved ==
    ASSUME Typed, NEW p \in Proc, NEW d, Goto(p, d), CallOK(d)
    PROVE  /\ call' \in [Proc -> Calls] /\ \A q \in Proc : CallOK(call'[q])
           /\ call'[p] = d /\ \A q \in Proc \ {p} : call'[q] = call[q]
BY DEF Typed, Goto, CallOK

LEMMA StepKeeps ==
    ASSUME IInv, NEW p \in Proc, NEW d, CallStep(p, d), raced' = raced,
           servers' \in [Name -> Client \cup {None}],
           cache' \in [Name -> Client \cup {None}],
           report' \in [Name -> {"absent", "ready", "failed"}],
           \A n \in Name : ServerStep(p, n) /\ CacheStep(p, n)
    PROVE  IInv'
<1>1. /\ call' \in [Proc -> Calls] /\ \A q \in Proc : CallOK(call'[q])
      /\ call'[p] = d /\ \A q \in Proc \ {p} : call'[q] = call[q]
  BY Moved DEF IInv, CallStep
<1>2. Typed'
  BY <1>1 DEF IInv, Typed, CallOK
<1>3. \A q \in Proc : CallOK(call[q])
  BY DEF IInv, Typed
<1>4. ServerStaysInUse'
  <2> SUFFICES ASSUME NEW q \in Proc, call'[q].pc \in {"calling", "refreshing"}
               PROVE  servers'[call'[q].name] = call'[q].client
    BY DEF ServerStaysInUse
  <2>1. CASE q = p
    BY <1>1, <2>1 DEF CallStep
  <2>2. CASE q # p
    <3> DEFINE n == call[q].name
    <3>1. call'[q] = call[q] /\ n \in Name /\ Uses(q, n) /\ call[q].client \in Client
      BY <1>1, <1>3, <2>2 DEF CallOK, Uses
    <3>2. servers[n] = call[q].client
      BY <3>1 DEF IInv, ServerStaysInUse, Uses
    <3> HIDE DEF n
    <3>3. servers'[n] = servers[n]
      BY <3>1, <3>2, NoneIsNoClient DEF ServerStep
    <3> QED  BY <3>1, <3>2, <3>3 DEF n
  <2> QED  BY <2>1, <2>2
<1>5. RacesKnown'
  <2>1. \A q \in Proc, n \in Name : Adds(q, n)' => Adds(q, n)
    BY <1>1 DEF CallStep, Adds
  <2> QED  BY <2>1 DEF IInv, RacesKnown
<1>6. NameFree'
  <2> SUFFICES ASSUME NEW q \in Proc, call'[q].name \notin raced,
                      call'[q].pc \in {"connect", "cache", "insert", "fail"}
               PROVE  servers'[call'[q].name] = None
    BY DEF NameFree
  <2>1. CASE q = p
    BY <1>1, <2>1 DEF CallStep
  <2>2. CASE q # p
    <3>1. /\ call'[q] = call[q] /\ call[q].name \in Name /\ Adds(q, call[q].name)
          /\ servers[call[q].name] = None
      BY <1>1, <1>3, <2>2 DEF CallOK, Adds, IInv, NameFree
    <3>2. call[p].pc = "insert" => call[p].name # call[q].name
      BY <1>3, <2>2, <3>1 DEF CallOK, Adds, IInv, RacesKnown
    <3> QED  BY <3>1, <3>2 DEF ServerStep
  <2> QED  BY <2>1, <2>2
<1>7. LostRaced'
  BY <1>1 DEF CallStep, IInv, LostRaced
<1>8. ListingKept'
  <2> SUFFICES ASSUME NEW q \in Proc, call'[q].name \notin raced, call'[q].pc = "insert"
               PROVE  cache'[call'[q].name] \in {None, call'[q].client}
    BY DEF ListingKept
  <2>1. CASE q = p
    BY <1>1, <2>1 DEF CallStep
  <2>2. CASE q # p
    <3>1. /\ call'[q] = call[q] /\ call[q].name \in Name /\ Adds(q, call[q].name)
          /\ servers[call[q].name] = None
          /\ cache[call[q].name] \in {None, call[q].client}
      BY <1>1, <1>3, <2>2 DEF CallOK, Adds, IInv, NameFree, ListingKept
    <3>2. call[p].pc = "cache" => call[p].name # call[q].name
      BY <1>3, <2>2, <3>1 DEF CallOK, Adds, IInv, RacesKnown
    <3>3. call[p].pc = "refreshing" => call[p].name # call[q].name
      BY <1>3, <3>1, NoneIsNoClient DEF CallOK, IInv, ServerStaysInUse
    <3> QED  BY <3>1, <3>2, <3>3 DEF CacheStep
  <2> QED  BY <2>1, <2>2
<1>9. CacheFollowsServers'
  <2> SUFFICES ASSUME NEW n \in Name \ raced, servers'[n] # None, cache'[n] # None
               PROVE  cache'[n] = servers'[n]
    BY DEF CacheFollowsServers
  <2>1. CASE servers'[n] = servers[n]
    <3>1. call[p].pc = "cache" => call[p].name # n
      BY <2>1 DEF IInv, NameFree
    <3>2. call[p].pc = "refreshing" /\ call[p].name = n => servers[n] = call[p].client
      BY DEF IInv, ServerStaysInUse
    <3> QED  BY <2>1, <3>1, <3>2 DEF CacheStep, IInv, CacheFollowsServers
  <2>2. CASE call[p].pc = "insert" /\ call[p].name = n /\ servers'[n] = call[p].client
    BY <2>2 DEF CacheStep, IInv, ListingKept
  <2> QED  BY <2>1, <2>2 DEF ServerStep
<1> QED  BY <1>2, <1>4, <1>5, <1>6, <1>7, <1>8, <1>9 DEF IInv

\* A call that only moves on.
LEMMA OnlyTheCall ==
    ASSUME IInv, NEW p \in Proc, NEW d, CallStep(p, d),
           UNCHANGED <<servers, cache, raced>>,
           report' \in [Name -> {"absent", "ready", "failed"}]
    PROVE  IInv'
<1>1. /\ servers' \in [Name -> Client \cup {None}]
      /\ cache' \in [Name -> Client \cup {None}]
  BY DEF IInv, Typed
<1>2. \A n \in Name : ServerStep(p, n) /\ CacheStep(p, n)
  BY DEF ServerStep, CacheStep
<1> QED  BY <1>1, <1>2, StepKeeps

LEMMA IdleStep == ASSUME NEW p \in Proc, Goto(p, Idle) PROVE CallStep(p, Idle)
BY IdleOK DEF CallStep, Adder

-----------------------------------------------------------------------------
(* The steps of a call *)

LEMMA InitInv == Init => IInv
<1> SUFFICES ASSUME Init PROVE IInv
  OBVIOUS
<1>1. \A p \in Proc : call[p] = Idle
  BY DEF Init
<1>2. Idle \in Calls
  BY IdleOK DEF CallOK
<1>3. Typed
  BY <1>1, <1>2, IdleOK DEF Init, Typed
<1> QED
  BY <1>1, <1>3, IdleOK DEF Init, IInv, ServerStaysInUse, RacesKnown, NameFree, LostRaced,
     ListingKept, CacheFollowsServers, Adds, Adder

LEMMA BeginKeeps ==
    ASSUME IInv, NEW p \in Proc, NEW op \in Ops, NEW n \in Name, Begin(p, op, n)
    PROVE  IInv'
<1> DEFINE w == First[op]
           d == [Idle EXCEPT !.op = op, !.name = n, !.pc = w]
<1>1. Goto(p, d) /\ UNCHANGED <<servers, cache, report>>
  BY DEF Begin
<1>2. /\ d.op = op /\ d.name = n /\ d.pc = w /\ CallOK(d)
      /\ w \in {"check", "remove", "list", "refresh", "invalidate", "ensure", "drain"}
  <2>1. /\ op \in {"add", "track", "remove", "list", "refresh", "invalidate", "tool",
                    "close_all"}
        /\ w \in {"check", "remove", "list", "refresh", "invalidate", "ensure", "drain"}
        /\ w = "check" => op \in Adder
    BY ManagerAssumption DEF First, Adder
  <2> HIDE DEF w
  <2>2. Idle \in Calls
    BY IdleOK DEF CallOK
  <2> QED  BY <2>1, <2>2 DEF CallOK, Calls, Label
<1>3. /\ raced' \in {raced, raced \cup {n}}
      /\ op \in Adder /\ Adding(n) # {} => raced' = raced \cup {n}
  BY DEF Begin, Adder
<1> HIDE DEF w, d
<1>4. /\ call' \in [Proc -> Calls] /\ \A q \in Proc : CallOK(call'[q])
      /\ call'[p] = d /\ \A q \in Proc \ {p} : call'[q] = call[q]
  BY <1>1, <1>2, Moved DEF IInv
<1>5. Typed'
  BY <1>1, <1>3, <1>4 DEF IInv, Typed
<1>6. ServerStaysInUse'
  BY <1>1, <1>2, <1>4 DEF IInv, ServerStaysInUse
<1>7. RacesKnown'
  <2> SUFFICES ASSUME NEW q \in Proc, NEW r \in Proc, NEW m \in Name, q # r,
                      Adds(q, m)', Adds(r, m)'
               PROVE  m \in raced'
    BY DEF RacesKnown
  <2>1. CASE q # p /\ r # p
    BY <1>3, <1>4, <2>1 DEF IInv, RacesKnown, Adds
  <2>2. CASE q = p \/ r = p
    <3>1. PICK o \in Proc \ {p} : Adds(o, m)'
      BY <2>2
    <3>2. m = n /\ op \in Adder /\ o \in Adding(n)
      BY <1>2, <1>4, <2>2, <3>1 DEF Adds, Adding, Adder
    <3> QED  BY <1>3, <3>2
  <2> QED  BY <2>1, <2>2
<1>8. NameFree' /\ LostRaced' /\ ListingKept'
  BY <1>1, <1>2, <1>3, <1>4 DEF IInv, NameFree, LostRaced, ListingKept
<1>9. CacheFollowsServers'
  BY <1>1, <1>3 DEF IInv, CacheFollowsServers
<1> QED  BY <1>5, <1>6, <1>7, <1>8, <1>9 DEF IInv

LEMMA CheckKeeps == ASSUME IInv, NEW p \in Proc, Check(p) PROVE IInv'
<1> DEFINE c == call[p]
<1>1. c.pc = "check" /\ CallOK(c) /\ c.name \in Name /\ c.op \in Adder
  BY DEF Check, At, IInv, Typed, CallOK
<1>2. UNCHANGED <<servers, cache, report, raced>>
  BY DEF Check
<1>3. CASE servers[c.name] # None
  BY <1>2, <1>3, IdleStep, OnlyTheCall DEF Check, Taken, IInv, Typed
<1>4. CASE servers[c.name] = None
  <2>1. PICK k \in Client : Goto(p, [c EXCEPT !.pc = "connect", !.client = k])
    BY <1>4 DEF Check
  <2> DEFINE d == [c EXCEPT !.pc = "connect", !.client = k]
  <2>2. d.op = c.op /\ d.name = c.name /\ d.pc = "connect" /\ d.client = k /\ CallOK(d)
    BY <1>1 DEF CallOK, Calls, Label
  <2>3. Goto(p, d)
    BY <2>1
  <2> HIDE DEF d
  <2>4. CallStep(p, d)
    BY <1>2, <1>4, <2>2, <2>3 DEF CallStep
  <2> QED  BY <1>2, <2>4, OnlyTheCall DEF IInv, Typed
<1> QED  BY <1>3, <1>4

\* What a registration has recorded before it ends.
LEMMA RecordingOK ==
    ASSUME NEW c, CallOK(c), c.op \in Adder, c.name \in Name,
           NEW pc \in {"fail", "lost", "healthy"}
    PROVE  LET d == [Recording(c, pc) EXCEPT !.client = None]
           IN  /\ CallOK(d) /\ (d.op \in Adder => d.op = c.op /\ d.name = c.name)
               /\ d.pc \in {"idle", pc}
               /\ d.pc = pc => d.name = c.name
BY IdleOK DEF Recording, CallOK, Calls, Label, Idle, Adder

LEMMA ConnectKeeps == ASSUME IInv, NEW p \in Proc, Connect(p) PROVE IInv'
<1> DEFINE c == call[p]
<1>1. /\ c.pc = "connect" /\ CallOK(c) /\ c.name \in Name /\ c.op \in Adder
      /\ c.client \in Client
  BY DEF Connect, At, IInv, Typed, CallOK
<1>2. /\ UNCHANGED <<servers, cache, report, raced>>
      /\ report' \in [Name -> {"absent", "ready", "failed"}]
  BY DEF Connect, IInv, Typed
<1>3. c.name \notin raced => servers'[c.name] = None
  BY <1>1, <1>2 DEF IInv, NameFree
<1>4. CASE Goto(p, [c EXCEPT !.pc = "cache"])
  <2> DEFINE d == [c EXCEPT !.pc = "cache"]
  <2>1. d.op = c.op /\ d.name = c.name /\ d.pc = "cache" /\ CallOK(d)
    BY <1>1 DEF CallOK, Calls, Label
  <2>2. Goto(p, d)
    BY <1>4
  <2> HIDE DEF d
  <2>3. CallStep(p, d)
    BY <1>3, <2>1, <2>2 DEF CallStep
  <2> QED  BY <1>2, <2>3, OnlyTheCall
<1>5. CASE Goto(p, [Recording(c, "fail") EXCEPT !.client = None])
  <2> DEFINE d == [Recording(c, "fail") EXCEPT !.client = None]
  <2>1. /\ CallOK(d) /\ (d.op \in Adder => d.op = c.op /\ d.name = c.name)
        /\ d.pc \in {"idle", "fail"} /\ (d.pc = "fail" => d.name = c.name)
    BY <1>1, RecordingOK
  <2>2. Goto(p, d)
    BY <1>5
  <2> HIDE DEF d
  <2>3. CallStep(p, d)
    BY <1>3, <2>1, <2>2 DEF CallStep
  <2> QED  BY <1>2, <2>3, OnlyTheCall
<1> QED  BY <1>4, <1>5 DEF Connect

LEMMA CacheToolsKeeps == ASSUME IInv, NEW p \in Proc, CacheTools(p) PROVE IInv'
<1> DEFINE c == call[p]
           d == [c EXCEPT !.pc = "insert"]
<1>1. /\ c.pc = "cache" /\ CallOK(c) /\ c.name \in Name /\ c.op \in Adder
      /\ c.client \in Client
  BY DEF CacheTools, At, IInv, Typed, CallOK
<1>2. /\ UNCHANGED <<servers, report, raced>> /\ Goto(p, d)
      /\ cache' = [cache EXCEPT ![c.name] = c.client]
  BY DEF CacheTools, Cached
<1>3. /\ cache' \in [Name -> Client \cup {None}]
      /\ servers' \in [Name -> Client \cup {None}]
      /\ report' \in [Name -> {"absent", "ready", "failed"}]
      /\ cache'[c.name] = c.client
      /\ \A n \in Name \ {c.name} : cache'[n] = cache[n]
  BY <1>1, <1>2 DEF IInv, Typed
<1>4. /\ d.op = c.op /\ d.name = c.name /\ d.pc = "insert" /\ CallOK(d)
      /\ d.client = c.client
  BY <1>1 DEF CallOK, Calls, Label
<1>5. c.name \notin raced => servers'[c.name] = None
  BY <1>1, <1>2 DEF IInv, NameFree
<1> HIDE DEF d
<1>6. CallStep(p, d)
  BY <1>2, <1>3, <1>4, <1>5 DEF CallStep
<1>7. \A n \in Name : ServerStep(p, n) /\ CacheStep(p, n)
  BY <1>1, <1>2, <1>3 DEF ServerStep, CacheStep
<1> QED  BY <1>2, <1>3, <1>6, <1>7, StepKeeps

LEMMA InsertKeeps == ASSUME IInv, NEW p \in Proc, Insert(p) PROVE IInv'
<1> DEFINE c == call[p]
<1>1. /\ c.pc = "insert" /\ CallOK(c) /\ c.name \in Name /\ c.op \in Adder
      /\ c.client \in Client
  BY DEF Insert, At, IInv, Typed, CallOK
<1>2. /\ UNCHANGED <<cache, report, raced>>
      /\ report' \in [Name -> {"absent", "ready", "failed"}]
      /\ cache' \in [Name -> Client \cup {None}]
  BY DEF Insert, IInv, Typed
<1>3. CASE servers[c.name] # None
  <2> DEFINE d == [Recording(c, "lost") EXCEPT !.client = None]
  <2>1. /\ CallOK(d) /\ (d.op \in Adder => d.op = c.op /\ d.name = c.name)
        /\ d.pc \in {"idle", "lost"} /\ (d.pc = "lost" => d.name = c.name)
    BY <1>1, RecordingOK
  <2>2. Goto(p, d) /\ UNCHANGED servers
    BY <1>3 DEF Insert, Lost, Registered
  <2>3. c.name \in raced
    BY <1>1, <1>3 DEF IInv, NameFree
  <2> HIDE DEF d
  <2>4. CallStep(p, d)
    BY <2>1, <2>2, <2>3 DEF CallStep
  <2> QED  BY <1>2, <2>2, <2>4, OnlyTheCall
<1>4. CASE servers[c.name] = None
  <2> DEFINE d == [Recording(c, "healthy") EXCEPT !.client = None]
  <2>1. /\ CallOK(d) /\ (d.op \in Adder => d.op = c.op /\ d.name = c.name)
        /\ d.pc \in {"idle", "healthy"}
    BY <1>1, RecordingOK
  <2>2. Goto(p, d) /\ servers' = [servers EXCEPT ![c.name] = c.client]
    BY <1>4 DEF Insert, Registered
  <2>3. /\ servers' \in [Name -> Client \cup {None}] /\ servers'[c.name] = c.client
        /\ \A n \in Name \ {c.name} : servers'[n] = servers[n]
    BY <1>1, <2>2 DEF IInv, Typed
  <2> HIDE DEF d
  <2>4. CallStep(p, d)
    BY <2>1, <2>2 DEF CallStep
  <2>5. \A n \in Name : ServerStep(p, n) /\ CacheStep(p, n)
    BY <1>1, <1>2, <1>4, <2>3 DEF ServerStep, CacheStep
  <2> QED  BY <1>2, <2>3, <2>4, <2>5, StepKeeps
<1> QED  BY <1>3, <1>4

\* The call ends, and neither a server nor a listing changes.
LEMMA OnlyEnds ==
    ASSUME IInv, NEW p \in Proc, Goto(p, Idle), UNCHANGED <<servers, cache, raced>>,
           report' \in [Name -> {"absent", "ready", "failed"}]
    PROVE  IInv'
BY IdleStep, OnlyTheCall

LEMMA RecordsKeep ==
    ASSUME IInv, NEW p \in Proc, RecordFailure(p) \/ RecordHealthy(p)
    PROVE  IInv'
<1>1. Goto(p, Idle) /\ UNCHANGED <<servers, cache, raced>>
  BY DEF RecordFailure, RecordHealthy
<1>2. report' \in [Name -> {"absent", "ready", "failed"}]
  BY DEF RecordFailure, RecordHealthy, IInv, Typed
<1> QED  BY <1>1, <1>2, OnlyEnds

LEMMA RemoveKeeps == ASSUME IInv, NEW p \in Proc, Remove(p) PROVE IInv'
<1> DEFINE c == call[p]
<1>1. /\ c.pc = "remove" /\ CallOK(c) /\ c.name \in Name
      /\ \A q \in Proc, n \in Name : ~Uses(q, n)
  BY Excludes DEF Remove, At, IInv, Typed, CallOK
<1>2. /\ UNCHANGED <<cache, report, raced>>
      /\ report' \in [Name -> {"absent", "ready", "failed"}]
      /\ cache' \in [Name -> Client \cup {None}]
  BY DEF Remove, IInv, Typed
<1>3. CASE servers[c.name] = None
  BY <1>2, <1>3, OnlyEnds DEF Remove
<1>4. CASE servers[c.name] # None
  <2> DEFINE k == servers[c.name]
             d == [c EXCEPT !.pc = "uncache", !.client = k]
  <2>1. Goto(p, d) /\ servers' = [servers EXCEPT ![c.name] = None]
    BY <1>4 DEF Remove
  <2>2. k \in Client \cup {None}
    BY <1>1 DEF IInv, Typed
  <2> HIDE DEF k
  <2>3. /\ d.pc = "uncache" /\ d.op = c.op /\ d.name = c.name /\ CallOK(d)
    BY <1>1, <2>2 DEF CallOK, Calls, Label
  <2> HIDE DEF d
  <2>4. CallStep(p, d)
    BY <2>1, <2>3 DEF CallStep
  <2>5. /\ servers' \in [Name -> Client \cup {None}]
        /\ \A n \in Name : servers'[n] \in {servers[n], None}
    BY <1>1, <2>1 DEF IInv, Typed
  <2>6. \A n \in Name : ServerStep(p, n) /\ CacheStep(p, n)
    BY <1>1, <1>2, <2>5 DEF ServerStep, CacheStep
  <2> QED  BY <1>2, <2>4, <2>5, <2>6, StepKeeps
<1> QED  BY <1>3, <1>4

LEMMA DrainKeeps == ASSUME IInv, NEW p \in Proc, Drain(p) PROVE IInv'
<1> DEFINE c == call[p]
           d == [c EXCEPT !.pc = "closing"]
<1>1. /\ c.pc = "drain" /\ CallOK(c) /\ c.name \in Name
      /\ \A q \in Proc, n \in Name : ~Uses(q, n)
  BY Excludes DEF Drain, At, IInv, Typed, CallOK
<1>2. /\ UNCHANGED <<cache, report, raced>> /\ Goto(p, d)
      /\ report' \in [Name -> {"absent", "ready", "failed"}]
      /\ cache' \in [Name -> Client \cup {None}]
      /\ servers' \in [Name -> Client \cup {None}] /\ \A n \in Name : servers'[n] = None
  BY DEF Drain, IInv, Typed
<1>3. d.pc = "closing" /\ d.op = c.op /\ d.name = c.name /\ CallOK(d)
  BY <1>1 DEF CallOK, Calls, Label
<1> HIDE DEF d
<1>4. CallStep(p, d)
  BY <1>2, <1>3 DEF CallStep
<1>5. \A n \in Name : ServerStep(p, n) /\ CacheStep(p, n)
  BY <1>1, <1>2 DEF ServerStep, CacheStep
<1> QED  BY <1>2, <1>4, <1>5, StepKeeps

\* A listing is dropped, or every one is, and the call goes on.
LEMMA UncacheKeeps ==
    ASSUME IInv, NEW p \in Proc, Uncache(p) \/ ClearCache(p)
    PROVE  IInv'
<1> DEFINE c == call[p]
           e == [c EXCEPT !.pc = "closing"]
<1>1. c.pc \in {"uncache", "clear", "invalidate"} /\ CallOK(c) /\ c.name \in Name
  BY DEF Uncache, ClearCache, At, IInv, Typed, CallOK
<1>2. /\ UNCHANGED <<servers, report, raced>>
      /\ report' \in [Name -> {"absent", "ready", "failed"}]
      /\ servers' \in [Name -> Client \cup {None}]
      /\ cache' \in [Name -> Client \cup {None}]
      /\ \A n \in Name : cache'[n] \in {cache[n], None}
  BY <1>1 DEF Uncache, ClearCache, IInv, Typed
<1>3. PICK d : d \in {e, Idle} /\ Goto(p, d)
  BY DEF Uncache, ClearCache
<1>4. e.pc = "closing" /\ e.op = c.op /\ e.name = c.name /\ CallOK(e)
  BY <1>1 DEF CallOK, Calls, Label
<1> HIDE DEF e
<1>5. CallStep(p, d)
  BY <1>2, <1>3, <1>4, IdleStep DEF CallStep
<1>6. \A n \in Name : ServerStep(p, n) /\ CacheStep(p, n)
  BY <1>2 DEF ServerStep, CacheStep
<1> QED  BY <1>2, <1>5, <1>6, StepKeeps

\* Where a call goes that changes nothing itself and asks nothing of its new place.
LEMMA GoesOn ==
    ASSUME IInv, NEW p \in Proc, call[p].pc # "idle",
           NEW pc \in {"clear", "listed", "dispatch"}, Goto(p, [call[p] EXCEPT !.pc = pc]),
           UNCHANGED <<servers, cache, report, raced>>
    PROVE  IInv'
<1> DEFINE c == call[p]
           d == [c EXCEPT !.pc = pc]
<1>1. CallOK(c) /\ c.name \in Name
  BY DEF IInv, Typed, CallOK
<1>2. d.pc = pc /\ d.op = c.op /\ d.name = c.name /\ CallOK(d) /\ Goto(p, d)
  BY <1>1 DEF CallOK, Calls, Label
<1> HIDE DEF d
<1>3. CallStep(p, d)
  BY <1>2 DEF CallStep
<1> QED  BY <1>3, OnlyTheCall DEF IInv, Typed

LEMMA CloseKeeps == ASSUME IInv, NEW p \in Proc, Close(p) PROVE IInv'
<1>1. call[p].pc = "closing" /\ UNCHANGED <<servers, cache, report, raced>>
  BY DEF Close, At
<1>2. CASE call[p].op = "close_all"
  BY <1>1, <1>2, GoesOn DEF Close
<1>3. CASE call[p].op # "close_all"
  BY <1>1, <1>3, OnlyEnds DEF Close, IInv, Typed
<1> QED  BY <1>2, <1>3

LEMMA ListKeeps == ASSUME IInv, NEW p \in Proc, List(p) PROVE IInv'
<1>1. UNCHANGED <<servers, cache, report, raced>>
  BY DEF List
<1>2. CASE Goto(p, Idle)
  BY <1>1, <1>2, OnlyEnds DEF IInv, Typed
<1>3. CASE At(p, "list") /\ Goto(p, [call[p] EXCEPT !.pc = "listed"])
  BY <1>1, <1>3, GoesOn DEF At
<1> QED  BY <1>2, <1>3 DEF List

\* A call takes up a server that is registered.
LEMMA TakesServer ==
    ASSUME IInv, NEW p \in Proc, call[p].pc # "idle", servers[call[p].name] # None,
           NEW pc \in {"calling", "refreshing"},
           Goto(p, [call[p] EXCEPT !.pc = pc, !.client = servers[call[p].name]]),
           UNCHANGED <<servers, cache, report, raced>>
    PROVE  IInv'
<1> DEFINE c == call[p]
           k == servers[c.name]
           d == [c EXCEPT !.pc = pc, !.client = k]
<1>1. CallOK(c) /\ c.name \in Name
  BY DEF IInv, Typed, CallOK
<1>2. k \in Client
  BY <1>1 DEF IInv, Typed
<1>3. k = servers'[c.name] /\ Goto(p, d)
  OBVIOUS
<1> HIDE DEF k
<1>4. d.pc = pc /\ d.op = c.op /\ d.name = c.name /\ d.client = k /\ CallOK(d)
  BY <1>1, <1>2 DEF CallOK, Calls, Label
<1> HIDE DEF d
<1>5. CallStep(p, d)
  BY <1>3, <1>4 DEF CallStep
<1> QED  BY <1>5, OnlyTheCall DEF IInv, Typed

LEMMA RefreshKeeps == ASSUME IInv, NEW p \in Proc, Refresh(p) PROVE IInv'
<1>1. call[p].pc = "refresh" /\ UNCHANGED <<servers, cache, report, raced>>
  BY DEF Refresh, At
<1>2. CASE servers[call[p].name] = None
  BY <1>1, <1>2, OnlyEnds DEF Refresh, IInv, Typed
<1>3. CASE servers[call[p].name] # None
  BY <1>1, <1>3, TakesServer DEF Refresh
<1> QED  BY <1>2, <1>3

LEMMA DispatchKeeps == ASSUME IInv, NEW p \in Proc, Dispatch(p) PROVE IInv'
<1>1. call[p].pc = "dispatch" /\ UNCHANGED <<servers, cache, report, raced>>
  BY DEF Dispatch, At
<1>2. CASE servers[call[p].name] = None
  BY <1>1, <1>2, OnlyEnds DEF Dispatch, IInv, Typed
<1>3. CASE servers[call[p].name] # None
  BY <1>1, <1>3, TakesServer DEF Dispatch
<1> QED  BY <1>2, <1>3

LEMMA EnsureKeeps == ASSUME IInv, NEW p \in Proc, EnsureConnected(p) PROVE IInv'
<1>1. call[p].pc = "ensure" /\ UNCHANGED <<servers, cache, report, raced>>
  BY DEF EnsureConnected, At
<1>2. CASE servers[call[p].name] = None
  BY <1>1, <1>2, OnlyEnds DEF EnsureConnected, IInv, Typed
<1>3. CASE servers[call[p].name] # None
  BY <1>1, <1>3, GoesOn DEF EnsureConnected
<1> QED  BY <1>2, <1>3

LEMMA RefreshedKeeps == ASSUME IInv, NEW p \in Proc, Refreshed(p) PROVE IInv'
<1> DEFINE c == call[p]
<1>1. c.pc = "refreshing" /\ CallOK(c) /\ c.name \in Name /\ c.client \in Client
  BY DEF Refreshed, At, IInv, Typed, CallOK
<1>2. /\ UNCHANGED <<servers, report, raced>> /\ Goto(p, Idle)
      /\ cache' = [cache EXCEPT ![c.name] = c.client]
  BY DEF Refreshed
<1>3. /\ cache' \in [Name -> Client \cup {None}]
      /\ servers' \in [Name -> Client \cup {None}]
      /\ report' \in [Name -> {"absent", "ready", "failed"}]
      /\ cache'[c.name] = c.client
      /\ \A n \in Name \ {c.name} : cache'[n] = cache[n]
  BY <1>1, <1>2 DEF IInv, Typed
<1>4. \A n \in Name : ServerStep(p, n) /\ CacheStep(p, n)
  BY <1>1, <1>2, <1>3 DEF ServerStep, CacheStep
<1> QED  BY <1>2, <1>3, <1>4, IdleStep, StepKeeps

LEMMA EndsKeep ==
    ASSUME IInv, NEW p \in Proc, Answer(p) \/ Dropped(p)
    PROVE  IInv'
BY OnlyEnds DEF Answer, Dropped, IInv, Typed

LEMMA ExpireKeeps == ASSUME IInv, NEW n \in Name, Expire(n) PROVE IInv'
<1>1. UNCHANGED <<servers, report, raced, call, line>>
  BY DEF Expire
<1>2. /\ cache' \in [Name -> Client \cup {None}]
      /\ \A m \in Name : cache'[m] \in {cache[m], None}
  BY DEF Expire, IInv, Typed
<1>3. Typed' /\ ServerStaysInUse' /\ RacesKnown' /\ NameFree' /\ LostRaced'
  BY <1>1, <1>2 DEF IInv, Typed, ServerStaysInUse, RacesKnown, Adds, NameFree, LostRaced
<1>4. \A q \in Proc : call[q].pc = "insert" => call[q].name \in Name
  BY DEF IInv, Typed, CallOK
<1>5. ListingKept'
  BY <1>1, <1>2, <1>4 DEF IInv, ListingKept
<1>6. CacheFollowsServers'
  BY <1>1, <1>2 DEF IInv, CacheFollowsServers
<1> QED  BY <1>3, <1>5, <1>6 DEF IInv

LEMMA StepInv == IInv /\ [Next]_vars => IInv'
<1> SUFFICES ASSUME IInv, [Next]_vars PROVE IInv'
  OBVIOUS
<1>1. ASSUME NEW p \in Proc, Step(p) PROVE IInv'
  BY <1>1, CheckKeeps, CacheToolsKeeps, InsertKeeps, RecordsKeep, RemoveKeeps, UncacheKeeps,
     DrainKeeps, CloseKeeps, ListKeeps, RefreshKeeps, RefreshedKeeps, EnsureKeeps,
     DispatchKeeps, EndsKeep DEF Step
<1>2. ASSUME NEW p \in Proc, Connect(p) PROVE IInv'
  BY <1>2, ConnectKeeps
<1>3. ASSUME NEW p \in Proc, Dropped(p) PROVE IInv'
  BY <1>3, EndsKeep
<1>4. ASSUME NEW p \in Proc, NEW op \in Ops, NEW n \in Name, Begin(p, op, n) PROVE IInv'
  BY <1>4, BeginKeeps
<1>5. ASSUME NEW n \in Name, Expire(n) PROVE IInv'
  BY <1>5, ExpireKeeps
<1>6. CASE UNCHANGED vars
  BY <1>6 DEF vars, IInv, Typed, ServerStaysInUse, RacesKnown, Adds, NameFree, LostRaced,
     ListingKept, CacheFollowsServers
<1> QED  BY <1>1, <1>2, <1>3, <1>4, <1>5, <1>6 DEF Next

-----------------------------------------------------------------------------
(* The report *)

\* Every registration records its outcome, and is carried to its end.
Tracked == "add" \notin Ops /\ "track" \notin Droppable

\* Without a race, a registered server is reported healthy or about to be.
HealthyReported ==
    \A n \in Name \ raced :
        servers[n] # None =>
            \/ report[n] = "ready"
            \/ \E p \in Proc : Adds(p, n) /\ call[p].pc = "healthy"

\* What a step of p does to a server and to its report.
ReportStep(p, n) ==
    /\ \/ servers'[n] \in {servers[n], None}
       \/ call'[p].op \in Adder /\ call'[p].name = n /\ call'[p].pc = "healthy"
    /\ \/ report'[n] \in {report[n], "ready"}
       \/ call[p].name = n /\ call[p].pc \in {"fail", "lost"} /\ servers'[n] = servers[n]
    /\ call[p].pc = "healthy" /\ call[p].name = n => report'[n] = "ready"

LEMMA ReportKept ==
    ASSUME IInv, HealthyReported, NEW p \in Proc, raced \subseteq raced',
           \A q \in Proc \ {p} : call'[q] = call[q],
           \A n \in Name : ReportStep(p, n)
    PROVE  HealthyReported'
<1> SUFFICES ASSUME NEW n \in Name, n \notin raced', servers'[n] # None, report'[n] # "ready"
             PROVE  \E q \in Proc : (Adds(q, n) /\ call[q].pc = "healthy")'
  BY DEF HealthyReported
<1>1. ReportStep(p, n) /\ n \notin raced
  OBVIOUS
<1>2. CASE call'[p].op \in Adder /\ call'[p].name = n /\ call'[p].pc = "healthy"
  BY <1>2 DEF Adds
<1>3. CASE servers'[n] = servers[n]
  <2>1. ~(call[p].name = n /\ call[p].pc \in {"fail", "lost"})
    BY <1>1, <1>3 DEF IInv, NameFree, LostRaced
  <2>2. report[n] # "ready"
    BY <1>1, <2>1 DEF ReportStep
  <2>3. PICK q \in Proc : Adds(q, n) /\ call[q].pc = "healthy"
    BY <1>1, <1>3, <2>2 DEF HealthyReported
  <2>4. q # p
    BY <1>1, <2>3 DEF ReportStep, Adds
  <2> QED  BY <2>3, <2>4 DEF Adds
<1> QED  BY <1>1, <1>2, <1>3 DEF ReportStep

\* Only the call itself moves.
LEMMA Elsewhere ==
    ASSUME IInv, NEW p \in Proc, NEW d, Goto(p, d)
    PROVE  /\ \A q \in Proc \ {p} : call'[q] = call[q]
           /\ call'[p] = d
BY DEF Goto, IInv, Typed

LEMMA InsertReports ==
    ASSUME IInv, Tracked, NEW p \in Proc, Insert(p)
    PROVE  /\ \A q \in Proc \ {p} : call'[q] = call[q]
           /\ \A n \in Name : ReportStep(p, n)
<1> DEFINE c == call[p]
<1>1. /\ c.pc = "insert" /\ CallOK(c) /\ c.name \in Name /\ c.op \in Adder
      /\ UNCHANGED <<cache, report, raced>>
  BY DEF Insert, At, IInv, Typed, CallOK
<1>2. CASE servers[c.name] # None
  <2>1. Goto(p, Lost(c)) /\ UNCHANGED servers
    BY <1>2 DEF Insert, Registered
  <2> QED  BY <1>1, <2>1, Elsewhere DEF ReportStep
<1>3. CASE servers[c.name] = None
  <2> DEFINE e == [c EXCEPT !.pc = "healthy"]
             d == [Recording(c, "healthy") EXCEPT !.client = None]
  <2>1. /\ Goto(p, d) /\ servers' = [servers EXCEPT ![c.name] = c.client]
    BY <1>3 DEF Insert, Registered
  <2>2. c.op = "track"
    BY <1>1 DEF Tracked, CallOK, Calls, Adder
  <2>3. e \in Calls /\ Recording(c, "healthy") = e
    BY <1>1, <2>2 DEF CallOK, Calls, Label, Recording
  <2>4. d.op = c.op /\ d.name = c.name /\ d.pc = "healthy"
    BY <2>3 DEF Calls
  <2> HIDE DEF d
  <2>5. /\ call'[p] = d /\ \A q \in Proc \ {p} : call'[q] = call[q]
    BY <2>1, Elsewhere
  <2>6. call'[p].op \in Adder /\ call'[p].name = c.name /\ call'[p].pc = "healthy"
    BY <1>1, <2>4, <2>5
  <2>7. \A n \in Name \ {c.name} : servers'[n] = servers[n]
    BY <2>1 DEF IInv, Typed
  <2>8. ASSUME NEW n \in Name PROVE ReportStep(p, n)
    <3>1. CASE n = c.name
      BY <1>1, <2>6, <3>1 DEF ReportStep
    <3>2. CASE n # c.name
      BY <1>1, <2>7, <3>2 DEF ReportStep
    <3> QED  BY <3>1, <3>2
  <2> QED  BY <2>5, <2>8
<1> QED  BY <1>2, <1>3

LEMMA RecordsReport ==
    ASSUME IInv, NEW p \in Proc, RecordFailure(p) \/ RecordHealthy(p)
    PROVE  /\ \A q \in Proc \ {p} : call'[q] = call[q]
           /\ \A n \in Name : ReportStep(p, n)
<1> DEFINE c == call[p]
<1>1. Goto(p, Idle) /\ UNCHANGED <<servers, cache, raced>>
  BY DEF RecordFailure, RecordHealthy
<1>2. CASE RecordFailure(p)
  <2>1. c.pc \in {"fail", "lost"} /\ report' = [report EXCEPT ![c.name] = "failed"]
    BY <1>2 DEF RecordFailure, At
  <2>2. \A n \in Name \ {c.name} : report'[n] = report[n]
    BY <2>1 DEF IInv, Typed
  <2> QED  BY <1>1, <2>1, <2>2, Elsewhere DEF ReportStep
<1>3. CASE RecordHealthy(p)
  <2>1. c.pc = "healthy" /\ report' = [report EXCEPT ![c.name] = "ready"]
    BY <1>3 DEF RecordHealthy, At
  <2>2. /\ \A n \in Name \ {c.name} : report'[n] = report[n]
        /\ c.name \in Name => report'[c.name] = "ready"
    BY <2>1 DEF IInv, Typed
  <2>3. \A n \in Name : report'[n] \in {report[n], "ready"}
    BY <2>2
  <2>4. \A n \in Name : ReportStep(p, n)
    BY <1>1, <2>2, <2>3 DEF ReportStep
  <2> QED  BY <1>1, <2>4, Elsewhere
<1> QED  BY <1>2, <1>3

\* The other steps of a call take servers away at most, and report nothing.
LEMMA OthersReport ==
    ASSUME IInv, NEW p \in Proc, call[p].pc # "healthy", NEW d, Goto(p, d), UNCHANGED report,
           \A n \in Name : servers'[n] \in {servers[n], None}
    PROVE  /\ \A q \in Proc \ {p} : call'[q] = call[q]
           /\ \A n \in Name : ReportStep(p, n)
BY Elsewhere DEF ReportStep

LEMMA RemovesReport ==
    ASSUME IInv, NEW p \in Proc, Remove(p) \/ Drain(p)
    PROVE  /\ \A q \in Proc \ {p} : call'[q] = call[q]
           /\ \A n \in Name : ReportStep(p, n)
<1>1. call[p].pc # "healthy" /\ UNCHANGED report /\ \E d : Goto(p, d)
  BY DEF Remove, Drain, At
<1>2. \A n \in Name : servers'[n] \in {servers[n], None}
  BY DEF Remove, Drain, IInv, Typed
<1> QED  BY <1>1, <1>2, OthersReport

LEMMA HealthyInv == Tracked /\ IInv /\ HealthyReported /\ [Next]_vars => HealthyReported'
<1> SUFFICES ASSUME Tracked, IInv, HealthyReported, [Next]_vars PROVE HealthyReported'
  OBVIOUS
<1>1. ASSUME NEW p \in Proc, Step(p) PROVE HealthyReported'
  <2>0. raced' = raced
    BY <1>1 DEF Step, Check, CacheTools, Insert, RecordFailure, RecordHealthy, Remove, Uncache,
       Drain, Close, ClearCache, List, Refresh, Refreshed, EnsureConnected, Dispatch, Answer
  <2>1. CASE Insert(p)
    BY <2>0, <2>1, InsertReports, ReportKept
  <2>2. CASE RecordFailure(p) \/ RecordHealthy(p)
    BY <2>0, <2>2, RecordsReport, ReportKept
  <2>3. CASE Remove(p) \/ Drain(p)
    BY <2>0, <2>3, RemovesReport, ReportKept
  <2>4. CASE \/ Check(p) \/ CacheTools(p) \/ Uncache(p) \/ Close(p) \/ ClearCache(p)
             \/ List(p) \/ Refresh(p) \/ Refreshed(p)
             \/ EnsureConnected(p) \/ Dispatch(p) \/ Answer(p)
    <3>1. UNCHANGED <<servers, report>> /\ call[p].pc # "healthy"
      BY <2>4 DEF Check, CacheTools, Uncache, Close, ClearCache, List, Refresh, Refreshed,
         EnsureConnected, Dispatch, Answer, At
    <3>2. \E d : Goto(p, d)
      BY <2>4 DEF Check, CacheTools, Uncache, Close, ClearCache, List, Refresh, Refreshed,
         EnsureConnected, Dispatch, Answer
    <3>3. \A n \in Name : servers'[n] \in {servers[n], None}
      BY <3>1
    <3> QED  BY <2>0, <3>1, <3>2, <3>3, OthersReport, ReportKept
  <2> QED  BY <1>1, <2>1, <2>2, <2>3, <2>4 DEF Step
<1>2. ASSUME NEW p \in Proc, Connect(p) \/ Dropped(p) PROVE HealthyReported'
  <2>1. UNCHANGED <<servers, report, raced>> /\ \E d : Goto(p, d)
    BY <1>2 DEF Connect, Dropped
  <2>2. call[p].pc # "healthy"
    BY <1>2, ManagerAssumption DEF Connect, Dropped, At, Tracked, IInv, Typed, CallOK, Adder
  <2>3. \A n \in Name : servers'[n] \in {servers[n], None}
    BY <2>1
  <2> QED  BY <2>1, <2>2, <2>3, OthersReport, ReportKept
<1>3. ASSUME NEW p \in Proc, NEW op \in Ops, NEW n \in Name, Begin(p, op, n)
      PROVE  HealthyReported'
  <2>1. UNCHANGED <<servers, report>> /\ call[p].pc = "idle" /\ \E d : Goto(p, d)
    BY <1>3 DEF Begin
  <2>2. raced \subseteq raced'
    BY <1>3 DEF Begin
  <2>3. \A m \in Name : servers'[m] \in {servers[m], None}
    BY <2>1
  <2> QED  BY <2>1, <2>2, <2>3, OthersReport, ReportKept
<1>4. ASSUME NEW n \in Name, Expire(n) PROVE HealthyReported'
  BY <1>4 DEF Expire, HealthyReported, Adds
<1>5. CASE UNCHANGED vars
  BY <1>5 DEF vars, HealthyReported, Adds
<1> QED  BY <1>1, <1>2, <1>3, <1>4, <1>5 DEF Next

-----------------------------------------------------------------------------
(* Theorems *)

\* Whatever is dropped, raced and removed, the invariant above holds: types, who
\* registers what, and what is registered and cached meanwhile.
THEOREM Inductive == Spec => []IInv
BY InitInv, StepInv, PTL DEF Spec

\* Every variable but the lines keeps to its type.
THEOREM TypeCorrect == Spec => []TypeOK
<1>1. IInv => TypeOK
  BY DEF IInv, Typed, TypeOK, Calls
<1> QED  BY <1>1, Inductive, PTL

\* No remove and no close_all takes a server from a call_tool or refresh_tools
\* that is waiting for it.
THEOREM ServersStay == Spec => []ServerStaysInUse
<1>1. IInv => ServerStaysInUse
  BY DEF IInv
<1> QED  BY <1>1, Inductive, PTL

\* What is cached under a registered name are its server's tools, but for names
\* whose registrations overlapped, which the code gets wrong.
THEOREM CacheFollows == Spec => []CacheFollowsServers
<1>1. IInv => CacheFollowsServers
  BY DEF IInv
<1> QED  BY <1>1, Inductive, PTL

\* Where every registration is tracked and runs to its end, the report calls
\* every registered server healthy, again but for overlapping registrations.
THEOREM ReportFollows == ASSUME Tracked PROVE Spec => []RegisteredIsHealthy
<1>1. Init => HealthyReported
  BY DEF Init, HealthyReported
<1>2. IInv /\ HealthyReported => RegisteredIsHealthy
  BY DEF HealthyReported, RegisteredIsHealthy, Adding, Adds, Adder
<1>3. IInv /\ HealthyReported /\ [Next]_vars => HealthyReported'
  BY HealthyInv
<1> QED  BY <1>1, <1>2, <1>3, Inductive, PTL DEF Spec
===============================================================================
