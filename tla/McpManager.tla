------------------------------ MODULE McpManager ------------------------------
(***************************************************************************)
(* The registry of MCP servers: src/src/mcp/manager.rs.  One manager is    *)
(* shared by agents, which register and remove servers, list and refresh   *)
(* their tools and call them, all at once, under three read-write locks:   *)
(* servers, tool_cache and degraded.                                       *)
(*                                                                         *)
(* Every step is what a call does between two awaits; it waits for the     *)
(* lock it needs in line, as tokio's RwLock makes it.  What a call holds   *)
(* while it waits follows from where it is.  A client is one connection:   *)
(* its tools are known by the client they came from.                       *)
(***************************************************************************)
EXTENDS Sequences, FiniteSets

CONSTANTS
    Name,       \* server names
    Proc,       \* calls to the manager at once
    Client,     \* bound: clients alive at once
    None,       \* no client
    Ops,        \* which calls are made
    Droppable   \* which calls may be dropped by their callers

ASSUME ManagerAssumption ==
    /\ None \notin Client
    /\ Droppable \subseteq Ops
    /\ Ops \subseteq {"add", "track", "remove", "list", "refresh", "invalidate",
                      "tool", "close_all"}

VARIABLES
    servers,    \* the registered client of each name
    cache,      \* the client whose tools are cached under each name
    report,     \* the DegradedReport: the last outcome recorded of each name
    raced,      \* history: names with registrations that overlapped
    call,       \* what each process has in progress
    line        \* who waits for each lock, in order

vars == <<servers, cache, report, raced, call, line>>

Lock == {"servers", "tool_cache", "degraded"}

Idle == [op |-> "none", name |-> None, pc |-> "idle", client |-> None]

-----------------------------------------------------------------------------
(* Locks *)

\* The lock a call at this point waits for, ...
Wants(pc) ==
    CASE pc \in {"check", "insert", "remove", "list", "refresh", "ensure", "dispatch",
                 "drain"} -> "servers"
      [] pc \in {"cache", "uncache", "listed", "refreshing", "invalidate", "clear"} ->
           "tool_cache"
      [] pc \in {"fail", "lost", "healthy"} -> "degraded"
      [] OTHER -> "none"

Reads(pc) == pc \in {"check", "list", "listed", "refresh", "ensure", "dispatch"}

\* Mutant: the guard of the tool cache is kept until the server is inserted.
HeldAcrossInsert(pc) ==
    CASE pc = "insert" -> {"tool_cache"}
      [] pc \in {"lost", "uncache", "closing", "clear"} -> {"servers"}
      [] OTHER -> {}

\* ... and the guards it still holds there.
HeldForWriting(pc) ==
    IF pc \in {"lost", "uncache", "closing", "clear"} THEN {"servers"} ELSE {}

\* Mutant: no guard is held while a server is called.
HeldBeforeCalling(pc) ==
    IF pc \in {"listed", "refreshing"} THEN {"servers"} ELSE {}

HeldForReading(pc) ==
    IF pc \in {"listed", "refreshing", "calling"} THEN {"servers"} ELSE {}

\* p is at pc, and first in line for a lock that nobody keeps it from.
At(p, pc) ==
    LET l == Wants(pc)
    IN  /\ call[p].pc = pc
        /\ l # "none" =>
             /\ p = Head(line[l])
             /\ \A q \in Proc :
                  /\ l \notin HeldForWriting(call[q].pc)
                  /\ Reads(pc) \/ l \notin HeldForReading(call[q].pc)

\* p is in line no more, granted or dropped.
LeftBy(queue, p) == SelectSeq(queue, LAMBDA q : q # p)

\* p goes on to c, and gets in line for the lock it needs there.
Goto(p, c) ==
    /\ call' = [call EXCEPT ![p] = c]
    /\ line' = [l \in Lock |-> IF Wants(c.pc) = l THEN Append(LeftBy(line[l], p), p)
                               ELSE LeftBy(line[l], p)]

Adding(n) == {p \in Proc : call[p].op \in {"add", "track"} /\ call[p].name = n}

\* A client that nothing refers to can stand for a new one.
Free(k) ==
    /\ \A n \in Name : k \notin {servers[n], cache[n]}
    /\ \A p \in Proc : call[p].client # k

Init ==
    /\ servers = [n \in Name |-> None]
    /\ cache = [n \in Name |-> None]
    /\ report = [n \in Name |-> "absent"]
    /\ raced = {}
    /\ call = [p \in Proc |-> Idle]
    /\ line = [l \in Lock |-> <<>>]

-----------------------------------------------------------------------------
(* A call begins *)

First ==
    [add |-> "check", track |-> "check", remove |-> "remove", list |-> "list",
     refresh |-> "refresh", invalidate |-> "invalidate", tool |-> "ensure",
     close_all |-> "drain"]

Begin(p, op, n) ==
    /\ call[p].pc = "idle"
    /\ op \in Ops
    /\ Goto(p, [Idle EXCEPT !.op = op, !.name = n, !.pc = First[op]])
    /\ raced' = IF op \in {"add", "track"} /\ Adding(n) # {} THEN raced \cup {n} ELSE raced
    /\ UNCHANGED <<servers, cache, report>>

-----------------------------------------------------------------------------
(* add_server and add_server_tracked *)

\* Only the tracked variant has something to record.
Recording(c, pc) == IF c.op = "track" THEN [c EXCEPT !.pc = pc] ELSE Idle

\* Mutant: the refusal of a name that is taken is recorded as a failure.
TakenRecorded(c) == Recording(c, "fail")

\* A name that is taken is refused, and nothing is recorded.
Taken(c) == Idle

Check(p) ==
    LET c == call[p]
    IN  /\ At(p, "check")
        /\ IF servers[c.name] # None
           THEN Goto(p, Taken(c))
           ELSE \E k \in Client :
                  Free(k) /\ Goto(p, [c EXCEPT !.pc = "connect", !.client = k])
        /\ UNCHANGED <<servers, cache, report, raced>>

\* No lock is held while the client connects, fails to or waits for the server.
Connect(p) ==
    LET c == call[p]
    IN  /\ At(p, "connect")
        /\ \/ Goto(p, [c EXCEPT !.pc = "cache"])
           \/ Goto(p, [Recording(c, "fail") EXCEPT !.client = None])
        /\ UNCHANGED <<servers, cache, report, raced>>

\* Mutant: a listing that is cached already is kept.
CachedOnce(c) ==
    IF cache[c.name] = None THEN [cache EXCEPT ![c.name] = c.client] ELSE cache

Cached(c) == [cache EXCEPT ![c.name] = c.client]

CacheTools(p) ==
    LET c == call[p]
    IN  /\ At(p, "cache")
        /\ cache' = Cached(c)
        /\ Goto(p, [c EXCEPT !.pc = "insert"])
        /\ UNCHANGED <<servers, report, raced>>

Registered(n) == servers[n] # None

\* The loser of a race drops its client.
Lost(c) == [Recording(c, "lost") EXCEPT !.client = None]

Insert(p) ==
    LET c == call[p]
    IN  /\ At(p, "insert")
        /\ IF Registered(c.name)
           THEN Goto(p, Lost(c)) /\ UNCHANGED servers
           ELSE /\ servers' = [servers EXCEPT ![c.name] = c.client]
                /\ Goto(p, [Recording(c, "healthy") EXCEPT !.client = None])
        /\ UNCHANGED <<cache, report, raced>>

RecordFailure(p) ==
    LET c == call[p]
    IN  /\ At(p, "fail") \/ At(p, "lost")
        /\ report' = [report EXCEPT ![c.name] = "failed"]
        /\ Goto(p, Idle)
        /\ UNCHANGED <<servers, cache, raced>>

RecordHealthy(p) ==
    LET c == call[p]
    IN  /\ At(p, "healthy")
        /\ report' = [report EXCEPT ![c.name] = "ready"]
        /\ Goto(p, Idle)
        /\ UNCHANGED <<servers, cache, raced>>

-----------------------------------------------------------------------------
(* remove_server and close_all *)

Remove(p) ==
    LET c == call[p]
    IN  /\ At(p, "remove")
        /\ IF servers[c.name] = None
           THEN Goto(p, Idle) /\ UNCHANGED servers
           ELSE /\ servers' = [servers EXCEPT ![c.name] = None]
                /\ Goto(p, [c EXCEPT !.pc = "uncache", !.client = servers[c.name]])
        /\ UNCHANGED <<cache, report, raced>>

Uncache(p) ==
    LET c == call[p]
    IN  /\ At(p, "uncache")
        /\ cache' = [cache EXCEPT ![c.name] = None]
        /\ Goto(p, [c EXCEPT !.pc = "closing"])
        /\ UNCHANGED <<servers, report, raced>>

Drain(p) ==
    LET c == call[p]
    IN  /\ At(p, "drain")
        /\ servers' = [n \in Name |-> None]
        /\ Goto(p, [c EXCEPT !.pc = "closing"])
        /\ UNCHANGED <<cache, report, raced>>

\* The clients taken out are closed, or fail to be.
Close(p) ==
    LET c == call[p]
    IN  /\ At(p, "closing")
        /\ Goto(p, IF c.op = "close_all" THEN [c EXCEPT !.pc = "clear"] ELSE Idle)
        /\ UNCHANGED <<servers, cache, report, raced>>

\* The end of close_all, and all of invalidate_cache.
ClearCache(p) ==
    /\ At(p, "clear") \/ At(p, "invalidate")
    /\ cache' = [n \in Name |-> None]
    /\ Goto(p, Idle)
    /\ UNCHANGED <<servers, report, raced>>

-----------------------------------------------------------------------------
(* list_tools, refresh_tools, call_tool *)

List(p) ==
    LET c == call[p]
    IN  /\ \/ At(p, "list") /\ Goto(p, [c EXCEPT !.pc = "listed"])
           \/ At(p, "listed") /\ Goto(p, Idle)
        /\ UNCHANGED <<servers, cache, report, raced>>

Refresh(p) ==
    LET c == call[p]
    IN  /\ At(p, "refresh")
        /\ Goto(p, IF servers[c.name] = None THEN Idle
                   ELSE [c EXCEPT !.pc = "refreshing", !.client = servers[c.name]])
        /\ UNCHANGED <<servers, cache, report, raced>>

Refreshed(p) ==
    LET c == call[p]
    IN  /\ At(p, "refreshing")
        /\ cache' = [cache EXCEPT ![c.name] = c.client]
        /\ Goto(p, Idle)
        /\ UNCHANGED <<servers, report, raced>>

\* ensure_connected: a registered client was Ready when it was inserted, and
\* only close(), on a client taken out of the map, changes its state again.
EnsureConnected(p) ==
    LET c == call[p]
    IN  /\ At(p, "ensure")
        /\ Goto(p, IF servers[c.name] = None THEN Idle ELSE [c EXCEPT !.pc = "dispatch"])
        /\ UNCHANGED <<servers, cache, report, raced>>

Dispatch(p) ==
    LET c == call[p]
    IN  /\ At(p, "dispatch")
        /\ Goto(p, IF servers[c.name] = None THEN Idle
                   ELSE [c EXCEPT !.pc = "calling", !.client = servers[c.name]])
        /\ UNCHANGED <<servers, cache, report, raced>>

\* The server answers, the connection turns out broken, or the call times out.
Answer(p) ==
    /\ At(p, "calling")
    /\ Goto(p, Idle)
    /\ UNCHANGED <<servers, cache, report, raced>>

-----------------------------------------------------------------------------
(* What happens to the calls and to the cache *)

\* A caller drops its call: the guards are released.
Dropped(p) ==
    /\ call[p].op \in Droppable
    /\ Goto(p, Idle)
    /\ UNCHANGED <<servers, cache, report, raced>>

\* A cached listing outlives its TTL: list_tools takes it for none.
Expire(n) ==
    /\ cache' = [cache EXCEPT ![n] = None]
    /\ UNCHANGED <<servers, report, raced, call, line>>

-----------------------------------------------------------------------------
\* What a call that is not connecting does next.
Step(p) ==
    \/ Check(p) \/ CacheTools(p) \/ Insert(p) \/ RecordFailure(p) \/ RecordHealthy(p)
    \/ Remove(p) \/ Uncache(p) \/ Drain(p) \/ Close(p) \/ ClearCache(p)
    \/ List(p) \/ Refresh(p) \/ Refreshed(p)
    \/ EnsureConnected(p) \/ Dispatch(p) \/ Answer(p)

Next ==
    \/ \E p \in Proc : Step(p) \/ Connect(p) \/ Dropped(p)
    \/ \E p \in Proc, op \in Ops, n \in Name : Begin(p, op, n)
    \/ \E n \in Name : Expire(n)

Spec == Init /\ [][Next]_vars

\* Calls go on, except that a server may leave tools/list unanswered, which no
\* timeout bounds; agents go on calling tools.
Fairness ==
    /\ \A p \in Proc : WF_vars(Step(p))
    /\ \A n \in Name : WF_vars(\E p \in Proc : Begin(p, "tool", n))

FairSpec == Spec /\ Fairness

-----------------------------------------------------------------------------
(* Properties *)

Label == {"idle", "check", "connect", "cache", "insert", "fail", "lost", "healthy",
          "remove", "uncache", "drain", "closing", "clear", "invalidate", "list",
          "listed", "refresh", "refreshing", "ensure", "dispatch", "calling"}

\* Every variable keeps to its type, but for the lines, which `Goto` keeps.
TypeOK ==
    /\ servers \in [Name -> Client \cup {None}]
    /\ cache \in [Name -> Client \cup {None}]
    /\ report \in [Name -> {"absent", "ready", "failed"}]
    /\ raced \subseteq Name
    /\ call \in [Proc -> [op : Ops \cup {"none"}, name : Name \cup {None}, pc : Label,
                          client : Client \cup {None}]]

\* Whoever calls a server or re-reads its tools finds it registered all the
\* time: a remove or close_all waits for it (the guards at manager.rs:536, 437).
ServerStaysInUse ==
    \A p \in Proc : call[p].pc \in {"calling", "refreshing"} =>
        servers[call[p].name] = call[p].client

\* What is cached under the name of a registered server are that server's tools
\* ("`tool_cache` is a projection of `servers`", manager.rs:22), unless
\* registrations of the name raced: the loser fills the cache before it loses.
CacheFollowsServers ==
    \A n \in Name \ raced : servers[n] # None /\ cache[n] # None => cache[n] = servers[n]

\* Once its registration is over, a server that is registered, and tracked, is
\* reported healthy (mcp/mod.rs:395: is_healthy tells "which subset is usable"),
\* unless registrations raced: the loser reports its failure after the winner.
RegisteredIsHealthy ==
    \A n \in Name \ raced : servers[n] # None /\ Adding(n) = {} => report[n] = "ready"

\* No call waits for a lock for ever: it returns, or waits for its own server.
CallsEnd ==
    \A p \in Proc : call[p].pc # "idle" ~> call[p].pc \in {"idle", "connect"}
=============================================================================
