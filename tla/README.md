# branchforge in TLA+

A verification development for `branchforge`, a Rust runtime for stateful agents. The modules
model the concurrent core of the runtime: who may run a turn of a session, what a streaming run
yields and when it is durable, how delegated tasks are registered, settled and recovered, how the
circuit breaker in front of a provider behaves under races, how the history of a session grows, is
archived, forked and replayed, what the three durable backends keep of it through crashes, lost
replies and concurrent callers, what agents may spend of a budget they share, and how calls, listings
and registrations of MCP servers get along. TLC checks each model on small instances; TLAPS proves
most of the safety properties for every value of the constants.

Paths below are relative to the repository (`src/` is its root). Each definition that stands for
code is tied to its lines in `PROJECT.json` ("map").

- [The system](#the-system)
- [Modules](#modules)
- [Runs](#runs)
- [Proofs](#proofs)
- [What the code does that its documentation does not say](#what-the-code-does-that-its-documentation-does-not-say)
- [Only model-checked, and not modelled](#only-model-checked-and-not-modelled)
- [Plan](#plan)

## The system

A host builds an `Agent` (runtime layer 1) and calls `execute` or `execute_stream`. A call takes a
turn of one session: it records the prompt, sends requests to a provider, runs the tools the model
asks for, and repeats until the model stops, a limit is reached or something fails. Turns may
delegate to subagents through the Task tool; each has a session of its own. Sessions are graphs of
nodes kept in memory by a `SessionHandle` and saved whole through a `Persistence` backend. Tokio
runs every future; between two awaits a future is not interrupted, unless it runs on another thread
and shares an atomic or a lock, and it may be dropped at any await.

| Component | State | Operations | Talks to | Correct when |
|---|---|---|---|---|
| Task tracker and Task tool (`agent/task_tracker.rs`, `task.rs`) | map of runtime entries (handle, cancel channel, pending outcome, slot), OnceCell of the sweep | register or resume, set_handle, complete, fail, cancel, status, list, retry, sweep | store (load, save), spawned agents, hooks | the durable session follows the lifecycle, an end is final, nothing alive is called orphaned, nothing dead stays unfinished, the limit of background agents holds |
| Session lifecycle (`session/state/`) | state and error of a session | transition, finalize, reset_for_resume | tracker | forward-only, except a resume |
| Session handle and queue (`session/session_handle.rs`, `queue.rs`) | executing flag, semaphore, Notify, bounded queue | enqueue, merge, cancel, acquire, drop of the guard | execute calls, streams | one turn at a time, no input lost or doubled, every waiter goes on |
| Agent loop (`agent/execution.rs`, `executor.rs`) | metrics, request, session | execute, persist (awaited, detached) | client, tools, hooks, budget, store | each turn ends, saves are in order |
| Streaming loop (`agent/streaming.rs`) | phase, pending calls, batches, tool tasks, relays, channel | one phase per poll | consumer, client, tools, store | events nest, calls have results, serial tools run alone, Complete means durable, the stream ends |
| Circuit breaker (`common/circuit.rs`) | state under an RwLock, four atomics | allow, record success or failure, reset | client, compaction chain | slots bounded, no threshold missed, few failures counted late, recovers |
| Compaction (`session/compact/`) | none | try_compact | breaker, client, session | reports what failed; keeps tool pairs |
| Persistence (`session/persistence*.rs`, `manager.rs`, `lock.rs`) | sessions, pending queue, index, files, leases | save, load, mutate under lock, enqueue, dequeue | everything | atomic, recoverable |
| Session graph (`graph/`) | nodes, branches, events, watermark | append, fork, checkpoint, archive, replay | session | valid after each operation; replay equals state |
| Budget (`budget/`) | cost counters per agent and tenant | project, record, set_budget | client, loops | a limit is passed by no more than what was under way |
| MCP (`mcp/`) | servers, tool cache, degraded report | add, remove, call, reconnect | tools | cache and report agree with servers |
| Event bus, hooks, orchestration, scheduling, auth, authorization | subscribers, rules, mailboxes, triggers, credentials | emit, execute, send, fire, resolve | loops | see `PROJECT.json` |
| Codecs, transports, tools, security, context, config, models, prompts, plugins, skills, observability | mostly none | translation, I/O, loading | loops | sequential code, not modelled |

`PROJECT.json` lists every component with its sources and status, and under "hazards" the places
where an unexpected order, a fault or a limit could break it, with the properties that look there.

The behaviours that are hard here: callers that read a flag, await and act on it; notifications
that wake everybody or nobody; futures dropped in the middle by timeouts; a session loaded, decided
on and saved whole with no version check; fire-and-forget saves; two saves for one transition with
a failure or a crash between them; tool tasks, relays and a channel that race in one `select!`;
atomics read under one lock section and acted upon in another.

## Modules

### SessionFSM, SessionLifecycle

`SessionFSM` has the pure operators of `session/state/enums.rs` and the three methods of `Session`
that use them: `CanTransitionTo`, `Transition`, `Finalize`, `ResetForResume`. An operator returns
"Illegal" where the method returns an error. `SessionLifecycle` is the abstract specification of
what anybody may do to the state of a durable session: register it, resume it, advance it by one
legal move, or collapse it to a terminal state. It says nothing of calls, maps, handles or saves.

### TaskTracker

| Variable | In the code |
|---|---|
| `store` | the durable `Session` of each task: its state and whether, and which, error it names |
| `runtime` | `TaskTracker::runtime`, an entry per task with handle, cancel channel, pending outcome and slot |
| `once` | the `OnceCell` behind `ensure_reconciled`; a process name while that process fills it |
| `call` | each tracker call in progress: where it waits, and its locals (loaded copy, ids still to visit) |
| `run` | the future of each delegated agent: its phase, its snapshot of the session, whether it was aborted |
| `detached` | saves spawned by `persist_session_state_detached` and not landed |
| `faults` | faults so far (bound) |

An action is what one call does between two awaits: one section of the runtime lock, one load, or
one save. So every interleaving of calls at their awaits is a behaviour. A call is dropped with its
locals (`ClientDropped`), an agent panics (`RunnerPanics`) or is aborted, and the process may crash
and restart on the same store (`Crash`). A finished runner to which nothing refers stands for a new
one (`Free`), which bounds the model without a limit on the number of runs. Loads and saves of one
session are atomic and may fail.

The store checks no versions. Hence some guarantees hold only while tracker calls do not overlap,
and the constants say which assumption a run makes: `MaxInFlight` (calls in progress at once),
`Ops` (what clients call), `DetachedSaves`, `PromptAbort` (an abort finds the future suspended, so
that no save follows it) and `FaultKinds`. What fails without them is described
[below](#what-the-code-does-that-its-documentation-does-not-say).

### SessionTurns

Execute calls and streams on one `SessionHandle`, one input per caller. The executing flag, the
FIFO line of the semaphore, the waiters of the `Notify`, the bounded queue, the inputs a merging
caller holds in its hand, and the user messages of the session are separate state. The drop of the
guard takes three steps in the code's order: unset the flag, wake the parked, release the permit.
`Timeout` drops the future of an impatient caller wherever it is, with what it holds. `Merged` and
`Rest` split the queue as `merge_all` does; an input counts as one unit of `MaxMerge`.

### AgentStream

One run of `execute_stream`. A step of the stream is what `next_event` does up to an await or up to
the item it yields; beside it run the tool tasks, the relays that annotate their progress, and the
saves, detached or awaited, under the serializer mutex. `version` counts changes of the session,
`recorded` the last one that recorded messages or calls, `durable` is the version in the store.
The calls of a response go one by one through the hooks, plan mode and the reviewer (`PlanCall`)
and then through the validation of their inputs (`ValidateCall`), which may block a call whose start
was announced; `SpawnBatch` takes the next neighbours that may run together off what waits. The
provider, the hooks and the tools answer anything. Text is abstracted; a tool call is an id. Retries after failed requests, recoveries and invalid
structured outputs are bounded as in the code by `MaxRetries` and `MaxIterations`, other failures
by `MaxFaults`.

### CircuitBreaker

One step per critical section of the RwLock or per atomic operation. A caller that competes for a
half-open slot holds the read lock from its load to the end of its compare-exchange (`ReadLocked`),
so transitions wait. `cooled` says whether the recovery timeout has passed since the last failure.
`reported` is history: the failures reported since the count was last zeroed, which `FewCarriedOver`
compares with the count, as a caller reads the state in one step and counts in a later one
(`common/circuit.rs:122`, 126). A client reports exactly one result per admitted call; a compaction
chain reports every strategy that fails, and nothing when there was nothing to do; with `Abandon`
any call may be dropped.

### JsonlFile, JsonlStore

`JsonlFile` has the entries of a session file, what an append, a crash and a failing write leave of
them, and what each part of the reader makes of the lines. A file is a sequence of lines with two
marks: how many of them are synced, and whether the last one still lacks its newline, in which case
the next append continues it. A line that was cut is text that does not parse (`Torn`), which the
reader skips, or ends inside a character (`Garbled`), at which it gives up the file (`Unreadable`):
serde writes what is not ASCII as it is, so any entry with a name, a text or a path may be cut there
(`Pieces`). `JsonlStore` is `JsonlPersistence` around it, for one session.

| Variable | In the code |
|---|---|
| `syncing` | `SyncMode::OnWrite` or `None` |
| `files` | the session's file in each project directory |
| `index` | its `SessionMeta`: path, project, last metadata, event ids, todo and plan lists, leaf |
| `queue` | `pending_queues` in memory, with the state of each item |
| `held`, `reading` | what callers hold, and the path a `load` (which takes no lock) read from the index |
| `op` | the operation that holds `mutation_lock`, with the lines it has left to write |
| `acked`, `spoiled`, `given`, `failed`, `made` | history: what callers were told, entries destroyed by an append behind a cut line, items handed out, whether an operation failed since the start, ids used |

`SaveEntries` is the list of lines `save_inner` would write, given what the index knows; `WriteLine`
writes them one at a time, `Finish` syncs and updates the index, `Fail` stops at any line, and
`Restart` keeps any prefix of what was not synced, perhaps with a torn line at its end, and rebuilds
index and queue from whichever file it reads first (`Rebuild`), or fails at a file that cannot be
read: then the store is `Down`, where nothing but another start is possible, as `new` returned an
error. So a crash may fall between any two lines of any operation. `Restart` is a stop of the
machine: what is found afterwards is on the disk. (After a stop of the process alone, a caller may
be told of a line that is read back and was never synced, as a save with nothing to append does not
sync; that this line is then lost when the machine stops is not modelled.)

The reader is stated by what it yields rather than by its loop: which lines are of a kind
(`Places`), which of them stand after the last reset (`AfterReset`), and those picked in their order
(`Picked`).

### SessionGraph, GraphReplay, SessionHistory

`SessionGraph` is `graph/session_graph.rs`: a tree of nodes, branches with a head, bookmarks, the
archive watermark and the log of events, with one operator for what each method does to a graph and
one action for each method. The watermark is computed as `archive_before` does: from the cut point
it walks back over tool pairs (`PairTables`, `Crossing`, `Earliest`), at most `WalkLimit` times,
and refuses when it cannot settle. `BranchValid`, `NodeValid`, `MarkValid` and `WatermarkValid` are
the four parts of `GraphValidator::validate`. `GraphReplay` is `apply_event` and the materializer:
`Replayed` is what either makes of one event, `Rebuilt` of all of them, from an empty graph
(`Materialised`, which makes a branch when an event first names it, `Rooted`) or from a new session
(`Applied`).
`SessionHistory` is what a session, the compactor, the recovery executor and the session manager do
with a graph (`g`); `ret` is what the last operation returned, a fork of the session for example,
which `Continue` takes for the session from then on. `Visible` is the projection that becomes the
next request; what the code filters out of a list of nodes is stated by the places that stay
(`Picked`). A call or a result is an id; a message is its kind, its time, its calls and its results.

### SharedStore, RedisStore, PgStore

`SharedStore` has the callers: what each is in the middle of (`call`), the session an agent has in
memory (`copy`), what landed and what callers were told (`told`, history), and the faults. A step
of `RedisStore` is one command, one MULTI or one script, since the server runs each alone; a step
of `PgStore` is one transaction that locks the row of the session first, or one statement outside.
Between two steps anything else may happen; a caller may be dropped there; a reply may get lost
after the command took effect; the lease of the Redis lock may run out while its holder works.
`RedisMutate` .. `Release` are `mutate_session_atomic` with the lock of `session/lock.rs`;
`PgAppend` .. `AppendFails` are `add_message` under `with_retry`; `PgFork` .. `ForkWrite` are
`with_session_lock`, which reads the row and the events in two statements. `SharedStores` is a
session in either backend (`backend`), and states what holds of both.

### McpManager

| Variable | In the code |
|---|---|
| `servers`, `cache`, `report` | the maps behind the three locks of `mcp/manager.rs`: the client registered under a name, the client whose tools are cached under it, the last outcome recorded for it |
| `call` | the calls in progress: operation, name, the await each is at, and the client it has in its hand |
| `line` | who waits for each lock; tokio's `RwLock` lets nobody pass who came later |
| `raced` | history: names of which two registrations overlapped |

A client is one connection; the tools it lists are known by it. What a call holds at an await follows
from where it is (`HeldForWriting`, `HeldForReading`): `remove_server` and `close_all` keep the write
guard of `servers` while they close clients, `call_tool` keeps a read guard while the server answers,
and `add_server` holds nothing while it connects. `Dropped` is a caller that drops its call at any
await. A connection that fails, a server that does not answer and one that closes badly are outcomes
of `Connect`, `Answer` and `Close`. A client that nothing refers to stands for a new one (`Free`).

### Budget

The tracker of each agent (`used`) and what its last checkpoint says of it (`saved`), the budget the
manager hands out (`current`), what each tenant budget has recorded (`spent`), which one an agent
was built with (`holds`), and the runs of the loop under way, each on some agent (`loop`). Several
may be on one agent: a turn, and streams that were started meanwhile (item 9). `Check` is the look
at both budgets before a round, `Preflight` the projection of the request that is about to be sent,
`Answered` the recording of its bill, `Tools` what the tools of the round cost on the agent's own
tracker. `Stopped` is a run that fails, is dropped, or is a stream that looks at the budgets between
two events. Between a preflight and its answer every other run may pass its own preflight on the
same reading. The bill has nothing to do with the estimate, except that it exceeds it by at most
`MaxDrift` (item 36); the theorems are for every value of it.

### Composition

`TaskTracker` extends `SessionFSM`; `MCTaskTracker` instantiates `SessionLifecycle` on the store
and checks that the tracker implements it. `SessionTurns` and `AgentStream` meet at the submission
of the prompt: the first treats a turn as one phase between `Enter` and the drop of the guard, the
second is what a stream does in it. `AgentStream` and `TaskTracker` meet at the saves: what the
tracker's agents save, detached or not, is abstracted from the saves of the loop.

`SessionHistory` composes the graph, its replay, the session, the compactor, the recovery and the
manager. `Reload` is the restart of the file store: `JsonlStore` shows which events a file keeps, `GraphReplay` what is
made of them. `RedisStore` and `PgStore` share `SharedStore` and use the `Finalize` of `SessionFSM`.
`Budget` and `McpManager` stand beside the loop: what the loop does between two looks at the budget,
or between two calls of a tool, is one step there.

## Runs

| Run | Checks | Bounds and why they suffice |
|---|---|---|
| `tracker_calls` | `SlotLimit`, `TerminalIsFinal`, `NoFalseOrphan`, `CompletingIsKept`, `LifecycleSpec` | two tasks, one slot, two runners, one call at a time, two faults of any kind. Two tasks compete for the slot and one may be resumed; two faults fail both saves of a transition, or one save and then crash |
| `tracker_recovers` | `ErrorExplainsFailure`, `EveryTaskSettles`, `PendingIsRetried` | one task, a client and an agent with all operations, two calls at once, detached saves, late aborts, two faults; fairness below. The properties are about one session; three processes write it |
| `tracker_stale_sweep` | violates `TerminalIsFinal` | as `tracker_calls` without faults, two calls at once |
| `session_turns` | `OneTurn`, `InputsKept`, `WaitEnds` | three execute calls (one with a timeout), a stream, a queue of two, merges of one: the smallest instance where the queue overflows, a merge leaves a rest and two callers stand in line behind a turn |
| `stream_run` | `CallsAnswered`, `SerialAlone`, `ToolEventsNest`, `CompleteIsDurable`, `StreamEnds` | two tools, one of them serial, three iterations, two retries, one fault (an error, a panic, a failed save, a shutdown), refusals, recoveries and invalid outputs: a concurrent tool before or after a serial one, results that flow into a second request, and a recovery that uses up the last iteration; fairness below |
| `stream_chunk_error` | violates `ErrorReplacesComplete` | one tool, one error in the response |
| `circuit_breaker` | `SlotsBounded`, `ThresholdsKept`, `ProbingFollowsOpen`, `RecoversWhenHealthy` | a client, two chains, thresholds of two: two callers race for the last slot while a third is late with a transition, or counts a failure it read before the breaker opened, probed and closed |
| `jsonl_store` | `TypeOK`, `AckedKept`, `ParentsKept`, `IndexMirrorsFile`, `GivenOnce` | one caller, two events, a todo list of one item, a queue item, one directory, three times, one crash, one failing operation between two starts (`FailAgain`; any number pass as well, in 3.5 million states): a child and its parent, an entry lost behind a torn line, a store that cannot be opened because a line ends inside a character, a list that is reset, a file that is deleted and made again |
| `session_history` | `Valid`, `ReplayAgrees`, `PairsVisible`, `DrainShrinks` | five nodes and five events, one call in a message, one further branch, drains of one or two rounds, times up to one behind, walks of four: the smallest graph with a summary, a pair across the watermark and a drain behind it |
| `shared_stores` | `MutationsKept`, `LeaseHolds`, `HistoryKept`, `HandedOnce`, `EndKept` | two callers; two messages and two ends, or two queue items (`Spent`); one retry, one fault. A lost reply is retried while the other caller writes; a lease runs out while its holder is between GET and its script; two dequeues, or a dequeue and any other operation on the queue, overlap |
| `mcp_manager` | `ServerStaysInUse`, `CacheFollowsServers`, `RegisteredIsHealthy`, `CallsEnd` | one name, two calls at once, four clients; all operations, registrations tracked and not dropped, everything else dropped at any await. The properties are about one name; two registrations race, a listing or a call overlaps a removal. `RegisteredIsHealthy` is why the run has no untracked `add`, which records nothing |
| `budget` | `SessionBound`, `TenantBound` | two agents, two runs at once on either, a tenant budget and one that replaces it, limits of two, estimates of at most two, bills of one more, tools of one: two requests pass a limit together, one alone by its drift, and both bounds are reached |

What they show, property by property, stands as a comment above each definition. In short: the
durable state of a task follows `SessionLifecycle` under every single or double fault; its error
explains its state under every overlap; a polled task is settled again and again, whatever crashes;
the executing flag equals the existence of a guard although other code reads it without the lock; no
input of an execute call is duplicated, or lost without a timeout, a refusal or a cancel; a session
records a result for every tool call that did not panic when the next request is sent; Complete is
yielded only when the store has what was recorded; the breaker cannot lose a threshold in a race,
and counts at most one late failure of each caller; what the file store acknowledged is in the file
after a crash, unless the entry was glued to a torn line; the file can be read unless a failed write
or a crash cut a line inside a character, and then no node is found before its parent; a graph
passes its validator and its replay gives it back; the model is never sent a result without its
call, and a drain that reports success shortens what is sent; no mutation in Redis loses the message
of another although leases run out; concurrent appends in PostgreSQL hide nothing; no MCP server is
closed under a call that uses it, and no order of the three locks leaves a call waiting for ever;
however many runs spend at once, a budget is passed by no more than what the last bill exceeds its
estimate by and a whole request (for an agent's own limit, a whole round) of each other run.

**Fairness.** `TaskTracker`: Tokio polls what can move (weak fairness of each call's step, of a
runner's end, of a detached save); agents make progress (strong, as an abort or a cancel may
interrupt them); somebody keeps asking for each task, as `wait_for_completion` does (strong, since
other calls may occupy the bound `MaxInFlight` in between). `SessionTurns`: weak fairness of each
caller's steps, which includes that a turn ends, as the execution timeout makes it. `AgentStream`:
the consumer keeps polling, tool tasks and saves end; `StreamEnds` is about runs that are not shut
down and without errors inside a response, where the code does not end before its run timeout.
`CircuitBreaker`: calls go on and end (clients have request timeouts), time passes, and a writer of
`std::sync::RwLock` is not starved (strong fairness of the transitions). `McpManager`: calls go on
once they have their lock, except one that connects, since no timeout bounds `tools/list`; agents go
on calling tools. The locks themselves need no strong fairness: their lines are first in, first out.

The stores, the graph and the budget state no fairness: their properties are about what a step may do.

Runs with `CHECK_DEADLOCK FALSE` really may stop: all agents have ended and no fault is left, all
callers have returned, the stream is done, or nobody calls the store any more and its ids are used
up. The breaker, the registry and the budget never stop.

Symmetric are only sets whose members nothing distinguishes (tasks, tools of one kind, events,
queue items, callers, messages), and only in runs without liveness properties.

Every property has a mutant of a definition it depends on ("mutants" in `PROJECT.json`; the
operators commented `Mutant:` in the modules), a plausible mistake under which TLC finds it violated.

## Proofs

Eight modules hold proofs, checked by `tlapm`. All are for every value of the constants that meets
the module's named assumption (`TrackerAssumption`, `TurnsAssumption`, `StreamAssumption`,
`BreakerAssumption`, `GraphAssumption`, `HistoryAssumption`, `SharedAssumption`, `ManagerAssumption`,
`CallersAssumption`, `BudgetAssumption`, and those of the file store), which says no more than what the code's types say:
finite sets, natural numbers, disjoint kinds, and that a row or an index is not the absence of one
(`RowAssumption`, `NoneAssumption`). Where a theorem needs more it says so in its hypothesis (`Calm`,
`Tracked`, `OneFile`, `~ForkEmpty`).

- `TaskTracker_proofs`: `TypeCorrect` (`Spec => []TypeOK`) and `ErrorConsistency`
  (`Spec => []ErrorExplainsFailure`). Neither is inductive: what is saved is a local copy made
  several awaits before. The inductive invariant (`Inductive`) adds that every copy is consistent:
  the locals of each call at each of its places, the snapshot of each agent, and every pending
  detached save. Types are part of the argument, as `Transition` may return "Illegal": that no save
  ever writes it is what the FSM guards of the call paths establish.

  The other guarantees of the tracker are proved under `Calm`: one call at a time, no detached saves,
  prompt aborts, no foreground tasks; any number of tasks, clients, agents and slots, and every fault.
  They are `SlotsKept` (`[]SlotLimit`), `TerminalKept` (`TerminalIsFinal`), `CompletionKept`
  (`CompletingIsKept`), `OrphansReal` (`NoFalseOrphan`), `LiveRuns` (the stored session of an agent
  that executes is Running) and `Implements`: the tracker implements `SessionLifecycle`. Without
  `Calm` they are false of the code, as items 1, 3, 5, 6 and 11 below say, the first by the run
  `tracker_stale_sweep`. `InductiveCalm` is about ownership: a runner owns the entry whose cancel
  channel it holds, and no two own one (`EntriesOK`); an owner reports about its own entry, and until
  it applies its outcome its session is Running (`AgentsOK`); what a call decided on is still in the
  store when it writes, as nobody else could write in between (`StagesOK`); and the slots that are
  taken are within the limit since the scan of the call in progress (`SlotsOK`). The lemma for each
  action shows both that this is kept and that its save is a step of the lifecycle.
- `SessionTurns_proofs`: `OneTurnAlways` (`Spec => []OneTurn`), `TurnsTyped` (`Spec => []TypeOK`)
  and `InputsNotLost` (`Spec => []InputsKept`). The flag and the guard are related through the
  semaphore, so the first invariant (`TurnsInductive`) says what the line is: those who wait and
  those who hold a guard, each once, a holder at its head. `InputsKept` counts copies; the second
  invariant (`Inputs`) says where an input may be: in no two of queue, hands and session (`Apart`),
  nowhere before its caller handed it over and somewhere after (`Kept`), and in a hand only between
  a merge and the submission (`Ends`). Lemmas on sequences (`HasJoined`, `HasSplit`, ..) carry it
  through merges, which cut the queue at any place.
- `AgentStream_proofs`: `StreamTyped`, `SerialToolsRunAlone`, `CallsAreAnswered`,
  `ToolEventsAreNested` (`Spec => []TypeOK`, `[]SerialAlone`, `[]CallsAnswered`, `[]ToolEventsNest`)
  and `CompleteFollowsSave` (`Spec => CompleteIsDurable`), for any number of tools, iterations,
  retries and faults of any kind, errors in the response included. One inductive invariant (`IInv`)
  carries them all. It says what each phase leaves of the turn (`Quiet`, `Shape`, `Touched`), that a
  call which waits is new (`Fresh`), what the queues and the events say of the tasks (`Tasks`,
  `Announced`), where an unanswered call and an unfinished tool are to be found (`Answered`,
  `Accounted`), that a save in progress writes the session as it is (`Saves`), that what was recorded
  is in the store between requests (`Settled`), and that every retry uses up an iteration
  (`Counted`). `Touched` is why a turn that yields no result must have had a panic.
- `ClientStack_proofs`, about the breaker: `BreakerTyped`, `BreakerSafe`
  (`BreakerSpec => []ThresholdsKept`), `SlotsSafe` (`BreakerSpec => []SlotsBounded`) and `BreakerProbes`
  (`BreakerSpec => ProbingFollowsOpen`). The invariant adds
  that a value seen by a compare-exchange is below the threshold. `BreakerSafe` needs a second one
  (`Carried`): the failures in the count that were not reported since it was zeroed, and the callers
  that are about to count one they read before, are together no more than there are callers. It is
  about cardinalities, hence `CallersAssumption`: the set of callers is finite.
- `SessionHistory_proofs`: all that the run `session_history` checks, for any number of nodes, events,
  calls, branches and forks, any walk limit and any lag. `GraphValid` (`GraphSpec => []Valid`) is about
  the graph on its own: whatever operations made it, on any branches, with any nodes, calls and times,
  the validator finds no issue with it. `Valid` is stated as an inductive invariant (`Sound`): the four
  parts of the validator, the types of nodes, branches, marks and watermark, and that a parent is older
  than its child, so that every walk to the root ends. One lemma says what each operation does to a
  graph (`AppendedSound`, `CheckpointedSound`, ..).

  `HistoryValid`, `HistoryReplays`, `HistoryPairs` (`Spec => []Valid`, `[]ReplayAgrees`,
  `[]PairsVisible`) and `HistoryDrains` (`Spec => DrainShrinks`) are about the sessions that use the
  graph, fork it, load it again and work on in a fork. Their hypothesis is `~ForkEmpty`: no session
  without events is forked (item 22 says what happens then; both `Valid` and `ReplayAgrees` are false
  without it). The invariant is `HistoryOK`, of the graph and of the one the last fork returned:
  `Sound`; the primary branch is a chain from its first node to its head (`Lined`); the events rebuild
  the graph by either way, and the first names the primary branch (`Remembered`); and calls and
  results are in order (`Paired`): a call belongs to the message that makes it, a result comes later
  and once, a message that is late has neither, and where a summary or the watermark stands every
  call before it has its result before it (`Settled`). The last is what `PairsVisible` needs and what
  `archive_before` walks back for: the proof shows that where the walk ends (`WatermarkIn`,
  `DrainSettled`) nothing crosses. For a fork, the copies are appended one after the other to a new
  graph (`NextPart`), each as any message is, so that a fork is as good as any session (`ChainedOK`).
  For `DrainShrinks`, one round of the walk stays at what is shown, after the first turn of the user
  (`CrossingReached`); so what is left is the end of the list from the watermark on (`ShownAfter`,
  `UpperSuffix`), and not all of it.

  The lineage, the replay and the walk are recursive functions. Each is replaced by what satisfies its
  equation (`Course`, `Climbs`, `Walks`), and what it returns is shown by the first place at which it
  would be something else (`Smallest`, from the well-foundedness of the numbers): an induction that
  needs no operator as parameter. The lemmas on ascending lists (`Ascends`, `PickedAscends`,
  `LineageAscends`) then replace every list by the set of its members.
- `SharedStores_proofs`: about Redis, `LockExclusive` (`RedisSpec => []LeaseHolds`), `NoLostUpdate`
  (`RedisSpec => []MutationsKept`) and `GivenOutOnce`; about PostgreSQL, `PgGivenOutOnce`. The
  invariant of Redis (`RedisIInv`) says what each call knows at the places where it writes or reports:
  a session it read to change can be changed, and the change keeps the messages it had; a bundle is a
  session; a message it will report has landed. The lock is no part of the argument for
  `MutationsKept`: after the lease has run out, only the comparison protects the messages of others.
  For the queue, `RedisHanded` adds that what waits, is in a hand, given out or cancelled has been
  used, so that nothing new is one of these; the same on the status of the items is the invariant of
  PostgreSQL (`PgIInv`). About the history in PostgreSQL, `PgHistoryStays` (`PgSpec =>
  []HistoryKept`) and `HistoryStays` (`Spec => []HistoryKept`). What an agent or a fork has in hand
  to write back may be old, and the session may have been deleted and restored in the meantime; the
  invariant (`PgHist`) says of it (`Held`) that if any of its messages is still kept, then all of its
  events are still in the table, and what is kept on its line is on the line to its head there. So to
  write it back inserts nothing but the new message, or nothing of the history is kept any more. The
  lemmas on lines of parents (`LineageFresh`, `LineageBelow`, `LineageAgain`) say what an appended
  event does to them, those on `Picked` and `Inserted` what ON CONFLICT DO NOTHING leaves. The proof
  corrected the property: it used to take a message that is appended a second time, after a reply got
  lost and other sessions were written over it, for one that just landed, and to promise it again.
  With two callers and one fault that makes no difference; TLC showed with four callers, three
  messages and two lost replies that it did not hold. About either backend, with what the composed run checks: `EitherGivesOnce`
  (`Spec => []HandedOnce`) and `EitherKeepsEnd` (`Spec => EndKept`), where the invariant (`BothInv`)
  says that a finalize which finds an end is refused, and only a caller that writes a whole session
  back (`Overwrites`) leaves another state.
- `JsonlStore_proofs`: all that the run of the file store checks, for any number of callers, events,
  items, crashes and failing operations. `JsonlTyped` (`Spec => []TypeOK`) holds for any directories;
  `JsonlAckedKept`, `JsonlParentsKept`, `JsonlGivenOnce` and `JsonlIndexMirrorsFile`
  (`Spec => []AckedKept`, ..) for a session whose messages name none (`OneFile`, as in the run): with
  them the session moves to another file and leaves the first one behind (item 15). `Typed` says what
  the lines of a file, the index and the operation at work look like. `Tracked` is about nodes:
  whatever an operation has not appended yet is linked to what is in the file or comes before it
  (`Links`), so that any prefix of it leaves a session that validates; and what the index has, which
  a save leaves out, and what was acknowledged is in the part of the file that a crash keeps, or is
  among the lines the operation at work will sync before it tells anybody (`Acks`). `Entire` is about what can be read: while the store is up and no operation failed, every
  line is whole, or torn text, and only a cut makes another (`Whole`, `Clear`). `Handled` is about
  the queue: an id in any queue or file is used up (`Makes`), and for an item that was handed out,
  behind each of its enqueues stands a synced dequeue, and nothing that is under way enqueues it
  again (`Done`). `Mirrors` says that the index and the queue are what is read from the file, and
  that what will be published with `Finish` is what will be read from it then. The lemmas they
  rest on say what each part of the reader makes of a file that grew by some lines (`Places`,
  `AfterReset` and `Picked` of `x \o y`), or of which one was torn.
- `McpManager_proofs`: `ServersStay` (`Spec => []ServerStaysInUse`), `CacheFollows`
  (`Spec => []CacheFollowsServers`), `TypeCorrect`, for any names, calls and drops; and
  `ReportFollows` (`Spec => []RegisteredIsHealthy`) when every registration is tracked and carried to
  its end (`Tracked`): an untracked one records nothing, and a dropped one may record nothing (items
  31 and 33). Only the guards are part of the argument, not the order of the lines: who changes
  `servers` finds nobody reading it (`Excludes`). The cache needs more: without a race, the name of a
  registration is free from its check to its insertion (`NameFree`), what is cached when it inserts is
  what it cached, or nothing (`ListingKept`), and who loses an insertion has raced (`LostRaced`).
- `ClientStack_proofs`, about budgets: `SessionSafe` (`Spec => []SessionBound`), `TenantSafe` (`Spec => []TenantBound`)
  and `BudgetTyped`, for any number of agents, any number of runs on each, any costs and any drift. The
  invariant counts what the runs under way may still record (`Covered` for an agent, `TenantCovered`):
  either all of them at the highest price fit the bound (`Fits`), or one of them, the last that passed
  its preflight, fits at its own price on top of what was recorded then. A checkpoint is the reading of
  an agent at some moment, so a resumed agent, which has no run under way, starts within the bound.

TLC checks the conjuncts of these invariants that are properties; the proofs have one lemma for
each action and one step for each part of the invariant the action can disturb.
Every invariant and every action property of a passing run is proved, under the hypotheses named
above; only the liveness properties are not.

## What the code does that its documentation does not say

Each of these is a behaviour of a model, found by TLC with the constants named.

1. *A poll may overwrite an end* (run `tracker_stale_sweep`). `reconcile_orphaned_task` decides on a
   session loaded before it asks whether the task is live; the agent completes in between, and the
   poll saves Failed over Completed.
2. *A stream goes on after an error in the response* (run `stream_chunk_error`). `next_event` puts
   the phase back after `do_poll_stream` had set it to Done.
3. *A late detached save undoes an end* (`DetachedSaves = TRUE`, `TerminalIsFinal`). The spawned
   task competes for the serializer only when it is first polled (`agent/executor.rs:331`), not at
   the time it is scheduled, as the comment at line 31 says.
4. *Completing may become Cancelling* when both saves of a completion failed and a cancel follows
   (`session/state/enums.rs:137`; the comment at line 7 promises Completed). `CompletingIsKept`
   states what remains: no failure overtakes a completion. Failing and Cancelling may also be
   exchanged, so the "forward DAG" has a cycle.
5. *A cancelled foreground task can stay reserved* (`Ops` with "foreground" and "cancel"): its agent
   is not stopped; the outcome it reports is refused by the FSM and remembered for ever.
   `PendingIsRetried` names the exception.
6. *A late `set_handle`* binds the finished handle of one run to the entry of the next (two
   registering clients, `SlotLimit`): one background agent more than the limit starts.
7. *A panicked tool* yields no `ToolComplete` and leaves its call without a result, so the next
   request carries an open call; if all tools of the last iteration panic, Complete is yielded
   before the detached save has landed. *A recovery that uses up the iterations* edits the session
   and is followed by Complete without a save (`streaming.rs:753`), so the store keeps what the
   recovery removed. `ToolEventsNest`, `CallsAnswered` and `CompleteIsDurable` name these exceptions
   (`Panicked`, `recorded`) and hold with both faults.
8. *Waiters*: a caller that enqueues and parks after the last notification of a turn sleeps until
   its timeout; a caller whose input was merged by another never gets a result; a merging caller
   that times out loses the inputs of the others; the input of a caller that timed out is executed
   later. `InputsKept` and `WaitEnds` state what is left.
9. *A stream started during a turn* both queues its prompt and runs it, without the guard.
10. *The breaker can stay HalfOpen*: a slot taken by a dropped call, or by a chain with nothing to
    do, is never given back, and no timeout leads out of HalfOpen. `RecoversWhenHealthy` states it
    as the one exception. The caller that half-opens is admitted without a slot, and a late
    transition may half-open a breaker that has just opened anew, or close an Open one. *A failure
    may be counted late*: `record_failure` reads the state (`common/circuit.rs:122`) and counts
    under no lock (126), so a failure read under Closed may be counted after the breaker opened,
    probed and closed, or after the success of another caller, and fewer fresh failures than the
    threshold open the breaker. `FewCarriedOver` says by how many: one for each caller.
11. *An entry is cleared by task id, not by run* (`MaxInFlight = 2`, two runners, `NoFalseOrphan`). A
    poll finalizes a Failing session while the report of its agent is between its two saves; a
    registration resumes the task; the first report then clears the entry of the second run. The
    resumed agent loses its cancel channel, which its `select!` takes for a cancel, or, if it is
    reporting already and the load fails, its task is declared orphaned over its own outcome.
    `NoFalseOrphan` therefore belongs to `tracker_calls`, whose calls do not overlap.

*File store* (numbers go on; `JsonlStore` shows each with the constants named, or with the property
named when its exception is removed).

12. *An append behind a torn line destroys itself.* A failed or cut write leaves a line without a
    newline, and `append_entries_sync` does not look at it: the next entry continues that line, and
    both are gone at the next start, although the second was acknowledged. Its children then have a
    missing parent, and the session cannot be loaded. `AckedKept` and `ParentsKept` name it (`Lost`).
13. *A retry after a failed append or sync writes the event twice.* The reader keeps the first; for
    a checkpoint, replaying both makes it its own parent, so that the walk of its lineage does not end.
14. *A save that fails after it wrote the reset of the todo list* leaves a hash in the index that
    says the list is there: the next save writes nothing, and after a restart the list is empty.
15. *The file of a session moves* (`Dir` of two, `Cwd` not empty). A session saved without a project
    gets one with its first message that carries a directory; later entries go to a file at the new
    path, which has only part of the session. After a restart the order in which directories are
    read decides which file counts.
16. *Delete forgets before it removes*: when removing the file fails, the session is gone until the
    next start and back after it. An item enqueued before the session was first saved lives in memory
    only. A save of an older copy takes the leaf in the index back.
17. *A line cut inside a character makes its file unreadable.* `read_entries_sync` skips a line that
    does not parse, with a warning (`session/persistence_jsonl.rs:573`), but returns the error of
    `reader.lines()` for one that is no UTF-8 (528), which it is when a write or a crash ended inside
    a character. `load` then fails; so does `rebuild_index` at the next start (907), and with it
    `JsonlPersistence::new`, for every session of the store. The model has the store `Down` then;
    `AckedKept` states that nothing but a failed write or a crash leads there.
18. *Compaction records are written again* by the first save after each start (`Compact` not empty):
    the index does not collect them when it is rebuilt.

*Graph* (`SessionHistory`).

19. *A fork from a checkpoint holds what came after it.* `fork_from_checkpoint`
    (`session/manager.rs:593`) and `fork_from_node` replay the segment *from* the node on
    (`graph/replay.rs:37`); the comment at `manager.rs:564` promises a branch "whose state matches
    what the session looked like at the checkpoint". The fork ignores watermark and summaries, turns
    a summary into a plain message, and may start with a result whose call is missing.
20. *`SessionManager::fork` refuses every session whose first visible message has a parent*, hence
    each one that was compacted or drained: the copy keeps the parent's id.
21. *A drain or a compaction while a call is open* leaves the later result without its call
    among the visible messages; `AgentStream` shows that the loop records the results of a response
    before the next request (`CallsAnswered`). A drain after a compaction hides the summary. Messages appended with a time
    before the watermark are hidden at once, and with equal times a drain that reports success may
    hide nothing: `DrainShrinks` assumes that the clock goes forward (`Orderly`).
22. *`archive_before` accepts a node of any branch*; the validator wants it on the primary one.
    `fork_at` with `None` starts an empty branch. A fork of a session without events becomes its
    primary branch at a restart of the file store (`ForkEmpty = TRUE`, `ReplayAgrees`); if its messages
    were archived, the watermark is then on another branch, and the validator refuses the graph
    (`Valid`).
23. *Providers that number calls per response* (Gemini: `call_{k}`) break the identification of
    pairs by id; the model takes ids to be unique.

*Redis and PostgreSQL.*

24. *A fork in PostgreSQL is not exclusive.* `session/persistence.rs:195` promises
    `SELECT ... FOR UPDATE`, and `session/manager.rs:113` that mutations cannot interleave with a
    fork. The code takes an advisory lock that `add_message`, `finalize`, `append_graph_event` and
    `save` do not take, and writes all it read back: it may undo an end, take `current_leaf_id` back,
    so that the next message hangs on an older node and acknowledged ones leave the line, and create
    a deleted session anew. `HistoryKept` and `EndKept` name the write as their exception.
25. *A lost commit reply in PostgreSQL is retried*: the message is appended a second time, with
    itself or a descendant as parent, and the walk in `latest_summary` no longer ends when the
    session is loaded. Likewise a repeated enqueue fails on the key though the item is queued, a
    repeated delete or cancel returns false, and a repeated restore is refused.
26. *A fork keeps the event ids of its parent*; they are a global key with `ON CONFLICT DO NOTHING`,
    so the events of the fork are not stored, and PostgreSQL cannot load it.
27. *PostgreSQL checks no FSM on finalize*: any non-terminal state takes any end. An item whose
    dequeue lost its reply stays in `processing`. A load reads row and events without a transaction.
28. *A lost reply in Redis*: the retry of `add_message` fails with DuplicateNode though the message
    landed (`MutationsKept` states what holds: never told of success without it); a lost SET NX
    leaves the lock taken until its lease ends.
29. *The queue in Redis has no TTL* and outlives its session. Cleanup, replace and delete read and
    then remove in two commands: an item enqueued in between is dropped or keeps a stale index entry.

*MCP servers and budgets* (`McpManager`, `Budget`).

30. *The loser of a registration race leaves its tools in the cache.* `add_server_tracked` fills the
    cache (`mcp/manager.rs:205`) before it looks whether the name is still free (line 218), and holds
    no lock on `servers` then, although lines 22 and 23 say that the cache is a projection of
    `servers` and that holding `servers` first guarantees it. `CacheFollowsServers` names the race.
31. *The report can contradict the registry.* The winner records its health after it released
    `servers` (line 232); a loser that records in between or later leaves "failed" for a server that
    works. `add_server` records nothing, although the comment at line 147 has the snapshot reflect
    every `add_server` call.
32. *Nobody reconnects.* Only `close()` changes the state of a registered client, and takes it out of
    the map first; so `ensure_connected` always finds it ready, and its slow path with the
    reconnection policy (line 491) is dead. A broken connection stays broken.
33. *A remove that is dropped* between its two maps leaves a cache entry without a server until its
    TTL ends or the name is registered again; a registration that is dropped after its insertion
    leaves a server the report does not know.
34. *The preflight reserves nothing* (`agent/common.rs:146` promises to reject what "would push the
    session or tenant over its configured limit"): runs that look at once all pass, agents of one
    tenant, and a turn and the streams started during it on one agent (item 9). `SessionBound` and
    `TenantBound` say by how much.
35. *A tenant with the policy Warn or Fallback is never stopped*, although `agent/common.rs:152`
    promises that the check after the request "will still enforce eventual termination".
    `BudgetConfig::fallback_model` (`agent/config.rs:206`) never reaches the tracker
    (`agent/executor.rs:79`), so the policy of an agent is always Stop.
36. *The estimate is not an upper bound.* `budget/estimator.rs:3` calls it "never-under"; line 184
    says that it may be too low for some languages and long tool schemas, and the test
    `drift_detects_underestimate` (332) has such a case. Moreover writes to the cache are estimated at
    no cost (`budget/tracker.rs:198`), while they and reasoning tokens are billed
    (`budget/pricing.rs:92`); and a request is recorded at the price of the configured model
    (`agent/execution.rs:521`, `agent/streaming.rs:1152`), also when a hook or the run overrides the
    model. So one run alone may pass a limit, by its drift.
37. *Not everything billed is recorded*: compactions, recoveries, responses with an invalid
    structured output, and requests whose caller went away. What tools call is recorded on the agent,
    not on its tenant. `set_budget` starts a new count while the holders of the old budget go on
    spending from it (`budget/manager.rs:107`).

## Only model-checked, and not modelled

Only TLC checks:

- liveness (`EveryTaskSettles`, `PendingIsRetried`, `WaitEnds`, `StreamEnds`, `RecoversWhenHealthy`,
  `CallsEnd`): the proof system does not reason about fairness;
- the file store for a session that changes its directory: the run has one, as has the theorem, and
  item 15 says what goes wrong with two;
- the two disagreements (`tracker_stale_sweep`, `stream_chunk_error`), and the tracker's guarantees
  outside `Calm`, as far as they hold.

Not modelled: everything with status `not_modelled` in `PROJECT.json`, with the reason there. In
the modelled components:

- contents of messages and results, hook commands, metadata, metrics, plan mode (checked by the
  streaming loop only), TTL cleanup of the tracker;
- file store: several sessions of one directory, listings, the schema migration, plans beyond being
  a list like the todos;
- graph: tags, provenance, and what only reads (diff, explorer, search, query, export);
- Redis: the sets of tenants and children, the check of staged data, expiry of staging keys (a
  queue published with a TTL keeps it), priorities and their order, `PTTL` of zero. A comparison of
  two sessions that differ in `updated_at` alone succeeds in the model, and may be refused as well
  (`CommandFails`), so that both outcomes are there;
- PostgreSQL: todos, plans, compaction records, tool and hook records, the PostgreSQL lock, which
  nothing calls (`session/lock.rs:351`);
- memory backend: atomic under its lock, except that a closure that fails leaves its partial change
  (`session/persistence.rs:337`).

- MCP: listings of resources and servers, the phase a failure names, the protocol of a client;
- budget: how a cost is computed from tokens (the bounds are in terms of `MaxCost`, the highest estimate,
  and `MaxDrift`, and say nothing where these have no bound), overflow of the counters, alerts, reports.

Event bus, hooks, authentication and orchestration are listed as components with the reason.

## Plan

Next, in this order:

1. `AgentTurn`: an abstract turn (prompt recorded, calls answered, ends durable) that both
   `AgentStream` and a model of the non-streaming loop implement.
