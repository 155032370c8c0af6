---------------------------- MODULE AgentStream ----------------------------
(***************************************************************************)
(* One run of Agent::execute_stream: the state machine StreamState of      *)
(* src/src/agent/streaming.rs, the tool tasks it spawns and the saves it   *)
(* makes of the session.                                                   *)
(*                                                                         *)
(* The consumer polls; every step of the stream is what next_event does    *)
(* up to an await or up to the item it yields.  Tool tasks, the relays of  *)
(* their progress and the fire-and-forget saves run beside it.  What the   *)
(* provider, the hooks and the tools answer is chosen freely.              *)
(***************************************************************************)
EXTENDS Naturals, FiniteSets, Sequences, SequencesExt

CONSTANTS
    Tool,           \* tool calls the model may make in the run (ids, each used once)
    Serial,         \* those that are neither read-only nor concurrency-safe
    MaxIterations,  \* effective_max_iterations
    MaxRetries,     \* max_structured_output_retries
    MaxFaults,      \* bound: failures, but for those MaxIterations bounds
    FaultKinds      \* which failures happen

ASSUME StreamAssumption ==
    /\ IsFiniteSet(Tool) /\ Serial \subseteq Tool
    /\ MaxIterations \in Nat /\ MaxRetries \in Nat /\ MaxFaults \in Nat
    /\ FaultKinds \subseteq {"error", "invalid", "recover", "chunk", "panic", "save", "shutdown"}

VARIABLES
    phase,      \* StreamState::phase, and where the stream waits inside a handler
    after,      \* what follows the awaited save in progress
    iterations, \* metrics.iterations
    attempts,   \* structured_output_attempts
    shutdown,   \* runtime.shutdown is cancelled
    pending,    \* pending_tool_uses
    exec,       \* ToolExecutionPhase: events to yield, calls past the hooks, calls not
                \* spawned yet, the batch that runs, results
    stuck,      \* all_non_retryable
    task,       \* each tool's task
    relay,      \* tools whose progress event is in their relay
    channel,    \* the shared progress channel
    open,       \* tool calls in the session's messages without a result there
    version,    \* how often the session has changed
    recorded,   \* history: the last version that recorded messages or tool calls,
                \* not a recovery's edit of what is there
    durable,    \* the version in the store
    queued,     \* detached saves spawned and not yet started
    writes,     \* saves in progress: who, and the version it writes
    seen,       \* what the consumer has been given
    faults      \* failures so far

streamVars == <<phase, after, iterations, attempts, pending, exec, stuck>>
toolVars   == <<task, relay, channel>>
sessionVars == <<open, version, recorded>>
saveVars   == <<durable, queued, writes>>
vars == <<streamVars, toolVars, sessionVars, saveVars, shutdown, seen, faults>>

Phase == {"new", "skill", "start", "gate", "streaming", "ended", "plan", "tools", "drain", "finalize",
          "emitting", "save", "complete", "done"}

NoExec == [events |-> <<>>, prepared |-> <<>>, waiting |-> <<>>, handles |-> {},
           completed |-> {}, blocked |-> {}]

Init ==
    /\ phase = "new" /\ after = "none" /\ iterations = 0 /\ attempts = 0
    /\ pending = <<>> /\ exec = NoExec /\ stuck = FALSE
    /\ task = [t \in Tool |-> "none"] /\ relay = {} /\ channel = <<>>
    /\ open = {} /\ version = 0 /\ recorded = 0
    /\ durable = 0 /\ queued = 0 /\ writes = {}
    /\ shutdown = FALSE /\ faults = 0
    /\ seen = [started |-> {}, progressed |-> {}, finished |-> {}, blocked |-> {},
               error |-> FALSE, complete |-> FALSE]

-----------------------------------------------------------------------------
(* Helpers *)

Fault(kind) == kind \in FaultKinds /\ faults < MaxFaults /\ faults' = faults + 1

\* An item of the stream reaches the consumer.
Yield(kind, t) == seen' = [seen EXCEPT ![kind] = @ \cup {t}]

\* Phase::Done and an Err for the consumer.
Fail == phase' = "done" /\ seen' = [seen EXCEPT !.error = TRUE]

\* The session changes: messages or tool calls are recorded.
Record(n) == version' = version + n /\ recorded' = version'

\* persist_stream_session_state: lock the serializer, save, go on.
SaveThen(p) == phase' = "save" /\ after' = p

Ended(t) == task[t] \in {"ok", "fatal", "panicked"}

\* All relays of the batch are gone, so the channel is closed.
Closed == \A t \in Tool : task[t] # "running" /\ t \notin relay

\* Mutant: a serial tool may join the batch before it.
TogetherMixed(calls, n) == n = 1 \/ \A i \in 2 .. n : calls[i] \notin Serial \/ i = n

\* partition_tools_by_safety: neighbours that are safe run together, a serial tool alone.
Together(calls, n) == n = 1 \/ \A i \in 1 .. n : calls[i] \notin Serial

Events(kind, tools) == [i \in DOMAIN tools |-> <<kind, tools[i]>>]

-----------------------------------------------------------------------------
(* Starting a request *)

\* The first poll: hooks may refuse the prompt; else it is recorded and saved.
SubmitPrompt ==
    /\ phase = "new"
    /\ \/ /\ Record(1)
          /\ SaveThen("skill")
          /\ UNCHANGED <<seen, faults>>
       \/ /\ Fault("error") /\ Fail
          /\ UNCHANGED <<after, version, recorded>>
    /\ UNCHANGED <<iterations, attempts, pending, exec, stuck, toolVars, open, saveVars, shutdown>>

\* A prompt that names a skill invokes it, and the session is saved once more.
SkillCommand ==
    /\ phase = "skill"
    /\ \/ phase' = "start" /\ UNCHANGED <<after, version, recorded, seen, faults>>
       \/ Record(1) /\ SaveThen("start") /\ UNCHANGED <<seen, faults>>
       \/ Fault("error") /\ Fail /\ UNCHANGED <<after, version, recorded>>
    /\ UNCHANGED <<iterations, attempts, pending, exec, stuck, toolVars, open, saveVars, shutdown>>

\* The gate of do_start_request: shutdown, then max_iterations.
Gate ==
    /\ phase = "start"
    /\ IF shutdown
       THEN SaveThen("complete") /\ UNCHANGED iterations
       ELSE /\ iterations' = iterations + 1
            /\ phase' = IF iterations < MaxIterations THEN "gate" ELSE "complete"
            /\ UNCHANGED after
    /\ UNCHANGED <<attempts, pending, exec, stuck, toolVars, sessionVars, saveVars, shutdown, seen, faults>>

Send ==
    /\ phase = "gate"
    /\ phase' = "streaming"
    /\ UNCHANGED <<after, iterations, attempts, pending, exec, stuck, toolVars, sessionVars, saveVars,
                   shutdown, seen, faults>>

\* A hook or the budget refuses, or the request fails and no recipe helps.
SendFails ==
    /\ phase = "gate"
    /\ Fault("error") /\ Fail
    /\ UNCHANGED <<after, iterations, attempts, pending, exec, stuck, toolVars, sessionVars, saveVars, shutdown>>

\* StructuredOutputInvalid: retried below the cap.
SendInvalid ==
    /\ phase = "gate"
    /\ "invalid" \in FaultKinds
    /\ attempts' = attempts + 1
    /\ IF attempts + 1 >= MaxRetries THEN Fail ELSE phase' = "start" /\ UNCHANGED seen
    /\ UNCHANGED <<after, iterations, pending, exec, stuck, toolVars, sessionVars, saveVars, shutdown, faults>>

\* Mutant: a recovered request is not an iteration.
SendRecoversFree ==
    /\ phase = "gate"
    /\ "recover" \in FaultKinds
    /\ phase' = "start"
    /\ iterations' = iterations - 1
    /\ UNCHANGED <<after, attempts, pending, exec, stuck, toolVars, sessionVars, saveVars, shutdown, seen, faults>>

\* A recovery recipe waits, or collapses or compacts the session, and the request is
\* retried; nothing saves the session here.
SendRecovers ==
    /\ phase = "gate"
    /\ "recover" \in FaultKinds
    /\ version' \in {version, version + 1}
    /\ phase' = "start"
    /\ UNCHANGED <<after, iterations, attempts, pending, exec, stuck, toolVars, open, recorded, saveVars,
                   shutdown, seen, faults>>

-----------------------------------------------------------------------------
(* Reading the response *)

\* ToolCallEnd: one more tool call is complete. The select is biased, so nothing is
\* read any more once the runtime shuts down.
ChunkToolCall(t) ==
    /\ phase = "streaming" /\ ~shutdown
    /\ task[t] = "none" /\ t \notin ToSet(pending) \cup seen.blocked \* not used before
    /\ pending' = Append(pending, t)
    /\ UNCHANGED <<phase, after, iterations, attempts, exec, stuck, toolVars, sessionVars, saveVars,
                   shutdown, seen, faults>>

\* Finish, or the end of the chunk stream.
ChunkEnd ==
    /\ phase = "streaming" /\ ~shutdown
    /\ phase' = "ended"
    /\ UNCHANGED <<after, iterations, attempts, pending, exec, stuck, toolVars, sessionVars, saveVars,
                   shutdown, seen, faults>>

\* A chunk error, a chunk timeout or the shutdown yields an Err. do_poll_stream sets
\* Phase::Done, and next_event puts Phase::Streaming back.
ChunkError ==
    /\ phase = "streaming"
    /\ seen' = [seen EXCEPT !.error = TRUE]
    /\ IF shutdown THEN UNCHANGED faults ELSE Fault("chunk")
    /\ UNCHANGED <<streamVars, toolVars, sessionVars, saveVars, shutdown>>

\* do_handle_stream_end records the assistant message and spawns a save of it.
EndRecords ==
    /\ phase = "ended"
    /\ Record(1)
    /\ open' = open \cup ToSet(pending)
    /\ queued' = queued + 1
    /\ IF pending = <<>> THEN SaveThen("complete") ELSE phase' = "plan" /\ UNCHANGED after
    /\ UNCHANGED <<iterations, attempts, pending, exec, stuck, toolVars, durable, writes, shutdown, seen, faults>>

\* record_usage refuses.
EndFails ==
    /\ phase = "ended"
    /\ Fault("error") /\ Fail
    /\ UNCHANGED <<after, iterations, attempts, pending, exec, stuck, toolVars, sessionVars, saveVars, shutdown>>

-----------------------------------------------------------------------------
(* Tools *)

\* spawn_tool_batch of the first batch of `calls`.
SpawnBatch(x, calls) ==
    \E n \in DOMAIN calls :
        /\ Together(calls, n) /\ (n < Len(calls) => ~Together(calls, n + 1))
        /\ LET batch == {calls[i] : i \in 1 .. n}
           IN /\ exec' = [x EXCEPT !.handles = batch, !.waiting = SubSeq(calls, n + 1, Len(calls))]
              /\ task' = [t \in Tool |-> IF t \in batch THEN "running" ELSE task[t]]

\* The call is answered without a run.
Blocked(t) == [exec EXCEPT !.events = Append(@, <<"blocked", t>>), !.blocked = @ \cup {t}]

\* The first loop of execute_tools_parallel, for one call: a hook, plan mode or the
\* reviewer blocks it, or it is noted in the session graph.
PlanCall ==
    /\ phase = "plan" /\ pending # <<>>
    /\ LET t == Head(pending)
       IN \/ exec' = Blocked(t) /\ UNCHANGED <<version, recorded>>
          \/ /\ exec' = [exec EXCEPT !.events = Append(@, <<"started", t>>),
                                     !.prepared = Append(@, t)]
             /\ Record(1)
    /\ pending' = Tail(pending)
    /\ UNCHANGED <<phase, after, iterations, attempts, stuck, toolVars, open, saveVars, shutdown, seen, faults>>

\* The validation of the inputs, for one call: it may be blocked although its start was
\* announced.
ValidateCall ==
    /\ phase = "plan" /\ pending = <<>> /\ exec.prepared # <<>>
    /\ LET t == Head(exec.prepared)
       IN \/ exec' = [Blocked(t) EXCEPT !.prepared = Tail(@)]
          \/ exec' = [exec EXCEPT !.prepared = Tail(@), !.waiting = Append(@, t)]
    /\ UNCHANGED <<phase, after, iterations, attempts, pending, stuck, toolVars, sessionVars, saveVars,
                   shutdown, seen, faults>>

\* All calls are through: the first batch is spawned, or there is none.
Planned ==
    /\ phase = "plan" /\ pending = <<>> /\ exec.prepared = <<>>
    /\ IF exec.waiting = <<>>
       THEN phase' = "finalize" /\ UNCHANGED <<exec, task>>
       ELSE phase' = "tools" /\ SpawnBatch(exec, exec.waiting)
    /\ UNCHANGED <<after, iterations, attempts, pending, stuck, relay, channel, sessionVars, saveVars,
                   shutdown, seen, faults>>

\* A PreToolUse hook or the graph fails: the calls of the turn stay open.
PlanFails ==
    /\ phase = "plan" /\ pending # <<>>
    /\ Fault("error") /\ Fail
    /\ pending' = <<>>
    /\ UNCHANGED <<after, iterations, attempts, exec, stuck, toolVars, sessionVars, saveVars, shutdown>>

\* pre_events go first.
EmitEvent ==
    /\ phase \in {"tools", "emitting"} /\ exec.events # <<>>
    /\ Yield(Head(exec.events)[1], Head(exec.events)[2])
    /\ exec' = [exec EXCEPT !.events = Tail(@)]
    /\ UNCHANGED <<phase, after, iterations, attempts, pending, stuck, toolVars, sessionVars, saveVars, shutdown, faults>>

\* select!, first branch: a progress event.
EmitProgress ==
    /\ phase = "tools" /\ exec.events = <<>> /\ channel # <<>>
    /\ Yield("progressed", Head(channel))
    /\ channel' = Tail(channel)
    /\ UNCHANGED <<streamVars, task, relay, sessionVars, saveVars, shutdown, faults>>

\* Join handles of the tasks in `ts`: a panicked task's result is only logged.
Joined(ts) == [exec EXCEPT !.handles = @ \ ts,
                           !.completed = @ \cup {t \in ts : task[t] # "panicked"}]

\* select!: either the channel is closed and every handle is joined, or one handle is.
JoinAll ==
    /\ phase = "tools" /\ exec.events = <<>> /\ channel = <<>> /\ Closed
    /\ exec' = Joined(exec.handles)
    /\ phase' = "drain"
    /\ UNCHANGED <<after, iterations, attempts, pending, stuck, toolVars, sessionVars, saveVars, shutdown, seen, faults>>

JoinOne(t) ==
    /\ phase = "tools" /\ exec.events = <<>> /\ channel = <<>> /\ ~Closed
    /\ t \in exec.handles /\ Ended(t)
    /\ exec' = Joined({t})
    /\ phase' = IF exec.handles = {t} THEN "drain" ELSE "tools"
    /\ UNCHANGED <<after, iterations, attempts, pending, stuck, toolVars, sessionVars, saveVars, shutdown, seen, faults>>

\* Mutant: the progress still in the relays is not waited for.
AdvanceAtOnce ==
    /\ phase = "drain"
    /\ channel' = <<>>
    /\ IF exec.waiting = <<>>
       THEN phase' = "finalize" /\ UNCHANGED <<exec, task>>
       ELSE phase' = "tools" /\ SpawnBatch(exec, exec.waiting)
    /\ UNCHANGED <<after, iterations, attempts, pending, stuck, relay, sessionVars, saveVars, shutdown, seen, faults>>

\* The batch is over: late progress is collected, then advance_to_next_batch_or_finalize.
Advance ==
    /\ phase = "drain" /\ Closed
    /\ channel' = <<>>
    /\ LET x == [exec EXCEPT !.events = @ \o Events("progressed", channel)]
       IN IF exec.waiting = <<>>
          THEN phase' = "finalize" /\ exec' = x /\ UNCHANGED task
          ELSE phase' = "tools" /\ SpawnBatch(x, exec.waiting)
    /\ UNCHANGED <<after, iterations, attempts, pending, stuck, relay, sessionVars, saveVars, shutdown, seen, faults>>

\* Mutant: the results of blocked calls are forgotten.
ResultsOfCompleted == exec.completed

\* all_tool_results of finalize_tool_execution
Results == exec.blocked \cup exec.completed

\* finalize_tool_execution and finalize_tool_results: the executions and, if there is any, the
\* results go into the session; a detached save, compaction, an awaited save.
Finalize ==
    /\ phase = "finalize"
    /\ stuck' = (exec.completed # {} /\ \A t \in exec.completed : task[t] = "fatal")
    /\ \E order \in SetToSeqs(exec.completed) : \* in which the tasks were joined
         exec' = [NoExec EXCEPT !.events = exec.events \o Events("finished", order)]
    /\ IF Results = {}
       THEN /\ phase' = "emitting"
            /\ UNCHANGED <<after, version, recorded, queued>>
       ELSE /\ SaveThen("emitting")
            /\ Record(1)
            /\ queued' = queued + 1
    /\ open' = open \ Results
    /\ UNCHANGED <<iterations, attempts, pending, toolVars, durable, writes, shutdown, seen, faults>>

\* The inner usage exceeds the budget, or the execution log fails.
FinalizeFails ==
    /\ phase = "finalize"
    /\ Fault("error") /\ Fail
    /\ UNCHANGED <<after, iterations, attempts, pending, exec, stuck, toolVars, sessionVars, saveVars, shutdown>>

\* EmittingToolResults, nothing left to emit.
Emitted ==
    /\ phase = "emitting" /\ exec.events = <<>>
    /\ phase' = IF stuck THEN "complete" ELSE "start"
    /\ UNCHANGED <<after, iterations, attempts, pending, exec, stuck, toolVars, sessionVars, saveVars,
                   shutdown, seen, faults>>

\* The stream yields Complete and is over.
Complete ==
    /\ phase = "complete"
    /\ phase' = "done"
    /\ seen' = [seen EXCEPT !.complete = TRUE]
    /\ UNCHANGED <<after, iterations, attempts, pending, exec, stuck, toolVars, sessionVars, saveVars, shutdown, faults>>

\* The checks at the top of next_event's loop, before every step: the run's timeout, the budget.
Interrupt ==
    /\ phase \in {"new", "start", "streaming", "ended", "tools", "emitting"}
    /\ Fault("error") /\ Fail
    /\ UNCHANGED <<after, iterations, attempts, pending, exec, stuck, toolVars, sessionVars, saveVars, shutdown>>

-----------------------------------------------------------------------------
(* Saves *)

\* Mutant: the awaited save does not take the serializer.
SaveStartsUnlocked ==
    /\ phase = "save" /\ \A w \in writes : w.by # "stream"
    /\ writes' = writes \cup {[by |-> "stream", version |-> version]}
    /\ UNCHANGED <<streamVars, toolVars, sessionVars, durable, queued, shutdown, seen, faults>>

\* The awaited save gets the serializer and reads the session.
SaveStarts ==
    /\ phase = "save" /\ writes = {}
    /\ writes' = {[by |-> "stream", version |-> version]}
    /\ UNCHANGED <<streamVars, toolVars, sessionVars, durable, queued, shutdown, seen, faults>>

SaveLands(w) ==
    /\ w \in writes /\ w.by = "stream"
    /\ writes' = writes \ {w}
    /\ \/ /\ durable' = w.version /\ phase' = after
          /\ UNCHANGED <<seen, faults>>
       \/ /\ Fault("save") /\ Fail /\ UNCHANGED durable
    /\ UNCHANGED <<after, iterations, attempts, pending, exec, stuck, toolVars, sessionVars, queued, shutdown>>

\* A detached save gets the serializer and reads the session as it is by then.
DetachedStarts ==
    /\ queued > 0 /\ writes = {}
    /\ queued' = queued - 1
    /\ writes' = {[by |-> "detached", version |-> version]}
    /\ UNCHANGED <<streamVars, toolVars, sessionVars, durable, shutdown, seen, faults>>

\* A failed detached save is only logged.
DetachedLands(w) ==
    /\ w \in writes /\ w.by = "detached"
    /\ writes' = writes \ {w}
    /\ \/ durable' = w.version /\ UNCHANGED faults
       \/ Fault("save") /\ UNCHANGED durable
    /\ UNCHANGED <<streamVars, toolVars, sessionVars, queued, shutdown, seen>>

-----------------------------------------------------------------------------
(* Tool tasks, relays, the host *)

\* A running tool reports progress once.
Progress(t) ==
    /\ task[t] = "running" /\ t \notin relay \cup ToSet(channel) \cup seen.progressed
    /\ relay' = relay \cup {t}
    /\ UNCHANGED <<streamVars, task, channel, sessionVars, saveVars, shutdown, seen, faults>>

Relay(t) ==
    /\ t \in relay
    /\ relay' = relay \ {t}
    /\ channel' = Append(channel, t)
    /\ UNCHANGED <<streamVars, task, sessionVars, saveVars, shutdown, seen, faults>>

ToolEnds(t) ==
    /\ task[t] = "running"
    /\ \/ \E r \in {"ok", "fatal"} : task' = [task EXCEPT ![t] = r] /\ UNCHANGED faults
       \/ Fault("panic") /\ task' = [task EXCEPT ![t] = "panicked"]
    /\ UNCHANGED <<streamVars, relay, channel, sessionVars, saveVars, shutdown, seen>>

Shutdown ==
    /\ ~shutdown /\ Fault("shutdown")
    /\ shutdown' = TRUE
    /\ UNCHANGED <<streamVars, toolVars, sessionVars, saveVars, seen>>

StreamStep ==
    \/ SubmitPrompt \/ SkillCommand \/ Gate \/ Send \/ SendFails \/ SendInvalid \/ SendRecovers
    \/ \E t \in Tool : ChunkToolCall(t) \/ JoinOne(t)
    \/ ChunkEnd \/ ChunkError \/ EndRecords \/ EndFails
    \/ PlanCall \/ ValidateCall \/ Planned
    \/ PlanFails \/ EmitEvent \/ EmitProgress \/ JoinAll \/ Advance
    \/ Finalize \/ FinalizeFails \/ Emitted \/ Complete \/ Interrupt
    \/ SaveStarts \/ \E w \in writes : SaveLands(w)

Background ==
    \/ DetachedStarts \/ \E w \in writes : DetachedLands(w)
    \/ \E t \in Tool : Progress(t) \/ Relay(t) \/ ToolEnds(t)
    \/ Shutdown

Next == StreamStep \/ Background

Spec == Init /\ [][Next]_vars

\* The consumer keeps polling; tools end, relays and saves are tasks the runtime runs.
\* A run spawns finitely many detached saves, so the awaited one gets the mutex.
FairSpec ==
    /\ Spec
    /\ WF_vars(StreamStep)
    /\ WF_vars(\E w \in writes : DetachedLands(w))
    /\ \A t \in Tool : WF_vars(Relay(t)) /\ WF_vars(ToolEnds(t))

-----------------------------------------------------------------------------
(* Properties *)

\* Every variable has its type; in particular the store never holds a version the
\* session has not had.
TypeOK ==
    /\ phase \in Phase /\ after \in Phase \cup {"none"}
    /\ iterations \in 0 .. MaxIterations + 1
    /\ attempts \in 0 .. MaxIterations
    /\ shutdown \in BOOLEAN /\ stuck \in BOOLEAN
    /\ pending \in Seq(Tool)
    /\ exec.handles \subseteq Tool /\ exec.completed \subseteq Tool /\ exec.blocked \subseteq Tool
    /\ exec.prepared \in Seq(Tool) /\ exec.waiting \in Seq(Tool)
    /\ \A i \in DOMAIN exec.events : exec.events[i] \in {"started", "blocked", "progressed", "finished"} \X Tool
    /\ task \in [Tool -> {"none", "running", "ok", "fatal", "panicked"}]
    /\ relay \subseteq Tool /\ channel \in Seq(Tool) /\ open \subseteq Tool
    /\ version \in Nat /\ recorded \in 0 .. version
    /\ durable \in 0 .. version /\ queued \in Nat
    /\ writes \subseteq [by : {"stream", "detached"}, version : 0 .. version]
    /\ faults \in 0 .. MaxFaults

Panicked == {t \in Tool : task[t] = "panicked"}

\* The consumer is told Complete only once all messages and tool calls of the run are
\* in the store, however the detached saves of the run race the awaited ones.  What a
\* recovery has edited may be missing, when it used up the iterations; and a turn
\* with a panicked tool may be, since a turn without results is not awaited.
CompleteIsDurable ==
    [][phase = "complete" /\ phase' = "done" /\ Panicked = {} => durable >= recorded]_vars

\* No request goes out while a tool call of an earlier turn has no result in the
\* session, as providers refuse such a conversation; but for the calls of tools that
\* panicked, whose results are only logged.
CallsAnswered == phase = "streaming" => open \subseteq Panicked

\* A tool that is not safe to run beside others runs alone.
SerialAlone ==
    \A s \in Serial, t \in Tool : task[s] = "running" /\ task[t] = "running" => s = t

\* A run that gave its consumer an Err gives it no Complete.
ErrorReplacesComplete == ~(seen.error /\ seen.complete)

\* The consumer sees a tool start, then make progress, then finish: when it sees
\* the end of a tool no progress of it is still on the way, since the relays of
\* a batch are emptied before the next batch starts; and once it has Complete,
\* every tool it saw start it also saw finish or be blocked, if it has not panicked.
ToolEventsNest ==
    /\ seen.progressed \cup seen.finished \subseteq seen.started
    /\ \A t \in seen.finished : t \notin relay \cup ToSet(channel)
    /\ seen.blocked \cap (seen.progressed \cup seen.finished) = {}
    /\ seen.complete => seen.started \subseteq seen.finished \cup seen.blocked \cup Panicked

\* A polled run ends: with max_iterations and the retry cap it cannot go round
\* for ever, unless it is shut down (in the middle of a response only its run
\* timeout ends it then).
StreamEnds == <>(phase = "done" \/ shutdown)
=============================================================================
