----------------------------- MODULE TaskTracker -----------------------------
(***************************************************************************)
(* The registry of delegated agent tasks: src/src/agent/task_tracker.rs,   *)
(* driven by the Task tool (src/src/agent/task.rs).                        *)
(*                                                                         *)
(* A task is a subagent session in the store plus, while somebody works on *)
(* it, an entry in the in-memory map `runtime`.  Tracker calls run         *)
(* concurrently: every step below is what one call does between two        *)
(* awaits (one lock section of `runtime`, one load, one save).  Clients    *)
(* register, cancel and query tasks; runners are the futures that execute  *)
(* the delegated agent and report its outcome.                             *)
(*                                                                         *)
(* Saves go to a store whose save and load are atomic and may fail.  Every *)
(* session of the model is a subagent session of the tracker's parent.     *)
(***************************************************************************)
EXTENDS SessionFSM, FiniteSets, Integers

CONSTANTS
    Task,           \* task ids (session UUIDs)
    Client,         \* callers of the Task and TaskOutput tools
    Runner,         \* bound: delegated-agent futures alive at once
    None,           \* no handle, no channel, no runner
    MaxBackground,  \* max_background_tasks of the Task tool
    MaxInFlight,    \* bound: tracker calls in progress at once
    Ops,            \* which calls the clients make
    DetachedSaves,  \* do agents make fire-and-forget saves?
    PromptAbort,    \* does an abort or a cancel signal find the runner suspended?
    FaultKinds,     \* which faults happen
    MaxFaults       \* bound: how many faults happen

ASSUME TrackerAssumption ==
    /\ None \notin Task \cup Client \cup Runner
    /\ Client \cap Runner = {}
    /\ IsFiniteSet(Client) /\ IsFiniteSet(Runner) /\ IsFiniteSet(Task)
    /\ MaxBackground \in Nat
    /\ MaxInFlight \in Nat
    /\ Ops \subseteq {"background", "foreground", "cancel", "query", "list"}
    /\ DetachedSaves \in BOOLEAN
    /\ PromptAbort \in BOOLEAN
    /\ FaultKinds \subseteq {"load", "save", "panic", "abandon", "drop", "crash"}
    /\ MaxFaults \in Nat

Proc == Client \cup Runner

VARIABLES
    store,      \* durable session of each task: its state and its error
    runtime,    \* the in-memory map: an entry for each task somebody works on
    once,       \* OnceCell of the orphan sweep: "empty", "set" or who fills it
    call,       \* what each process has in progress, and its locals
    run,        \* the delegated agent behind each runner
    detached,   \* fire-and-forget saves spawned and not yet landed
    faults      \* faults so far

vars == <<store, runtime, once, call, run, detached, faults>>

-----------------------------------------------------------------------------
(* Sessions, entries and calls *)

Error == {"none", "orphan", "agent"}
Session == [state : SessionState \cup {"Absent"}, error : Error]
NoSession == [state |-> "Absent", error |-> "none"]
Running == [state |-> "Running", error |-> "none"]

\* TaskRuntime: `slot` tells background_slot; `cancel` is the runner whose select! holds the other end of
\* the one-shot channel, `pending` the terminal state still to be persisted.
Entry == [handle : Runner \cup {None}, cancel : Runner \cup {None},
          pending : Terminal \cup {"none"}, slot : {"background", "foreground"}]
NoEntry == [handle |-> None, cancel |-> None, pending |-> "none", slot |-> "absent"]

Has(t) == runtime[t].slot # "absent"

\* Mutant: a failing agent's error is saved with no lane.
OutcomeWithoutError(tr) == [state |-> tr, error |-> "none"]

\* PendingTaskTransition::intent_state and the error that goes with it
Outcome(tr) == [state |-> tr, error |-> IF tr = "Failed" THEN "agent" ELSE "none"]
Intent(tr)  == [Outcome(tr) EXCEPT !.state = FinalizingPhase[tr]]

\* JoinHandle::is_finished
Finished(h) == h # None /\ run[h].phase = "over"

\* The receiver's select! branch is ready: the sender fired or was dropped.
Signalled(r) == \A t \in Task : runtime[t].cancel # r

\* A runner whose future is gone and to which nothing refers any more can
\* stand for a new one.
Free(r) ==
    /\ run[r].phase = "over"
    /\ \A t \in Task : r \notin {runtime[t].handle, runtime[t].cancel}
    /\ \A p \in Client : call[p].runner # r
    /\ \A d \in detached : d.runner # r

Idle == [op |-> "none", task |-> None, want |-> "none", pc |-> "idle",
         ctx |-> "none", cur |-> None, tr |-> "none", snap |-> NoSession,
         todo |-> {}, fin |-> {}, runner |-> None]

\* A runner whose future is gone.
Gone == [phase |-> "over", task |-> None, background |-> FALSE,
         aborted |-> FALSE, snap |-> NoSession]

Registering(p) == call[p].op \in {"background", "foreground"}

InFlight == Cardinality({p \in Proc : call[p].pc # "idle"})

\* A fault of this kind happens now.
Fault(kind) == kind \in FaultKinds /\ faults < MaxFaults /\ faults' = faults + 1

Goto(p, c) == call' = [call EXCEPT ![p] = c]

Init ==
    /\ store = [t \in Task |-> NoSession]
    /\ runtime = [t \in Task |-> NoEntry]
    /\ once = "empty"
    /\ call = [p \in Proc |-> Idle]
    /\ run = [r \in Runner |-> Gone]
    /\ detached = {}
    /\ faults = 0

-----------------------------------------------------------------------------
(* Where a call goes next: the loops of refresh_runtime_state and the      *)
(* operation that follows it.                                              *)

\* After reconcile_finished_runtime_entries: get_or_init on the cell.
AtFinished(c) == IF c.fin # {} THEN [c EXCEPT !.pc = "finished"]
                               ELSE [c EXCEPT !.pc = "once"]

\* Mutant: pending outcomes are never retried.
AtRetryNever(c) == AtFinished(c)

AtRetry(c) == IF c.todo # {} THEN [c EXCEPT !.pc = "retry"] ELSE AtFinished(c)

\* The runner's own call is followed by its stop hook; a client's call returns.
AfterRefresh(c) ==
    CASE c.op \in {"background", "foreground"} -> [c EXCEPT !.pc = "reserve"]
      [] c.op = "report" -> [c EXCEPT !.pc = "pload", !.ctx = "apply",
                                      !.cur = c.task, !.tr = c.want]
      [] c.op = "cancel" -> [c EXCEPT !.pc = "cancel"]
      [] c.op = "query"  -> [c EXCEPT !.pc = "load", !.ctx = "query", !.cur = c.task]
      [] OTHER           -> Idle

\* reconcile_orphaned_task returns to the loop, or the query, that called it.
Reconciled(c) ==
    LET back == [c EXCEPT !.ctx = "none", !.cur = None, !.snap = NoSession]
    IN  CASE c.ctx = "finished" -> AtFinished([back EXCEPT !.fin = @ \ {c.cur}])
          [] c.ctx = "sweep"    -> [back EXCEPT !.todo = @ \ {c.cur}, !.pc = "sweep"]
          [] OTHER              -> Idle

\* retry_pending_transition returns to its loop.
Retried(c) ==
    AtRetry([c EXCEPT !.todo = @ \ {c.cur}, !.ctx = "none", !.cur = None,
                      !.tr = "none", !.snap = NoSession])

-----------------------------------------------------------------------------
(* refresh_runtime_state *)

\* First lock section: take finished handles, drop entries with nothing
\* pending, note what to retry.
Scan(p) ==
    LET c        == call[p]
        finished == {t \in Task : Has(t) /\ Finished(runtime[t].handle)}
        taken    == [t \in Task |->
                       IF t \in finished
                       THEN [runtime[t] EXCEPT !.handle = None, !.cancel = None]
                       ELSE runtime[t]]
        settled  == {t \in Task : taken[t].pending = "none"}
        retry    == {t \in Task \ settled : taken[t].handle = None}
    IN  /\ c.pc = "scan"
        /\ runtime' = [t \in Task |-> IF t \in finished \cap settled
                                      THEN NoEntry ELSE taken[t]]
        /\ Goto(p, AtRetry([c EXCEPT !.todo = retry, !.fin = finished]))
        /\ UNCHANGED <<store, once, run, detached, faults>>

\* retry_pending_transition: read the entry again under the read lock.
RetryPending(p) ==
    LET c == call[p]
    IN  /\ c.pc = "retry"
        /\ \E t \in c.todo :
             IF runtime[t].pending # "none"
             THEN Goto(p, [c EXCEPT !.pc = "pload", !.ctx = "retry", !.cur = t,
                                    !.tr = runtime[t].pending])
             ELSE Goto(p, Retried([c EXCEPT !.cur = t]))
        /\ UNCHANGED <<store, runtime, once, run, detached, faults>>

\* Mutant: only a bound, unfinished handle makes an entry live.
LiveByHandle(t) == Has(t) /\ runtime[t].handle # None /\ ~Finished(runtime[t].handle)

\* runtime_is_live: an entry counts unless its handle is finished with
\* nothing pending; finished handles are taken on the way.
Live(t) == Has(t) /\ (runtime[t].pending # "none" \/ ~Finished(runtime[t].handle))

Probed(t) ==
    IF ~Has(t) \/ ~Finished(runtime[t].handle) THEN runtime
    ELSE IF runtime[t].pending = "none" THEN [runtime EXCEPT ![t] = NoEntry]
    ELSE [runtime EXCEPT ![t].handle = None, ![t].cancel = None]

\* The loop over finished ids: a live one is left alone.
FinishedNext(p) ==
    LET c == call[p]
    IN  /\ c.pc = "finished"
        /\ \E t \in c.fin :
             /\ runtime' = Probed(t)
             /\ IF Live(t)
                THEN Goto(p, AtFinished([c EXCEPT !.fin = @ \ {t}]))
                ELSE Goto(p, [c EXCEPT !.pc = "load", !.ctx = "finished", !.cur = t])
        /\ UNCHANGED <<store, once, run, detached, faults>>

\* ensure_reconciled: the first caller sweeps, the others wait for it.
OnceEnter(p) ==
    LET c == call[p]
    IN  /\ c.pc = "once"
        /\ \/ /\ once = "set"
              /\ Goto(p, AfterRefresh(c))
              /\ UNCHANGED once
           \/ /\ once = "empty"
              /\ once' = p
              /\ Goto(p, [c EXCEPT !.pc = "list"])
        /\ UNCHANGED <<store, runtime, run, detached, faults>>

\* candidate_session_ids: a failing list is an empty one.
ListCandidates(p) ==
    LET c == call[p]
    IN  /\ c.pc = "list"
        /\ \/ /\ Goto(p, [c EXCEPT !.pc = "sweep",
                            !.todo = {t \in Task : store[t].state # "Absent"}])
              /\ UNCHANGED faults
           \/ /\ Fault("load")
              /\ Goto(p, [c EXCEPT !.pc = "sweep", !.todo = {}])
        /\ UNCHANGED <<store, runtime, once, run, detached>>

\* reconcile_all_orphaned takes the next id ...
SweepNext(p) ==
    LET c == call[p]
    IN  /\ c.pc = "sweep"
        /\ \E t \in c.todo :
             Goto(p, [c EXCEPT !.pc = "load", !.ctx = "sweep", !.cur = t])
        /\ UNCHANGED <<store, runtime, once, run, detached, faults>>

\* ... and sets the cell when none is left.
SweepDone(p) ==
    LET c == call[p]
    IN  /\ c.pc = "sweep"
        /\ c.todo = {}
        /\ once' = "set"
        /\ Goto(p, AfterRefresh(c))
        /\ UNCHANGED <<store, runtime, run, detached, faults>>

-----------------------------------------------------------------------------
(* load, then reconcile_orphaned_task *)

\* Mutant: a session left finalizing is not finalized.
LoadedIntoRunningOnly(c, session) ==
    IF session.state = "Running" THEN [c EXCEPT !.snap = session, !.pc = "live"]
                                 ELSE Reconciled(c)

\* What the loaded session calls for.
LoadedInto(c, session) ==
    CASE session.state \in Finalizing ->
           [c EXCEPT !.pc = "finalize", !.snap =
              [session EXCEPT !.state = TerminalFromFinalizing[session.state]]]
      [] session.state = "Running"     -> [c EXCEPT !.pc = "live", !.snap = session]
      [] OTHER                         -> Reconciled(c)

LoadCandidate(p) ==
    LET c == call[p]
    IN  /\ c.pc = "load"
        /\ \/ /\ Goto(p, LoadedInto(c, store[c.cur]))
              /\ UNCHANGED faults
           \/ /\ Fault("load")
              /\ Goto(p, Reconciled(c))
        /\ UNCHANGED <<store, runtime, once, run, detached>>

\* A Running session nobody works on becomes Failed ...
ProbeOrphan(p) ==
    LET c      == call[p]
        failed == [state |-> Finalize(c.snap.state, "Failed"),
                   error |-> IF c.snap.error = "none" THEN "orphan" ELSE c.snap.error]
    IN  /\ c.pc = "live"
        /\ runtime' = Probed(c.cur)
        /\ Goto(p, IF Live(c.cur) THEN Reconciled(c)
                   ELSE [c EXCEPT !.pc = "orphan", !.snap = failed])
        /\ UNCHANGED <<store, once, run, detached, faults>>

\* ... once that is saved; a failing save leaves it for a later call.
SaveOrphan(p) ==
    LET c == call[p]
    IN  /\ c.pc = "orphan"
        /\ \/ /\ store' = [store EXCEPT ![c.cur] = c.snap]
              /\ UNCHANGED faults
           \/ /\ Fault("save")
              /\ UNCHANGED store
        /\ Goto(p, Reconciled(c))
        /\ UNCHANGED <<runtime, once, run, detached>>

\* finalize_persisted_transition: the save, then clear_runtime_entry.
SaveFinalized(p) ==
    LET c == call[p]
    IN  /\ c.pc = "finalize"
        /\ \/ /\ store' = [store EXCEPT ![c.cur] = c.snap]
              /\ Goto(p, [c EXCEPT !.pc = "finalized"])
              /\ UNCHANGED faults
           \/ /\ Fault("save")
              /\ Goto(p, Reconciled(c))
              /\ UNCHANGED store
        /\ UNCHANGED <<runtime, once, run, detached>>

ClearFinalized(p) ==
    LET c == call[p]
    IN  /\ c.pc = "finalized"
        /\ runtime' = [runtime EXCEPT ![c.cur] = NoEntry]
        /\ Goto(p, Reconciled(c))
        /\ UNCHANGED <<store, once, run, detached, faults>>

-----------------------------------------------------------------------------
(* persist_transition, under apply_transition or a retry *)

\* The call is over; a runner that reported goes on to its stop hook.
Return(p) ==
    /\ Goto(p, Idle)
    /\ run' = IF p \in Runner THEN [run EXCEPT ![p].phase = "stopping"] ELSE run

\* An error is remembered by apply_transition and left alone by a retry.
Unpersisted(c) ==
    IF c.ctx = "retry" THEN Retried(c) ELSE [c EXCEPT !.pc = "remember", !.snap = NoSession]

Persisted(c) == [c EXCEPT !.pc = "clear", !.snap = NoSession]

PersistStep(c, session) ==
    CASE session.state = c.tr -> Persisted(c)
      [] session.state = FinalizingPhase[c.tr] ->
           [c EXCEPT !.pc = "save2", !.snap = Outcome(c.tr)]
      [] /\ session.state # "Absent"
         /\ Transition(session.state, FinalizingPhase[c.tr]) # "Illegal" ->
           [c EXCEPT !.pc = "save1", !.snap = Intent(c.tr)]
      [] OTHER -> Unpersisted(c)

PersistLoad(p) ==
    LET c == call[p]
    IN  /\ c.pc = "pload"
        /\ \/ /\ Goto(p, PersistStep(c, store[c.cur]))
              /\ UNCHANGED faults
           \/ /\ Fault("load")
              /\ Goto(p, Unpersisted(c))
        /\ UNCHANGED <<store, runtime, once, run, detached>>

\* The finalizing phase is saved first, ...
SaveIntent(p) ==
    LET c == call[p]
    IN  /\ c.pc = "save1"
        /\ \/ /\ store' = [store EXCEPT ![c.cur] = c.snap]
              /\ Goto(p, [c EXCEPT !.pc = "save2", !.snap = Outcome(c.tr)])
              /\ UNCHANGED faults
           \/ /\ Fault("save")
              /\ Goto(p, Unpersisted(c))
              /\ UNCHANGED store
        /\ UNCHANGED <<runtime, once, run, detached>>

\* ... the terminal state second.
SaveOutcome(p) ==
    LET c == call[p]
    IN  /\ c.pc = "save2"
        /\ \/ /\ store' = [store EXCEPT ![c.cur] = c.snap]
              /\ Goto(p, Persisted(c))
              /\ UNCHANGED faults
           \/ /\ Fault("save")
              /\ Goto(p, Unpersisted(c))
              /\ UNCHANGED store
        /\ UNCHANGED <<runtime, once, run, detached>>

\* clear_runtime_entry after Ok: the sender of the channel is dropped with it.
ClearPersisted(p) ==
    LET c == call[p]
    IN  /\ c.pc = "clear"
        /\ runtime' = [runtime EXCEPT ![c.cur] = NoEntry]
        /\ IF c.ctx = "retry" THEN Goto(p, Retried(c)) /\ UNCHANGED run
                              ELSE Return(p)
        /\ UNCHANGED <<store, once, detached, faults>>

\* remember_pending_transition: insert an entry if there is none.
RememberPending(p) ==
    LET c     == call[p]
        entry == IF Has(c.cur) THEN runtime[c.cur]
                 ELSE [NoEntry EXCEPT !.slot = "foreground"]
    IN  /\ c.pc = "remember"
        /\ runtime' = [runtime EXCEPT ![c.cur] =
             [entry EXCEPT !.cancel = None, !.pending = c.tr,
                           !.handle = IF Finished(@) THEN None ELSE @]]
        /\ Return(p)
        /\ UNCHANGED <<store, once, detached, faults>>

-----------------------------------------------------------------------------
(* register_or_resume_internal, and the Task tool around it *)

\* Mutant: a slot counts once its handle is bound.
ReservedSlotsBound ==
    {t \in Task : /\ runtime[t].slot = "background"
                  /\ runtime[t].pending = "none"
                  /\ runtime[t].handle # None
                  /\ ~Finished(runtime[t].handle)}

\* The slots that count against the limit, also running_count's result.
ReservedSlots ==
    {t \in Task : /\ runtime[t].slot = "background"
                  /\ runtime[t].pending = "none"
                  /\ ~Finished(runtime[t].handle)}

\* reserve_runtime_entry
Reserve(p) ==
    LET c == call[p]
    IN  /\ c.pc = "reserve"
        /\ IF \/ Has(c.task)
              \/ c.op = "background" /\ Cardinality(ReservedSlots) >= MaxBackground
           THEN Goto(p, Idle) /\ UNCHANGED runtime
           ELSE \E r \in Runner :
                  /\ Free(r)
                  /\ runtime' = [runtime EXCEPT ![c.task] =
                       [NoEntry EXCEPT !.cancel = r, !.slot = c.op]]
                  /\ Goto(p, [c EXCEPT !.pc = "rload", !.runner = r])
        /\ UNCHANGED <<store, once, run, detached, faults>>

\* Mutant: a terminal session is reset and not driven to Running.
RegisteredAsReset(state) ==
    IF state = "Absent" THEN "Running"
    ELSE IF state \in Terminal THEN "Created" ELSE state

\* A new session starts Running; an old one is reset to Created if terminal
\* and driven to Running; one that is finalizing is refused.
Registered(state) ==
    IF state = "Absent" THEN Transition("Created", "Running")
    ELSE LET opened == IF state \in Terminal THEN ResetForResume(state) ELSE state
         IN  IF opened = "Created" THEN Transition(opened, "Running") ELSE opened

RegisterLoad(p) ==
    LET c     == call[p]
        state == store[c.task].state
    IN  /\ c.pc = "rload"
        /\ \/ /\ IF state \in Finalizing
                 THEN Goto(p, [c EXCEPT !.pc = "unregister"])
                 ELSE Goto(p, [c EXCEPT !.pc = "rsave",
                        !.snap = [state |-> Registered(state), error |-> "none"]])
              /\ UNCHANGED faults
           \/ /\ Fault("load")
              /\ Goto(p, [c EXCEPT !.pc = "unregister"])
        /\ UNCHANGED <<store, runtime, once, run, detached>>

RegisterSave(p) ==
    LET c == call[p]
    IN  /\ c.pc = "rsave"
        /\ \/ /\ store' = [store EXCEPT ![c.task] = c.snap]
              /\ Goto(p, [c EXCEPT !.pc = "spawn", !.snap = NoSession])
              /\ UNCHANGED faults
           \/ /\ Fault("save")
              /\ Goto(p, [c EXCEPT !.pc = "unregister", !.snap = NoSession])
              /\ UNCHANGED store
        /\ UNCHANGED <<runtime, once, run, detached>>

\* Every error after the reservation clears the entry.
Unregister(p) ==
    LET c == call[p]
    IN  /\ c.pc = "unregister"
        /\ runtime' = [runtime EXCEPT ![c.task] = NoEntry]
        /\ Goto(p, Idle)
        /\ UNCHANGED <<store, once, run, detached, faults>>

\* After the start hook: a background task is spawned, a foreground one
\* continues in the caller, which has no handle.
Spawn(p) ==
    LET c == call[p]
    IN  /\ c.pc = "spawn"
        /\ run' = [run EXCEPT ![c.runner] =
             [phase |-> "resume", task |-> c.task, snap |-> NoSession,
              background |-> c.op = "background", aborted |-> FALSE]]
        /\ Goto(p, IF c.op = "background" THEN [c EXCEPT !.pc = "handle"] ELSE Idle)
        /\ UNCHANGED <<store, runtime, once, detached, faults>>

\* set_handle binds to whatever entry the id has by now.
SetHandle(p) ==
    LET c == call[p]
    IN  /\ c.pc = "handle"
        /\ runtime' = IF Has(c.task)
                      THEN [runtime EXCEPT ![c.task].handle = c.runner] ELSE runtime
        /\ Goto(p, Idle)
        /\ UNCHANGED <<store, once, run, detached, faults>>

-----------------------------------------------------------------------------
(* cancel *)

CancelEntry(p) ==
    LET c == call[p]
        h == runtime[c.task].handle
    IN  /\ c.pc = "cancel"
        /\ IF ~Has(c.task)
           THEN Goto(p, Idle) /\ UNCHANGED <<runtime, run>>
           ELSE /\ runtime' = [runtime EXCEPT ![c.task].cancel = None,
                                              ![c.task].handle = None]
                /\ run' = IF h = None THEN run ELSE [run EXCEPT ![h].aborted = TRUE]
                /\ Goto(p, [c EXCEPT !.pc = "pload", !.ctx = "apply",
                                     !.cur = c.task, !.tr = "Cancelled"])
        /\ UNCHANGED <<store, once, detached, faults>>

-----------------------------------------------------------------------------
(* Calls begin *)

Begin(p, op, t, want) ==
    /\ call[p].pc = "idle"
    /\ InFlight < MaxInFlight
    /\ Goto(p, [Idle EXCEPT !.op = op, !.task = t, !.want = want, !.pc = "scan"])

\* TaskTool::handle registers; the others come from TaskOutput and the API.
\* A registration waits for a free runner, which bounds the model.
ClientCalls(p, op, t) ==
    /\ op \in Ops
    /\ Begin(p, op, t, "none")
    /\ op \in {"background", "foreground"} =>
         Cardinality({q \in Client \ {p} : Registering(q) /\ call[q].runner = None})
           < Cardinality({r \in Runner : Free(r)})
    /\ UNCHANGED <<store, runtime, once, run, detached, faults>>

-----------------------------------------------------------------------------
(* The delegated agent *)

\* A suspended future that was aborted, or whose channel fired, does no more.
Undisturbed(r) ==
    PromptAbort => ~run[r].aborted /\ (run[r].background => ~Signalled(r))

\* spawn_agent resumes the session from the store and snapshots it.
AgentResumes(r) ==
    /\ run[r].phase = "resume"
    /\ Undisturbed(r)
    /\ store[run[r].task].state # "Absent"
    /\ run' = [run EXCEPT ![r].phase = "body", ![r].snap = store[run[r].task]]
    /\ UNCHANGED <<store, runtime, once, call, detached, faults>>

\* persist_session_state: the agent saves its whole snapshot.
AgentSaves(r) ==
    /\ run[r].phase = "body"
    /\ Undisturbed(r)
    /\ store' = [store EXCEPT ![run[r].task] = run[r].snap]
    /\ UNCHANGED <<runtime, once, call, run, detached, faults>>

\* persist_session_state_detached: a task of its own saves it some time later.
AgentSavesDetached(r) ==
    /\ DetachedSaves
    /\ run[r].phase = "body"
    /\ Undisturbed(r)
    /\ detached' = detached \cup {[runner |-> r, task |-> run[r].task,
                                   snap |-> run[r].snap]}
    /\ UNCHANGED <<store, runtime, once, call, run, faults>>

DetachedSaveLands ==
    /\ \E d \in detached :
         /\ store' = [store EXCEPT ![d.task] = d.snap]
         /\ detached' = detached \ {d}
    /\ UNCHANGED <<runtime, once, call, run, faults>>

\* The agent finishes with a last save, and the runner calls complete(). The
\* save waits for a detached one only if that got to the serializer first.
AgentCompletes(r) ==
    /\ run[r].phase = "body"
    /\ Undisturbed(r)
    /\ store' = [store EXCEPT ![run[r].task] = run[r].snap]
    /\ run' = [run EXCEPT ![r].phase = "reporting", ![r].snap = NoSession]
    /\ Begin(r, "report", run[r].task, "Completed")
    /\ UNCHANGED <<runtime, once, detached, faults>>

\* The agent returns an error (at any time), or a result
\* with another session id: the runner calls fail(), or complete() fails it.
AgentFails(r) ==
    /\ run[r].phase \in {"resume", "body"}
    /\ Undisturbed(r)
    /\ run' = [run EXCEPT ![r].phase = "reporting", ![r].snap = NoSession]
    /\ Begin(r, "report", run[r].task, "Failed")
    /\ UNCHANGED <<store, runtime, once, detached, faults>>

\* select! takes the cancel branch: nothing is persisted.
RunnerCancelled(r) ==
    /\ run[r].phase \in {"resume", "body"}
    /\ run[r].background
    /\ Signalled(r)
    /\ run' = [run EXCEPT ![r].phase = "stopping", ![r].snap = NoSession]
    /\ UNCHANGED <<store, runtime, once, call, detached, faults>>

\* The stop hook has run.
RunnerEnds(r) ==
    /\ run[r].phase = "stopping"
    /\ run' = [run EXCEPT ![r] = Gone]
    /\ UNCHANGED <<store, runtime, once, call, detached, faults>>

\* The call of a future that is dropped is dropped with it; the cell it was
\* filling is empty again.
Dropped(p) ==
    /\ Goto(p, Idle)
    /\ once' = IF once = p THEN "empty" ELSE once

\* JoinHandle::abort takes effect at an await.
RunnerAborted(r) ==
    /\ run[r].aborted
    /\ run[r].phase # "over"
    /\ run' = [run EXCEPT ![r] = Gone]
    /\ Dropped(r)
    /\ UNCHANGED <<store, runtime, detached, faults>>

-----------------------------------------------------------------------------
(* Faults *)

\* A background agent panics; a foreground one does, or the parent's turn that
\* runs it is dropped.
RunnerPanics(r) ==
    /\ Fault(IF run[r].background THEN "panic" ELSE "abandon")
    /\ run[r].phase \in {"resume", "body"}
    /\ run' = [run EXCEPT ![r] = Gone]
    /\ UNCHANGED <<store, runtime, once, call, detached>>

\* The caller drops its tool future at an await (timeout, aborted turn).
ClientDropped(p) ==
    /\ Fault("drop")
    /\ call[p].pc # "idle"
    /\ Dropped(p)
    /\ UNCHANGED <<store, runtime, run, detached>>

\* The process restarts on the same store with a new tracker.
Crash ==
    /\ Fault("crash")
    /\ runtime' = [t \in Task |-> NoEntry]
    /\ once' = "empty"
    /\ call' = [p \in Proc |-> Idle]
    /\ run' = [r \in Runner |-> Gone]
    /\ detached' = {}
    /\ UNCHANGED store

-----------------------------------------------------------------------------
Refresh(p) ==
    \/ Scan(p) \/ RetryPending(p) \/ FinishedNext(p)
    \/ OnceEnter(p) \/ ListCandidates(p) \/ SweepNext(p) \/ SweepDone(p)

Reconcile(p) ==
    \/ LoadCandidate(p) \/ ProbeOrphan(p) \/ SaveOrphan(p)
    \/ SaveFinalized(p) \/ ClearFinalized(p)

Persist(p) ==
    \/ PersistLoad(p) \/ SaveIntent(p) \/ SaveOutcome(p)
    \/ ClearPersisted(p) \/ RememberPending(p)

Register(p) ==
    \/ Reserve(p) \/ RegisterLoad(p) \/ RegisterSave(p) \/ Unregister(p)
    \/ Spawn(p) \/ SetHandle(p)

\* What a call in progress does next.
Step(p) == Refresh(p) \/ Reconcile(p) \/ Persist(p) \/ Register(p) \/ CancelEntry(p)

Agent(r) ==
    \/ AgentResumes(r) \/ AgentSaves(r) \/ AgentSavesDetached(r)
    \/ AgentCompletes(r) \/ AgentFails(r) \/ RunnerCancelled(r)
    \/ RunnerEnds(r) \/ RunnerAborted(r)

Next ==
    \/ \E p \in Proc : Step(p)
    \/ \E p \in Client : ClientDropped(p)
    \/ \E p \in Client, op \in Ops, t \in Task : ClientCalls(p, op, t)
    \/ \E r \in Runner : Agent(r) \/ RunnerPanics(r)
    \/ DetachedSaveLands
    \/ Crash

Spec == Init /\ [][Next]_vars

\* Tokio polls every future that can move; agents end; somebody asks for every
\* task again and again, as wait_for_completion does.
Fairness ==
    /\ \A p \in Proc : WF_vars(Step(p))
    /\ \A r \in Runner :
         /\ SF_vars(AgentResumes(r) \/ AgentCompletes(r) \/ AgentFails(r))
         /\ WF_vars(RunnerCancelled(r) \/ RunnerEnds(r) \/ RunnerAborted(r))
    /\ WF_vars(DetachedSaveLands)
    /\ \A t \in Task : SF_vars(\E p \in Client : ClientCalls(p, "query", t))

FairSpec == Spec /\ Fairness

-----------------------------------------------------------------------------
(* Properties *)

OpName == {"none", "background", "foreground", "report", "cancel", "query", "list"}
Label == {"idle", "scan", "retry", "finished", "once", "list", "sweep", "load", "live",
          "orphan", "finalize", "finalized", "pload", "save1", "save2", "clear", "remember",
          "reserve", "rload", "rsave", "unregister", "spawn", "handle", "cancel"}
Context == {"none", "finished", "sweep", "query", "retry", "apply"}
Call == [op : OpName, task : Task \cup {None}, want : Terminal \cup {"none"},
         pc : Label, ctx : Context, cur : Task \cup {None}, tr : Terminal \cup {"none"},
         snap : Session, todo : SUBSET Task, fin : SUBSET Task, runner : Runner \cup {None}]

Run == [phase : {"over", "resume", "body", "reporting", "stopping"},
        task : Task \cup {None}, background : BOOLEAN, aborted : BOOLEAN,
        snap : Session]

Save == [runner : Runner, task : Task, snap : Session]

\* The durable states of the tracker implement the session lifecycle.
Lifecycle == INSTANCE SessionLifecycle WITH state <- [t \in Task |-> store[t].state]

\* Every change of a durable session is a resume, one legal move of the
\* session FSM, or Running collapsed to a terminal state.
LifecycleSpec == Lifecycle!Spec

\* Every variable keeps to its type.
TypeOK ==
    /\ store \in [Task -> Session]
    /\ runtime \in [Task -> Entry \cup {NoEntry}]
    /\ once \in {"empty", "set"} \cup Proc
    /\ call \in [Proc -> Call]
    /\ run \in [Runner -> Run]
    /\ detached \subseteq Save
    /\ faults \in 0..MaxFaults

\* A durable session names an error exactly when it failed or is failing:
\* whatever calls overlap, no save mixes the state of one lane with the error
\* of another (persist_transition sets or clears `error` lane by lane).
ErrorExplainsFailure ==
    \A t \in Task :
        store[t].error # "none" <=> store[t].state \in {"Failing", "Failed"}

\* A background agent nobody told to stop.
LiveBackground(r) ==
    /\ run[r].background
    /\ run[r].phase \in {"resume", "body"}
    /\ ~run[r].aborted
    /\ ~Signalled(r)

\* At most MaxBackground background agents execute at once: an entry that no
\* longer counts against the limit in reserve_runtime_entry has no agent left.
SlotLimit == Cardinality({r \in Runner : LiveBackground(r)}) <= MaxBackground

\* While a background agent executes, its task is Running in the store.
LiveMeansRunning ==
    \A r \in Runner : LiveBackground(r) => store[run[r].task].state = "Running"

\* A session in a terminal state is changed by nothing but a registration that
\* resumes it: reset_for_resume is the only way out of the forward-only FSM.
TerminalIsFinal ==
    [][\A t \in Task :
         (store[t].state \in Terminal /\ store'[t] # store[t]) =>
            \E p \in Client : call[p].pc = "rsave" /\ call[p].task = t]_store

\* The sweep declares a task orphaned only if no agent works on it and no
\* outcome of it waits to be persisted.
NoFalseOrphan ==
    [][\A t \in Task :
         (store'[t].error = "orphan" /\ store[t].error # "orphan") =>
            /\ runtime[t].pending = "none"
            /\ \A r \in Runner : run[r].task = t =>
                  run[r].phase = "stopping" \/ Signalled(r)]_store

\* No failure overtakes a completion: a session that reached Completing ends
\* Completed, or a cancel takes it over (the FSM lets it), whatever fails,
\* is retried or is swept in between.
CompletingIsKept ==
    [][\A t \in Task : store[t].state = "Completing" =>
         store'[t].state \in {"Completing", "Completed", "Cancelling"}]_store

\* However agents panic, saves fail and processes restart, a task is not left
\* unfinished with nobody working on it: it is settled again and again.
EveryTaskSettles ==
    \A t \in Task : []<>(\/ store[t].state \in Terminal \cup {"Absent"}
                         \/ \E r \in Runner : run[r].task = t)

\* An outcome that waits to be persisted is persisted once the store works
\* again, unless the session has meanwhile ended otherwise, which the FSM keeps
\* (or a crash forgets it).
PendingIsRetried ==
    \A t \in Task : runtime[t].pending # "none" ~>
        \/ runtime[t].pending = "none"
        \/ store[t].state \in Terminal \ {runtime[t].pending}
=============================================================================
