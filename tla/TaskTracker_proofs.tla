------------------------- MODULE TaskTracker_proofs -------------------------
(***************************************************************************)
(* The task tracker, for all tasks, clients, runners and bounds.           *)
(*                                                                         *)
(* First, whatever overlaps: type correctness, and the agreement between   *)
(* durable error and durable state.  Both need the same inductive          *)
(* invariant IInv: the saves of a call write what an earlier step left in  *)
(* its locals, so the locals have to be as consistent as the store, and a  *)
(* label has to say which locals are set.                                  *)
(*                                                                         *)
(* Second, for calls that do not overlap (Calm), whatever fails, panics,   *)
(* is dropped or restarts between two awaits: the slot limit, the meaning  *)
(* of a running entry, and what a step may do to a durable session.        *)
(* Without Calm these are false: a call that decided on a session before   *)
(* another one changed it saves its stale decision.  The invariant CInv    *)
(* says who owns an entry (the runner that holds its channel), what the    *)
(* owner's phase says about the stored session, and what the label of the  *)
(* one call in progress says about the store and the entry it works on.    *)
(* Each step lemma shows CInv'; those of the steps that save also show     *)
(* which Moves of the session they make.                                   *)
(***************************************************************************)
EXTENDS TaskTracker, FiniteSetTheorems, TLAPS

\* A session names an error exactly when it failed or is failing.
Consistent(s) == s.error # "none" <=> s.state \in {"Failing", "Failed"}

\* What the label of a call says about its locals.
CallOK(c) ==
    /\ c \in Call
    /\ c.pc # "idle" => c.task \in Task
    /\ c.op = "report" => c.want \in Terminal
    /\ c.pc \in {"load", "live", "orphan", "finalize", "finalized"} => c.cur \in Task
    /\ c.pc \in {"pload", "save1", "save2", "clear", "remember"} =>
         c.cur \in Task /\ c.tr \in Terminal
    /\ c.pc = "reserve" => c.op \in {"background", "foreground"}
    /\ c.pc \in {"rload", "rsave", "unregister", "spawn", "handle"} => c.runner \in Runner
    /\ Consistent(c.snap)
    /\ c.pc = "live" => c.snap.state = "Running"

\* An agent that executes works on a task, from a consistent snapshot.
RunOK(a) ==
    /\ a \in Run
    /\ a.phase \in {"resume", "body"} => a.task \in Task
    /\ Consistent(a.snap)

\* The inductive invariant, variable by variable.
StoreOK    == store \in [Task -> Session] /\ \A t \in Task : Consistent(store[t])
RuntimeOK  == runtime \in [Task -> Entry \cup {NoEntry}]
OnceOK     == once \in {"empty", "set"} \cup Proc
CallsOK    == call \in [Proc -> Call] /\ \A p \in Proc : CallOK(call[p])
RunsOK     == run \in [Runner -> Run] /\ \A r \in Runner : RunOK(run[r])
DetachedOK == detached \subseteq Save /\ \A d \in detached : Consistent(d.snap)
FaultsOK   == faults \in 0..MaxFaults

IInv == StoreOK /\ RuntimeOK /\ OnceOK /\ CallsOK /\ RunsOK /\ DetachedOK /\ FaultsOK

-----------------------------------------------------------------------------
(* Facts about the operators that compute where a call goes next *)

LEMMA StatesOK ==
    /\ \A s \in Finalizing : TerminalFromFinalizing[s] \in Terminal
    /\ \A s \in Terminal : FinalizingPhase[s] \in Finalizing
    /\ \A s \in Terminal : Outcome(s) \in Session /\ Consistent(Outcome(s))
    /\ \A s \in Terminal : Intent(s) \in Session /\ Consistent(Intent(s))
    /\ NoSession \in Session /\ Consistent(NoSession)
BY DEF Finalizing, Terminal, TerminalFromFinalizing, FinalizingPhase, Outcome,
       Intent, Session, SessionState, Error, NoSession, Consistent

\* The labels, the contexts and the operation that a step writes into a call.
LEMMA NamesOK ==
    /\ \A pc \in {"idle", "scan", "retry", "finished", "once", "list", "sweep", "load"} :
         pc \in Label
    /\ \A pc \in {"live", "orphan", "finalize", "finalized", "pload", "save1", "save2"} :
         pc \in Label
    /\ \A pc \in {"clear", "remember", "reserve", "rload", "rsave", "unregister"} :
         pc \in Label
    /\ \A pc \in {"spawn", "handle", "cancel"} : pc \in Label
    /\ "none" \in Context /\ "apply" \in Context /\ "retry" \in Context
    /\ "finished" \in Context /\ "sweep" \in Context /\ "query" \in Context
    /\ "none" \in OpName
BY DEF Label, Context, OpName

LEMMA IdleOK == CallOK(Idle)
<1>1. Idle \in Call
  BY StatesOK, NamesOK, Zenon DEF Idle, Call
<1>2. /\ Idle.pc = "idle" /\ Idle.op = "none" /\ Idle.snap = NoSession
  BY DEF Idle
<1> QED  BY <1>1, <1>2, StatesOK DEF CallOK

\* A call whose locals other than its label are sound.
Sound(c) ==
    /\ c \in Call
    /\ c.task \in Task
    /\ c.op = "report" => c.want \in Terminal
    /\ Consistent(c.snap)

\* The labels that ask nothing more of the locals.
Plain == {"scan", "retry", "finished", "once", "list", "sweep", "reserve", "cancel"}

LEMMA PlainOK ==
    ASSUME NEW c, Sound(c), NEW pc \in Plain,
           pc = "reserve" => c.op \in {"background", "foreground"}
    PROVE  CallOK([c EXCEPT !.pc = pc])
<1> DEFINE next == [c EXCEPT !.pc = pc]
<1>0. pc \in Label
  BY NamesOK DEF Plain
<1>1. next \in Call
  BY <1>0 DEF Sound, Call
<1>2. /\ next.pc = pc /\ next.task = c.task /\ next.op = c.op
      /\ next.want = c.want /\ next.snap = c.snap
  BY DEF Sound, Call
<1> HIDE DEF next
<1>3. CallOK(next)
  BY <1>1, <1>2 DEF CallOK, Sound, Plain
<1> QED  BY <1>3 DEF next

LEMMA AtRetryOK ==
    ASSUME NEW c, Sound(c)
    PROVE  CallOK(AtRetry(c)) /\ CallOK(AtFinished(c))
BY PlainOK DEF AtRetry, AtFinished, Plain

LEMMA AfterRefreshOK ==
    ASSUME NEW c, Sound(c)
    PROVE  CallOK(AfterRefresh(c))
<1>1. CASE c.op \in {"background", "foreground"}
  BY <1>1, PlainOK DEF AfterRefresh, Plain
<1>2. CASE c.op = "report"
  <2> DEFINE next == [c EXCEPT !.pc = "pload", !.ctx = "apply",
                               !.cur = c.task, !.tr = c.want]
  <2>1. AfterRefresh(c) = next
    BY <1>2 DEF AfterRefresh
  <2>2. next \in Call
    BY NamesOK, Zenon DEF Sound, Call
  <2>3. /\ next.pc = "pload" /\ next.task = c.task /\ next.cur = c.task
        /\ next.tr = c.want /\ next.want = c.want /\ next.snap = c.snap
    BY DEF Sound, Call
  <2> HIDE DEF next
  <2> QED  BY <1>2, <2>1, <2>2, <2>3 DEF CallOK, Sound
<1>3. CASE c.op = "cancel"
  BY <1>3, PlainOK DEF AfterRefresh, Plain
<1>4. CASE c.op = "query"
  <2> DEFINE next == [c EXCEPT !.pc = "load", !.ctx = "query", !.cur = c.task]
  <2>1. AfterRefresh(c) = next
    BY <1>4 DEF AfterRefresh
  <2>2. next \in Call
    BY NamesOK, Zenon DEF Sound, Call
  <2>3. /\ next.pc = "load" /\ next.task = c.task /\ next.cur = c.task
        /\ next.op = c.op /\ next.snap = c.snap
    BY DEF Sound, Call
  <2> HIDE DEF next
  <2> QED  BY <1>4, <2>1, <2>2, <2>3 DEF CallOK, Sound
<1>5. CASE c.op \notin {"background", "foreground", "report", "cancel", "query"}
  BY <1>5, IdleOK DEF AfterRefresh
<1> QED  BY <1>1, <1>2, <1>3, <1>4, <1>5

LEMMA ReconciledOK ==
    ASSUME NEW c, Sound(c)
    PROVE  CallOK(Reconciled(c))
<1> DEFINE back == [c EXCEPT !.ctx = "none", !.cur = None, !.snap = NoSession]
           done == [back EXCEPT !.fin = @ \ {c.cur}]
           left == [back EXCEPT !.todo = @ \ {c.cur}]
<1>1. Sound(done) /\ Sound(left)
  <2>1. back \in Call
    BY StatesOK, NamesOK, Zenon DEF Sound, Call
  <2>2. /\ back.task = c.task /\ back.op = c.op /\ back.want = c.want
        /\ back.snap = NoSession
    BY DEF Sound, Call
  <2> HIDE DEF back
  <2>3. done \in Call /\ left \in Call
    BY <2>1 DEF Call
  <2>4. /\ done.task = back.task /\ done.op = back.op /\ done.want = back.want
        /\ left.task = back.task /\ left.op = back.op /\ left.want = back.want
        /\ done.snap = back.snap /\ left.snap = back.snap
    BY <2>1 DEF Call
  <2> HIDE DEF done, left
  <2> QED  BY <2>2, <2>3, <2>4, StatesOK DEF Sound
<1>2. CASE c.ctx = "finished"
  BY <1>1, <1>2, AtRetryOK DEF Reconciled
<1>3. CASE c.ctx = "sweep"
  <2>1. Reconciled(c) = [left EXCEPT !.pc = "sweep"]
    BY <1>3 DEF Reconciled
  <2> HIDE DEF left
  <2> QED  BY <1>1, <2>1, PlainOK DEF Plain
<1>4. CASE c.ctx \notin {"finished", "sweep"}
  BY <1>4, IdleOK DEF Reconciled
<1> QED  BY <1>2, <1>3, <1>4

LEMMA RetriedOK ==
    ASSUME NEW c, Sound(c)
    PROVE  CallOK(Retried(c))
<1> DEFINE next == [c EXCEPT !.todo = @ \ {c.cur}, !.ctx = "none", !.cur = None,
                             !.tr = "none", !.snap = NoSession]
           todo == c.todo \ {c.cur}
<1>1. next \in Call
  <2>1. next = [c EXCEPT !.todo = todo, !.ctx = "none", !.cur = None, !.tr = "none",
                         !.snap = NoSession]
    BY DEF Sound, Call
  <2>2. todo \in SUBSET Task
    BY DEF Sound, Call
  <2> HIDE DEF next, todo
  <2> QED  BY <2>1, <2>2, StatesOK, NamesOK, Zenon DEF Sound, Call
<1>2. next.task = c.task /\ next.op = c.op /\ next.want = c.want /\ next.snap = NoSession
  BY DEF Sound, Call
<1> HIDE DEF next
<1>3. CallOK(AtRetry(next))
  BY <1>1, <1>2, StatesOK, AtRetryOK DEF Sound
<1> QED  BY <1>3 DEF Retried, next

LEMMA CallSound ==
    ASSUME NEW c, CallOK(c), c.pc # "idle"
    PROVE  Sound(c)
BY DEF CallOK, Sound

\* About to load the session of task `t`, or to persist `tr` for it.
LEMMA AtTaskOK ==
    ASSUME NEW c, Sound(c), NEW t \in Task
    PROVE  /\ Sound([c EXCEPT !.cur = t])
           /\ \A ctx \in {"finished", "sweep", "query"} :
                CallOK([c EXCEPT !.pc = "load", !.ctx = ctx, !.cur = t])
           /\ \A ctx \in {"retry", "apply"}, tr \in Terminal :
                CallOK([c EXCEPT !.pc = "pload", !.ctx = ctx, !.cur = t, !.tr = tr])
<1>1. Sound([c EXCEPT !.cur = t])
  BY DEF Sound, Call
<1>2. ASSUME NEW ctx \in {"finished", "sweep", "query"}
      PROVE  CallOK([c EXCEPT !.pc = "load", !.ctx = ctx, !.cur = t])
  <2> DEFINE next == [c EXCEPT !.pc = "load", !.ctx = ctx, !.cur = t]
  <2>1. next \in Call
    BY NamesOK, Zenon DEF Sound, Call
  <2>2. /\ next.pc = "load" /\ next.task = c.task /\ next.cur = t
        /\ next.op = c.op /\ next.want = c.want /\ next.snap = c.snap
    BY DEF Sound, Call
  <2> HIDE DEF next
  <2>3. CallOK(next)
    BY <2>1, <2>2 DEF CallOK, Sound
  <2> QED  BY <2>3 DEF next
<1>3. ASSUME NEW ctx \in {"retry", "apply"}, NEW tr \in Terminal
      PROVE  CallOK([c EXCEPT !.pc = "pload", !.ctx = ctx, !.cur = t, !.tr = tr])
  <2> DEFINE next == [c EXCEPT !.pc = "pload", !.ctx = ctx, !.cur = t, !.tr = tr]
  <2>1. next \in Call
    BY NamesOK, Zenon DEF Sound, Call
  <2>2. /\ next.pc = "pload" /\ next.task = c.task /\ next.cur = t /\ next.tr = tr
        /\ next.op = c.op /\ next.want = c.want /\ next.snap = c.snap
    BY DEF Sound, Call
  <2> HIDE DEF next
  <2>3. CallOK(next)
    BY <2>1, <2>2 DEF CallOK, Sound
  <2> QED  BY <2>3 DEF next
<1> QED  BY <1>1, <1>2, <1>3, Zenon

\* A call that persists moves on with a consistent snapshot of its outcome.
LEMMA PersistingOK ==
    ASSUME NEW c, Sound(c), c.cur \in Task, c.tr \in Terminal,
           NEW s \in Session, Consistent(s),
           NEW pc \in {"save1", "save2", "clear", "remember"}
    PROVE  CallOK([c EXCEPT !.pc = pc, !.snap = s])
<1> DEFINE next == [c EXCEPT !.pc = pc, !.snap = s]
<1>0. pc \in Label
  BY NamesOK
<1>1. next \in Call
  BY <1>0, Zenon DEF Sound, Call
<1>2. /\ next.pc = pc /\ next.task = c.task /\ next.cur = c.cur /\ next.tr = c.tr
      /\ next.op = c.op /\ next.want = c.want /\ next.snap = s
  BY DEF Sound, Call
<1> HIDE DEF next
<1>3. CallOK(next)
  BY <1>1, <1>2 DEF CallOK, Sound
<1> QED  BY <1>3 DEF next

LEMMA PersistedOK ==
    ASSUME NEW c, Sound(c), c.cur \in Task, c.tr \in Terminal
    PROVE  CallOK(Unpersisted(c)) /\ CallOK(Persisted(c))
<1>1. /\ CallOK([c EXCEPT !.pc = "remember", !.snap = NoSession])
      /\ CallOK([c EXCEPT !.pc = "clear", !.snap = NoSession])
  BY PersistingOK, StatesOK, Zenon
<1> QED  BY <1>1, RetriedOK, Zenon DEF Unpersisted, Persisted

LEMMA PersistStepOK ==
    ASSUME NEW c, Sound(c), c.cur \in Task, c.tr \in Terminal, NEW s \in Session
    PROVE  CallOK(PersistStep(c, s))
BY PersistedOK, PersistingOK, StatesOK, Zenon DEF PersistStep

\* A call that holds the session it loaded for `c.cur`.
LEMMA HoldingOK ==
    ASSUME NEW c, Sound(c), c.cur \in Task, NEW s \in Session, Consistent(s),
           NEW pc \in {"live", "orphan", "finalize", "finalized"},
           pc = "live" => s.state = "Running"
    PROVE  CallOK([c EXCEPT !.pc = pc, !.snap = s])
<1> DEFINE next == [c EXCEPT !.pc = pc, !.snap = s]
<1>0. pc \in Label
  BY NamesOK
<1>1. next \in Call
  BY <1>0, Zenon DEF Sound, Call
<1>2. /\ next.pc = pc /\ next.task = c.task /\ next.cur = c.cur
      /\ next.op = c.op /\ next.want = c.want /\ next.snap = s
  BY DEF Sound, Call
<1> HIDE DEF next
<1>3. CallOK(next)
  BY <1>1, <1>2 DEF CallOK, Sound
<1> QED  BY <1>3 DEF next

LEMMA LoadedIntoOK ==
    ASSUME NEW c, Sound(c), c.cur \in Task, NEW s \in Session, Consistent(s)
    PROVE  CallOK(LoadedInto(c, s))
<1>1. CASE s.state \in Finalizing
  <2> DEFINE ended == [s EXCEPT !.state = TerminalFromFinalizing[s.state]]
  <2>1. ended \in Session
    BY <1>1, StatesOK DEF Session, SessionState
  <2>2. ended.state = TerminalFromFinalizing[s.state] /\ ended.error = s.error
    BY DEF Session
  <2>3. LoadedInto(c, s) = [c EXCEPT !.pc = "finalize", !.snap = ended]
    BY <1>1 DEF LoadedInto, Finalizing
  <2> HIDE DEF ended
  <2>4. Consistent(ended)
    <3>1. /\ s.state \notin {"Failed"} /\ ended.state # "Failing"
          /\ ended.state = "Failed" <=> s.state = "Failing"
      BY <1>1, <2>2 DEF Finalizing, TerminalFromFinalizing
    <3> QED  BY <2>2, <3>1 DEF Consistent
  <2>5. CallOK([c EXCEPT !.pc = "finalize", !.snap = ended])
    BY <2>1, <2>4, HoldingOK, Zenon
  <2> QED  BY <2>3, <2>5
<1>2. CASE s.state = "Running"
  <2>1. LoadedInto(c, s) = [c EXCEPT !.pc = "live", !.snap = s]
    BY <1>2 DEF LoadedInto, Sound, Call, Finalizing
  <2>2. CallOK([c EXCEPT !.pc = "live", !.snap = s])
    BY <1>2, HoldingOK, Zenon
  <2> QED  BY <2>1, <2>2
<1>3. CASE s.state \notin Finalizing \cup {"Running"}
  BY <1>3, ReconciledOK DEF LoadedInto
<1> QED  BY <1>1, <1>2, <1>3

-----------------------------------------------------------------------------
(* What one assignment keeps *)

LEMMA Unchanged ==
    /\ StoreOK /\ UNCHANGED store => StoreOK'
    /\ RuntimeOK /\ UNCHANGED runtime => RuntimeOK'
    /\ OnceOK /\ UNCHANGED once => OnceOK'
    /\ CallsOK /\ UNCHANGED call => CallsOK'
    /\ RunsOK /\ UNCHANGED run => RunsOK'
    /\ DetachedOK /\ UNCHANGED detached => DetachedOK'
    /\ FaultsOK /\ UNCHANGED faults => FaultsOK'
BY DEF StoreOK, RuntimeOK, OnceOK, CallsOK, RunsOK, DetachedOK, FaultsOK

LEMMA GotoKeeps ==
    ASSUME CallsOK, NEW p \in Proc, NEW c, CallOK(c), Goto(p, c)
    PROVE  CallsOK'
BY DEF CallsOK, CallOK, Goto

LEMMA SaveKeeps ==
    ASSUME StoreOK, NEW t \in Task, NEW s \in Session, Consistent(s),
           store' = [store EXCEPT ![t] = s]
    PROVE  StoreOK'
BY DEF StoreOK

LEMMA EntryKeeps ==
    ASSUME RuntimeOK, NEW t \in Task, NEW e \in Entry \cup {NoEntry},
           runtime' = [runtime EXCEPT ![t] = e]
    PROVE  RuntimeOK'
BY DEF RuntimeOK

LEMMA RunKeeps ==
    ASSUME RunsOK, NEW r \in Runner, NEW a, RunOK(a), run' = [run EXCEPT ![r] = a]
    PROVE  RunsOK'
BY DEF RunsOK, RunOK

LEMMA FaultKeeps ==
    ASSUME FaultsOK, NEW kind, Fault(kind)
    PROVE  FaultsOK'
BY TrackerAssumption DEF FaultsOK, Fault

\* An entry that is there is an Entry, and stays one when its handles go.
LEMMA HasEntry ==
    ASSUME RuntimeOK, NEW t \in Task, Has(t)
    PROVE  /\ runtime[t] \in Entry
           /\ [runtime[t] EXCEPT !.handle = None, !.cancel = None] \in Entry
<1>1. runtime[t] # NoEntry
  BY DEF Has, NoEntry
<1>2. runtime[t] \in Entry
  BY <1>1 DEF RuntimeOK
<1>3. \A e \in Entry : [e EXCEPT !.handle = None, !.cancel = None] \in Entry
  BY DEF Entry
<1> QED  BY <1>2, <1>3

\* What waits to be persisted is a terminal state.
LEMMA PendingTerminal ==
    ASSUME RuntimeOK, NEW t \in Task, runtime[t].pending # "none"
    PROVE  runtime[t].pending \in Terminal
BY DEF RuntimeOK, Entry, NoEntry

LEMMA ProbedKeeps ==
    ASSUME RuntimeOK, NEW t \in Task, runtime' = Probed(t)
    PROVE  RuntimeOK'
<1>1. CASE ~Has(t) \/ ~Finished(runtime[t].handle)
  BY <1>1 DEF Probed, RuntimeOK
<1>2. CASE /\ Has(t) /\ Finished(runtime[t].handle)
           /\ runtime[t].pending = "none"
  BY <1>2, EntryKeeps DEF Probed
<1>3. CASE /\ Has(t) /\ Finished(runtime[t].handle)
           /\ runtime[t].pending # "none"
  <2> DEFINE taken == [runtime[t] EXCEPT !.handle = None, !.cancel = None]
  <2>1. taken \in Entry
    BY <1>3, HasEntry
  <2>2. runtime' = [runtime EXCEPT ![t] = taken]
    BY <1>3 DEF Probed, RuntimeOK
  <2> QED  BY <2>1, <2>2, EntryKeeps
<1> QED  BY <1>1, <1>2, <1>3

\* Facts about the call that takes a step.
LEMMA CallFacts ==
    ASSUME IInv, NEW p \in Proc, call[p].pc # "idle"
    PROVE  /\ CallOK(call[p])
           /\ Sound(call[p])
           /\ call[p].task \in Task
           /\ call[p].todo \in SUBSET Task
           /\ call[p].fin \in SUBSET Task
           /\ call[p].snap \in Session
BY CallSound DEF IInv, CallsOK, Sound, Call

-----------------------------------------------------------------------------
(* The steps of refresh_runtime_state *)

LEMMA ScanStep ==
    ASSUME IInv, NEW p \in Proc, Scan(p)
    PROVE  IInv'
<1> DEFINE finished == {t \in Task : Has(t) /\ Finished(runtime[t].handle)}
           taken == [t \in Task |->
                       IF t \in finished
                       THEN [runtime[t] EXCEPT !.handle = None, !.cancel = None]
                       ELSE runtime[t]]
           settled == {t \in Task : taken[t].pending = "none"}
           retry == {t \in Task \ settled : taken[t].handle = None}
<1>1. RuntimeOK'
  <2>1. \A t \in Task : taken[t] \in Entry \cup {NoEntry}
    BY HasEntry DEF IInv, RuntimeOK
  <2>2. runtime' = [t \in Task |-> IF t \in finished \cap settled THEN NoEntry ELSE taken[t]]
    BY DEF Scan
  <2> HIDE DEF finished, taken, settled
  <2> QED  BY <2>1, <2>2 DEF RuntimeOK
<1>2. CallsOK'
  <2>1. Goto(p, AtRetry([call[p] EXCEPT !.todo = retry, !.fin = finished]))
    BY DEF Scan
  <2>2. retry \in SUBSET Task /\ finished \in SUBSET Task
    OBVIOUS
  <2>3. Sound(call[p])
    BY CallFacts DEF Scan
  <2> HIDE DEF retry, finished
  <2>4. Sound([call[p] EXCEPT !.todo = retry, !.fin = finished])
    <3> DEFINE next == [call[p] EXCEPT !.todo = retry, !.fin = finished]
    <3>1. next \in Call
      BY <2>2, <2>3 DEF Sound, Call
    <3>2. /\ next.task = call[p].task /\ next.op = call[p].op
          /\ next.want = call[p].want /\ next.snap = call[p].snap
      BY <2>3 DEF Sound, Call
    <3> HIDE DEF next
    <3>3. Sound(next)
      BY <2>3, <3>1, <3>2 DEF Sound
    <3> QED  BY <3>3 DEF next
  <2> QED  BY <2>1, <2>4, AtRetryOK, GotoKeeps DEF IInv
<1> QED  BY <1>1, <1>2, Unchanged DEF IInv, Scan

LEMMA RetryPendingStep ==
    ASSUME IInv, NEW p \in Proc, RetryPending(p)
    PROVE  IInv'
<1> DEFINE c == call[p]
<1>1. Sound(c) /\ c.todo \in SUBSET Task
  BY CallFacts DEF RetryPending
<1>2. PICK t \in c.todo :
        IF runtime[t].pending # "none"
        THEN Goto(p, [c EXCEPT !.pc = "pload", !.ctx = "retry", !.cur = t,
                               !.tr = runtime[t].pending])
        ELSE Goto(p, Retried([c EXCEPT !.cur = t]))
  BY DEF RetryPending
<1>3. t \in Task
  BY <1>1, <1>2
<1>4. CallsOK'
  <2>1. CASE runtime[t].pending # "none"
    <3>1. runtime[t].pending \in Terminal
      BY <2>1, <1>3, PendingTerminal DEF IInv
    <3>2. CallOK([c EXCEPT !.pc = "pload", !.ctx = "retry", !.cur = t,
                           !.tr = runtime[t].pending])
      <4> HIDE DEF c
      <4> QED  BY <1>1, <1>3, <3>1, AtTaskOK, Zenon
    <3> QED  BY <2>1, <1>2, <3>2, GotoKeeps DEF IInv
  <2>2. CASE runtime[t].pending = "none"
    <3>1. CallOK(Retried([c EXCEPT !.cur = t]))
      BY <1>1, <1>3, AtTaskOK, RetriedOK, Zenon
    <3> QED  BY <2>2, <1>2, <3>1, GotoKeeps DEF IInv
  <2> QED  BY <2>1, <2>2
<1> QED  BY <1>4, Unchanged DEF IInv, RetryPending

LEMMA FinishedNextStep ==
    ASSUME IInv, NEW p \in Proc, FinishedNext(p)
    PROVE  IInv'
<1> DEFINE c == call[p]
<1>1. Sound(c) /\ c.fin \in SUBSET Task
  BY CallFacts DEF FinishedNext
<1>2. PICK t \in c.fin :
        /\ runtime' = Probed(t)
        /\ IF Live(t)
           THEN Goto(p, AtFinished([c EXCEPT !.fin = @ \ {t}]))
           ELSE Goto(p, [c EXCEPT !.pc = "load", !.ctx = "finished", !.cur = t])
  BY DEF FinishedNext
<1>3. t \in Task
  BY <1>1, <1>2
<1>4. RuntimeOK'
  BY <1>2, <1>3, ProbedKeeps DEF IInv
<1>5. CallsOK'
  <2> DEFINE next == [c EXCEPT !.fin = @ \ {t}]
  <2>1. next \in Call
    BY <1>1 DEF Sound, Call
  <2>2. next.task = c.task /\ next.op = c.op /\ next.want = c.want /\ next.snap = c.snap
    BY <1>1 DEF Sound, Call
  <2>3. CallOK(AtFinished(next))
    <3> HIDE DEF next
    <3> QED  BY <1>1, <2>1, <2>2, AtRetryOK DEF Sound
  <2>4. CallOK([c EXCEPT !.pc = "load", !.ctx = "finished", !.cur = t])
    BY <1>1, <1>3, AtTaskOK, Zenon
  <2> QED  BY <1>2, <2>3, <2>4, GotoKeeps DEF IInv
<1> QED  BY <1>4, <1>5, Unchanged DEF IInv, FinishedNext

LEMMA OnceEnterStep ==
    ASSUME IInv, NEW p \in Proc, OnceEnter(p)
    PROVE  IInv'
<1>1. Sound(call[p])
  BY CallFacts DEF OnceEnter
<1>2. CallOK(AfterRefresh(call[p]))
  BY <1>1, AfterRefreshOK
<1>3. CallOK([call[p] EXCEPT !.pc = "list"])
  BY <1>1, PlainOK DEF Plain
<1>4. CallsOK'
  BY <1>2, <1>3, GotoKeeps DEF IInv, OnceEnter
<1>5. OnceOK'
  BY DEF IInv, OnceOK, OnceEnter
<1> QED  BY <1>4, <1>5, Unchanged DEF IInv, OnceEnter

LEMMA ListCandidatesStep ==
    ASSUME IInv, NEW p \in Proc, ListCandidates(p)
    PROVE  IInv'
<1> DEFINE c == call[p]
<1>1. Sound(c)
  BY CallFacts DEF ListCandidates
<1>2. ASSUME NEW todo \in SUBSET Task
      PROVE  CallOK([c EXCEPT !.pc = "sweep", !.todo = todo])
  <2> DEFINE next == [c EXCEPT !.todo = todo]
  <2>1. next \in Call
    BY <1>1 DEF Sound, Call
  <2>2. next.task = c.task /\ next.op = c.op /\ next.want = c.want /\ next.snap = c.snap
    BY <1>1 DEF Sound, Call
  <2>3. CallOK([next EXCEPT !.pc = "sweep"])
    <3> HIDE DEF next
    <3> QED  BY <1>1, <2>1, <2>2, PlainOK DEF Sound, Plain
  <2>4. [next EXCEPT !.pc = "sweep"] = [c EXCEPT !.pc = "sweep", !.todo = todo]
    BY <1>1 DEF Sound, Call
  <2> QED  BY <2>3, <2>4
<1>3. CallsOK'
  <2>1. PICK todo \in SUBSET Task : Goto(p, [c EXCEPT !.pc = "sweep", !.todo = todo])
    BY DEF ListCandidates
  <2> QED  BY <1>2, <2>1, GotoKeeps DEF IInv
<1>4. FaultsOK'
  BY FaultKeeps, Unchanged DEF IInv, ListCandidates
<1> QED  BY <1>3, <1>4, Unchanged DEF IInv, ListCandidates

LEMMA SweepStep ==
    ASSUME IInv, NEW p \in Proc, SweepNext(p) \/ SweepDone(p)
    PROVE  IInv'
<1>1. Sound(call[p]) /\ call[p].todo \in SUBSET Task
  BY CallFacts DEF SweepNext, SweepDone
<1>2. CASE SweepNext(p)
  <2>1. PICK t \in call[p].todo :
          Goto(p, [call[p] EXCEPT !.pc = "load", !.ctx = "sweep", !.cur = t])
    BY <1>2 DEF SweepNext
  <2>2. CallOK([call[p] EXCEPT !.pc = "load", !.ctx = "sweep", !.cur = t])
    BY <1>1, <2>1, AtTaskOK, Zenon
  <2>3. CallsOK'
    BY <2>1, <2>2, GotoKeeps DEF IInv
  <2> QED  BY <1>2, <2>3, Unchanged DEF IInv, SweepNext
<1>3. CASE SweepDone(p)
  <2>1. CallsOK'
    BY <1>1, <1>3, AfterRefreshOK, GotoKeeps DEF IInv, SweepDone
  <2>2. OnceOK'
    BY <1>3 DEF SweepDone, OnceOK
  <2> QED  BY <1>3, <2>1, <2>2, Unchanged DEF IInv, SweepDone
<1> QED  BY <1>2, <1>3

-----------------------------------------------------------------------------
(* The steps of reconcile_orphaned_task *)

LEMMA LoadCandidateStep ==
    ASSUME IInv, NEW p \in Proc, LoadCandidate(p)
    PROVE  IInv'
<1> DEFINE c == call[p]
<1>1. Sound(c) /\ CallOK(c) /\ c.pc = "load"
  BY CallFacts DEF LoadCandidate
<1>2. c.cur \in Task
  BY <1>1 DEF CallOK
<1>3. store[c.cur] \in Session /\ Consistent(store[c.cur])
  BY <1>2 DEF IInv, StoreOK
<1>4. CallOK(LoadedInto(c, store[c.cur])) /\ CallOK(Reconciled(c))
  BY <1>1, <1>2, <1>3, LoadedIntoOK, ReconciledOK
<1>5. CallsOK'
  BY <1>4, GotoKeeps DEF IInv, LoadCandidate
<1>6. FaultsOK'
  BY FaultKeeps, Unchanged DEF IInv, LoadCandidate
<1> QED  BY <1>5, <1>6, Unchanged DEF IInv, LoadCandidate

LEMMA ProbeOrphanStep ==
    ASSUME IInv, NEW p \in Proc, ProbeOrphan(p)
    PROVE  IInv'
<1> DEFINE c == call[p]
           failed == [state |-> Finalize(c.snap.state, "Failed"),
                      error |-> IF c.snap.error = "none" THEN "orphan" ELSE c.snap.error]
<1>1. Sound(c) /\ CallOK(c) /\ c.pc = "live" /\ c.snap \in Session
  BY CallFacts DEF ProbeOrphan
<1>2. c.cur \in Task /\ c.snap.state = "Running"
  BY <1>1 DEF CallOK
<1>3. RuntimeOK'
  BY <1>2, ProbedKeeps DEF IInv, ProbeOrphan
<1>4. failed \in Session /\ Consistent(failed)
  <2>1. Finalize("Running", "Failed") = "Failed"
    BY DEF Finalize, Finalizing, Transition, CanTransitionTo, FinalizingPhase, Terminal,
           ForwardMoves
  <2>2. failed.state = "Failed" /\ failed.error \in Error /\ failed.error # "none"
    BY <1>1, <1>2, <2>1 DEF Session, Error
  <2>3. failed \in Session
    BY <2>2 DEF Session, SessionState, Terminal
  <2> QED  BY <2>2, <2>3 DEF Consistent
<1>5. CallOK([c EXCEPT !.pc = "orphan", !.snap = failed])
  <2> HIDE DEF failed
  <2> QED  BY <1>1, <1>2, <1>4, HoldingOK, Zenon
<1>6. CallsOK'
  BY <1>1, <1>5, ReconciledOK, GotoKeeps DEF IInv, ProbeOrphan
<1> QED  BY <1>3, <1>6, Unchanged DEF IInv, ProbeOrphan

LEMMA SaveOrphanStep ==
    ASSUME IInv, NEW p \in Proc, SaveOrphan(p)
    PROVE  IInv'
<1> DEFINE c == call[p]
<1>1. Sound(c) /\ CallOK(c) /\ c.pc = "orphan" /\ c.snap \in Session
  BY CallFacts DEF SaveOrphan
<1>2. c.cur \in Task /\ Consistent(c.snap)
  BY <1>1 DEF CallOK
<1>3. StoreOK'
  BY <1>1, <1>2, SaveKeeps, Unchanged DEF IInv, SaveOrphan
<1>4. CallsOK'
  BY <1>1, ReconciledOK, GotoKeeps DEF IInv, SaveOrphan
<1>5. FaultsOK'
  BY FaultKeeps, Unchanged DEF IInv, SaveOrphan
<1> QED  BY <1>3, <1>4, <1>5, Unchanged DEF IInv, SaveOrphan

LEMMA SaveFinalizedStep ==
    ASSUME IInv, NEW p \in Proc, SaveFinalized(p)
    PROVE  IInv'
<1> DEFINE c == call[p]
<1>1. Sound(c) /\ CallOK(c) /\ c.pc = "finalize" /\ c.snap \in Session
  BY CallFacts DEF SaveFinalized
<1>2. c.cur \in Task /\ Consistent(c.snap)
  BY <1>1 DEF CallOK
<1>3. StoreOK'
  BY <1>1, <1>2, SaveKeeps, Unchanged DEF IInv, SaveFinalized
<1>4. CallOK([c EXCEPT !.pc = "finalized"])
  <2> DEFINE next == [c EXCEPT !.pc = "finalized"]
  <2>1. next \in Call
    BY <1>1, NamesOK, Zenon DEF Sound, Call
  <2>2. /\ next.pc = "finalized" /\ next.task = c.task /\ next.op = c.op
        /\ next.want = c.want /\ next.snap = c.snap /\ next.cur = c.cur
    BY <1>1 DEF Sound, Call
  <2>3. CallOK(next)
    <3> HIDE DEF next
    <3> QED  BY <1>1, <1>2, <2>1, <2>2 DEF CallOK, Sound
  <2> QED  BY <2>3
<1>5. CallsOK'
  BY <1>1, <1>4, ReconciledOK, GotoKeeps DEF IInv, SaveFinalized
<1>6. FaultsOK'
  BY FaultKeeps, Unchanged DEF IInv, SaveFinalized
<1> QED  BY <1>3, <1>5, <1>6, Unchanged DEF IInv, SaveFinalized

LEMMA ClearFinalizedStep ==
    ASSUME IInv, NEW p \in Proc, ClearFinalized(p)
    PROVE  IInv'
<1> DEFINE c == call[p]
<1>1. Sound(c) /\ CallOK(c) /\ c.pc = "finalized"
  BY CallFacts DEF ClearFinalized
<1>2. c.cur \in Task
  BY <1>1 DEF CallOK
<1>3. RuntimeOK'
  BY <1>2, EntryKeeps DEF IInv, ClearFinalized
<1>4. CallsOK'
  BY <1>1, ReconciledOK, GotoKeeps DEF IInv, ClearFinalized
<1> QED  BY <1>3, <1>4, Unchanged DEF IInv, ClearFinalized

-----------------------------------------------------------------------------
(* The steps of persist_transition *)

\* What a call that persists holds.
LEMMA PersistingFacts ==
    ASSUME IInv, NEW p \in Proc,
           call[p].pc \in {"pload", "save1", "save2", "clear", "remember"}
    PROVE  /\ Sound(call[p])
           /\ call[p].cur \in Task /\ call[p].tr \in Terminal
           /\ call[p].snap \in Session /\ Consistent(call[p].snap)
           /\ CallOK(Unpersisted(call[p])) /\ CallOK(Persisted(call[p]))
<1>1. Sound(call[p]) /\ CallOK(call[p]) /\ call[p].snap \in Session
  BY CallFacts
<1>2. call[p].cur \in Task /\ call[p].tr \in Terminal /\ Consistent(call[p].snap)
  BY <1>1 DEF CallOK
<1> QED  BY <1>1, <1>2, PersistedOK

LEMMA ReturnKeeps ==
    ASSUME IInv, NEW p \in Proc, Return(p)
    PROVE  CallsOK' /\ RunsOK'
<1>1. CallsOK'
  BY IdleOK, GotoKeeps DEF IInv, Return
<1>2. CASE p \in Runner
  <2> DEFINE a == [run[p] EXCEPT !.phase = "stopping"]
  <2>1. RunOK(run[p])
    BY <1>2 DEF IInv, RunsOK
  <2>2. a \in Run /\ a.phase = "stopping" /\ a.snap = run[p].snap
    BY <2>1 DEF RunOK, Run
  <2>3. RunOK(a)
    <3> HIDE DEF a
    <3> QED  BY <2>1, <2>2 DEF RunOK
  <2>4. run' = [run EXCEPT ![p] = a]
    BY <1>2 DEF Return
  <2> HIDE DEF a
  <2> QED  BY <1>1, <1>2, <2>3, <2>4, RunKeeps DEF IInv
<1>3. CASE p \notin Runner
  BY <1>1, <1>3, Unchanged DEF IInv, Return
<1> QED  BY <1>2, <1>3

LEMMA PersistLoadStep ==
    ASSUME IInv, NEW p \in Proc, PersistLoad(p)
    PROVE  IInv'
<1> DEFINE c == call[p]
<1>1. Sound(c) /\ c.cur \in Task /\ c.tr \in Terminal /\ CallOK(Unpersisted(c))
  BY PersistingFacts DEF PersistLoad
<1>2. CallOK(PersistStep(c, store[c.cur]))
  BY <1>1, PersistStepOK DEF IInv, StoreOK
<1>3. CallsOK'
  BY <1>1, <1>2, GotoKeeps DEF IInv, PersistLoad
<1>4. FaultsOK'
  BY FaultKeeps, Unchanged DEF IInv, PersistLoad
<1> QED  BY <1>3, <1>4, Unchanged DEF IInv, PersistLoad

LEMMA SaveIntentStep ==
    ASSUME IInv, NEW p \in Proc, SaveIntent(p)
    PROVE  IInv'
<1> DEFINE c == call[p]
<1>1. /\ Sound(c) /\ c.cur \in Task /\ c.tr \in Terminal
      /\ c.snap \in Session /\ Consistent(c.snap) /\ CallOK(Unpersisted(c))
  BY PersistingFacts DEF SaveIntent
<1>2. StoreOK'
  BY <1>1, SaveKeeps, Unchanged DEF IInv, SaveIntent
<1>3. CallOK([c EXCEPT !.pc = "save2", !.snap = Outcome(c.tr)])
  BY <1>1, StatesOK, PersistingOK, Zenon
<1>4. CallsOK'
  BY <1>1, <1>3, GotoKeeps DEF IInv, SaveIntent
<1>5. FaultsOK'
  BY FaultKeeps, Unchanged DEF IInv, SaveIntent
<1> QED  BY <1>2, <1>4, <1>5, Unchanged DEF IInv, SaveIntent

LEMMA SaveOutcomeStep ==
    ASSUME IInv, NEW p \in Proc, SaveOutcome(p)
    PROVE  IInv'
<1> DEFINE c == call[p]
<1>1. /\ c.cur \in Task /\ c.snap \in Session /\ Consistent(c.snap)
      /\ CallOK(Unpersisted(c)) /\ CallOK(Persisted(c))
  BY PersistingFacts DEF SaveOutcome
<1>2. StoreOK'
  BY <1>1, SaveKeeps, Unchanged DEF IInv, SaveOutcome
<1>3. CallsOK'
  BY <1>1, GotoKeeps DEF IInv, SaveOutcome
<1>4. FaultsOK'
  BY FaultKeeps, Unchanged DEF IInv, SaveOutcome
<1> QED  BY <1>2, <1>3, <1>4, Unchanged DEF IInv, SaveOutcome

LEMMA ClearPersistedStep ==
    ASSUME IInv, NEW p \in Proc, ClearPersisted(p)
    PROVE  IInv'
<1> DEFINE c == call[p]
<1>1. Sound(c) /\ c.cur \in Task
  BY PersistingFacts DEF ClearPersisted
<1>2. RuntimeOK'
  BY <1>1, EntryKeeps DEF IInv, ClearPersisted
<1>3. CASE c.ctx = "retry"
  <2>1. CallsOK' /\ RunsOK'
    BY <1>1, <1>3, RetriedOK, GotoKeeps, Unchanged DEF IInv, ClearPersisted
  <2> QED  BY <1>2, <2>1, Unchanged DEF IInv, ClearPersisted
<1>4. CASE c.ctx # "retry"
  <2>1. CallsOK' /\ RunsOK'
    BY <1>4, ReturnKeeps DEF ClearPersisted
  <2> QED  BY <1>2, <2>1, Unchanged DEF IInv, ClearPersisted
<1> QED  BY <1>3, <1>4

LEMMA RememberPendingStep ==
    ASSUME IInv, NEW p \in Proc, RememberPending(p)
    PROVE  IInv'
<1> DEFINE c == call[p]
           entry == IF Has(c.cur) THEN runtime[c.cur]
                    ELSE [NoEntry EXCEPT !.slot = "foreground"]
           kept == [entry EXCEPT !.cancel = None, !.pending = c.tr,
                                 !.handle = IF Finished(@) THEN None ELSE @]
<1>1. c.cur \in Task /\ c.tr \in Terminal
  BY PersistingFacts DEF RememberPending
<1>2. entry \in Entry
  BY <1>1, HasEntry DEF IInv, Entry, NoEntry
<1>3. kept \in Entry
  <2> HIDE DEF entry
  <2> QED  BY <1>1, <1>2 DEF Entry
<1>4. RuntimeOK'
  <2>1. runtime' = [runtime EXCEPT ![c.cur] = kept]
    BY DEF RememberPending
  <2> HIDE DEF kept
  <2> QED  BY <1>1, <1>3, <2>1, EntryKeeps DEF IInv
<1>5. CallsOK' /\ RunsOK'
  BY ReturnKeeps DEF RememberPending
<1> QED  BY <1>4, <1>5, Unchanged DEF IInv, RememberPending

-----------------------------------------------------------------------------
(* The steps of a registration, and of cancel *)

LEMMA RegisterStates ==
    ASSUME NEW state \in SessionState \cup {"Absent"}, state \notin Finalizing
    PROVE  Registered(state) = "Running"
BY DEF Registered, SessionState, Finalizing, Terminal, Transition, CanTransitionTo,
       ForwardMoves, ResetForResume

\* The labels of a registration that holds a runner.
Registration == {"rload", "rsave", "unregister", "spawn", "handle"}

LEMMA RegistrationNames ==
    /\ Registration \subseteq Label
    /\ "rload" \in Registration /\ "rsave" \in Registration /\ "spawn" \in Registration
    /\ "handle" \in Registration /\ "unregister" \in Registration
BY NamesOK DEF Registration

\* A registration that holds a runner.
LEMMA RegisteringOK ==
    ASSUME NEW c, Sound(c), NEW r \in Runner, NEW s \in Session, Consistent(s),
           NEW pc \in Registration
    PROVE  CallOK([c EXCEPT !.pc = pc, !.runner = r, !.snap = s])
<1> DEFINE next == [c EXCEPT !.pc = pc, !.runner = r, !.snap = s]
<1>0. pc \in Label
  BY RegistrationNames
<1>1. next \in Call
  BY <1>0, Zenon DEF Sound, Call
<1>2. /\ next.pc = pc /\ next.task = c.task /\ next.runner = r
      /\ next.op = c.op /\ next.want = c.want /\ next.snap = s
  BY DEF Sound, Call
<1> HIDE DEF next
<1>3. CallOK(next)
  BY <1>1, <1>2 DEF CallOK, Sound, Registration
<1> QED  BY <1>3 DEF next

\* The forms in which the steps below write it.
LEMMA RegisteringForms ==
    ASSUME NEW c, Sound(c), NEW pc \in Registration
    PROVE  /\ \A r \in Runner : CallOK([c EXCEPT !.pc = pc, !.runner = r])
           /\ \A s \in Session : Consistent(s) /\ c.runner \in Runner =>
                CallOK([c EXCEPT !.pc = pc, !.snap = s])
           /\ c.runner \in Runner => CallOK([c EXCEPT !.pc = pc])
<1>1. /\ \A r \in Runner : [c EXCEPT !.pc = pc, !.runner = r] =
                             [c EXCEPT !.pc = pc, !.runner = r, !.snap = c.snap]
      /\ \A s \in Session : [c EXCEPT !.pc = pc, !.snap = s] =
                             [c EXCEPT !.pc = pc, !.runner = c.runner, !.snap = s]
      /\ [c EXCEPT !.pc = pc] = [c EXCEPT !.pc = pc, !.runner = c.runner, !.snap = c.snap]
  BY ZenonT(40) DEF Sound, Call
<1>2. c.snap \in Session /\ Consistent(c.snap)
  BY DEF Sound, Call
<1>3. ASSUME NEW r \in Runner
      PROVE  CallOK([c EXCEPT !.pc = pc, !.runner = r])
  <2>1. CallOK([c EXCEPT !.pc = pc, !.runner = r, !.snap = c.snap])
    BY <1>2, RegisteringOK, ZenonT(40)
  <2> QED  BY <1>1, <2>1, Zenon
<1>4. ASSUME NEW s \in Session, Consistent(s), c.runner \in Runner
      PROVE  CallOK([c EXCEPT !.pc = pc, !.snap = s])
  <2>1. CallOK([c EXCEPT !.pc = pc, !.runner = c.runner, !.snap = s])
    BY <1>2, <1>4, RegisteringOK, ZenonT(40)
  <2> QED  BY <1>1, <2>1, Zenon
<1>5. ASSUME c.runner \in Runner
      PROVE  CallOK([c EXCEPT !.pc = pc])
  <2>1. CallOK([c EXCEPT !.pc = pc, !.runner = c.runner, !.snap = c.snap])
    BY <1>2, <1>5, RegisteringOK, ZenonT(40)
  <2> QED  BY <1>1, <2>1, Zenon
<1> QED  BY <1>3, <1>4, <1>5, ZenonT(40)

\* What a call that registers holds.
LEMMA RegisteringFacts ==
    ASSUME IInv, NEW p \in Proc,
           call[p].pc \in Registration
    PROVE  /\ Sound(call[p])
           /\ call[p].task \in Task /\ call[p].runner \in Runner
           /\ call[p].snap \in Session /\ Consistent(call[p].snap)
<1>0. call[p].pc # "idle"
  BY DEF Registration
<1>1. Sound(call[p])
  BY <1>0, CallFacts
<1>2. CallOK(call[p])
  BY <1>0, CallFacts
<1>3. call[p].snap \in Session
  BY <1>0, CallFacts, SMT
<1> QED  BY <1>1, <1>2, <1>3 DEF CallOK, Sound, Registration

LEMMA ReserveStep ==
    ASSUME IInv, NEW p \in Proc, Reserve(p)
    PROVE  IInv'
<1> DEFINE c == call[p]
<1>1. Sound(c) /\ CallOK(c) /\ c.pc = "reserve" /\ c.task \in Task
  <2>1. c.pc = "reserve"
    BY Zenon DEF Reserve
  <2>2. Sound(c)
    BY <2>1, CallFacts
  <2>3. CallOK(c)
    BY <2>1, CallFacts
  <2> QED  BY <2>1, <2>2, <2>3 DEF Sound
<1>2. c.op \in {"background", "foreground"}
  BY <1>1, SMT DEF CallOK
<1>3. CASE Goto(p, Idle) /\ UNCHANGED runtime
  <2>1. CallsOK'
    BY <1>3, IdleOK, GotoKeeps DEF IInv
  <2> QED  BY <1>3, <2>1, Unchanged, Zenon DEF IInv, Reserve
<1>4. ASSUME NEW r \in Runner,
             runtime' = [runtime EXCEPT ![c.task] =
                           [NoEntry EXCEPT !.cancel = r, !.slot = c.op]],
             Goto(p, [c EXCEPT !.pc = "rload", !.runner = r])
      PROVE  IInv'
  <2>1. [NoEntry EXCEPT !.cancel = r, !.slot = c.op] \in Entry
    BY <1>2 DEF Entry, NoEntry
  <2>2. RuntimeOK'
    BY <1>1, <1>4, <2>1, EntryKeeps DEF IInv
  <2>3. CallOK([c EXCEPT !.pc = "rload", !.runner = r])
    BY <1>1, RegisteringForms, RegistrationNames, Zenon
  <2>4. CallsOK'
    BY <1>4, <2>3, GotoKeeps DEF IInv
  <2> QED  BY <2>2, <2>4, Unchanged, Zenon DEF IInv, Reserve
<1> QED  BY <1>3, <1>4, Zenon DEF Reserve

LEMMA RegisterLoadStep ==
    ASSUME IInv, NEW p \in Proc, RegisterLoad(p)
    PROVE  IInv'
<1> DEFINE c == call[p]
           state == store[c.task].state
           new == [state |-> Registered(state), error |-> "none"]
<1>1. Sound(c) /\ c.task \in Task /\ c.runner \in Runner
  BY RegisteringFacts, RegistrationNames DEF RegisterLoad
<1>2. CallOK([c EXCEPT !.pc = "unregister"])
  BY <1>1, RegisteringForms, RegistrationNames, Zenon
<1>3. ASSUME state \notin Finalizing
      PROVE  CallOK([c EXCEPT !.pc = "rsave", !.snap = new])
  <2>1. state \in SessionState \cup {"Absent"}
    BY <1>1 DEF IInv, StoreOK, Session
  <2>2. Registered(state) = "Running"
    BY <1>3, <2>1, RegisterStates
  <2>3. new \in Session /\ Consistent(new)
    BY <2>2 DEF Session, SessionState, Error, Consistent
  <2> HIDE DEF new
  <2> QED  BY <1>1, <2>3, RegisteringForms, RegistrationNames, Zenon
<1>4. CallsOK'
  BY <1>2, <1>3, GotoKeeps DEF IInv, RegisterLoad
<1>5. FaultsOK'
  BY FaultKeeps, Unchanged DEF IInv, RegisterLoad
<1> QED  BY <1>4, <1>5, Unchanged DEF IInv, RegisterLoad

LEMMA RegisterSaveStep ==
    ASSUME IInv, NEW p \in Proc, RegisterSave(p)
    PROVE  IInv'
<1> DEFINE c == call[p]
<1>1. /\ Sound(c) /\ c.task \in Task /\ c.runner \in Runner
      /\ c.snap \in Session /\ Consistent(c.snap)
  BY RegisteringFacts, RegistrationNames DEF RegisterSave
<1>2. StoreOK'
  BY <1>1, SaveKeeps, Unchanged DEF IInv, RegisterSave
<1>3. /\ CallOK([c EXCEPT !.pc = "spawn", !.snap = NoSession])
      /\ CallOK([c EXCEPT !.pc = "unregister", !.snap = NoSession])
  BY <1>1, StatesOK, RegisteringForms, RegistrationNames, Zenon
<1>4. CallsOK'
  BY <1>3, GotoKeeps DEF IInv, RegisterSave
<1>5. FaultsOK'
  BY FaultKeeps, Unchanged DEF IInv, RegisterSave
<1> QED  BY <1>2, <1>4, <1>5, Unchanged DEF IInv, RegisterSave

LEMMA UnregisterStep ==
    ASSUME IInv, NEW p \in Proc, Unregister(p)
    PROVE  IInv'
<1>1. call[p].task \in Task
  BY RegisteringFacts, RegistrationNames DEF Unregister
<1>2. RuntimeOK'
  BY <1>1, EntryKeeps DEF IInv, Unregister
<1>3. CallsOK'
  BY IdleOK, GotoKeeps DEF IInv, Unregister
<1> QED  BY <1>2, <1>3, Unchanged DEF IInv, Unregister

LEMMA SpawnStep ==
    ASSUME IInv, NEW p \in Proc, Spawn(p)
    PROVE  IInv'
<1> DEFINE c == call[p]
           a == [phase |-> "resume", task |-> c.task, snap |-> NoSession,
                 background |-> c.op = "background", aborted |-> FALSE]
<1>1. Sound(c) /\ c.task \in Task /\ c.runner \in Runner
  BY RegisteringFacts, RegistrationNames DEF Spawn
<1>2. RunOK(a)
  BY <1>1, StatesOK DEF RunOK, Run
<1>3. RunsOK'
  <2>1. run' = [run EXCEPT ![c.runner] = a]
    BY DEF Spawn
  <2> HIDE DEF a
  <2> QED  BY <1>1, <1>2, <2>1, RunKeeps DEF IInv
<1>4. CallOK([c EXCEPT !.pc = "handle"])
  BY <1>1, RegisteringForms, RegistrationNames, Zenon
<1>5. CallsOK'
  BY <1>4, IdleOK, GotoKeeps DEF IInv, Spawn
<1> QED  BY <1>3, <1>5, Unchanged DEF IInv, Spawn

LEMMA SetHandleStep ==
    ASSUME IInv, NEW p \in Proc, SetHandle(p)
    PROVE  IInv'
<1> DEFINE c == call[p]
<1>1. c.task \in Task /\ c.runner \in Runner
  BY RegisteringFacts, RegistrationNames DEF SetHandle
<1>2. RuntimeOK'
  <2>1. CASE Has(c.task)
    <3> DEFINE bound == [runtime[c.task] EXCEPT !.handle = c.runner]
    <3>1. bound \in Entry
      BY <1>1, <2>1, HasEntry DEF IInv, Entry
    <3>2. runtime' = [runtime EXCEPT ![c.task] = bound]
      BY <2>1 DEF SetHandle
    <3> HIDE DEF bound
    <3> QED  BY <1>1, <3>1, <3>2, EntryKeeps DEF IInv
  <2>2. CASE ~Has(c.task)
    BY <2>2, Unchanged DEF IInv, SetHandle
  <2> QED  BY <2>1, <2>2
<1>3. CallsOK'
  BY IdleOK, GotoKeeps DEF IInv, SetHandle
<1> QED  BY <1>2, <1>3, Unchanged DEF IInv, SetHandle

LEMMA CancelEntryStep ==
    ASSUME IInv, NEW p \in Proc, CancelEntry(p)
    PROVE  IInv'
<1> DEFINE c == call[p]
           h == runtime[c.task].handle
<1>1. Sound(c) /\ c.task \in Task
  BY CallFacts DEF CancelEntry
<1>2. CASE ~Has(c.task)
  <2>1. CallsOK'
    BY <1>2, IdleOK, GotoKeeps DEF IInv, CancelEntry
  <2> QED  BY <1>2, <2>1, Unchanged DEF IInv, CancelEntry
<1>3. CASE Has(c.task)
  <2> DEFINE freed == [runtime[c.task] EXCEPT !.cancel = None, !.handle = None]
  <2>1. freed \in Entry /\ h \in Runner \cup {None}
    BY <1>1, <1>3, HasEntry DEF IInv, Entry
  <2>2. RuntimeOK'
    <3>1. runtime' = [runtime EXCEPT ![c.task] = freed]
      BY <1>1, <1>3 DEF CancelEntry, IInv, RuntimeOK
    <3> HIDE DEF freed
    <3> QED  BY <1>1, <2>1, <3>1, EntryKeeps DEF IInv
  <2>3. RunsOK'
    <3>1. CASE h = None
      BY <1>3, <3>1, Unchanged DEF IInv, CancelEntry
    <3>2. CASE h # None
      <4> DEFINE a == [run[h] EXCEPT !.aborted = TRUE]
      <4>1. h \in Runner /\ RunOK(run[h])
        BY <2>1, <3>2 DEF IInv, RunsOK
      <4>2. a \in Run /\ a.phase = run[h].phase /\ a.task = run[h].task /\ a.snap = run[h].snap
        BY <4>1 DEF RunOK, Run
      <4>3. RunOK(a)
        <5> HIDE DEF a
        <5> QED  BY <4>1, <4>2 DEF RunOK
      <4>4. run' = [run EXCEPT ![h] = a]
        BY <1>3, <3>2 DEF CancelEntry
      <4> HIDE DEF a, h
      <4> QED  BY <4>1, <4>3, <4>4, RunKeeps DEF IInv
    <3> QED  BY <3>1, <3>2
  <2>4. CallsOK'
    <3>1. CallOK([c EXCEPT !.pc = "pload", !.ctx = "apply",
                           !.cur = c.task, !.tr = "Cancelled"])
      <4>1. "Cancelled" \in Terminal
        BY DEF Terminal
      <4> QED  BY <1>1, <4>1, AtTaskOK, Zenon
    <3> QED  BY <1>3, <3>1, GotoKeeps DEF IInv, CancelEntry
  <2> QED  BY <2>2, <2>3, <2>4, Unchanged DEF IInv, CancelEntry
<1> QED  BY <1>2, <1>3

-----------------------------------------------------------------------------
(* The agents *)

LEMMA BeginKeeps ==
    ASSUME IInv, NEW p \in Proc, NEW op \in {"background", "foreground", "report",
                                             "cancel", "query", "list"},
           NEW t \in Task, NEW want \in Terminal \cup {"none"},
           op = "report" => want \in Terminal, Begin(p, op, t, want)
    PROVE  CallsOK'
<1> DEFINE c == [Idle EXCEPT !.op = op, !.task = t, !.want = want, !.pc = "scan"]
<1>1. c \in Call
  <2>1. op \in OpName
    BY DEF OpName
  <2>2. Idle \in Call
    BY IdleOK DEF CallOK
  <2> HIDE DEF Idle
  <2> QED  BY <2>1, <2>2, NamesOK, Zenon DEF Call
<1>2. /\ c.op = op /\ c.task = t /\ c.want = want /\ c.pc = "scan" /\ c.snap = NoSession
  BY DEF Idle
<1>3. Goto(p, c)
  BY DEF Begin
<1> HIDE DEF c
<1>4. CallOK(c)
  BY <1>1, <1>2, StatesOK DEF CallOK
<1> QED  BY <1>3, <1>4, GotoKeeps DEF IInv

\* What the run of an agent that executes holds, and what it may become.
LEMMA AgentFacts ==
    ASSUME IInv, NEW r \in Runner
    PROVE  /\ RunOK(run[r])
           /\ run[r].phase \in {"resume", "body"} => run[r].task \in Task
           /\ run[r].snap \in Session /\ Consistent(run[r].snap)
           /\ \A phase \in {"reporting", "stopping"} :
                RunOK([run[r] EXCEPT !.phase = phase, !.snap = NoSession])
           /\ RunOK(Gone)
<1>1. RunOK(run[r])
  BY DEF IInv, RunsOK
<1>2. run[r].snap \in Session
  BY <1>1 DEF RunOK, Run
<1>3. ASSUME NEW phase \in {"reporting", "stopping"}
      PROVE  RunOK([run[r] EXCEPT !.phase = phase, !.snap = NoSession])
  <2> DEFINE a == [run[r] EXCEPT !.phase = phase, !.snap = NoSession]
  <2>1. a \in Run /\ a.phase = phase /\ a.snap = NoSession
    BY <1>1, StatesOK DEF RunOK, Run
  <2>2. RunOK(a)
    <3> HIDE DEF a
    <3> QED  BY <2>1, StatesOK DEF RunOK
  <2> QED  BY <2>2
<1>4. RunOK(Gone)
  BY StatesOK DEF RunOK, Run, Gone
<1> QED  BY <1>1, <1>2, <1>3, <1>4 DEF RunOK

LEMMA AgentResumesStep ==
    ASSUME IInv, NEW r \in Runner, AgentResumes(r)
    PROVE  IInv'
<1> DEFINE a == [run[r] EXCEPT !.phase = "body", !.snap = store[run[r].task]]
<1>1. RunOK(run[r]) /\ run[r].task \in Task
  BY AgentFacts, Zenon DEF AgentResumes
<1>2. store[run[r].task] \in Session /\ Consistent(store[run[r].task])
  BY <1>1 DEF IInv, StoreOK
<1>3. a \in Run /\ a.task = run[r].task /\ a.snap = store[run[r].task]
  BY <1>1, <1>2 DEF RunOK, Run
<1>4. run' = [run EXCEPT ![r] = a]
  BY DEF AgentResumes
<1>5. RunsOK'
  <2> HIDE DEF a
  <2>1. RunOK(a)
    BY <1>1, <1>2, <1>3 DEF RunOK
  <2> QED  BY <1>4, <2>1, RunKeeps DEF IInv
<1> QED  BY <1>5, Unchanged DEF IInv, AgentResumes

LEMMA AgentSavesStep ==
    ASSUME IInv, NEW r \in Runner, AgentSaves(r)
    PROVE  IInv'
<1>1. run[r].task \in Task /\ run[r].snap \in Session /\ Consistent(run[r].snap)
  BY AgentFacts, Zenon DEF AgentSaves
<1>2. StoreOK'
  BY <1>1, SaveKeeps DEF IInv, AgentSaves
<1> QED  BY <1>2, Unchanged DEF IInv, AgentSaves

LEMMA AgentSavesDetachedStep ==
    ASSUME IInv, NEW r \in Runner, AgentSavesDetached(r)
    PROVE  IInv'
<1>1. run[r].task \in Task /\ run[r].snap \in Session /\ Consistent(run[r].snap)
  BY AgentFacts, Zenon DEF AgentSavesDetached
<1>2. DetachedOK'
  BY <1>1 DEF IInv, DetachedOK, AgentSavesDetached, Save
<1> QED  BY <1>2, Unchanged DEF IInv, AgentSavesDetached

LEMMA DetachedSaveLandsStep ==
    ASSUME IInv, DetachedSaveLands
    PROVE  IInv'
<1>1. PICK d \in detached : /\ store' = [store EXCEPT ![d.task] = d.snap]
                            /\ detached' = detached \ {d}
  BY DEF DetachedSaveLands
<1>2. d.task \in Task /\ d.snap \in Session /\ Consistent(d.snap)
  BY DEF IInv, DetachedOK, Save
<1>3. StoreOK'
  BY <1>1, <1>2, SaveKeeps DEF IInv
<1>4. DetachedOK'
  BY <1>1 DEF IInv, DetachedOK
<1> QED  BY <1>3, <1>4, Unchanged DEF IInv, DetachedSaveLands

LEMMA AgentCompletesStep ==
    ASSUME IInv, NEW r \in Runner, AgentCompletes(r)
    PROVE  IInv'
<1>1. /\ run[r].task \in Task /\ run[r].snap \in Session /\ Consistent(run[r].snap)
      /\ RunOK([run[r] EXCEPT !.phase = "reporting", !.snap = NoSession])
  BY AgentFacts, Zenon DEF AgentCompletes
<1>2. StoreOK'
  BY <1>1, SaveKeeps DEF IInv, AgentCompletes
<1>3. RunsOK'
  BY <1>1, RunKeeps DEF IInv, AgentCompletes
<1>4. CallsOK'
  BY <1>1, BeginKeeps, SMTT(30) DEF AgentCompletes, Proc, Terminal
<1> QED  BY <1>2, <1>3, <1>4, Unchanged DEF IInv, AgentCompletes

LEMMA AgentFailsStep ==
    ASSUME IInv, NEW r \in Runner, AgentFails(r)
    PROVE  IInv'
<1>1. /\ run[r].task \in Task
      /\ RunOK([run[r] EXCEPT !.phase = "reporting", !.snap = NoSession])
  BY AgentFacts, Zenon DEF AgentFails
<1>2. RunsOK'
  BY <1>1, RunKeeps DEF IInv, AgentFails
<1>3. CallsOK'
  BY <1>1, BeginKeeps, SMTT(30) DEF AgentFails, Proc, Terminal
<1> QED  BY <1>2, <1>3, Unchanged DEF IInv, AgentFails

LEMMA RunnerStopsStep ==
    ASSUME IInv, NEW r \in Runner, RunnerCancelled(r) \/ RunnerEnds(r)
    PROVE  IInv'
<1>1. /\ RunOK([run[r] EXCEPT !.phase = "stopping", !.snap = NoSession])
      /\ RunOK(Gone)
  BY AgentFacts, Zenon
<1>2. RunsOK'
  <2>1. CASE RunnerCancelled(r)
    BY <1>1, <2>1, RunKeeps DEF IInv, RunnerCancelled
  <2>2. CASE RunnerEnds(r)
    BY <1>1, <2>2, RunKeeps DEF IInv, RunnerEnds
  <2> QED  BY <2>1, <2>2
<1> QED  BY <1>2, Unchanged DEF IInv, RunnerCancelled, RunnerEnds

LEMMA DroppedKeeps ==
    ASSUME IInv, NEW p \in Proc, Dropped(p)
    PROVE  CallsOK' /\ OnceOK'
<1>1. CallsOK'
  BY IdleOK, GotoKeeps DEF IInv, Dropped
<1>2. OnceOK'
  BY DEF IInv, OnceOK, Dropped
<1> QED  BY <1>1, <1>2

LEMMA RunnerAbortedStep ==
    ASSUME IInv, NEW r \in Runner, RunnerAborted(r)
    PROVE  IInv'
<1>1. CallsOK' /\ OnceOK'
  BY DroppedKeeps DEF RunnerAborted, Proc
<1>2. RunsOK'
  BY AgentFacts, RunKeeps, Zenon DEF IInv, RunnerAborted
<1> QED  BY <1>1, <1>2, Unchanged DEF IInv, RunnerAborted

-----------------------------------------------------------------------------
(* The faults *)

LEMMA RunnerPanicsStep ==
    ASSUME IInv, NEW r \in Runner, RunnerPanics(r)
    PROVE  IInv'
<1>1. RunsOK'
  BY AgentFacts, RunKeeps, Zenon DEF IInv, RunnerPanics
<1>2. FaultsOK'
  BY FaultKeeps DEF IInv, RunnerPanics
<1> QED  BY <1>1, <1>2, Unchanged DEF IInv, RunnerPanics

LEMMA ClientDroppedStep ==
    ASSUME IInv, NEW p \in Client, ClientDropped(p)
    PROVE  IInv'
<1>1. CallsOK' /\ OnceOK'
  BY DroppedKeeps DEF ClientDropped, Proc
<1>2. FaultsOK'
  BY FaultKeeps DEF IInv, ClientDropped
<1> QED  BY <1>1, <1>2, Unchanged DEF IInv, ClientDropped

LEMMA ClientCallsStep ==
    ASSUME IInv, NEW p \in Client, NEW op \in Ops, NEW t \in Task, ClientCalls(p, op, t)
    PROVE  IInv'
<1>1. op \in {"background", "foreground", "cancel", "query", "list"}
  BY TrackerAssumption
<1>2. CallsOK'
  BY <1>1, BeginKeeps DEF ClientCalls, Proc
<1> QED  BY <1>2, Unchanged DEF IInv, ClientCalls

LEMMA CrashStep ==
    ASSUME IInv, Crash
    PROVE  IInv'
<1>1. RuntimeOK' /\ OnceOK'
  BY DEF Crash, RuntimeOK, OnceOK
<1>2. CallsOK'
  BY IdleOK DEF Crash, CallsOK, CallOK
<1>3. RunsOK'
  <2>1. RunOK(Gone)
    BY StatesOK DEF RunOK, Run, Gone
  <2> QED  BY <2>1 DEF Crash, RunsOK, RunOK
<1>4. DetachedOK' /\ FaultsOK'
  BY FaultKeeps DEF IInv, Crash, DetachedOK
<1> QED  BY <1>1, <1>2, <1>3, <1>4, Unchanged DEF IInv, Crash

-----------------------------------------------------------------------------
(* The theorems *)

LEMMA InitIInv == Init => IInv
<1> SUFFICES ASSUME Init PROVE IInv
  OBVIOUS
<1>1. StoreOK
  BY StatesOK DEF Init, StoreOK
<1>2. CallsOK
  BY IdleOK DEF Init, CallsOK, CallOK
<1>3. RunsOK
  <2>1. RunOK(Gone)
    BY StatesOK DEF RunOK, Run, Gone
  <2> QED  BY <2>1 DEF Init, RunsOK, RunOK
<1>4. RuntimeOK /\ OnceOK /\ DetachedOK /\ FaultsOK
  BY TrackerAssumption DEF Init, RuntimeOK, OnceOK, DetachedOK, FaultsOK
<1> QED  BY <1>1, <1>2, <1>3, <1>4 DEF IInv

LEMMA StepIInv ==
    ASSUME IInv, NEW p \in Proc, Step(p)
    PROVE  IInv'
<1>1. CASE Refresh(p)
  BY <1>1, ScanStep, RetryPendingStep, FinishedNextStep, OnceEnterStep,
     ListCandidatesStep, SweepStep DEF Refresh
<1>2. CASE Reconcile(p)
  BY <1>2, LoadCandidateStep, ProbeOrphanStep, SaveOrphanStep, SaveFinalizedStep,
     ClearFinalizedStep DEF Reconcile
<1>3. CASE Persist(p)
  BY <1>3, PersistLoadStep, SaveIntentStep, SaveOutcomeStep, ClearPersistedStep,
     RememberPendingStep DEF Persist
<1>4. CASE Register(p)
  BY <1>4, ReserveStep, RegisterLoadStep, RegisterSaveStep, UnregisterStep,
     SpawnStep, SetHandleStep DEF Register
<1>5. CASE CancelEntry(p)
  BY <1>5, CancelEntryStep
<1> QED  BY <1>1, <1>2, <1>3, <1>4, <1>5 DEF Step

LEMMA AgentIInv ==
    ASSUME IInv, NEW r \in Runner, Agent(r) \/ RunnerPanics(r)
    PROVE  IInv'
BY AgentResumesStep, AgentSavesStep, AgentSavesDetachedStep, AgentCompletesStep,
   AgentFailsStep, RunnerStopsStep, RunnerAbortedStep, RunnerPanicsStep DEF Agent

LEMMA NextIInv == IInv /\ [Next]_vars => IInv'
<1> SUFFICES ASSUME IInv, [Next]_vars PROVE IInv'
  OBVIOUS
<1>1. CASE \E p \in Proc : Step(p)
  BY <1>1, StepIInv
<1>2. CASE \E p \in Client : ClientDropped(p)
  BY <1>2, ClientDroppedStep
<1>3. CASE \E p \in Client, op \in Ops, t \in Task : ClientCalls(p, op, t)
  BY <1>3, ClientCallsStep
<1>4. CASE \E r \in Runner : Agent(r) \/ RunnerPanics(r)
  BY <1>4, AgentIInv
<1>5. CASE DetachedSaveLands
  BY <1>5, DetachedSaveLandsStep
<1>6. CASE Crash
  BY <1>6, CrashStep
<1>7. CASE UNCHANGED vars
  BY <1>7, Unchanged DEF vars, IInv
<1> QED  BY <1>1, <1>2, <1>3, <1>4, <1>5, <1>6, <1>7 DEF Next

\* The inductive invariant holds: whatever steps calls, agents and faults take.
THEOREM Inductive == Spec => []IInv
BY InitIInv, NextIInv, PTL DEF Spec

\* Every variable keeps to its type: no step leaves a call, an entry, an
\* agent or a durable session in a state the code has no name for, and in
\* particular no save writes a state outside the session FSM.
THEOREM TypeCorrect == Spec => []TypeOK
<1>1. IInv => TypeOK
  BY DEF IInv, TypeOK, StoreOK, RuntimeOK, OnceOK, CallsOK, RunsOK, DetachedOK, FaultsOK
<1> QED  BY <1>1, Inductive, PTL

\* A durable session names an error exactly when it failed or is failing,
\* however many calls, agents, late saves, faults and crashes interleave.
THEOREM ErrorConsistency == Spec => []ErrorExplainsFailure
<1>1. IInv => ErrorExplainsFailure
  BY DEF IInv, StoreOK, Consistent, ErrorExplainsFailure
<1> QED  BY <1>1, Inductive, PTL

-----------------------------------------------------------------------------
(* Calls that do not overlap *)

\* Calls that do not overlap, agents that save before they go on and stop where
\* they are told to, and no foreground task.
Calm ==
    /\ MaxInFlight <= 1
    /\ ~DetachedSaves
    /\ PromptAbort
    /\ "foreground" \notin Ops

Active(p) == call[p].pc # "idle"
Executing == {"resume", "body"}

\* The labels of persist_transition, and those between the reservation of an
\* entry and the start of its agent.
Persisting == {"pload", "save1", "save2", "clear", "remember"}
Claiming == {"rload", "rsave", "unregister", "spawn"}

\* The call persists the outcome it came for, and not one it found waiting.
Applying(c) == c.pc \in Persisting /\ c.ctx = "apply"

OneCall == \A p, q \in Proc : Active(p) /\ Active(q) => p = q

\* What the operation of a call says about its labels.
Shape(p, c) ==
    c.pc # "idle" =>
        /\ p \in Runner <=> c.op = "report"
        /\ c.op # "foreground"
        /\ c.pc \in Persisting => c.ctx \in {"apply", "retry"}
        /\ c.pc = "remember" => c.ctx = "apply"
        /\ c.pc \in {"load", "live", "orphan", "finalize", "finalized"} =>
             c.ctx \in {"finished", "sweep", "query"}
        /\ c.ctx = "query" => c.op = "query"
        /\ Applying(c) => c.op \in {"report", "cancel"} /\ c.cur = c.task
        /\ c.pc \in Claiming \cup {"reserve", "handle"} => c.op = "background"
        /\ c.pc = "cancel" => c.op = "cancel"

ShapeOK == \A p \in Proc : Shape(p, call[p])

\* The entries: a runner owns the entry whose channel it holds.
NoForeground == \A t \in Task : runtime[t].slot # "foreground"

PendingReleases == \A t \in Task : runtime[t].pending # "none" => runtime[t].cancel = None

HandleOfOwner ==
    \A t \in Task, r \in Runner :
        runtime[t].handle = r /\ runtime[t].cancel # r =>
            /\ runtime[t].pending # "none"
            /\ run[r].phase \in {"stopping", "over"}
            /\ \A u \in Task : runtime[u].cancel # r

OneOwner ==
    \A t, u \in Task, r \in Runner :
        runtime[t].cancel = r /\ runtime[u].cancel = r => t = u

OwnerWorks ==
    \A t \in Task, r \in Runner :
        runtime[t].cancel = r /\ run[r].phase # "over" =>
            run[r].task = t /\ ~run[r].aborted /\ run[r].phase # "stopping"

OwnerRuns ==
    \A t \in Task, r \in Runner :
        runtime[t].cancel = r /\ run[r].phase \in Executing =>
            /\ store[t].state = "Running"
            /\ run[r].phase = "body" => run[r].snap.state = "Running"

FailureWaits ==
    \A t \in Task : runtime[t].pending = "Failed" => store[t].state # "Completing"

EntriesOK ==
    /\ NoForeground /\ PendingReleases /\ HandleOfOwner /\ OneOwner
    /\ OwnerWorks /\ OwnerRuns /\ FailureWaits

\* A runner reports while it has a call, about the entry it owns.
AgentsOK ==
    \A r \in Runner :
        /\ run[r].phase \in Executing => run[r].background
        /\ run[r].phase = "reporting" <=> Active(r)
        /\ run[r].phase = "reporting" =>
             /\ call[r].task = run[r].task
             /\ runtime[run[r].task].cancel = r
             /\ ~Applying(call[r]) => store[run[r].task].state = "Running"

\* What the label of a call says about the store and the entries.
Stage(c) ==
    /\ c.pc = "live" => store[c.cur].state = "Running"
    /\ c.pc = "orphan" =>
         /\ store[c.cur].state = "Running"
         /\ runtime[c.cur] = NoEntry
         /\ c.snap.state = "Failed"
    /\ c.pc = "finalize" =>
         /\ store[c.cur].state \in Finalizing
         /\ c.snap.state = TerminalFromFinalizing[store[c.cur].state]
         /\ c.snap.error = store[c.cur].error
    /\ c.pc = "finalized" => store[c.cur].state \in Terminal
    /\ c.pc \in Persisting =>
         /\ Has(c.cur)
         /\ c.ctx = "retry" => runtime[c.cur].pending = c.tr
         /\ Applying(c) /\ c.op = "cancel" =>
              /\ runtime[c.cur].cancel = None /\ runtime[c.cur].handle = None
              /\ c.tr = "Cancelled"
         /\ c.tr = "Failed" => store[c.cur].state # "Completing"
    /\ c.pc = "save1" =>
         /\ CanTransitionTo(store[c.cur].state, FinalizingPhase[c.tr])
         /\ c.snap = Intent(c.tr)
    /\ c.pc = "save2" =>
         /\ store[c.cur].state = FinalizingPhase[c.tr]
         /\ c.snap = Outcome(c.tr)
    /\ c.pc \in Claiming =>
         /\ runtime[c.task].cancel = c.runner
         /\ runtime[c.task].handle = None
         /\ runtime[c.task].pending = "none"
         /\ runtime[c.task].slot = "background"
         /\ run[c.runner].phase = "over"
    /\ c.pc = "handle" => runtime[c.task].cancel = c.runner
    /\ c.pc = "rsave" => store[c.task].state \notin Finalizing /\ c.snap.state = "Running"
    /\ c.pc = "spawn" => store[c.task].state = "Running"

StagesOK == \A p \in Proc : Stage(call[p])

\* Entries that count against the limit, or would if their handle had not
\* finished.  Since the scan of a call in progress there are not too many.
Taken == {t \in Task : runtime[t].slot = "background" /\ runtime[t].pending = "none"}

SlotsOK ==
    /\ Cardinality(ReservedSlots) <= MaxBackground
    /\ \A p \in Proc : call[p].pc \notin Claiming \cup {"idle", "scan", "handle"} =>
          Cardinality(Taken) <= MaxBackground

CInv ==
    /\ IInv /\ OneCall /\ ShapeOK /\ EntriesOK /\ AgentsOK /\ StagesOK /\ SlotsOK
    /\ detached = {}

-----------------------------------------------------------------------------
(* Where a call goes next *)

\* The labels that hold nothing: the call has yet to read what it goes on with.
Quiet == {"retry", "finished", "once", "list", "sweep", "load", "reserve", "cancel"}

\* d is what became of c, for the same operation.
Onward(d, c) == d.op = c.op /\ d.task = c.task /\ d.runner = c.runner

LEMMA AtRetryGives ==
    ASSUME NEW c \in Call
    PROVE  /\ AtRetry(c).pc \in {"retry", "finished", "once"}
           /\ AtFinished(c).pc \in {"finished", "once"}
           /\ Onward(AtRetry(c), c) /\ Onward(AtFinished(c), c)
           /\ AtRetry(c).ctx = c.ctx /\ AtFinished(c).ctx = c.ctx
BY DEF AtRetry, AtFinished, Onward, Call

LEMMA RetriedGives ==
    ASSUME NEW c \in Call
    PROVE  /\ Retried(c).pc \in {"retry", "finished", "once"}
           /\ Onward(Retried(c), c) /\ Retried(c).ctx = "none"
<1> DEFINE next == [c EXCEPT !.todo = @ \ {c.cur}, !.ctx = "none", !.cur = None,
                             !.tr = "none", !.snap = NoSession]
           todo == c.todo \ {c.cur}
<1>1. next = [c EXCEPT !.todo = todo, !.ctx = "none", !.cur = None, !.tr = "none",
                       !.snap = NoSession]
  BY DEF Call
<1>2. todo \in SUBSET Task
  BY DEF Call
<1>3. Onward(next, c) /\ next.ctx = "none"
  BY DEF Call, Onward
<1> HIDE DEF todo
<1>4. next \in Call
  BY <1>1, <1>2, StatesOK, NamesOK, Zenon DEF Call
<1> HIDE DEF next
<1>5. /\ AtRetry(next).pc \in {"retry", "finished", "once"}
      /\ Onward(AtRetry(next), next) /\ AtRetry(next).ctx = next.ctx
  BY <1>4, AtRetryGives
<1>6. Retried(c) = AtRetry(next)
  BY DEF Retried, next
<1> QED  BY <1>3, <1>5, <1>6 DEF Onward

LEMMA ReconciledGives ==
    ASSUME NEW c \in Call, c.ctx \in {"finished", "sweep"}
    PROVE  /\ Reconciled(c).pc \in {"finished", "once", "sweep"}
           /\ Onward(Reconciled(c), c) /\ Reconciled(c).ctx = "none"
<1> DEFINE back == [c EXCEPT !.ctx = "none", !.cur = None, !.snap = NoSession]
           done == [back EXCEPT !.fin = @ \ {c.cur}]
           left == [back EXCEPT !.todo = @ \ {c.cur}]
<1>1. back \in Call
  BY StatesOK, NamesOK, Zenon DEF Call
<1>2. Onward(back, c) /\ back.ctx = "none"
  BY DEF Call, Onward
<1> HIDE DEF back
<1>3. /\ done \in Call /\ Onward(done, back) /\ done.ctx = back.ctx
      /\ left \in Call /\ Onward(left, back) /\ left.ctx = back.ctx
  BY <1>1 DEF Call, Onward
<1> HIDE DEF done, left
<1>4. CASE c.ctx = "finished"
  <2>1. Reconciled(c) = AtFinished(done)
    BY <1>4 DEF Reconciled, done, back
  <2> QED  BY <2>1, <1>2, <1>3, AtRetryGives DEF Onward
<1>5. CASE c.ctx = "sweep"
  <2>1. Reconciled(c) = [left EXCEPT !.pc = "sweep"]
    BY <1>5 DEF Reconciled, left, back
  <2>2. /\ [left EXCEPT !.pc = "sweep"].pc = "sweep"
        /\ Onward([left EXCEPT !.pc = "sweep"], left)
        /\ [left EXCEPT !.pc = "sweep"].ctx = left.ctx
    BY <1>3 DEF Call, Onward
  <2> QED  BY <2>1, <2>2, <1>2, <1>3 DEF Onward
<1> QED  BY <1>4, <1>5

LEMMA IdleGives == Idle.pc = "idle" /\ Idle.op = "none" /\ Idle.ctx = "none"
BY DEF Idle

\* A reconciliation returns to where it came from: a loop of the refresh, or
\* the client that asked.
LEMMA ReconciledShape ==
    ASSUME NEW p \in Proc, NEW c \in Call, c.pc # "idle", Shape(p, c),
           c.ctx \in {"finished", "sweep", "query"}
    PROVE  /\ Shape(p, Reconciled(c))
           /\ Reconciled(c).pc \in {"finished", "once", "sweep", "idle"}
           /\ p \in Runner => Reconciled(c).pc # "idle"
           /\ Reconciled(c).pc # "idle" => Onward(Reconciled(c), c)
<1>1. CASE c.ctx \in {"finished", "sweep"}
  <2> DEFINE d == Reconciled(c)
  <2>1. d.pc \in {"finished", "once", "sweep"} /\ Onward(d, c) /\ d.ctx = "none"
    BY <1>1, ReconciledGives
  <2> HIDE DEF d
  <2>2. Shape(p, d)
    BY <2>1 DEF Shape, Onward, Applying, Persisting, Claiming
  <2> QED  BY <2>1, <2>2 DEF d
<1>2. CASE c.ctx = "query"
  <2>1. Reconciled(c) = Idle
    BY <1>2 DEF Reconciled
  <2> QED  BY <1>2, <2>1, IdleGives DEF Shape
<1> QED  BY <1>1, <1>2

LEMMA RetriedShape ==
    ASSUME NEW p \in Proc, NEW c \in Call, c.pc # "idle", Shape(p, c)
    PROVE  /\ Shape(p, Retried(c))
           /\ Retried(c).pc \in {"retry", "finished", "once"}
           /\ Onward(Retried(c), c)
<1> DEFINE d == Retried(c)
<1>1. d.pc \in {"retry", "finished", "once"} /\ Onward(d, c) /\ d.ctx = "none"
  BY RetriedGives
<1> HIDE DEF d
<1>2. Shape(p, d)
  BY <1>1 DEF Shape, Onward, Applying, Persisting, Claiming
<1> QED  BY <1>1, <1>2 DEF d

LEMMA AfterRefreshShape ==
    ASSUME NEW p \in Proc, NEW c \in Call, c.pc # "idle", Shape(p, c)
    PROVE  LET d == AfterRefresh(c)
           IN  /\ Shape(p, d)
               /\ d.pc \in {"reserve", "cancel", "load", "pload", "idle"}
               /\ d.pc = "pload" => d.op = "report" /\ d.ctx = "apply" /\ d.cur = c.task
               /\ p \in Runner => d.pc = "pload"
               /\ d.pc # "idle" => Onward(d, c)
<1> DEFINE d == AfterRefresh(c)
<1>1. CASE c.op = "background"
  <2>1. d = [c EXCEPT !.pc = "reserve"]
    BY <1>1 DEF AfterRefresh
  <2>2. d.pc = "reserve" /\ Onward(d, c) /\ d.ctx = c.ctx
    BY <2>1 DEF Call, Onward
  <2> HIDE DEF d
  <2>3. Shape(p, d)
    BY <1>1, <2>2 DEF Shape, Onward, Applying, Persisting, Claiming
  <2>4. p \notin Runner
    BY <1>1 DEF Shape
  <2> QED  BY <1>1, <2>2, <2>3, <2>4 DEF d
<1>2. CASE c.op = "report"
  <2>1. d = [c EXCEPT !.pc = "pload", !.ctx = "apply", !.cur = c.task, !.tr = c.want]
    BY <1>2 DEF AfterRefresh
  <2>2. d.pc = "pload" /\ Onward(d, c) /\ d.ctx = "apply" /\ d.cur = c.task
    BY <2>1 DEF Call, Onward
  <2> HIDE DEF d
  <2>3. Shape(p, d)
    BY <1>2, <2>2 DEF Shape, Onward, Applying, Persisting, Claiming
  <2> QED  BY <1>2, <2>2, <2>3 DEF d, Onward
<1>3. CASE c.op = "cancel"
  <2>1. d = [c EXCEPT !.pc = "cancel"]
    BY <1>3 DEF AfterRefresh
  <2>2. d.pc = "cancel" /\ Onward(d, c) /\ d.ctx = c.ctx
    BY <2>1 DEF Call, Onward
  <2> HIDE DEF d
  <2>3. Shape(p, d)
    BY <1>3, <2>2 DEF Shape, Onward, Applying, Persisting, Claiming
  <2>4. p \notin Runner
    BY <1>3 DEF Shape
  <2> QED  BY <2>2, <2>3, <2>4 DEF d
<1>4. CASE c.op = "query"
  <2>1. d = [c EXCEPT !.pc = "load", !.ctx = "query", !.cur = c.task]
    BY <1>4 DEF AfterRefresh
  <2>2. d.pc = "load" /\ Onward(d, c) /\ d.ctx = "query"
    BY <2>1 DEF Call, Onward
  <2> HIDE DEF d
  <2>3. Shape(p, d)
    BY <1>4, <2>2 DEF Shape, Onward, Applying, Persisting, Claiming
  <2>4. p \notin Runner
    BY <1>4 DEF Shape
  <2> QED  BY <2>2, <2>3, <2>4 DEF d
<1>5. CASE c.op \notin {"background", "foreground", "report", "cancel", "query"}
  <2>1. d = Idle
    BY <1>5 DEF AfterRefresh
  <2>2. p \notin Runner
    BY <1>5 DEF Shape
  <2> QED  BY <2>1, <2>2, IdleGives DEF Shape
<1>6. c.op # "foreground"
  BY DEF Shape
<1> QED  BY <1>1, <1>2, <1>3, <1>4, <1>5, <1>6

-----------------------------------------------------------------------------
(* What a step keeps *)

\* An entry stays, goes, or lets its runner go.
Shrunk(t) ==
    \/ runtime'[t] = runtime[t]
    \/ runtime'[t] = NoEntry
    \/ /\ runtime'[t].handle = None /\ runtime'[t].cancel = None
       /\ runtime'[t].pending = runtime[t].pending
       /\ runtime'[t].slot = runtime[t].slot

\* What becomes of a runner that owns an entry.
Follows(r) ==
    \/ run'[r] = run[r]
    \/ run'[r].phase = "over"
    \/ /\ run[r].phase \in Executing
       /\ run'[r].task = run[r].task /\ run'[r].aborted = run[r].aborted
       /\ run'[r].phase \in {"body", "reporting"}
       /\ run'[r].phase = "body" => run'[r].snap.state = "Running"

NoEntryFields ==
    /\ NoEntry.handle = None /\ NoEntry.cancel = None
    /\ NoEntry.pending = "none" /\ NoEntry.slot = "absent"

LEMMA NoEntryIs == NoEntryFields
BY DEF NoEntryFields, NoEntry

LEMMA NoneNotRunner == None \notin Runner /\ None \notin Task
BY TrackerAssumption

\* Entries that only shrink, over runners that do not come back.
LEMMA EntriesShrink ==
    ASSUME EntriesOK, \A t \in Task : Shrunk(t), store' = store,
           \A t \in Task, r \in Runner : runtime'[t].cancel = r => Follows(r),
           \A r \in Runner : run[r].phase \in {"stopping", "over"} =>
                               run'[r].phase \in {"stopping", "over"}
    PROVE  EntriesOK'
<1> USE NoEntryIs, NoneNotRunner DEF NoEntryFields
<1>1. NoForeground' /\ PendingReleases'
  BY DEF EntriesOK, Shrunk, NoForeground, PendingReleases
<1>2. OneOwner' /\ HandleOfOwner'
  <2>1. \A t \in Task, r \in Runner : runtime'[t].cancel = r => runtime[t].cancel = r
    BY DEF Shrunk
  <2>2. \A t \in Task, r \in Runner :
          runtime'[t].handle = r => runtime'[t] = runtime[t]
    BY DEF Shrunk
  <2> QED  BY <2>1, <2>2 DEF EntriesOK, OneOwner, HandleOfOwner
<1>3. OwnerWorks' /\ OwnerRuns'
  <2> SUFFICES ASSUME NEW t \in Task, NEW r \in Runner, runtime'[t].cancel = r
               PROVE  /\ run'[r].phase # "over" =>
                           run'[r].task = t /\ ~run'[r].aborted /\ run'[r].phase # "stopping"
                      /\ run'[r].phase \in Executing =>
                           /\ store'[t].state = "Running"
                           /\ run'[r].phase = "body" => run'[r].snap.state = "Running"
    BY DEF OwnerWorks, OwnerRuns
  <2>1. runtime[t].cancel = r /\ Follows(r)
    BY DEF Shrunk
  <2> QED  BY <2>1 DEF EntriesOK, Follows, OwnerWorks, OwnerRuns, Executing
<1>4. FailureWaits'
  BY DEF EntriesOK, Shrunk, FailureWaits
<1> QED  BY <1>1, <1>2, <1>3, <1>4 DEF EntriesOK

\* A save that no executing agent and no waiting failure contradicts.
LEMMA EntriesSave ==
    ASSUME IInv, EntriesOK, NEW t \in Task, NEW s \in Session,
           store' = [store EXCEPT ![t] = s], UNCHANGED <<runtime, run>>,
           s.state = "Running" \/ \A r \in Runner :
                                     runtime[t].cancel = r => run[r].phase \notin Executing,
           runtime[t].pending = "Failed" => s.state # "Completing"
    PROVE  EntriesOK'
<1>1. \A u \in Task : store'[u] = IF u = t THEN s ELSE store[u]
  BY DEF IInv, StoreOK
<1> QED  BY <1>1 DEF EntriesOK, NoForeground, PendingReleases, HandleOfOwner, OneOwner,
            OwnerWorks, OwnerRuns, FailureWaits

\* A call moves on while the others are idle.
LEMMA CallsMove ==
    ASSUME CInv, NEW p \in Proc, Active(p), NEW d, Goto(p, d), Shape(p, d)
    PROVE  /\ OneCall' /\ ShapeOK'
           /\ call'[p] = d
           /\ \A q \in Proc \ {p} : ~Active(q) /\ call'[q] = call[q]
<1>1. call' = [call EXCEPT ![p] = d] /\ call \in [Proc -> Call]
  BY DEF Goto, CInv, IInv, CallsOK
<1>2. call'[p] = d /\ \A q \in Proc \ {p} : call'[q] = call[q]
  BY <1>1
<1>3. \A q \in Proc \ {p} : ~Active(q)
  BY DEF CInv, OneCall
<1>4. OneCall'
  BY <1>2, <1>3 DEF OneCall, Active
<1>5. ShapeOK'
  BY <1>2 DEF CInv, ShapeOK
<1> QED  BY <1>2, <1>3, <1>4, <1>5

LEMMA IdleStage == ASSUME NEW c, c.pc = "idle" PROVE Stage(c)
BY DEF Stage, Persisting, Claiming

\* Only the call that moves has a stage to keep.
LEMMA StagesMove ==
    ASSUME CInv, NEW p \in Proc, Active(p), NEW d, Goto(p, d), Shape(p, d),
           Stage(call[p])'
    PROVE  StagesOK'
<1> SUFFICES ASSUME NEW q \in Proc PROVE Stage(call[q])'
  BY DEF StagesOK
<1>1. CASE q = p
  BY <1>1
<1>2. CASE q # p
  <2>1. call'[q].pc = "idle"
    BY <1>2, CallsMove DEF Active
  <2> QED  BY <2>1 DEF Stage, Persisting, Claiming
<1> QED  BY <1>1, <1>2

\* A runner that has a call reports on the entry it owns.
LEMMA Mine ==
    ASSUME CInv, NEW p \in Runner, Active(p)
    PROVE  LET t == call[p].task
           IN  /\ t \in Task /\ run[p].task = t /\ run[p].phase = "reporting"
               /\ call[p].op = "report"
               /\ runtime[t].cancel = p /\ runtime[t].pending = "none"
               /\ runtime[t].handle \in {None, p}
               /\ Has(t) /\ ~Finished(runtime[t].handle)
               /\ ~Applying(call[p]) => store[t].state = "Running"
               /\ \A u \in Task : runtime[u].cancel = p => u = t
<1> DEFINE t == call[p].task
<1>0. p \in Proc
  BY DEF Proc
<1>1. t \in Task
  BY <1>0, CallFacts DEF CInv, Active
<1>2. /\ run[p].phase = "reporting" /\ run[p].task = t /\ runtime[t].cancel = p
      /\ ~Applying(call[p]) => store[t].state = "Running"
  BY DEF CInv, AgentsOK
<1>3. call[p].op = "report"
  BY <1>0 DEF CInv, ShapeOK, Shape, Active
<1>4. Has(t) /\ runtime[t].pending = "none"
  <2>1. runtime[t] # NoEntry
    BY <1>2, NoEntryIs, NoneNotRunner DEF NoEntryFields
  <2>2. runtime[t] \in Entry
    BY <1>1, <2>1 DEF CInv, IInv, RuntimeOK
  <2>3. Has(t)
    BY <2>2 DEF Entry, Has
  <2>4. runtime[t].pending = "none"
    BY <1>1, <1>2, NoneNotRunner DEF CInv, EntriesOK, PendingReleases
  <2> QED  BY <2>3, <2>4
<1>5. runtime[t].handle \in {None, p}
  <2>1. runtime[t].handle \in Runner \cup {None}
    BY <1>1, NoEntryIs DEF CInv, IInv, RuntimeOK, NoEntryFields, Entry
  <2> QED  BY <1>1, <1>2, <1>4, <2>1 DEF CInv, EntriesOK, HandleOfOwner
<1>6. ~Finished(runtime[t].handle)
  BY <1>2, <1>5 DEF Finished
<1>7. \A u \in Task : runtime[u].cancel = p => u = t
  BY <1>1, <1>2 DEF CInv, EntriesOK, OneOwner
<1> QED  BY <1>1, <1>2, <1>3, <1>4, <1>5, <1>6, <1>7

\* A call moves on, its runner goes on reporting.
LEMMA AgentsMove ==
    ASSUME CInv, NEW p \in Proc, Active(p), NEW d, Goto(p, d), Shape(p, d),
           run' = run,
           p \in Runner =>
             /\ d.pc # "idle" /\ d.task = call[p].task
             /\ runtime'[d.task].cancel = p
             /\ Applying(call[p]) => Applying(d)
             /\ ~Applying(d) => store'[d.task].state = store[d.task].state
    PROVE  AgentsOK'
<1> SUFFICES ASSUME NEW r \in Runner
             PROVE  /\ run'[r].phase \in Executing => run'[r].background
                    /\ run'[r].phase = "reporting" <=> call'[r].pc # "idle"
                    /\ run'[r].phase = "reporting" =>
                         /\ call'[r].task = run'[r].task
                         /\ runtime'[run'[r].task].cancel = r
                         /\ ~Applying(call'[r]) => store'[run'[r].task].state = "Running"
  BY DEF AgentsOK, Active
<1>0. r \in Proc
  BY DEF Proc
<1>1. CASE r = p
  <2>1. call'[r] = d
    BY <1>1, CallsMove
  <2>2. /\ run[r].task = call[p].task /\ run[r].phase = "reporting"
        /\ ~Applying(call[p]) => store[call[p].task].state = "Running"
    BY <1>1, Mine
  <2> QED  BY <1>1, <2>1, <2>2 DEF Executing
<1>2. CASE r # p
  <2>1. call'[r] = call[r] /\ ~Active(r)
    BY <1>0, <1>2, CallsMove
  <2>2. /\ run[r].phase # "reporting"
        /\ run[r].phase \in Executing => run[r].background
    BY <2>1 DEF CInv, AgentsOK
  <2> QED  BY <2>1, <2>2 DEF Active
<1> QED  BY <1>1, <1>2

LEMMA Smaller ==
    ASSUME NEW S, NEW T, S \subseteq Task, T \subseteq S, Cardinality(S) <= MaxBackground
    PROVE  Cardinality(T) <= MaxBackground
<1>1. IsFiniteSet(S)
  BY FS_Subset, TrackerAssumption
<1>2. IsFiniteSet(T) /\ Cardinality(T) <= Cardinality(S)
  BY <1>1, FS_Subset
<1>3. Cardinality(S) \in Nat /\ Cardinality(T) \in Nat
  BY <1>1, <1>2, FS_CardinalityType
<1> QED  BY <1>2, <1>3, TrackerAssumption

\* The label of the call that moves is not one of those that say nothing of
\* the number of entries.
Counted(c) == c.pc \notin Claiming \cup {"idle", "scan", "handle"}

LEMMA SlotsMove ==
    ASSUME CInv, NEW p \in Proc, Active(p), NEW d, Goto(p, d), Shape(p, d),
           ReservedSlots' \subseteq ReservedSlots,
           Counted(d) => Counted(call[p]) /\ Taken' \subseteq Taken
    PROVE  SlotsOK'
<1>1. Cardinality(ReservedSlots') <= MaxBackground
  BY Smaller DEF CInv, SlotsOK, ReservedSlots
<1>2. ASSUME NEW q \in Proc, Counted(call'[q])
      PROVE  Cardinality(Taken') <= MaxBackground
  <2>1. q = p
    BY <1>2, CallsMove DEF Counted, Active
  <2>2. Counted(d)
    BY <1>2, <2>1, CallsMove
  <2>3. Cardinality(Taken) <= MaxBackground
    BY <2>2 DEF CInv, SlotsOK, Counted
  <2> QED  BY <2>2, <2>3, Smaller DEF Taken
<1> QED  BY <1>1, <1>2 DEF SlotsOK, Counted

\* A step that changes nothing but the call.
LEMMA OnlyTheCall ==
    ASSUME CInv, IInv', NEW p \in Proc, Active(p), NEW d, Goto(p, d), Shape(p, d),
           UNCHANGED <<store, runtime, run, detached>>,
           p \in Runner => /\ d.pc # "idle" /\ d.task = call[p].task
                           /\ Applying(call[p]) => Applying(d),
           Counted(d) => Counted(call[p]),
           Stage(d)
    PROVE  CInv'
<1>1. OneCall' /\ ShapeOK' /\ call'[p] = d
  BY CallsMove
<1>2. Stage(call[p])'
  BY <1>1 DEF Stage, Has
<1>3. StagesOK'
  BY <1>2, StagesMove
<1>4. AgentsOK'
  BY Mine, AgentsMove
<1>5. EntriesOK'
  <2>1. \A t \in Task : Shrunk(t)
    BY DEF Shrunk
  <2> QED  BY <2>1, EntriesShrink DEF CInv, Follows
<1>6. SlotsOK'
  <2>1. ReservedSlots' = ReservedSlots /\ Taken' = Taken
    BY DEF ReservedSlots, Taken, Finished
  <2> QED  BY <2>1, SlotsMove
<1>7. detached' = {}
  BY DEF CInv
<1> QED  BY <1>1, <1>3, <1>4, <1>5, <1>6, <1>7 DEF CInv

\* The labels that hold nothing ask nothing.
LEMMA QuietStage == ASSUME NEW c, c.pc \in Quiet \cup {"idle"} PROVE Stage(c)
BY DEF Stage, Quiet, Persisting, Claiming

\* Facts about the call that takes a step.
LEMMA Mover ==
    ASSUME CInv, NEW p \in Proc, Active(p)
    PROVE  /\ call[p] \in Call /\ Shape(p, call[p]) /\ Stage(call[p]) /\ CallOK(call[p])
           /\ call[p].task \in Task
           /\ call[p].todo \in SUBSET Task /\ call[p].fin \in SUBSET Task
BY CallFacts DEF CInv, Active, ShapeOK, StagesOK, Sound, CallOK

-----------------------------------------------------------------------------
(* The steps that change nothing but the call *)

LEMMA RetryPendingCalm ==
    ASSUME CInv, IInv', NEW p \in Proc, RetryPending(p)
    PROVE  CInv'
<1> DEFINE c == call[p]
<1>0. Active(p) /\ c.pc = "retry"
  BY DEF RetryPending, Active
<1>1. /\ c \in Call /\ Shape(p, c) /\ c.todo \in SUBSET Task
      /\ ~Applying(c) /\ Counted(c)
  BY <1>0, Mover DEF Applying, Persisting, Counted, Claiming
<1>2. PICK t \in c.todo :
        IF runtime[t].pending # "none"
        THEN Goto(p, [c EXCEPT !.pc = "pload", !.ctx = "retry", !.cur = t,
                               !.tr = runtime[t].pending])
        ELSE Goto(p, Retried([c EXCEPT !.cur = t]))
  BY DEF RetryPending
<1>3. t \in Task
  BY <1>1, <1>2
<1>4. CASE runtime[t].pending # "none"
  <2> DEFINE d == [c EXCEPT !.pc = "pload", !.ctx = "retry", !.cur = t,
                            !.tr = runtime[t].pending]
  <2>1. /\ d.pc = "pload" /\ d.ctx = "retry" /\ d.cur = t /\ d.tr = runtime[t].pending
        /\ d.op = c.op /\ d.task = c.task
    BY <1>1 DEF Call
  <2>2. Goto(p, d)
    BY <1>2, <1>4
  <2> HIDE DEF d
  <2>3. Shape(p, d)
    BY <1>0, <1>1, <2>1 DEF Shape, Applying, Persisting, Claiming
  <2>4. Stage(d)
    <3>1. Has(t)
      BY <1>3, <1>4, NoEntryIs DEF CInv, IInv, RuntimeOK, NoEntryFields, Has, Entry
    <3>2. d.tr = "Failed" => store[t].state # "Completing"
      BY <1>3, <2>1 DEF CInv, EntriesOK, FailureWaits
    <3> QED  BY <2>1, <3>1, <3>2 DEF Stage, Applying, Persisting, Claiming
  <2> HIDE DEF c
  <2>5. Counted(d) => Counted(c)
    BY <1>1
  <2> QED
    BY <1>0, <1>1, <2>1, <2>2, <2>3, <2>4, OnlyTheCall DEF RetryPending, c
<1>5. CASE runtime[t].pending = "none"
  <2> DEFINE b == [c EXCEPT !.cur = t]
             d == Retried(b)
  <2>1. /\ b \in Call /\ Onward(b, c) /\ b.pc = c.pc /\ b.ctx = c.ctx
    BY <1>1, <1>3 DEF Call, Onward
  <2>2. Goto(p, d)
    BY <1>2, <1>5
  <2> HIDE DEF b
  <2>3. Shape(p, b)
    BY <1>0, <1>1, <2>1 DEF Shape, Onward, Applying, Persisting, Claiming
  <2>4. Shape(p, d) /\ d.pc \in {"retry", "finished", "once"} /\ Onward(d, b)
    BY <1>0, <2>1, <2>3, RetriedShape
  <2> HIDE DEF d
  <2>5. d.task = c.task /\ d.pc # "idle" /\ Stage(d)
    BY <2>1, <2>4, QuietStage DEF Onward, Quiet
  <2> QED
    BY <1>0, <1>1, <2>2, <2>4, <2>5, OnlyTheCall DEF RetryPending
<1> QED  BY <1>4, <1>5

LEMMA OnceEnterCalm ==
    ASSUME CInv, IInv', NEW p \in Proc, OnceEnter(p) \/ SweepDone(p)
    PROVE  CInv'
<1> DEFINE c == call[p]
<1>0. Active(p) /\ c.pc \in {"once", "sweep"}
  BY DEF OnceEnter, SweepDone, Active
<1>1. c \in Call /\ Shape(p, c) /\ ~Applying(c) /\ Counted(c)
  BY <1>0, Mover DEF Applying, Persisting, Counted, Claiming
<1>2. CASE Goto(p, AfterRefresh(c))
  <2> DEFINE d == AfterRefresh(c)
  <2>1. /\ Shape(p, d)
        /\ d.pc \in {"reserve", "cancel", "load", "pload", "idle"}
        /\ d.pc = "pload" => d.op = "report" /\ d.ctx = "apply" /\ d.cur = c.task
        /\ p \in Runner => d.pc = "pload"
        /\ d.pc # "idle" => Onward(d, c)
    BY <1>0, <1>1, AfterRefreshShape DEF Active
  <2> HIDE DEF d
  <2>2. Stage(d)
    <3>1. CASE d.pc # "pload"
      BY <3>1, <2>1, QuietStage DEF Quiet
    <3>2. CASE d.pc = "pload"
      <4>1. p \in Runner
        BY <2>1, <3>2 DEF Shape
      <4>2. Has(c.task) /\ store[c.task].state = "Running"
        BY <4>1, <1>0, <1>1, Mine
      <4> QED  BY <2>1, <3>2, <4>2 DEF Stage, Applying, Persisting, Claiming
    <3> QED  BY <3>1, <3>2
  <2>3. p \in Runner => d.pc # "idle" /\ d.task = c.task
    BY <2>1 DEF Onward
  <2> QED  BY <1>0, <1>1, <1>2, <2>1, <2>2, <2>3, OnlyTheCall DEF OnceEnter, SweepDone, d
<1>3. CASE Goto(p, [c EXCEPT !.pc = "list"])
  <2> DEFINE d == [c EXCEPT !.pc = "list"]
  <2>1. d.pc = "list" /\ Onward(d, c) /\ d.ctx = c.ctx
    BY <1>1 DEF Call, Onward
  <2> HIDE DEF d
  <2>2. Shape(p, d)
    BY <1>0, <1>1, <2>1 DEF Shape, Onward, Applying, Persisting, Claiming
  <2>3. d.task = c.task /\ Stage(d)
    BY <2>1, QuietStage DEF Onward, Quiet
  <2> QED
    BY <1>0, <1>1, <1>3, <2>1, <2>2, <2>3, OnlyTheCall DEF OnceEnter, SweepDone, d
<1> QED  BY <1>2, <1>3 DEF OnceEnter, SweepDone

LEMMA SweepCalm ==
    ASSUME CInv, IInv', NEW p \in Proc, ListCandidates(p) \/ SweepNext(p)
    PROVE  CInv'
<1> DEFINE c == call[p]
<1>0. Active(p) /\ c.pc \in {"list", "sweep"}
  BY DEF ListCandidates, SweepNext, Active
<1>1. /\ c \in Call /\ Shape(p, c) /\ c.todo \in SUBSET Task
      /\ ~Applying(c) /\ Counted(c)
  BY <1>0, Mover DEF Applying, Persisting, Counted, Claiming
<1>2. PICK d : /\ Goto(p, d) /\ Onward(d, c)
               /\ \/ d.pc = "sweep" /\ d.ctx = c.ctx
                  \/ d.pc = "load" /\ d.ctx = "sweep"
  <2>1. CASE ListCandidates(p)
    <3>1. PICK todo \in SUBSET Task : Goto(p, [c EXCEPT !.pc = "sweep", !.todo = todo])
      BY <2>1 DEF ListCandidates
    <3>2. LET d == [c EXCEPT !.pc = "sweep", !.todo = todo]
          IN  d.pc = "sweep" /\ Onward(d, c) /\ d.ctx = c.ctx
      BY <1>1 DEF Call, Onward
    <3> QED  BY <3>1, <3>2
  <2>2. CASE SweepNext(p)
    <3>1. PICK t \in c.todo : Goto(p, [c EXCEPT !.pc = "load", !.ctx = "sweep", !.cur = t])
      BY <2>2 DEF SweepNext
    <3>2. LET d == [c EXCEPT !.pc = "load", !.ctx = "sweep", !.cur = t]
          IN  d.pc = "load" /\ Onward(d, c) /\ d.ctx = "sweep"
      BY <1>1, <3>1 DEF Call, Onward
    <3> QED  BY <3>1, <3>2
  <2> QED  BY <2>1, <2>2
<1>3. Shape(p, d)
  BY <1>0, <1>1, <1>2 DEF Shape, Onward, Applying, Persisting, Claiming
<1>4. d.task = c.task /\ d.pc # "idle" /\ Stage(d)
  BY <1>2, QuietStage DEF Onward, Quiet
<1> QED
  BY <1>0, <1>1, <1>2, <1>3, <1>4, OnlyTheCall DEF ListCandidates, SweepNext

\* A call that goes back where its reconciliation came from.
LEMMA BackCalm ==
    ASSUME CInv, IInv', NEW p \in Proc, Active(p),
           call[p].pc \in {"load", "live", "orphan", "finalize", "finalized"},
           Goto(p, Reconciled(call[p])),
           UNCHANGED <<store, runtime, run, detached>>
    PROVE  CInv'
<1> DEFINE c == call[p]
           d == Reconciled(c)
<1>1. c \in Call /\ Shape(p, c) /\ ~Applying(c) /\ Counted(c)
  BY Mover DEF Applying, Persisting, Counted, Claiming
<1>2. c.ctx \in {"finished", "sweep", "query"}
  BY <1>1 DEF Shape
<1>3. /\ Shape(p, d) /\ d.pc \in {"finished", "once", "sweep", "idle"}
      /\ p \in Runner => d.pc # "idle"
      /\ d.pc # "idle" => Onward(d, c)
  BY <1>1, <1>2, ReconciledShape DEF Active
<1>4. Goto(p, d)
  OBVIOUS
<1> HIDE DEF d
<1>5. Stage(d) /\ (p \in Runner => d.pc # "idle" /\ d.task = c.task)
  BY <1>3, QuietStage DEF Quiet, Onward
<1> QED  BY <1>1, <1>3, <1>4, <1>5, OnlyTheCall

LEMMA LoadCandidateCalm ==
    ASSUME CInv, IInv', NEW p \in Proc, LoadCandidate(p)
    PROVE  CInv'
<1> DEFINE c == call[p]
           s == store[c.cur]
<1>0. Active(p) /\ c.pc = "load"
  BY DEF LoadCandidate, Active
<1>1. c \in Call /\ Shape(p, c) /\ ~Applying(c) /\ Counted(c) /\ c.cur \in Task
  BY <1>0, Mover DEF Applying, Persisting, Counted, Claiming, CallOK
<1>2. c.ctx \in {"finished", "sweep", "query"}
  BY <1>0, <1>1 DEF Shape
<1>3. CASE Goto(p, Reconciled(c))
  BY <1>0, <1>3, BackCalm DEF LoadCandidate
<1>4. CASE Goto(p, LoadedInto(c, s)) /\ s.state \in Finalizing
  <2> DEFINE ended == [s EXCEPT !.state = TerminalFromFinalizing[s.state]]
             d == [c EXCEPT !.pc = "finalize", !.snap = ended]
  <2>0. s \in Session
    BY <1>1 DEF CInv, IInv, StoreOK
  <2>1. ended.state = TerminalFromFinalizing[s.state] /\ ended.error = s.error
    BY <2>0 DEF Session
  <2>2. LoadedInto(c, s) = d
    BY <1>4 DEF LoadedInto, Finalizing
  <2> HIDE DEF ended
  <2>3. /\ d.pc = "finalize" /\ d.snap = ended /\ d.cur = c.cur /\ d.ctx = c.ctx
        /\ Onward(d, c)
    BY <1>1 DEF Call, Onward
  <2> HIDE DEF d
  <2>4. Shape(p, d)
    BY <1>0, <1>1, <1>2, <2>3 DEF Shape, Onward, Applying, Persisting, Claiming
  <2>5. Stage(d)
    BY <1>4, <2>1, <2>3 DEF Stage, Persisting, Claiming
  <2> QED
    BY <1>0, <1>1, <1>4, <2>2, <2>3, <2>4, <2>5, OnlyTheCall DEF LoadCandidate, Onward
<1>5. CASE Goto(p, LoadedInto(c, s)) /\ s.state = "Running"
  <2> DEFINE d == [c EXCEPT !.pc = "live", !.snap = s]
  <2>2. LoadedInto(c, s) = d
    BY <1>5 DEF LoadedInto, Finalizing
  <2>3. d.pc = "live" /\ d.cur = c.cur /\ d.ctx = c.ctx /\ Onward(d, c)
    BY <1>1 DEF Call, Onward
  <2> HIDE DEF d
  <2>4. Shape(p, d)
    BY <1>0, <1>1, <1>2, <2>3 DEF Shape, Onward, Applying, Persisting, Claiming
  <2>5. Stage(d)
    BY <1>5, <2>3 DEF Stage, Persisting, Claiming
  <2> QED
    BY <1>0, <1>1, <1>5, <2>2, <2>3, <2>4, <2>5, OnlyTheCall DEF LoadCandidate, Onward
<1>6. CASE Goto(p, LoadedInto(c, s)) /\ s.state \notin Finalizing \cup {"Running"}
  <2>1. LoadedInto(c, s) = Reconciled(c)
    BY <1>6 DEF LoadedInto
  <2> QED  BY <1>3, <1>6, <2>1
<1> QED  BY <1>3, <1>4, <1>5, <1>6 DEF LoadCandidate

\* A call that failed to persist an outcome: one that came for it remembers it,
\* one that found it goes on.
LEMMA UnpersistedGives ==
    ASSUME CInv, NEW p \in Proc, Active(p),
           call[p].pc \in {"pload", "save1", "save2"}
    PROVE  LET c == call[p]
               d == Unpersisted(c)
           IN  /\ Shape(p, d) /\ d.pc # "idle" /\ Onward(d, c)
               /\ \/ /\ c.ctx = "retry" /\ d.pc \in {"retry", "finished", "once"}
                  \/ /\ c.ctx = "apply" /\ d.pc = "remember" /\ d.ctx = "apply"
                     /\ d.cur = c.cur /\ d.tr = c.tr
<1> DEFINE c == call[p]
           d == Unpersisted(c)
<1>1. c \in Call /\ Shape(p, c) /\ c.ctx \in {"apply", "retry"}
  BY Mover DEF Shape, Active, Persisting
<1>2. CASE c.ctx = "retry"
  BY <1>1, <1>2, RetriedShape DEF Unpersisted, Active
<1>3. CASE c.ctx = "apply"
  <2> DEFINE r == [c EXCEPT !.pc = "remember", !.snap = NoSession]
  <2>1. d = r
    BY <1>3 DEF Unpersisted
  <2>2. /\ r.pc = "remember" /\ Onward(r, c) /\ r.ctx = "apply"
        /\ r.cur = c.cur /\ r.tr = c.tr
    BY <1>1, <1>3 DEF Call, Onward
  <2> HIDE DEF r, d
  <2>3. Shape(p, r)
    BY <1>1, <1>3, <2>2 DEF Shape, Onward, Applying, Persisting, Claiming
  <2> QED  BY <1>3, <2>1, <2>2, <2>3 DEF d
<1> QED  BY <1>1, <1>2, <1>3

\* Nothing was saved: the call is where a failed save or load leaves it.
LEMMA UnpersistedCalm ==
    ASSUME CInv, IInv', NEW p \in Proc, Active(p),
           call[p].pc \in {"pload", "save1", "save2"},
           Goto(p, Unpersisted(call[p])),
           UNCHANGED <<store, runtime, run, detached>>
    PROVE  CInv'
<1> DEFINE c == call[p]
           d == Unpersisted(c)
<1>1. /\ Shape(p, d) /\ d.pc # "idle" /\ Onward(d, c)
      /\ \/ /\ c.ctx = "retry" /\ d.pc \in {"retry", "finished", "once"}
         \/ /\ c.ctx = "apply" /\ d.pc = "remember" /\ d.ctx = "apply"
            /\ d.cur = c.cur /\ d.tr = c.tr
  BY UnpersistedGives
<1>2. Stage(c)
  BY Mover
<1>3. Goto(p, d)
  OBVIOUS
<1> HIDE DEF d
<1>4. Stage(d)
  <2>1. CASE d.pc \in {"retry", "finished", "once"}
    BY <2>1, QuietStage DEF Quiet
  <2>2. CASE d.pc = "remember"
    BY <1>1, <1>2, <2>2 DEF Stage, Applying, Persisting, Claiming, Onward
  <2> QED  BY <1>1, <2>1, <2>2
<1>5. Counted(c) /\ (Applying(c) => Applying(d)) /\ d.task = c.task
  BY <1>1 DEF Counted, Claiming, Applying, Persisting, Onward
<1> QED  BY <1>1, <1>3, <1>4, <1>5, OnlyTheCall

LEMMA PersistLoadCalm ==
    ASSUME CInv, IInv', NEW p \in Proc, PersistLoad(p)
    PROVE  CInv'
<1> DEFINE c == call[p]
           s == store[c.cur]
<1>0. Active(p) /\ c.pc = "pload"
  BY DEF PersistLoad, Active
<1>1. /\ c \in Call /\ Shape(p, c) /\ Stage(c) /\ Counted(c)
      /\ c.cur \in Task /\ c.tr \in Terminal
  BY <1>0, Mover DEF Counted, Claiming, CallOK
<1>2. CASE Goto(p, Unpersisted(c))
  BY <1>0, <1>2, UnpersistedCalm DEF PersistLoad
<1>3. ASSUME NEW pc \in {"clear", "save1", "save2"}, NEW snap,
             Goto(p, [c EXCEPT !.pc = pc, !.snap = snap]),
             pc = "save1" => /\ CanTransitionTo(s.state, FinalizingPhase[c.tr])
                             /\ snap = Intent(c.tr),
             pc = "save2" => s.state = FinalizingPhase[c.tr] /\ snap = Outcome(c.tr)
      PROVE  CInv'
  <2> DEFINE d == [c EXCEPT !.pc = pc, !.snap = snap]
  <2>1. /\ d.pc = pc /\ d.snap = snap /\ d.cur = c.cur /\ d.tr = c.tr /\ d.ctx = c.ctx
        /\ Onward(d, c)
    BY <1>1 DEF Call, Onward
  <2>2. Goto(p, d)
    BY <1>3
  <2> HIDE DEF d
  <2>3. Shape(p, d)
    BY <1>0, <1>1, <2>1 DEF Shape, Onward, Applying, Persisting, Claiming
  <2>4. Stage(d)
    BY <1>0, <1>1, <1>3, <2>1 DEF Stage, Applying, Persisting, Claiming, Onward
  <2>5. d.pc # "idle" /\ d.task = c.task /\ (Applying(c) => Applying(d))
    BY <2>1 DEF Onward, Applying, Persisting
  <2> QED
    BY <1>0, <1>1, <2>2, <2>3, <2>4, <2>5, OnlyTheCall DEF PersistLoad
<1>4. CASE Goto(p, PersistStep(c, s))
  <2>1. CASE s.state = c.tr
    <3>1. s.state # FinalizingPhase[c.tr] /\ s.state \in Terminal
      BY <1>1, <2>1 DEF Terminal, FinalizingPhase
    <3>2. Transition(s.state, FinalizingPhase[c.tr]) = "Illegal"
      BY <3>1 DEF Transition, CanTransitionTo
    <3>3. PersistStep(c, s) = [c EXCEPT !.pc = "clear", !.snap = NoSession]
      BY <2>1, <3>1, <3>2 DEF PersistStep, Persisted
    <3> QED  BY <1>3, <1>4, <3>3
  <2>2. CASE s.state # c.tr /\ s.state = FinalizingPhase[c.tr]
    <3>1. Transition(s.state, FinalizingPhase[c.tr]) = "Illegal"
      BY <2>2 DEF Transition, CanTransitionTo
    <3>2. PersistStep(c, s) = [c EXCEPT !.pc = "save2", !.snap = Outcome(c.tr)]
      BY <2>2, <3>1 DEF PersistStep
    <3> QED  BY <1>3, <1>4, <2>2, <3>2
  <2>3. CASE /\ s.state \notin {c.tr, FinalizingPhase[c.tr], "Absent"}
             /\ Transition(s.state, FinalizingPhase[c.tr]) # "Illegal"
    <3>1. CanTransitionTo(s.state, FinalizingPhase[c.tr])
      BY <2>3 DEF Transition
    <3>2. PersistStep(c, s) = [c EXCEPT !.pc = "save1", !.snap = Intent(c.tr)]
      BY <2>3 DEF PersistStep
    <3> QED  BY <1>3, <1>4, <3>1, <3>2
  <2>4. CASE /\ s.state \notin {c.tr, FinalizingPhase[c.tr]}
             /\ \/ s.state = "Absent"
                \/ Transition(s.state, FinalizingPhase[c.tr]) = "Illegal"
    <3>1. PersistStep(c, s) = Unpersisted(c)
      BY <2>4 DEF PersistStep
    <3> QED  BY <1>2, <1>4, <3>1
  <2> QED  BY <2>1, <2>2, <2>3, <2>4
<1> QED  BY <1>0, <1>2, <1>4 DEF PersistLoad

LEMMA RegisterLoadCalm ==
    ASSUME CInv, IInv', NEW p \in Proc, RegisterLoad(p)
    PROVE  CInv'
<1> DEFINE c == call[p]
           state == store[c.task].state
<1>0. Active(p) /\ c.pc = "rload"
  BY DEF RegisterLoad, Active
<1>1. c \in Call /\ Shape(p, c) /\ Stage(c) /\ c.task \in Task /\ p \notin Runner
  BY <1>0, Mover DEF Shape, Claiming
<1>2. CASE Goto(p, [c EXCEPT !.pc = "unregister"])
  <2> DEFINE d == [c EXCEPT !.pc = "unregister"]
  <2>1. d.pc = "unregister" /\ d.ctx = c.ctx /\ Onward(d, c)
    BY <1>1 DEF Call, Onward
  <2> HIDE DEF d
  <2>2. Shape(p, d) /\ Stage(d) /\ ~Counted(d)
    BY <1>0, <1>1, <2>1
       DEF Shape, Stage, Onward, Applying, Persisting, Claiming, Counted
  <2> QED  BY <1>0, <1>1, <1>2, <2>2, OnlyTheCall DEF RegisterLoad, d
<1>3. CASE /\ state \notin Finalizing
           /\ Goto(p, [c EXCEPT !.pc = "rsave",
                        !.snap = [state |-> Registered(state), error |-> "none"]])
  <2> DEFINE snap == [state |-> Registered(state), error |-> "none"]
             d == [c EXCEPT !.pc = "rsave", !.snap = snap]
  <2>1. d.pc = "rsave" /\ d.ctx = c.ctx /\ d.snap = snap /\ Onward(d, c)
    BY <1>1 DEF Call, Onward
  <2>2. Registered(state) = "Running"
    <3>1. state \in SessionState \cup {"Absent"}
      BY <1>1 DEF CInv, IInv, StoreOK, Session
    <3> QED  BY <1>3, <3>1 DEF Registered, SessionState, Finalizing, Terminal, Transition,
                                CanTransitionTo, ResetForResume, ForwardMoves
  <2> HIDE DEF d
  <2>3. Shape(p, d) /\ Stage(d) /\ ~Counted(d)
    BY <1>0, <1>1, <1>3, <2>1, <2>2
       DEF Shape, Stage, Onward, Applying, Persisting, Claiming, Counted
  <2> QED  BY <1>0, <1>1, <1>3, <2>3, OnlyTheCall DEF RegisterLoad, d
<1> QED  BY <1>2, <1>3 DEF RegisterLoad

-----------------------------------------------------------------------------
(* The steps that change the entries *)

LEMMA OnlyTheEntries ==
    ASSUME CInv, IInv', NEW p \in Proc, Active(p), NEW d, Goto(p, d), Shape(p, d),
           UNCHANGED <<store, run, detached>>,
           \A t \in Task : Shrunk(t),
           p \in Runner => /\ d.pc # "idle" /\ d.task = call[p].task
                           /\ runtime'[d.task].cancel = p
                           /\ Applying(call[p]) => Applying(d),
           SlotsOK', Stage(call[p])'
    PROVE  CInv'
<1>1. OneCall' /\ ShapeOK'
  BY CallsMove
<1>2. StagesOK'
  BY StagesMove
<1>3. AgentsOK'
  BY AgentsMove
<1>4. EntriesOK'
  BY EntriesShrink DEF CInv, Follows
<1>5. detached' = {}
  BY DEF CInv
<1> QED  BY <1>1, <1>2, <1>3, <1>4, <1>5 DEF CInv

\* A handle that has finished: its runner owns the entry and is over, or
\* nobody owns the entry and an outcome waits.
LEMMA FinishedEntry ==
    ASSUME CInv, NEW t \in Task, Has(t), Finished(runtime[t].handle)
    PROVE  /\ runtime[t].cancel \in {None, runtime[t].handle}
           /\ runtime[t].pending = "none" => runtime[t].cancel = runtime[t].handle
           /\ \A p \in Runner : Active(p) => t # call[p].task
<1>1. runtime[t].handle \in Runner /\ run[runtime[t].handle].phase = "over"
  <2>1. runtime[t] \in Entry
    BY HasEntry DEF CInv, IInv
  <2> QED  BY <2>1 DEF Finished, Entry
<1>2. runtime[t].cancel # runtime[t].handle => runtime[t].pending # "none"
  BY <1>1 DEF CInv, EntriesOK, HandleOfOwner
<1>3. runtime[t].pending # "none" => runtime[t].cancel = None
  BY DEF CInv, EntriesOK, PendingReleases
<1>4. ASSUME NEW p \in Runner, Active(p) PROVE t # call[p].task
  BY <1>4, Mine
<1> QED  BY <1>2, <1>3, <1>4

LEMMA ScanCalm ==
    ASSUME CInv, IInv', NEW p \in Proc, Scan(p)
    PROVE  CInv'
<1> DEFINE c == call[p]
           finished == {t \in Task : Has(t) /\ Finished(runtime[t].handle)}
           taken == [t \in Task |->
                       IF t \in finished
                       THEN [runtime[t] EXCEPT !.handle = None, !.cancel = None]
                       ELSE runtime[t]]
           settled == {t \in Task : taken[t].pending = "none"}
           retry == {t \in Task \ settled : taken[t].handle = None}
           b == [c EXCEPT !.todo = retry, !.fin = finished]
           d == AtRetry(b)
<1>0. Active(p) /\ c.pc = "scan"
  BY DEF Scan, Active
<1>1. c \in Call /\ Shape(p, c) /\ ~Applying(c)
  BY <1>0, Mover DEF Applying, Persisting
<1>2. runtime' = [t \in Task |-> IF t \in finished \cap settled THEN NoEntry ELSE taken[t]]
  BY DEF Scan
<1>3. Goto(p, d)
  BY DEF Scan
<1>4. b \in Call /\ Onward(b, c) /\ b.pc = c.pc /\ b.ctx = c.ctx
  <2>1. retry \in SUBSET Task /\ finished \in SUBSET Task
    OBVIOUS
  <2> HIDE DEF retry, finished
  <2> QED  BY <1>1, <2>1 DEF Call, Onward
<1> HIDE DEF b
<1>5. d.pc \in {"retry", "finished", "once"} /\ Onward(d, b) /\ d.ctx = b.ctx
  BY <1>4, AtRetryGives
<1> HIDE DEF d
<1>6. Shape(p, d)
  BY <1>0, <1>1, <1>4, <1>5 DEF Shape, Onward, Applying, Persisting, Claiming
<1>7. ASSUME NEW t \in finished
      PROVE  /\ taken[t].handle = None /\ taken[t].cancel = None
             /\ taken[t].pending = runtime[t].pending
             /\ taken[t].slot = runtime[t].slot
  <2>1. runtime[t] \in Entry
    BY HasEntry DEF CInv, IInv
  <2> QED  BY <2>1 DEF Entry
<1>8. \A t \in Task \ finished : runtime'[t] = runtime[t]
  BY <1>2
<1>9. ASSUME NEW t \in finished
      PROVE  \/ runtime'[t] = NoEntry
             \/ runtime'[t] = taken[t] /\ runtime[t].pending # "none"
  BY <1>2, <1>7
<1> HIDE DEF taken
<1>10. \A t \in Task : Shrunk(t)
  BY <1>7, <1>8, <1>9 DEF Shrunk
<1>11. Taken' \subseteq ReservedSlots /\ ReservedSlots' \subseteq ReservedSlots
  <2>1. ASSUME NEW t \in Task, runtime'[t].slot = "background", runtime'[t].pending = "none"
        PROVE  t \in ReservedSlots
    <3>1. t \notin finished
      BY <2>1, <1>7, <1>9, NoEntryIs DEF NoEntryFields
    <3>2. runtime'[t] = runtime[t] /\ Has(t)
      BY <2>1, <3>1, <1>8 DEF Has
    <3> QED  BY <2>1, <3>1, <3>2 DEF ReservedSlots, finished
  <2> QED  BY <2>1 DEF Taken, ReservedSlots
<1>12. SlotsOK'
  <2>1. Cardinality(ReservedSlots) <= MaxBackground
    BY DEF CInv, SlotsOK
  <2>2. Cardinality(Taken') <= MaxBackground /\ Cardinality(ReservedSlots') <= MaxBackground
    BY <1>11, <2>1, Smaller DEF ReservedSlots
  <2> QED  BY <2>2 DEF SlotsOK
<1>13. Stage(call[p])'
  <2>1. call'[p] = d
    BY <1>0, <1>3, <1>6, CallsMove
  <2> QED  BY <1>5, <2>1 DEF Stage, Persisting, Claiming
<1>14. ASSUME p \in Runner
       PROVE  runtime'[c.task].cancel = p
  <2>1. c.task \in Task /\ c.task \notin finished /\ runtime[c.task].cancel = p
    BY <1>0, <1>14, Mine
  <2> QED  BY <1>8, <2>1
<1> QED
  BY <1>0, <1>1, <1>3, <1>4, <1>5, <1>6, <1>10, <1>12, <1>13, <1>14, OnlyTheEntries
     DEF Scan, Onward

\* runtime_is_live takes a finished handle and drops an entry without one.
LEMMA ProbedEntries ==
    ASSUME CInv, NEW t \in Task, runtime' = Probed(t), run' = run
    PROVE  /\ \A u \in Task : Shrunk(u)
           /\ \A u \in Task \ {t} : runtime'[u] = runtime[u]
           /\ \A p \in Runner : Active(p) => runtime'[call[p].task] = runtime[call[p].task]
           /\ ~Live(t) => runtime'[t] = NoEntry
           /\ Taken' \subseteq Taken /\ ReservedSlots' \subseteq ReservedSlots
<1>0. runtime \in [Task -> Entry \cup {NoEntry}]
  BY DEF CInv, IInv, RuntimeOK
<1>1. CASE ~Has(t) \/ ~Finished(runtime[t].handle)
  <2>1. runtime' = runtime
    BY <1>1 DEF Probed
  <2>2. ~Live(t) => runtime[t] = NoEntry
    <3>1. ~Live(t) => ~Has(t)
      BY <1>1 DEF Live
    <3>2. ~Has(t) => runtime[t] = NoEntry
      BY <1>0 DEF Has, Entry
    <3> QED  BY <3>1, <3>2
  <2> QED  BY <2>1, <2>2 DEF Shrunk, Taken, ReservedSlots, Finished
<1>2. CASE Has(t) /\ Finished(runtime[t].handle) /\ runtime[t].pending = "none"
  <2>1. runtime' = [runtime EXCEPT ![t] = NoEntry]
    BY <1>2 DEF Probed
  <2>2. runtime'[t] = NoEntry /\ \A u \in Task \ {t} : runtime'[u] = runtime[u]
    BY <1>0, <2>1
  <2>3. \A p \in Runner : Active(p) => call[p].task \in Task /\ call[p].task # t
    BY <1>2, FinishedEntry, Mine
  <2> QED
    BY <2>2, <2>3, NoEntryIs DEF Shrunk, Taken, ReservedSlots, Finished, NoEntryFields
<1>3. CASE Has(t) /\ Finished(runtime[t].handle) /\ runtime[t].pending # "none"
  <2> DEFINE e == [runtime[t] EXCEPT !.handle = None, !.cancel = None]
  <2>0. runtime[t] \in Entry
    BY <1>3, HasEntry DEF CInv, IInv
  <2>1. runtime' = [runtime EXCEPT ![t] = e]
    BY <1>0, <1>3 DEF Probed
  <2>2. /\ e.handle = None /\ e.cancel = None
        /\ e.pending = runtime[t].pending /\ e.slot = runtime[t].slot
    BY <2>0 DEF Entry
  <2> HIDE DEF e
  <2>3. runtime'[t] = e /\ \A u \in Task \ {t} : runtime'[u] = runtime[u]
    BY <1>0, <2>1
  <2>4. \A p \in Runner : Active(p) => call[p].task \in Task /\ call[p].task # t
    BY <1>3, FinishedEntry, Mine
  <2>5. Live(t)
    BY <1>3 DEF Live
  <2>6. Taken' \subseteq Taken /\ ReservedSlots' \subseteq ReservedSlots
    BY <1>3, <2>2, <2>3 DEF Taken, ReservedSlots, Finished
  <2> QED  BY <2>2, <2>3, <2>4, <2>5, <2>6 DEF Shrunk
<1> QED  BY <1>1, <1>2, <1>3

LEMMA FinishedNextCalm ==
    ASSUME CInv, IInv', NEW p \in Proc, FinishedNext(p)
    PROVE  CInv'
<1> DEFINE c == call[p]
<1>0. Active(p) /\ c.pc = "finished"
  BY DEF FinishedNext, Active
<1>1. /\ c \in Call /\ Shape(p, c) /\ c.fin \in SUBSET Task
      /\ ~Applying(c) /\ Counted(c)
  BY <1>0, Mover DEF Applying, Persisting, Counted, Claiming
<1>2. PICK t \in c.fin :
        /\ runtime' = Probed(t)
        /\ IF Live(t)
           THEN Goto(p, AtFinished([c EXCEPT !.fin = @ \ {t}]))
           ELSE Goto(p, [c EXCEPT !.pc = "load", !.ctx = "finished", !.cur = t])
  BY DEF FinishedNext
<1>3. PICK d : /\ Goto(p, d) /\ Onward(d, c)
               /\ \/ d.pc \in {"finished", "once"} /\ d.ctx = c.ctx
                  \/ d.pc = "load" /\ d.ctx = "finished"
  <2>1. CASE Live(t)
    <3> DEFINE b == [c EXCEPT !.fin = @ \ {t}]
               d == AtFinished(b)
    <3>1. b \in Call /\ Onward(b, c) /\ b.ctx = c.ctx
      BY <1>1 DEF Call, Onward
    <3>2. Goto(p, d)
      BY <1>2, <2>1
    <3> HIDE DEF b
    <3>3. d.pc \in {"finished", "once"} /\ Onward(d, b) /\ d.ctx = b.ctx
      BY <3>1, AtRetryGives
    <3> HIDE DEF d
    <3>4. Onward(d, c) /\ d.ctx = c.ctx
      BY <3>1, <3>3 DEF Onward
    <3> QED  BY <3>2, <3>3, <3>4
  <2>2. CASE ~Live(t)
    <3>1. LET d == [c EXCEPT !.pc = "load", !.ctx = "finished", !.cur = t]
          IN  d.pc = "load" /\ Onward(d, c) /\ d.ctx = "finished"
      BY <1>1 DEF Call, Onward
    <3> QED  BY <1>2, <2>2, <3>1
  <2> QED  BY <2>1, <2>2
<1>4. Shape(p, d)
  BY <1>0, <1>1, <1>3 DEF Shape, Onward, Applying, Persisting, Claiming
<1>5. /\ \A u \in Task : Shrunk(u)
      /\ \A q \in Runner : Active(q) => runtime'[call[q].task] = runtime[call[q].task]
      /\ Taken' \subseteq Taken /\ ReservedSlots' \subseteq ReservedSlots
  <2>1. t \in Task /\ run' = run
    BY <1>1, <1>2 DEF FinishedNext
  <2> QED  BY <1>2, <2>1, ProbedEntries
<1>6. Stage(call[p])'
  <2>1. call'[p] = d
    BY <1>0, <1>3, <1>4, CallsMove
  <2> QED  BY <1>3, <2>1 DEF Stage, Persisting, Claiming
<1>7. SlotsOK'
  BY <1>0, <1>1, <1>3, <1>4, <1>5, SlotsMove
<1>8. p \in Runner => d.task = c.task /\ runtime'[d.task].cancel = p
  BY <1>0, <1>3, <1>5, Mine DEF Onward
<1> QED
  BY <1>0, <1>1, <1>3, <1>4, <1>5, <1>6, <1>7, <1>8, OnlyTheEntries DEF FinishedNext

LEMMA ProbeOrphanCalm ==
    ASSUME CInv, IInv', NEW p \in Proc, ProbeOrphan(p)
    PROVE  CInv'
<1> DEFINE c == call[p]
           failed == [state |-> Finalize(c.snap.state, "Failed"),
                      error |-> IF c.snap.error = "none" THEN "orphan" ELSE c.snap.error]
<1>0. Active(p) /\ c.pc = "live" /\ runtime' = Probed(c.cur) /\ run' = run
  BY DEF ProbeOrphan, Active
<1>1. /\ c \in Call /\ Shape(p, c) /\ Stage(c) /\ CallOK(c)
      /\ ~Applying(c) /\ Counted(c)
  BY <1>0, Mover DEF Applying, Persisting, Counted, Claiming
<1>2. /\ c.cur \in Task /\ c.snap.state = "Running"
      /\ store[c.cur].state = "Running" /\ c.ctx \in {"finished", "sweep", "query"}
  BY <1>0, <1>1 DEF CallOK, Stage, Shape
<1>3. /\ \A u \in Task : Shrunk(u)
      /\ \A q \in Runner : Active(q) => runtime'[call[q].task] = runtime[call[q].task]
      /\ ~Live(c.cur) => runtime'[c.cur] = NoEntry
      /\ Taken' \subseteq Taken /\ ReservedSlots' \subseteq ReservedSlots
  <2> HIDE DEF c
  <2> QED  BY <1>0, <1>2, ProbedEntries
<1>4. PICK d : /\ Goto(p, d) /\ Shape(p, d)
               /\ d.pc # "idle" => Onward(d, c)
               /\ p \in Runner => d.pc # "idle"
               /\ \/ d.pc \in {"finished", "once", "sweep", "idle"}
                  \/ /\ d.pc = "orphan" /\ d.cur = c.cur /\ d.snap.state = "Failed"
                     /\ ~Live(c.cur)
  <2>1. CASE Live(c.cur)
    <3>1. Goto(p, Reconciled(c))
      BY <2>1 DEF ProbeOrphan
    <3> QED  BY <1>0, <1>1, <1>2, <3>1, ReconciledShape DEF Active
  <2>2. CASE ~Live(c.cur)
    <3> DEFINE d == [c EXCEPT !.pc = "orphan", !.snap = failed]
    <3>1. Goto(p, d)
      BY <2>2 DEF ProbeOrphan
    <3>2. d.pc = "orphan" /\ d.cur = c.cur /\ d.snap = failed /\ d.ctx = c.ctx /\ Onward(d, c)
      BY <1>1 DEF Call, Onward
    <3>3. failed.state = "Failed"
      BY <1>2 DEF Finalize, Finalizing, Transition, CanTransitionTo, FinalizingPhase, Terminal,
                  ForwardMoves
    <3> HIDE DEF d, failed
    <3>4. Shape(p, d)
      BY <1>0, <1>1, <1>2, <3>2 DEF Shape, Onward, Applying, Persisting, Claiming
    <3> QED  BY <2>2, <3>1, <3>2, <3>3, <3>4
  <2> QED  BY <2>1, <2>2
<1>5. Stage(call[p])'
  <2>1. call'[p] = d /\ store' = store
    BY <1>0, <1>4, CallsMove DEF ProbeOrphan
  <2> QED  BY <1>2, <1>3, <1>4, <2>1 DEF Stage, Persisting, Claiming
<1>6. SlotsOK'
  BY <1>0, <1>1, <1>3, <1>4, SlotsMove
<1>7. p \in Runner => d.task = c.task /\ runtime'[d.task].cancel = p
  BY <1>0, <1>3, <1>4, Mine DEF Onward
<1> QED
  BY <1>0, <1>1, <1>3, <1>4, <1>5, <1>6, <1>7, OnlyTheEntries DEF ProbeOrphan

\* clear_runtime_entry
LEMMA Cleared ==
    ASSUME CInv, NEW t \in Task, runtime' = [runtime EXCEPT ![t] = NoEntry]
    PROVE  /\ runtime'[t] = NoEntry /\ \A u \in Task \ {t} : runtime'[u] = runtime[u]
           /\ \A u \in Task : Shrunk(u)
           /\ Taken' \subseteq Taken
           /\ run' = run => ReservedSlots' \subseteq ReservedSlots
<1>0. runtime \in [Task -> Entry \cup {NoEntry}]
  BY DEF CInv, IInv, RuntimeOK
<1>1. runtime'[t] = NoEntry /\ \A u \in Task \ {t} : runtime'[u] = runtime[u]
  BY <1>0
<1> QED  BY <1>1, NoEntryIs DEF Shrunk, Taken, ReservedSlots, Finished, NoEntryFields

LEMMA ClearFinalizedCalm ==
    ASSUME CInv, IInv', NEW p \in Proc, ClearFinalized(p)
    PROVE  CInv'
<1> DEFINE c == call[p]
           d == Reconciled(c)
<1>0. /\ Active(p) /\ c.pc = "finalized" /\ Goto(p, d)
      /\ runtime' = [runtime EXCEPT ![c.cur] = NoEntry]
      /\ UNCHANGED <<store, run, detached>>
  BY DEF ClearFinalized, Active
<1>1. /\ c \in Call /\ Shape(p, c) /\ Stage(c) /\ CallOK(c)
      /\ ~Applying(c) /\ Counted(c)
  BY <1>0, Mover DEF Applying, Persisting, Counted, Claiming
<1>2. /\ c.cur \in Task /\ store[c.cur].state \in Terminal
      /\ c.ctx \in {"finished", "sweep", "query"}
  BY <1>0, <1>1 DEF CallOK, Stage, Shape
<1>3. /\ Shape(p, d) /\ d.pc \in {"finished", "once", "sweep", "idle"}
      /\ p \in Runner => d.pc # "idle"
      /\ d.pc # "idle" => Onward(d, c)
  BY <1>0, <1>1, <1>2, ReconciledShape DEF Active
<1> HIDE DEF d
<1>4. /\ \A u \in Task : Shrunk(u)
      /\ \A u \in Task \ {c.cur} : runtime'[u] = runtime[u]
      /\ Taken' \subseteq Taken /\ ReservedSlots' \subseteq ReservedSlots
  <2> HIDE DEF c
  <2> QED  BY <1>0, <1>2, Cleared
<1>5. p \in Runner => d.task = c.task /\ runtime'[d.task].cancel = p
  <2> SUFFICES ASSUME p \in Runner PROVE d.task = c.task /\ runtime'[d.task].cancel = p
    OBVIOUS
  <2>1. c.task \in Task /\ runtime[c.task].cancel = p /\ store[c.task].state = "Running"
    BY <1>0, <1>1, Mine
  <2>2. c.task # c.cur
    BY <1>2, <2>1 DEF Terminal
  <2> QED  BY <1>3, <1>4, <2>1, <2>2 DEF Onward
<1>6. Stage(call[p])'
  <2>1. call'[p] = d
    BY <1>0, <1>3, CallsMove
  <2> QED  BY <1>3, <2>1 DEF Stage, Persisting, Claiming
<1>7. SlotsOK'
  BY <1>0, <1>1, <1>3, <1>4, SlotsMove
<1> QED
  BY <1>0, <1>1, <1>3, <1>4, <1>5, <1>6, <1>7, OnlyTheEntries

LEMMA UnregisterCalm ==
    ASSUME CInv, IInv', NEW p \in Proc, Unregister(p)
    PROVE  CInv'
<1> DEFINE c == call[p]
<1>0. /\ Active(p) /\ c.pc = "unregister" /\ Goto(p, Idle)
      /\ runtime' = [runtime EXCEPT ![c.task] = NoEntry]
      /\ UNCHANGED <<store, run, detached>>
  BY DEF Unregister, Active
<1>1. /\ Shape(p, c) /\ c.task \in Task /\ p \notin Runner
  BY <1>0, Mover DEF Shape, Claiming
<1>2. Shape(p, Idle) /\ Idle.pc = "idle" /\ ~Counted(Idle)
  BY IdleGives DEF Shape, Counted
<1>3. /\ \A u \in Task : Shrunk(u)
      /\ ReservedSlots' \subseteq ReservedSlots
  <2> HIDE DEF c
  <2> QED  BY <1>0, <1>1, Cleared
<1>4. Stage(call[p])'
  <2>1. call'[p] = Idle
    BY <1>0, <1>2, CallsMove
  <2> QED  BY <1>2, <2>1 DEF Stage, Persisting, Claiming
<1>5. SlotsOK'
  BY <1>0, <1>2, <1>3, SlotsMove
<1> QED
  BY <1>0, <1>1, <1>2, <1>3, <1>4, <1>5, OnlyTheEntries

\* The entry of a task that had none goes to a runner nothing refers to.
LEMMA ReserveCalm ==
    ASSUME CInv, IInv', NEW p \in Proc, Reserve(p)
    PROVE  CInv'
<1> DEFINE c == call[p]
           t == c.task
<1>0. Active(p) /\ c.pc = "reserve" /\ UNCHANGED <<store, run, detached>>
  BY DEF Reserve, Active
<1>1. /\ c \in Call /\ Shape(p, c) /\ t \in Task /\ p \notin Runner
      /\ c.op = "background" /\ c.ctx \in Context
  BY <1>0, Mover DEF Shape, Call
<1>2. Shape(p, Idle) /\ Idle.pc = "idle" /\ ~Counted(Idle) /\ Stage(Idle)
  BY IdleGives, IdleStage DEF Shape, Counted
<1>3. CASE Goto(p, Idle) /\ UNCHANGED runtime
  BY <1>0, <1>1, <1>2, <1>3, OnlyTheCall
<1>4. CASE /\ ~Has(t) /\ Cardinality(ReservedSlots) < MaxBackground
           /\ \E r \in Runner :
                  /\ Free(r)
                  /\ runtime' = [runtime EXCEPT ![t] =
                       [NoEntry EXCEPT !.cancel = r, !.slot = c.op]]
                  /\ Goto(p, [c EXCEPT !.pc = "rload", !.runner = r])
  <2>1. PICK r \in Runner :
                  /\ Free(r)
                  /\ runtime' = [runtime EXCEPT ![t] =
                       [NoEntry EXCEPT !.cancel = r, !.slot = c.op]]
                  /\ Goto(p, [c EXCEPT !.pc = "rload", !.runner = r])
    BY <1>4
  <2> DEFINE e == [NoEntry EXCEPT !.cancel = r, !.slot = c.op]
             d == [c EXCEPT !.pc = "rload", !.runner = r]
  <2>2. e.cancel = r /\ e.slot = "background" /\ e.handle = None /\ e.pending = "none"
    BY <1>1 DEF NoEntry
  <2>3. /\ d.pc = "rload" /\ d.runner = r /\ d.op = c.op /\ d.task = t /\ d.ctx = c.ctx
    BY <1>1 DEF Call
  <2>4. Goto(p, d) /\ runtime' = [runtime EXCEPT ![t] = e]
    BY <2>1
  <2> HIDE DEF e, d
  <2>5. runtime'[t] = e /\ \A u \in Task \ {t} : runtime'[u] = runtime[u]
    BY <1>1, <2>4 DEF CInv, IInv, RuntimeOK
  <2>6. /\ run[r].phase = "over"
        /\ \A u \in Task : runtime[u].handle # r /\ runtime[u].cancel # r
    BY <2>1 DEF Free
  <2>7. Shape(p, d) /\ ~Counted(d)
    BY <1>0, <1>1, <2>3 DEF Shape, Applying, Persisting, Claiming, Counted
  <2>8. OneCall' /\ ShapeOK' /\ call'[p] = d
    BY <1>0, <2>4, <2>7, CallsMove
  <2>9. StagesOK'
    <3>1. Stage(call[p])'
      BY <1>0, <2>2, <2>3, <2>5, <2>6, <2>8 DEF Stage, Persisting, Claiming
    <3> QED  BY <1>0, <2>4, <2>7, <3>1, StagesMove
  <2>10. AgentsOK'
    BY <1>0, <1>1, <2>4, <2>7, AgentsMove
  <2>11. EntriesOK'
    <3>1. NoForeground' /\ PendingReleases' /\ FailureWaits'
      BY <1>0, <2>2, <2>5
         DEF CInv, EntriesOK, NoForeground, PendingReleases, FailureWaits
    <3>2. OneOwner' /\ HandleOfOwner'
      <4>1. \A u \in Task, q \in Runner :
              runtime'[u].cancel = q => (u = t /\ q = r) \/ (u # t /\ q # r)
        BY <2>2, <2>5, <2>6
      <4>2. \A u \in Task, q \in Runner :
              runtime'[u].handle = q => u # t /\ q # r
        BY <2>2, <2>5, <2>6, NoneNotRunner
      <4> QED  BY <1>0, <2>5, <4>1, <4>2 DEF CInv, EntriesOK, OneOwner, HandleOfOwner
    <3>3. OwnerWorks' /\ OwnerRuns'
      BY <1>0, <2>2, <2>5, <2>6 DEF CInv, EntriesOK, OwnerWorks, OwnerRuns, Executing
    <3> QED  BY <3>1, <3>2, <3>3 DEF EntriesOK
  <2>12. SlotsOK'
    <3>1. ReservedSlots' \subseteq ReservedSlots \cup {t}
      BY <1>0, <2>5 DEF ReservedSlots, Finished
    <3>2. IsFiniteSet(ReservedSlots)
      BY FS_Subset, TrackerAssumption DEF ReservedSlots
    <3>3. IsFiniteSet(ReservedSlots \cup {t})
      BY <3>2, FS_AddElement
    <3>4. \/ Cardinality(ReservedSlots \cup {t}) = Cardinality(ReservedSlots)
          \/ Cardinality(ReservedSlots \cup {t}) = Cardinality(ReservedSlots) + 1
      BY <3>2, FS_AddElement
    <3>5. Cardinality(ReservedSlots) \in Nat
      BY <3>2, FS_CardinalityType
    <3>6. Cardinality(ReservedSlots \cup {t}) <= MaxBackground
      BY <1>4, <3>4, <3>5, TrackerAssumption
    <3>7. ReservedSlots \cup {t} \subseteq Task
      BY <1>1 DEF ReservedSlots
    <3>8. Cardinality(ReservedSlots') <= MaxBackground
      <4> DEFINE S == ReservedSlots \cup {t}
                 T == ReservedSlots'
      <4>1. S \subseteq Task /\ T \subseteq S /\ Cardinality(S) <= MaxBackground
        BY <3>1, <3>6, <3>7
      <4> HIDE DEF S, T
      <4>2. Cardinality(T) <= MaxBackground
        BY <4>1, Smaller
      <4> QED  BY <4>2 DEF T
    <3>9. ASSUME NEW q \in Proc PROVE ~Counted(call'[q])
      <4>1. CASE q = p
        BY <2>7, <2>8, <4>1
      <4>2. CASE q # p
        BY <1>0, <2>4, <2>7, <4>2, CallsMove DEF Counted, Active
      <4> QED  BY <4>1, <4>2
    <3> QED  BY <3>8, <3>9 DEF SlotsOK, Counted
  <2>13. detached' = {}
    BY <1>0 DEF CInv
  <2> QED  BY <2>8, <2>9, <2>10, <2>11, <2>12, <2>13 DEF CInv
<1>5. Cardinality(ReservedSlots) \in Nat
  <2>1. IsFiniteSet(ReservedSlots)
    BY FS_Subset, TrackerAssumption DEF ReservedSlots
  <2> QED  BY <2>1, FS_CardinalityType
<1>6. CASE \/ Has(t)
           \/ c.op = "background" /\ Cardinality(ReservedSlots) >= MaxBackground
  BY <1>3, <1>6 DEF Reserve
<1>7. CASE ~\/ Has(t)
            \/ c.op = "background" /\ Cardinality(ReservedSlots) >= MaxBackground
  <2>1. ~Has(t) /\ Cardinality(ReservedSlots) < MaxBackground
    BY <1>1, <1>5, <1>7, TrackerAssumption
  <2> QED  BY <1>4, <1>7, <2>1 DEF Reserve
<1> QED  BY <1>6, <1>7

\* The handle goes to the entry that the runner of the call owns.
LEMMA SetHandleCalm ==
    ASSUME CInv, IInv', NEW p \in Proc, SetHandle(p)
    PROVE  CInv'
<1> DEFINE c == call[p]
           t == c.task
           r == c.runner
<1>0. Active(p) /\ c.pc = "handle" /\ Goto(p, Idle) /\ UNCHANGED <<store, run, detached>>
  BY DEF SetHandle, Active
<1>1. /\ Shape(p, c) /\ t \in Task /\ p \notin Runner /\ r \in Runner
      /\ runtime[t].cancel = r
  BY <1>0, Mover DEF Shape, Stage, CallOK
<1>2. Shape(p, Idle) /\ Idle.pc = "idle" /\ ~Counted(Idle)
  BY IdleGives DEF Shape, Counted
<1>3. /\ \A u \in Task : /\ runtime'[u].cancel = runtime[u].cancel
                         /\ runtime'[u].pending = runtime[u].pending
                         /\ runtime'[u].slot = runtime[u].slot
      /\ runtime'[t].handle \in {r, runtime[t].handle}
      /\ \A u \in Task \ {t} : runtime'[u].handle = runtime[u].handle
  <2> DEFINE e == [runtime[t] EXCEPT !.handle = r]
  <2>0. runtime \in [Task -> Entry \cup {NoEntry}]
    BY DEF CInv, IInv, RuntimeOK
  <2>1. CASE ~Has(t)
    BY <2>1 DEF SetHandle
  <2>2. CASE Has(t)
    <3>1. runtime[t] \in Entry
      BY <1>1, <2>2, HasEntry DEF CInv, IInv
    <3>2. runtime' = [runtime EXCEPT ![t] = e]
      BY <2>0, <2>2 DEF SetHandle
    <3>3. /\ e.cancel = runtime[t].cancel /\ e.pending = runtime[t].pending
          /\ e.slot = runtime[t].slot /\ e.handle = r
      BY <3>1 DEF Entry
    <3> HIDE DEF e
    <3>4. runtime'[t] = e /\ \A u \in Task \ {t} : runtime'[u] = runtime[u]
      BY <1>1, <2>0, <3>2
    <3> QED  BY <3>3, <3>4
  <2> QED  BY <2>1, <2>2
<1>4. OneCall' /\ ShapeOK' /\ call'[p] = Idle
  BY <1>0, <1>2, CallsMove
<1>5. StagesOK'
  <2>1. Stage(call[p])'
    BY <1>2, <1>4 DEF Stage, Persisting, Claiming
  <2> QED  BY <1>0, <1>2, <2>1, StagesMove
<1>6. AgentsOK'
  BY <1>0, <1>1, <1>2, AgentsMove
<1>7. EntriesOK'
  BY <1>0, <1>1, <1>3 DEF CInv, EntriesOK, NoForeground, PendingReleases, HandleOfOwner,
     OneOwner, OwnerWorks, OwnerRuns, FailureWaits
<1>8. SlotsOK'
  <2>1. ReservedSlots' \subseteq ReservedSlots
    <3>1. runtime[t].handle \in {None, r}
      <4>1. runtime[t].handle \in Runner \cup {None}
        BY <1>1, NoEntryIs DEF CInv, IInv, RuntimeOK, NoEntryFields, Entry
      <4>2. runtime[t].pending = "none"
        BY <1>1, NoneNotRunner DEF CInv, EntriesOK, PendingReleases
      <4> QED  BY <1>1, <4>1, <4>2 DEF CInv, EntriesOK, HandleOfOwner
    <3>2. ASSUME NEW u \in Task, Finished(runtime[u].handle)
          PROVE  Finished(runtime[u].handle)'
      <4>1. runtime'[u].handle = runtime[u].handle
        BY <1>3, <3>1, <3>2 DEF Finished
      <4> QED  BY <1>0, <3>2, <4>1 DEF Finished
    <3> QED  BY <1>3, <3>2 DEF ReservedSlots
  <2> QED  BY <1>0, <1>2, <2>1, SlotsMove
<1>9. detached' = {}
  BY <1>0 DEF CInv
<1> QED  BY <1>4, <1>5, <1>6, <1>7, <1>8, <1>9 DEF CInv

-----------------------------------------------------------------------------
(* The steps that save a session *)

\* A registration brings the session of t to Running.
Resumed(t) ==
    /\ \E p \in Client : call[p].pc = "rsave" /\ call[p].task = t
    /\ store[t].state \notin Finalizing
    /\ store'[t] = Running

\* The sweep gives up a session that nobody has an entry for.
Orphaned(t) ==
    /\ store[t].state = "Running" /\ runtime[t] = NoEntry
    /\ store'[t].state = "Failed"

\* The session makes a move of its state machine.
Advanced(t) ==
    /\ store'[t].state \in SessionState
    /\ CanTransitionTo(store[t].state, store'[t].state)
    /\ store'[t].error = "orphan" => store[t].error = "orphan"
    /\ store[t].state = "Completing" => store'[t].state \in {"Completed", "Cancelling"}

\* What a step does to the store.
Moves ==
    \/ store' = store
    \/ \E t \in Task : /\ \A u \in Task \ {t} : store'[u] = store[u]
                       /\ Resumed(t) \/ Orphaned(t) \/ Advanced(t)

LEMMA OnlyTheStore ==
    ASSUME CInv, IInv', NEW p \in Proc, Active(p), NEW d, Goto(p, d), Shape(p, d),
           UNCHANGED <<runtime, run, detached>>,
           NEW t \in Task, NEW s \in Session, store' = [store EXCEPT ![t] = s],
           s.state = "Running" \/ \A r \in Runner :
                                     runtime[t].cancel = r => run[r].phase \notin Executing,
           runtime[t].pending = "Failed" => s.state # "Completing",
           p \in Runner => /\ d.pc # "idle" /\ d.task = call[p].task
                           /\ Applying(call[p]) => Applying(d)
                           /\ ~Applying(d) => t # d.task,
           Counted(d) => Counted(call[p]),
           Stage(call[p])'
    PROVE  CInv'
<1>1. OneCall' /\ ShapeOK'
  BY CallsMove
<1>2. StagesOK'
  BY StagesMove
<1>3. AgentsOK'
  <2>1. p \in Runner /\ ~Applying(d) => store'[d.task].state = store[d.task].state
    BY Mine DEF CInv, IInv, StoreOK
  <2>2. p \in Runner => runtime'[d.task].cancel = p
    BY Mine
  <2> QED  BY <2>1, <2>2, AgentsMove
<1>4. EntriesOK'
  BY EntriesSave DEF CInv
<1>5. SlotsOK'
  <2>1. ReservedSlots' = ReservedSlots /\ Taken' = Taken
    BY DEF ReservedSlots, Taken, Finished
  <2> QED  BY <2>1, SlotsMove
<1>6. detached' = {}
  BY DEF CInv
<1> QED  BY <1>1, <1>2, <1>3, <1>4, <1>5, <1>6 DEF CInv

LEMMA SaveOrphanCalm ==
    ASSUME CInv, IInv', NEW p \in Proc, SaveOrphan(p)
    PROVE  CInv' /\ Moves
<1> DEFINE c == call[p]
           d == Reconciled(c)
           t == c.cur
           s == c.snap
<1>0. Active(p) /\ c.pc = "orphan" /\ Goto(p, d) /\ UNCHANGED <<runtime, run, detached>>
  BY DEF SaveOrphan, Active
<1>1. /\ c \in Call /\ Shape(p, c) /\ Stage(c) /\ CallOK(c)
      /\ ~Applying(c) /\ Counted(c)
  BY <1>0, Mover DEF Applying, Persisting, Counted, Claiming
<1>2. /\ t \in Task /\ s \in Session /\ s.state = "Failed"
      /\ store[t].state = "Running" /\ runtime[t] = NoEntry
      /\ c.ctx \in {"finished", "sweep", "query"}
  BY <1>0, <1>1 DEF CallOK, Stage, Shape, Call
<1>3. CASE UNCHANGED store
  BY <1>0, <1>3, BackCalm DEF Moves
<1>4. CASE store' = [store EXCEPT ![t] = s]
  <2>1. /\ Shape(p, d) /\ d.pc \in {"finished", "once", "sweep", "idle"}
        /\ p \in Runner => d.pc # "idle"
        /\ d.pc # "idle" => Onward(d, c)
    BY <1>0, <1>1, <1>2, ReconciledShape DEF Active
  <2> HIDE DEF d
  <2>2. store'[t] = s /\ \A u \in Task \ {t} : store'[u] = store[u]
    BY <1>2, <1>4 DEF CInv, IInv, StoreOK
  <2>3. p \in Runner => d.task = c.task /\ t # d.task
    BY <1>0, <1>2, <2>1, Mine, NoEntryIs, NoneNotRunner DEF Onward, NoEntryFields
  <2>4. Stage(call[p])'
    <3>1. call'[p] = d
      BY <1>0, <2>1, CallsMove
    <3> QED  BY <2>1, <3>1 DEF Stage, Persisting, Claiming
  <2>5. CInv'
    <3>1. \A r \in Runner : runtime[t].cancel # r
      BY <1>2, NoEntryIs, NoneNotRunner DEF NoEntryFields
    <3> QED  BY <1>0, <1>1, <1>2, <1>4, <2>1, <2>3, <2>4, <3>1, OnlyTheStore
  <2>6. Orphaned(t)
    BY <1>2, <2>2 DEF Orphaned
  <2> HIDE DEF t
  <2> QED  BY <1>2, <2>2, <2>5, <2>6 DEF Moves
<1> QED  BY <1>3, <1>4 DEF SaveOrphan

LEMMA SaveFinalizedCalm ==
    ASSUME CInv, IInv', NEW p \in Proc, SaveFinalized(p)
    PROVE  CInv' /\ Moves
<1> DEFINE c == call[p]
           t == c.cur
           s == c.snap
           d == [c EXCEPT !.pc = "finalized"]
<1>0. Active(p) /\ c.pc = "finalize" /\ UNCHANGED <<runtime, run, detached>>
  BY DEF SaveFinalized, Active
<1>1. /\ c \in Call /\ Shape(p, c) /\ Stage(c) /\ CallOK(c)
      /\ ~Applying(c) /\ Counted(c)
  BY <1>0, Mover DEF Applying, Persisting, Counted, Claiming
<1>2. /\ t \in Task /\ s \in Session /\ store[t].state \in Finalizing
      /\ s.state = TerminalFromFinalizing[store[t].state] /\ s.error = store[t].error
      /\ c.ctx \in {"finished", "sweep", "query"}
  BY <1>0, <1>1 DEF CallOK, Stage, Shape, Call
<1>3. CASE Goto(p, Reconciled(c)) /\ UNCHANGED store
  BY <1>0, <1>3, BackCalm DEF Moves
<1>4. CASE Goto(p, d) /\ store' = [store EXCEPT ![t] = s]
  <2>1. d.pc = "finalized" /\ d.cur = t /\ d.ctx = c.ctx /\ Onward(d, c)
    BY <1>1 DEF Call, Onward
  <2> HIDE DEF d
  <2>2. Shape(p, d)
    BY <1>0, <1>1, <1>2, <2>1 DEF Shape, Onward, Applying, Persisting, Claiming
  <2>3. store'[t] = s /\ \A u \in Task \ {t} : store'[u] = store[u]
    BY <1>2, <1>4 DEF CInv, IInv, StoreOK
  <2>4. store[t].state \in Finalizing /\ s.state \in Terminal /\ s.state # "Completing"
    BY <1>2 DEF TerminalFromFinalizing, Finalizing, Terminal
  <2>5. \A r \in Runner : runtime[t].cancel = r => run[r].phase \notin Executing
    BY <1>2 DEF CInv, EntriesOK, OwnerRuns, Finalizing
  <2>6. p \in Runner => d.task = c.task /\ t # d.task
    BY <1>0, <1>1, <1>2, <2>1, Mine DEF Onward, Finalizing
  <2>7. Stage(call[p])'
    <3>1. call'[p] = d
      BY <1>0, <1>4, <2>2, CallsMove
    <3>2. store'[d.cur].state \in Terminal
      BY <2>1, <2>3, <2>4
    <3> QED  BY <2>1, <3>1, <3>2 DEF Stage, Persisting, Claiming
  <2>8. CInv'
    BY <1>0, <1>1, <1>2, <1>4, <2>1, <2>2, <2>4, <2>5, <2>6, <2>7, OnlyTheStore
  <2>9. Advanced(t)
    <3>1. /\ s.state \in SessionState /\ CanTransitionTo(store[t].state, s.state)
          /\ store[t].state = "Completing" => s.state = "Completed"
      BY <1>2 DEF TerminalFromFinalizing, Finalizing, Terminal, SessionState,
         CanTransitionTo, ForwardMoves
    <3> QED  BY <1>2, <2>3, <3>1 DEF Advanced
  <2> HIDE DEF t
  <2> QED  BY <1>2, <2>3, <2>8, <2>9 DEF Moves
<1> QED  BY <1>3, <1>4 DEF SaveFinalized

\* Nobody executes on a task whose outcome is being persisted.
LEMMA NobodyExecutes ==
    ASSUME CInv, NEW p \in Proc, Active(p), call[p].pc \in Persisting
    PROVE  LET c == call[p]
           IN  /\ c.cur \in Task /\ c.tr \in Terminal
               /\ \A r \in Runner : runtime[c.cur].cancel = r => run[r].phase \notin Executing
               /\ p \in Runner /\ ~Applying(c) => c.cur # c.task
               /\ runtime[c.cur].pending = "Failed" => c.tr # "Completed"
<1> DEFINE c == call[p]
<1>1. /\ Shape(p, c) /\ Stage(c) /\ CallOK(c) /\ c.cur \in Task /\ c.tr \in Terminal
      /\ c.ctx \in {"apply", "retry"}
  BY Mover DEF CallOK, Persisting, Shape
<1>2. CASE c.ctx = "retry"
  <2>1. runtime[c.cur].pending = c.tr /\ c.tr # "none"
    BY <1>1, <1>2 DEF Stage, Terminal
  <2>2. runtime[c.cur].cancel = None
    BY <1>1, <2>1 DEF CInv, EntriesOK, PendingReleases
  <2>3. p \in Runner => runtime[c.task].cancel = p
    BY Mine
  <2> QED  BY <1>1, <2>1, <2>2, <2>3, NoneNotRunner
<1>3. CASE c.ctx = "apply"
  <2>0. Applying(c) /\ c.cur = c.task /\ c.op \in {"report", "cancel"}
    BY <1>1, <1>3 DEF Applying, Shape, Active
  <2>1. CASE c.op = "report"
    <3>1. p \in Runner
      BY <1>1, <2>1 DEF Shape, Active
    <3>2. runtime[c.cur].cancel = p /\ run[p].phase = "reporting"
          /\ runtime[c.cur].pending = "none"
      BY <2>0, <3>1, Mine
    <3> QED  BY <1>1, <2>0, <3>2 DEF Executing
  <2>2. CASE c.op = "cancel"
    <3>1. runtime[c.cur].cancel = None /\ c.tr = "Cancelled"
      BY <1>1, <2>0, <2>2 DEF Stage
    <3>2. p \notin Runner
      BY <1>1, <2>2 DEF Shape, Active
    <3> QED  BY <1>1, <3>1, <3>2, NoneNotRunner
  <2> QED  BY <2>0, <2>1, <2>2
<1> QED  BY <1>1, <1>2, <1>3

\* A save of persist_transition, and the label it leads to.
LEMMA PersistSaved ==
    ASSUME CInv, IInv', NEW p \in Proc, Active(p), call[p].pc \in {"save1", "save2"},
           UNCHANGED <<runtime, run, detached>>,
           NEW d, Goto(p, d), Onward(d, call[p]), d.ctx = call[p].ctx,
           d.cur = call[p].cur, d.tr = call[p].tr, d.pc \in {"save2", "clear"},
           NEW t \in Task, t = call[p].cur, NEW s \in Session, s = call[p].snap,
           store' = [store EXCEPT ![t] = s],
           s.state \in SessionState, CanTransitionTo(store[t].state, s.state),
           s.error # "orphan", s.state = "Completing" => call[p].tr = "Completed",
           store[t].state = "Completing" => s.state \in {"Completed", "Cancelling"},
           d.pc = "save2" => s.state = FinalizingPhase[d.tr] /\ d.snap = Outcome(d.tr)
    PROVE  CInv' /\ Moves
<1> DEFINE c == call[p]
<1>1. /\ Shape(p, c) /\ Stage(c) /\ CallOK(c) /\ Counted(c)
      /\ c.cur \in Task /\ c.tr \in Terminal /\ c.ctx \in {"apply", "retry"}
  BY Mover DEF CallOK, Persisting, Shape, Counted, Claiming, Active
<1>2. Shape(p, d)
  BY <1>1 DEF Shape, Onward, Applying, Persisting, Claiming
<1>3. /\ \A r \in Runner : runtime[t].cancel = r => run[r].phase \notin Executing
      /\ p \in Runner /\ ~Applying(c) => t # c.task
      /\ runtime[t].pending = "Failed" => c.tr # "Completed"
  BY NobodyExecutes DEF Persisting
<1>4. Applying(c) <=> Applying(d)
  BY DEF Applying, Persisting
<1>5. store'[t] = s /\ \A u \in Task \ {t} : store'[u] = store[u]
  BY DEF CInv, IInv, StoreOK
<1>6. Stage(call[p])'
  <2>1. call'[p] = d
    BY <1>2, CallsMove
  <2>2. runtime' = runtime /\ run' = run
    OBVIOUS
  <2>3. d.tr = "Failed" => s.state # "Completing"
    BY <1>1
  <2> QED  BY <1>1, <1>5, <2>1, <2>2, <2>3
           DEF Stage, Has, Applying, Persisting, Claiming, Onward
<1>7. CInv'
  BY <1>1, <1>2, <1>3, <1>4, <1>6, OnlyTheStore DEF Onward
<1>8. Advanced(t)
  BY <1>5 DEF Advanced
<1> QED  BY <1>5, <1>7, <1>8 DEF Moves

LEMMA SaveIntentCalm ==
    ASSUME CInv, IInv', NEW p \in Proc, SaveIntent(p)
    PROVE  CInv' /\ Moves
<1> DEFINE c == call[p]
           d == [c EXCEPT !.pc = "save2", !.snap = Outcome(c.tr)]
<1>0. Active(p) /\ c.pc = "save1" /\ UNCHANGED <<runtime, run, detached>>
  BY DEF SaveIntent, Active
<1>1. /\ c \in Call /\ Stage(c) /\ CallOK(c)
      /\ c.cur \in Task /\ c.tr \in Terminal /\ c.snap \in Session
  BY <1>0, Mover DEF CallOK, Call
<1>2. CASE Goto(p, Unpersisted(c)) /\ UNCHANGED store
  BY <1>0, <1>2, UnpersistedCalm DEF Moves
<1>3. CASE Goto(p, d) /\ store' = [store EXCEPT ![c.cur] = c.snap]
  <2>1. /\ d.pc = "save2" /\ d.snap = Outcome(c.tr) /\ d.cur = c.cur /\ d.tr = c.tr
        /\ d.ctx = c.ctx /\ Onward(d, c)
    BY <1>1 DEF Call, Onward
  <2> HIDE DEF d
  <2>2. /\ CanTransitionTo(store[c.cur].state, FinalizingPhase[c.tr])
        /\ c.snap = Intent(c.tr)
        /\ c.tr = "Failed" => store[c.cur].state # "Completing"
    BY <1>0, <1>1 DEF Stage, Persisting
  <2>3. c.snap.state = FinalizingPhase[c.tr] /\ c.snap.error # "orphan"
    BY <1>1, <2>2 DEF Intent, Outcome
  <2>4. /\ c.snap.state \in SessionState
        /\ c.snap.state = "Completing" => c.tr = "Completed"
    BY <1>1, <2>3 DEF FinalizingPhase, Terminal, Finalizing, SessionState
  <2>5. store[c.cur].state = "Completing" => c.snap.state \in {"Completed", "Cancelling"}
    BY <1>1, <2>2, <2>3 DEF FinalizingPhase, Terminal, CanTransitionTo, ForwardMoves
  <2>6. CanTransitionTo(store[c.cur].state, c.snap.state)
    BY <2>2, <2>3
  <2>7. c.snap.state = FinalizingPhase[d.tr] /\ d.snap = Outcome(d.tr)
    BY <2>1, <2>3
  <2> QED  BY <1>0, <1>1, <1>3, <2>1, <2>3, <2>4, <2>5, <2>6, <2>7, PersistSaved
<1> QED  BY <1>2, <1>3 DEF SaveIntent

LEMMA SaveOutcomeCalm ==
    ASSUME CInv, IInv', NEW p \in Proc, SaveOutcome(p)
    PROVE  CInv' /\ Moves
<1> DEFINE c == call[p]
           d == [c EXCEPT !.pc = "clear", !.snap = NoSession]
<1>0. Active(p) /\ c.pc = "save2" /\ UNCHANGED <<runtime, run, detached>>
  BY DEF SaveOutcome, Active
<1>1. /\ c \in Call /\ Stage(c) /\ CallOK(c)
      /\ c.cur \in Task /\ c.tr \in Terminal /\ c.snap \in Session
  BY <1>0, Mover DEF CallOK, Call
<1>2. CASE Goto(p, Unpersisted(c)) /\ UNCHANGED store
  BY <1>0, <1>2, UnpersistedCalm DEF Moves
<1>3. CASE Goto(p, d) /\ store' = [store EXCEPT ![c.cur] = c.snap]
  <2>1. /\ d.pc = "clear" /\ d.cur = c.cur /\ d.tr = c.tr
        /\ d.ctx = c.ctx /\ Onward(d, c)
    BY <1>1 DEF Call, Onward
  <2> HIDE DEF d
  <2>2. /\ store[c.cur].state = FinalizingPhase[c.tr]
        /\ c.snap = Outcome(c.tr)
    BY <1>0, <1>1 DEF Stage, Persisting
  <2>3. c.snap.state = c.tr /\ c.snap.error # "orphan"
    BY <1>1, <2>2 DEF Outcome
  <2>4. /\ c.snap.state \in SessionState
        /\ c.snap.state # "Completing"
        /\ store[c.cur].state = "Completing" => c.snap.state = "Completed"
        /\ CanTransitionTo(store[c.cur].state, c.snap.state)
    BY <1>1, <2>2, <2>3
       DEF FinalizingPhase, Terminal, Finalizing, SessionState, CanTransitionTo, ForwardMoves
  <2> QED  BY <1>0, <1>1, <1>3, <2>1, <2>3, <2>4, PersistSaved
<1> QED  BY <1>2, <1>3 DEF SaveOutcome, Persisted

\* A registration saves the session of the entry it holds.
LEMMA RegisterSaveCalm ==
    ASSUME CInv, IInv', NEW p \in Proc, RegisterSave(p)
    PROVE  CInv' /\ Moves
<1> DEFINE c == call[p]
           t == c.task
           s == c.snap
<1>0. Active(p) /\ c.pc = "rsave" /\ UNCHANGED <<runtime, run, detached>>
  BY DEF RegisterSave, Active
<1>1. /\ c \in Call /\ Shape(p, c) /\ Stage(c) /\ t \in Task /\ p \notin Runner
      /\ CallOK(c) /\ c.op = "background"
  BY <1>0, Mover DEF Shape, Claiming
<1>2. /\ s = Running /\ s \in Session
      /\ store[t].state \notin Finalizing
      /\ runtime[t].pending = "none"
      /\ c.runner \in Runner
  <2>1. s \in Session /\ Consistent(s) /\ c.runner \in Runner
    BY <1>0, <1>1 DEF CallOK, Call
  <2>2. /\ s.state = "Running" /\ store[t].state \notin Finalizing
        /\ runtime[t].pending = "none"
    BY <1>0, <1>1 DEF Stage, Claiming
  <2>3. s.error = "none"
    BY <2>1, <2>2 DEF Consistent
  <2> QED  BY <2>1, <2>2, <2>3 DEF Session, Running
<1>3. ASSUME NEW pc \in {"spawn", "unregister"},
             Goto(p, [c EXCEPT !.pc = pc, !.snap = NoSession]),
             \/ store' = [store EXCEPT ![t] = s]
             \/ pc = "unregister" /\ UNCHANGED store
      PROVE  CInv' /\ Moves
  <2> DEFINE d == [c EXCEPT !.pc = pc, !.snap = NoSession]
  <2>1. d.pc = pc /\ d.ctx = c.ctx /\ Onward(d, c)
    BY <1>1 DEF Call, Onward
  <2>2. Goto(p, d)
    BY <1>3
  <2> HIDE DEF d
  <2>3. Shape(p, d) /\ ~Counted(d)
    BY <1>0, <1>1, <2>1 DEF Shape, Onward, Applying, Persisting, Claiming, Counted
  <2>4. CASE pc = "unregister" /\ UNCHANGED store
    <3>1. Stage(d)
      BY <1>0, <1>1, <2>1, <2>4 DEF Stage, Onward, Applying, Persisting, Claiming
    <3> QED  BY <1>0, <1>1, <2>2, <2>3, <2>4, <3>1, OnlyTheCall DEF Moves
  <2>5. CASE store' = [store EXCEPT ![t] = s]
    <3>1. store'[t] = s /\ \A u \in Task \ {t} : store'[u] = store[u]
      BY <1>1, <2>5 DEF CInv, IInv, StoreOK
    <3>2. Stage(call[p])'
      <4>1. call'[p] = d
        BY <1>0, <2>2, <2>3, CallsMove
      <4>2. s.state = "Running"
        BY <1>2 DEF Running
      <4> QED  BY <1>0, <1>1, <2>1, <3>1, <4>1, <4>2
               DEF Stage, Onward, Applying, Persisting, Claiming
    <3>3. s.state = "Running"
      BY <1>2 DEF Running
    <3>4. CInv'
      BY <1>0, <1>1, <1>2, <2>2, <2>3, <2>5, <3>2, <3>3, OnlyTheStore
    <3>5. p \in Client
      BY <1>1 DEF Proc
    <3>6. Resumed(t)
      BY <1>0, <1>2, <3>1, <3>5 DEF Resumed
    <3> HIDE DEF t
    <3> QED  BY <1>1, <3>1, <3>4, <3>6 DEF Moves
  <2> QED  BY <1>3, <2>4, <2>5
<1> QED  BY <1>3 DEF RegisterSave

-----------------------------------------------------------------------------
(* The steps that change entries and agents *)

\* No other runner has a call.
LEMMA OthersIdle ==
    ASSUME CInv, NEW p \in Proc, Active(p), NEW d, Goto(p, d), Shape(p, d),
           NEW r \in Runner, r # p
    PROVE  ~Active(r) /\ call'[r].pc = "idle" /\ run[r].phase # "reporting"
<1>1. r \in Proc
  BY DEF Proc
<1>2. ~Active(r) /\ call'[r] = call[r]
  BY <1>1, CallsMove
<1> QED  BY <1>2 DEF Active, CInv, AgentsOK

LEMMA SpawnCalm ==
    ASSUME CInv, IInv', NEW p \in Proc, Spawn(p)
    PROVE  CInv'
<1> DEFINE c == call[p]
           t == c.task
           r == c.runner
           d == [c EXCEPT !.pc = "handle"]
           a == [phase |-> "resume", task |-> t, snap |-> NoSession,
                 background |-> c.op = "background", aborted |-> FALSE]
<1>0. Active(p) /\ c.pc = "spawn" /\ UNCHANGED <<store, runtime, detached>>
  BY DEF Spawn, Active
<1>1. /\ c \in Call /\ Shape(p, c) /\ Stage(c) /\ CallOK(c) /\ t \in Task /\ p \notin Runner
      /\ c.op = "background" /\ r \in Runner
  BY <1>0, Mover DEF Shape, Claiming, CallOK
<1>2. Goto(p, d) /\ run' = [run EXCEPT ![r] = a]
  BY <1>0, <1>1 DEF Spawn
<1>3. /\ runtime[t].cancel = r /\ runtime[t].handle = None
      /\ store[t].state = "Running" /\ run[r].phase = "over"
  BY <1>0, <1>1 DEF Stage, Claiming
<1>4. /\ a.phase = "resume" /\ a.task = t /\ ~a.aborted /\ a.background
  BY <1>1
<1>5. d.pc = "handle" /\ d.ctx = c.ctx /\ Onward(d, c)
  BY <1>1 DEF Call, Onward
<1> HIDE DEF a, d
<1>6. run'[r] = a /\ \A q \in Runner \ {r} : run'[q] = run[q]
  BY <1>1, <1>2 DEF CInv, IInv, RunsOK
<1>7. Shape(p, d) /\ ~Counted(d)
  BY <1>0, <1>1, <1>5 DEF Shape, Onward, Applying, Persisting, Claiming, Counted
<1>8. OneCall' /\ ShapeOK' /\ call'[p] = d
  BY <1>0, <1>2, <1>7, CallsMove
<1>9. StagesOK'
  <2>1. Stage(call[p])'
    BY <1>0, <1>3, <1>5, <1>8 DEF Stage, Onward, Persisting, Claiming
  <2> QED  BY <1>0, <1>2, <1>7, <2>1, StagesMove
<1>10. AgentsOK'
  <2> SUFFICES ASSUME NEW q \in Runner
               PROVE  /\ run'[q].phase \in Executing => run'[q].background
                      /\ run'[q].phase # "reporting" /\ call'[q].pc = "idle"
    BY DEF AgentsOK, Active
  <2>1. call'[q].pc = "idle" /\ run[q].phase # "reporting"
    BY <1>0, <1>1, <1>2, <1>7, OthersIdle
  <2>2. run[q].phase \in Executing => run[q].background
    BY DEF CInv, AgentsOK
  <2> QED  BY <1>4, <1>6, <2>1, <2>2
<1>11. \A u \in Task : runtime[u].handle # r
  BY <1>1, <1>3, NoneNotRunner DEF CInv, EntriesOK, HandleOfOwner, OneOwner
<1>12. EntriesOK'
  <2>1. NoForeground' /\ PendingReleases' /\ OneOwner' /\ FailureWaits'
    BY <1>0 DEF CInv, EntriesOK, NoForeground, PendingReleases, OneOwner, FailureWaits
  <2>2. HandleOfOwner'
    BY <1>0, <1>6, <1>11 DEF CInv, EntriesOK, HandleOfOwner
  <2>3. \A u \in Task : runtime[u].cancel = r => u = t
    BY <1>1, <1>3 DEF CInv, EntriesOK, OneOwner
  <2>4. OwnerWorks' /\ OwnerRuns'
    BY <1>0, <1>3, <1>4, <1>6, <2>3 DEF CInv, EntriesOK, OwnerWorks, OwnerRuns
  <2> QED  BY <2>1, <2>2, <2>4 DEF EntriesOK
<1>13. SlotsOK'
  <2>1. ASSUME NEW u \in Task PROVE Finished(runtime[u].handle)' <=> Finished(runtime[u].handle)
    <3>1. runtime[u].handle \in Runner \cup {None}
      BY NoEntryIs DEF CInv, IInv, RuntimeOK, NoEntryFields, Entry
    <3>2. runtime'[u].handle = runtime[u].handle
      BY <1>0
    <3> QED  BY <1>6, <1>11, <3>1, <3>2 DEF Finished
  <2>2. ReservedSlots' = ReservedSlots
    BY <1>0, <2>1 DEF ReservedSlots
  <2> QED  BY <1>0, <1>2, <1>7, <2>2, SlotsMove
<1>14. detached' = {}
  BY <1>0 DEF CInv
<1> QED  BY <1>8, <1>9, <1>10, <1>12, <1>13, <1>14 DEF CInv

\* cancel releases the entry and tells its agent to stop.
LEMMA CancelEntryCalm ==
    ASSUME CInv, IInv', NEW p \in Proc, CancelEntry(p)
    PROVE  CInv'
<1> DEFINE c == call[p]
           t == c.task
           h == runtime[t].handle
           d == [c EXCEPT !.pc = "pload", !.ctx = "apply", !.cur = t, !.tr = "Cancelled"]
<1>0. Active(p) /\ c.pc = "cancel" /\ UNCHANGED <<store, detached>>
  BY DEF CancelEntry, Active
<1>1. /\ c \in Call /\ Shape(p, c) /\ t \in Task /\ p \notin Runner
      /\ c.op = "cancel" /\ Counted(c)
  BY <1>0, Mover DEF Shape, Counted, Claiming
<1>2. CASE Goto(p, Idle) /\ UNCHANGED <<runtime, run>>
  <2>1. Shape(p, Idle) /\ Idle.pc = "idle" /\ ~Counted(Idle) /\ Stage(Idle)
    BY IdleGives, IdleStage DEF Shape, Counted
  <2> QED  BY <1>0, <1>1, <1>2, <2>1, OnlyTheCall
<1>3. CASE /\ Has(t)
           /\ runtime' = [runtime EXCEPT ![t].cancel = None, ![t].handle = None]
           /\ run' = IF h = None THEN run ELSE [run EXCEPT ![h].aborted = TRUE]
           /\ Goto(p, d)
  <2>1. /\ d.pc = "pload" /\ d.ctx = "apply" /\ d.cur = t /\ d.tr = "Cancelled"
        /\ d.op = c.op /\ d.task = t
    BY <1>1 DEF Call
  <2>2. Goto(p, d)
    BY <1>3
  <2> HIDE DEF d
  <2>3. Shape(p, d)
    BY <1>0, <1>1, <2>1 DEF Shape, Applying, Persisting, Claiming
  <2>4. OneCall' /\ ShapeOK' /\ call'[p] = d
    BY <1>0, <2>2, <2>3, CallsMove
  <2>5. runtime[t] \in Entry
    BY <1>1, <1>3, HasEntry DEF CInv, IInv
  <2>6. /\ runtime'[t].cancel = None /\ runtime'[t].handle = None
        /\ runtime'[t].pending = runtime[t].pending /\ runtime'[t].slot = runtime[t].slot
        /\ \A u \in Task \ {t} : runtime'[u] = runtime[u]
    <3> DEFINE e == [runtime[t] EXCEPT !.cancel = None, !.handle = None]
    <3>1. /\ e.cancel = None /\ e.handle = None
          /\ e.pending = runtime[t].pending /\ e.slot = runtime[t].slot
      BY <2>5 DEF Entry
    <3>2. runtime' = [runtime EXCEPT ![t] = e]
      BY <1>1, <1>3 DEF CInv, IInv, RuntimeOK
    <3> HIDE DEF e
    <3> QED  BY <1>1, <3>1, <3>2 DEF CInv, IInv, RuntimeOK
  <2>7. \A q \in Runner : /\ run'[q].phase = run[q].phase
                          /\ run'[q].background = run[q].background
                          /\ q # h => run'[q] = run[q]
    <3>1. CASE h = None
      BY <1>3, <3>1
    <3>2. CASE h # None
      <4>1. h \in Runner
        BY <2>5, <3>2 DEF Entry
      <4>2. run' = [run EXCEPT ![h].aborted = TRUE]
        BY <1>3, <3>2
      <4>3. run \in [Runner -> Run]
        BY DEF CInv, IInv, RunsOK
      <4> QED  BY <4>1, <4>2, <4>3 DEF Run
    <3> QED  BY <3>1, <3>2
  <2>8. StagesOK'
    <3>1. Stage(call[p])'
      <4>1. runtime'[t].slot # "absent"
        BY <1>3, <2>6 DEF Has
      <4> QED  BY <2>1, <2>4, <2>6, <4>1 DEF Stage, Has, Applying, Persisting, Claiming
    <3> QED  BY <1>0, <2>2, <2>3, <3>1, StagesMove
  <2>9. AgentsOK'
    <3> SUFFICES ASSUME NEW q \in Runner
                 PROVE  /\ run'[q].phase \in Executing => run'[q].background
                        /\ run'[q].phase # "reporting" /\ call'[q].pc = "idle"
      BY DEF AgentsOK, Active
    <3>1. call'[q].pc = "idle" /\ run[q].phase # "reporting"
      BY <1>0, <1>1, <2>2, <2>3, OthersIdle
    <3>2. run[q].phase \in Executing => run[q].background
      BY DEF CInv, AgentsOK
    <3> QED  BY <2>7, <3>1, <3>2
  <2>10. EntriesOK'
    <3>1. \A u \in Task : Shrunk(u)
      BY <2>6 DEF Shrunk
    <3>2. ASSUME NEW u \in Task, NEW q \in Runner, runtime'[u].cancel = q
          PROVE  Follows(q)
      <4>1. u # t /\ runtime[u].cancel = q
        BY <2>6, <3>2, NoneNotRunner
      <4>2. q # h
        BY <1>1, <4>1 DEF CInv, EntriesOK, OneOwner, HandleOfOwner
      <4> QED  BY <2>7, <4>2 DEF Follows
    <3> QED  BY <1>0, <2>7, <3>1, <3>2, EntriesShrink DEF CInv
  <2>11. SlotsOK'
    <3>1. Taken' \subseteq Taken /\ ReservedSlots' \subseteq Taken
      BY <2>6 DEF Taken, ReservedSlots
    <3>2. Cardinality(Taken) <= MaxBackground
      BY <1>1 DEF CInv, SlotsOK, Counted
    <3>3. Cardinality(Taken') <= MaxBackground /\ Cardinality(ReservedSlots') <= MaxBackground
      BY <3>1, <3>2, Smaller DEF Taken
    <3> QED  BY <3>3 DEF SlotsOK
  <2>12. detached' = {}
    BY <1>0 DEF CInv
  <2> QED  BY <2>4, <2>8, <2>9, <2>10, <2>11, <2>12 DEF CInv
<1>4. CASE ~Has(t)
  BY <1>2, <1>4 DEF CancelEntry
<1>5. CASE Has(t)
  BY <1>3, <1>5 DEF CancelEntry
<1> QED  BY <1>4, <1>5

\* A call is over: its runner, if it has one, goes on to the stop hook.
LEMMA ReturnCalm ==
    ASSUME CInv, IInv', NEW p \in Proc, Active(p), Return(p), UNCHANGED <<store, detached>>
    PROVE  /\ OneCall' /\ ShapeOK' /\ StagesOK' /\ AgentsOK' /\ detached' = {}
           /\ \A r \in Runner : /\ r # p => run'[r] = run[r]
                                /\ r = p => /\ run[r].phase = "reporting"
                                            /\ run'[r].phase = "stopping"
           /\ \A h \in Runner \cup {None} : Finished(h)' <=> Finished(h)
           /\ ReservedSlots' \subseteq ReservedSlots => SlotsOK'
<1>1. Shape(p, Idle) /\ Idle.pc = "idle" /\ ~Counted(Idle) /\ Goto(p, Idle)
  BY IdleGives DEF Shape, Counted, Return
<1>2. OneCall' /\ ShapeOK' /\ call'[p] = Idle
  BY <1>1, CallsMove
<1>3. StagesOK'
  <2>1. Stage(call[p])'
    BY <1>1, <1>2 DEF Stage, Persisting, Claiming
  <2> QED  BY <1>1, <2>1, StagesMove
<1>4. ASSUME NEW r \in Runner
      PROVE  /\ r # p => run'[r] = run[r]
             /\ r = p => run[r].phase = "reporting" /\ run'[r].phase = "stopping"
  <2>1. run \in [Runner -> Run]
    BY DEF CInv, IInv, RunsOK
  <2>2. CASE p \in Runner
    <3>1. run' = [run EXCEPT ![p].phase = "stopping"]
      BY <2>2 DEF Return
    <3>2. run[p].phase = "reporting"
      BY <2>2 DEF CInv, AgentsOK
    <3> QED  BY <2>1, <2>2, <3>1, <3>2 DEF Run
  <2>3. CASE p \notin Runner
    BY <2>3 DEF Return
  <2> QED  BY <2>2, <2>3
<1>5. AgentsOK'
  <2> SUFFICES ASSUME NEW q \in Runner
               PROVE  /\ run'[q].phase \in Executing => run'[q].background
                      /\ run'[q].phase # "reporting" /\ call'[q].pc = "idle"
    BY DEF AgentsOK, Active
  <2>1. CASE q = p
    BY <1>1, <1>2, <1>4, <2>1 DEF Executing
  <2>2. CASE q # p
    BY <1>1, <1>4, <2>2, OthersIdle DEF CInv, AgentsOK
  <2> QED  BY <2>1, <2>2
<1>6. ASSUME NEW h \in Runner \cup {None} PROVE Finished(h)' <=> Finished(h)
  BY <1>4 DEF Finished
<1>7. ReservedSlots' \subseteq ReservedSlots => SlotsOK'
  BY <1>1, SlotsMove
<1> QED  BY <1>2, <1>3, <1>4, <1>5, <1>6, <1>7 DEF CInv

LEMMA ClearPersistedCalm ==
    ASSUME CInv, IInv', NEW p \in Proc, ClearPersisted(p)
    PROVE  CInv'
<1> DEFINE c == call[p]
           t == c.cur
<1>0. /\ Active(p) /\ c.pc = "clear" /\ runtime' = [runtime EXCEPT ![t] = NoEntry]
      /\ UNCHANGED <<store, detached>>
  BY DEF ClearPersisted, Active
<1>1. /\ c \in Call /\ Shape(p, c) /\ CallOK(c) /\ Counted(c)
      /\ t \in Task /\ c.ctx \in {"apply", "retry"}
  BY <1>0, Mover DEF CallOK, Shape, Persisting, Counted, Claiming
<1>2. /\ \A u \in Task : Shrunk(u)
      /\ \A u \in Task \ {t} : runtime'[u] = runtime[u]
      /\ runtime'[t] = NoEntry
      /\ Taken' \subseteq Taken
      /\ run' = run => ReservedSlots' \subseteq ReservedSlots
  <2> HIDE DEF c
  <2> QED  BY <1>0, <1>1, Cleared
<1>3. CASE c.ctx = "retry"
  <2> DEFINE d == Retried(c)
  <2>1. Goto(p, d) /\ run' = run
    BY <1>3 DEF ClearPersisted
  <2>2. Shape(p, d) /\ d.pc \in {"retry", "finished", "once"} /\ Onward(d, c)
    BY <1>0, <1>1, RetriedShape DEF Active
  <2> HIDE DEF d
  <2>3. p \in Runner => d.task = c.task /\ runtime'[d.task].cancel = p
    <3>1. p \in Runner => t # c.task
      BY <1>0, <1>3, NobodyExecutes DEF Persisting, Applying
    <3>2. p \in Runner => c.task \in Task /\ runtime[c.task].cancel = p
      BY <1>0, Mine
    <3> QED  BY <1>2, <2>2, <3>1, <3>2 DEF Onward
  <2>4. Stage(call[p])'
    <3>1. call'[p] = d
      BY <1>0, <2>1, <2>2, CallsMove
    <3> QED  BY <2>2, <3>1 DEF Stage, Persisting, Claiming
  <2>5. SlotsOK'
    BY <1>0, <1>1, <1>2, <2>1, <2>2, SlotsMove
  <2> QED
    BY <1>0, <1>2, <1>3, <2>1, <2>2, <2>3, <2>4, <2>5, OnlyTheEntries DEF Applying
<1>4. CASE c.ctx = "apply"
  <2>1. Return(p)
    BY <1>4 DEF ClearPersisted
  <2>2. /\ OneCall' /\ ShapeOK' /\ StagesOK' /\ AgentsOK' /\ detached' = {}
        /\ \A r \in Runner : /\ r # p => run'[r] = run[r]
                             /\ r = p => /\ run[r].phase = "reporting"
                                         /\ run'[r].phase = "stopping"
        /\ \A h \in Runner \cup {None} : Finished(h)' <=> Finished(h)
        /\ ReservedSlots' \subseteq ReservedSlots => SlotsOK'
    BY <1>0, <2>1, ReturnCalm
  <2>3. t = c.task
    BY <1>0, <1>1, <1>4 DEF Shape, Applying, Persisting
  <2>4. EntriesOK'
    <3>1. ASSUME NEW u \in Task, NEW r \in Runner, runtime'[u].cancel = r
          PROVE  Follows(r)
      <4>1. u # t /\ runtime[u].cancel = r
        BY <1>2, <3>1, NoEntryIs, NoneNotRunner DEF NoEntryFields
      <4>2. r # p
        BY <1>0, <2>3, <4>1, Mine
      <4> QED  BY <2>2, <4>2 DEF Follows
    <3>2. \A r \in Runner : run[r].phase \in {"stopping", "over"} =>
                               run'[r].phase \in {"stopping", "over"}
      BY <2>2
    <3> QED  BY <1>0, <1>2, <3>1, <3>2, EntriesShrink DEF CInv
  <2>5. ReservedSlots' \subseteq ReservedSlots
    <3> SUFFICES ASSUME NEW u \in ReservedSlots' PROVE u \in ReservedSlots
      OBVIOUS
    <3>1. u \in Task /\ u # t
      BY <1>2, NoEntryIs DEF ReservedSlots, NoEntryFields
    <3>2. runtime'[u] = runtime[u]
      BY <1>2, <3>1
    <3>3. runtime[u].handle \in Runner \cup {None}
      BY <3>1, NoEntryIs DEF CInv, IInv, RuntimeOK, NoEntryFields, Entry
    <3>4. ~Finished(runtime[u].handle)'
      BY DEF ReservedSlots
    <3>5. ~Finished(runtime[u].handle)
      BY <2>2, <3>2, <3>3, <3>4 DEF Finished
    <3> QED  BY <3>1, <3>2, <3>5 DEF ReservedSlots
  <2> QED  BY <2>2, <2>4, <2>5 DEF CInv
<1> QED  BY <1>1, <1>3, <1>4

LEMMA RememberPendingCalm ==
    ASSUME CInv, IInv', NEW p \in Proc, RememberPending(p)
    PROVE  CInv'
<1> DEFINE c == call[p]
           t == c.cur
           h == runtime[t].handle
           e == [runtime[t] EXCEPT !.cancel = None, !.pending = c.tr,
                                   !.handle = IF Finished(@) THEN None ELSE @]
<1>0. /\ Active(p) /\ c.pc = "remember" /\ Return(p) /\ UNCHANGED <<store, detached>>
  BY DEF RememberPending, Active
<1>1. /\ c \in Call /\ Shape(p, c) /\ CallOK(c) /\ Stage(c) /\ Counted(c)
      /\ t \in Task /\ c.tr \in Terminal
  BY <1>0, Mover DEF CallOK, Persisting, Counted, Claiming
<1>2. /\ Applying(c) /\ c.op \in {"report", "cancel"} /\ t = c.task
      /\ Has(t) /\ (c.tr = "Failed" => store[t].state # "Completing")
      /\ c.op = "cancel" => h = None
  BY <1>0, <1>1 DEF Shape, Applying, Persisting, Stage
<1>3. runtime[t] \in Entry
  BY <1>1, <1>2, HasEntry DEF CInv, IInv
<1>4. /\ e.cancel = None /\ e.pending = c.tr /\ e.slot = runtime[t].slot
      /\ e.handle \in {None, h}
  BY <1>3 DEF Entry
<1>5. runtime' = [runtime EXCEPT ![t] = e]
  BY <1>2 DEF RememberPending
<1> HIDE DEF e
<1>6. runtime'[t] = e /\ \A u \in Task \ {t} : runtime'[u] = runtime[u]
  BY <1>1, <1>5 DEF CInv, IInv, RuntimeOK
<1>7. /\ OneCall' /\ ShapeOK' /\ StagesOK' /\ AgentsOK' /\ detached' = {}
      /\ \A r \in Runner : /\ r # p => run'[r] = run[r]
                           /\ r = p => /\ run[r].phase = "reporting"
                                       /\ run'[r].phase = "stopping"
      /\ \A k \in Runner \cup {None} : Finished(k)' <=> Finished(k)
      /\ ReservedSlots' \subseteq ReservedSlots => SlotsOK'
  BY <1>0, ReturnCalm
<1>8. c.tr # "none"
  BY <1>1 DEF Terminal
<1>9. \A u \in Task, r \in Runner : runtime'[u].cancel = r =>
         u # t /\ runtime[u].cancel = r /\ r # p
  BY <1>0, <1>2, <1>4, <1>6, Mine, NoneNotRunner
<1>10. e.handle \in Runner => p \in Runner /\ e.handle = p
  <2>1. CASE c.op = "cancel"
    BY <1>2, <1>4, <2>1, NoneNotRunner
  <2>2. CASE c.op = "report"
    <3>1. p \in Runner
      BY <1>0, <1>1, <2>2 DEF Shape
    <3>2. h \in {None, p}
      BY <1>0, <1>2, <3>1, Mine
    <3> QED  BY <1>4, <3>1, <3>2, NoneNotRunner
  <2> QED  BY <1>2, <2>1, <2>2
<1>11. EntriesOK'
  <2>1. NoForeground' /\ PendingReleases'
    BY <1>4, <1>6 DEF CInv, EntriesOK, NoForeground, PendingReleases
  <2>2. FailureWaits'
    BY <1>0, <1>2, <1>4, <1>6 DEF CInv, EntriesOK, FailureWaits
  <2>3. OneOwner'
    BY <1>9 DEF CInv, EntriesOK, OneOwner
  <2>4. OwnerWorks' /\ OwnerRuns'
    BY <1>0, <1>7, <1>9 DEF CInv, EntriesOK, OwnerWorks, OwnerRuns
  <2>5. HandleOfOwner'
    <3> SUFFICES ASSUME NEW u \in Task, NEW r \in Runner,
                        runtime'[u].handle = r, runtime'[u].cancel # r
                 PROVE  /\ runtime'[u].pending # "none"
                        /\ run'[r].phase \in {"stopping", "over"}
                        /\ \A v \in Task : runtime'[v].cancel # r
      BY DEF HandleOfOwner
    <3>1. CASE u = t
      BY <1>4, <1>6, <1>7, <1>8, <1>9, <1>10, <3>1
    <3>2. CASE u # t
      <4>1. /\ runtime[u].pending # "none"
            /\ run[r].phase \in {"stopping", "over"}
            /\ \A v \in Task : runtime[v].cancel # r
        BY <1>6, <3>2 DEF CInv, EntriesOK, HandleOfOwner
      <4> QED  BY <1>6, <1>7, <1>9, <3>2, <4>1
    <3> QED  BY <3>1, <3>2
  <2> QED  BY <2>1, <2>2, <2>3, <2>4, <2>5 DEF EntriesOK
<1>12. ReservedSlots' \subseteq ReservedSlots
  <2> SUFFICES ASSUME NEW u \in ReservedSlots' PROVE u \in ReservedSlots
    OBVIOUS
  <2>1. u \in Task /\ u # t
    BY <1>4, <1>6, <1>8 DEF ReservedSlots
  <2>2. runtime'[u] = runtime[u]
    BY <1>6, <2>1
  <2>3. runtime[u].handle \in Runner \cup {None}
    BY <2>1, NoEntryIs DEF CInv, IInv, RuntimeOK, NoEntryFields, Entry
  <2>4. ~Finished(runtime[u].handle)'
    BY DEF ReservedSlots
  <2>5. ~Finished(runtime[u].handle)
    BY <1>7, <2>2, <2>3, <2>4 DEF Finished
  <2> QED  BY <2>1, <2>2, <2>5 DEF ReservedSlots
<1> QED  BY <1>7, <1>11, <1>12 DEF CInv

-----------------------------------------------------------------------------
(* The steps of the agents, and the calls that begin and end *)

\* Nothing that the invariant is about changes.
LEMMA Stutters ==
    ASSUME CInv, IInv', UNCHANGED <<store, runtime, call, run, detached>>
    PROVE  CInv'
<1>1. OneCall' /\ ShapeOK' /\ detached' = {}
  BY DEF CInv, OneCall, ShapeOK, Active
<1>2. EntriesOK'
  BY DEF CInv, EntriesOK, NoForeground, PendingReleases, HandleOfOwner, OneOwner,
     OwnerWorks, OwnerRuns, FailureWaits
<1>3. AgentsOK'
  BY DEF CInv, AgentsOK, Active
<1>4. StagesOK'
  BY DEF CInv, StagesOK, Stage, Has
<1>5. SlotsOK'
  BY DEF CInv, SlotsOK, ReservedSlots, Taken, Finished
<1> QED  BY <1>1, <1>2, <1>3, <1>4, <1>5 DEF CInv

\* An agent that does not report moves on; its call, if the record of one is
\* left, stays idle.
LEMMA AgentStops ==
    ASSUME CInv, IInv', NEW r \in Runner, NEW a, run' = [run EXCEPT ![r] = a],
           UNCHANGED <<store, runtime, detached>>,
           \A p \in Proc : call'[p] = call[p] \/ (~Active(p) /\ call'[p].pc = "idle"),
           run[r].phase # "reporting", a.phase # "reporting",
           a.phase \in Executing => a.background,
           (\E t \in Task : runtime[t].cancel = r) => Follows(r),
           run[r].phase = "stopping" => a.phase \in {"stopping", "over"},
           run[r].phase = "over" => a.phase = "over"
    PROVE  CInv'
<1>1. run'[r] = a /\ \A q \in Runner \ {r} : run'[q] = run[q]
  BY DEF CInv, IInv, RunsOK
<1>2. \A p \in Proc : call'[p].pc = "idle" \/ call'[p] = call[p]
  OBVIOUS
<1>3. OneCall'
  BY <1>2 DEF CInv, OneCall, Active
<1>4. ShapeOK'
  BY <1>2 DEF CInv, ShapeOK, Shape
<1>5. StagesOK'
  <2> SUFFICES ASSUME NEW p \in Proc PROVE Stage(call[p])'
    BY DEF StagesOK
  <2>1. CASE call'[p].pc = "idle"
    BY <2>1 DEF Stage, Persisting, Claiming
  <2>2. CASE call'[p] = call[p] /\ call[p].pc # "idle"
    <3>1. Stage(call[p])
      BY DEF CInv, StagesOK
    <3>2. call[p].pc \in Claiming => call[p].runner \in Runner
      BY DEF CInv, IInv, CallsOK, CallOK, Claiming
    <3>3. call[p].pc \in Claiming => run'[call[p].runner].phase = "over"
      BY <1>1, <3>1, <3>2 DEF Stage
    <3> QED  BY <2>2, <3>1, <3>3 DEF Stage, Has
  <2> QED  BY <1>2, <2>1, <2>2
<1>6. EntriesOK'
  <2>1. \A t \in Task : Shrunk(t)
    BY DEF Shrunk
  <2>2. ASSUME NEW t \in Task, NEW q \in Runner, runtime'[t].cancel = q PROVE Follows(q)
    <3>1. runtime[t].cancel = q
      BY <2>2
    <3> QED  BY <1>1, <3>1 DEF Follows
  <2>3. \A q \in Runner : run[q].phase \in {"stopping", "over"} =>
                               run'[q].phase \in {"stopping", "over"}
    BY <1>1
  <2> QED  BY <2>1, <2>2, <2>3, EntriesShrink DEF CInv
<1>7. AgentsOK'
  <2> SUFFICES ASSUME NEW q \in Runner
               PROVE  /\ run'[q].phase \in Executing => run'[q].background
                      /\ run'[q].phase = "reporting" <=> call'[q].pc # "idle"
                      /\ run'[q].phase = "reporting" =>
                           /\ call'[q].task = run'[q].task
                           /\ runtime'[run'[q].task].cancel = q
                           /\ ~Applying(call'[q]) => store'[run'[q].task].state = "Running"
    BY DEF AgentsOK, Active
  <2>1. q \in Proc
    BY DEF Proc
  <2>2. CASE q = r
    BY <1>1, <2>1, <2>2 DEF CInv, AgentsOK, Active
  <2>3. CASE q # r
    BY <1>1, <2>1, <2>3 DEF CInv, AgentsOK, Active
  <2> QED  BY <2>2, <2>3
<1>8. SlotsOK'
  <2>1. ReservedSlots' \subseteq ReservedSlots
    <3>1. ASSUME NEW u \in Task, Finished(runtime[u].handle)
          PROVE  Finished(runtime[u].handle)'
      <4>1. runtime[u].handle \in Runner \cup {None}
        BY NoEntryIs DEF CInv, IInv, RuntimeOK, NoEntryFields, Entry
      <4> QED  BY <1>1, <3>1, <4>1 DEF Finished
    <3> QED  BY <3>1 DEF ReservedSlots
  <2>2. Taken' = Taken
    BY DEF Taken
  <2>3. Cardinality(ReservedSlots') <= MaxBackground
    BY <2>1, Smaller DEF CInv, SlotsOK, ReservedSlots
  <2> QED  BY <1>2, <2>2, <2>3 DEF CInv, SlotsOK
<1>9. detached' = {}
  BY DEF CInv
<1> QED  BY <1>3, <1>4, <1>5, <1>6, <1>7, <1>8, <1>9 DEF CInv

\* An agent that executes undisturbed works for the entry it owns.
LEMMA LiveAgent ==
    ASSUME Calm, CInv, NEW r \in Runner, run[r].phase \in Executing, Undisturbed(r)
    PROVE  LET t == run[r].task
           IN  /\ t \in Task /\ runtime[t].cancel = r /\ store[t].state = "Running"
               /\ run[r].phase = "body" => run[r].snap = store[t]
<1>1. run[r].background /\ run[r].task \in Task
  BY DEF CInv, IInv, RunsOK, RunOK, AgentsOK, Executing
<1>2. PICK t \in Task : runtime[t].cancel = r
  BY <1>1 DEF Calm, Undisturbed, Signalled
<1>3. /\ run[r].task = t /\ store[t].state = "Running"
      /\ run[r].phase = "body" => run[r].snap.state = "Running"
  BY <1>2 DEF CInv, EntriesOK, OwnerWorks, OwnerRuns, Executing
<1>4. /\ store[t] \in Session /\ Consistent(store[t])
      /\ run[r].snap \in Session /\ Consistent(run[r].snap)
  BY DEF CInv, IInv, StoreOK, RunsOK, RunOK, Run
<1>5. run[r].phase = "body" => run[r].snap = store[t]
  <2> SUFFICES ASSUME run[r].phase = "body" PROVE run[r].snap = store[t]
    OBVIOUS
  <2>1. store[t].error = "none" /\ run[r].snap.error = "none"
    BY <1>3, <1>4 DEF Consistent
  <2> QED  BY <1>3, <1>4, <2>1 DEF Session
<1> QED  BY <1>2, <1>3, <1>5

LEMMA AgentResumesCalm ==
    ASSUME Calm, CInv, IInv', NEW r \in Runner, AgentResumes(r)
    PROVE  CInv'
<1> DEFINE s == store[run[r].task]
           a == [run[r] EXCEPT !.phase = "body", !.snap = s]
<1>1. run[r].phase = "resume" /\ UNCHANGED <<store, runtime, call, detached>>
  BY DEF AgentResumes
<1>2. run[r] \in Run /\ run \in [Runner -> Run]
  BY DEF CInv, IInv, RunsOK
<1>3. run' = [run EXCEPT ![r] = a]
  BY <1>2 DEF AgentResumes
<1>4. /\ a.phase = "body" /\ a.snap = s /\ a.task = run[r].task
      /\ a.aborted = run[r].aborted /\ a.background = run[r].background
  BY <1>2 DEF Run
<1>5. s.state = "Running"
  BY <1>1, LiveAgent DEF AgentResumes, Executing
<1> HIDE DEF a
<1>6. run[r].background
  BY <1>1 DEF CInv, AgentsOK, Executing
<1>7. Follows(r)
  <2>1. run'[r] = a
    BY <1>2, <1>3
  <2> QED  BY <1>1, <1>4, <1>5, <2>1 DEF Follows, Executing
<1> QED  BY <1>1, <1>3, <1>4, <1>6, <1>7, AgentStops

LEMMA AgentSavesCalm ==
    ASSUME Calm, CInv, IInv', NEW r \in Runner, AgentSaves(r)
    PROVE  CInv' /\ store' = store
<1>1. run[r].phase = "body" /\ store' = [store EXCEPT ![run[r].task] = run[r].snap]
      /\ UNCHANGED <<runtime, call, run, detached>>
  BY DEF AgentSaves
<1>2. run[r].task \in Task /\ run[r].snap = store[run[r].task]
  BY <1>1, LiveAgent DEF AgentSaves, Executing
<1>3. store' = store
  BY <1>1, <1>2 DEF CInv, IInv, StoreOK
<1> QED  BY <1>1, <1>3, Stutters

LEMMA NobodyActive ==
    ASSUME Calm, InFlight < MaxInFlight
    PROVE  \A p \in Proc : ~Active(p)
<1> DEFINE S == {p \in Proc : call[p].pc # "idle"}
<1>1. IsFiniteSet(Client) /\ IsFiniteSet(Runner)
  BY TrackerAssumption
<1>2. IsFiniteSet(Proc)
  BY <1>1, FS_Union DEF Proc
<1>3. S \subseteq Proc
  OBVIOUS
<1>4. IsFiniteSet(S)
  BY <1>2, <1>3, FS_Subset
<1>5. Cardinality(S) \in Nat
  BY <1>4, FS_CardinalityType
<1>6. Cardinality(S) = 0
  BY <1>5, TrackerAssumption DEF Calm, InFlight
<1> HIDE DEF S
<1>7. S = {}
  BY <1>4, <1>6, FS_EmptySet
<1> QED  BY <1>7 DEF S, Active

\* A call begins: it is the only one.
LEMMA Begins ==
    ASSUME Calm, CInv, NEW p \in Proc, NEW op, NEW t, NEW want, Begin(p, op, t, want),
           p \in Runner <=> op = "report", op # "foreground",
           ReservedSlots' \subseteq ReservedSlots
    PROVE  /\ OneCall' /\ ShapeOK' /\ StagesOK' /\ SlotsOK'
           /\ \A q \in Proc : ~Active(q)
           /\ \A q \in Proc \ {p} : call'[q].pc = "idle"
           /\ call'[p].pc = "scan" /\ call'[p].task = t
<1> DEFINE d == [Idle EXCEPT !.op = op, !.task = t, !.want = want, !.pc = "scan"]
<1>1. \A q \in Proc : ~Active(q)
  BY NobodyActive DEF Begin
<1>2. d.op = op /\ d.task = t /\ d.pc = "scan" /\ d.ctx = "none"
  BY DEF Idle
<1>3. Goto(p, d)
  BY DEF Begin
<1> HIDE DEF d
<1>4. call'[p] = d /\ \A q \in Proc \ {p} : call'[q] = call[q]
  BY <1>3 DEF Goto, CInv, IInv, CallsOK
<1>5. \A q \in Proc \ {p} : call'[q].pc = "idle"
  BY <1>1, <1>4 DEF Active
<1>6. OneCall'
  BY <1>5 DEF OneCall, Active
<1>7. ShapeOK'
  <2>1. Shape(p, call[p])'
    BY <1>2, <1>4 DEF Shape, Applying, Persisting, Claiming
  <2>2. \A q \in Proc \ {p} : Shape(q, call[q])'
    BY <1>5 DEF Shape
  <2> QED  BY <2>1, <2>2 DEF ShapeOK
<1>8. StagesOK'
  <2> SUFFICES ASSUME NEW q \in Proc PROVE Stage(call[q])'
    BY DEF StagesOK
  <2>1. call'[q].pc \in {"idle", "scan"}
    BY <1>2, <1>4, <1>5
  <2> QED  BY <2>1 DEF Stage, Persisting, Claiming
<1>9. SlotsOK'
  <2>1. Cardinality(ReservedSlots') <= MaxBackground
    BY Smaller DEF CInv, SlotsOK, ReservedSlots
  <2>2. \A q \in Proc : call'[q].pc \in {"idle", "scan"}
    BY <1>2, <1>4, <1>5
  <2> QED  BY <2>1, <2>2 DEF SlotsOK
<1> QED  BY <1>1, <1>2, <1>4, <1>5, <1>6, <1>7, <1>8, <1>9

\* An agent ends and reports: its session stays Running until that is applied.
LEMMA ReportsCalm ==
    ASSUME Calm, CInv, IInv', NEW r \in Runner, NEW want, run[r].phase \in Executing,
           Undisturbed(r), Begin(r, "report", run[r].task, want),
           run' = [run EXCEPT ![r].phase = "reporting", ![r].snap = NoSession],
           UNCHANGED <<store, runtime, detached>>
    PROVE  CInv'
<1> DEFINE a == [run[r] EXCEPT !.phase = "reporting", !.snap = NoSession]
           t == run[r].task
<1>0. r \in Proc
  BY DEF Proc
<1>1. run[r] \in Run /\ run \in [Runner -> Run]
  BY DEF CInv, IInv, RunsOK
<1>2. run' = [run EXCEPT ![r] = a]
  BY <1>1
<1>3. a.phase = "reporting" /\ a.task = run[r].task /\ a.aborted = run[r].aborted
  BY <1>1 DEF Run
<1> HIDE DEF a
<1>4. run'[r] = a /\ \A q \in Runner \ {r} : run'[q] = run[q]
  BY <1>1, <1>2
<1>5. t \in Task /\ runtime[t].cancel = r /\ store[t].state = "Running"
  BY LiveAgent
<1>6. ReservedSlots' \subseteq ReservedSlots
  <2>1. ASSUME NEW u \in Task, Finished(runtime[u].handle)
        PROVE  Finished(runtime[u].handle)'
    <3>1. runtime[u].handle \in Runner \cup {None}
      BY NoEntryIs DEF CInv, IInv, RuntimeOK, NoEntryFields, Entry
    <3> QED  BY <1>4, <2>1, <3>1 DEF Finished, Executing
  <2> QED  BY <2>1 DEF ReservedSlots
<1>7. /\ OneCall' /\ ShapeOK' /\ StagesOK' /\ SlotsOK'
      /\ \A q \in Proc : ~Active(q)
      /\ \A q \in Proc \ {r} : call'[q].pc = "idle"
      /\ call'[r].pc = "scan" /\ call'[r].task = t
  BY <1>0, <1>6, Begins
<1>8. AgentsOK'
  <2> SUFFICES ASSUME NEW q \in Runner
               PROVE  /\ run'[q].phase \in Executing => run'[q].background
                      /\ run'[q].phase = "reporting" <=> call'[q].pc # "idle"
                      /\ run'[q].phase = "reporting" =>
                           /\ call'[q].task = run'[q].task
                           /\ runtime'[run'[q].task].cancel = q
                           /\ store'[run'[q].task].state = "Running"
    BY DEF AgentsOK, Active
  <2>1. CASE q = r
    BY <1>3, <1>4, <1>5, <1>7, <2>1 DEF Executing
  <2>2. CASE q # r
    <3>1. q \in Proc
      BY DEF Proc
    <3> QED  BY <1>4, <1>7, <2>2, <3>1 DEF CInv, AgentsOK
  <2> QED  BY <2>1, <2>2
<1>9. EntriesOK'
  <2>1. \A u \in Task : Shrunk(u)
    BY DEF Shrunk
  <2>2. \A q \in Runner : Follows(q)
    BY <1>3, <1>4 DEF Follows
  <2>3. \A q \in Runner : run[q].phase \in {"stopping", "over"} =>
                               run'[q].phase \in {"stopping", "over"}
    BY <1>4 DEF Executing
  <2> QED  BY <2>1, <2>2, <2>3, EntriesShrink DEF CInv
<1>10. detached' = {}
  BY DEF CInv
<1> QED  BY <1>7, <1>8, <1>9, <1>10 DEF CInv

LEMMA AgentEndsCalm ==
    ASSUME Calm, CInv, IInv', NEW r \in Runner, AgentCompletes(r) \/ AgentFails(r)
    PROVE  CInv' /\ store' = store
<1>1. CASE AgentCompletes(r)
  <2>1. run[r].phase = "body" /\ run[r].phase \in Executing
        /\ store' = [store EXCEPT ![run[r].task] = run[r].snap]
    BY <1>1 DEF AgentCompletes, Executing
  <2>2. run[r].task \in Task /\ run[r].snap = store[run[r].task]
    BY <1>1, <2>1, LiveAgent DEF AgentCompletes
  <2>3. store' = store
    BY <2>1, <2>2 DEF CInv, IInv, StoreOK
  <2> QED  BY <1>1, <2>1, <2>3, ReportsCalm DEF AgentCompletes
<1>2. CASE AgentFails(r)
  <2>1. /\ run[r].phase \in Executing /\ Undisturbed(r)
        /\ run' = [run EXCEPT ![r].phase = "reporting", ![r].snap = NoSession]
        /\ Begin(r, "report", run[r].task, "Failed")
        /\ UNCHANGED <<store, runtime, detached>>
    BY <1>2 DEF AgentFails, Executing
  <2> QED  BY <2>1, ReportsCalm
<1> QED  BY <1>1, <1>2

LEMMA GoneIs == Gone.phase = "over" /\ Gone.task = None
BY DEF Gone

LEMMA RunnerStopsCalm ==
    ASSUME Calm, CInv, IInv', NEW r \in Runner,
           RunnerCancelled(r) \/ RunnerEnds(r) \/ RunnerAborted(r) \/ RunnerPanics(r)
    PROVE  CInv'
<1>0. r \in Proc /\ run[r] \in Run /\ run \in [Runner -> Run] /\ call \in [Proc -> Call]
  BY DEF CInv, IInv, RunsOK, CallsOK, Proc
<1>1. CASE RunnerCancelled(r)
  <2> DEFINE a == [run[r] EXCEPT !.phase = "stopping", !.snap = NoSession]
  <2>1. run' = [run EXCEPT ![r] = a]
    BY <1>0, <1>1 DEF RunnerCancelled
  <2>2. a.phase = "stopping"
    BY <1>0 DEF Run
  <2> HIDE DEF a
  <2>3. /\ run[r].phase \in Executing /\ \A t \in Task : runtime[t].cancel # r
        /\ UNCHANGED <<store, runtime, call, detached>>
    BY <1>1 DEF RunnerCancelled, Signalled, Executing
  <2> QED  BY <2>1, <2>2, <2>3, AgentStops DEF Executing
<1>2. ASSUME run' = [run EXCEPT ![r] = Gone], run[r].phase # "reporting",
             UNCHANGED <<store, runtime, detached>>,
             \A p \in Proc : call'[p] = call[p] \/ (~Active(p) /\ call'[p].pc = "idle")
      PROVE  CInv'
  <2>1. run'[r] = Gone
    BY <1>0, <1>2
  <2>2. Follows(r)
    BY <2>1, GoneIs DEF Follows
  <2> QED  BY <1>2, <2>2, GoneIs, AgentStops DEF Executing
<1>3. CASE RunnerEnds(r)
  BY <1>2, <1>3 DEF RunnerEnds
<1>4. CASE RunnerPanics(r)
  BY <1>2, <1>4 DEF RunnerPanics
<1>5. CASE RunnerAborted(r)
  <2>1. /\ run' = [run EXCEPT ![r] = Gone] /\ Goto(r, Idle)
        /\ run[r].aborted /\ run[r].phase # "over"
        /\ UNCHANGED <<store, runtime, detached>>
    BY <1>5 DEF RunnerAborted, Dropped
  <2>2. run[r].phase # "reporting"
    <3> SUFFICES ASSUME run[r].phase = "reporting" PROVE FALSE
      OBVIOUS
    <3>1. Active(r)
      BY DEF CInv, AgentsOK
    <3>2. call[r].task \in Task /\ runtime[call[r].task].cancel = r
      BY <3>1, Mine
    <3> QED  BY <2>1, <3>2 DEF CInv, EntriesOK, OwnerWorks
  <2>3. ~Active(r)
    BY <2>2 DEF CInv, AgentsOK
  <2>4. \A p \in Proc : call'[p] = call[p] \/ (~Active(p) /\ call'[p].pc = "idle")
    BY <1>0, <2>1, <2>3, IdleGives DEF Goto
  <2> QED  BY <1>2, <2>1, <2>2, <2>4
<1> QED  BY <1>1, <1>3, <1>4, <1>5

LEMMA ClientDroppedCalm ==
    ASSUME CInv, IInv', NEW p \in Client, ClientDropped(p)
    PROVE  CInv'
<1>1. p \in Proc /\ p \notin Runner
  BY TrackerAssumption DEF Proc
<1>2. Active(p) /\ Goto(p, Idle) /\ UNCHANGED <<store, runtime, run, detached>>
  BY DEF ClientDropped, Dropped, Active
<1>3. Shape(p, Idle) /\ ~Counted(Idle) /\ Stage(Idle)
  BY IdleGives, IdleStage DEF Shape, Counted
<1> QED  BY <1>1, <1>2, <1>3, OnlyTheCall

LEMMA ClientCallsCalm ==
    ASSUME Calm, CInv, IInv', NEW p \in Client, NEW op \in Ops, NEW t \in Task,
           ClientCalls(p, op, t)
    PROVE  CInv'
<1>1. p \in Proc /\ p \notin Runner /\ op \notin {"foreground", "report"}
  BY TrackerAssumption DEF Proc, Calm
<1>2. Begin(p, op, t, "none") /\ UNCHANGED <<store, runtime, run, detached>>
  BY DEF ClientCalls
<1>3. ReservedSlots' \subseteq ReservedSlots
  BY <1>2 DEF ReservedSlots, Finished
<1>4. /\ OneCall' /\ ShapeOK' /\ StagesOK' /\ SlotsOK'
      /\ \A q \in Proc : ~Active(q)
      /\ \A q \in Proc \ {p} : call'[q].pc = "idle"
  BY <1>1, <1>2, <1>3, Begins
<1>5. AgentsOK'
  <2> SUFFICES ASSUME NEW q \in Runner
               PROVE  /\ run'[q].phase \in Executing => run'[q].background
                      /\ run'[q].phase # "reporting" /\ call'[q].pc = "idle"
    BY DEF AgentsOK, Active
  <2>1. q \in Proc \ {p}
    BY <1>1 DEF Proc
  <2> QED  BY <1>2, <1>4, <2>1 DEF CInv, AgentsOK
<1>6. EntriesOK'
  <2>1. (\A u \in Task : Shrunk(u)) /\ \A r \in Runner : Follows(r)
    BY <1>2 DEF Shrunk, Follows
  <2> QED  BY <1>2, <2>1, EntriesShrink DEF CInv
<1>7. detached' = {}
  BY <1>2 DEF CInv
<1> QED  BY <1>4, <1>5, <1>6, <1>7 DEF CInv

\* Nothing is going on: before the first step, and after a restart.
AtRest ==
    /\ runtime = [t \in Task |-> NoEntry]
    /\ call = [p \in Proc |-> Idle]
    /\ run = [r \in Runner |-> Gone]
    /\ detached = {}

LEMMA RestCalm == ASSUME IInv, AtRest PROVE CInv
<1>1. /\ \A t \in Task : runtime[t] = NoEntry
      /\ \A p \in Proc : call[p].pc = "idle"
      /\ \A r \in Runner : run[r].phase = "over"
  BY IdleGives, GoneIs DEF AtRest
<1>2. OneCall /\ ShapeOK
  BY <1>1 DEF OneCall, ShapeOK, Shape, Active
<1>3. StagesOK
  BY <1>1, IdleStage DEF StagesOK
<1>4. EntriesOK
  BY <1>1, NoEntryIs, NoneNotRunner
     DEF EntriesOK, NoForeground, PendingReleases, HandleOfOwner, OneOwner,
         OwnerWorks, OwnerRuns, FailureWaits, NoEntryFields
<1>5. AgentsOK
  BY <1>1 DEF AgentsOK, Active, Executing, Proc
<1>6. SlotsOK
  <2>1. ReservedSlots = {}
    BY <1>1, NoEntryIs DEF ReservedSlots, NoEntryFields
  <2>2. Cardinality(ReservedSlots) = 0
    BY <2>1, FS_EmptySet
  <2> QED  BY <1>1, <2>2, TrackerAssumption DEF SlotsOK
<1> QED  BY <1>2, <1>3, <1>4, <1>5, <1>6 DEF CInv, AtRest

LEMMA CrashCalm == ASSUME IInv', Crash PROVE CInv'
<1>1. AtRest'
  BY DEF Crash, AtRest
<1> QED  BY <1>1, RestCalm, PTL

-----------------------------------------------------------------------------
(* Every step *)

LEMMA StepCalm ==
    ASSUME CInv, IInv', NEW p \in Proc, Step(p)
    PROVE  CInv' /\ Moves
<1>1. CASE Refresh(p)
  <2>1. CInv'
    BY <1>1, ScanCalm, RetryPendingCalm, FinishedNextCalm, OnceEnterCalm, SweepCalm
       DEF Refresh
  <2>2. store' = store
    BY <1>1 DEF Refresh, Scan, RetryPending, FinishedNext, OnceEnter, ListCandidates,
                SweepNext, SweepDone
  <2> QED  BY <2>1, <2>2 DEF Moves
<1>2. CASE LoadCandidate(p) \/ ProbeOrphan(p) \/ ClearFinalized(p)
  <2>1. store' = store
    BY <1>2 DEF LoadCandidate, ProbeOrphan, ClearFinalized
  <2> QED  BY <1>2, <2>1, LoadCandidateCalm, ProbeOrphanCalm, ClearFinalizedCalm DEF Moves
<1>3. CASE SaveOrphan(p) \/ SaveFinalized(p)
  BY <1>3, SaveOrphanCalm, SaveFinalizedCalm
<1>4. CASE PersistLoad(p) \/ ClearPersisted(p) \/ RememberPending(p)
  <2>1. store' = store
    BY <1>4 DEF PersistLoad, ClearPersisted, RememberPending
  <2> QED  BY <1>4, <2>1, PersistLoadCalm, ClearPersistedCalm, RememberPendingCalm DEF Moves
<1>5. CASE SaveIntent(p) \/ SaveOutcome(p)
  BY <1>5, SaveIntentCalm, SaveOutcomeCalm
<1>6. CASE Register(p)
  <2>1. CASE RegisterSave(p)
    BY <2>1, RegisterSaveCalm
  <2>2. CASE Reserve(p) \/ RegisterLoad(p) \/ Unregister(p) \/ Spawn(p) \/ SetHandle(p)
    <3>1. CInv'
      BY <2>2, ReserveCalm, RegisterLoadCalm, UnregisterCalm, SpawnCalm, SetHandleCalm
    <3>2. store' = store
      BY <2>2 DEF Reserve, RegisterLoad, Unregister, Spawn, SetHandle
    <3> QED  BY <3>1, <3>2 DEF Moves
  <2> QED  BY <1>6, <2>1, <2>2 DEF Register
<1>7. CASE CancelEntry(p)
  <2>1. store' = store
    BY <1>7 DEF CancelEntry
  <2> QED  BY <1>7, <2>1, CancelEntryCalm DEF Moves
<1> QED  BY <1>1, <1>2, <1>3, <1>4, <1>5, <1>6, <1>7 DEF Step, Reconcile, Persist

LEMMA AgentCalm ==
    ASSUME Calm, CInv, IInv', NEW r \in Runner, Agent(r) \/ RunnerPanics(r)
    PROVE  CInv' /\ Moves
<1>1. CASE AgentSaves(r) \/ AgentCompletes(r) \/ AgentFails(r)
  BY <1>1, AgentSavesCalm, AgentEndsCalm DEF Moves
<1>2. CASE AgentSavesDetached(r)
  BY <1>2 DEF AgentSavesDetached, Calm
<1>3. CASE AgentResumes(r)
  BY <1>3, AgentResumesCalm DEF AgentResumes, Moves
<1>4. CASE RunnerCancelled(r) \/ RunnerEnds(r) \/ RunnerAborted(r) \/ RunnerPanics(r)
  <2>1. store' = store
    BY <1>4 DEF RunnerCancelled, RunnerEnds, RunnerAborted, RunnerPanics
  <2> QED  BY <1>4, <2>1, RunnerStopsCalm DEF Moves
<1> QED  BY <1>1, <1>2, <1>3, <1>4 DEF Agent

LEMMA NextCalm == Calm /\ CInv /\ [Next]_vars => CInv' /\ Moves
<1> SUFFICES ASSUME Calm, CInv, [Next]_vars PROVE CInv' /\ Moves
  OBVIOUS
<1>0. IInv'
  BY NextIInv DEF CInv
<1>1. CASE \E p \in Proc : Step(p)
  BY <1>0, <1>1, StepCalm
<1>2. CASE \E p \in Client : ClientDropped(p)
  BY <1>0, <1>2, ClientDroppedCalm DEF ClientDropped, Moves
<1>3. CASE \E p \in Client, op \in Ops, t \in Task : ClientCalls(p, op, t)
  BY <1>0, <1>3, ClientCallsCalm DEF ClientCalls, Moves
<1>4. CASE \E r \in Runner : Agent(r) \/ RunnerPanics(r)
  BY <1>0, <1>4, AgentCalm
<1>5. CASE DetachedSaveLands
  BY <1>5 DEF DetachedSaveLands, CInv
<1>6. CASE Crash
  BY <1>0, <1>6, CrashCalm DEF Crash, Moves
<1>7. CASE UNCHANGED vars
  BY <1>0, <1>7, Stutters DEF vars, Moves
<1> QED  BY <1>1, <1>2, <1>3, <1>4, <1>5, <1>6, <1>7 DEF Next

LEMMA InitCalm == Init => CInv
<1> SUFFICES ASSUME Init PROVE CInv
  OBVIOUS
<1>1. AtRest
  BY DEF Init, AtRest
<1> QED  BY <1>1, InitIInv, RestCalm

\* Between any two awaits of a call, and across faults and restarts, the entry
\* of a task has one owner, its owner's session is Running, and the call's
\* locals still describe the store.
THEOREM InductiveCalm == Calm => (Spec => []CInv)
<1> SUFFICES ASSUME Calm PROVE Spec => []CInv
  OBVIOUS
<1>1. CInv /\ [Next]_vars => CInv'
  BY NextCalm
<1> QED  BY <1>1, InitCalm, PTL DEF Spec

-----------------------------------------------------------------------------
(* What it says *)

\* A live background agent owns the entry of its task, which counts.
LEMMA LiveIsReserved ==
    ASSUME CInv, NEW r \in Runner, LiveBackground(r)
    PROVE  LET t == run[r].task
           IN  /\ t \in ReservedSlots /\ runtime[t].cancel = r
               /\ store[t].state = "Running"
<1>1. PICK t \in Task : runtime[t].cancel = r
  BY DEF LiveBackground, Signalled
<1>2. run[r].task = t /\ store[t].state = "Running"
  BY <1>1 DEF CInv, EntriesOK, OwnerWorks, OwnerRuns, LiveBackground, Executing
<1>3. runtime[t] \in Entry
  BY <1>1, NoEntryIs, NoneNotRunner DEF CInv, IInv, RuntimeOK, NoEntryFields
<1>4. runtime[t].slot = "background"
  BY <1>3 DEF CInv, EntriesOK, NoForeground, Entry
<1>5. runtime[t].pending = "none"
  BY <1>1, NoneNotRunner DEF CInv, EntriesOK, PendingReleases
<1>6. runtime[t].handle \in {None, r}
  <2>1. runtime[t].handle \in Runner \cup {None}
    BY <1>3 DEF Entry
  <2> QED  BY <1>1, <1>5, <2>1 DEF CInv, EntriesOK, HandleOfOwner
<1>7. ~Finished(runtime[t].handle)
  BY <1>6 DEF Finished, LiveBackground
<1> QED  BY <1>1, <1>2, <1>4, <1>5, <1>7 DEF ReservedSlots

LEMMA CalmSlots == CInv => SlotLimit
<1> SUFFICES ASSUME CInv PROVE SlotLimit
  OBVIOUS
<1> DEFINE S == {r \in Runner : LiveBackground(r)}
           T == ReservedSlots
           f == [r \in S |-> run[r].task]
<1>1. IsFiniteSet(T) /\ IsFiniteSet(S)
  BY FS_Subset, TrackerAssumption DEF ReservedSlots
<1>2. \A r \in S : run[r].task \in T /\ runtime[run[r].task].cancel = r
  BY LiveIsReserved
<1>3. f \in Injection(S, T)
  <2>1. f \in [S -> T]
    BY <1>2
  <2>2. \A q, r \in S : f[q] = f[r] => q = r
    BY <1>2
  <2> HIDE DEF f, S, T
  <2> QED  BY <2>1, <2>2 DEF Injection, IsInjective
<1> HIDE DEF S, T, f
<1>4. Cardinality(S) <= Cardinality(T)
  BY <1>1, <1>3, FS_Injection
<1>5. Cardinality(S) \in Nat /\ Cardinality(T) \in Nat
  BY <1>1, FS_CardinalityType
<1>6. Cardinality(T) <= MaxBackground
  BY DEF CInv, SlotsOK, T
<1>7. Cardinality(S) <= MaxBackground
  BY <1>4, <1>5, <1>6, TrackerAssumption
<1> QED  BY <1>7 DEF SlotLimit, S

\* No more than MaxBackground background agents execute at once: each of them
\* owns an entry that reserve_runtime_entry counts, and no two own the same.
THEOREM SlotsKept == Calm => (Spec => []SlotLimit)
BY InductiveCalm, CalmSlots, PTL

\* The stored session of a background agent that executes and that nobody told
\* to stop is Running: no sweep, retry or cancel has settled it behind its back.
THEOREM LiveRuns == Calm => (Spec => []LiveMeansRunning)
<1>1. CInv => LiveMeansRunning
  BY LiveIsReserved DEF LiveMeansRunning
<1> QED  BY <1>1, InductiveCalm, PTL

\* A session in a terminal state is changed by a registration only: no retry,
\* no sweep and no late save of persist_transition touches it.
THEOREM TerminalKept == Calm => (Spec => TerminalIsFinal)
<1> SUFFICES ASSUME Calm PROVE Spec => TerminalIsFinal
  OBVIOUS
<1>1. CInv /\ [Next]_vars =>
        [\A t \in Task :
           (store[t].state \in Terminal /\ store'[t] # store[t]) =>
              \E p \in Client : call[p].pc = "rsave" /\ call[p].task = t]_store
  BY NextCalm DEF Moves, Resumed, Orphaned, Advanced, Terminal, CanTransitionTo
<1> QED  BY <1>1, InductiveCalm, PTL DEF Spec, TerminalIsFinal

\* A session that is completing is completed or cancelled, never failed: a
\* failure still to be persisted is not of a session that is completing.
THEOREM CompletionKept == Calm => (Spec => CompletingIsKept)
<1> SUFFICES ASSUME Calm PROVE Spec => CompletingIsKept
  OBVIOUS
<1>1. CInv /\ [Next]_vars =>
        [\A t \in Task : store[t].state = "Completing" =>
           store'[t].state \in {"Completing", "Completed", "Cancelling"}]_store
  BY NextCalm DEF Moves, Resumed, Orphaned, Advanced, Finalizing
<1> QED  BY <1>1, InductiveCalm, PTL DEF Spec, CompletingIsKept

\* A runner that is over has no task.
OverIsGone == \A r \in Runner : run[r].phase = "over" => run[r].task = None

LEMMA OverStays == CInv /\ OverIsGone /\ [Next]_vars => OverIsGone'
<1> SUFFICES ASSUME CInv, OverIsGone, [Next]_vars PROVE OverIsGone'
  OBVIOUS
<1>1. run \in [Runner -> Run]
  BY DEF CInv, IInv, RunsOK
<1>2. CASE run' = run
  BY <1>2 DEF OverIsGone
<1>3. ASSUME NEW r \in Runner, NEW a, run' = [run EXCEPT ![r] = a],
             a.phase = "over" => a.task = None
      PROVE  OverIsGone'
  BY <1>1, <1>3 DEF OverIsGone
<1>4. ASSUME NEW p \in Proc, Step(p) PROVE OverIsGone'
  <2>1. CASE Spawn(p)
    <3> DEFINE c == call[p]
               a == [phase |-> "resume", task |-> c.task, snap |-> NoSession,
                     background |-> c.op = "background", aborted |-> FALSE]
    <3>1. run' = [run EXCEPT ![c.runner] = a] /\ a.phase # "over"
      BY <2>1 DEF Spawn
    <3>2. Active(p) /\ c.pc = "spawn"
      BY <2>1 DEF Spawn, Active
    <3>3. c.runner \in Runner
      BY <3>2, Mover DEF CallOK
    <3> HIDE DEF a, c
    <3> QED  BY <1>3, <3>1, <3>3
  <2>2. CASE ClearPersisted(p) \/ RememberPending(p)
    <3> DEFINE a == [run[p] EXCEPT !.phase = "stopping"]
    <3>1. CASE run' = run
      BY <1>2, <3>1
    <3>2. CASE p \in Runner /\ run' = [run EXCEPT ![p].phase = "stopping"]
      <4>1. run' = [run EXCEPT ![p] = a] /\ a.phase # "over"
        BY <1>1, <3>2 DEF Run
      <4> HIDE DEF a
      <4> QED  BY <1>3, <3>2, <4>1
    <3> QED  BY <2>2, <3>1, <3>2 DEF ClearPersisted, RememberPending, Return
  <2>3. CASE CancelEntry(p)
    <3> DEFINE h == runtime[call[p].task].handle
               a == [run[h] EXCEPT !.aborted = TRUE]
    <3>1. CASE run' = run
      BY <1>2, <3>1
    <3>2. CASE h # None /\ run' = [run EXCEPT ![h].aborted = TRUE]
      <4>1. call[p].task \in Task
        BY <2>3, Mover DEF CancelEntry, Active
      <4>2. h \in Runner
        BY <3>2, <4>1, NoEntryIs DEF CInv, IInv, RuntimeOK, NoEntryFields, Entry
      <4> HIDE DEF h
      <4>3. /\ run' = [run EXCEPT ![h] = a]
            /\ a.phase = run[h].phase /\ a.task = run[h].task
        BY <1>1, <3>2, <4>2 DEF Run
      <4> HIDE DEF a
      <4> QED  BY <1>3, <4>2, <4>3 DEF OverIsGone
    <3> QED  BY <2>3, <3>1, <3>2 DEF CancelEntry
  <2>4. CASE Refresh(p)
    BY <1>2, <2>4 DEF Refresh, Scan, RetryPending, FinishedNext, OnceEnter,
                      ListCandidates, SweepNext, SweepDone
  <2>5. CASE Reconcile(p)
    BY <1>2, <2>5 DEF Reconcile, LoadCandidate, ProbeOrphan, SaveOrphan, SaveFinalized,
                      ClearFinalized
  <2>6. CASE PersistLoad(p) \/ SaveIntent(p) \/ SaveOutcome(p)
    BY <1>2, <2>6 DEF PersistLoad, SaveIntent, SaveOutcome
  <2>7. CASE Reserve(p) \/ RegisterLoad(p) \/ RegisterSave(p) \/ Unregister(p) \/ SetHandle(p)
    BY <1>2, <2>7 DEF Reserve, RegisterLoad, RegisterSave, Unregister, SetHandle
  <2> QED  BY <1>4, <2>1, <2>2, <2>3, <2>4, <2>5, <2>6, <2>7 DEF Step, Persist, Register
<1>5. ASSUME NEW r \in Runner, Agent(r) \/ RunnerPanics(r) PROVE OverIsGone'
  <2>1. CASE RunnerEnds(r) \/ RunnerAborted(r) \/ RunnerPanics(r)
    BY <1>3, <2>1, GoneIs DEF RunnerEnds, RunnerAborted, RunnerPanics
  <2>2. CASE AgentSaves(r) \/ AgentSavesDetached(r)
    BY <1>2, <2>2 DEF AgentSaves, AgentSavesDetached
  <2>3. ASSUME NEW ph \in {"body", "reporting", "stopping"}, NEW s,
               run' = [run EXCEPT ![r].phase = ph, ![r].snap = s]
        PROVE  OverIsGone'
    <3> DEFINE a == [run[r] EXCEPT !.phase = ph, !.snap = s]
    <3>1. run' = [run EXCEPT ![r] = a] /\ a.phase # "over"
      BY <1>1, <2>3 DEF Run
    <3> HIDE DEF a
    <3> QED  BY <1>3, <3>1
  <2>4. CASE AgentResumes(r) \/ AgentCompletes(r) \/ AgentFails(r) \/ RunnerCancelled(r)
    BY <2>3, <2>4 DEF AgentResumes, AgentCompletes, AgentFails, RunnerCancelled
  <2> QED  BY <1>5, <2>1, <2>2, <2>4 DEF Agent
<1>6. CASE \E p \in Client : ClientDropped(p)
  BY <1>2, <1>6 DEF ClientDropped
<1>7. CASE \E p \in Client, op \in Ops, t \in Task : ClientCalls(p, op, t)
  BY <1>2, <1>7 DEF ClientCalls
<1>8. CASE DetachedSaveLands
  BY <1>2, <1>8 DEF DetachedSaveLands
<1>9. CASE Crash
  BY <1>9, GoneIs DEF Crash, OverIsGone
<1>10. CASE UNCHANGED vars
  BY <1>2, <1>10 DEF vars
<1> QED  BY <1>4, <1>5, <1>6, <1>7, <1>8, <1>9, <1>10 DEF Next

\* The sweep declares a task orphaned only when no agent works on it and no
\* outcome of it waits to be persisted.
THEOREM OrphansReal == Calm => (Spec => NoFalseOrphan)
<1> SUFFICES ASSUME Calm PROVE Spec => NoFalseOrphan
  OBVIOUS
<1>1. CInv /\ OverIsGone /\ [Next]_vars =>
        [\A t \in Task :
           (store'[t].error = "orphan" /\ store[t].error # "orphan") =>
              /\ runtime[t].pending = "none"
              /\ \A r \in Runner : run[r].task = t =>
                    run[r].phase = "stopping" \/ Signalled(r)]_store
  <2> SUFFICES ASSUME CInv, OverIsGone, [Next]_vars, NEW t \in Task,
                      store'[t].error = "orphan", store[t].error # "orphan"
               PROVE  /\ runtime[t].pending = "none"
                      /\ \A r \in Runner : run[r].task = t =>
                            run[r].phase = "stopping" \/ Signalled(r)
    OBVIOUS
  <2>1. runtime[t] = NoEntry
    BY NextCalm DEF Moves, Resumed, Orphaned, Advanced, Running
  <2>2. ASSUME NEW r \in Runner, run[r].task = t, ~Signalled(r) PROVE FALSE
    <3>1. PICK u \in Task : runtime[u].cancel = r
      BY <2>2 DEF Signalled
    <3>2. u # t
      BY <2>1, <3>1, NoEntryIs, NoneNotRunner DEF NoEntryFields
    <3>3. run[r].phase # "over"
      BY <2>2, NoneNotRunner DEF OverIsGone
    <3> QED  BY <2>2, <3>1, <3>2, <3>3 DEF CInv, EntriesOK, OwnerWorks
  <2> QED  BY <2>1, <2>2, NoEntryIs DEF NoEntryFields
<1>2. Init => OverIsGone
  BY GoneIs DEF Init, OverIsGone
<1> QED  BY <1>1, <1>2, OverStays, InductiveCalm, PTL DEF Spec, NoFalseOrphan

\* Every change of a durable session is a step of the session lifecycle: a
\* resume, one legal move, or Running collapsed to a terminal state.
THEOREM Implements == Calm => (Spec => LifecycleSpec)
<1> SUFFICES ASSUME Calm PROVE Spec => LifecycleSpec
  OBVIOUS
<1> DEFINE st == [t \in Task |-> store[t].state]
<1>0. /\ Lifecycle!SessionState = SessionState /\ Lifecycle!Terminal = Terminal
      /\ \A a, b : Lifecycle!CanTransitionTo(a, b) <=> CanTransitionTo(a, b)
  BY DEF SessionState, Terminal, CanTransitionTo, ForwardMoves, Finalizing,
         Lifecycle!SessionState, Lifecycle!Terminal, Lifecycle!CanTransitionTo,
         Lifecycle!ForwardMoves, Lifecycle!Finalizing
<1>1. Init => Lifecycle!Init
  BY DEF Init, Lifecycle!Init, NoSession
<1>2. CInv /\ [Next]_vars => [Lifecycle!Next]_st
  <2> SUFFICES ASSUME CInv, [Next]_vars PROVE [Lifecycle!Next]_st
    OBVIOUS
  <2>1. CASE store' = store
    BY <2>1
  <2>2. ASSUME NEW t \in Task, \A u \in Task \ {t} : store'[u] = store[u],
               Resumed(t) \/ Orphaned(t) \/ Advanced(t)
        PROVE  [Lifecycle!Next]_st
    <3> DEFINE s == store'[t].state
    <3>1. st' = [st EXCEPT ![t] = s]
      BY <2>2
    <3>2. store[t].state \in SessionState \cup {"Absent"}
      BY DEF CInv, IInv, StoreOK, Session
    <3>3. CASE Resumed(t)
      <4>1. s = "Running" /\ store[t].state \notin Finalizing
        BY <3>3 DEF Resumed, Running
      <4>2. CASE store[t].state = "Running"
        BY <3>1, <4>1, <4>2
      <4>3. CASE store[t].state = "Created"
        <5>1. s \in SessionState /\ CanTransitionTo(st[t], s)
          BY <4>1, <4>3 DEF SessionState, CanTransitionTo, ForwardMoves, Terminal
        <5>2. Lifecycle!Advance(t)
          BY <1>0, <3>1, <5>1 DEF Lifecycle!Advance
        <5> QED  BY <5>2 DEF Lifecycle!Next
      <4>4. CASE store[t].state \in {"Absent"} \cup Terminal
        <5>1. Lifecycle!Resume(t)
          BY <1>0, <3>1, <4>1, <4>4 DEF Lifecycle!Resume
        <5> QED  BY <5>1 DEF Lifecycle!Next
      <4> QED  BY <3>2, <4>1, <4>2, <4>3, <4>4 DEF SessionState
    <3>4. CASE Orphaned(t)
      <4>1. Lifecycle!Collapse(t)
        BY <1>0, <3>1, <3>4 DEF Orphaned, Lifecycle!Collapse, Terminal
      <4> QED  BY <4>1 DEF Lifecycle!Next
    <3>5. CASE Advanced(t)
      <4>1. Lifecycle!Advance(t)
        BY <1>0, <3>1, <3>5 DEF Advanced, Lifecycle!Advance
      <4> QED  BY <4>1 DEF Lifecycle!Next
    <3> QED  BY <2>2, <3>3, <3>4, <3>5
  <2> QED  BY <2>1, <2>2, NextCalm DEF Moves
<1> QED  BY <1>1, <1>2, InductiveCalm, PTL DEF Spec, LifecycleSpec, Lifecycle!Spec
=============================================================================
