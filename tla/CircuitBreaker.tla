--------------------------- MODULE CircuitBreaker ---------------------------
(***************************************************************************)
(* The circuit breaker of src/src/common/circuit.rs, shared by the threads *)
(* and tasks that guard work with it: CircuitBrokenClient around an LLM    *)
(* call (src/src/client/llm_call.rs), and the compaction chain around its  *)
(* strategies (src/src/session/compact/chain.rs).                          *)
(*                                                                         *)
(* Only the state is behind the RwLock; the counters are atomics that are  *)
(* touched after the lock is gone.  So one step is one critical section or *)
(* one atomic operation: what a caller read in one step may be stale when  *)
(* it acts on it in the next.  A transition writes the state and several   *)
(* counters under the write lock; each counter is touched elsewhere by a   *)
(* single operation, so the section as one step loses no interleaving.     *)
(***************************************************************************)
EXTENDS Integers, FiniteSets

CONSTANTS
    Caller,            \* threads or tasks that share the breaker
    Chain,             \* those that run a compaction chain
    FailureThreshold,  \* CircuitConfig::failure_threshold
    SuccessThreshold,  \* CircuitConfig::success_threshold
    Abandon            \* TRUE: the future of a guarded call may be dropped

ASSUME BreakerAssumption ==
    /\ Chain \subseteq Caller
    /\ FailureThreshold \in Nat \ {0}
    /\ SuccessThreshold \in Nat \ {0}
    /\ Abandon \in BOOLEAN

ASSUME CallersAssumption == IsFiniteSet(Caller)

VARIABLES
    state,      \* CircuitState
    failures,   \* failure_count
    successes,  \* success_count
    probes,     \* half_open_requests
    reported,   \* history: failures a Closed breaker was told of since failures was 0
    cooled,     \* recovery_timeout has passed since last_failure_time
    pc,         \* where each caller is
    seen        \* what it loaded from half_open_requests, 0 out of the loop

counters == <<failures, successes, probes, reported>>
breaker == <<state, counters, cooled, pc, seen>>

State == {"Closed", "Open", "HalfOpen"}

Place == {"idle",
          "to_half", "load", "cas",                  \* in allow_request
          "work",                                    \* admitted
          "ok", "clear", "count_ok", "to_closed",    \* in record_success
          "bad", "count_bad", "to_open"}             \* in record_failure

GoesTo(c, place) == pc' = [pc EXCEPT ![c] = place]

\* allow_request keeps the read lock through its load/compare_exchange loop.
ReadLocked == \E c \in Caller : pc[c] \in {"load", "cas"}

BreakerInit ==
    /\ state = "Closed"
    /\ failures = 0 /\ successes = 0 /\ probes = 0 /\ reported = 0
    /\ cooled = TRUE
    /\ pc = [c \in Caller |-> "idle"]
    /\ seen = [c \in Caller |-> 0]

-----------------------------------------------------------------------------
(* allow_request *)

Admission ==
    CASE state = "Closed" -> "work"
      [] state = "Open" -> IF cooled THEN "to_half" ELSE "idle"
      [] state = "HalfOpen" -> "load"

\* A caller that comes is admitted, turned away, or goes on to compete for a
\* half-open slot.
Allow(c) ==
    /\ pc[c] = "idle"
    /\ GoesTo(c, Admission)
    /\ UNCHANGED <<state, counters, cooled, seen>>

\* Mutant: the last half-open slot is never given.
LoadOneLess(c) ==
    /\ pc[c] = "load"
    /\ IF probes >= SuccessThreshold - 1
       THEN GoesTo(c, "idle") /\ UNCHANGED seen
       ELSE GoesTo(c, "cas") /\ seen' = [seen EXCEPT ![c] = probes]
    /\ UNCHANGED <<state, counters, cooled>>

\* half_open_requests.load, and the test against the threshold
Load(c) ==
    /\ pc[c] = "load"
    /\ IF probes >= SuccessThreshold
       THEN GoesTo(c, "idle") /\ UNCHANGED seen
       ELSE GoesTo(c, "cas") /\ seen' = [seen EXCEPT ![c] = probes]
    /\ UNCHANGED <<state, counters, cooled>>

\* Mutant: the slot is taken whatever the counter has become.
FetchAdd(c) ==
    /\ pc[c] = "cas"
    /\ probes' = probes + 1
    /\ GoesTo(c, "work")
    /\ seen' = [seen EXCEPT ![c] = 0]
    /\ UNCHANGED <<state, failures, successes, reported, cooled>>

\* compare_exchange_weak: a slot is taken, or the loop starts over
CompareExchange(c) ==
    /\ pc[c] = "cas"
    /\ IF probes = seen[c]
       THEN probes' = probes + 1 /\ GoesTo(c, "work")
       ELSE GoesTo(c, "load") /\ UNCHANGED probes
    /\ seen' = [seen EXCEPT ![c] = 0]
    /\ UNCHANGED <<state, failures, successes, reported, cooled>>

\* Mutant: the transition does not look at the state again.
ToHalfOpenBlind(c) ==
    /\ pc[c] = "to_half" /\ ~ReadLocked
    /\ state' = "HalfOpen" /\ probes' = 0 /\ successes' = 0
    /\ GoesTo(c, "work")
    /\ UNCHANGED <<failures, reported, cooled, seen>>

\* transition_to_half_open, after the read lock was dropped.  The caller is
\* admitted even if it finds that another one was faster; either way it has no
\* slot in half_open_requests.
ToHalfOpen(c) ==
    /\ pc[c] = "to_half" /\ ~ReadLocked
    /\ IF state = "Open"
       THEN state' = "HalfOpen" /\ probes' = 0 /\ successes' = 0
       ELSE UNCHANGED <<state, probes, successes>>
    /\ GoesTo(c, "work")
    /\ UNCHANGED <<failures, reported, cooled, seen>>

-----------------------------------------------------------------------------
(* The guarded work: CircuitBrokenClient reports exactly one result.  The *)
(* chain reports each strategy that fails, and nothing at all when no     *)
(* strategy has anything to do.  A dropped future reports nothing.        *)

Work(c) ==
    /\ pc[c] = "work"
    /\ \/ GoesTo(c, "ok")
       \/ GoesTo(c, "bad")
       \/ (Abandon \/ c \in Chain) /\ GoesTo(c, "idle")
    /\ UNCHANGED <<state, counters, cooled, seen>>

-----------------------------------------------------------------------------
(* record_success *)

RecordSuccess(c) ==
    /\ pc[c] = "ok"
    /\ GoesTo(c, CASE state = "Closed" -> "clear"
                 [] state = "HalfOpen" -> "count_ok"
                 [] state = "Open" -> "idle")
    /\ UNCHANGED <<state, counters, cooled, seen>>

ClearFailures(c) ==
    /\ pc[c] = "clear"
    /\ failures' = 0 /\ reported' = 0
    /\ GoesTo(c, "idle")
    /\ UNCHANGED <<state, successes, probes, cooled, seen>>

CountSuccess(c) ==
    /\ pc[c] = "count_ok"
    /\ successes' = successes + 1
    /\ GoesTo(c, IF successes + 1 >= SuccessThreshold THEN "to_closed" ELSE "idle")
    /\ UNCHANGED <<state, failures, probes, reported, cooled, seen>>

\* Mutant: the count of failures that opened the breaker is kept.
CloseKeepingFailures ==
    /\ state' = "Closed" /\ successes' = 0 /\ probes' = 0
    /\ reported' = 0 /\ UNCHANGED failures

\* transition_to_closed, whatever the state has become since it was read
Close ==
    /\ state' = "Closed" /\ failures' = 0 /\ successes' = 0 /\ probes' = 0
    /\ reported' = 0

ToClosed(c) ==
    /\ pc[c] = "to_closed" /\ ~ReadLocked
    /\ Close
    /\ GoesTo(c, "idle")
    /\ UNCHANGED <<cooled, seen>>

-----------------------------------------------------------------------------
(* record_failure *)

\* The chain goes on to its next strategy, the client returns the error.
AfterFailure(c) == IF c \in Chain THEN "work" ELSE "idle"

RecordFailure(c) ==
    /\ pc[c] = "bad"
    /\ GoesTo(c, CASE state = "Closed" -> "count_bad"
                 [] state = "HalfOpen" -> "to_open"
                 [] state = "Open" -> AfterFailure(c))
    /\ reported' = IF state = "Closed" THEN reported + 1 ELSE reported
    /\ UNCHANGED <<state, failures, successes, probes, cooled, seen>>

CountFailure(c) ==
    /\ pc[c] = "count_bad"
    /\ failures' = failures + 1
    /\ GoesTo(c, IF failures + 1 >= FailureThreshold THEN "to_open" ELSE AfterFailure(c))
    /\ UNCHANGED <<state, successes, probes, reported, cooled, seen>>

\* transition_to_open, whatever the state has become since it was read
ToOpen(c) ==
    /\ pc[c] = "to_open" /\ ~ReadLocked
    /\ state' = "Open" /\ cooled' = FALSE
    /\ successes' = 0 /\ probes' = 0
    /\ GoesTo(c, AfterFailure(c))
    /\ UNCHANGED <<failures, reported, seen>>

-----------------------------------------------------------------------------

\* recovery_timeout passes
Cool ==
    /\ ~cooled
    /\ cooled' = TRUE
    /\ UNCHANGED <<state, counters, pc, seen>>

\* reset: the embedder closes the breaker by hand
Reset ==
    /\ ~ReadLocked
    /\ Close
    /\ UNCHANGED <<cooled, pc, seen>>

Step(c) ==
    \/ Allow(c) \/ Load(c) \/ CompareExchange(c) \/ ToHalfOpen(c)
    \/ Work(c)
    \/ RecordSuccess(c) \/ ClearFailures(c) \/ CountSuccess(c) \/ ToClosed(c)
    \/ RecordFailure(c) \/ CountFailure(c) \/ ToOpen(c)

BreakerNext == Cool \/ Reset \/ \E c \in Caller : Step(c)

BreakerSpec == BreakerInit /\ [][BreakerNext]_breaker

Transition(c) == ToHalfOpen(c) \/ ToClosed(c) \/ ToOpen(c)

\* Traffic goes on: a guarded call ends (the clients have request timeouts) and
\* another follows.  A writer is not starved: std::sync::RwLock lets no new
\* reader pass a waiting writer.
FairSpec ==
    /\ BreakerSpec /\ WF_breaker(Cool)
    /\ \A c \in Caller : WF_breaker(Step(c)) /\ SF_breaker(Transition(c))

-----------------------------------------------------------------------------
(* Properties *)

BreakerTypeOK ==
    /\ state \in State
    /\ failures \in Nat /\ successes \in Nat /\ probes \in Nat /\ reported \in Nat
    /\ cooled \in BOOLEAN
    /\ pc \in [Caller -> Place]
    /\ seen \in [Caller -> Nat]

\* Callers that compete for the half-open slots never take more than there are.
SlotsBounded == probes <= SuccessThreshold

\* A Closed breaker that has counted enough failures is about to open.
TripNotMissed ==
    state = "Closed" /\ failures >= FailureThreshold =>
        \E c \in Caller : pc[c] = "to_open"

\* A HalfOpen breaker with enough successes is about to close.
CloseNotMissed ==
    state = "HalfOpen" /\ successes >= SuccessThreshold =>
        \E c \in Caller : pc[c] = "to_closed"

\* What the count of failures has beyond those the Closed breaker was told of
\* since the count was 0: a caller that read Closed may add its failure after the
\* breaker opened and closed again, or after another caller's success.
FewCarriedOver == failures <= reported + Cardinality(Caller)

\* No interleaving of results loses a threshold that was reached; and a failure of
\* an earlier time is counted late, but never more than one of each caller.
ThresholdsKept == TripNotMissed /\ CloseNotMissed /\ FewCarriedOver

\* A closed breaker starts no probing: a caller that saw it Open and comes late
\* with its transition to half-open changes nothing.
ProbingFollowsOpen == [][state' = "HalfOpen" => state \in {"Open", "HalfOpen"}]_state

\* No caller is on the way to report a failure.
Healthy == \A c \in Caller : pc[c] \notin {"bad", "count_bad", "to_open"}

\* Once the guarded work has stopped to fail, the breaker closes for good, or every
\* half-open slot was taken (a dropped call gives none back): Open is not a trap,
\* whatever late transition of an earlier failure was in flight.
RecoversWhenHealthy ==
    <>[]Healthy =>
        <>[](state = "Closed" \/ (state = "HalfOpen" /\ probes = SuccessThreshold))
=============================================================================
