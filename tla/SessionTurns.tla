---------------------------- MODULE SessionTurns ----------------------------
(***************************************************************************)
(* Who runs a turn on a session and with which inputs: SessionHandle       *)
(* (src/src/session/session_handle.rs), its InputQueue                     *)
(* (src/src/session/queue.rs) and the two entry points of Agent that use   *)
(* them, execute (src/src/agent/execution.rs) and execute_stream           *)
(* (src/src/agent/streaming.rs).                                           *)
(*                                                                         *)
(* Each caller makes one call with one input, named after it.  A caller    *)
(* that finds the session idle goes for the execution permit; one that     *)
(* finds it busy queues its input, parks on the Notify, and on a wake-up   *)
(* with nobody executing merges whatever is queued into a turn of its own. *)
(* The flag `executing`, the FIFO semaphore and the queue are three pieces *)
(* of state nobody locks together; the steps below are what one caller     *)
(* does to one of them.                                                    *)
(***************************************************************************)
EXTENDS Naturals, FiniteSets, Sequences, SequencesExt

CONSTANTS
    Caller,     \* calls of Agent::execute or Agent::execute_stream, one input each
    Streams,    \* the callers that use execute_stream
    Impatient,  \* the callers whose timeout may fire (or whose future is dropped)
    MaxQueue,   \* MAX_QUEUE_SIZE
    MaxMerge,   \* how many inputs MAX_MERGE_CHARS lets into one merge
    Blocks,     \* may a UserPromptSubmit hook stop the turn?
    Cancels     \* may the host call cancel_pending?

ASSUME TurnsAssumption ==
    /\ Streams \subseteq Caller /\ Impatient \subseteq Caller
    /\ MaxQueue \in Nat
    /\ MaxMerge \in Nat \ {0}
    /\ Blocks \in BOOLEAN /\ Cancels \in BOOLEAN

VARIABLES
    queue,      \* InputQueue: inputs in arrival order
    executing,  \* the AtomicBool
    line,       \* the semaphore: its head has the permit, the others wait in FIFO order
    pc,         \* where each caller is
    hand,       \* the inputs a caller has taken for the prompt of its turn
    session,    \* the inputs recorded in the session, in order
    result,     \* what each caller got back
    cancelled   \* inputs the host cancelled

vars == <<queue, executing, line, pc, hand, session, result, cancelled>>

\* The guard exists from "prepare" until it is dropped in three steps.
Turn    == {"prepare", "submit", "run", "unset"}
Guarded == Turn \cup {"wake", "release"}
PC == {"idle", "enqueue", "announce", "park", "parked", "woken", "merge",
       "acquire", "line", "done"} \cup Guarded

Init ==
    /\ queue = <<>> /\ executing = FALSE /\ line = <<>>
    /\ pc = [c \in Caller |-> "idle"]
    /\ hand = [c \in Caller |-> <<>>]
    /\ session = <<>>
    /\ result = [c \in Caller |-> "none"]
    /\ cancelled = {}

-----------------------------------------------------------------------------
(* Helpers *)

Goto(c, l) == pc' = [pc EXCEPT ![c] = l]

\* InputQueue::merge_all takes the first inputs that fit, at least one, and leaves the rest.
Merged == SubSeq(queue, 1, IF Len(queue) < MaxMerge THEN Len(queue) ELSE MaxMerge)

\* Mutant: the merged inputs stay queued.
RestAll == queue

Rest == SubSeq(queue, Len(Merged) + 1, Len(queue))

\* Notify::notify_waiters wakes the callers parked now and leaves no permit for later ones.
Notified(c, l) ==
    pc' = [d \in Caller |-> IF d = c THEN l ELSE IF pc[d] = "parked" THEN "woken" ELSE pc[d]]

\* A turn under the guard drops it; a stream has none.
AfterTurn(c) == IF c \in Streams THEN "done" ELSE "unset"

-----------------------------------------------------------------------------
(* The steps of a caller *)

\* is_executing decides between the queue and a turn of its own.
Call(c) ==
    /\ pc[c] = "idle"
    /\ IF executing
       THEN Goto(c, "enqueue") /\ UNCHANGED hand
       ELSE /\ Goto(c, IF c \in Streams THEN "submit" ELSE "acquire")
            /\ hand' = [hand EXCEPT ![c] = <<c>>]
    /\ UNCHANGED <<queue, executing, line, session, result, cancelled>>

Enqueue(c) ==
    /\ pc[c] = "enqueue"
    /\ IF Len(queue) >= MaxQueue
       THEN /\ result' = [result EXCEPT ![c] = "full"]
            /\ Goto(c, "done") /\ UNCHANGED queue
       ELSE /\ queue' = Append(queue, c)
            /\ Goto(c, "announce") /\ UNCHANGED result
    /\ UNCHANGED <<executing, line, hand, session, cancelled>>

\* notify_waiters of enqueue. execute then waits; execute_stream goes on with the same prompt.
Announce(c) ==
    /\ pc[c] = "announce"
    /\ IF c \in Streams
       THEN Notified(c, "submit") /\ hand' = [hand EXCEPT ![c] = <<c>>]
       ELSE Notified(c, "park") /\ UNCHANGED hand
    /\ UNCHANGED <<queue, executing, line, session, result, cancelled>>

\* wait_for_queue_signal: from here on a notification is not missed.
Park(c) ==
    /\ pc[c] = "park"
    /\ Goto(c, "parked")
    /\ UNCHANGED <<queue, executing, line, hand, session, result, cancelled>>

Recheck(c) ==
    /\ pc[c] = "woken"
    /\ Goto(c, IF executing THEN "park" ELSE "merge")
    /\ UNCHANGED <<queue, executing, line, hand, session, result, cancelled>>

\* dequeue_or_merge of wait_for_execution: the inputs may be anybody's.
MergeQueued(c) ==
    /\ pc[c] = "merge"
    /\ Goto(c, IF queue = <<>> THEN "park" ELSE "acquire")
    /\ hand' = [hand EXCEPT ![c] = Merged]
    /\ queue' = Rest
    /\ UNCHANGED <<executing, line, session, result, cancelled>>

Join(c) ==
    /\ pc[c] = "acquire"
    /\ Goto(c, "line")
    /\ line' = Append(line, c)
    /\ UNCHANGED <<queue, executing, hand, session, result, cancelled>>

\* Mutant: the permit is not awaited.
EnterAtOnce(c) ==
    /\ pc[c] = "line"
    /\ executing' = TRUE
    /\ Goto(c, "prepare")
    /\ UNCHANGED <<queue, line, hand, session, result, cancelled>>

Enter(c) ==
    /\ pc[c] = "line" /\ Head(line) = c
    /\ executing' = TRUE
    /\ Goto(c, "prepare")
    /\ UNCHANGED <<queue, line, hand, session, result, cancelled>>

\* prepare_execution appends what was queued meanwhile to the prompt.
Prepare(c) ==
    /\ pc[c] = "prepare"
    /\ Goto(c, "submit")
    /\ hand' = [hand EXCEPT ![c] = @ \o Merged]
    /\ queue' = Rest
    /\ UNCHANGED <<executing, line, session, result, cancelled>>

\* The prompt becomes one user message, unless a hook stops the turn.
Submit(c) ==
    /\ pc[c] = "submit"
    /\ hand' = [hand EXCEPT ![c] = <<>>]
    /\ \/ /\ session' = session \o hand[c]
          /\ Goto(c, "run") /\ UNCHANGED result
       \/ /\ Blocks
          /\ result' = [result EXCEPT ![c] = "blocked"]
          /\ Goto(c, AfterTurn(c)) /\ UNCHANGED session
    /\ UNCHANGED <<queue, executing, line, cancelled>>

\* The agent loop ends, with an answer or an error.
Run(c) ==
    /\ pc[c] = "run"
    /\ result' = [result EXCEPT ![c] = "answer"]
    /\ Goto(c, AfterTurn(c))
    /\ UNCHANGED <<queue, executing, line, hand, session, cancelled>>

\* The guard's Drop: the flag, the notification, and last the permit.
Unset(c) ==
    /\ pc[c] = "unset"
    /\ executing' = FALSE
    /\ Goto(c, "wake")
    /\ UNCHANGED <<queue, line, hand, session, result, cancelled>>

\* Mutant: the end of a turn wakes nobody.
WakeNobody(c) ==
    /\ pc[c] = "wake"
    /\ Goto(c, "release")
    /\ UNCHANGED <<queue, executing, line, hand, session, result, cancelled>>

Wake(c) ==
    /\ pc[c] = "wake"
    /\ Notified(c, "release")
    /\ UNCHANGED <<queue, executing, line, hand, session, result, cancelled>>

Release(c) ==
    /\ pc[c] = "release"
    /\ line' = Tail(line)
    /\ Goto(c, "done")
    /\ UNCHANGED <<queue, executing, hand, session, result, cancelled>>

Step(c) ==
    \/ Call(c) \/ Enqueue(c) \/ Announce(c) \/ Park(c) \/ Recheck(c) \/ MergeQueued(c)
    \/ Join(c) \/ Enter(c) \/ Prepare(c) \/ Submit(c) \/ Run(c)
    \/ Unset(c) \/ Wake(c) \/ Release(c)

\* Dropping Acquire takes the waiter out of the semaphore, permit or not.
OutOfLine(c) ==
    IF pc[c] = "line"
    THEN RemoveAt(line, CHOOSE i \in DOMAIN line : line[i] = c)
    ELSE line

\* tokio::time::timeout drops the future at an await: the inputs it had taken are
\* lost, the input it had queued is not, and a guard it holds is dropped.
Timeout(c) ==
    /\ c \in Impatient
    /\ pc[c] \in {"parked", "merge", "line", "prepare", "submit", "run"}
    /\ result' = [result EXCEPT ![c] = "timeout"]
    /\ hand' = [hand EXCEPT ![c] = <<>>]
    /\ line' = OutOfLine(c)
    /\ Goto(c, IF pc[c] \in Turn THEN AfterTurn(c) ELSE "done")
    /\ UNCHANGED <<queue, executing, session, cancelled>>

\* SessionHandle::cancel_pending; whoever waits for the input is not told.
CancelPending(c) ==
    /\ Cancels
    /\ \E i \in DOMAIN queue : queue[i] = c /\ queue' = RemoveAt(queue, i)
    /\ cancelled' = cancelled \cup {c}
    /\ UNCHANGED <<executing, line, pc, hand, session, result>>

Next == \E c \in Caller : Step(c) \/ Timeout(c) \/ CancelPending(c)

Spec == Init /\ [][Next]_vars

\* Every future is polled once it can go on, and every agent loop ends (the
\* execution timeout sees to that). Nobody has to call.
FairSpec == Spec /\ \A c \in Caller : WF_vars(Step(c) /\ pc[c] # "idle")

-----------------------------------------------------------------------------
(* Properties *)

\* Every variable has its type.
TypeOK ==
    /\ queue \in Seq(Caller) /\ Len(queue) <= MaxQueue
    /\ executing \in BOOLEAN
    /\ line \in Seq(Caller)
    /\ pc \in [Caller -> PC]
    /\ hand \in [Caller -> Seq(Caller)]
    /\ session \in Seq(Caller)
    /\ result \in [Caller -> {"none", "full", "blocked", "answer", "timeout"}]
    /\ cancelled \subseteq Caller

\* The flag other callers read without the semaphore tells the truth about it: it
\* is set exactly while one caller's guard is alive, and at most one is, in
\* whatever order guards are dropped, futures time out and callers enter.
OneTurn ==
    /\ executing = (\E c \in Caller \ Streams : pc[c] \in Turn)
    /\ \A c, d \in Caller \ Streams : pc[c] \in Guarded /\ pc[d] \in Guarded => c = d

Copies(c) ==
      Cardinality({i \in DOMAIN queue : queue[i] = c})
    + Cardinality({h \in UNION {{d} \X DOMAIN hand[d] : d \in Caller} :
                      hand[h[1]][h[2]] = c})
    + Cardinality({i \in DOMAIN session : session[i] = c})

Accepted(c) == pc[c] \notin {"idle", "enqueue"} /\ result[c] # "full"

\* The input of an execute call is in one place at most, queued, in one caller's
\* hand or recorded, however merges and turns race for it; and it is in none only
\* when the host cancelled it or the caller that took it timed out or was blocked.
InputsKept ==
    \A c \in Caller \ Streams :
        /\ Copies(c) <= 1
        /\ Accepted(c) /\ Copies(c) = 0 =>
              c \in cancelled \/ \E d \in Caller : result[d] \in {"timeout", "blocked"}

\* Nobody waits for ever: a caller in line for the permit, or parked while a turn
\* runs, goes on, whoever before it times out, is blocked, loses its input to a
\* merge or is dropped in the middle of a turn.
WaitEnds ==
    \A c \in Caller \ (Streams \cup Impatient) :
        pc[c] = "line" \/ (pc[c] = "parked" /\ executing) ~> pc[c] \notin {"line", "parked"}
=============================================================================
