------------------------------ MODULE PgStore -------------------------------
(***************************************************************************)
(* The PostgreSQL backend (src/src/session/persistence_postgres.rs).       *)
(*                                                                         *)
(* A step is one statement outside a transaction, or one transaction that  *)
(* locks the session's row first: those run one after another. A fork      *)
(* (with_session_lock) holds an advisory lock that nothing else takes,     *)
(* reads the row, then the events, and writes both back, at READ COMMITTED:*)
(* each of its statements sees what is committed by then. The reply to a   *)
(* commit may get lost; with_retry then does it again.                     *)
(***************************************************************************)
EXTENDS SharedStore

\* A row is not the absence of a row.
ASSUME RowAssumption ==
    \A state \in SessionState, leaf \in Msg \cup {None} : [state |-> state, leaf |-> leaf] # None

VARIABLES
    row,     \* the session's row: [state, leaf], or None
    events,  \* its NodeAppended events, by ordinal: [msg, parent, try]
    adv,     \* the caller that holds the session's advisory lock, or None
    tuples   \* the queue table: Item -> absent, pending, processing, cancelled

pgVars == <<call, copy, told, faults, row, events, adv, tuples>>

PgInit ==
    /\ InitClients
    /\ row = [state |-> "Running", leaf |-> None]
    /\ events = <<>>
    /\ adv = None
    /\ tuples = [i \in Item |-> "absent"]

Pending == {i \in Item : tuples[i] = "pending"}

-----------------------------------------------------------------------------
(* What the graph materialised from events looks like *)

\* A later event of a node replaces an earlier one.
Latest(evs, n) == \A o \in DOMAIN evs : evs[o].msg = evs[n].msg => o <= n

MsgsIn(evs) == {evs[n].msg : n \in DOMAIN evs}

\* The head of the branch, which becomes current_leaf_id when it is saved.
HeadIn(evs) == IF evs = <<>> THEN None ELSE evs[Len(evs)].msg

\* S has the parent of each of its messages.
Closed(evs, S) ==
    \A n \in DOMAIN evs :
        Latest(evs, n) /\ evs[n].msg \in S => evs[n].parent \in S \cup {None}

\* branch_lineage_node_ids from `leaf`: the least set closed under parents.
Lineage(evs, leaf) ==
    {m \in MsgsIn(evs) :
        \A S \in SUBSET MsgsIn(evs) : leaf \in S /\ Closed(evs, S) => m \in S}

\* The walk from the head never ends: a node became its own ancestor.
Loops(evs) ==
    /\ evs # <<>>
    /\ \A n \in DOMAIN evs :
          Latest(evs, n) /\ evs[n].msg \in Lineage(evs, HeadIn(evs))
            => evs[n].parent # None

\* The elements of s at the places in P, in their order.
Picked(s, P) ==
    [i \in 1..Cardinality(P) |->
        s[CHOOSE n \in P : Cardinality({m \in P : m <= n}) = i]]

\* The id of an event is its message and the attempt that made it.
Ids(evs) == {<<evs[n].msg, evs[n].try>> : n \in DOMAIN evs}

\* INSERT ... ON CONFLICT (id) DO NOTHING, for each event.
Inserted(evs, more) ==
    evs \o Picked(more, {n \in DOMAIN more : <<more[n].msg, more[n].try>> \notin Ids(evs)})

-----------------------------------------------------------------------------
(* Messages and the state *)

PgAppend(c) ==
    /\ \E m \in Msg \cap Fresh : Begin(c, "append", m, "tx") /\ Use({m})
    /\ UNCHANGED <<copy, faults, row, events, adv, tuples>>

\* The reply to the commit got lost: the same again, with a new event.
Retried(k) == IF k.tries < MaxRetries THEN [k EXCEPT !.pc = "tx", !.tries = @ + 1]
                                      ELSE Idle

\* Mutant: the message stays below the head that the caller thought of.
ParentThoughtOf == IF copy = None THEN None ELSE HeadIn(copy.events)

\* Below current_leaf_id, whatever parent the caller thought of.
NewParent == row.leaf

\* add_message, in a transaction that has the row FOR UPDATE.
\* A second attempt after a commit that went unnoticed hangs the message below
\* itself or below its own descendants; of what the session had, this keeps
\* visible only what is on that loop.
AppendTx(c) ==
    LET k      == call[c]
        landed == IF k.arg \in told.landed
                  THEN [told EXCEPT !.kept = @ \cap Lineage(events', k.arg)]
                  ELSE Landed(k.arg)
    IN  /\ k.pc = "tx"
        /\ row # None
        /\ events' = Append(events, [msg |-> k.arg, parent |-> NewParent, try |-> k.tries])
        /\ row' = [row EXCEPT !.leaf = k.arg]
        /\ \/ /\ Goto(c, Idle)
              /\ told' = [landed EXCEPT !.acked = @ \cup {k.arg}]
              /\ UNCHANGED faults
           \/ /\ Goto(c, Retried(k))
              /\ told' = landed
              /\ Fault
        /\ UNCHANGED <<copy, adv, tuples>>

\* There is no session, or the transaction is rolled back.
AppendFails(c) ==
    LET k == call[c]
    IN  /\ k.pc = "tx"
        /\ \/ row = None /\ Goto(c, Idle) /\ UNCHANGED faults
           \/ Fault /\ Goto(c, Retried(k))
        /\ UNCHANGED <<copy, told, row, events, adv, tuples>>

\* Mutant: the UPDATE of finalize has no condition on the state.
FinalizableAny(state) == TRUE

\* state NOT IN ('completed', 'failed', 'cancelled')
Finalizable(state) == state \notin Terminal

\* finalize: one UPDATE, and a query that only finds the error to report. To
\* repeat it changes nothing.
PgFinalize(c) ==
    /\ AtOnce(c)
    /\ row # None
    /\ Finalizable(row.state)
    /\ \E t \in Ends \ told.used : row' = [row EXCEPT !.state = t]
    /\ UNCHANGED <<copy, told, faults, events, adv, tuples>>

-----------------------------------------------------------------------------
(* Whole sessions *)

\* A session in memory, and the message, if any, that the caller adds to it.
With(s, new) ==
    IF new = {} THEN s
    ELSE LET m == CHOOSE m \in new : TRUE
         IN  [s EXCEPT !.events = Append(@, [msg |-> m, parent |-> HeadIn(@), try |-> 0])]

\* save_session_into_tx: the row is overwritten, missing events are inserted.
Write(s, new) ==
    LET evs == With(s, new).events
    IN  /\ row' = [state |-> s.state, leaf |-> HeadIn(evs)]
        /\ events' = Inserted(events, evs)
        /\ told' = Overwritten(Lineage(s.events, HeadIn(s.events)), new)

\* load: the row, then the events, not in a transaction.
PgLoad(c) ==
    /\ Begin(c, "load", None, "row")
    /\ UNCHANGED <<copy, told, faults, row, events, adv, tuples>>

ReadRow(c) ==
    LET k == call[c]
    IN  /\ k.pc = "row"
        /\ IF row = None
           THEN /\ Goto(c, Idle)
                /\ copy' = IF k.op = "load" THEN None ELSE copy
                /\ adv' = IF k.op = "fork" THEN None ELSE adv
           ELSE /\ Goto(c, [k EXCEPT !.pc = "events", !.seen = row])
                /\ UNCHANGED <<copy, adv>>
        /\ UNCHANGED <<told, faults, row, events, tuples>>

\* The events, and the session made of what was read: no events for the leaf
\* of the row is an error. Where the walk of the lineage does not end, the call
\* does not either.
ReadEvents(c) ==
    LET k    == call[c]
        torn == events = <<>> /\ k.seen.leaf # None
        s    == [state |-> k.seen.state, events |-> events]
    IN  /\ k.pc = "events"
        /\ ~Loops(events)
        /\ IF k.op = "fork" /\ ~torn
           THEN Goto(c, [k EXCEPT !.pc = "write", !.seen = s]) /\ UNCHANGED adv
           ELSE Goto(c, Idle) /\ adv' = IF adv = c THEN None ELSE adv
        /\ copy' = IF k.op = "load" /\ ~torn THEN s ELSE copy
        /\ UNCHANGED <<told, faults, row, events, tuples>>

\* with_session_lock, which the forks call: pg_advisory_xact_lock.
PgFork(c) ==
    /\ adv = None
    /\ Begin(c, "fork", None, "row")
    /\ adv' = c
    /\ UNCHANGED <<copy, told, faults, row, events, tuples>>

\* The fork leaves the session as it read it, and saves it.
ForkWrite(c) ==
    LET k == call[c]
    IN  /\ k.pc = "write"
        /\ Write(k.seen, {})
        /\ adv' = None
        /\ Goto(c, Idle)
        /\ UNCHANGED <<copy, faults, tuples>>

\* save, of what an agent loaded and perhaps one message more.
PgSave(c) ==
    /\ AtOnce(c)
    /\ copy # None
    /\ \E new \in {{}} \cup {{m} : m \in Msg \cap Fresh} :
         /\ Write(copy, new)
         /\ copy' = With(copy, new)
    /\ UNCHANGED <<faults, adv, tuples>>

\* delete and cleanup_expired: the row, and all that refers to it.
PgDelete(c) ==
    /\ AtOnce(c)
    /\ row # None
    /\ row' = None
    /\ events' = <<>>
    /\ tuples' = [i \in Item |-> "absent"]
    /\ told' = Gone
    /\ UNCHANGED <<copy, faults, adv>>

\* restore_bundle, of what an agent has in memory: refused if there is a row.
PgRestore(c) ==
    /\ AtOnce(c)
    /\ copy # None
    /\ row = None
    /\ row' = [state |-> copy.state, leaf |-> HeadIn(copy.events)]
    /\ events' = copy.events
    /\ \E items \in SUBSET (Item \cap Fresh) :
         /\ tuples' = [i \in Item |-> IF i \in items THEN "pending" ELSE "absent"]
         /\ told' = [Overwritten(MsgsIn(copy.events), {}) EXCEPT
                       !.used = @ \cup items]
    /\ UNCHANGED <<copy, faults, adv>>

-----------------------------------------------------------------------------
(* The queue *)

\* enqueue: an item belongs to a row.
PgEnqueue(c) ==
    /\ AtOnce(c)
    /\ row # None
    /\ \E i \in Item \cap Fresh : tuples' = [tuples EXCEPT ![i] = "pending"] /\ Use({i})
    /\ UNCHANGED <<copy, faults, row, events, adv>>

\* dequeue: one UPDATE of the first pending item that nobody has locked.
PgDequeue(c) ==
    /\ \E i \in Pending :
         /\ Begin(c, "dequeue", i, "taken")
         /\ tuples' = [tuples EXCEPT ![i] = "processing"]
    /\ UNCHANGED <<copy, told, faults, row, events, adv>>

PgGiveOut(c) ==
    /\ call[c].pc = "taken"
    /\ told' = [told EXCEPT !.given = @ \cup {call[c].arg}]
    /\ Goto(c, Idle)
    /\ UNCHANGED <<copy, faults, row, events, adv, tuples>>

\* cancel_queued: one UPDATE of a pending item.
PgCancel(c) ==
    /\ AtOnce(c)
    /\ \E i \in Pending :
         /\ tuples' = [tuples EXCEPT ![i] = "cancelled"]
         /\ told' = [told EXCEPT !.cancelled = @ \cup {i}]
    /\ UNCHANGED <<copy, faults, row, events, adv>>

\* replace_pending_queue deletes the items of every status.
PgReplace(c) ==
    /\ AtOnce(c)
    /\ row # None
    /\ \E items \in SUBSET (Item \cap Fresh) :
         /\ tuples' = [i \in Item |-> IF i \in items THEN "pending" ELSE "absent"]
         /\ Use(items)
    /\ UNCHANGED <<copy, faults, row, events, adv>>

\* A call is dropped, or its last reply got lost. A transaction is rolled back,
\* with the advisory lock; an item that was taken stays in processing.
PgDropped(c) ==
    /\ call[c].pc # "idle"
    /\ Fault
    /\ Goto(c, Idle)
    /\ adv' = IF adv = c THEN None ELSE adv
    /\ UNCHANGED <<copy, told, row, events, tuples>>

-----------------------------------------------------------------------------
PgNext ==
    \E c \in Caller :
         \/ PgAppend(c) \/ AppendTx(c) \/ AppendFails(c) \/ PgFinalize(c)
         \/ PgLoad(c) \/ ReadRow(c) \/ ReadEvents(c)
         \/ PgFork(c) \/ ForkWrite(c) \/ PgSave(c) \/ PgDelete(c) \/ PgRestore(c)
         \/ PgEnqueue(c) \/ PgDequeue(c) \/ PgGiveOut(c) \/ PgCancel(c) \/ PgReplace(c)
         \/ PgDropped(c)

PgSpec == PgInit /\ [][PgNext]_pgVars

-----------------------------------------------------------------------------
(* Properties *)

\* A message that landed stays on the line that the next message continues,
\* until a session from which it is missing is written over it, or a message
\* is appended a second time. So a fork or a save that read all there is, and
\* any number of concurrent appends, hide nothing.
HistoryKept ==
    row # None => told.kept \subseteq Lineage(events, row.leaf)

\* An item of the queue is given out at most once, and never after it was
\* cancelled: every place it can be in is the only one.
PgHandedOnce == \A i \in Item : OnePlace(i, Pending)
=============================================================================
