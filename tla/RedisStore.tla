----------------------------- MODULE RedisStore -----------------------------
(***************************************************************************)
(* The Redis backend (src/src/session/persistence_redis.rs) and the lock   *)
(* it takes (src/src/session/lock.rs).                                     *)
(*                                                                         *)
(* A step is one command, one MULTI or one script: the server runs each    *)
(* alone, and everything else may happen between two of them. A caller may *)
(* be dropped there, a reply may get lost, and the lease of the lock may   *)
(* run out while its holder works. Sessions may expire.                    *)
(***************************************************************************)
EXTENDS SharedStore

Orphan == "orphan"  \* a token nobody has any more

VARIABLES
    session,  \* the value of the session's key: [msgs, state], or None
    lock,     \* the lock's key: the caller whose token it has, Orphan or None
    queue,    \* members of the session's sorted set
    index     \* queue_index: the items that can be cancelled by id

redisVars == <<call, copy, told, faults, session, lock, queue, index>>
dataVars  == <<session, queue, index>>

RedisInit ==
    /\ InitClients
    /\ session = [msgs |-> {}, state |-> "Running"]
    /\ lock = None
    /\ queue = {}
    /\ index = {}

-----------------------------------------------------------------------------
(* Mutations: lock, GET, change the copy, compare-and-set, release *)

\* The closures of add_message, finalize and the forks, on a loaded session;
\* None when they return an error: a known message is a DuplicateNode. A fork
\* only reads; its write renews updated_at.
Mutated(s, op, arg) ==
    CASE op = "append"   -> IF arg \in s.msgs THEN None
                            ELSE [s EXCEPT !.msgs = @ \cup {arg}]
      [] op = "finalize" -> LET next == Finalize(s.state, arg)
                            IN  IF next = "Illegal" THEN None
                                ELSE [s EXCEPT !.state = next]
      [] op = "fork"     -> s

RedisMutate(c) ==
    /\ \/ \E m \in Msg \cap Fresh : Begin(c, "append", m, "acquire") /\ Use({m})
       \/ /\ \/ \E t \in Ends \ told.used : Begin(c, "finalize", t, "acquire")
             \/ Begin(c, "fork", None, "acquire")
          /\ UNCHANGED told
    /\ UNCHANGED <<copy, faults, lock, dataVars>>

\* How the attempt ended. A failure is final, or the mutation is tried again;
\* with_session_lock never tries again.
Ended(k, result) == [k EXCEPT !.pc = "release", !.seen = None, !.result = result]

Failures(k) ==
    {Ended(k, "error")} \cup
    IF k.op # "fork" /\ k.tries < MaxRetries THEN {Ended(k, "again")} ELSE {}

\* SET NX PX. When its reply gets lost, the token is nobody's.
Acquire(c) ==
    LET k == call[c]
    IN  /\ k.pc = "acquire"
        /\ lock = None
        /\ \/ /\ lock' = c
              /\ Goto(c, [k EXCEPT !.pc = "get", !.lease = TRUE])
              /\ UNCHANGED faults
           \/ /\ lock' = Orphan
              /\ Fault
              /\ \E next \in Failures(k) : Goto(c, next)
        /\ UNCHANGED <<copy, told, dataVars>>

\* The attempts of `acquire` are used up: no attempt is made again.
AcquireFails(c) ==
    /\ call[c].pc = "acquire"
    /\ lock # None
    /\ Goto(c, Idle)
    /\ UNCHANGED <<copy, told, faults, lock, dataVars>>

\* GET, the closure and the validation.
Get(c) ==
    LET k == call[c]
        refused == session = None \/ Mutated(session, k.op, k.arg) = None
    IN  /\ k.pc = "get"
        /\ IF refused
           THEN Goto(c, Ended(k, "error"))
           ELSE Goto(c, [k EXCEPT !.pc = "cas", !.seen = session])
        /\ UNCHANGED <<copy, told, faults, lock, dataVars>>

\* Mutant: the script sets without comparing.
SameUnchecked(seen) == session # None

\* The comparison of the script.
Same(seen) == session # None /\ session = seen

\* compare_and_set_session: the session is set, and the reply may get lost.
CompareAndSet(c) ==
    LET k == call[c]
    IN  /\ k.pc = "cas"
        /\ Same(k.seen)
        /\ session' = Mutated(k.seen, k.op, k.arg)
        /\ told' = IF k.op = "append" THEN Landed(k.arg) ELSE told
        /\ \/ Goto(c, Ended(k, "ok")) /\ UNCHANGED faults
           \/ Fault /\ \E next \in Failures(k) : Goto(c, next)
        /\ UNCHANGED <<copy, lock, queue, index>>

\* GET or the script fails. The script refuses whenever the session was
\* written meanwhile, an equal one too when its updated_at is another.
CommandFails(c) ==
    LET k == call[c]
    IN  /\ k.pc \in {"get", "cas"}
        /\ \E next \in Failures(k) : Goto(c, next)
        /\ UNCHANGED <<copy, told, faults, lock, dataVars>>

\* Mutant: the script deletes the key whoever has it.
FreedUnchecked(c) == None

\* RedisLock::release deletes the key if it still has the caller's token.
Freed(c) == IF lock = c THEN None ELSE lock

\* The lock is released, or its release gets lost; then the call returns or
\* tries again.
Release(c) ==
    LET k == call[c]
    IN  /\ k.pc = "release"
        /\ \/ lock' = Freed(c) /\ UNCHANGED faults
           \/ lock = c /\ Fault /\ lock' = Orphan
        /\ Goto(c, IF k.result = "again"
                   THEN [k EXCEPT !.pc = "acquire", !.tries = @ + 1,
                                  !.lease = FALSE, !.result = "none"]
                   ELSE Idle)
        /\ told' = IF k.op = "append" /\ k.result = "ok"
                   THEN [told EXCEPT !.acked = @ \cup {k.arg}] ELSE told
        /\ UNCHANGED <<copy, dataVars>>

\* The TTL of the lock runs out; nobody extends it.
LeaseExpires ==
    /\ lock # None
    /\ IF lock \in Caller
       THEN Fault /\ Goto(lock, [call[lock] EXCEPT !.lease = FALSE])
       ELSE UNCHANGED <<faults, call>>
    /\ lock' = None
    /\ UNCHANGED <<copy, told, dataVars>>

\* A call is dropped between two commands, or a command of it fails.
Dropped(c) ==
    /\ call[c].pc \notin {"idle", "acquire"}
    /\ Fault
    /\ Goto(c, Idle)
    /\ lock' = IF lock = c THEN Orphan ELSE lock
    /\ UNCHANGED <<copy, told, dataVars>>

-----------------------------------------------------------------------------
(* Whole sessions *)

RedisLoad(c) ==
    /\ AtOnce(c)
    /\ copy' = session
    /\ UNCHANGED <<told, faults, lock, dataVars>>

\* save: SET in a MULTI, no lock and no comparison. An agent saves what it
\* loaded, perhaps with a message it has added since.
RedisSave(c) ==
    /\ AtOnce(c)
    /\ copy # None
    /\ \E new \in {{}} \cup {{m} : m \in Msg \cap Fresh} :
         /\ session' = [copy EXCEPT !.msgs = @ \cup new]
         /\ copy' = session'
         /\ told' = Overwritten(copy.msgs, new)
    /\ UNCHANGED <<faults, lock, queue, index>>

\* The session's key has a TTL; the queue has none.
SessionExpires ==
    /\ session # None
    /\ Fault
    /\ session' = None
    /\ told' = Gone
    /\ UNCHANGED <<call, copy, lock, queue, index>>

\* delete starts with the queue.
RedisDelete(c) ==
    /\ Begin(c, "delete", None, "unindex")
    /\ UNCHANGED <<copy, told, faults, lock, dataVars>>

\* ZRANGE: the items whose index entries go.
Unindex(c) ==
    LET k == call[c]
    IN  /\ k.pc = "unindex"
        /\ Goto(c, [k EXCEPT !.pc = "unindexing", !.todo = queue])
        /\ UNCHANGED <<copy, told, faults, lock, dataVars>>

\* One HDEL for each of them.
UnindexItem(c) ==
    LET k == call[c]
    IN  /\ k.pc = "unindexing"
        /\ \E i \in k.todo :
             /\ index' = index \ {i}
             /\ Goto(c, [k EXCEPT !.todo = @ \ {i}])
        /\ UNCHANGED <<copy, told, faults, session, lock, queue>>

\* DEL of the queue, with whatever was enqueued since the ZRANGE.
DeleteQueue(c) ==
    LET k == call[c]
    IN  /\ k.pc = "unindexing"
        /\ k.todo = {}
        /\ queue' = {}
        /\ Goto(c, [k EXCEPT !.pc = IF k.op = "delete" THEN "del" ELSE "entries"])
        /\ UNCHANGED <<copy, told, faults, session, lock, index>>

DeleteSession(c) ==
    /\ call[c].pc = "del"
    /\ session' = None
    /\ Goto(c, Idle)
    /\ told' = Gone
    /\ UNCHANGED <<copy, faults, lock, queue, index>>

\* restore_bundle reads the index and stages the bundle (what an agent has in
\* memory); the staging keys are its own.
RedisRestore(c) ==
    /\ call[c] = Idle
    /\ copy # None
    /\ Goto(c, [Idle EXCEPT !.op = "restore", !.pc = "stage", !.seen = copy])
    /\ UNCHANGED <<copy, told, faults, lock, dataVars>>

Stage(c) ==
    LET k == call[c]
    IN  /\ k.pc = "stage"
        /\ Goto(c, [k EXCEPT !.pc = "publish", !.todo = index])
        /\ UNCHANGED <<copy, told, faults, lock, dataVars>>

\* The publish script: refused, or the session, its queue and its index.
Publish(c) ==
    LET k == call[c]
    IN  /\ k.pc = "publish"
        /\ Goto(c, Idle)
        /\ IF session # None
           THEN UNCHANGED <<told, dataVars>>
           ELSE \E items \in SUBSET (Item \cap Fresh) :
                  /\ session' = k.seen
                  /\ queue' = items
                  /\ index' = (index \ k.todo) \cup items
                  /\ told' = [Overwritten(k.seen.msgs, {}) EXCEPT
                                !.used = @ \cup items]
        /\ UNCHANGED <<copy, faults, lock>>

-----------------------------------------------------------------------------
(* The queue *)

RedisEnqueue(c) ==
    /\ AtOnce(c)
    /\ \E i \in Item \cap Fresh :
         /\ queue' = queue \cup {i}
         /\ index' = index \cup {i}
         /\ Use({i})
    /\ UNCHANGED <<copy, faults, session, lock>>

\* Mutant: the item is only read, and removed with its index entry.
PoppedLater(i) == queue

\* ZPOPMIN takes the item out in one command.
Popped(i) == queue \ {i}

\* dequeue: ZPOPMIN, then HDEL. Which item of those with the best priority
\* comes first depends on its JSON, hence on nothing a caller knows.
Pop(c) ==
    /\ \E i \in queue :
         /\ Begin(c, "dequeue", i, "popped")
         /\ queue' = Popped(i)
    /\ UNCHANGED <<copy, told, faults, session, lock, index>>

GiveOut(c) ==
    LET i == call[c].arg
    IN  /\ call[c].pc = "popped"
        /\ index' = index \ {i}
        /\ told' = [told EXCEPT !.given = @ \cup {i}]
        /\ Goto(c, Idle)
        /\ UNCHANGED <<copy, faults, session, lock, queue>>

\* cancel_queued: HGET, then ZREM, then HDEL.
RedisCancel(c) ==
    /\ \E i \in index : Begin(c, "cancel", i, "zrem")
    /\ UNCHANGED <<copy, told, faults, lock, dataVars>>

Remove(c) ==
    LET k == call[c]
    IN  /\ k.pc = "zrem"
        /\ queue' = queue \ {k.arg}
        /\ Goto(c, [k EXCEPT !.pc = "hdel"])
        /\ told' = IF k.arg \in queue
                   THEN [told EXCEPT !.cancelled = @ \cup {k.arg}] ELSE told
        /\ UNCHANGED <<copy, faults, session, lock, index>>

CancelDone(c) ==
    /\ call[c].pc = "hdel"
    /\ index' = index \ {call[c].arg}
    /\ Goto(c, Idle)
    /\ UNCHANGED <<copy, told, faults, session, lock, queue>>

\* replace_pending_queue: ZRANGE, then a MULTI.
RedisReplace(c) ==
    /\ Begin(c, "replace", None, "zrange")
    /\ UNCHANGED <<copy, told, faults, lock, dataVars>>

ReadItems(c) ==
    LET k == call[c]
    IN  /\ k.pc = "zrange"
        /\ Goto(c, [k EXCEPT !.pc = "swap", !.todo = queue])
        /\ UNCHANGED <<copy, told, faults, lock, dataVars>>

Swap(c) ==
    LET k == call[c]
    IN  /\ k.pc = "swap"
        /\ \E items \in SUBSET (Item \cap Fresh) :
             /\ queue' = items
             /\ index' = (index \ k.todo) \cup items
             /\ Use(items)
        /\ Goto(c, Idle)
        /\ UNCHANGED <<copy, faults, session, lock>>

-----------------------------------------------------------------------------
(* cleanup_expired: the queue of a session that is gone, then the entries of *)
(* the index that lead nowhere. A check and what follows from it are two     *)
(* commands.                                                                 *)

RedisCleanup(c) ==
    /\ Begin(c, "cleanup", None,
             IF session = None /\ queue # {} THEN "unindex" ELSE "entries")
    /\ UNCHANGED <<copy, told, faults, lock, dataVars>>

Entries(c) ==
    LET k == call[c]
    IN  /\ k.pc = "entries"
        /\ Goto(c, [k EXCEPT !.pc = "entry", !.todo = index])
        /\ UNCHANGED <<copy, told, faults, lock, dataVars>>

\* EXISTS of the session, for the next entry.
CheckSession(c) ==
    LET k == call[c]
    IN  /\ k.pc = "entry"
        /\ IF k.todo = {}
           THEN Goto(c, Idle)
           ELSE \E i \in k.todo :
                  Goto(c, [k EXCEPT !.todo = @ \ {i}, !.arg = i,
                                    !.pc = IF session = None THEN "drop" ELSE "score"])
        /\ UNCHANGED <<copy, told, faults, lock, dataVars>>

\* ZSCORE of the item.
CheckItem(c) ==
    LET k == call[c]
    IN  /\ k.pc = "score"
        /\ Goto(c, [k EXCEPT !.pc = IF k.arg \in queue THEN "entry" ELSE "drop"])
        /\ UNCHANGED <<copy, told, faults, lock, dataVars>>

DropEntry(c) ==
    LET k == call[c]
    IN  /\ k.pc = "drop"
        /\ index' = index \ {k.arg}
        /\ Goto(c, [k EXCEPT !.pc = "entry"])
        /\ UNCHANGED <<copy, told, faults, session, lock, queue>>

-----------------------------------------------------------------------------
RedisNext ==
    \/ LeaseExpires
    \/ SessionExpires
    \/ \E c \in Caller :
         \/ RedisMutate(c) \/ Acquire(c) \/ AcquireFails(c) \/ Get(c)
         \/ CompareAndSet(c) \/ CommandFails(c) \/ Release(c) \/ Dropped(c)
         \/ RedisLoad(c) \/ RedisSave(c)
         \/ RedisDelete(c) \/ Unindex(c) \/ UnindexItem(c) \/ DeleteQueue(c)
         \/ DeleteSession(c)
         \/ RedisRestore(c) \/ Stage(c) \/ Publish(c)
         \/ RedisEnqueue(c) \/ Pop(c) \/ GiveOut(c)
         \/ RedisCancel(c) \/ Remove(c) \/ CancelDone(c)
         \/ RedisReplace(c) \/ ReadItems(c) \/ Swap(c)
         \/ RedisCleanup(c) \/ Entries(c) \/ CheckSession(c) \/ CheckItem(c)
         \/ DropEntry(c)

RedisSpec == RedisInit /\ [][RedisNext]_redisVars

-----------------------------------------------------------------------------
(* Properties *)

\* A message that landed through add_message stays until a whole session is
\* written over it, or the session is deleted or expires: however the lease
\* runs out, calls are dropped, tried again or overlap, no mutation loses the
\* message of another. And add_message never succeeds without landing.
MutationsKept ==
    /\ session # None => told.kept \subseteq session.msgs
    /\ told.acked \subseteq told.landed

\* As long as the lease of a mutation has not run out, the lock is its own:
\* nobody whose lease ran out, and no token that got lost, frees it.
LeaseHolds ==
    \A c \in Caller : call[c].lease => lock = c

\* An item of the queue is given out at most once, and never after it was
\* cancelled: every place it can be in is the only one.
RedisHandedOnce == \A i \in Item : OnePlace(i, queue)
=============================================================================
